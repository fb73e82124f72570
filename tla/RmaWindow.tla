------------------------------ MODULE RmaWindow ------------------------------
(***************************************************************************)
(* What an application that calls CMPI_Get instead of MPI_Get is promised: *)
(* a window without a cache.  A get names a buffer, which holds the bytes  *)
(* of the target at some time between the call and the flush of its rank.  *)
(*                                                                         *)
(* A cache shows in three ways only.  A get may be answered before the     *)
(* call returns; the application must say when the target has changed      *)
(* under a window that is not invalidated by itself; and the process ends  *)
(* when too many gets wait for a flush.  ClampiWindow and AdaptiveWindow   *)
(* implement this module.                                                  *)
(***************************************************************************)
EXTENDS Integers, FiniteSets

CONSTANTS
  Ranks,       \* target ranks
  Requests,    \* the (rank, displacement, size) triples gets ask for
  Bufs,        \* origin buffers of the application
  Modes,       \* the kinds of window the application asks for
  AnyTarget,   \* TRUE: gets to several ranks may be outstanding
  Limit,       \* how many gets may wait for a flush
  MaxVersion,  \* bound: how often the target memory changes
  Junk,        \* contents of memory nobody has written
  None         \* no request, no mode

VARIABLES
  win,      \* "none", "open", or "exited"
  kind,     \* the kind of window asked for
  request,  \* the last get into each buffer
  answer,   \* the contents of the buffers
  waiting,  \* buffers of gets that have not been flushed ...
  late,     \* ... and those MPI has not delivered to
  version,  \* how often the target memory has changed
  stale     \* it changed and the application has not said so

vars == <<win, kind, request, answer, waiting, late, version, stale>>

Offsets == UNION {0 .. (q.size - 1) : q \in Requests}

Blank == [i \in Offsets |-> Junk]

(* The bytes a get asks for, as they are in the target now.                *)
Bytes(q) ==
  [i \in Offsets |->
     IF i < q.size
     THEN [rank |-> q.rank, disp |-> q.disp + i, version |-> version]
     ELSE Junk]

Init ==
  /\ win = "none"
  /\ kind = None
  /\ request = [b \in Bufs |-> None]
  /\ answer = [b \in Bufs |-> Blank]
  /\ waiting = {}
  /\ late = {}
  /\ version = 0
  /\ stale = FALSE

Create ==
  /\ win = "none"
  /\ win' = "open"
  /\ kind' \in Modes
  /\ UNCHANGED <<request, answer, waiting, late, version, stale>>

Free ==
  /\ win = "open"
  /\ waiting = {}
  /\ win' = "none"
  /\ kind' = None
  /\ request' = [b \in Bufs |-> None]
  /\ answer' = [b \in Bufs |-> Blank]
  /\ stale' = FALSE
  /\ UNCHANGED <<waiting, late, version>>

(* Rules the application keeps: a buffer is not reused before its get is   *)
(* flushed, and it says that the target has changed before it asks again.  *)
MayGet(b, q) ==
  /\ win = "open"
  /\ b \notin waiting
  /\ ~stale
  /\ AnyTarget \/ \A c \in waiting : request[c].rank = q.rank

(* Answered at once, with what is in the target.                           *)
GetNow(b, q) ==
  /\ MayGet(b, q)
  /\ request' = [request EXCEPT ![b] = q]
  /\ answer' = [answer EXCEPT ![b] = Bytes(q)]
  /\ UNCHANGED <<win, kind, waiting, late, version, stale>>

(* To be answered by the flush.                                            *)
GetLater(b, q) ==
  /\ MayGet(b, q)
  /\ request' = [request EXCEPT ![b] = q]
  /\ answer' = [answer EXCEPT ![b] = Blank]
  /\ waiting' = waiting \cup {b}
  /\ late' = late \cup {b}
  /\ UNCHANGED <<win, kind, version, stale>>

Deliver(b) ==
  /\ win = "open"
  /\ b \in late
  /\ answer' = [answer EXCEPT ![b] = Bytes(request[b])]
  /\ late' = late \ {b}
  /\ UNCHANGED <<win, kind, request, waiting, version, stale>>

(* The gets to rank r are complete.  The application uses what it got and  *)
(* the buffers are its own again.                                          *)
Flush(r) ==
  LET rest == {b \in waiting : request[b].rank # r} IN
  /\ win = "open"
  /\ AnyTarget \/ rest = {}
  /\ waiting' = rest
  /\ late' = late \cap rest
  /\ request' = [b \in Bufs |-> IF b \in rest THEN request[b] ELSE None]
  /\ answer' = [b \in Bufs |-> IF b \in rest THEN answer[b] ELSE Blank]
  /\ UNCHANGED <<win, kind, version, stale>>

(* The memory of the targets changes while no get is outstanding.          *)
Update ==
  /\ win = "open"
  /\ kind # "ALWAYS_CACHE"
  /\ waiting = {}
  /\ version < MaxVersion
  /\ version' = version + 1
  /\ request' = [b \in Bufs |-> None]
  /\ answer' = [b \in Bufs |-> Blank]
  /\ stale' = (kind = "USER_DEFINED")
  /\ UNCHANGED <<win, kind, waiting, late>>

(* The application says that the target may have changed.                  *)
Invalidate ==
  /\ win = "open"
  /\ stale' = FALSE
  /\ UNCHANGED <<win, kind, request, answer, waiting, late, version>>

(* One get more than may wait for a flush.                                 *)
Exit ==
  /\ win = "open"
  /\ Cardinality(waiting) >= Limit
  /\ win' = "exited"
  /\ UNCHANGED <<kind, request, answer, waiting, late, version, stale>>

Next ==
  \/ Create
  \/ Free
  \/ \E b \in Bufs, q \in Requests : GetNow(b, q) \/ GetLater(b, q)
  \/ \E b \in Bufs : Deliver(b)
  \/ \E r \in Ranks : Flush(r)
  \/ Update
  \/ Invalidate
  \/ Exit

Spec == Init /\ [][Next]_vars

===============================================================================
