----------------------------- MODULE ClampiWindow -----------------------------
(***************************************************************************)
(* One caching window of one process: CMPI_Win_create/allocate, CMPI_Get,  *)
(* CMPI_Win_flush, CMPI_Win_invalidate and CMPI_Win_free (the clampi files *)
(* under src/src), built without the adaptive scheme.                      *)
(*                                                                         *)
(* A call of the library is one action: the library is sequential code in  *)
(* one process.  Its environment is the rest of the specification: the MPI *)
(* library, which completes a get at any time between the call and the     *)
(* flush of its target, the memory of the targets, and the application,    *)
(* which keeps MPI's rules (a buffer is not reused before its get is       *)
(* flushed, no target memory changes while a get is outstanding).          *)
(*                                                                         *)
(* The hash table is the set of the entries it indexes: which slot an      *)
(* entry sits in, and with it whether an insertion meets a conflict and    *)
(* which entry the scores single out as the victim, is left open (module   *)
(* CuckooTable has the slots).                                             *)
(***************************************************************************)
EXTENDS RegionHeap

CONSTANTS
  HtSize,       \* clampi.htsize
  MemSize,      \* clampi.memsize, in whole cache lines
  Ranks,        \* target ranks
  Requests,     \* the (rank, displacement, size) triples gets ask for
  Bufs,         \* origin buffers of the application
  PendingStack, \* CL_PENDING_STACK
  AddrRange,    \* how many values a target_disp keeps as an int key
  Modes,        \* the values of CLAMPI_MODE windows are created with
  ModeBytes,    \* outcomes of "cache->mode == CLAMPI_TRANSPARENT[0]"
  AnyTarget,    \* TRUE: a flush may leave gets to other ranks outstanding
  MaxVersion,   \* bound: how often the target memory changes
  FreshPending, \* what the pending field, an int8_t, may hold in new memory
  Junk,         \* contents of memory nobody has written
  None          \* no key, no request

ASSUME HtSizeAssumption == HtSize \in Nat \ {0}
ASSUME MemSizeAssumption == MemSize \in Nat \ {0}
ASSUME PendingStackAssumption == PendingStack \in Nat \ {0}
ASSUME AddrRangeAssumption == AddrRange \in Nat \ {0}
ASSUME RequestsAssumption ==
  Requests \subseteq [rank : Ranks, disp : Nat, size : Nat]
ASSUME NoneAssumption ==
  None \notin [rank : Ranks, addr : Nat, size : Nat] \cup Requests
ASSUME ModesAssumption ==
  /\ Modes \subseteq {"TRANSPARENT", "ALWAYS_CACHE", "USER_DEFINED"}
  /\ ModeBytes \subseteq BOOLEAN
  /\ AnyTarget \in BOOLEAN
  /\ MaxVersion \in Nat
ASSUME FreshPendingAssumption == FreshPending \subseteq Int

VARIABLES
  win,        \* "none", "open", or "exited" when the library ended the process
  info,       \* the CLAMPI_MODE the window was created with
  mode,       \* does cache->mode read as transparent?
  heap,       \* table_ptr, free_entries, free_idx (module RegionHeap)
  get_info,   \* the key of a descriptor, None once the union holds a size
  pending,    \* -1, or the entry's slot in the queue of pending copies;
              \* anything in a descriptor that has not been used
  table,      \* the descriptors the hash table indexes
  queue,      \* cache->pending[0 .. penptr-1]
  mem,        \* the memory buffer, byte by byte
  buf,        \* the origin buffers, byte by byte
  asked,      \* the last get into each buffer
  unflushed,  \* buffers of gets that have not been flushed
  net,        \* buffers MPI has not delivered to yet
  version,    \* how often the target memory has changed
  dirty       \* it changed and the application has not invalidated since

cache == <<sizes, info, mode, heap, get_info, pending, table, queue, mem>>
app   == <<buf, asked, unflushed, net>>
vars  == <<win, cache, app, version, dirty>>

-----------------------------------------------------------------------------
(* cl_get_t: the displacement, an MPI_Aint, is stored in an int.           *)
Key(q) == [rank |-> q.rank, addr |-> q.disp % AddrRange, size |-> q.size]

Keys == {Key(q) : q \in Requests}

(* Byte i of the answer to q, and of a buffer that has received it.        *)
Byte(q, i) == [rank |-> q.rank, disp |-> q.disp + i, version |-> version]

Offsets == UNION {0 .. (q.size - 1) : q \in Requests}

Unwritten == [i \in Offsets |-> Junk]

Delivered(b) ==
  [i \in Offsets |-> IF i < asked[b].size THEN Byte(asked[b], i) ELSE Junk]

(* cl_pending_t.                                                           *)
PendingCopy ==
  [target_addr : Nat, origin_addr : Bufs, entry : Entries, size : Nat]

-----------------------------------------------------------------------------
NoKeys    == [e \in Entries |-> None]
NoPending == [e \in Entries |-> -1]
Blank     == [x \in Bytes |-> Junk]

(* The heap and the hash table of a new window, or of a resized one, come  *)
(* with descriptors whose pending fields are not initialised; a new buffer *)
(* holds anything.                                                         *)
NewTable == pending' \in [Entries' -> FreshPending]

NewBuffer == mem' = Blank'

(* There is no window yet, so its cache has no contents that matter.       *)
Init ==
  /\ ht_entries = HtSize
  /\ mem_size = MemSize
  /\ win = "none"
  /\ info = None
  /\ mode = FALSE
  /\ heap = EmptyHeap
  /\ get_info = NoKeys
  /\ pending = NoPending
  /\ table = {}
  /\ queue = <<>>
  /\ mem = Blank
  /\ buf = [b \in Bufs |-> Unwritten]
  /\ asked = [b \in Bufs |-> None]
  /\ unflushed = {}
  /\ net = {}
  /\ version = 0
  /\ dirty = FALSE

(* reset_data_structures, for the sizes the cache now has.  The memory     *)
(* buffer and the pending fields keep what they hold.                      *)
Invalidated ==
  /\ heap' = EmptyHeap'
  /\ get_info' = NoKeys'
  /\ table' = {}
  /\ queue' = <<>>

(* _cl_win_init.  The requested mode does not reach cache->mode: "mode" is *)
(* a char that is compared with, and assigned, the addresses of the string *)
(* literals CLAMPI_..., so it ends up as the low byte of one of them,      *)
(* whatever the info object says.  Everything is allocated anew and then   *)
(* reset, which writes no pending field.                                   *)
WinCreate ==
  /\ win = "none"
  /\ win' = "open"
  /\ info' \in Modes
  /\ mode' \in ModeBytes
  /\ UNCHANGED <<sizes, app, version, dirty>>
  /\ Invalidated
  /\ NewTable
  /\ NewBuffer

(* CMPI_Win_free: MPI frees the window, which requires that no get is      *)
(* outstanding, and the cache is no longer reachable.  Nothing is left of  *)
(* it; the next window has one of the configured sizes.                    *)
WinFree ==
  /\ win = "open"
  /\ unflushed = {}
  /\ win' = "none"
  /\ info' = None
  /\ mode' = FALSE
  /\ ht_entries' = HtSize
  /\ mem_size' = MemSize
  /\ Invalidated
  /\ pending' = NoPending'
  /\ mem' = Blank'
  /\ dirty' = FALSE
  /\ asked' = [b \in Bufs |-> None]
  /\ buf' = [b \in Bufs |-> Unwritten]
  /\ UNCHANGED <<unflushed, net, version>>

-----------------------------------------------------------------------------
(* The application asks for q: it owns the buffer and, in user-defined     *)
(* mode, has invalidated the cache since the target memory changed.        *)
MayGet(b, q) ==
  /\ win = "open"
  /\ b \notin unflushed
  /\ ~dirty
  /\ AnyTarget \/ \A c \in unflushed : asked[c].rank = q.rank

(* ht_lookup.                                                              *)
Lookup(q) == {e \in table : get_info[e] = Key(q)}

(* A slip: a hit on an entry whose data has not arrived.                   *)
GetHitInFlight(b, q) ==
  /\ MayGet(b, q)
  /\ \E e \in Lookup(q) :
       buf' = [buf EXCEPT ![b] = [i \in Offsets |->
                 IF i < get_info[e].size THEN mem[heap.offset[e] + i] ELSE Junk]]
  /\ asked' = [asked EXCEPT ![b] = q]
  /\ UNCHANGED <<win, cache, unflushed, net, version, dirty>>

(* A hit: the data is copied out of the buffer before the call returns.    *)
GetHit(b, q) ==
  /\ MayGet(b, q)
  /\ \E e \in Lookup(q) :
       /\ pending[e] < 0
       /\ buf' = [buf EXCEPT ![b] =
                    [i \in Offsets |-> IF i < get_info[e].size
                                       THEN mem[heap.offset[e] + i]
                                       ELSE Junk]]
  /\ asked' = [asked EXCEPT ![b] = q]
  /\ UNCHANGED <<win, cache, unflushed, net, version, dirty>>

(* MPI_Get into the buffer, whose contents are undefined until it is done. *)
IssueGet(b, q) ==
  /\ asked' = [asked EXCEPT ![b] = q]
  /\ unflushed' = unflushed \cup {b}
  /\ net' = net \cup {b}
  /\ buf' = [buf EXCEPT ![b] = Unwritten]

(* CL_IN_FLIGHT, or CL_NOT_CACHED for a message larger than the buffer.    *)
GetUncached(b, q) ==
  /\ MayGet(b, q)
  /\ \/ \E e \in Lookup(q) : pending[e] >= 0
     \/ Lookup(q) = {} /\ q.size > mem_size
  /\ IssueGet(b, q)
  /\ UNCHANGED <<win, cache, version, dirty>>

(* The search for a place: the hole taken out of the index (free_region)   *)
(* and the victim.  ht_insert_check may report a conflict whatever the     *)
(* load of the table, and must when it is full; without a conflict the     *)
(* victim scan runs only if no hole is large enough.                       *)
FreeRegionsFor(sz) ==
  IF BestFit(heap, sz) = {} THEN {NOENTRY} ELSE BestFit(heap, sz)

VictimsFor(fr) ==
  table \cup (IF fr # NOENTRY /\ Cardinality(table) < ht_entries
              THEN {NOENTRY} ELSE {})

Searched(fr) == IF fr = NOENTRY THEN heap ELSE Unindex(heap, fr)

EvictedHeap(fr, v, sz) ==
  IF v = NOENTRY THEN Searched(fr) ELSE HeapAfterEvict(Searched(fr), v, fr, sz)

FinalRegion(fr, v, sz) ==
  IF v = NOENTRY THEN fr ELSE RegionAfterEvict(Searched(fr), v, fr, sz)

Fits(h, r, sz) == r # NOENTRY /\ h.size[r] >= sz

Misses(b, q) ==
  /\ MayGet(b, q)
  /\ Lookup(q) = {}
  /\ q.size <= mem_size

(* PEN_PTR(win, cache) >= PEN_TOP(win), and the same off by one.           *)
QueueFullLate  == Len(queue) > PendingStack
QueueFullEarly == Len(queue) >= PendingStack - 1
QueueFull      == Len(queue) >= PendingStack

(* A slip: the victim stays in the hash table if the get is not cached.    *)
GetNotCachedKeeps(b, q) ==
  /\ Misses(b, q)
  /\ \E fr \in FreeRegionsFor(q.size) : \E v \in VictimsFor(fr) :
       /\ ~Fits(EvictedHeap(fr, v, q.size), FinalRegion(fr, v, q.size), q.size)
       /\ heap' = EvictedHeap(fr, v, q.size)
       /\ pending' = [pending EXCEPT ![v] = -1]
  /\ IssueGet(b, q)
  /\ UNCHANGED <<sizes, win, info, mode, queue, mem, table, get_info, version,
                 dirty>>

(* The eviction did not make enough room: CL_NOT_CACHED, but the victim is *)
(* gone.                                                                   *)
GetNotCached(b, q) ==
  /\ Misses(b, q)
  /\ \E fr \in FreeRegionsFor(q.size) : \E v \in VictimsFor(fr) :
       /\ ~Fits(EvictedHeap(fr, v, q.size), FinalRegion(fr, v, q.size), q.size)
       /\ heap' = EvictedHeap(fr, v, q.size)
       /\ table' = table \ {v}
       /\ get_info' = [get_info EXCEPT ![v] = None]
       /\ pending' = [pending EXCEPT ![v] = -1]
  /\ IssueGet(b, q)
  /\ UNCHANGED <<sizes, win, info, mode, queue, mem, version, dirty>>

(* The entry is cached: its data follows at the flush.                     *)
GetCached(b, q) ==
  /\ Misses(b, q)
  /\ ~QueueFull
  /\ \E fr \in FreeRegionsFor(q.size) : \E v \in VictimsFor(fr) :
       LET h == EvictedHeap(fr, v, q.size)
           r == FinalRegion(fr, v, q.size)
           e == NewEntry(h, r, q.size)
       IN /\ Fits(h, r, q.size)
          /\ heap' = Carve(h, r, q.size)
          /\ table' = (table \ {v}) \cup {e}
          /\ get_info' = [f \in Entries |-> IF f = e THEN Key(q)
                                            ELSE IF f = v THEN None
                                            ELSE get_info[f]]
          /\ pending' = [f \in Entries |-> IF f = e THEN Len(queue)
                                           ELSE IF f = v THEN -1
                                           ELSE pending[f]]
          /\ queue' = Append(queue, [target_addr |-> heap'.offset[e],
                                     origin_addr |-> b,
                                     entry |-> e, size |-> q.size])
  /\ IssueGet(b, q)
  /\ UNCHANGED <<sizes, win, info, mode, mem, version, dirty>>

(* There is a place but the queue of pending copies is full: exit(-1).     *)
GetExits(b, q) ==
  /\ Misses(b, q)
  /\ QueueFull
  /\ \E fr \in FreeRegionsFor(q.size) : \E v \in VictimsFor(fr) :
       Fits(EvictedHeap(fr, v, q.size), FinalRegion(fr, v, q.size), q.size)
  /\ win' = "exited"
  /\ UNCHANGED <<cache, app, version, dirty>>

Get(b, q) ==
  \/ GetHit(b, q)
  \/ GetUncached(b, q)
  \/ GetNotCached(b, q)
  \/ GetCached(b, q)
  \/ GetExits(b, q)

-----------------------------------------------------------------------------
(* CMPI_Win_invalidate.                                                    *)
Invalidate ==
  /\ win = "open"
  /\ UNCHANGED sizes
  /\ Invalidated
  /\ dirty' = FALSE
  /\ UNCHANGED <<win, info, mode, pending, mem, app, version>>

(* Two slips: every copy is made, whatever became of its entry; a slot is  *)
(* compared with the wrong position.                                       *)
DueAlways   == 1 .. Len(queue)
DueOffByOne == {c \in 1 .. Len(queue) : pending[queue[c].entry] = c}

(* The slots whose entry still waits for exactly this copy: an eviction,   *)
(* and a new entry in the victim's descriptor, break the tie.              *)
Due == {c \in 1 .. Len(queue) : pending[queue[c].entry] = c - 1}

(* The copy that writes byte x last: the loop runs from the top down.      *)
CopiesTo(x) ==
  {c \in Due : x \in queue[c].target_addr ..
                     (queue[c].target_addr + queue[c].size - 1)}

LastCopyTo(x) == CHOOSE c \in CopiesTo(x) : \A d \in CopiesTo(x) : c <= d

(* The copies, from buffers that hold what "source" says.                  *)
DrainQueue(source) ==
  /\ mem' = [x \in Bytes |->
               IF CopiesTo(x) = {} THEN mem[x]
               ELSE LET c == queue[LastCopyTo(x)]
                    IN source[c.origin_addr][x - c.target_addr]]
  /\ pending' = [e \in Entries |->
                   IF \E c \in Due : queue[c].entry = e THEN -1
                   ELSE pending[e]]

(* CMPI_Win_flush: MPI completes the gets to the rank, then every pending  *)
(* copy is made, whatever its rank, and a window in transparent mode is    *)
(* invalidated.  The application uses the data and its buffers are free.   *)
Flush(r) ==
  LET done == {b \in unflushed : asked[b].rank = r}
      rest == unflushed \ done
  IN
  /\ win = "open"
  /\ AnyTarget \/ rest = {}
  /\ UNCHANGED <<sizes, win, info, mode, version, dirty>>
  /\ DrainQueue([b \in Bufs |-> IF b \in done \cap net THEN Delivered(b)
                                ELSE buf[b]])
  /\ IF mode THEN Invalidated
             ELSE queue' = <<>> /\ UNCHANGED <<heap, get_info, table>>
  /\ net' = net \ done
  /\ unflushed' = rest
  /\ asked' = [b \in Bufs |-> IF b \in rest THEN asked[b] ELSE None]
  /\ buf' = [b \in Bufs |-> IF b \in rest THEN buf[b] ELSE Unwritten]

-----------------------------------------------------------------------------
(* MPI completes a get before it is flushed.                               *)
Deliver(b) ==
  /\ win = "open"
  /\ b \in net
  /\ buf' = [buf EXCEPT ![b] = Delivered(b)]
  /\ net' = net \ {b}
  /\ UNCHANGED <<win, cache, asked, unflushed, version, dirty>>

(* The memory of the targets changes between two epochs.  No get is        *)
(* outstanding, what earlier gets returned is of the past, and the         *)
(* application invalidates if its window is the kind where it has to.      *)
Update ==
  /\ win = "open"
  /\ info # "ALWAYS_CACHE"
  /\ unflushed = {}
  /\ version < MaxVersion
  /\ version' = version + 1
  /\ asked' = [b \in Bufs |-> None]
  /\ buf' = [b \in Bufs |-> Unwritten]
  /\ dirty' = (info = "USER_DEFINED")
  /\ UNCHANGED <<win, cache, unflushed, net>>

Next ==
  \/ WinCreate
  \/ WinFree
  \/ \E b \in Bufs, q \in Requests : Get(b, q)
  \/ \E r \in Ranks : Flush(r)
  \/ Invalidate
  \/ \E b \in Bufs : Deliver(b)
  \/ Update

Spec == Init /\ [][Next]_vars

-----------------------------------------------------------------------------
(* The window as the application sees it.                                  *)
Rma == INSTANCE RmaWindow WITH
         Limit <- PendingStack,
         kind <- info, request <- asked, answer <- buf,
         waiting <- unflushed, late <- net, stale <- dirty

(* With the cache between them, the application and MPI notice nothing but *)
(* what RmaWindow allows: a hit returns what MPI_Get would return now, a   *)
(* miss what it returns by the flush, and the library ends the process     *)
(* only if PendingStack gets wait for a flush.                             *)
ImplementsRma == Rma!Spec

(* The types of the variables.  The pending field of a descriptor is one of *)
(* "slots".                                                                *)
Typed(slots) ==
  /\ SizesOK
  /\ win \in {"none", "open", "exited"}
  /\ info \in Modes \cup {None}
  /\ mode \in BOOLEAN
  /\ heap \in HeapType
  /\ get_info \in [Entries -> Keys \cup {None}]
  /\ pending \in [Entries -> slots]
  /\ table \subseteq Entries
  /\ queue \in Seq(PendingCopy) /\ Len(queue) <= PendingStack
  /\ DOMAIN mem = Bytes
  /\ DOMAIN buf = Bufs /\ \A b \in Bufs : DOMAIN buf[b] = Offsets
  /\ asked \in [Bufs -> Requests \cup {None}]
  /\ net \subseteq unflushed /\ unflushed \subseteq Bufs
  /\ version \in 0 .. MaxVersion
  /\ dirty \in BOOLEAN

Slots == -1 .. (PendingStack - 1)

PendingValues == FreshPending \cup Slots

(* The queue keeps within its limit and every entry of the hash table has  *)
(* -1 or a slot of the queue in its pending field, whatever new memory     *)
(* held.                                                                   *)
TypeOK ==
  /\ Typed(PendingValues)
  /\ \A e \in table : pending[e] \in Slots

(* The descriptors carve the buffer up between them: the lists that the    *)
(* evictions and placements of CMPI_Get rewrite in place keep joining one  *)
(* region to the next, and no byte is lost or given out twice.             *)
RegionsTile == Tiled(heap)

(* Every hole is in the index a search looks through, nothing else is, and *)
(* no two holes touch: a request fails for lack of a large enough hole     *)
(* only when there is none.                                                *)
HolesIndexed == Coalesced(heap) /\ Indexed(heap)

(* The hash table indexes exactly the regions that hold data, under the    *)
(* key of that data, and no key twice.                                     *)
TableMatchesHeap ==
  /\ table = BusyRegions(heap)
  /\ \A e \in table : get_info[e] \in Keys /\ get_info[e].size = heap.size[e]
  /\ \A e, f \in table : get_info[e] = get_info[f] => e = f

(* The hash table has a slot for every entry, and the AVL tree, whose pool *)
(* has one node per slot of the hash table, one for every hole.            *)
WithinCapacity ==
  /\ Cardinality(table) <= ht_entries
  /\ Cardinality(FreeRegions(heap)) <= ht_entries

(* No get runs out of descriptors: whatever region it may split, one is    *)
(* left on the stack (the assert of NEW_CENTRY, which tests an unsigned    *)
(* number, would not notice).  This is what "we need htsize*2 entries"     *)
(* (clampi_win.c) promises.  Nor does it run out of nodes of the tree      *)
(* between an eviction and the placement.                                  *)
DescriptorsSuffice ==
  \A q \in Requests :
    \A fr \in FreeRegionsFor(q.size) : \A v \in VictimsFor(fr) :
      LET h == EvictedHeap(fr, v, q.size)
          r == FinalRegion(fr, v, q.size)
      IN /\ Cardinality(h.free_idx) <= ht_entries
         /\ Fits(h, r, q.size) /\ h.size[r] # q.size => h.free_entries # <<>>

(* assert(ivictim!=-1): a get that finds no hole large enough, for a       *)
(* message no larger than the buffer, has something to evict.              *)
VictimExists ==
  \A q \in Requests :
    q.size <= mem_size /\ BestFit(heap, q.size) = {} => table # {}

(* An entry that waits for its data has its own pending copy, which goes   *)
(* from the buffer of the get that was to fetch it to where the entry is.  *)
PendingCopyMatches ==
  \A e \in table :
    pending[e] >= 0 =>
      LET i == pending[e] + 1 IN
      /\ i \in DOMAIN queue
      /\ queue[i].entry = e
      /\ queue[i].target_addr = heap.offset[e]
      /\ queue[i].size = heap.size[e]
      /\ queue[i].origin_addr \in unflushed
      /\ Key(asked[queue[i].origin_addr]) = get_info[e]

(* An entry that can be hit holds the bytes of every request it answers,   *)
(* as they are in the target's memory: neither a late copy for an entry    *)
(* that was evicted nor a new entry in its place damages it.               *)
CachedDataRight ==
  ~dirty =>
    \A e \in table :
      pending[e] < 0 =>
        \A q \in Requests :
          Key(q) = get_info[e] =>
            \A i \in 0 .. (q.size - 1) : mem[heap.offset[e] + i] = Byte(q, i)

(* What a get returns is what MPI_Get returns: at once if it hits, else    *)
(* when MPI has delivered.                                                 *)
GetsReturnTargetData ==
  \A b \in Bufs :
    asked[b] # None /\ b \notin net =>
      \A i \in 0 .. (asked[b].size - 1) : buf[b][i] = Byte(asked[b], i)

(* "if free_region!=NULL, we are sure that we are going to use this        *)
(* free_region" (clampi_get.c): when a hole is large enough the get is     *)
(* cached, whatever conflict the hash table reports.                       *)
FreeRegionIsUsed ==
  [][\A b \in Bufs, q \in Requests :
       GetNotCached(b, q) => BestFit(heap, q.size) = {}]_vars

(* The mode that lets the application do nothing about a target that       *)
(* changes: after a flush of such a window nothing is left in the cache.   *)
TransparentFlushInvalidates ==
  [][\A r \in Ranks : Flush(r) /\ info = "TRANSPARENT" => table' = {}]_vars

===============================================================================
