---------------------------- MODULE AdaptiveWindow ----------------------------
(***************************************************************************)
(* A caching window built with the adaptive scheme (--enable-adaptive):    *)
(* ClampiWindow, whose table and buffer change their sizes under it.       *)
(*                                                                         *)
(* A CMPI_Get that has to evict first calls cl_adapt                       *)
(* (src/src/clampi_adaptive.c), which may replace the table or the buffer  *)
(* and throw everything away; the get, already handed to MPI, then returns *)
(* CL_FLUSHED.  cl_reset goes back to the configured sizes.  Between two   *)
(* such steps the window takes the steps of ClampiWindow, with the         *)
(* evictions counted.                                                      *)
(*                                                                         *)
(* Whether the counters of evictions call for a change is left open here   *)
(* (module Adaptive counts); which counter is not zero decides which       *)
(* changes there can be.                                                   *)
(***************************************************************************)
EXTENDS ClampiWindow, Resizing

CONSTANTS
  CacheLine,    \* CACHE_LINE
  HtSizes,      \* bound: sizes the table may take
  MemSizes      \* bound: sizes the buffer may take

ASSUME CacheLineAssumption == CacheLine \in Nat \ {0}
ASSUME SizesAssumption ==
  HtSizes \subseteq Nat \ {0} /\ MemSizes \subseteq Nat \ {0}

VARIABLE evictions  \* which of stat.ht_evictions, stat.sp_evictions are not zero

adaptiveVars == <<vars, evictions>>

AdaptiveInit == Init /\ evictions = {}

-----------------------------------------------------------------------------
(* A slip: the counters survive.                                           *)
EmptiedButCounters(n, m) ==
  /\ ht_entries' = n
  /\ mem_size' = m
  /\ Invalidated
  /\ UNCHANGED evictions

(* A slip: the copies that were pending survive.                           *)
EmptiedButQueue(n, m) ==
  /\ ht_entries' = n
  /\ mem_size' = m
  /\ heap' = EmptyHeap'
  /\ get_info' = NoKeys'
  /\ table' = {}
  /\ UNCHANGED queue
  /\ evictions' = {}

(* A slip: the regions survive.                                            *)
EmptiedButHeap(n, m) ==
  /\ ht_entries' = n
  /\ mem_size' = m
  /\ UNCHANGED heap
  /\ get_info' = NoKeys'
  /\ table' = {}
  /\ queue' = <<>>
  /\ evictions' = {}

(* CMPI_Win_invalidate, for n slots and m bytes.                           *)
Emptied(n, m) ==
  /\ ht_entries' = n
  /\ mem_size' = m
  /\ Invalidated
  /\ evictions' = {}

(* What a get that finds no entry may have to evict for: a conflict in the *)
(* hash table, whatever its load, or a lack of space, of which it learns   *)
(* only if the table is not full.                                          *)
EvictsFor(q) ==
  (IF table # {} THEN {"ht"} ELSE {})
    \cup (IF BestFit(heap, q.size) = {} /\ Cardinality(table) < ht_entries
          THEN {"sp"} ELSE {})

(* CL_FLUSHED: MPI has the get, but it is not cached.                      *)
GetFlushed(b, q) ==
  /\ Misses(b, q)
  /\ \E n \in HtSizes, m \in MemSizes :
       /\ \E e \in EvictsFor(q) :
            <<n, m>> \in NewSizes(ht_entries, mem_size, CacheLine,
                                  evictions \cup {e})
       /\ Emptied(n, m)
       /\ IF m = mem_size THEN NewTable /\ UNCHANGED mem
                          ELSE NewBuffer /\ UNCHANGED pending
  /\ IssueGet(b, q)
  /\ UNCHANGED <<win, info, mode, version, dirty>>

(* The other ways a get ends, with the evictions counted.                  *)
Evicted == \E v \in table : v \notin table' \/ get_info'[v] # get_info[v]

AdaptiveGet(b, q) ==
  /\ Get(b, q)
  /\ IF Evicted
     THEN \E e \in EvictsFor(q) : evictions' = evictions \cup {e}
     ELSE UNCHANGED evictions

-----------------------------------------------------------------------------
(* cl_reset: the configured sizes, everything new.                         *)
Reset ==
  /\ win = "open"
  /\ Emptied(HtSize, MemSize)
  /\ NewTable
  /\ NewBuffer
  /\ dirty' = FALSE
  /\ UNCHANGED <<win, info, mode, app, version>>

(* reset_data_structures clears the counters, with the others in "stat".   *)
AdaptiveInvalidate == Invalidate /\ evictions' = {}

AdaptiveFlush(r) ==
  /\ Flush(r)
  /\ evictions' = IF mode THEN {} ELSE evictions

AdaptiveWinFree == WinFree /\ evictions' = {}

AdaptiveWinCreate == WinCreate /\ evictions' = {}

(* MPI and the targets do not see the cache.                               *)
Uncounted ==
  /\ Update \/ \E b \in Bufs : Deliver(b)
  /\ UNCHANGED evictions

AdaptiveNext ==
  \/ AdaptiveWinCreate
  \/ AdaptiveWinFree
  \/ \E b \in Bufs, q \in Requests : AdaptiveGet(b, q) \/ GetFlushed(b, q)
  \/ \E r \in Ranks : AdaptiveFlush(r)
  \/ AdaptiveInvalidate
  \/ Reset
  \/ Uncounted

AdaptiveSpec == AdaptiveInit /\ [][AdaptiveNext]_adaptiveVars

-----------------------------------------------------------------------------
(* What cl_adapt leaves behind is sound for the sizes it has chosen: the   *)
(* descriptors tile the whole of the new buffer, the index, the table and  *)
(* the stack fit the new table.                                            *)
SoundForSizes ==
  /\ TypeOK
  /\ RegionsTile
  /\ HolesIndexed
  /\ TableMatchesHeap
  /\ WithinCapacity

(* No copy that was pending when the table or the buffer was replaced is   *)
(* made afterwards, and no uninitialised pending field is taken for one.   *)
CopiesMatch == PendingCopyMatches /\ CachedDataRight

(* The adaptive scheme does not show: while table and buffer are replaced  *)
(* in the middle of gets, with copies pending, the window still does what  *)
(* RmaWindow allows and nothing else.                                      *)
AdaptiveImplementsRma == Rma!Spec

(* The bytes a buffer can have and still lack space for request q: those   *)
(* of the other entries, and of holes between them and at the ends, all of *)
(* them too small.                                                         *)
LacksSpace(q) ==
  Cardinality({x \in (Requests \ {q}) \X Offsets : x[2] < x[1].size})
    + Cardinality(Requests \X (0 .. (q.size - 2)))

(* What a buffer grows to in which a request lacks space.                  *)
GrownSizes == {CLALIGN(2 * LacksSpace(q), CacheLine) : q \in Requests}

(* The buffer stops growing: once it has room for every request whatever   *)
(* the fragmentation, nothing makes cl_adapt double it again.              *)
BufferStopsGrowing ==
  \/ mem_size = MemSize
  \/ \E m \in GrownSizes : mem_size <= m

===============================================================================
