------------------------- MODULE AdaptiveWindow_proofs -------------------------
(***************************************************************************)
(* What holds of a window whose hash table and buffer change their sizes   *)
(* under it, in the middle of a get, with copies pending: all that holds   *)
(* of one whose sizes stay.                                                *)
(*                                                                         *)
(* The invariants are those of ClampiWindow_proofs.                        *)
(* A step of AdaptiveWindow is one of ClampiWindow, which keeps them, or   *)
(* it empties the cache: AdaptiveSteps.  What is proved here is that they  *)
(* hold of an emptied cache of other sizes, whatever the memory it has     *)
(* been given contains.                                                    *)
(*                                                                         *)
(* The last part bounds the buffer: how large one can be in which a get    *)
(* lacks space (SpaceLacking) follows from the order its regions are in.   *)
(***************************************************************************)
EXTENDS AdaptiveWindow, ClampiWindow_proofs, WellFoundedInduction

(* A step is one of a window whose sizes stay, a get that found the cache  *)
(* emptied by cl_adapt, or a reset.                                        *)
LEMMA AdaptiveSteps ==
  ASSUME [AdaptiveNext]_adaptiveVars
  PROVE  \/ [Next]_vars
         \/ \E b \in Bufs, q \in Requests : GetFlushed(b, q)
         \/ Reset
BY DEF AdaptiveNext, adaptiveVars, AdaptiveWinFree, AdaptiveGet,
       AdaptiveFlush, AdaptiveInvalidate, AdaptiveWinCreate, Uncounted, Next

(* Emptied or not, the cache has sizes it may have.                        *)
LEMMA EmptiedSizes ==
  /\ \A b \in Bufs, q \in Requests : GetFlushed(b, q) => SizesOK' /\ Invalidated
  /\ Reset => SizesOK' /\ Invalidated
<1>1. ASSUME NEW b \in Bufs, NEW q \in Requests, GetFlushed(b, q)
      PROVE  SizesOK' /\ Invalidated
  <2>1. PICK n \in HtSizes, m \in MemSizes : Emptied(n, m)
    BY <1>1 DEF GetFlushed
  <2> QED
    BY <2>1, SizesAssumption DEF Emptied, SizesOK
<1>2. ASSUME Reset
      PROVE  SizesOK' /\ Invalidated
  BY <1>2, HtSizeAssumption, MemSizeAssumption DEF Reset, Emptied, SizesOK
<1> QED
  BY <1>1, <1>2

(* Every step keeps the buffer, the index and the hash table in order for  *)
(* the sizes they have after it.                                           *)
LEMMA AdaptiveHeapStep ==
  ASSUME HeapInv, [AdaptiveNext]_adaptiveVars
  PROVE  HeapInv'
BY AdaptiveSteps, EmptiedSizes, HeapStep, InvalidatedInv

(* An emptied cache is well typed: a new table has a pending field for     *)
(* each of its descriptors, a new buffer all its bytes, and what was not   *)
(* replaced has the size it had.                                           *)
LEMMA FlushedTyped ==
  ASSUME Typed(PendingValues), NEW b \in Bufs, NEW q \in Requests, GetFlushed(b, q)
  PROVE  CacheTyped(PendingValues)'
<1>1. PICK n \in HtSizes, m \in MemSizes :
        /\ \E e \in EvictsFor(q) :
             <<n, m>> \in NewSizes(ht_entries, mem_size, CacheLine,
                                   evictions \cup {e})
        /\ Emptied(n, m)
        /\ IF m = mem_size THEN NewTable /\ UNCHANGED mem
                           ELSE NewBuffer /\ UNCHANGED pending
  BY DEF GetFlushed
<1>2. ht_entries' = n /\ mem_size' = m /\ Invalidated
  BY <1>1 DEF Emptied
<1>3. m # mem_size => n = ht_entries
  BY <1>1 DEF NewSizes
<1>4. pending' \in [Entries' -> PendingValues] /\ DOMAIN mem' = Bytes'
  <2>1. CASE m = mem_size
    <3>1. Bytes' = Bytes
      BY <1>2, <2>1 DEF Bytes
    <3> QED
      BY <1>1, <2>1, <3>1 DEF NewTable, PendingValues, Typed
  <2>2. CASE m # mem_size
    <3>1. Entries' = Entries
      BY <1>2, <1>3, <2>2 DEF Entries
    <3>2. DOMAIN mem' = Bytes'
      BY <1>1, <2>2 DEF NewBuffer, Blank
    <3> QED
      BY <1>1, <2>2, <3>1, <3>2 DEF Typed
  <2> QED
    BY <2>1, <2>2
<1> QED
  BY <1>2, <1>4, InvalidatedTyped DEF CacheTyped

LEMMA ResetTyped ==
  ASSUME Reset
  PROVE  CacheTyped(PendingValues)'
<1>1. Invalidated /\ NewTable /\ NewBuffer
  BY DEF Reset, Emptied
<1>2. pending' \in [Entries' -> PendingValues] /\ DOMAIN mem' = Bytes'
  BY <1>1 DEF NewTable, NewBuffer, Blank, PendingValues
<1> QED
  BY <1>1, <1>2, InvalidatedTyped DEF CacheTyped

(* Every step keeps the variables in their types.                          *)
LEMMA AdaptiveTypeStep ==
  ASSUME HeapInv, Typed(PendingValues), [AdaptiveNext]_adaptiveVars
  PROVE  Typed(PendingValues)'
<1>1. SizesOK' /\ heap' \in HeapType' /\ table' \subseteq Entries'
  <2>1. HeapInv'
    BY AdaptiveHeapStep
  <2> QED
    BY <2>1 DEF HeapInv, BusyRegions, Live
<1>2. CASE [Next]_vars
  BY <1>2, PendingNumbers, TypeStep
<1>3. ASSUME NEW b \in Bufs, NEW q \in Requests, GetFlushed(b, q)
      PROVE  Typed(PendingValues)'
  <2>1. /\ DOMAIN buf' = Bufs /\ \A c \in Bufs : DOMAIN buf'[c] = Offsets
        /\ asked' \in [Bufs -> Requests \cup {None}]
        /\ net' \subseteq unflushed' /\ unflushed' \subseteq Bufs
    <3>1. Types
      BY PendingNumbers DEF Types, Typed
    <3> QED
      BY <1>3, <3>1, IssueTypes DEF GetFlushed
  <2>2. UNCHANGED <<win, info, mode, version, dirty>>
    BY <1>3 DEF GetFlushed
  <2> QED
    BY <1>1, <1>3, <2>1, <2>2, FlushedTyped DEF CacheTyped, Typed
<1>4. CASE Reset
  <2>1. UNCHANGED <<win, info, mode, app, version>> /\ dirty' = FALSE
    BY <1>4 DEF Reset
  <2> QED
    BY <1>1, <1>4, <2>1, ResetTyped DEF app, CacheTyped, Typed
<1> QED
  BY <1>2, <1>3, <1>4, AdaptiveSteps

(* An entry has a slot or -1 here too: an emptied table has none.          *)
LEMMA AdaptiveTypeOKStep ==
  ASSUME HeapInv, TypeOK, [AdaptiveNext]_adaptiveVars
  PROVE  TypeOK'
<1>1. Typed(PendingValues)'
  BY AdaptiveTypeStep DEF TypeOK
<1>2. CASE [Next]_vars
  BY <1>2, TypeOKStep
<1>3. CASE Invalidated
  BY <1>1, <1>3 DEF Invalidated, TypeOK
<1> QED
  BY <1>2, <1>3, AdaptiveSteps, EmptiedSizes

(* An emptied cache has nothing that could disagree.                       *)
LEMMA EmptiedAgrees ==
  ASSUME HeapInv', Invalidated
  PROVE  TableMatchesHeap' /\ PendingCopyMatches' /\ CachedDataRight'
<1>1. table' = {} /\ table' = BusyRegions(heap)'
  BY DEF Invalidated, HeapInv
<1> QED
  BY <1>1 DEF TableMatchesHeap, PendingCopyMatches, CachedDataRight

LEMMA AdaptiveTableStep ==
  ASSUME HeapInv, Types, TableMatchesHeap, [AdaptiveNext]_adaptiveVars
  PROVE  TableMatchesHeap'
BY AdaptiveSteps, EmptiedSizes, AdaptiveHeapStep, EmptiedAgrees, TableStep

LEMMA AdaptivePendingStep ==
  ASSUME HeapInv, Types, PendingCopyMatches, [AdaptiveNext]_adaptiveVars
  PROVE  PendingCopyMatches'
BY AdaptiveSteps, EmptiedSizes, AdaptiveHeapStep, EmptiedAgrees, PendingStep

-----------------------------------------------------------------------------
(* The inductive invariant that needs no hypothesis.                       *)
AdaptiveInv ==
  HeapInv /\ TypeOK /\ TableMatchesHeap /\ PendingCopyMatches

LEMMA AdaptiveInvInit ==
  ASSUME AdaptiveInit
  PROVE  AdaptiveInv
BY SoundInit, TypeInit DEF AdaptiveInit, AdaptiveInv, Sound

LEMMA AdaptiveInvStep ==
  ASSUME AdaptiveInv, [AdaptiveNext]_adaptiveVars
  PROVE  AdaptiveInv'
BY TypesFollow, AdaptiveHeapStep, AdaptiveTypeOKStep, AdaptiveTableStep,
   AdaptivePendingStep
DEF AdaptiveInv

LEMMA AdaptiveInvariance == AdaptiveSpec => []AdaptiveInv
<1>1. AdaptiveInit => AdaptiveInv
  BY AdaptiveInvInit
<1>2. AdaptiveInv /\ [AdaptiveNext]_adaptiveVars => AdaptiveInv'
  BY AdaptiveInvStep
<1> QED
  BY <1>1, <1>2, PTL DEF AdaptiveSpec

(* Whatever sizes cl_adapt chooses, and whenever it does, what it leaves   *)
(* is sound for them.                                                      *)
THEOREM AlwaysSoundForSizes == AdaptiveSpec => []SoundForSizes
<1>1. AdaptiveInv => SoundForSizes
  <2> SUFFICES ASSUME AdaptiveInv
               PROVE  SoundForSizes
    OBVIOUS
  <2>1. WithinCapacity
    BY CapacityFollows DEF AdaptiveInv
  <2> QED
    BY <2>1 DEF AdaptiveInv, SoundForSizes, HeapInv, RegionsTile,
                HolesIndexed
<1> QED
  BY <1>1, AdaptiveInvariance, PTL

(* No copy outlives the entry it is for, and no pending field that was     *)
(* never written is taken for a pending copy.                              *)
THEOREM PendingCopiesSurviveResizing == AdaptiveSpec => []PendingCopyMatches
<1>1. AdaptiveInv => PendingCopyMatches
  BY DEF AdaptiveInv
<1> QED
  BY <1>1, AdaptiveInvariance, PTL

-----------------------------------------------------------------------------
(* The bytes, under the three hypotheses of module ClampiWindow_proofs.    *)
AdaptiveRight == AdaptiveInv /\ Bookkeeping /\ KindKept /\ DataRight

LEMMA RightIsSound == AdaptiveRight => Sound /\ DataRight
BY TypesFollow DEF AdaptiveRight, AdaptiveInv, Sound

(* A get that was handed to MPI waits for its flush like any other.        *)
LEMMA FlushedKeeps ==
  ASSUME Sound, DataRight, NEW b \in Bufs, NEW q \in Requests, GetFlushed(b, q)
  PROVE  Bookkeeping' /\ KindKept' /\ GetsReturnTargetData'
<1>1. b \notin unflushed /\ IssueGet(b, q) /\ Invalidated
  BY EmptiedSizes DEF GetFlushed, Misses, MayGet
<1>2. Bookkeeping'
  <2>1. IsFiniteSet(unflushed') /\ \A c \in unflushed' : asked'[c] \in Requests
    BY <1>1, IssueWaits DEF Sound
  <2> QED
    BY <1>1, <2>1, EmptiedBooks DEF Invalidated
<1>3. KindKept'
  BY DEF GetFlushed, Sound, KindKept
<1>4. GetsReturnTargetData'
  <2>1. /\ \A c \in Bufs : c # b => asked'[c] = asked[c] /\ buf'[c] = buf[c]
        /\ net' = net \cup {b} /\ version' = version
    BY <1>1 DEF IssueGet, GetFlushed, Sound, Types, Typed
  <2> QED
    BY <2>1, OtherAnswers DEF DataRight
<1> QED
  BY <1>2, <1>3, <1>4

LEMMA ResetKeeps ==
  ASSUME Sound, DataRight, Reset
  PROVE  Bookkeeping' /\ KindKept' /\ GetsReturnTargetData'
<1>1. Invalidated /\ UNCHANGED <<win, info, mode, app, version>>
  BY EmptiedSizes DEF Reset
<1>2. Bookkeeping'
  BY <1>1, EmptiedBooks DEF Invalidated, app, Sound, Bookkeeping
<1>3. KindKept'
  BY <1>1 DEF Sound, KindKept
<1>4. GetsReturnTargetData'
  BY <1>1, OtherAnswers DEF app, DataRight
<1> QED
  BY <1>2, <1>3, <1>4

LEMMA AdaptiveRightStep ==
  ASSUME FlushesAll, KeysTell, ModeReads,
         AdaptiveRight, [AdaptiveNext]_adaptiveVars
  PROVE  AdaptiveRight'
<1>1. Sound /\ DataRight /\ AdaptiveInv
  BY RightIsSound DEF AdaptiveRight
<1>2. AdaptiveInv'
  BY <1>1, AdaptiveInvStep
<1>3. Bookkeeping' /\ KindKept' /\ GetsReturnTargetData'
  BY <1>1, AdaptiveSteps, FlushedKeeps, ResetKeeps, BooksStep, KindStep,
     AnsweredStep
  DEF Sound
<1>4. CachedDataRight'
  <2>1. HeapInv'
    BY <1>2 DEF AdaptiveInv
  <2> QED
    BY <1>1, <2>1, AdaptiveSteps, EmptiedSizes, EmptiedAgrees, CachedStep
<1> QED
  BY <1>2, <1>3, <1>4 DEF AdaptiveRight, DataRight

LEMMA AdaptiveRightness ==
  ASSUME FlushesAll, KeysTell, ModeReads
  PROVE  AdaptiveSpec => []AdaptiveRight
<1>1. AdaptiveInit => AdaptiveRight
  BY AdaptiveInvInit, SoundInit DEF AdaptiveInit, AdaptiveRight, Sound
<1>2. AdaptiveRight /\ [AdaptiveNext]_adaptiveVars => AdaptiveRight'
  BY AdaptiveRightStep
<1> QED
  BY <1>1, <1>2, PTL DEF AdaptiveSpec

(* While table and buffer are replaced with copies pending, an entry that  *)
(* can be hit always holds the bytes it is asked for, and one that cannot  *)
(* has its copy pending.                                                   *)
THEOREM CopiesAlwaysMatch ==
  ASSUME FlushesAll, KeysTell, ModeReads
  PROVE  AdaptiveSpec => []CopiesMatch
<1>1. AdaptiveRight => CopiesMatch
  BY DEF AdaptiveRight, AdaptiveInv, DataRight, CopiesMatch
<1> QED
  BY <1>1, AdaptiveRightness, PTL

(* A get whose cache was emptied under it is one left to MPI, and a reset  *)
(* is an invalidation.                                                     *)
LEMMA AdaptiveRmaStep ==
  ASSUME Sound, DataRight, [AdaptiveNext]_adaptiveVars
  PROVE  [Rma!Next]_(Rma!vars)
<1>1. ASSUME NEW b \in Bufs, NEW q \in Requests, GetFlushed(b, q)
      PROVE  Rma!Next
  <2>1. Rma!GetLater(b, q)
    BY <1>1, IssueIsLater DEF GetFlushed, Misses
  <2> QED
    BY <2>1 DEF Rma!Next
<1>2. CASE Reset
  BY <1>2 DEF Reset, app, Rma!Next, Rma!Invalidate
<1> QED
  BY <1>1, <1>2, AdaptiveSteps, RmaStep

(* The adaptive scheme does not show either: with it the window still does *)
(* only what a window without a cache may do.                              *)
THEOREM AdaptiveImplementsRmaAlways ==
  ASSUME FlushesAll, KeysTell, ModeReads
  PROVE  AdaptiveSpec => AdaptiveImplementsRma
<1>1. AdaptiveInit => Rma!Init
  BY RmaInit DEF AdaptiveInit
<1>2. AdaptiveRight /\ [AdaptiveNext]_adaptiveVars => [Rma!Next]_(Rma!vars)
  BY RightIsSound, AdaptiveRmaStep
<1> QED
  BY <1>1, <1>2, AdaptiveRightness, PTL
  DEF AdaptiveSpec, AdaptiveImplementsRma, Rma!Spec

-----------------------------------------------------------------------------
(* The size of the buffer.  While a get lacks space every byte belongs to  *)
(* an entry, which is one of the other requests, or to a hole too small    *)
(* for it, and to each hole belongs the entry after it.                    *)

(* The region of the buffer a byte belongs to.                             *)
RegionOf(x) == CHOOSE e \in Live(heap) : x \in Span(heap, e)

LEMMA RegionsOfBytes ==
  ASSUME HeapInv, NEW x \in Bytes
  PROVE  /\ RegionOf(x) \in Live(heap) /\ x \in Span(heap, RegionOf(x))
         /\ x - heap.offset[RegionOf(x)] \in 0 .. (heap.size[RegionOf(x)] - 1)
         /\ \A e \in Live(heap) : x \in Span(heap, e) => e = RegionOf(x)
<1>1. \E e \in Live(heap) : x \in Span(heap, e)
  BY DEF HeapInv, Tiled, Partitioned
<1>2. RegionOf(x) \in Live(heap) /\ x \in Span(heap, RegionOf(x))
  BY <1>1 DEF RegionOf
<1>3. \A e \in Live(heap) : x \in Span(heap, e) => e = RegionOf(x)
  BY <1>2 DEF HeapInv, Tiled, Partitioned
<1>4. /\ heap.offset[RegionOf(x)] \in Nat /\ heap.size[RegionOf(x)] \in Nat
      /\ x \in Nat
  BY <1>2 DEF HeapInv, HeapType, Live, Bytes, SizesOK
<1> QED
  BY <1>2, <1>3, <1>4 DEF Span

(* The request an entry answers.                                           *)
RequestOf(e) == CHOOSE r \in Requests : Key(r) = get_info[e]

LEMMA RequestsOfEntries ==
  ASSUME TableMatchesHeap, NEW q \in Requests, Lookup(q) = {}
  PROVE  /\ \A e \in table : /\ RequestOf(e) \in Requests \ {q}
                              /\ RequestOf(e).size = heap.size[e]
         /\ \A e, f \in table : RequestOf(e) = RequestOf(f) => e = f
<1>1. ASSUME NEW e \in table
      PROVE  /\ RequestOf(e) \in Requests /\ Key(RequestOf(e)) = get_info[e]
             /\ RequestOf(e) # q /\ RequestOf(e).size = heap.size[e]
  <2>1. \E r \in Requests : Key(r) = get_info[e]
    BY DEF TableMatchesHeap, Keys
  <2>2. RequestOf(e) \in Requests /\ Key(RequestOf(e)) = get_info[e]
    BY <2>1 DEF RequestOf
  <2>3. Key(q) # get_info[e]
    BY DEF Lookup
  <2>4. Key(RequestOf(e)).size = RequestOf(e).size
    BY DEF Key
  <2>5. get_info[e].size = heap.size[e]
    BY DEF TableMatchesHeap
  <2> QED
    BY <2>2, <2>3, <2>4, <2>5
<1> QED
  BY <1>1 DEF TableMatchesHeap

LEMMA FiniteOffsets ==
  ASSUME IsFiniteSet(Requests)
  PROVE  /\ IsFiniteSet(Offsets) /\ Offsets \subseteq Nat
         /\ \A r \in Requests : 0 .. (r.size - 1) \subseteq Offsets
<1> DEFINE U == {0 .. (r.size - 1) : r \in Requests}
           f == [r \in Requests |-> 0 .. (r.size - 1)]
<1>1. f \in Surjection(Requests, U)
  BY DEF Surjection
<1>2. IsFiniteSet(U)
  <2> HIDE DEF U, f
  <2> QED
    BY <1>1, FS_Surjection
<1>3. \A r \in Requests : r.size \in Nat
  BY RequestFacts
<1>4. \A T \in U : IsFiniteSet(T)
  BY <1>3, FS_Interval
<1>5. Offsets = UNION U
  BY DEF Offsets
<1>6. IsFiniteSet(UNION U)
  <2> HIDE DEF U
  <2> QED
    BY <1>2, <1>4, FS_UNION
<1> QED
  BY <1>3, <1>5, <1>6

(* The two parts of LacksSpace.                                            *)
OthersBytes(q) == {x \in (Requests \ {q}) \X Offsets : x[2] < x[1].size}

SmallHoles(q) == Requests \X (0 .. (q.size - 2))

LEMMA FiniteBounds ==
  ASSUME IsFiniteSet(Requests), NEW q \in Requests
  PROVE  IsFiniteSet(OthersBytes(q)) /\ IsFiniteSet(SmallHoles(q))
<1>1. IsFiniteSet(OthersBytes(q))
  <2>1. IsFiniteSet((Requests \ {q}) \X Offsets)
    <3>1. IsFiniteSet(Requests \ {q})
      BY FS_Subset
    <3> QED
      BY <3>1, FiniteOffsets, FS_Product
  <2>2. OthersBytes(q) \subseteq (Requests \ {q}) \X Offsets
    BY DEF OthersBytes
  <2> QED
    BY <2>1, <2>2, FS_Subset
<1>2. IsFiniteSet(SmallHoles(q))
  <2>1. q.size \in Nat
    BY RequestFacts
  <2>2. IsFiniteSet(0 .. (q.size - 2))
    BY <2>1, FS_Interval
  <2> QED
    BY <2>2, FS_Product DEF SmallHoles
<1> QED
  BY <1>1, <1>2

(* The bytes in entries are no more than the other requests have.          *)
EntryBytes == {x \in Bytes : RegionOf(x) \in table}

LEMMA EntriesAreOthers ==
  ASSUME IsFiniteSet(Requests), HeapInv, TableMatchesHeap,
         NEW q \in Requests, Lookup(q) = {}
  PROVE  /\ IsFiniteSet(EntryBytes)
         /\ Cardinality(EntryBytes) <= Cardinality(OthersBytes(q))
<1> DEFINE off(x) == x - heap.offset[RegionOf(x)]
           f == [x \in EntryBytes |-> <<RequestOf(RegionOf(x)), off(x)>>]
<1>1. ASSUME NEW x \in EntryBytes
      PROVE  /\ RequestOf(RegionOf(x)) \in Requests \ {q}
             /\ off(x) \in Offsets
             /\ off(x) < RequestOf(RegionOf(x)).size
             /\ heap.offset[RegionOf(x)] \in Nat /\ x \in Nat
  <2>1. x \in Bytes /\ RegionOf(x) \in table
    BY DEF EntryBytes
  <2>2. RequestOf(RegionOf(x)) \in Requests \ {q}
        /\ RequestOf(RegionOf(x)).size = heap.size[RegionOf(x)]
    BY <2>1, RequestsOfEntries
  <2>3. off(x) \in 0 .. (heap.size[RegionOf(x)] - 1)
        /\ RegionOf(x) \in Live(heap)
    BY <2>1, RegionsOfBytes
  <2>4. heap.offset[RegionOf(x)] \in Nat /\ heap.size[RegionOf(x)] \in Nat
        /\ x \in Nat
    BY <2>1, <2>3 DEF HeapInv, HeapType, Live, Bytes, SizesOK
  <2>5. off(x) \in 0 .. (RequestOf(RegionOf(x)).size - 1)
    BY <2>2, <2>3
  <2>6. off(x) \in Offsets
    BY <2>2, <2>5, FiniteOffsets
  <2> HIDE DEF off
  <2> QED
    BY <2>2, <2>3, <2>4, <2>6
<1>2. f \in [EntryBytes -> OthersBytes(q)]
  <2> HIDE DEF off
  <2>1. ASSUME NEW x \in EntryBytes
        PROVE  <<RequestOf(RegionOf(x)), off(x)>> \in OthersBytes(q)
    BY <1>1 DEF OthersBytes
  <2> QED
    BY <2>1
<1>3. ASSUME NEW x \in EntryBytes, NEW y \in EntryBytes, f[x] = f[y]
      PROVE  x = y
  <2>1. RequestOf(RegionOf(x)) = RequestOf(RegionOf(y)) /\ off(x) = off(y)
    BY <1>3
  <2>2. RegionOf(x) = RegionOf(y)
    BY <2>1, RequestsOfEntries DEF EntryBytes
  <2> QED
    BY <1>1, <2>1, <2>2
<1>4. f \in Injection(EntryBytes, OthersBytes(q))
  BY <1>2, <1>3 DEF Injection, IsInjective
<1> HIDE DEF f
<1> QED
  BY <1>4, FiniteBounds, FS_Injection

(* A get that finds no hole large enough has none: if there were some, the *)
(* search would find the smallest of them.                                 *)
LEMMA HolesTooSmall ==
  ASSUME HeapInv, NEW sz \in Nat, BestFit(heap, sz) = {}
  PROVE  \A e \in FreeRegions(heap) : heap.size[e] < sz
<1> DEFINE Enough == {e \in heap.free_idx : heap.size[e] >= sz}
           U == {0 .. heap.size[e] : e \in Enough}
           R == StrictSubsetOrdering(Nat)
           F == FiniteSubsetsOf(Nat)
<1>0. heap.free_idx = FreeRegions(heap)
  BY DEF HeapInv, Indexed
<1>1. \A e \in heap.free_idx : heap.size[e] \in Nat
  BY DEF HeapInv, HeapType
<1> SUFFICES ASSUME Enough # {} PROVE FALSE
  BY <1>0, <1>1
<1>2. IsWellFoundedOn(R, F)
  BY FS_StrictSubsetOrderingWellFounded
<1>3. U \subseteq F /\ U # {}
  <2>1. \A n \in Nat : IsFiniteSet(0 .. n)
    BY FS_Interval
  <2> QED
    BY <1>1, <2>1 DEF FiniteSubsetsOf
<1> HIDE DEF R, F, U
<1>4. PICK u \in U : \A w \in U : <<w, u>> \notin R
  BY <1>2, <1>3, WFMin
<1>5. PICK r \in Enough : u = 0 .. heap.size[r]
  BY DEF U
<1>6. ASSUME NEW e \in Enough, heap.size[e] < heap.size[r]
      PROVE  FALSE
  <2>1. 0 .. heap.size[e] \in U
    BY DEF U
  <2>2. <<0 .. heap.size[e], 0 .. heap.size[r]>> \in R
    BY <1>1, <1>6 DEF R, StrictSubsetOrdering
  <2> QED
    BY <1>4, <1>5, <2>1, <2>2
<1>7. r \in BestFit(heap, sz)
  BY <1>1, <1>6 DEF BestFit
<1> QED
  BY <1>7

(* To a hole belongs the entry after it, to a last one the request.        *)
OwnerOf(e, q) ==
  IF heap.mnext[e] = NOENTRY THEN q ELSE RequestOf(heap.mnext[e])

LEMMA OwnersOfHoles ==
  ASSUME HeapInv, TableMatchesHeap, NEW q \in Requests, Lookup(q) = {}
  PROVE  /\ \A e \in FreeRegions(heap) : OwnerOf(e, q) \in Requests
         /\ \A e, f \in FreeRegions(heap) : OwnerOf(e, q) = OwnerOf(f, q) => e = f
<1>1. ASSUME NEW e \in FreeRegions(heap)
      PROVE  /\ e \in Live(heap)
             /\ heap.mnext[e] # NOENTRY =>
                  /\ heap.mnext[e] \in table /\ heap.mprev[heap.mnext[e]] = e
                  /\ OwnerOf(e, q) \in Requests \ {q}
             /\ heap.mnext[e] = NOENTRY => OwnerOf(e, q) = q
  <2>1. e \in Live(heap)
    BY DEF FreeRegions
  <2>2. ASSUME heap.mnext[e] # NOENTRY
        PROVE  heap.mnext[e] \in table /\ heap.mprev[heap.mnext[e]] = e
    BY <2>1, <2>2, RightNeighbour DEF HeapInv, Coalesced, BusyRegions
  <2> QED
    BY <2>1, <2>2, RequestsOfEntries DEF OwnerOf
<1>2. ASSUME NEW e \in FreeRegions(heap), NEW f \in FreeRegions(heap),
             OwnerOf(e, q) = OwnerOf(f, q)
      PROVE  e = f
  <2>1. CASE heap.mnext[e] = NOENTRY /\ heap.mnext[f] = NOENTRY
    BY <1>1, <2>1 DEF HeapInv, Tiled, OneTail
  <2>2. CASE heap.mnext[e] # NOENTRY /\ heap.mnext[f] # NOENTRY
    <3>1. RequestOf(heap.mnext[e]) = RequestOf(heap.mnext[f])
      BY <1>2, <2>2 DEF OwnerOf
    <3>2. heap.mnext[e] = heap.mnext[f]
      BY <1>1, <2>2, <3>1, RequestsOfEntries
    <3> QED
      BY <1>1, <2>2, <3>2
  <2> QED
    BY <1>1, <1>2, <2>1, <2>2
<1> QED
  BY <1>1, <1>2

(* The bytes in holes are no more than one small hole for each request.    *)
HoleBytes == {x \in Bytes : RegionOf(x) \notin table}

LEMMA HolesAreFew ==
  ASSUME IsFiniteSet(Requests), HeapInv, TableMatchesHeap,
         NEW q \in Requests, Lookup(q) = {}, BestFit(heap, q.size) = {}
  PROVE  /\ IsFiniteSet(HoleBytes)
         /\ Cardinality(HoleBytes) <= Cardinality(SmallHoles(q))
<1> DEFINE off(x) == x - heap.offset[RegionOf(x)]
           f == [x \in HoleBytes |-> <<OwnerOf(RegionOf(x), q), off(x)>>]
<1>0. q.size \in Nat
  BY RequestFacts
<1>1. ASSUME NEW x \in HoleBytes
      PROVE  /\ RegionOf(x) \in FreeRegions(heap)
             /\ off(x) \in 0 .. (q.size - 2)
             /\ heap.offset[RegionOf(x)] \in Nat /\ x \in Nat
  <2>1. x \in Bytes /\ RegionOf(x) \notin table
    BY DEF HoleBytes
  <2>2. RegionOf(x) \in Live(heap)
        /\ off(x) \in 0 .. (heap.size[RegionOf(x)] - 1)
    BY <2>1, RegionsOfBytes
  <2>3. RegionOf(x) \in FreeRegions(heap)
    BY <2>1, <2>2 DEF HeapInv, HeapType, FreeRegions, BusyRegions, Live
  <2>4. heap.offset[RegionOf(x)] \in Nat /\ heap.size[RegionOf(x)] \in Nat
        /\ x \in Nat
    BY <2>1, <2>2 DEF HeapInv, HeapType, Live, Bytes, SizesOK
  <2>5. heap.size[RegionOf(x)] < q.size
    BY <1>0, <2>3, HolesTooSmall
  <2> QED
    BY <1>0, <2>2, <2>3, <2>4, <2>5
<1>2. f \in [HoleBytes -> SmallHoles(q)]
  <2> HIDE DEF off
  <2>1. ASSUME NEW x \in HoleBytes
        PROVE  <<OwnerOf(RegionOf(x), q), off(x)>> \in SmallHoles(q)
    BY <1>1, OwnersOfHoles DEF SmallHoles
  <2> QED
    BY <2>1
<1>3. ASSUME NEW x \in HoleBytes, NEW y \in HoleBytes, f[x] = f[y]
      PROVE  x = y
  <2>1. OwnerOf(RegionOf(x), q) = OwnerOf(RegionOf(y), q) /\ off(x) = off(y)
    BY <1>3
  <2>2. RegionOf(x) = RegionOf(y)
    BY <1>1, <2>1, OwnersOfHoles
  <2> QED
    BY <1>1, <2>1, <2>2
<1>4. f \in Injection(HoleBytes, SmallHoles(q))
  BY <1>2, <1>3 DEF Injection, IsInjective
<1> HIDE DEF f
<1> QED
  BY <1>4, FiniteBounds, FS_Injection

(* How large a buffer can be in which a get lacks space.                   *)
LEMMA SpaceLacking ==
  ASSUME IsFiniteSet(Requests), HeapInv, TableMatchesHeap,
         NEW q \in Requests, Lookup(q) = {}, BestFit(heap, q.size) = {}
  PROVE  mem_size <= LacksSpace(q)
<1>1. /\ IsFiniteSet(EntryBytes) /\ IsFiniteSet(OthersBytes(q))
      /\ Cardinality(EntryBytes) <= Cardinality(OthersBytes(q))
  BY FiniteBounds, EntriesAreOthers
<1>2. /\ IsFiniteSet(HoleBytes) /\ IsFiniteSet(SmallHoles(q))
      /\ Cardinality(HoleBytes) <= Cardinality(SmallHoles(q))
  BY FiniteBounds, HolesAreFew
<1>3. Bytes = EntryBytes \cup HoleBytes /\ EntryBytes \cap HoleBytes = {}
  BY DEF EntryBytes, HoleBytes
<1>4. Cardinality(Bytes) = Cardinality(EntryBytes) + Cardinality(HoleBytes)
  BY <1>1, <1>2, <1>3, DisjointUnion
<1>5. Cardinality(Bytes) = mem_size
  BY FS_Interval DEF HeapInv, SizesOK, Bytes
<1>6. LacksSpace(q) = Cardinality(OthersBytes(q)) + Cardinality(SmallHoles(q))
  BY DEF LacksSpace, OthersBytes, SmallHoles
<1>7. /\ Cardinality(EntryBytes) \in Nat /\ Cardinality(HoleBytes) \in Nat
      /\ Cardinality(OthersBytes(q)) \in Nat
      /\ Cardinality(SmallHoles(q)) \in Nat
  BY <1>1, <1>2, FS_CardinalityType
<1> QED
  BY <1>1, <1>2, <1>4, <1>5, <1>6, <1>7

(* A larger number needs no fewer lines of a cache.                        *)
LEMMA AlignGrows ==
  ASSUME NEW x \in Nat, NEW y \in Nat, x <= y
  PROVE  CLALIGN(x, CacheLine) <= CLALIGN(y, CacheLine)
<1> DEFINE line == CacheLine
           a == (x + line - 1) \div line
           b == (y + line - 1) \div line
<1>1. line \in Nat \ {0}
  BY CacheLineAssumption
<1> HIDE DEF line
<1>2. a \in Int /\ b \in Int /\ a <= b
  BY <1>1
<1>3. a * line <= b * line
  <2> HIDE DEF a, b
  <2> QED
    BY <1>1, <1>2
<1> QED
  BY <1>3 DEF CLALIGN, line

(* Once an eviction for lack of space has been counted, the buffer is one  *)
(* in which some request can lack it; sizes change only if one has been,   *)
(* and counting starts again when they do.                                 *)
LackCounted ==
  "sp" \in evictions => \E q \in Requests : mem_size <= LacksSpace(q)

LEMMA EvictsForSpace ==
  ASSUME IsFiniteSet(Requests), HeapInv, TableMatchesHeap, LackCounted,
         NEW q \in Requests, Lookup(q) = {}, NEW e \in EvictsFor(q),
         "sp" \in evictions \cup {e}
  PROVE  \E r \in Requests : mem_size <= LacksSpace(r)
<1>1. CASE "sp" \in evictions
  BY <1>1 DEF LackCounted
<1>2. CASE e = "sp"
  <2>1. BestFit(heap, q.size) = {}
    BY <1>2 DEF EvictsFor
  <2> QED
    BY <2>1, SpaceLacking
<1> QED
  BY <1>1, <1>2

(* A get that evicts does so for a request that is not cached.             *)
LEMMA EvictingMisses ==
  ASSUME NEW b \in Bufs, NEW q \in Requests, Get(b, q), Evicted
  PROVE  Lookup(q) = {}
<1>1. CASE UNCHANGED cache
  BY <1>1 DEF cache, Evicted
<1>2. CASE Misses(b, q)
  BY <1>2 DEF Misses
<1> QED
  BY <1>1, <1>2 DEF Get, GetHit, GetUncached, GetNotCached, GetCached, GetExits

LEMMA GrowthStep ==
  ASSUME IsFiniteSet(Requests), HeapInv, TableMatchesHeap,
         LackCounted, BufferStopsGrowing, [AdaptiveNext]_adaptiveVars
  PROVE  LackCounted' /\ BufferStopsGrowing'
<1>1. CASE UNCHANGED mem_size /\ evictions' \subseteq evictions
  BY <1>1 DEF LackCounted, BufferStopsGrowing
<1>2. CASE mem_size' = MemSize /\ evictions' = {}
  BY <1>2 DEF LackCounted, BufferStopsGrowing
<1>3. ASSUME NEW b \in Bufs, NEW q \in Requests, AdaptiveGet(b, q)
      PROVE  LackCounted' /\ BufferStopsGrowing'
  <2>1. UNCHANGED mem_size
    BY <1>3 DEF AdaptiveGet, Get, GetHit, GetUncached, GetNotCached, GetCached,
                GetExits, cache, sizes
  <2>2. BufferStopsGrowing'
    BY <2>1 DEF BufferStopsGrowing
  <2>3. CASE Evicted
    <3>1. PICK e \in EvictsFor(q) : evictions' = evictions \cup {e}
      BY <1>3, <2>3 DEF AdaptiveGet
    <3>2. Lookup(q) = {}
      BY <1>3, <2>3, EvictingMisses DEF AdaptiveGet
    <3>3. LackCounted'
      BY <2>1, <3>1, <3>2, EvictsForSpace DEF LackCounted
    <3> QED
      BY <2>2, <3>3
  <2>4. CASE ~Evicted
    BY <1>1, <1>3, <2>1, <2>4 DEF AdaptiveGet
  <2> QED
    BY <2>3, <2>4
<1>4. ASSUME NEW b \in Bufs, NEW q \in Requests, GetFlushed(b, q)
      PROVE  LackCounted' /\ BufferStopsGrowing'
  <2>1. PICK n \in HtSizes, m \in MemSizes, e \in EvictsFor(q) :
          /\ <<n, m>> \in NewSizes(ht_entries, mem_size, CacheLine,
                                   evictions \cup {e})
          /\ Emptied(n, m)
    BY <1>4 DEF GetFlushed
  <2>2. mem_size' = m /\ evictions' = {}
    BY <2>1 DEF Emptied
  <2>3. LackCounted'
    BY <2>2 DEF LackCounted
  <2>4. CASE m = mem_size
    BY <2>2, <2>3, <2>4 DEF BufferStopsGrowing
  <2>5. CASE m # mem_size
    <3>1. m = CLALIGN(2 * mem_size, CacheLine) /\ "sp" \in evictions \cup {e}
      BY <2>1, <2>5 DEF NewSizes
    <3>2. Lookup(q) = {}
      BY <1>4 DEF GetFlushed, Misses
    <3>3. PICK r \in Requests : mem_size <= LacksSpace(r)
      BY <3>1, <3>2, EvictsForSpace
    <3>4. LacksSpace(r) \in Nat /\ mem_size \in Nat
      <4>1. IsFiniteSet(OthersBytes(r)) /\ IsFiniteSet(SmallHoles(r))
        BY FiniteBounds
      <4> QED
        BY <4>1, FS_CardinalityType
        DEF LacksSpace, OthersBytes, SmallHoles, HeapInv, SizesOK
    <3>5. CLALIGN(2 * mem_size, CacheLine) <= CLALIGN(2 * LacksSpace(r), CacheLine)
      BY <3>3, <3>4, AlignGrows
    <3> QED
      BY <2>2, <2>3, <3>1, <3>5 DEF BufferStopsGrowing, GrownSizes
  <2> QED
    BY <2>4, <2>5
<1>5. CASE AdaptiveWinFree
  BY <1>2, <1>5 DEF AdaptiveWinFree, WinFree
<1>6. ASSUME NEW r \in Ranks, AdaptiveFlush(r)
      PROVE  LackCounted' /\ BufferStopsGrowing'
  BY <1>1, <1>6 DEF AdaptiveFlush, Flush, sizes
<1>7. CASE AdaptiveInvalidate
  BY <1>1, <1>7 DEF AdaptiveInvalidate, Invalidate, sizes
<1>8. CASE Reset
  BY <1>2, <1>8 DEF Reset, Emptied
<1>9. CASE AdaptiveWinCreate \/ Uncounted
  BY <1>1, <1>9 DEF AdaptiveWinCreate, Uncounted, WinCreate, Update, Deliver,
                    cache, sizes
<1>10. CASE UNCHANGED adaptiveVars
  BY <1>1, <1>10 DEF adaptiveVars, vars, cache, sizes
<1> QED
  BY <1>3, <1>4, <1>5, <1>6, <1>7, <1>8, <1>9, <1>10 DEF AdaptiveNext

(* The buffer does not grow for ever: whatever the gets, their order and   *)
(* the fragmentation, it has at most twice the bytes (in lines) in which a *)
(* request can lack space, if there are finitely many requests.            *)
THEOREM BufferAlwaysStopsGrowing ==
  ASSUME IsFiniteSet(Requests)
  PROVE  AdaptiveSpec => []BufferStopsGrowing
<1>1. AdaptiveInit => LackCounted /\ BufferStopsGrowing
  BY DEF AdaptiveInit, Init, LackCounted, BufferStopsGrowing
<1>2. AdaptiveInv /\ LackCounted /\ BufferStopsGrowing
        /\ [AdaptiveNext]_adaptiveVars => LackCounted' /\ BufferStopsGrowing'
  BY GrowthStep DEF AdaptiveInv
<1> QED
  BY <1>1, <1>2, AdaptiveInvariance, PTL DEF AdaptiveSpec

===============================================================================
