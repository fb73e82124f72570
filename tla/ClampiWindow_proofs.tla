-------------------------- MODULE ClampiWindow_proofs --------------------------
(***************************************************************************)
(* What always holds of a window, for every buffer, hash table, workload   *)
(* and number of outstanding gets: the theorems of module ClampiWindow.    *)
(*                                                                         *)
(* HeapInv is the inductive invariant about the memory buffer: the         *)
(* descriptors tile it, no two holes touch, the index holds the holes and  *)
(* the hash table the rest, of which there are no more than the table has  *)
(* slots.  PlaceFound carries it through the search and the eviction of a  *)
(* get; the placement is CarveKeeps of module RegionHeap_proofs.           *)
(*                                                                         *)
(* The second part is about bytes: the cache and the application's buffers *)
(* hold the target's data, and the window implements one without a cache.  *)
(***************************************************************************)
EXTENDS ClampiWindow, RegionHeap_proofs

HeapInv ==
  /\ SizesOK
  /\ heap \in HeapType
  /\ Tiled(heap)
  /\ Coalesced(heap)
  /\ Indexed(heap)
  /\ table = BusyRegions(heap)
  /\ Cardinality(table) <= ht_entries

-----------------------------------------------------------------------------
(* The size of a request, the one in its key, is a number.                 *)
LEMMA RequestFacts ==
  ASSUME NEW q \in Requests
  PROVE  /\ q.size \in Nat /\ Key(q) \in Keys
         /\ Key(q).size = q.size /\ Key(q) # None
<1>1. q \in [rank : Ranks, disp : Nat, size : Nat]
  BY RequestsAssumption
<1>2. q.disp % AddrRange \in Nat
  BY <1>1, AddrRangeAssumption
<1>3. Key(q) \in [rank : Ranks, addr : Nat, size : Nat] /\ Key(q).size = q.size
  BY <1>1, <1>2 DEF Key
<1> QED
  BY <1>1, <1>3, NoneAssumption DEF Keys

(* Taking the selected hole out of the index leaves a heap with all holes  *)
(* but that one indexed.                                                   *)
LEMMA SearchedKeeps ==
  ASSUME HeapInv, NEW sz \in Nat, NEW fr \in FreeRegionsFor(sz)
  PROVE  LET s == Searched(fr) IN
         /\ s \in HeapType /\ Tiled(s) /\ Coalesced(s)
         /\ Live(s) = Live(heap)
         /\ BusyRegions(s) = table
         /\ FreeRegions(s) = FreeRegions(heap)
         /\ fr \in FreeRegions(s) \cup {NOENTRY}
         /\ s.free_idx = FreeRegions(s) \ {fr}
         /\ s.size = heap.size /\ s.offset = heap.offset
         /\ fr # NOENTRY => heap.size[fr] >= sz
<1> DEFINE s == Searched(fr)
<1>1. /\ heap \in HeapType /\ Tiled(heap) /\ Coalesced(heap)
      /\ heap.free_idx = FreeRegions(heap) /\ table = BusyRegions(heap)
  BY DEF HeapInv, Indexed
<1>2. FreeRegions(heap) \subseteq Entries
  BY DEF FreeRegions, Live
<1>3. fr # NOENTRY => fr \in FreeRegions(heap) /\ heap.size[fr] >= sz
  BY <1>1 DEF FreeRegionsFor, BestFit
<1>4. /\ s \in HeapType
      /\ s.type = heap.type /\ s.size = heap.size /\ s.offset = heap.offset
      /\ s.mprev = heap.mprev /\ s.mnext = heap.mnext
      /\ s.free_entries = heap.free_entries
      /\ s.free_idx = FreeRegions(heap) \ {fr}
  <2>1. CASE fr = NOENTRY
    <3>1. FreeRegions(heap) \ {fr} = FreeRegions(heap)
      BY <1>2, <2>1, NoEntry
    <3> QED
      BY <1>1, <2>1, <3>1 DEF Searched
  <2>2. CASE fr # NOENTRY
    <3>1. s = [heap EXCEPT !.free_idx = heap.free_idx \ {fr}]
      BY <2>2 DEF Searched, Unindex
    <3> HIDE DEF s
    <3>2. heap.free_idx \ {fr} \subseteq Entries
      BY <1>1, <1>2
    <3> QED
      BY <1>1, <3>1, <3>2 DEF HeapType
  <2> QED
    BY <2>1, <2>2
<1> HIDE DEF s
<1>5. Tiled(s) /\ Live(s) = Live(heap)
  BY <1>1, <1>4, SameList
<1>6. BusyRegions(s) = table /\ FreeRegions(s) = FreeRegions(heap)
  BY <1>1, <1>4, <1>5 DEF BusyRegions, FreeRegions
<1>7. Coalesced(s)
  BY <1>1, <1>4, <1>6 DEF Coalesced
<1> QED
  BY <1>3, <1>4, <1>5, <1>6, <1>7 DEF s

(* After the search and the eviction, if there was one, the heap is sound, *)
(* the victim is gone, every hole but the one for the request is indexed,  *)
(* there is a slot left in the hash table, and if a hole was selected the  *)
(* request fits.                                                           *)
LEMMA PlaceFound ==
  ASSUME HeapInv, NEW sz \in Nat,
         NEW fr \in FreeRegionsFor(sz), NEW v \in VictimsFor(fr)
  PROVE  LET h == EvictedHeap(fr, v, sz)
             r == FinalRegion(fr, v, sz)
         IN /\ h \in HeapType /\ Tiled(h) /\ Coalesced(h)
            /\ BusyRegions(h) = table \ {v}
            /\ r \in FreeRegions(h) \cup {NOENTRY}
            /\ h.free_idx = FreeRegions(h) \ {r}
            /\ Cardinality(BusyRegions(h)) < ht_entries
            /\ fr # NOENTRY => Fits(h, r, sz)
            /\ \A e \in BusyRegions(h) :
                 h.offset[e] = heap.offset[e] /\ h.size[e] = heap.size[e]
<1> DEFINE s == Searched(fr)
           h == EvictedHeap(fr, v, sz)
           r == FinalRegion(fr, v, sz)
<1>1. /\ s \in HeapType /\ Tiled(s) /\ Coalesced(s)
      /\ BusyRegions(s) = table
      /\ fr \in FreeRegions(s) \cup {NOENTRY}
      /\ s.free_idx = FreeRegions(s) \ {fr}
      /\ s.size = heap.size /\ s.offset = heap.offset
      /\ fr # NOENTRY => heap.size[fr] >= sz
  BY SearchedKeeps
<1>2. table \subseteq Entries /\ Cardinality(table) <= ht_entries
  BY DEF HeapInv, BusyRegions, Live
<1>3. SizesOK /\ ht_entries \in Nat
  BY DEF HeapInv, SizesOK
<1>4. CASE v = NOENTRY
  <2>1. h = s /\ r = fr
    BY <1>4 DEF EvictedHeap, FinalRegion
  <2>2. fr # NOENTRY /\ Cardinality(table) < ht_entries
    BY <1>2, <1>4, NoEntry DEF VictimsFor
  <2>3. table \ {v} = table
    BY <1>2, <1>4, NoEntry
  <2> HIDE DEF s, h, r
  <2>4. Fits(h, r, sz)
    BY <1>1, <2>1, <2>2 DEF Fits
  <2> QED
    BY <1>1, <2>1, <2>2, <2>3, <2>4 DEF h, r
<1>5. CASE v # NOENTRY
  <2>1. h = HeapAfterEvict(s, v, fr, sz) /\ r = RegionAfterEvict(s, v, fr, sz)
    BY <1>5 DEF EvictedHeap, FinalRegion
  <2>2. v \in table
    BY <1>5 DEF VictimsFor
  <2> HIDE DEF s, h, r
  <2>3. /\ h \in HeapType /\ Tiled(h) /\ Coalesced(h)
        /\ BusyRegions(h) = BusyRegions(s) \ {v}
        /\ \A e \in BusyRegions(h) :
             h.offset[e] = s.offset[e] /\ h.size[e] = s.size[e]
        /\ r \in FreeRegions(h) \cup {NOENTRY}
        /\ h.free_idx = FreeRegions(h) \ {r}
        /\ fr # NOENTRY => r # NOENTRY /\ h.size[r] >= s.size[fr]
    BY <1>1, <2>1, <2>2, EvictKeeps
  <2>4. Cardinality(BusyRegions(h)) < ht_entries
    <3>1. IsFiniteSet(table) /\ Cardinality(table) \in Nat
      BY FreeBound DEF HeapInv
    <3>2. Cardinality(table \ {v}) = Cardinality(table) - 1
      BY <2>2, <3>1, FS_RemoveElement
    <3> QED
      BY <1>1, <1>2, <1>3, <2>3, <3>1, <3>2
  <2>5. fr # NOENTRY => Fits(h, r, sz)
    <3> SUFFICES ASSUME fr # NOENTRY PROVE h.size[r] >= sz /\ r # NOENTRY
      BY DEF Fits
    <3>1. /\ r # NOENTRY /\ h.size[r] >= s.size[fr] /\ s.size[fr] >= sz
          /\ fr \in Entries /\ r \in Entries
      BY <1>1, <2>3 DEF FreeRegions, Live
    <3>2. h.size[r] \in Nat /\ s.size[fr] \in Nat
      BY <1>1, <2>3, <3>1 DEF HeapType
    <3> QED
      BY <3>1, <3>2
  <2> QED
    BY <1>1, <2>3, <2>4, <2>5 DEF h, r
<1> QED
  BY <1>4, <1>5

(* If no hole was selected, an eviction that makes no room leaves the      *)
(* request without a region.                                               *)
LEMMA NoRoomNoRegion ==
  ASSUME HeapInv, NEW sz \in Nat, NEW v \in table,
         ~Fits(EvictedHeap(NOENTRY, v, sz), FinalRegion(NOENTRY, v, sz), sz)
  PROVE  FinalRegion(NOENTRY, v, sz) = NOENTRY
<1> DEFINE g == HeapAfterEvict(heap, v, NOENTRY, sz)
           w == NewRegion(heap, v)
<1>1. v # NOENTRY /\ v \in Live(heap)
  BY NoEntry DEF HeapInv, BusyRegions, Live
<1>2. /\ EvictedHeap(NOENTRY, v, sz) = g
      /\ FinalRegion(NOENTRY, v, sz) = RegionAfterEvict(heap, v, NOENTRY, sz)
  BY <1>1 DEF EvictedHeap, FinalRegion, Searched
<1>3. SUFFICES ASSUME TakesNewRegion(heap, v, NOENTRY, sz)
               PROVE  Fits(g, w, sz)
  BY <1>2 DEF RegionAfterEvict
<1>4. ~Expanded(heap, v, NOENTRY)
  BY DEF Expanded, LeftIsFree, RightIsFree
<1>5. g = Evict(heap, v) /\ g.size[w] >= sz
  BY <1>3, <1>4 DEF HeapAfterEvict, TakesNewRegion
<1>6. w \in Live(heap)
  BY <1>1, LeftNeighbour DEF HeapInv, NewRegion, LeftIsFree
<1> QED
  BY <1>5, <1>6, NoEntry DEF Fits, Live

(* What a placement adds: the new entry holds the request and every other  *)
(* entry stays as it was.                                                  *)
LEMMA PlacementKeeps ==
  ASSUME HeapInv, NEW sz \in Nat,
         NEW fr \in FreeRegionsFor(sz), NEW v \in VictimsFor(fr),
         Fits(EvictedHeap(fr, v, sz), FinalRegion(fr, v, sz), sz)
  PROVE  LET h == EvictedHeap(fr, v, sz)
             r == FinalRegion(fr, v, sz)
             e == NewEntry(h, r, sz)
             g == Carve(h, r, sz)
         IN /\ g \in HeapType /\ Tiled(g) /\ Coalesced(g) /\ Indexed(g)
            /\ BusyRegions(g) = (table \ {v}) \cup {e}
            /\ Cardinality(BusyRegions(g)) <= ht_entries
            /\ e \in Entries /\ e \notin table \ {v}
            /\ g.size[e] = sz
            /\ \A f \in table \ {v} :
                 g.offset[f] = heap.offset[f] /\ g.size[f] = heap.size[f]
<1> DEFINE h == EvictedHeap(fr, v, sz)
           r == FinalRegion(fr, v, sz)
           e == NewEntry(h, r, sz)
           g == Carve(h, r, sz)
<1> HIDE DEF h, r
<1>1. /\ h \in HeapType /\ Tiled(h) /\ Coalesced(h)
      /\ BusyRegions(h) = table \ {v}
      /\ r \in FreeRegions(h) \cup {NOENTRY}
      /\ h.free_idx = FreeRegions(h) \ {r}
      /\ Cardinality(BusyRegions(h)) < ht_entries
      /\ \A f \in BusyRegions(h) :
           h.offset[f] = heap.offset[f] /\ h.size[f] = heap.size[f]
  BY PlaceFound DEF h, r
<1>2. r # NOENTRY /\ h.size[r] >= sz
  BY DEF Fits, h, r
<1>3. r \in FreeRegions(h)
  BY <1>1, <1>2
<1>4. SizesOK /\ h.free_entries # <<>>
  BY <1>1, RoomForOne DEF HeapInv
<1> HIDE DEF e, g
<1>5. /\ g \in HeapType /\ Tiled(g) /\ Coalesced(g) /\ Indexed(g)
      /\ e \in Entries \ BusyRegions(h)
      /\ BusyRegions(g) = BusyRegions(h) \cup {e}
      /\ g.size[e] = sz
      /\ \A f \in BusyRegions(h) :
           g.offset[f] = h.offset[f] /\ g.size[f] = h.size[f]
  BY <1>1, <1>2, <1>3, <1>4, CarveKeeps DEF e, g
<1>6. Cardinality(BusyRegions(g)) <= ht_entries
  <2>1. IsFiniteSet(BusyRegions(h)) /\ Cardinality(BusyRegions(h)) \in Nat
    BY <1>1, <1>4, FreeBound
  <2>2. Cardinality(BusyRegions(g)) = Cardinality(BusyRegions(h)) + 1
    BY <1>5, <2>1, FS_AddElement
  <2> QED
    BY <1>1, <2>1, <2>2 DEF HeapInv, SizesOK
<1> QED
  BY <1>1, <1>5, <1>6 DEF h, r, e, g

-----------------------------------------------------------------------------
(* What depends on the sizes alone stays while they do.                    *)
LEMMA SameSizes ==
  ASSUME UNCHANGED sizes
  PROVE  /\ UNCHANGED <<ht_entries, mem_size, Entries, Bytes, HeapType>>
         /\ UNCHANGED PendingCopy
         /\ SizesOK => SizesOK'
<1>1. UNCHANGED <<ht_entries, mem_size>>
  BY DEF sizes
<1>2. UNCHANGED <<Entries, Bytes>>
  BY <1>1 DEF Entries, Bytes
<1> QED
  BY <1>1, <1>2 DEF HeapType, PendingCopy, SizesOK

(* A heap that is sound for the sizes there were is sound for the same     *)
(* sizes in the next state.                                                *)
LEMMA HeapInvNext ==
  ASSUME SizesOK, UNCHANGED sizes,
         heap' \in HeapType, Tiled(heap'), Coalesced(heap'), Indexed(heap'),
         table' = BusyRegions(heap'), Cardinality(table') <= ht_entries
  PROVE  HeapInv'
<1>1. /\ UNCHANGED <<ht_entries, mem_size, Entries, Bytes, HeapType>>
      /\ SizesOK'
  BY SameSizes
<1>2. Live(heap)' = Live(heap')
  BY <1>1 DEF Live
<1>3. /\ FreeRegions(heap)' = FreeRegions(heap')
      /\ BusyRegions(heap)' = BusyRegions(heap')
  BY <1>2 DEF FreeRegions, BusyRegions
<1>4. StackOK(heap)'
  BY DEF Tiled, StackOK
<1>5. Linked(heap)'
  BY <1>1, <1>2 DEF Tiled, Linked
<1>6. OneTail(heap)'
  BY <1>2 DEF Tiled, OneTail
<1>7. Acyclic(heap)'
  BY <1>2 DEF Tiled, Acyclic
<1>8. Partitioned(heap)'
  BY <1>1, <1>2 DEF Tiled, Partitioned, Span
<1>9. Coalesced(heap)' /\ Indexed(heap)'
  BY <1>3 DEF Coalesced, Indexed
<1> QED
  BY <1>1, <1>3, <1>4, <1>5, <1>6, <1>7, <1>8, <1>9 DEF HeapInv, Tiled

(* An empty buffer satisfies the invariant.                                *)
LEMMA EmptyInv ==
  SizesOK /\ heap = EmptyHeap /\ table = {} => HeapInv
<1>1. Cardinality({}) = 0
  BY FS_EmptySet
<1> QED
  BY <1>1, EmptyHeapOK DEF HeapInv, SizesOK

(* reset_data_structures establishes it again, whatever the sizes are now. *)
LEMMA InvalidatedInv ==
  ASSUME SizesOK', Invalidated
  PROVE  HeapInv'
<1>1. (SizesOK /\ heap = EmptyHeap /\ table = {} => HeapInv)'
  BY EmptyInv, PTL
<1> QED
  BY <1>1 DEF Invalidated

(* Every operation of the library, of MPI and of the application keeps     *)
(* the buffer, the index and the hash table in order.                      *)
LEMMA HeapStep ==
  ASSUME HeapInv, [Next]_vars
  PROVE  HeapInv'
<1>0. SizesOK
  BY DEF HeapInv
<1>1. CASE UNCHANGED <<sizes, heap, table>>
  BY <1>1, HeapInvNext DEF HeapInv
<1>2. CASE UNCHANGED sizes /\ Invalidated
  BY <1>0, <1>2, SameSizes, InvalidatedInv
<1>3. CASE UNCHANGED vars
  BY <1>1, <1>3 DEF vars, cache
<1>4. CASE WinCreate
  BY <1>2, <1>4 DEF WinCreate
<1>5. CASE WinFree
  <2>1. SizesOK'
    BY <1>5, HtSizeAssumption, MemSizeAssumption DEF WinFree, SizesOK
  <2> QED
    BY <1>5, <2>1, InvalidatedInv DEF WinFree
<1>6. ASSUME NEW b \in Bufs, NEW q \in Requests, Get(b, q)
      PROVE  HeapInv'
  <2>1. CASE GetHit(b, q)
    BY <1>1, <2>1 DEF GetHit, cache
  <2>2. CASE GetUncached(b, q)
    BY <1>1, <2>2 DEF GetUncached, cache
  <2>3. CASE GetExits(b, q)
    BY <1>1, <2>3 DEF GetExits, cache
  <2>4. CASE GetNotCached(b, q)
    <3>1. PICK fr \in FreeRegionsFor(q.size) : \E v \in VictimsFor(fr) :
            /\ ~Fits(EvictedHeap(fr, v, q.size), FinalRegion(fr, v, q.size),
                     q.size)
            /\ heap' = EvictedHeap(fr, v, q.size)
            /\ table' = table \ {v}
      BY <2>4 DEF GetNotCached
    <3>2. PICK v \in VictimsFor(fr) :
            /\ ~Fits(EvictedHeap(fr, v, q.size), FinalRegion(fr, v, q.size),
                     q.size)
            /\ heap' = EvictedHeap(fr, v, q.size)
            /\ table' = table \ {v}
      BY <3>1
    <3> DEFINE h == EvictedHeap(fr, v, q.size)
               r == FinalRegion(fr, v, q.size)
    <3>3. q.size \in Nat
      BY RequestFacts
    <3> HIDE DEF h, r
    <3>4. /\ h \in HeapType /\ Tiled(h) /\ Coalesced(h)
          /\ BusyRegions(h) = table \ {v}
          /\ r \in FreeRegions(h) \cup {NOENTRY}
          /\ h.free_idx = FreeRegions(h) \ {r}
          /\ Cardinality(BusyRegions(h)) < ht_entries
          /\ fr # NOENTRY => Fits(h, r, q.size)
      BY <3>3, PlaceFound DEF h, r
    <3>5. Indexed(h)
      <4>1. fr = NOENTRY /\ ~Fits(h, r, q.size)
        BY <3>2, <3>4 DEF h, r
      <4>2. v \in table
        BY <4>1 DEF VictimsFor, FreeRegionsFor, HeapInv, BusyRegions, Live,
                    Entries, NOENTRY
      <4>3. r = NOENTRY
        BY <3>3, <4>1, <4>2, NoRoomNoRegion DEF h, r
      <4>4. FreeRegions(h) \ {r} = FreeRegions(h)
        BY <4>3, NoEntry DEF FreeRegions, Live
      <4> QED
        BY <3>4, <4>4 DEF Indexed
    <3>6. heap' = h /\ table' = BusyRegions(h) /\ Cardinality(table') <= ht_entries
      <4>1. Cardinality(BusyRegions(h)) \in Nat
        BY <1>0, <3>4, FreeBound
      <4> QED
        BY <3>2, <3>4, <4>1, <1>0 DEF SizesOK, h
    <3>7. UNCHANGED sizes
      BY <2>4 DEF GetNotCached
    <3> QED
      BY <1>0, <3>4, <3>5, <3>6, <3>7, HeapInvNext
  <2>5. CASE GetCached(b, q)
    <3>1. PICK fr \in FreeRegionsFor(q.size) : \E v \in VictimsFor(fr) :
            LET h == EvictedHeap(fr, v, q.size)
                r == FinalRegion(fr, v, q.size)
            IN /\ Fits(h, r, q.size)
               /\ heap' = Carve(h, r, q.size)
               /\ table' = (table \ {v}) \cup {NewEntry(h, r, q.size)}
      BY <2>5 DEF GetCached
    <3>2. PICK v \in VictimsFor(fr) :
            LET h == EvictedHeap(fr, v, q.size)
                r == FinalRegion(fr, v, q.size)
            IN /\ Fits(h, r, q.size)
               /\ heap' = Carve(h, r, q.size)
               /\ table' = (table \ {v}) \cup {NewEntry(h, r, q.size)}
      BY <3>1
    <3>3. q.size \in Nat
      BY RequestFacts
    <3>4. /\ heap' \in HeapType /\ Tiled(heap') /\ Coalesced(heap')
          /\ Indexed(heap') /\ BusyRegions(heap') = table'
          /\ Cardinality(table') <= ht_entries
      BY <3>2, <3>3, PlacementKeeps
    <3>5. UNCHANGED sizes
      BY <2>5 DEF GetCached
    <3> QED
      BY <1>0, <3>4, <3>5, HeapInvNext
  <2> QED
    BY <1>6, <2>1, <2>2, <2>3, <2>4, <2>5 DEF Get
<1>7. ASSUME NEW r \in Ranks, Flush(r)
      PROVE  HeapInv'
  <2>1. UNCHANGED sizes /\ (Invalidated \/ UNCHANGED <<heap, table>>)
    BY <1>7 DEF Flush
  <2> QED
    BY <1>1, <1>2, <2>1
<1>8. CASE Invalidate
  BY <1>2, <1>8 DEF Invalidate
<1>9. ASSUME NEW b \in Bufs, Deliver(b)
      PROVE  HeapInv'
  BY <1>1, <1>9 DEF Deliver, cache
<1>10. CASE Update
  BY <1>1, <1>10 DEF Update, cache
<1> QED
  BY <1>3, <1>4, <1>5, <1>6, <1>7, <1>8, <1>9, <1>10 DEF Next

(* Whatever the buffer holds, a get that may be cached has a free node of  *)
(* the tree, and a descriptor if it needs one.                             *)
LEMMA RoomToPlace ==
  ASSUME HeapInv
  PROVE  DescriptorsSuffice /\ VictimExists
<1>1. ASSUME NEW q \in Requests,
             NEW fr \in FreeRegionsFor(q.size), NEW v \in VictimsFor(fr)
      PROVE  LET h == EvictedHeap(fr, v, q.size)
                 r == FinalRegion(fr, v, q.size)
             IN /\ Cardinality(h.free_idx) <= ht_entries
                /\ h.free_entries # <<>>
  <2> DEFINE h == EvictedHeap(fr, v, q.size)
             r == FinalRegion(fr, v, q.size)
  <2>1. q.size \in Nat
    BY RequestFacts
  <2> HIDE DEF h, r
  <2>2. /\ h \in HeapType /\ Tiled(h) /\ Coalesced(h)
        /\ h.free_idx = FreeRegions(h) \ {r}
        /\ Cardinality(BusyRegions(h)) < ht_entries
    BY <2>1, PlaceFound DEF h, r
  <2>3. h.free_entries # <<>> /\ Cardinality(FreeRegions(h)) <= ht_entries
    BY <2>2, RoomForOne DEF HeapInv
  <2>4. IsFiniteSet(FreeRegions(h)) /\ Cardinality(FreeRegions(h)) \in Nat
    BY <2>2, FreeBound DEF HeapInv
  <2>5. /\ Cardinality(h.free_idx) <= Cardinality(FreeRegions(h))
        /\ Cardinality(h.free_idx) \in Nat
    BY <2>2, <2>4, FS_Subset, FS_CardinalityType
  <2> QED
    BY <2>3, <2>4, <2>5 DEF HeapInv, SizesOK, h, r
<1>2. DescriptorsSuffice
  BY <1>1 DEF DescriptorsSuffice
<1>3. VictimExists
  <2> SUFFICES ASSUME NEW q \in Requests, q.size <= mem_size, table = {}
               PROVE  BestFit(heap, q.size) # {}
    BY DEF VictimExists
  <2>1. q.size \in Nat
    BY RequestFacts
  <2> QED
    BY <2>1, AllFree DEF HeapInv
<1> QED
  BY <1>2, <1>3

(* The inductive invariant about the buffer.                               *)
THEOREM HeapInvariance == Spec => []HeapInv
<1>1. Init => HeapInv
  BY EmptyInv, HtSizeAssumption, MemSizeAssumption DEF Init, SizesOK
<1>2. HeapInv /\ [Next]_vars => HeapInv'
  BY HeapStep
<1> QED
  BY <1>1, <1>2, PTL DEF Spec

(* The lists that evictions and placements rewrite in place stay sound:    *)
(* the descriptors carve the buffer up between them.                       *)
THEOREM RegionsAlwaysTile == Spec => []RegionsTile
<1>1. HeapInv => RegionsTile
  BY DEF HeapInv, RegionsTile
<1> QED
  BY <1>1, HeapInvariance, PTL

(* The index a search looks through always holds exactly the holes, and no *)
(* two of them touch.                                                      *)
THEOREM HolesAlwaysIndexed == Spec => []HolesIndexed
<1>1. HeapInv => HolesIndexed
  BY DEF HeapInv, HolesIndexed
<1> QED
  BY <1>1, HeapInvariance, PTL

(* A sound buffer has no more entries, and no more holes, than the hash    *)
(* table has slots.                                                        *)
LEMMA CapacityFollows == HeapInv => WithinCapacity
<1> SUFFICES ASSUME HeapInv
             PROVE  WithinCapacity
  OBVIOUS
<1>1. Cardinality(BusyRegions(heap)) <= ht_entries
  BY DEF HeapInv
<1>2. Cardinality(FreeRegions(heap)) <= ht_entries
  BY <1>1, FewHoles DEF HeapInv
<1> QED
  BY <1>1, <1>2 DEF WithinCapacity, HeapInv

(* Neither the hash table nor the pool of tree nodes ever overflows.       *)
THEOREM NeverOverCapacity == Spec => []WithinCapacity
BY CapacityFollows, HeapInvariance, PTL

(* No get runs out of descriptors or of tree nodes.                        *)
THEOREM DescriptorsAlwaysSuffice == Spec => []DescriptorsSuffice
<1>1. HeapInv => DescriptorsSuffice
  BY RoomToPlace
<1> QED
  BY <1>1, HeapInvariance, PTL

(* The assertion of the victim scan, assert(ivictim!=-1), never fails for  *)
(* want of an entry to evict.                                              *)
THEOREM VictimAlwaysExists == Spec => []VictimExists
<1>1. HeapInv => VictimExists
  BY RoomToPlace
<1> QED
  BY <1>1, HeapInvariance, PTL

(* A get that found a large enough hole is cached, whatever conflict the   *)
(* hash table reports.                                                     *)
THEOREM FreeRegionAlwaysUsed == Spec => FreeRegionIsUsed
<1>1. ASSUME HeapInv, NEW b \in Bufs, NEW q \in Requests, GetNotCached(b, q)
      PROVE  BestFit(heap, q.size) = {}
  <2>1. PICK fr \in FreeRegionsFor(q.size) : \E v \in VictimsFor(fr) :
          ~Fits(EvictedHeap(fr, v, q.size), FinalRegion(fr, v, q.size), q.size)
    BY <1>1 DEF GetNotCached
  <2>2. q.size \in Nat
    BY RequestFacts
  <2>3. fr = NOENTRY
    BY <1>1, <2>1, <2>2, PlaceFound
  <2>4. FreeRegions(heap) \subseteq Entries
    BY DEF FreeRegions, Live
  <2> QED
    BY <1>1, <2>3, <2>4, NoEntry DEF FreeRegionsFor, BestFit, HeapInv, Indexed
<1>2. HeapInv /\ [Next]_vars =>
        [\A b \in Bufs, q \in Requests :
           GetNotCached(b, q) => BestFit(heap, q.size) = {}]_vars
  BY <1>1
<1> QED
  BY <1>2, HeapInvariance, PTL DEF Spec, FreeRegionIsUsed

-----------------------------------------------------------------------------
(* What a get that is not cached for want of room leaves of the cache.     *)
Dropped(v) ==
  /\ table' = table \ {v}
  /\ get_info' = [get_info EXCEPT ![v] = None]
  /\ pending' = [pending EXCEPT ![v] = -1]
  /\ \A f \in table' : /\ heap'.offset[f] = heap.offset[f]
                       /\ heap'.size[f] = heap.size[f]

(* What a get that is cached adds: entry e, in place of v if an entry had  *)
(* to go.                                                                  *)
Placed(b, q, e, v) ==
  /\ e \notin table \ {v}
  /\ table' = (table \ {v}) \cup {e}
  /\ get_info' = [f \in Entries |-> IF f = e THEN Key(q)
                                    ELSE IF f = v THEN None
                                    ELSE get_info[f]]
  /\ pending' = [f \in Entries |-> IF f = e THEN Len(queue)
                                   ELSE IF f = v THEN -1
                                   ELSE pending[f]]
  /\ queue' = Append(queue, [target_addr |-> heap'.offset[e],
                             origin_addr |-> b,
                             entry |-> e, size |-> q.size])
  /\ heap'.size[e] = q.size
  /\ \A f \in table \ {v} : /\ heap'.offset[f] = heap.offset[f]
                            /\ heap'.size[f] = heap.size[f]

(* A get that is not cached for want of room drops one entry or none.      *)
LEMMA NotCachedFacts ==
  ASSUME HeapInv, NEW b \in Bufs, NEW q \in Requests, GetNotCached(b, q)
  PROVE  \E v \in Entries \cup {NOENTRY} : Dropped(v)
<1> DEFINE Drop(fr, v) ==
             /\ heap' = EvictedHeap(fr, v, q.size)
             /\ table' = table \ {v}
             /\ get_info' = [get_info EXCEPT ![v] = None]
             /\ pending' = [pending EXCEPT ![v] = -1]
<1>0. PICK fr \in FreeRegionsFor(q.size) : \E v \in VictimsFor(fr) : Drop(fr, v)
  BY DEF GetNotCached
<1>1. PICK v \in VictimsFor(fr) : Drop(fr, v)
  BY <1>0
<1>2. q.size \in Nat
  BY RequestFacts
<1>3. v \in Entries \cup {NOENTRY}
  BY DEF VictimsFor, HeapInv, BusyRegions, Live
<1>4. \A f \in table \ {v} : /\ heap'.offset[f] = heap.offset[f]
                             /\ heap'.size[f] = heap.size[f]
  BY <1>1, <1>2, PlaceFound
<1> QED
  BY <1>1, <1>3, <1>4 DEF Dropped

(* A get that is cached drops one entry or none and adds one.              *)
LEMMA CachedFacts ==
  ASSUME HeapInv, NEW b \in Bufs, NEW q \in Requests, GetCached(b, q)
  PROVE  \E e \in Entries, v \in Entries \cup {NOENTRY} : Placed(b, q, e, v)
<1> DEFINE Place(fr, v) ==
             LET h == EvictedHeap(fr, v, q.size)
                 r == FinalRegion(fr, v, q.size)
                 e == NewEntry(h, r, q.size)
             IN /\ Fits(h, r, q.size)
                /\ heap' = Carve(h, r, q.size)
                /\ table' = (table \ {v}) \cup {e}
                /\ get_info' = [f \in Entries |-> IF f = e THEN Key(q)
                                                  ELSE IF f = v THEN None
                                                  ELSE get_info[f]]
                /\ pending' = [f \in Entries |-> IF f = e THEN Len(queue)
                                                 ELSE IF f = v THEN -1
                                                 ELSE pending[f]]
                /\ queue' = Append(queue, [target_addr |-> heap'.offset[e],
                                           origin_addr |-> b,
                                           entry |-> e, size |-> q.size])
<1>0. PICK fr \in FreeRegionsFor(q.size) : \E v \in VictimsFor(fr) : Place(fr, v)
  BY DEF GetCached
<1>1. PICK v \in VictimsFor(fr) : Place(fr, v)
  BY <1>0
<1> DEFINE h == EvictedHeap(fr, v, q.size)
           r == FinalRegion(fr, v, q.size)
           e == NewEntry(h, r, q.size)
<1>2. q.size \in Nat
  BY RequestFacts
<1>3. v \in Entries \cup {NOENTRY}
  BY DEF VictimsFor, HeapInv, BusyRegions, Live
<1>4. /\ e \in Entries /\ e \notin table \ {v}
      /\ heap'.size[e] = q.size
      /\ \A f \in table \ {v} : /\ heap'.offset[f] = heap.offset[f]
                                /\ heap'.size[f] = heap.size[f]
  BY <1>1, <1>2, PlacementKeeps
<1> HIDE DEF h, r, e
<1>5. /\ table' = (table \ {v}) \cup {e}
      /\ get_info' = [f \in Entries |-> IF f = e THEN Key(q)
                                        ELSE IF f = v THEN None
                                        ELSE get_info[f]]
      /\ pending' = [f \in Entries |-> IF f = e THEN Len(queue)
                                       ELSE IF f = v THEN -1
                                       ELSE pending[f]]
      /\ queue' = Append(queue, [target_addr |-> heap'.offset[e],
                                 origin_addr |-> b,
                                 entry |-> e, size |-> q.size])
  BY <1>1 DEF e, h, r
<1> QED
  BY <1>3, <1>4, <1>5 DEF Placed

(* What the proofs use of the types: a pending field is a number.          *)
Types == Typed(Int)

(* MPI_Get into a buffer keeps the application's bookkeeping well typed.   *)
LEMMA IssueTypes ==
  ASSUME Types, NEW b \in Bufs, NEW q \in Requests, IssueGet(b, q)
  PROVE  /\ DOMAIN buf' = Bufs /\ \A c \in Bufs : DOMAIN buf'[c] = Offsets
         /\ asked' \in [Bufs -> Requests \cup {None}]
         /\ net' \subseteq unflushed' /\ unflushed' \subseteq Bufs
  BY DEF Types, Typed, IssueGet, Unwritten

(* What the type invariant says of the fields of the cache.                *)
CacheTyped(slots) ==
  /\ get_info \in [Entries -> Keys \cup {None}]
  /\ pending \in [Entries -> slots]
  /\ queue \in Seq(PendingCopy) /\ Len(queue) <= PendingStack
  /\ DOMAIN mem = Bytes

(* reset_data_structures leaves the fields well typed, whatever sizes the  *)
(* cache has now.                                                          *)
LEMMA InvalidatedTyped ==
  ASSUME Invalidated
  PROVE  /\ get_info' \in [Entries' -> Keys \cup {None}]
         /\ queue' \in Seq(PendingCopy') /\ Len(queue') <= PendingStack
  BY PendingStackAssumption DEF Invalidated, NoKeys

(* Every step keeps the variables in their types, whatever slots the       *)
(* pending fields may hold besides those of the queue.                     *)
LEMMA TypeStep ==
  ASSUME NEW S, S \subseteq Int, PendingValues \subseteq S,
         HeapInv, Typed(S), [Next]_vars
  PROVE  Typed(S)'
<1>1. SizesOK' /\ heap' \in HeapType' /\ table' \subseteq Entries'
  <2>1. HeapInv'
    BY HeapStep
  <2> QED
    BY <2>1 DEF HeapInv, BusyRegions, Live
<1>2. /\ PendingStack \in Nat /\ PendingStack > 0
      /\ -1 \in S /\ DOMAIN Unwritten = Offsets /\ Types
  <2>1. PendingStack \in Nat /\ PendingStack > 0 /\ -1 \in S
    BY PendingStackAssumption DEF PendingValues, Slots
  <2>2. pending \in [Entries -> S] => pending \in [Entries -> Int]
    OBVIOUS
  <2> QED
    BY <2>1, <2>2 DEF Unwritten, Types, Typed
<1>3. UNCHANGED sizes => UNCHANGED <<Entries, Bytes, HeapType, PendingCopy>>
  BY SameSizes
<1>4. ASSUME UNCHANGED <<sizes, get_info, pending, queue, mem>>
      PROVE  CacheTyped(S)'
  BY <1>3, <1>4 DEF Typed, CacheTyped
<1>5. ASSUME CacheTyped(S)', UNCHANGED <<win, info, mode, version, dirty>>,
             DOMAIN buf' = Bufs, \A b \in Bufs : DOMAIN buf'[b] = Offsets,
             asked' \in [Bufs -> Requests \cup {None}],
             net' \subseteq unflushed', unflushed' \subseteq Bufs
      PROVE  Typed(S)'
  BY <1>1, <1>5 DEF CacheTyped, Typed
<1>6. CASE UNCHANGED vars
  BY <1>4, <1>5, <1>6 DEF vars, cache, app, Typed
<1>7. CASE WinCreate
  <2>1. info' \in Modes /\ mode' \in BOOLEAN /\ win' = "open"
    BY <1>7, ModesAssumption DEF WinCreate
  <2>2. CacheTyped(S)' /\ UNCHANGED <<app, version, dirty>>
    <3>1. pending' \in [Entries' -> S] /\ DOMAIN mem' = Bytes'
      BY <1>7 DEF WinCreate, NewTable, NewBuffer, Blank, PendingValues
    <3> QED
      BY <1>7, <3>1, InvalidatedTyped DEF WinCreate, CacheTyped
  <2> QED
    BY <1>1, <2>1, <2>2 DEF app, CacheTyped, Typed
<1>8. CASE WinFree
  <2>1. CacheTyped(S)'
    <3>1. pending' \in [Entries' -> S] /\ DOMAIN mem' = Bytes'
      BY <1>2, <1>8 DEF WinFree, NoPending, Blank
    <3> QED
      BY <1>8, <3>1, InvalidatedTyped DEF WinFree, CacheTyped
  <2>2. /\ DOMAIN buf' = Bufs /\ \A b \in Bufs : DOMAIN buf'[b] = Offsets
        /\ asked' \in [Bufs -> Requests \cup {None}]
        /\ net' \subseteq unflushed' /\ unflushed' \subseteq Bufs
        /\ version' \in 0 .. MaxVersion
        /\ win' = "none" /\ info' = None /\ mode' = FALSE /\ dirty' = FALSE
    BY <1>2, <1>8 DEF WinFree, Typed
  <2> QED
    BY <1>1, <2>1, <2>2 DEF CacheTyped, Typed
<1>9. ASSUME NEW b \in Bufs, NEW q \in Requests, Get(b, q)
      PROVE  Typed(S)'
  <2>1. CASE GetHit(b, q)
    <3>1. DOMAIN buf' = Bufs /\ \A c \in Bufs : DOMAIN buf'[c] = Offsets
      BY <2>1 DEF GetHit, Typed
    <3>2. asked' \in [Bufs -> Requests \cup {None}]
      BY <2>1 DEF GetHit, Typed
    <3>3. CacheTyped(S)' /\ UNCHANGED <<win, info, mode, version, dirty>>
      BY <1>4, <2>1 DEF GetHit, cache
    <3>4. net' \subseteq unflushed' /\ unflushed' \subseteq Bufs
      BY <2>1 DEF GetHit, Typed
    <3> QED
      BY <1>5, <3>1, <3>2, <3>3, <3>4
  <2>2. CASE GetUncached(b, q)
    <3>1. /\ CacheTyped(S)' /\ IssueGet(b, q)
          /\ UNCHANGED <<win, info, mode, version, dirty>>
      BY <1>4, <2>2 DEF GetUncached, cache
    <3> QED
      BY <1>2, <1>5, <3>1, IssueTypes
  <2>3. CASE GetExits(b, q)
    <3>1. /\ CacheTyped(S)' /\ win' = "exited"
          /\ UNCHANGED <<info, mode, app, version, dirty>>
      BY <1>4, <2>3 DEF GetExits, cache
    <3> QED
      BY <1>1, <3>1 DEF app, CacheTyped, Typed
  <2>4. CASE GetNotCached(b, q)
    <3>1. PICK v \in Entries \cup {NOENTRY} : Dropped(v)
      BY <2>4, NotCachedFacts
    <3>2. /\ get_info' \in [Entries -> Keys \cup {None}]
          /\ pending' \in [Entries -> S]
      BY <1>2, <3>1 DEF Dropped, Typed
    <3>3. IssueGet(b, q) /\ UNCHANGED <<sizes, queue, mem>>
      BY <2>4 DEF GetNotCached
    <3>4. UNCHANGED <<win, info, mode, version, dirty>>
      BY <2>4 DEF GetNotCached
    <3>5. CacheTyped(S)'
      BY <1>3, <3>2, <3>3 DEF CacheTyped, Typed
    <3> QED
      BY <1>2, <1>5, <3>3, <3>4, <3>5, IssueTypes
  <2>5. CASE GetCached(b, q)
    <3>1. PICK e \in Entries, v \in Entries \cup {NOENTRY} : Placed(b, q, e, v)
      BY <2>5, CachedFacts
    <3>2. Len(queue) < PendingStack /\ Len(queue) \in Nat
      BY <2>5, PendingStackAssumption DEF GetCached, QueueFull, Typed
    <3>3. get_info' \in [Entries -> Keys \cup {None}]
      BY <3>1, RequestFacts DEF Placed, Typed
    <3>4. pending' \in [Entries -> S]
      <4>1. Len(queue) \in S /\ -1 \in S
        BY <1>2, <3>2 DEF PendingValues, Slots
      <4> QED
        BY <3>1, <4>1 DEF Placed, Typed
    <3>5. UNCHANGED <<sizes, win, info, mode, mem, version, dirty>> /\ IssueGet(b, q)
      BY <2>5 DEF GetCached
    <3>6. queue' \in Seq(PendingCopy) /\ Len(queue') <= PendingStack
      <4> DEFINE c == [target_addr |-> heap'.offset[e], origin_addr |-> b,
                       entry |-> e, size |-> q.size]
      <4>1. c \in PendingCopy
        BY <1>1, <1>3, <3>5, RequestFacts DEF HeapType, PendingCopy
      <4>2. queue \in Seq(PendingCopy) /\ queue' = Append(queue, c)
        BY <3>1 DEF Placed, Typed
      <4> HIDE DEF c
      <4>3. queue' \in Seq(PendingCopy) /\ Len(queue') = Len(queue) + 1
        BY <4>1, <4>2
      <4> QED
        BY <1>2, <3>2, <4>3
    <3>7. CacheTyped(S)'
      BY <1>3, <3>3, <3>4, <3>5, <3>6 DEF CacheTyped, Typed
    <3> QED
      BY <1>2, <1>5, <3>5, <3>7, IssueTypes
  <2> QED
    BY <1>9, <2>1, <2>2, <2>3, <2>4, <2>5 DEF Get
<1>10. ASSUME NEW r \in Ranks, Flush(r)
       PROVE  Typed(S)'
  <2>1. UNCHANGED <<sizes, win, info, mode, version, dirty>>
    BY <1>10 DEF Flush
  <2>2. /\ get_info' \in [Entries' -> Keys \cup {None}]
        /\ queue' \in Seq(PendingCopy') /\ Len(queue') <= PendingStack
    <3>1. CASE mode
      BY <1>10, <3>1, InvalidatedTyped DEF Flush
    <3>2. CASE ~mode
      BY <1>2, <1>3, <1>10, <2>1, <3>2 DEF Flush, Typed
    <3> QED
      BY <3>1, <3>2
  <2>3. DOMAIN mem' = Bytes /\ pending' \in [Entries -> S]
    <3>1. /\ DOMAIN mem' = Bytes
          /\ pending' = [e \in Entries |->
                           IF \E c \in Due : queue[c].entry = e THEN -1
                           ELSE pending[e]]
      BY <1>10 DEF Flush, DrainQueue
    <3> QED
      BY <1>2, <3>1 DEF Typed
  <2>4. CacheTyped(S)'
    BY <1>3, <2>1, <2>2, <2>3 DEF CacheTyped
  <2>5. /\ net' \subseteq unflushed' /\ unflushed' \subseteq Bufs
        /\ asked' \in [Bufs -> Requests \cup {None}]
        /\ DOMAIN buf' = Bufs /\ \A b \in Bufs : DOMAIN buf'[b] = Offsets
    BY <1>2, <1>10 DEF Flush, Typed
  <2> QED
    BY <1>5, <2>1, <2>4, <2>5
<1>11. CASE Invalidate
  <2>1. UNCHANGED <<sizes, win, info, mode, pending, mem, app, version>>
    BY <1>11 DEF Invalidate
  <2>2. CacheTyped(S)'
    BY <1>3, <1>11, <2>1, InvalidatedTyped DEF Invalidate, CacheTyped, Typed
  <2>3. dirty' = FALSE
    BY <1>11 DEF Invalidate
  <2> QED
    BY <1>1, <2>1, <2>2, <2>3 DEF app, CacheTyped, Typed
<1>12. ASSUME NEW b \in Bufs, Deliver(b)
       PROVE  Typed(S)'
  <2>1. DOMAIN buf' = Bufs /\ \A c \in Bufs : DOMAIN buf'[c] = Offsets
    BY <1>12 DEF Deliver, Delivered, Typed
  <2>2. CacheTyped(S)' /\ UNCHANGED <<win, info, mode, version, dirty>>
    BY <1>4, <1>12 DEF Deliver, cache
  <2>3. /\ net' \subseteq unflushed' /\ unflushed' \subseteq Bufs
        /\ asked' \in [Bufs -> Requests \cup {None}]
    BY <1>12 DEF Deliver, Typed
  <2> QED
    BY <1>5, <2>1, <2>2, <2>3
<1>13. CASE Update
  <2>1. CacheTyped(S)' /\ UNCHANGED <<win, info, mode, unflushed, net>>
    BY <1>4, <1>13 DEF Update, cache
  <2>2. version' \in 0 .. MaxVersion /\ dirty' \in BOOLEAN
    BY <1>13, ModesAssumption DEF Update, Typed
  <2>3. /\ DOMAIN buf' = Bufs /\ \A b \in Bufs : DOMAIN buf'[b] = Offsets
        /\ asked' \in [Bufs -> Requests \cup {None}]
    BY <1>2, <1>13 DEF Update
  <2> QED
    BY <1>1, <2>1, <2>2, <2>3 DEF CacheTyped, Typed
<1> QED
  BY <1>6, <1>7, <1>8, <1>9, <1>10, <1>11, <1>12, <1>13 DEF Next

(* The types hold initially.                                               *)
LEMMA TypeInit ==
  ASSUME Init
  PROVE  HeapInv /\ TypeOK
<1>1. SizesOK
  BY HtSizeAssumption, MemSizeAssumption DEF Init, SizesOK
<1>2. HeapInv
  BY <1>1, EmptyInv DEF Init
<1>3. queue \in Seq(PendingCopy) /\ Len(queue) <= PendingStack
  BY PendingStackAssumption DEF Init
<1>4. /\ get_info \in [Entries -> Keys \cup {None}]
      /\ pending \in [Entries -> PendingValues]
      /\ DOMAIN mem = Bytes
      /\ DOMAIN buf = Bufs /\ \A b \in Bufs : DOMAIN buf[b] = Offsets
      /\ asked \in [Bufs -> Requests \cup {None}]
  BY PendingStackAssumption
  DEF Init, NoKeys, NoPending, PendingValues, Slots, Blank, Unwritten
<1>5. /\ win = "none" /\ info = None /\ mode = FALSE
      /\ net = {} /\ unflushed = {} /\ table = {}
      /\ version \in 0 .. MaxVersion /\ dirty = FALSE
  BY ModesAssumption DEF Init
<1> QED
  BY <1>1, <1>2, <1>3, <1>4, <1>5 DEF TypeOK, Typed, HeapInv

(* What a pending field may hold is a number.                              *)
LEMMA PendingNumbers == PendingValues \subseteq Int
  BY PendingStackAssumption, FreshPendingAssumption DEF PendingValues, Slots

(* It is stronger than what the other proofs use.                          *)
LEMMA TypesFollow == TypeOK => Types
  BY PendingNumbers DEF TypeOK, Types, Typed

(* An entry has a slot or -1 from the moment it is placed.                 *)
Written == \A e \in table : pending[e] \in Slots

LEMMA WrittenStep ==
  ASSUME HeapInv, Types, Written, [Next]_vars
  PROVE  Written'
<1>1. /\ table \subseteq Entries /\ pending \in [Entries -> Int]
      /\ -1 \in Slots
  BY PendingStackAssumption DEF Types, Typed, Slots
<1>2. CASE UNCHANGED <<table, pending>>
  BY <1>2 DEF Written
<1>3. CASE table' = {}
  BY <1>3 DEF Written
<1>4. CASE UNCHANGED vars
  BY <1>2, <1>4 DEF vars, cache
<1>5. CASE WinCreate \/ WinFree \/ Invalidate
  BY <1>3, <1>5 DEF WinCreate, WinFree, Invalidate, Invalidated
<1>6. ASSUME NEW b \in Bufs, NEW q \in Requests, Get(b, q)
      PROVE  Written'
  <2>1. CASE GetHit(b, q) \/ GetUncached(b, q) \/ GetExits(b, q)
    BY <1>2, <2>1 DEF GetHit, GetUncached, GetExits, cache
  <2>2. CASE GetNotCached(b, q)
    <3>1. PICK v \in Entries \cup {NOENTRY} : Dropped(v)
      BY <2>2, NotCachedFacts
    <3> QED
      BY <1>1, <3>1 DEF Dropped, Written
  <2>3. CASE GetCached(b, q)
    <3>1. PICK e \in Entries, v \in Entries \cup {NOENTRY} : Placed(b, q, e, v)
      BY <2>3, CachedFacts
    <3>2. Len(queue) \in Slots
      BY <2>3, PendingStackAssumption
      DEF GetCached, QueueFull, Types, Typed, Slots
    <3>3. \A f \in table' : /\ f \in Entries
                            /\ f # e => f \in table /\ pending'[f] = pending[f]
                            /\ f = e => pending'[f] = Len(queue)
      BY <1>1, <3>1 DEF Placed
    <3> QED
      BY <3>2, <3>3 DEF Written
  <2> QED
    BY <1>6, <2>1, <2>2, <2>3 DEF Get
<1>7. ASSUME NEW r \in Ranks, Flush(r)
      PROVE  Written'
  <2>1. table' = {} \/ table' = table
    BY <1>7 DEF Flush, Invalidated
  <2>2. \A e \in table : pending'[e] \in {-1, pending[e]}
    BY <1>1, <1>7 DEF Flush, DrainQueue
  <2> QED
    BY <1>1, <1>3, <2>1, <2>2 DEF Written
<1>8. CASE \E b \in Bufs : Deliver(b)
  BY <1>2, <1>8 DEF Deliver, cache
<1>9. CASE Update
  BY <1>2, <1>9 DEF Update, cache
<1> QED
  BY <1>4, <1>5, <1>6, <1>7, <1>8, <1>9 DEF Next

LEMMA TypeOKStep ==
  ASSUME HeapInv, TypeOK, [Next]_vars
  PROVE  TypeOK'
BY PendingNumbers, TypesFollow, TypeStep, WrittenStep DEF TypeOK, Written

(* The type invariant.                                                     *)
THEOREM TypeCorrect == Spec => []TypeOK
<1>1. Init => HeapInv /\ TypeOK
  BY TypeInit
<1>2. HeapInv /\ TypeOK /\ [Next]_vars => HeapInv' /\ TypeOK'
  BY HeapStep, TypeOKStep
<1> QED
  BY <1>1, <1>2, PTL DEF Spec

-----------------------------------------------------------------------------
(* The hash table indexes the busy regions, each under the key of a        *)
(* request of its length, and no key twice.                                *)
LEMMA TableStep ==
  ASSUME HeapInv, Types, TableMatchesHeap, [Next]_vars
  PROVE  TableMatchesHeap'
<1>1. table' = BusyRegions(heap)'
  <2>1. HeapInv'
    BY HeapStep
  <2> QED
    BY <2>1 DEF HeapInv
<1>2. CASE UNCHANGED <<heap, table, get_info>>
  BY <1>1, <1>2 DEF TableMatchesHeap
<1>3. CASE table' = {}
  BY <1>1, <1>3 DEF TableMatchesHeap
<1>4. CASE UNCHANGED vars
  BY <1>2, <1>4 DEF vars, cache
<1>5. CASE WinCreate
  BY <1>3, <1>5 DEF WinCreate, Invalidated
<1>6. CASE WinFree
  BY <1>3, <1>6 DEF WinFree, Invalidated
<1>7. ASSUME NEW b \in Bufs, NEW q \in Requests, Get(b, q)
      PROVE  TableMatchesHeap'
  <2>1. CASE GetHit(b, q)
    BY <1>2, <2>1 DEF GetHit, cache
  <2>2. CASE GetUncached(b, q)
    BY <1>2, <2>2 DEF GetUncached, cache
  <2>3. CASE GetExits(b, q)
    BY <1>2, <2>3 DEF GetExits, cache
  <2>4. CASE GetNotCached(b, q)
    <3>1. PICK v \in Entries \cup {NOENTRY} : Dropped(v)
      BY <2>4, NotCachedFacts
    <3>2. \A f \in table' : /\ f \in table
                            /\ get_info'[f] = get_info[f]
                            /\ heap'.size[f] = heap.size[f]
      BY <3>1 DEF Dropped, Types, Typed
    <3> QED
      BY <1>1, <3>2 DEF TableMatchesHeap
  <2>5. CASE GetCached(b, q)
    <3>1. PICK e \in Entries, v \in Entries \cup {NOENTRY} : Placed(b, q, e, v)
      BY <2>5, CachedFacts
    <3>2. \A f \in table' \ {e} : /\ f \in table
                                  /\ get_info'[f] = get_info[f]
                                  /\ heap'.size[f] = heap.size[f]
      BY <3>1 DEF Placed, Types, Typed
    <3>3. get_info'[e] = Key(q) /\ heap'.size[e] = q.size
      BY <3>1 DEF Placed
    <3>4. \A f \in table : get_info[f] # Key(q)
      BY <2>5 DEF GetCached, Misses, Lookup
    <3>5. Key(q) \in Keys /\ Key(q).size = q.size
      BY RequestFacts
    <3>6. \A f \in table' : get_info'[f] \in Keys /\ get_info'[f].size = heap'.size[f]
      BY <3>2, <3>3, <3>5 DEF TableMatchesHeap
    <3>7. \A f, g \in table' : get_info'[f] = get_info'[g] => f = g
      BY <3>2, <3>3, <3>4 DEF TableMatchesHeap
    <3> QED
      BY <1>1, <3>6, <3>7 DEF TableMatchesHeap
  <2> QED
    BY <1>7, <2>1, <2>2, <2>3, <2>4, <2>5 DEF Get
<1>8. ASSUME NEW r \in Ranks, Flush(r)
      PROVE  TableMatchesHeap'
  <2>1. table' = {} \/ UNCHANGED <<heap, table, get_info>>
    BY <1>8 DEF Flush, Invalidated
  <2> QED
    BY <1>2, <1>3, <2>1
<1>9. CASE Invalidate
  BY <1>3, <1>9 DEF Invalidate, Invalidated
<1>10. ASSUME NEW b \in Bufs, Deliver(b)
       PROVE  TableMatchesHeap'
  BY <1>2, <1>10 DEF Deliver, cache
<1>11. CASE Update
  BY <1>2, <1>11 DEF Update, cache
<1> QED
  BY <1>4, <1>5, <1>6, <1>7, <1>8, <1>9, <1>10, <1>11 DEF Next

(* Whatever is evicted, placed, dropped or invalidated, the hash table and *)
(* the descriptors agree.                                                  *)
THEOREM TableAlwaysMatchesHeap == Spec => []TableMatchesHeap
<1>1. Init => TableMatchesHeap
  BY TypeInit DEF HeapInv, Init, TableMatchesHeap
<1>2. HeapInv /\ Types /\ TableMatchesHeap /\ [Next]_vars => TableMatchesHeap'
  BY TableStep
<1> QED
  BY <1>1, <1>2, HeapInvariance, TypeCorrect, TypesFollow, PTL DEF Spec

-----------------------------------------------------------------------------
(* The pending copy of an entry that waits for its data.                   *)
CopyMatches(e) ==
  LET i == pending[e] + 1 IN
  /\ i \in DOMAIN queue
  /\ queue[i].entry = e
  /\ queue[i].target_addr = heap.offset[e]
  /\ queue[i].size = heap.size[e]
  /\ queue[i].origin_addr \in unflushed
  /\ Key(asked[queue[i].origin_addr]) = get_info[e]

(* A get into another buffer leaves an entry's pending copy as it was.     *)
LEMMA CopyStays ==
  ASSUME Types, NEW b \in Bufs, NEW q \in Requests,
         b \notin unflushed, IssueGet(b, q),
         NEW e \in Entries, pending[e] >= 0, CopyMatches(e),
         pending'[e] = pending[e], get_info'[e] = get_info[e],
         heap'.offset[e] = heap.offset[e], heap'.size[e] = heap.size[e],
         pending[e] + 1 \in DOMAIN queue',
         queue'[pending[e] + 1] = queue[pending[e] + 1]
  PROVE  CopyMatches(e)'
<1> DEFINE c == queue[pending[e] + 1].origin_addr
<1>1. c \in unflushed /\ c # b
  BY DEF CopyMatches
<1>2. asked'[c] = asked[c] /\ c \in unflushed'
  BY <1>1 DEF IssueGet, Types, Typed
<1> QED
  BY <1>1, <1>2 DEF CopyMatches

(* Every step keeps entries and pending copies together.                   *)
LEMMA PendingStep ==
  ASSUME HeapInv, Types, PendingCopyMatches, [Next]_vars
  PROVE  PendingCopyMatches'
<1>1. PendingCopyMatches <=> \A e \in table : pending[e] >= 0 => CopyMatches(e)
  BY DEF PendingCopyMatches, CopyMatches
<1>2. PendingCopyMatches' <=>
        \A e \in table' : pending'[e] >= 0 => CopyMatches(e)'
  BY DEF PendingCopyMatches, CopyMatches
<1>3. table \subseteq Entries /\ pending \in [Entries -> Int]
  BY DEF Types, Typed
<1>4. CASE UNCHANGED <<heap, table, get_info, pending, queue, unflushed, asked>>
  BY <1>1, <1>2, <1>4 DEF CopyMatches
<1>5. CASE table' = {}
  BY <1>2, <1>5
<1>6. ASSUME \A e \in table : ~(pending[e] >= 0),
             table' = table, pending' = pending
      PROVE  PendingCopyMatches'
  BY <1>2, <1>6
<1>7. unflushed = {} => \A e \in table : ~(pending[e] >= 0)
  BY <1>1 DEF CopyMatches
<1>8. CASE UNCHANGED vars
  BY <1>4, <1>8 DEF vars, cache, app
<1>9. CASE WinCreate
  BY <1>5, <1>9 DEF WinCreate, Invalidated
<1>10. CASE WinFree
  BY <1>5, <1>10 DEF WinFree, Invalidated
<1>11. ASSUME NEW b \in Bufs, NEW q \in Requests, Get(b, q)
       PROVE  PendingCopyMatches'
  <2>1. CASE GetHit(b, q)
    <3>1. /\ UNCHANGED <<heap, table, get_info, pending, queue, unflushed>>
          /\ b \notin unflushed /\ asked' = [asked EXCEPT ![b] = q]
      BY <2>1 DEF GetHit, MayGet, cache
    <3>2. \A c \in unflushed : asked'[c] = asked[c]
      BY <3>1 DEF Types, Typed
    <3> QED
      BY <1>1, <1>2, <3>1, <3>2 DEF CopyMatches
  <2>2. CASE GetUncached(b, q)
    <3>1. /\ UNCHANGED <<heap, table, get_info, pending, queue>>
          /\ b \notin unflushed /\ IssueGet(b, q)
      BY <2>2 DEF GetUncached, MayGet, cache
    <3>2. \A e \in table : CopyMatches(e) => pending[e] + 1 \in DOMAIN queue
      BY DEF CopyMatches
    <3>3. \A e \in table : pending[e] >= 0 => CopyMatches(e)'
      BY <1>1, <1>3, <3>1, <3>2, CopyStays
    <3> QED
      BY <1>2, <3>1, <3>3
  <2>3. CASE GetExits(b, q)
    BY <1>4, <2>3 DEF GetExits, cache, app
  <2>4. CASE GetNotCached(b, q)
    <3>1. PICK v \in Entries \cup {NOENTRY} : Dropped(v)
      BY <2>4, NotCachedFacts
    <3>2. queue' = queue /\ b \notin unflushed /\ IssueGet(b, q)
      BY <2>4 DEF GetNotCached, Misses, MayGet
    <3> SUFFICES ASSUME NEW e \in table', pending'[e] >= 0
                 PROVE  CopyMatches(e)'
      BY <1>2
    <3>3. /\ e \in table /\ e # v /\ e \in Entries
          /\ heap'.offset[e] = heap.offset[e] /\ heap'.size[e] = heap.size[e]
      BY <1>3, <3>1 DEF Dropped
    <3>4. pending'[e] = pending[e] /\ get_info'[e] = get_info[e]
      BY <3>1, <3>3 DEF Dropped, Types, Typed
    <3>5. CopyMatches(e)
      BY <1>1, <3>3, <3>4
    <3>6. pending[e] + 1 \in DOMAIN queue
      BY <3>5 DEF CopyMatches
    <3> QED
      BY <3>2, <3>3, <3>4, <3>5, <3>6, CopyStays
  <2>5. CASE GetCached(b, q)
    <3>1. PICK n \in Entries, v \in Entries \cup {NOENTRY} : Placed(b, q, n, v)
      BY <2>5, CachedFacts
    <3>2. b \notin unflushed /\ IssueGet(b, q)
      BY <2>5 DEF GetCached, Misses, MayGet
    <3>3. /\ Len(queue) \in Nat /\ DOMAIN queue = 1 .. Len(queue)
          /\ DOMAIN queue' = 1 .. (Len(queue) + 1)
          /\ \A i \in 1 .. Len(queue) : queue'[i] = queue[i]
          /\ queue'[Len(queue) + 1] = [target_addr |-> heap'.offset[n],
                                       origin_addr |-> b,
                                       entry |-> n, size |-> q.size]
      <4> DEFINE c == [target_addr |-> heap'.offset[n], origin_addr |-> b,
                       entry |-> n, size |-> q.size]
      <4>1. queue' = Append(queue, c) /\ queue \in Seq(PendingCopy)
        BY <3>1 DEF Placed, Types, Typed
      <4> HIDE DEF c
      <4>2. /\ Len(queue) \in Nat /\ DOMAIN queue = 1 .. Len(queue)
            /\ DOMAIN queue' = 1 .. (Len(queue) + 1)
            /\ \A i \in 1 .. Len(queue) : queue'[i] = queue[i]
            /\ queue'[Len(queue) + 1] = c
        BY <4>1
      <4> QED
        BY <4>2 DEF c
    <3> SUFFICES ASSUME NEW e \in table', pending'[e] >= 0
                 PROVE  CopyMatches(e)'
      BY <1>2
    <3>4. CASE e = n
      <4>1. /\ pending'[e] = Len(queue) /\ get_info'[e] = Key(q)
            /\ heap'.size[e] = q.size
        BY <3>1, <3>4 DEF Placed
      <4>2. asked'[b] = q /\ b \in unflushed'
        BY <3>2 DEF IssueGet, Types, Typed
      <4>3. Len(queue) + 1 \in DOMAIN queue'
        BY <3>3
      <4> QED
        BY <3>3, <3>4, <4>1, <4>2, <4>3 DEF CopyMatches
    <3>5. CASE e # n
      <4>1. /\ e \in table /\ e # v /\ e \in Entries
            /\ heap'.offset[e] = heap.offset[e] /\ heap'.size[e] = heap.size[e]
        BY <1>3, <3>1, <3>5 DEF Placed
      <4>2. pending'[e] = pending[e] /\ get_info'[e] = get_info[e]
        BY <3>1, <3>5, <4>1 DEF Placed
      <4>3. CopyMatches(e)
        BY <1>1, <4>1, <4>2
      <4>4. pending[e] + 1 \in 1 .. Len(queue)
        BY <3>3, <4>3 DEF CopyMatches
      <4>5. /\ pending[e] + 1 \in DOMAIN queue'
            /\ queue'[pending[e] + 1] = queue[pending[e] + 1]
        BY <3>3, <4>4
      <4> QED
        BY <3>2, <4>1, <4>2, <4>3, <4>5, CopyStays
    <3> QED
      BY <3>4, <3>5
  <2> QED
    BY <1>11, <2>1, <2>2, <2>3, <2>4, <2>5 DEF Get
<1>12. ASSUME NEW r \in Ranks, Flush(r)
       PROVE  PendingCopyMatches'
  <2>1. CASE mode
    BY <1>5, <1>12, <2>1 DEF Flush, Invalidated
  <2>2. CASE ~mode
    <3>1. /\ table' = table
          /\ pending' = [e \in Entries |->
                           IF \E c \in Due : queue[c].entry = e THEN -1
                           ELSE pending[e]]
      BY <1>12, <2>2 DEF Flush, DrainQueue
    <3>2. \A e \in table : pending[e] >= 0 => \E c \in Due : queue[c].entry = e
      <4> SUFFICES ASSUME NEW e \in table, pending[e] >= 0
                   PROVE  pending[e] + 1 \in Due /\ queue[pending[e] + 1].entry = e
        OBVIOUS
      <4>1. pending[e] + 1 \in DOMAIN queue /\ queue[pending[e] + 1].entry = e
        BY <1>1 DEF CopyMatches
      <4>2. pending[e] + 1 \in 1 .. Len(queue) /\ pending[e] \in Int
        BY <1>3, <4>1 DEF Types, Typed
      <4> QED
        BY <4>1, <4>2 DEF Due
    <3>3. \A e \in table' : ~(pending'[e] >= 0)
      BY <1>3, <3>1, <3>2
    <3> QED
      BY <1>2, <3>3
  <2> QED
    BY <2>1, <2>2
<1>13. CASE Invalidate
  BY <1>5, <1>13 DEF Invalidate, Invalidated
<1>14. ASSUME NEW b \in Bufs, Deliver(b)
       PROVE  PendingCopyMatches'
  BY <1>4, <1>14 DEF Deliver, cache
<1>15. CASE Update
  BY <1>6, <1>7, <1>15 DEF Update, cache
<1> QED
  BY <1>8, <1>9, <1>10, <1>11, <1>12, <1>13, <1>14, <1>15 DEF Next

(* An entry that waits for its data has its own pending copy, from the     *)
(* buffer of an outstanding get for the same key to the entry's bytes,     *)
(* whatever was evicted, reused or invalidated meanwhile.                  *)
THEOREM PendingCopyAlwaysMatches == Spec => []PendingCopyMatches
<1>1. Init => PendingCopyMatches
  BY DEF Init, PendingCopyMatches
<1>2. HeapInv /\ Types /\ PendingCopyMatches /\ [Next]_vars
        => PendingCopyMatches'
  BY PendingStep
<1> QED
  BY <1>1, <1>2, HeapInvariance, TypeCorrect, TypesFollow, PTL DEF Spec

-----------------------------------------------------------------------------
(* What the application gets: the bytes of the target, as if there were no *)
(* cache.                                                                  *)
(*                                                                         *)
(* DataRight, the bytes in the cache and in the application's buffers, is  *)
(* inductive only as a whole: a hit is right because the cache is, and the *)
(* cache is right because a flush copies buffers that are.  Bookkeeping    *)
(* says what else a flush relies on: a copy it makes belongs to an entry   *)
(* that is still there.  With them every step of ClampiWindow is one of    *)
(* RmaWindow or a stutter.                                                 *)
(*                                                                         *)
(* Three things the code does not see to are hypotheses; the runs          *)
(* flush_other_rank, aint_narrowing and transparent_mode show what happens *)
(* without them.                                                           *)


(* A flush leaves no get to another rank outstanding.                      *)
FlushesAll == AnyTarget = FALSE

(* The displacements fit the int they are kept in: no two requests share a *)
(* key.                                                                    *)
KeysTell == \A p, q \in Requests : Key(p) = Key(q) => p = q

(* A window asked to be transparent reads as transparent.                  *)
ModeReads == "TRANSPARENT" \in Modes => FALSE \notin ModeBytes

-----------------------------------------------------------------------------
(* A copy the flush will make belongs to an entry of the hash table.       *)
DueInTable ==
  \A c \in 1 .. Len(queue) :
    pending[queue[c].entry] = c - 1 => queue[c].entry \in table

(* A window that reads as transparent caches nothing between two flushes;  *)
(* gets wait for a flush with the request they were made for, and there    *)
(* are as many of them as pending copies, or more.                         *)
Bookkeeping ==
  /\ win = "none" => table = {}
  /\ mode /\ unflushed = {} => table = {}
  /\ \A b \in unflushed : asked[b] \in Requests
  /\ DueInTable
  /\ IsFiniteSet(unflushed)
  /\ Len(queue) <= Cardinality(unflushed)

(* The fields of a pending copy.                                           *)
LEMMA QueuedTypes ==
  ASSUME Types, NEW c \in 1 .. Len(queue)
  PROVE  /\ queue[c].entry \in Entries /\ queue[c].origin_addr \in Bufs
         /\ queue[c].target_addr \in Nat /\ queue[c].size \in Nat
<1>1. queue \in Seq(PendingCopy)
  BY DEF Types, Typed
<1>2. queue[c] \in PendingCopy
  BY <1>1
<1> QED
  BY <1>2 DEF PendingCopy

(* A get whose buffer was not in use waits for the next flush.             *)
LEMMA IssueWaits ==
  ASSUME Types, Bookkeeping, NEW b \in Bufs, NEW q \in Requests,
         b \notin unflushed, IssueGet(b, q)
  PROVE  /\ unflushed' # {}
         /\ \A c \in unflushed' : asked'[c] \in Requests
         /\ IsFiniteSet(unflushed')
         /\ Cardinality(unflushed') = Cardinality(unflushed) + 1
         /\ Cardinality(unflushed) \in Nat
<1>1. unflushed' = unflushed \cup {b} /\ asked' = [asked EXCEPT ![b] = q]
  BY DEF IssueGet
<1>2. \A c \in unflushed' : asked'[c] \in Requests
  BY <1>1 DEF Bookkeeping, Types, Typed
<1>3. /\ IsFiniteSet(unflushed')
      /\ Cardinality(unflushed') = Cardinality(unflushed) + 1
      /\ Cardinality(unflushed) \in Nat
  BY <1>1, FS_AddElement, FS_CardinalityType DEF Bookkeeping
<1> QED
  BY <1>1, <1>2, <1>3

(* An emptied cache has nothing pending.                                   *)
LEMMA EmptiedBooks ==
  ASSUME table' = {}, queue' = <<>>, IsFiniteSet(unflushed'),
         \A b \in unflushed' : asked'[b] \in Requests
  PROVE  Bookkeeping'
<1>1. Cardinality(unflushed') \in Nat
  BY FS_CardinalityType
<1>2. Len(queue') = 0 /\ 1 .. Len(queue') = {}
  OBVIOUS
<1> QED
  BY <1>1, <1>2 DEF Bookkeeping, DueInTable

(* Every step keeps the books.                                             *)
LEMMA BooksStep ==
  ASSUME HeapInv, Types, Bookkeeping, [Next]_vars
  PROVE  Bookkeeping'
<1>1. CASE UNCHANGED <<win, mode, table, pending, queue, unflushed, asked>>
  BY <1>1 DEF Bookkeeping, DueInTable
<1>2. CASE UNCHANGED vars
  BY <1>1, <1>2 DEF vars, cache, app
<1>3. CASE WinCreate
  BY <1>3, EmptiedBooks DEF WinCreate, Invalidated, app, Bookkeeping
<1>4. CASE WinFree
  BY <1>4, EmptiedBooks DEF WinFree, Invalidated, Bookkeeping
<1>5. ASSUME NEW b \in Bufs, NEW q \in Requests, Get(b, q)
      PROVE  Bookkeeping'
  <2>1. CASE GetHit(b, q)
    <3>1. /\ UNCHANGED <<win, mode, table, pending, queue, unflushed>>
          /\ b \notin unflushed /\ asked' = [asked EXCEPT ![b] = q]
      BY <2>1 DEF GetHit, MayGet, cache
    <3>2. \A c \in unflushed : asked'[c] = asked[c]
      BY <3>1 DEF Types, Typed
    <3> QED
      BY <3>1, <3>2 DEF Bookkeeping, DueInTable
  <2>2. CASE GetUncached(b, q)
    <3>1. /\ UNCHANGED <<win, mode, table, pending, queue>>
          /\ b \notin unflushed /\ IssueGet(b, q) /\ win = "open"
      BY <2>2 DEF GetUncached, MayGet, cache
    <3>2. Len(queue) \in Nat
      BY DEF Types, Typed
    <3> QED
      BY <3>1, <3>2, IssueWaits DEF Bookkeeping, DueInTable
  <2>3. CASE GetExits(b, q)
    BY <2>3 DEF GetExits, cache, app, Bookkeeping, DueInTable
  <2>4. CASE GetNotCached(b, q)
    <3>1. PICK v \in Entries \cup {NOENTRY} : Dropped(v)
      BY <2>4, NotCachedFacts
    <3>2. /\ UNCHANGED <<win, mode, queue>> /\ b \notin unflushed
          /\ IssueGet(b, q) /\ win = "open"
      BY <2>4 DEF GetNotCached, Misses, MayGet
    <3>3. DueInTable'
      <4> SUFFICES ASSUME NEW c \in 1 .. Len(queue),
                          pending'[queue[c].entry] = c - 1
                   PROVE  queue[c].entry \in table'
        BY <3>2 DEF DueInTable
      <4>1. queue[c].entry \in Entries
        BY QueuedTypes
      <4>2. ASSUME NEW f \in Entries
            PROVE  pending'[f] = IF f = v THEN -1 ELSE pending[f]
        BY <3>1 DEF Dropped, Types, Typed
      <4>3. c \in Nat /\ c > 0
        BY DEF Types, Typed
      <4>4. /\ queue[c].entry # v
            /\ pending'[queue[c].entry] = pending[queue[c].entry]
        BY <4>1, <4>2, <4>3
      <4> QED
        BY <3>1, <4>4 DEF Dropped, Bookkeeping, DueInTable
    <3>4. Len(queue) \in Nat
      BY DEF Types, Typed
    <3> QED
      BY <3>2, <3>3, <3>4, IssueWaits DEF Bookkeeping
  <2>5. CASE GetCached(b, q)
    <3>1. PICK e \in Entries, v \in Entries \cup {NOENTRY} : Placed(b, q, e, v)
      BY <2>5, CachedFacts
    <3>2. /\ UNCHANGED <<win, mode>> /\ b \notin unflushed
          /\ IssueGet(b, q) /\ win = "open"
      BY <2>5 DEF GetCached, Misses, MayGet
    <3>3. /\ Len(queue) \in Nat /\ Len(queue') = Len(queue) + 1
          /\ \A c \in 1 .. Len(queue) : queue'[c] = queue[c]
          /\ queue'[Len(queue) + 1].entry = e
      BY <3>1 DEF Placed, Types, Typed
    <3>4. DueInTable'
      <4> SUFFICES ASSUME NEW c \in 1 .. Len(queue'),
                          pending'[queue'[c].entry] = c - 1
                   PROVE  queue'[c].entry \in table'
        BY DEF DueInTable
      <4>1. CASE queue'[c].entry = e
        BY <3>1, <4>1 DEF Placed
      <4>2. CASE queue'[c].entry # e
        <5>1. c \in 1 .. Len(queue) /\ queue'[c] = queue[c]
          BY <3>3, <4>2
        <5>2. queue[c].entry \in Entries
          BY <5>1, QueuedTypes
        <5>3. /\ queue[c].entry # v
              /\ pending'[queue[c].entry] = pending[queue[c].entry]
          <6>1. pending'[queue[c].entry] =
                  IF queue[c].entry = v THEN -1 ELSE pending[queue[c].entry]
            BY <3>1, <4>2, <5>1, <5>2 DEF Placed
          <6>2. c \in Nat /\ c > 0 /\ pending'[queue[c].entry] = c - 1
            BY <3>3, <5>1
          <6> QED
            BY <6>1, <6>2
        <5> QED
          BY <3>1, <5>1, <5>3 DEF Placed, Bookkeeping, DueInTable
      <4> QED
        BY <4>1, <4>2
    <3> QED
      BY <3>2, <3>3, <3>4, IssueWaits DEF Bookkeeping
  <2> QED
    BY <1>5, <2>1, <2>2, <2>3, <2>4, <2>5 DEF Get
<1>6. ASSUME NEW r \in Ranks, Flush(r)
      PROVE  Bookkeeping'
  <2>1. /\ unflushed' \subseteq unflushed
        /\ \A b \in unflushed' : asked'[b] = asked[b]
        /\ queue' = <<>> /\ UNCHANGED <<win, mode>>
        /\ mode => table' = {}
        /\ ~mode => table' = table
    BY <1>6 DEF Flush, Invalidated, Types, Typed
  <2>2. /\ IsFiniteSet(unflushed')
        /\ \A b \in unflushed' : asked'[b] \in Requests
    BY <2>1, FS_Subset DEF Bookkeeping
  <2>3. Len(queue') = 0 /\ Cardinality(unflushed') \in Nat /\ DueInTable'
    BY <2>1, <2>2, FS_CardinalityType DEF DueInTable
  <2> QED
    BY <2>1, <2>2, <2>3 DEF Bookkeeping
<1>7. CASE Invalidate
  BY <1>7, EmptiedBooks DEF Invalidate, Invalidated, app, Bookkeeping
<1>8. ASSUME NEW b \in Bufs, Deliver(b)
      PROVE  Bookkeeping'
  BY <1>1, <1>8 DEF Deliver, cache
<1>9. CASE Update
  BY <1>9 DEF Update, cache, Bookkeeping, DueInTable
<1> QED
  BY <1>2, <1>3, <1>4, <1>5, <1>6, <1>7, <1>8, <1>9 DEF Next

-----------------------------------------------------------------------------
(* The window is of a kind that was asked for, and reads as transparent if *)
(* it was asked to be.                                                     *)
KindKept ==
  win = "open" => info \in Modes /\ (info = "TRANSPARENT" => mode)

LEMMA KindStep ==
  ASSUME ModeReads, KindKept, [Next]_vars
  PROVE  KindKept'
<1>1. CASE UNCHANGED <<info, mode>> /\ win' \in {win, "exited"}
  BY <1>1 DEF KindKept
<1>2. CASE UNCHANGED vars
  BY <1>1, <1>2 DEF vars, cache
<1>3. CASE WinCreate
  <2>1. info' \in Modes /\ mode' \in ModeBytes /\ mode' \in BOOLEAN
    BY <1>3, ModesAssumption DEF WinCreate
  <2>2. info' = "TRANSPARENT" => mode'
    BY <2>1 DEF ModeReads
  <2> QED
    BY <2>1, <2>2 DEF KindKept
<1>4. CASE WinFree
  BY <1>4 DEF WinFree, KindKept
<1>5. ASSUME NEW b \in Bufs, NEW q \in Requests, Get(b, q)
      PROVE  KindKept'
  <2>1. UNCHANGED <<info, mode>> /\ win' \in {win, "exited"}
    BY <1>5 DEF Get, GetHit, GetUncached, GetNotCached, GetCached, GetExits,
                cache
  <2> QED
    BY <1>1, <2>1
<1>6. ASSUME NEW r \in Ranks, Flush(r)
      PROVE  KindKept'
  BY <1>1, <1>6 DEF Flush
<1>7. CASE Invalidate
  BY <1>1, <1>7 DEF Invalidate
<1>8. ASSUME NEW b \in Bufs, Deliver(b)
      PROVE  KindKept'
  BY <1>1, <1>8 DEF Deliver, cache
<1>9. CASE Update
  BY <1>1, <1>9 DEF Update, cache
<1> QED
  BY <1>2, <1>3, <1>4, <1>5, <1>6, <1>7, <1>8, <1>9 DEF Next

-----------------------------------------------------------------------------
(* Everything about a state that the bytes depend on.                      *)
Sound ==
  /\ HeapInv /\ Types /\ TableMatchesHeap /\ PendingCopyMatches
  /\ Bookkeeping /\ KindKept

DataRight == CachedDataRight /\ GetsReturnTargetData

(* Where the bytes of request q are, in the memory buffer and in a buffer  *)
(* of the application.                                                     *)
LEMMA WhereBytesAre ==
  ASSUME Sound, NEW e \in table, NEW q \in Requests, Key(q) = get_info[e],
         NEW i \in 0 .. (q.size - 1)
  PROVE  /\ heap.offset[e] + i \in Span(heap, e)
         /\ heap.offset[e] + i \in Bytes
         /\ i \in Offsets
<1>1. q.size \in Nat /\ heap.size[e] = q.size
  BY RequestFacts DEF Sound, TableMatchesHeap
<1>2. heap.offset[e] \in Nat /\ e \in Live(heap) /\ Tiled(heap)
  BY DEF Sound, HeapInv, BusyRegions, Live, HeapType
<1>3. heap.offset[e] + i \in Span(heap, e)
  BY <1>1, <1>2 DEF Span
<1> QED
  BY <1>2, <1>3 DEF Tiled, Partitioned, Offsets

(* The one copy a flush makes to a byte of an entry is the entry's own.    *)
LEMMA OwnCopyOnly ==
  ASSUME Sound, NEW e \in table, NEW x \in Span(heap, e)
  PROVE  /\ pending[e] >= 0 => /\ CopiesTo(x) = {pending[e] + 1}
                               /\ LastCopyTo(x) = pending[e] + 1
         /\ ~(pending[e] >= 0) => CopiesTo(x) = {}
<1>1. /\ table \subseteq Live(heap) /\ table \subseteq Entries /\ Tiled(heap)
      /\ pending \in [Entries -> Int]
  BY DEF Sound, HeapInv, BusyRegions, Types, Typed
<1>2. \A f \in table : pending[f] >= 0 => CopyMatches(f)
  BY DEF Sound, PendingCopyMatches, CopyMatches
<1>3. ASSUME NEW c \in CopiesTo(x)
      PROVE  pending[e] >= 0 /\ c = pending[e] + 1
  <2> DEFINE f == queue[c].entry
  <2>1. /\ c \in 1 .. Len(queue) /\ pending[f] = c - 1
        /\ x \in queue[c].target_addr ..
                    (queue[c].target_addr + queue[c].size - 1)
    BY DEF CopiesTo, Due
  <2>2. f \in table
    BY <2>1 DEF Sound, Bookkeeping, DueInTable
  <2>3. c \in Nat /\ c > 0 /\ pending[f] >= 0 /\ pending[f] + 1 = c
    BY <2>1 DEF Sound, Types, Typed
  <2>4. queue[c].target_addr = heap.offset[f] /\ queue[c].size = heap.size[f]
    BY <1>2, <2>2, <2>3 DEF CopyMatches
  <2>5. x \in Span(heap, f)
    BY <2>1, <2>4 DEF Span
  <2>6. f = e
    BY <1>1, <2>2, <2>5 DEF Tiled, Partitioned
  <2> QED
    BY <2>3, <2>6
<1>4. ASSUME pending[e] >= 0
      PROVE  pending[e] + 1 \in CopiesTo(x)
  <2> DEFINE c == pending[e] + 1
  <2>1. /\ c \in DOMAIN queue /\ queue[c].entry = e
        /\ queue[c].target_addr = heap.offset[e] /\ queue[c].size = heap.size[e]
    BY <1>2, <1>4 DEF CopyMatches
  <2>2. c \in 1 .. Len(queue) /\ pending[e] = c - 1
    BY <1>1, <2>1 DEF Sound, Types, Typed
  <2> QED
    BY <2>1, <2>2 DEF CopiesTo, Due, Span
<1>5. pending[e] >= 0 => CopiesTo(x) = {pending[e] + 1}
  BY <1>3, <1>4
<1>6. ASSUME pending[e] >= 0
      PROVE  LastCopyTo(x) = pending[e] + 1
  <2>1. pending[e] + 1 \in Int
    BY <1>1
  <2> QED
    BY <1>5, <1>6, <2>1 DEF LastCopyTo
<1> QED
  BY <1>3, <1>5, <1>6

(* The buffer a pending copy is made from holds, when all gets have been   *)
(* delivered, what the get asked for.                                      *)
LEMMA SourceRight ==
  ASSUME Sound, DataRight, KeysTell, NEW e \in table, pending[e] >= 0,
         NEW q \in Requests, Key(q) = get_info[e],
         NEW i \in 0 .. (q.size - 1)
  PROVE  LET b == queue[pending[e] + 1].origin_addr
         IN /\ b \in Bufs /\ b \in unflushed
            /\ (IF b \in net THEN Delivered(b) ELSE buf[b])[i] = Byte(q, i)
<1> DEFINE b == queue[pending[e] + 1].origin_addr
<1>1. b \in unflushed /\ Key(asked[b]) = get_info[e]
  BY DEF Sound, PendingCopyMatches
<1>2. asked[b] \in Requests /\ b \in Bufs
  BY <1>1 DEF Sound, Bookkeeping, Types, Typed
<1>3. asked[b] = q
  BY <1>1, <1>2 DEF KeysTell
<1>4. asked[b] # None
  BY <1>2, NoneAssumption
<1> HIDE DEF b
<1>5. CASE b \in net
  <2>1. i \in Offsets /\ i < q.size
    BY WhereBytesAre, RequestFacts
  <2> QED
    BY <1>1, <1>2, <1>3, <1>5, <2>1 DEF Delivered, b
<1>6. CASE b \notin net
  BY <1>1, <1>2, <1>3, <1>4, <1>6 DEF DataRight, GetsReturnTargetData, b
<1> QED
  BY <1>5, <1>6

(* A flush that completes all gets fills the entries that wait and leaves  *)
(* the others as they are.                                                 *)
LEMMA FlushedRight ==
  ASSUME Sound, DataRight, FlushesAll, KeysTell, NEW r \in Ranks, Flush(r),
         ~dirty, NEW e \in table, NEW q \in Requests, Key(q) = get_info[e],
         NEW i \in 0 .. (q.size - 1)
  PROVE  mem'[heap.offset[e] + i] = Byte(q, i)
<1> DEFINE x == heap.offset[e] + i
           done == {b \in unflushed : asked[b].rank = r}
           source == [b \in Bufs |-> IF b \in done \cap net THEN Delivered(b)
                                     ELSE buf[b]]
           copy == queue[LastCopyTo(x)]
<1>1. /\ x \in Span(heap, e) /\ x \in Bytes
      /\ heap.offset[e] \in Nat /\ pending \in [Entries -> Int] /\ e \in Entries
  BY WhereBytesAre DEF Sound, HeapInv, BusyRegions, Live, HeapType, Types, Typed
<1>2. mem'[x] = IF CopiesTo(x) = {} THEN mem[x]
                ELSE source[copy.origin_addr][x - copy.target_addr]
  BY <1>1 DEF Flush, DrainQueue
<1>3. done = unflushed
  BY DEF Flush, FlushesAll
<1> HIDE DEF x, source, done
<1>4. CASE pending[e] >= 0
  <2> DEFINE c == queue[pending[e] + 1]
  <2>1. CopiesTo(x) # {} /\ copy = c
    BY <1>1, <1>4, OwnCopyOnly
  <2>2. c.target_addr = heap.offset[e]
    BY <1>4 DEF Sound, PendingCopyMatches
  <2>3. /\ c.origin_addr \in Bufs /\ c.origin_addr \in unflushed
        /\ (IF c.origin_addr \in net THEN Delivered(c.origin_addr)
            ELSE buf[c.origin_addr])[i] = Byte(q, i)
    BY <1>4, SourceRight
  <2> HIDE DEF c, copy
  <2>4. x - c.target_addr = i
    <3>1. x = heap.offset[e] + i /\ i \in Int
      BY RequestFacts DEF x
    <3> QED
      BY <1>1, <2>2, <3>1
  <2>5. source[c.origin_addr] = IF c.origin_addr \in net
                                THEN Delivered(c.origin_addr)
                                ELSE buf[c.origin_addr]
    BY <1>3, <2>3 DEF source
  <2> QED
    BY <1>2, <2>1, <2>3, <2>4, <2>5 DEF x
<1>5. CASE ~(pending[e] >= 0)
  <2>1. CopiesTo(x) = {}
    BY <1>1, <1>5, OwnCopyOnly
  <2>2. pending[e] < 0
    BY <1>1, <1>5
  <2> QED
    BY <1>2, <2>1, <2>2 DEF x, DataRight, CachedDataRight
<1> QED
  BY <1>4, <1>5

(* An entry keeps its bytes while it stays where it is.                    *)
LEMMA UntouchedRight ==
  ASSUME CachedDataRight, UNCHANGED <<mem, version, dirty>>,
         \A f \in table' : pending'[f] < 0 =>
           /\ f \in table /\ pending[f] < 0
           /\ get_info'[f] = get_info[f]
           /\ heap'.offset[f] = heap.offset[f]
  PROVE  CachedDataRight'
BY DEF CachedDataRight, Byte

(* What the cache holds stays right.                                       *)
LEMMA CachedStep ==
  ASSUME Sound, DataRight, FlushesAll, KeysTell, [Next]_vars
  PROVE  CachedDataRight'
<1>1. CASE UNCHANGED <<heap, table, get_info, pending, mem, version, dirty>>
  BY <1>1, UntouchedRight DEF DataRight
<1>2. CASE table' = {}
  BY <1>2 DEF CachedDataRight
<1>3. CASE UNCHANGED vars
  BY <1>1, <1>3 DEF vars, cache
<1>4. CASE WinCreate
  BY <1>2, <1>4 DEF WinCreate, Invalidated
<1>5. CASE WinFree
  BY <1>2, <1>5 DEF WinFree, Invalidated
<1>6. ASSUME NEW b \in Bufs, NEW q \in Requests, Get(b, q)
      PROVE  CachedDataRight'
  <2>1. CASE GetHit(b, q)
    BY <1>1, <2>1 DEF GetHit, cache
  <2>2. CASE GetUncached(b, q)
    BY <1>1, <2>2 DEF GetUncached, cache
  <2>3. CASE GetExits(b, q)
    BY <1>1, <2>3 DEF GetExits, cache
  <2>4. CASE GetNotCached(b, q)
    <3>1. PICK v \in Entries \cup {NOENTRY} : Dropped(v)
      BY <2>4, NotCachedFacts DEF Sound
    <3>2. UNCHANGED <<mem, version, dirty>>
      BY <2>4 DEF GetNotCached
    <3>3. \A f \in table' : /\ f \in table
                            /\ pending'[f] = pending[f]
                            /\ get_info'[f] = get_info[f]
                            /\ heap'.offset[f] = heap.offset[f]
      BY <3>1 DEF Dropped, Sound, Types, Typed
    <3> QED
      BY <3>2, <3>3, UntouchedRight DEF DataRight
  <2>5. CASE GetCached(b, q)
    <3>1. PICK e \in Entries, v \in Entries \cup {NOENTRY} : Placed(b, q, e, v)
      BY <2>5, CachedFacts DEF Sound
    <3>2. UNCHANGED <<mem, version, dirty>>
      BY <2>5 DEF GetCached
    <3>3. ~(pending'[e] < 0)
      <4>1. pending'[e] = Len(queue) /\ Len(queue) \in Nat
        BY <3>1 DEF Placed, Sound, Types, Typed
      <4> QED
        BY <4>1
    <3>4. \A f \in table' \ {e} : /\ f \in table
                                  /\ pending'[f] = pending[f]
                                  /\ get_info'[f] = get_info[f]
                                  /\ heap'.offset[f] = heap.offset[f]
      BY <3>1 DEF Placed, Sound, Types, Typed
    <3> QED
      BY <3>2, <3>3, <3>4, UntouchedRight DEF DataRight
  <2> QED
    BY <1>6, <2>1, <2>2, <2>3, <2>4, <2>5 DEF Get
<1>7. ASSUME NEW r \in Ranks, Flush(r)
      PROVE  CachedDataRight'
  <2>1. CASE mode
    BY <1>2, <1>7, <2>1 DEF Flush, Invalidated
  <2>2. CASE ~mode
    <3>1. UNCHANGED <<heap, table, get_info, version, dirty>>
      BY <1>7, <2>2 DEF Flush
    <3>2. ASSUME ~dirty, NEW e \in table, NEW q \in Requests,
                 Key(q) = get_info[e], NEW i \in 0 .. (q.size - 1)
          PROVE  mem'[heap.offset[e] + i] = Byte(q, i)'
      <4>1. mem'[heap.offset[e] + i] = Byte(q, i)
        BY <1>7, <3>2, FlushedRight
      <4> QED
        BY <3>1, <4>1 DEF Byte
    <3> QED
      BY <3>1, <3>2 DEF CachedDataRight
  <2> QED
    BY <2>1, <2>2
<1>8. CASE Invalidate
  BY <1>2, <1>8 DEF Invalidate, Invalidated
<1>9. ASSUME NEW b \in Bufs, Deliver(b)
      PROVE  CachedDataRight'
  BY <1>1, <1>9 DEF Deliver, cache
<1>10. CASE Update
  <2>1. CASE info = "USER_DEFINED"
    BY <1>10, <2>1 DEF Update, CachedDataRight
  <2>2. CASE info # "USER_DEFINED"
    <3>1. info = "TRANSPARENT" /\ mode
      BY <1>10, <2>2, ModesAssumption DEF Update, Sound, KindKept
    <3>2. table' = {}
      BY <1>10, <3>1 DEF Update, cache, Sound, Bookkeeping
    <3> QED
      BY <1>2, <3>2
  <2> QED
    BY <2>1, <2>2
<1> QED
  BY <1>3, <1>4, <1>5, <1>6, <1>7, <1>8, <1>9, <1>10 DEF Next

(* A hit answers with the bytes of the target.                             *)
LEMMA HitRight ==
  ASSUME Sound, DataRight, NEW b \in Bufs, NEW q \in Requests, GetHit(b, q)
  PROVE  /\ asked' = [asked EXCEPT ![b] = q]
         /\ buf' = [buf EXCEPT ![b] =
                      [i \in Offsets |-> IF i < q.size THEN Byte(q, i) ELSE Junk]]
<1>1. PICK e \in Lookup(q) :
        /\ pending[e] < 0
        /\ buf' = [buf EXCEPT ![b] =
                     [i \in Offsets |-> IF i < get_info[e].size
                                        THEN mem[heap.offset[e] + i]
                                        ELSE Junk]]
  BY DEF GetHit
<1>2. e \in table /\ get_info[e] = Key(q) /\ get_info[e].size = q.size
  BY RequestFacts DEF Lookup
<1>3. ASSUME NEW i \in Offsets, i < q.size
      PROVE  mem[heap.offset[e] + i] = Byte(q, i)
  <2>1. i \in Nat
    BY RequestsAssumption DEF Offsets
  <2>2. i \in 0 .. (q.size - 1)
    BY <1>3, <2>1, RequestFacts
  <2>3. ~dirty
    BY DEF GetHit, MayGet
  <2> QED
    BY <1>1, <1>2, <2>2, <2>3 DEF DataRight, CachedDataRight
<1>4. [i \in Offsets |-> IF i < get_info[e].size THEN mem[heap.offset[e] + i]
                         ELSE Junk]
        = [i \in Offsets |-> IF i < q.size THEN Byte(q, i) ELSE Junk]
  BY <1>2, <1>3
<1> QED
  BY <1>1, <1>4 DEF GetHit

(* The answers a step does not touch stay right.                           *)
LEMMA OtherAnswers ==
  ASSUME GetsReturnTargetData, version' = version,
         \A b \in Bufs : asked'[b] # None /\ b \notin net' =>
           asked[b] # None /\ b \notin net /\ asked'[b] = asked[b]
             /\ buf'[b] = buf[b]
  PROVE  GetsReturnTargetData'
BY DEF GetsReturnTargetData, Byte

(* What the application has got stays right.                               *)
LEMMA AnsweredStep ==
  ASSUME Sound, DataRight, [Next]_vars
  PROVE  GetsReturnTargetData'
<1>1. CASE UNCHANGED <<buf, asked, net, version>>
  BY <1>1, OtherAnswers DEF DataRight
<1>2. CASE \A b \in Bufs : asked'[b] = None
  BY <1>2 DEF GetsReturnTargetData
<1>3. /\ DOMAIN buf = Bufs /\ asked \in [Bufs -> Requests \cup {None}]
      /\ net \subseteq unflushed
  BY DEF Sound, Types, Typed
<1>4. ASSUME NEW b \in Bufs, NEW q \in Requests, IssueGet(b, q),
             version' = version
      PROVE  GetsReturnTargetData'
  <2>1. \A c \in Bufs : c # b => asked'[c] = asked[c] /\ buf'[c] = buf[c]
    BY <1>3, <1>4 DEF IssueGet
  <2>2. net' = net \cup {b}
    BY <1>4 DEF IssueGet
  <2> QED
    BY <1>4, <2>1, <2>2, OtherAnswers DEF DataRight
<1>5. CASE UNCHANGED vars
  BY <1>1, <1>5 DEF vars, app
<1>6. CASE WinCreate
  BY <1>1, <1>6 DEF WinCreate, app
<1>7. CASE WinFree
  BY <1>2, <1>7 DEF WinFree
<1>8. ASSUME NEW b \in Bufs, NEW q \in Requests, Get(b, q)
      PROVE  GetsReturnTargetData'
  <2>1. CASE GetHit(b, q)
    <3>1. asked'[b] = q /\ \A i \in 0 .. (q.size - 1) : buf'[b][i] = Byte(q, i)
      <4>1. asked'[b] = q
        BY <1>3, <2>1, HitRight
      <4>2. buf'[b] = [i \in Offsets |-> IF i < q.size THEN Byte(q, i) ELSE Junk]
        BY <1>3, <2>1, HitRight
      <4>3. \A i \in 0 .. (q.size - 1) : i \in Offsets /\ i < q.size
        BY RequestFacts DEF Offsets
      <4> QED
        BY <4>1, <4>2, <4>3
    <3>2. \A c \in Bufs : c # b => asked'[c] = asked[c] /\ buf'[c] = buf[c]
      BY <1>3, <2>1, HitRight
    <3>3. UNCHANGED <<net, version>>
      BY <2>1 DEF GetHit
    <3> QED
      BY <3>1, <3>2, <3>3 DEF DataRight, GetsReturnTargetData, Byte
  <2>2. CASE GetUncached(b, q)
    BY <1>4, <2>2 DEF GetUncached
  <2>3. CASE GetExits(b, q)
    BY <1>1, <2>3 DEF GetExits, app
  <2>4. CASE GetNotCached(b, q)
    BY <1>4, <2>4 DEF GetNotCached
  <2>5. CASE GetCached(b, q)
    BY <1>4, <2>5 DEF GetCached
  <2> QED
    BY <1>8, <2>1, <2>2, <2>3, <2>4, <2>5 DEF Get
<1>9. ASSUME NEW r \in Ranks, Flush(r)
      PROVE  GetsReturnTargetData'
  <2> DEFINE done == {b \in unflushed : asked[b].rank = r}
             rest == unflushed \ done
  <2>1. /\ net' = net \ done /\ version' = version
        /\ asked' = [b \in Bufs |-> IF b \in rest THEN asked[b] ELSE None]
        /\ buf' = [b \in Bufs |-> IF b \in rest THEN buf[b] ELSE Unwritten]
    BY <1>9 DEF Flush
  <2> HIDE DEF done
  <2> QED
    BY <2>1, OtherAnswers DEF DataRight
<1>10. CASE Invalidate
  BY <1>1, <1>10 DEF Invalidate, app
<1>11. ASSUME NEW b \in Bufs, Deliver(b)
       PROVE  GetsReturnTargetData'
  <2>1. /\ b \in net /\ net' = net \ {b} /\ UNCHANGED <<asked, version>>
        /\ buf' = [buf EXCEPT ![b] = Delivered(b)]
    BY <1>11 DEF Deliver
  <2>2. asked[b] \in Requests
    BY <1>3, <2>1 DEF Sound, Bookkeeping
  <2>3. \A i \in 0 .. (asked[b].size - 1) : buf'[b][i] = Byte(asked[b], i)
    <3>1. \A i \in 0 .. (asked[b].size - 1) : i \in Offsets /\ i < asked[b].size
      BY <2>2, RequestFacts DEF Offsets
    <3>2. buf'[b] = Delivered(b)
      BY <1>3, <2>1
    <3> QED
      BY <3>1, <3>2 DEF Delivered
  <2>4. \A c \in Bufs : c # b => buf'[c] = buf[c]
    BY <1>3, <2>1
  <2> QED
    BY <2>1, <2>3, <2>4 DEF DataRight, GetsReturnTargetData, Byte
<1>12. CASE Update
  BY <1>2, <1>12 DEF Update
<1> QED
  BY <1>5, <1>6, <1>7, <1>8, <1>9, <1>10, <1>11, <1>12 DEF Next

-----------------------------------------------------------------------------
(* A new window has nothing in it and nothing under way.                   *)
LEMMA SoundInit ==
  ASSUME Init
  PROVE  Sound /\ DataRight
<1>1. HeapInv /\ TypeOK
  BY TypeInit
<1>2. Types
  BY <1>1, TypesFollow
<1>3. table = {} /\ queue = <<>> /\ unflushed = {} /\ win = "none"
      /\ \A b \in Bufs : asked[b] = None
  BY DEF Init
<1>4. TableMatchesHeap
  BY <1>1, <1>3 DEF HeapInv, TableMatchesHeap
<1>5. PendingCopyMatches
  BY <1>3 DEF PendingCopyMatches
<1>6. Bookkeeping
  <2>1. IsFiniteSet(unflushed) /\ Cardinality(unflushed) = 0 /\ Len(queue) = 0
    BY <1>3, FS_EmptySet
  <2> QED
    BY <1>3, <2>1 DEF Bookkeeping, DueInTable
<1>7. KindKept
  BY <1>3 DEF KindKept
<1>8. DataRight
  BY <1>3 DEF DataRight, CachedDataRight, GetsReturnTargetData
<1> QED
  BY <1>1, <1>2, <1>4, <1>5, <1>6, <1>7, <1>8 DEF Sound

(* What a flush relies on, without a hypothesis about the application.     *)
Booked == HeapInv /\ TypeOK /\ Bookkeeping

LEMMA BookedAlways == Spec => []Booked
<1>1. Init => Booked
  BY SoundInit, TypeInit DEF Sound, Booked
<1>2. Booked /\ [Next]_vars => Booked'
  <2> SUFFICES ASSUME Booked, [Next]_vars
               PROVE  Booked'
    OBVIOUS
  <2>1. HeapInv /\ TypeOK /\ Types /\ Bookkeeping
    BY TypesFollow DEF Booked
  <2>2. TypeOK'
    BY <2>1, TypeOKStep
  <2> QED
    BY <2>1, <2>2, HeapStep, BooksStep DEF Booked
<1> QED
  BY <1>1, <1>2, PTL DEF Spec

(* The invariant behind the bytes.                                         *)
LEMMA SoundStep ==
  ASSUME FlushesAll, KeysTell, ModeReads,
         TypeOK, Sound, DataRight, [Next]_vars
  PROVE  TypeOK' /\ Sound' /\ DataRight'
<1>1. TypeOK'
  BY TypeOKStep DEF Sound
<1>2. Types'
  BY <1>1, TypesFollow, PTL
<1> QED
  BY <1>1, <1>2, HeapStep, TableStep, PendingStep, BooksStep, KindStep,
     CachedStep, AnsweredStep
  DEF Sound, DataRight

(* With it what the cache holds, and what the application was answered,    *)
(* are the bytes of the target at every moment.                            *)
THEOREM DataInvariance ==
  ASSUME FlushesAll, KeysTell, ModeReads
  PROVE  Spec => [](Sound /\ DataRight)
<1>1. Init => TypeOK /\ Sound /\ DataRight
  BY SoundInit, TypeInit
<1>2. TypeOK /\ Sound /\ DataRight /\ [Next]_vars
        => (TypeOK /\ Sound /\ DataRight)'
  BY SoundStep
<1> QED
  BY <1>1, <1>2, PTL DEF Spec

(* An entry that can be hit always holds the bytes of every request it     *)
(* answers: no late copy, no eviction and no entry in another's place ever *)
(* damages it.                                                             *)
THEOREM CachedDataAlwaysRight ==
  ASSUME FlushesAll, KeysTell, ModeReads
  PROVE  Spec => []CachedDataRight
<1>1. Sound /\ DataRight => CachedDataRight
  BY DEF DataRight
<1> QED
  BY <1>1, DataInvariance, PTL

(* A get always returns what MPI_Get returns, at once if it hits.          *)
THEOREM GetsAlwaysReturnTargetData ==
  ASSUME FlushesAll, KeysTell, ModeReads
  PROVE  Spec => []GetsReturnTargetData
<1>1. Sound /\ DataRight => GetsReturnTargetData
  BY DEF DataRight
<1> QED
  BY <1>1, DataInvariance, PTL

-----------------------------------------------------------------------------
(* The initial states are those of a window without a cache.               *)
LEMMA RmaInit ==
  ASSUME Init
  PROVE  Rma!Init
BY DEF Init, Unwritten, Offsets, Rma!Init, Rma!Blank, Rma!Offsets

(* A get that is not answered from the cache is left to MPI.               *)
LEMMA IssueIsLater ==
  ASSUME NEW b \in Bufs, NEW q \in Requests, MayGet(b, q), IssueGet(b, q),
         UNCHANGED <<win, info, version, dirty>>
  PROVE  Rma!GetLater(b, q)
BY DEF MayGet, IssueGet, Unwritten, Offsets,
       Rma!GetLater, Rma!MayGet, Rma!Blank, Rma!Offsets

(* Every get is one of a window without a cache.                           *)
LEMMA GetIsRma ==
  ASSUME Sound, DataRight, NEW b \in Bufs, NEW q \in Requests, Get(b, q)
  PROVE  Rma!GetNow(b, q) \/ Rma!GetLater(b, q) \/ Rma!Exit
<1>1. CASE GetHit(b, q)
  <2>1. /\ MayGet(b, q)
        /\ UNCHANGED <<win, info, unflushed, net, version, dirty>>
    BY <1>1 DEF GetHit, cache
  <2>2. /\ asked' = [asked EXCEPT ![b] = q]
        /\ buf' = [buf EXCEPT ![b] = Rma!Bytes(q)]
    BY <1>1, HitRight DEF Byte, Offsets, Rma!Bytes, Rma!Offsets
  <2> QED
    BY <2>1, <2>2 DEF MayGet, Rma!GetNow, Rma!MayGet
<1>2. CASE GetUncached(b, q)
  BY <1>2, IssueIsLater DEF GetUncached, cache
<1>3. CASE GetNotCached(b, q)
  BY <1>3, IssueIsLater DEF GetNotCached, Misses
<1>4. CASE GetCached(b, q)
  BY <1>4, IssueIsLater DEF GetCached, Misses
<1>5. CASE GetExits(b, q)
  <2>1. Cardinality(unflushed) >= PendingStack
    <3>1. Len(queue) \in Nat /\ Cardinality(unflushed) \in Nat
      BY FS_CardinalityType DEF Sound, Bookkeeping, Types, Typed
    <3>2. Len(queue) >= PendingStack /\ Len(queue) <= Cardinality(unflushed)
      BY <1>5 DEF GetExits, QueueFull, Sound, Bookkeeping
    <3> QED
      BY <3>1, <3>2, PendingStackAssumption
  <2>2. Rma!Cardinality(unflushed) = Cardinality(unflushed)
    BY DEF Cardinality, Rma!Cardinality
  <2> QED
    BY <1>5, <2>1, <2>2 DEF GetExits, Misses, MayGet, cache, app, Rma!Exit
<1> QED
  BY <1>1, <1>2, <1>3, <1>4, <1>5 DEF Get

(* Every step is one of a window without a cache, or changes nothing the   *)
(* application sees.                                                       *)
LEMMA RmaStep ==
  ASSUME Sound, DataRight, [Next]_vars
  PROVE  [Rma!Next]_(Rma!vars)
<1>1. CASE UNCHANGED vars
  BY <1>1 DEF vars, cache, app, Rma!vars
<1>2. CASE WinCreate
  BY <1>2 DEF WinCreate, app, Rma!Next, Rma!Create
<1>3. CASE WinFree
  BY <1>3 DEF WinFree, Unwritten, Offsets,
              Rma!Next, Rma!Free, Rma!Blank, Rma!Offsets
<1>4. ASSUME NEW b \in Bufs, NEW q \in Requests, Get(b, q)
      PROVE  Rma!Next
  BY <1>4, GetIsRma DEF Rma!Next
<1>5. ASSUME NEW r \in Ranks, Flush(r)
      PROVE  Rma!Next
  <2> DEFINE done == {b \in unflushed : asked[b].rank = r}
             rest == {b \in unflushed : asked[b].rank # r}
  <2>1. unflushed \ done = rest /\ net \ done = net \cap rest
    BY DEF Sound, Types, Typed
  <2>2. /\ win = "open" /\ (AnyTarget \/ rest = {})
        /\ unflushed' = rest /\ net' = net \cap rest
        /\ asked' = [b \in Bufs |-> IF b \in rest THEN asked[b] ELSE None]
        /\ buf' = [b \in Bufs |-> IF b \in rest THEN buf[b] ELSE Unwritten]
        /\ UNCHANGED <<win, info, version, dirty>>
    BY <1>5, <2>1 DEF Flush
  <2>3. Unwritten = Rma!Blank
    BY DEF Unwritten, Offsets, Rma!Blank, Rma!Offsets
  <2>4. Rma!Flush(r)
    BY <2>2, <2>3 DEF Rma!Flush
  <2> QED
    BY <2>4 DEF Rma!Next
<1>6. CASE Invalidate
  BY <1>6 DEF Invalidate, app, Rma!Next, Rma!Invalidate
<1>7. ASSUME NEW b \in Bufs, Deliver(b)
      PROVE  Rma!Next
  <2>1. Delivered(b) = Rma!Bytes(asked[b])
    BY DEF Delivered, Byte, Offsets, Rma!Bytes, Rma!Offsets
  <2>2. Rma!Deliver(b)
    BY <1>7, <2>1 DEF Deliver, cache, Rma!Deliver
  <2> QED
    BY <2>2 DEF Rma!Next
<1>8. CASE Update
  BY <1>8 DEF Update, cache, Unwritten, Offsets,
              Rma!Next, Rma!Update, Rma!Blank, Rma!Offsets
<1> QED
  BY <1>1, <1>2, <1>3, <1>4, <1>5, <1>6, <1>7, <1>8 DEF Next

(* The cache shows in nothing but the time a get takes: the application    *)
(* and MPI notice only what module RmaWindow allows.                       *)
THEOREM ImplementsRmaAlways ==
  ASSUME FlushesAll, KeysTell, ModeReads
  PROVE  Spec => ImplementsRma
<1>1. Init => Rma!Init
  BY RmaInit
<1>2. Sound /\ DataRight /\ [Next]_vars => [Rma!Next]_(Rma!vars)
  BY RmaStep
<1> QED
  BY <1>1, <1>2, DataInvariance, PTL DEF Spec, ImplementsRma, Rma!Spec

===============================================================================
