------------------------------ MODULE RegionHeap ------------------------------
(***************************************************************************)
(* The memory buffer of one caching window and the descriptors that carve  *)
(* it up: src/src/clampi_get.c (allocation and eviction) and               *)
(* reset_data_structures in src/src/clampi_win.c.                          *)
(*                                                                         *)
(* Every descriptor (cl_entry_t) that is not on the stack of free          *)
(* descriptors stands for one region of the buffer, cached data (BUSY) or  *)
(* a hole (FREE), and is linked to its neighbours in address order by      *)
(* mprev and mnext.  The holes are indexed by size (the AVL tree free_idx, *)
(* here the set of the descriptors it holds).                              *)
(*                                                                         *)
(* A heap h is a record, an operation of the code is an operator from      *)
(* heaps to heaps, so that one CMPI_Get (evict, coalesce, carve) is a      *)
(* composition of them and each can be reasoned about by itself.  The only *)
(* variables here are the sizes the heap is made for.                      *)
(***************************************************************************)
EXTENDS Integers, FiniteSets, SequencesExt

VARIABLES
  ht_entries,  \* cache->ht_entries: slots of the hash table
  mem_size     \* cache->mem_size: bytes of the memory buffer

sizes == <<ht_entries, mem_size>>

(* There is a slot, and a byte.                                            *)
SizesOK == ht_entries \in Nat \ {0} /\ mem_size \in Nat \ {0}

NOENTRY == -1
FREE    == "FREE"
BUSY    == "BUSY"

(* Indices into table_ptr: two descriptors per slot of the hash table.     *)
Entries == 0 .. (2 * ht_entries - 1)

Bytes == 0 .. (mem_size - 1)

(* The fields of the descriptors, each as a function of the index, the     *)
(* stack of unused descriptors and the contents of the free-region index.  *)
(* The union get_info/size is read as one size: the eviction copies        *)
(* get_info.size into size before anything reads it.                       *)
HeapType == [type : [Entries -> {FREE, BUSY}],
             size : [Entries -> Nat],
             offset : [Entries -> Nat],
             mprev : [Entries -> Entries \cup {NOENTRY}],
             mnext : [Entries -> Entries \cup {NOENTRY}],
             free_entries : Seq(Entries),
             free_idx : SUBSET Entries]

(* The descriptors in use: those that are not on the free stack.           *)
Live(h) == Entries \ Range(h.free_entries)

FreeRegions(h) == {e \in Live(h) : h.type[e] = FREE}
BusyRegions(h) == {e \in Live(h) : h.type[e] = BUSY}

(* The bytes of the buffer a descriptor stands for.                        *)
Span(h, e) == h.offset[e] .. (h.offset[e] + h.size[e] - 1)

-----------------------------------------------------------------------------
(* reset_data_structures: one hole as large as the buffer, held by         *)
(* descriptor 0; all other descriptors on the stack.  The fields of a      *)
(* descriptor on the stack are written before they are read again, so what *)
(* they hold there is left out: they are zero.                             *)
EmptyHeap ==
  [type         |-> [e \in Entries |-> FREE],
   size         |-> [e \in Entries |-> IF e = 0 THEN mem_size ELSE 0],
   offset       |-> [e \in Entries |-> 0],
   mprev        |-> [e \in Entries |-> NOENTRY],
   mnext        |-> [e \in Entries |-> NOENTRY],
   free_entries |-> [i \in 1 .. (2 * ht_entries - 1) |-> i],
   free_idx     |-> {0}]

(* Tree_CSearchNode on sizes: the holes a request of sz bytes may be       *)
(* placed in, the smallest that are large enough.  Which of several equal  *)
(* ones is found depends on the shape of the tree.                         *)
BestFit(h, sz) ==
  {r \in h.free_idx :
     /\ h.size[r] >= sz
     /\ \A q \in h.free_idx : h.size[q] >= sz => h.size[r] <= h.size[q]}

(* Tree_DeleteNode.                                                        *)
Unindex(h, r) == [h EXCEPT !.free_idx = @ \ {r}]

-----------------------------------------------------------------------------
(* Two slips in the code below that would go unnoticed for a while: the    *)
(* neighbour after b still points back to b, or b's descriptor is lost.    *)
AbsorbStaleLink(h, a, b) ==
  [h EXCEPT !.type[b] = FREE, !.size[a] = @ + h.size[b],
            !.mnext[a] = h.mnext[b],
            !.free_entries = Append(@, b), !.free_idx = @ \ {a, b}]

AbsorbLeak(h, a, b) ==
  [h EXCEPT !.type[b] = FREE, !.size[a] = @ + h.size[b],
            !.mprev = [e \in Entries |-> IF e = h.mnext[b] THEN a ELSE @[e]],
            !.mnext[a] = h.mnext[b], !.free_idx = @ \ {a, b}]

(* Region a swallows its right neighbour b: a grows, b is unlinked, leaves *)
(* the index if it was there and its descriptor is pushed (FREE_CENTRY).   *)
Absorb(h, a, b) ==
  [type         |-> [h.type EXCEPT ![b] = FREE],
   size         |-> [h.size EXCEPT ![a] = @ + h.size[b], ![b] = 0],
   offset       |-> [h.offset EXCEPT ![b] = 0],
   mprev        |-> [e \in Entries |-> IF e = b THEN NOENTRY
                                       ELSE IF e = h.mnext[b] THEN a
                                       ELSE h.mprev[e]],
   mnext        |-> [h.mnext EXCEPT ![a] = h.mnext[b], ![b] = NOENTRY],
   free_entries |-> Append(h.free_entries, b),
   free_idx     |-> h.free_idx \ {a, b}]

LeftIsFree(h, v)  == h.mprev[v] # NOENTRY /\ h.type[h.mprev[v]] = FREE
RightIsFree(h, v) == h.mnext[v] # NOENTRY /\ h.type[h.mnext[v]] = FREE

(* new_free_region: the descriptor that holds the hole victim v leaves.    *)
NewRegion(h, v) == IF LeftIsFree(h, v) THEN h.mprev[v] ELSE v

(* A slip: the right neighbour is forgotten.                               *)
EvictLeftOnly(h, v) ==
  LET r  == NewRegion(h, v)
      h1 == IF LeftIsFree(h, v) THEN Absorb(h, r, v) ELSE h
  IN [h1 EXCEPT !.type[r] = FREE]

(* The eviction of victim v: it is merged into a free left neighbour, then *)
(* the result swallows a free right neighbour, then it is marked FREE.     *)
(* The hole is not yet in the index.                                       *)
Evict(h, v) ==
  LET r  == NewRegion(h, v)
      h1 == IF LeftIsFree(h, v) THEN Absorb(h, r, v) ELSE h
      h2 == IF RightIsFree(h, v) THEN Absorb(h1, r, h.mnext[v]) ELSE h1
  IN [h2 EXCEPT !.type[r] = FREE]

(* ~index_new_free_region: the hole grew out of fr, the region that was    *)
(* selected for the request before the eviction.                           *)
Expanded(h, v, fr) ==
  \/ LeftIsFree(h, v) /\ h.mprev[v] = fr
  \/ RightIsFree(h, v) /\ h.mnext[v] = fr

(* "If you blindly take the new free region as destination": the slip the  *)
(* comment in the code warns of.                                           *)
TakesBlindly(h, v, fr, sz) == TRUE

(* The request takes the new hole if it is all there is and large enough,  *)
(* or if it is the selected region, grown.                                 *)
TakesNewRegion(h, v, fr, sz) ==
  \/ fr = NOENTRY /\ Evict(h, v).size[NewRegion(h, v)] >= sz
  \/ Expanded(h, v, fr)

(* free_region after the eviction.                                         *)
RegionAfterEvict(h, v, fr, sz) ==
  IF TakesNewRegion(h, v, fr, sz) THEN NewRegion(h, v) ELSE fr

(* A slip: the hole that is not taken never reaches the index.             *)
EvictUnindexed(h, v, fr, sz) == Evict(h, v)

(* The heap after the eviction: a hole the request does not take is        *)
(* indexed.                                                                *)
HeapAfterEvict(h, v, fr, sz) ==
  IF TakesNewRegion(h, v, fr, sz)
  THEN Evict(h, v)
  ELSE [Evict(h, v) EXCEPT !.free_idx = @ \cup {NewRegion(h, v)}]

-----------------------------------------------------------------------------
(* newe: the descriptor of the new cache entry, the region's own if the    *)
(* request fills it, else the top of the stack (NEW_CENTRY).               *)
NewEntry(h, r, sz) == IF h.size[r] = sz THEN r ELSE Last(h.free_entries)

(* Placing sz bytes at the left end of region r; what is left of r goes    *)
(* (back) to the index.                                                    *)
Carve(h, r, sz) ==
  LET e == NewEntry(h, r, sz) IN
  IF h.size[r] = sz
  THEN [h EXCEPT !.type[r] = BUSY]
  ELSE [type   |-> [h.type EXCEPT ![e] = BUSY],
        size   |-> [h.size EXCEPT ![e] = sz, ![r] = @ - sz],
        offset |-> [h.offset EXCEPT ![e] = h.offset[r], ![r] = @ + sz],
        mprev  |-> [h.mprev EXCEPT ![e] = h.mprev[r], ![r] = e],
        mnext  |-> [f \in Entries |-> IF f = e THEN r
                                      ELSE IF f = h.mprev[r] THEN e
                                      ELSE h.mnext[f]],
        free_entries |-> Front(h.free_entries),
        free_idx     |-> h.free_idx \cup {r}]

-----------------------------------------------------------------------------
(* What a heap must satisfy between two calls.                             *)

(* No descriptor is on the stack twice.                                    *)
StackOK(h) == IsInjective(h.free_entries)

(* The regions in use are doubly linked in address order, from byte 0 to   *)
(* the end of the buffer: every region ends where its right neighbour      *)
(* starts.                                                                 *)
Linked(h) ==
  \A e \in Live(h) :
    /\ h.mnext[e] # NOENTRY =>
         /\ h.mnext[e] \in Live(h)
         /\ h.mprev[h.mnext[e]] = e
         /\ h.offset[h.mnext[e]] = h.offset[e] + h.size[e]
    /\ h.mnext[e] = NOENTRY => h.offset[e] + h.size[e] = mem_size
    /\ h.mprev[e] # NOENTRY =>
         /\ h.mprev[e] \in Live(h)
         /\ h.mnext[h.mprev[e]] = e
    /\ h.mprev[e] = NOENTRY => h.offset[e] = 0

(* There is one list: one region has no right neighbour.                   *)
OneTail(h) ==
  \A e, f \in Live(h) :
    h.mnext[e] = NOENTRY /\ h.mnext[f] = NOENTRY => e = f

(* The list has no cycle: whatever regions are taken, one of them is not   *)
(* followed by another of them.                                            *)
Acyclic(h) ==
  \A S \in SUBSET Live(h) : S # {} => \E e \in S : h.mnext[e] \notin S

(* Every byte of the buffer belongs to exactly one region.                 *)
Partitioned(h) ==
  /\ \A e \in Live(h) : Span(h, e) \subseteq Bytes
  /\ \A e, f \in Live(h) : e # f => Span(h, e) \cap Span(h, f) = {}
  /\ \A x \in Bytes : \E e \in Live(h) : x \in Span(h, e)

(* Two holes are never neighbours: they are merged when they become so.    *)
Coalesced(h) ==
  \A e \in FreeRegions(h) :
    h.mnext[e] # NOENTRY => h.type[h.mnext[e]] = BUSY

(* The index holds the holes and nothing else.                             *)
Indexed(h) == h.free_idx = FreeRegions(h)

(* The list is sound and the descriptors on it carve up the buffer.        *)
Tiled(h) ==
  StackOK(h) /\ Linked(h) /\ OneTail(h) /\ Acyclic(h) /\ Partitioned(h)

===============================================================================
