------------------------------ MODULE Accounting ------------------------------
(***************************************************************************)
(* What the library says about its contents: the penalties of the entries, *)
(* from which the scores of the victim scan are made (updated by CMPI_Get, *)
(* src/src/clampi_get.c), and the number of entries cl_get_stats reports   *)
(* (src/src/utils.c).  Nothing else depends on them, so the module adds    *)
(* operators to ClampiWindow and no state.                                 *)
(*                                                                         *)
(* The comments in CMPI_Get say what a penalty is meant to be: the bytes   *)
(* that are free between an entry and the entries next to it.              *)
(***************************************************************************)
EXTENDS ClampiWindow

(* The entries on the two sides of e, which a hole may separate from it.   *)
PrevEntry(h, e) == IF LeftIsFree(h, e) THEN h.mprev[h.mprev[e]] ELSE h.mprev[e]
NextEntry(h, e) == IF RightIsFree(h, e) THEN h.mnext[h.mnext[e]] ELSE h.mnext[e]

End(h, e) == h.offset[e] + h.size[e]

(* What is meant: the gap on the left, and on the right if an entry        *)
(* follows.                                                                *)
LeftGap(h, e) ==
  h.offset[e] - (IF PrevEntry(h, e) = NOENTRY THEN 0 ELSE End(h, PrevEntry(h, e)))

RightGap(h, e) ==
  IF NextEntry(h, e) = NOENTRY THEN 0 ELSE h.offset[NextEntry(h, e)] - End(h, e)

Gap(h, e) == LeftGap(h, e) + RightGap(h, e)

(* How many values a uint16_t has.                                         *)
PenaltyRange == 65536

(* What the penalties are meant to be: the gaps, as far as a uint16_t      *)
(* holds them.                                                             *)
Penalties(h) == [e \in BusyRegions(h) |-> Gap(h, e) % PenaltyRange]

(* The penalties pen with "change" added, as uint16_t.                     *)
Updated(pen, change) ==
  [e \in DOMAIN change |->
     ((IF e \in DOMAIN pen THEN pen[e] ELSE 0) + change[e]) % PenaltyRange]

-----------------------------------------------------------------------------
(* victim->size after the merges: the victim's own descriptor swallows the *)
(* hole on its right unless it has itself been swallowed.                  *)
VictimSize(h, v) ==
  h.size[v] + (IF RightIsFree(h, v) /\ ~LeftIsFree(h, v)
               THEN h.size[h.mnext[v]] ELSE 0)

(* A slip: the victim's bytes are not counted.                             *)
EvictionChangeShort(h, v) ==
  LET prev == PrevEntry(h, v)
      next == NextEntry(h, v)
  IN [e \in BusyRegions(h) \ {v} |->
        CASE e = prev /\ next # NOENTRY -> h.offset[next] - End(h, v)
          [] e = prev /\ next = NOENTRY ->
               -(h.offset[v] - h.offset[prev] + h.size[prev])
          [] e = next /\ prev # NOENTRY ->
               h.offset[v] + VictimSize(h, v) - End(h, prev)
          [] e = next /\ prev = NOENTRY -> VictimSize(h, v)
          [] OTHER -> 0]

(* What the eviction of v adds to the penalties of its neighbours.         *)
EvictionChange(h, v) ==
  LET prev == PrevEntry(h, v)
      next == NextEntry(h, v)
  IN [e \in BusyRegions(h) \ {v} |->
        CASE e = prev /\ next # NOENTRY -> h.offset[next] - h.offset[v]
          [] e = prev /\ next = NOENTRY ->
               -(h.offset[v] - h.offset[prev] + h.size[prev])
          [] e = next /\ prev # NOENTRY ->
               h.offset[v] + VictimSize(h, v) - End(h, prev)
          [] e = next /\ prev = NOENTRY -> VictimSize(h, v)
          [] OTHER -> 0]

(* A slip: the entry before the new one keeps the hole as its own.         *)
PlacementChangeNextOnly(h, e) ==
  LET next == NextEntry(h, e)
  IN [f \in BusyRegions(h) |->
        CASE f = e -> RightGap(h, e)
          [] f = next -> -h.size[e]
          [] OTHER -> 0]

(* What a new entry e, in heap h, starts with and adds to its neighbours.  *)
PlacementChange(h, e) ==
  LET prev == h.mprev[e]
      next == NextEntry(h, e)
  IN [f \in BusyRegions(h) |->
        CASE f = e -> RightGap(h, e)
          [] f = next -> -h.size[e]
          [] f = prev /\ next # NOENTRY /\ h.offset[next] > 0 ->
               -(h.offset[next] - h.offset[e])
          [] OTHER -> 0]

(* entries, in cl_get_stats: next_free_entry is the index of the top of    *)
(* the stack of descriptors, not their number.                             *)
ReportedEntries(h) ==
  LET next_free_entry == Len(h.free_entries) - 1
  IN 2 * ht_entries - next_free_entry - Cardinality(h.free_idx)

-----------------------------------------------------------------------------
(* Placing an entry, with or without an eviction before, keeps penalties   *)
(* right: wherever the new entry goes, each entry ends up with the gaps    *)
(* around it, modulo 2^16, if it had them before.                          *)
PlacementPenaltiesRight ==
  \A sz \in {q.size : q \in Requests} :
    \A fr \in FreeRegionsFor(sz) : \A v \in VictimsFor(fr) :
      LET h == EvictedHeap(fr, v, sz)
          r == FinalRegion(fr, v, sz)
          g == Carve(h, r, sz)
      IN Fits(h, r, sz) =>
           Updated(Penalties(h), PlacementChange(g, NewEntry(h, r, sz)))
             = Penalties(g)

(* An eviction does not: the penalties of the victim's neighbours are      *)
(* right after it in these cases and in no other.  Between two entries, or *)
(* first of all, the victim must have swallowed no hole, and as the first  *)
(* have none before it; as the last it must follow an empty entry (or the  *)
(* error must be a multiple of 2^16).                                      *)
EvictionRight(h, v) ==
  LET prev == PrevEntry(h, v)
      next == NextEntry(h, v)
      Same(x, y) == x % PenaltyRange = y % PenaltyRange
  IN CASE prev # NOENTRY /\ next # NOENTRY -> Same(VictimSize(h, v), h.size[v])
       [] prev # NOENTRY /\ next = NOENTRY -> Same(2 * h.size[prev], 0)
       [] prev = NOENTRY /\ next # NOENTRY ->
            Same(VictimSize(h, v), h.size[v] + h.offset[v])
       [] OTHER -> TRUE

EvictionPenaltiesRightWhen ==
  \A v \in table :
    Updated(Penalties(heap), EvictionChange(heap, v)) = Penalties(Evict(heap, v))
      <=> EvictionRight(heap, v)

(* cl_get_stats reports one entry too many, and no other number: the       *)
(* stack, the index and the table never come apart.                        *)
StatsOneTooMany == ReportedEntries(heap) = Cardinality(table) + 1

===============================================================================
