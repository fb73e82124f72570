--------------------------- MODULE Accounting_proofs ---------------------------
(***************************************************************************)
(* What cl_get_stats reports, and what CMPI_Get makes of the penalties,    *)
(* for every window and every history.                                     *)
(*                                                                         *)
(* A gap between entries is a hole: LeftGap and RightGap, which are        *)
(* differences of offsets, are sizes of neighbours (GapsAreHoles).  So an  *)
(* update is right if it adds what the holes around the entry have grown,  *)
(* and what they have grown is known from where holes are split (placing)  *)
(* and merged (evicting).  A uint16_t changes nothing about that, since    *)
(* what is added to a number is added to its remainder (Remainders).       *)
(***************************************************************************)
EXTENDS Accounting, ClampiWindow_proofs

(* An injective sequence is as long as its range is large.                 *)
LEMMA LengthOfStack ==
  ASSUME NEW S, NEW s \in Seq(S), IsInjective(s)
  PROVE  Cardinality(Range(s)) = Len(s) /\ IsFiniteSet(Range(s))
<1>1. s \in [1 .. Len(s) -> Range(s)] /\ Len(s) \in Nat
  BY DEF Range
<1>2. s \in Injection(1 .. Len(s), Range(s))
  BY <1>1 DEF Injection, IsInjective
<1>3. s \in Surjection(1 .. Len(s), Range(s))
  BY <1>1 DEF Surjection, Range
<1>4. IsFiniteSet(1 .. Len(s)) /\ Cardinality(1 .. Len(s)) = Len(s)
  <2>1. Len(s) \in Nat
    BY <1>1
  <2>2. ASSUME NEW n \in Nat
        PROVE  IsFiniteSet(1 .. n) /\ Cardinality(1 .. n) = n
    BY FS_Interval
  <2> QED
    BY <2>1, <2>2
<1> QED
  BY <1>2, <1>3, <1>4, FS_Surjection

(* A descriptor is on the stack, holds a hole or holds an entry.           *)
LEMMA DescriptorsCounted ==
  ASSUME SizesOK, NEW h \in HeapType, Tiled(h), Coalesced(h)
  PROVE  2 * ht_entries = Len(h.free_entries) + Cardinality(FreeRegions(h))
                           + Cardinality(BusyRegions(h))
<1> DEFINE R == Range(h.free_entries)
<1>1. h.free_entries \in Seq(Entries) /\ IsInjective(h.free_entries)
  BY DEF HeapType, Tiled, StackOK
<1>2. Cardinality(R) = Len(h.free_entries) /\ IsFiniteSet(R)
  BY <1>1, LengthOfStack
<1>3. R \subseteq Entries
  BY <1>1 DEF Range
<1>4. Entries = R \cup Live(h) /\ R \cap Live(h) = {}
  BY <1>3 DEF Live
<1>5. /\ IsFiniteSet(Live(h))
      /\ Cardinality(Live(h)) = Cardinality(FreeRegions(h))
                                  + Cardinality(BusyRegions(h))
      /\ Cardinality(FreeRegions(h)) \in Nat
      /\ Cardinality(BusyRegions(h)) \in Nat
  BY FreeBound
<1>6. Cardinality(Entries) = 2 * ht_entries
  BY FS_Interval DEF SizesOK, Entries
<1>7. Len(h.free_entries) \in Nat
  BY <1>1
<1> HIDE DEF R
<1>8. Cardinality(Entries) = Cardinality(R) + Cardinality(Live(h))
  BY <1>2, <1>4, <1>5, DisjointUnion
<1> QED
  BY <1>2, <1>5, <1>6, <1>7, <1>8

(* cl_get_stats always reports one entry more than the cache holds.        *)
THEOREM StatsAlwaysOneTooMany == Spec => []StatsOneTooMany
<1>1. HeapInv => StatsOneTooMany
  <2> SUFFICES ASSUME HeapInv PROVE StatsOneTooMany
    OBVIOUS
  <2>1. SizesOK /\ heap \in HeapType /\ Tiled(heap) /\ Coalesced(heap)
    BY DEF HeapInv
  <2>2. heap.free_idx = FreeRegions(heap) /\ table = BusyRegions(heap)
    BY DEF HeapInv, Indexed
  <2>3. 2 * ht_entries = Len(heap.free_entries)
          + Cardinality(FreeRegions(heap)) + Cardinality(BusyRegions(heap))
    BY <2>1, DescriptorsCounted
  <2>4. /\ Cardinality(FreeRegions(heap)) \in Nat
        /\ Cardinality(BusyRegions(heap)) \in Nat
    BY <2>1, FreeBound
  <2>5. Len(heap.free_entries) \in Nat
    BY <2>1 DEF HeapType
  <2>6. ReportedEntries(heap) = Cardinality(BusyRegions(heap)) + 1
    <3>1. ReportedEntries(heap) = 2 * ht_entries - (Len(heap.free_entries) - 1)
                                    - Cardinality(FreeRegions(heap))
      BY <2>2 DEF ReportedEntries
    <3>2. ht_entries \in Nat
      BY <2>1 DEF SizesOK
    <3>3. ASSUME NEW s \in Nat, NEW f \in Nat, NEW b \in Nat,
                 2 * ht_entries = s + f + b
          PROVE  2 * ht_entries - (s - 1) - f = b + 1
      BY <3>2, <3>3
    <3> QED
      BY <2>3, <2>4, <2>5, <3>1, <3>3
  <2> QED
    BY <2>2, <2>6 DEF StatsOneTooMany
<1> QED
  BY <1>1, HeapInvariance, PTL

-----------------------------------------------------------------------------
(* The gap on a side of an entry is the hole that is there, if any.        *)
LeftHole(h, e) == IF LeftIsFree(h, e) THEN h.size[h.mprev[e]] ELSE 0

RightHole(h, e) ==
  IF RightIsFree(h, e) /\ h.mnext[h.mnext[e]] # NOENTRY
  THEN h.size[h.mnext[e]] ELSE 0

(* The list, from one region to its neighbours.                            *)
LEMMA Around ==
  ASSUME SizesOK, NEW h \in HeapType, Tiled(h), NEW e \in Live(h)
  PROVE  /\ e \in Entries /\ e # NOENTRY
         /\ h.size[e] \in Nat /\ h.offset[e] \in Nat
         /\ h.mprev[e] = NOENTRY => h.offset[e] = 0
         /\ h.mprev[e] # NOENTRY =>
              /\ h.mprev[e] \in Live(h) /\ h.mnext[h.mprev[e]] = e
              /\ h.size[h.mprev[e]] \in Nat /\ h.offset[h.mprev[e]] \in Nat
              /\ h.offset[e] = h.offset[h.mprev[e]] + h.size[h.mprev[e]]
         /\ h.mnext[e] # NOENTRY =>
              /\ h.mnext[e] \in Live(h) /\ h.mprev[h.mnext[e]] = e
              /\ h.size[h.mnext[e]] \in Nat /\ h.offset[h.mnext[e]] \in Nat
              /\ h.offset[h.mnext[e]] = h.offset[e] + h.size[e]
<1>1. Live(h) \subseteq Entries
  BY DEF Live
<1>2. /\ h.size \in [Entries -> Nat] /\ h.offset \in [Entries -> Nat]
  BY DEF HeapType
<1>3. Linked(h)
  BY DEF Tiled
<1>4. e \in Entries /\ e # NOENTRY
  BY <1>1, NoEntry
<1>5. h.mprev[e] # NOENTRY =>
        /\ h.mprev[e] \in Live(h) /\ h.mnext[h.mprev[e]] = e
        /\ h.offset[e] = h.offset[h.mprev[e]] + h.size[h.mprev[e]]
  BY <1>3, <1>4 DEF Linked
<1>6. h.mnext[e] # NOENTRY =>
        /\ h.mnext[e] \in Live(h) /\ h.mprev[h.mnext[e]] = e
        /\ h.offset[h.mnext[e]] = h.offset[e] + h.size[e]
  BY <1>3, <1>4 DEF Linked
<1>7. h.mprev[e] = NOENTRY => h.offset[e] = 0
  BY <1>3 DEF Linked
<1> QED
  BY <1>1, <1>2, <1>4, <1>5, <1>6, <1>7

LEMMA GapsAreHoles ==
  ASSUME SizesOK, NEW h \in HeapType, Tiled(h), NEW e \in Live(h)
  PROVE  /\ LeftGap(h, e) = LeftHole(h, e) /\ RightGap(h, e) = RightHole(h, e)
         /\ LeftHole(h, e) \in Nat /\ RightHole(h, e) \in Nat
<1> DEFINE p == h.mprev[e]
           n == h.mnext[e]
<1>1. /\ e \in Entries /\ e # NOENTRY /\ h.size[e] \in Nat /\ h.offset[e] \in Nat
      /\ p = NOENTRY => h.offset[e] = 0
      /\ p # NOENTRY => /\ p \in Live(h)
                        /\ h.size[p] \in Nat /\ h.offset[p] \in Nat
                        /\ h.offset[e] = h.offset[p] + h.size[p]
      /\ n # NOENTRY => /\ n \in Live(h)
                        /\ h.size[n] \in Nat /\ h.offset[n] \in Nat
                        /\ h.offset[n] = h.offset[e] + h.size[e]
  BY Around
<1>2. ASSUME p # NOENTRY
      PROVE  /\ h.mprev[p] = NOENTRY => h.offset[p] = 0
             /\ h.mprev[p] # NOENTRY =>
                  h.offset[p] = h.offset[h.mprev[p]] + h.size[h.mprev[p]]
  <2>1. p \in Live(h)
    BY <1>1, <1>2
  <2> HIDE DEF p
  <2> QED
    BY <2>1, Around
<1>3. ASSUME n # NOENTRY
      PROVE  h.mnext[n] # NOENTRY =>
               h.offset[h.mnext[n]] = h.offset[n] + h.size[n]
  <2>1. n \in Live(h)
    BY <1>1, <1>3
  <2> HIDE DEF n
  <2> QED
    BY <2>1, Around
<1>4. LeftGap(h, e) = LeftHole(h, e) /\ LeftHole(h, e) \in Nat
  <2>1. CASE LeftIsFree(h, e)
    BY <1>1, <1>2, <2>1 DEF LeftGap, LeftHole, LeftIsFree, PrevEntry, End
  <2>2. CASE ~LeftIsFree(h, e)
    BY <1>1, <2>2 DEF LeftGap, LeftHole, PrevEntry, End
  <2> QED
    BY <2>1, <2>2
<1>5. RightGap(h, e) = RightHole(h, e) /\ RightHole(h, e) \in Nat
  <2>1. CASE RightIsFree(h, e)
    BY <1>1, <1>3, <2>1 DEF RightGap, RightHole, RightIsFree, NextEntry, End
  <2>2. CASE ~RightIsFree(h, e)
    BY <1>1, <2>2 DEF RightGap, RightHole, NextEntry, End
  <2> QED
    BY <2>1, <2>2
<1> QED
  BY <1>4, <1>5

(* Modulo 2^16, what is added to a number is added to its remainder.       *)
LEMMA Remainders ==
  ASSUME NEW x \in Nat, NEW y \in Nat, NEW k \in Int
  PROVE  /\ ((x % PenaltyRange) + (y - x + k)) % PenaltyRange = y % PenaltyRange
              <=> k % PenaltyRange = 0
         /\ (x - y) % PenaltyRange = 0 <=> x % PenaltyRange = y % PenaltyRange
         /\ 0 % PenaltyRange = 0
         /\ -x % PenaltyRange = 0 <=> x % PenaltyRange = 0
BY DEF PenaltyRange

(* The bytes free around an entry, none if there is no such entry.         *)
Holes(h, f) == IF f \in BusyRegions(h) THEN LeftHole(h, f) + RightHole(h, f) ELSE 0

(* After a change that is wrong at q at most, by the number "error", the   *)
(* penalties are right if a uint16_t does not tell that number from 0.     *)
LEMMA RightUnless ==
  ASSUME SizesOK, NEW h \in HeapType, Tiled(h), NEW g \in HeapType, Tiled(g),
         NEW change, DOMAIN change = BusyRegions(g),
         NEW q \in BusyRegions(g), NEW error \in Int,
         \A f \in BusyRegions(g) :
           change[f] = Holes(g, f) - Holes(h, f) + (IF f = q THEN error ELSE 0)
  PROVE  Updated(Penalties(h), change) = Penalties(g) <=> error % PenaltyRange = 0
<1>1. ASSUME NEW k \in HeapType, Tiled(k), NEW f
      PROVE  /\ Holes(k, f) \in Nat
             /\ f \in BusyRegions(k) => Penalties(k)[f] = Holes(k, f) % PenaltyRange
  <2>1. CASE f \in BusyRegions(k)
    <3>1. f \in Live(k)
      BY <2>1 DEF BusyRegions
    <3>2. /\ LeftGap(k, f) = LeftHole(k, f) /\ RightGap(k, f) = RightHole(k, f)
          /\ LeftHole(k, f) \in Nat /\ RightHole(k, f) \in Nat
      BY <1>1, <3>1, GapsAreHoles
    <3> QED
      BY <2>1, <3>2 DEF Holes, Penalties, Gap
  <2>2. CASE f \notin BusyRegions(k)
    BY <2>2 DEF Holes
  <2> QED
    BY <2>1, <2>2
<1>2. ASSUME NEW f \in BusyRegions(g)
      PROVE  Updated(Penalties(h), change)[f] = Penalties(g)[f]
               <=> (IF f = q THEN error ELSE 0) % PenaltyRange = 0
  <2> DEFINE x == Holes(h, f)
             y == Holes(g, f)
             k == IF f = q THEN error ELSE 0
  <2>1. x \in Nat /\ y \in Nat /\ k \in Int /\ Penalties(g)[f] = y % PenaltyRange
    BY <1>1
  <2>2. DOMAIN Penalties(h) = BusyRegions(h)
    BY DEF Penalties
  <2>3. (IF f \in BusyRegions(h) THEN Penalties(h)[f] ELSE 0) = x % PenaltyRange
    <3>1. f \notin BusyRegions(h) => x = 0
      BY DEF Holes
    <3> HIDE DEF x
    <3> QED
      BY <1>1, <2>1, <3>1, Remainders DEF x
  <2>4. Updated(Penalties(h), change)[f]
          = ((x % PenaltyRange) + (y - x + k)) % PenaltyRange
    <3>1. Updated(Penalties(h), change)[f]
            = ((IF f \in BusyRegions(h) THEN Penalties(h)[f] ELSE 0) + change[f])
                % PenaltyRange
      BY <2>2 DEF Updated
    <3>2. change[f] = y - x + k
      OBVIOUS
    <3> HIDE DEF x, y, k
    <3> QED
      BY <2>3, <3>1, <3>2
  <2> HIDE DEF x, y, k
  <2>5. ((x % PenaltyRange) + (y - x + k)) % PenaltyRange = y % PenaltyRange
          <=> k % PenaltyRange = 0
    <3>1. \A a \in Nat, b \in Nat, c \in Int :
            ((a % PenaltyRange) + (b - a + c)) % PenaltyRange = b % PenaltyRange
              <=> c % PenaltyRange = 0
      BY Remainders
    <3> QED
      BY <2>1, <3>1
  <2> QED
    BY <2>1, <2>4, <2>5 DEF k
<1>3. /\ Updated(Penalties(h), change)
           = [f \in BusyRegions(g) |-> Updated(Penalties(h), change)[f]]
      /\ Penalties(g) = [f \in BusyRegions(g) |-> Penalties(g)[f]]
  BY DEF Updated, Penalties
<1>4. 0 % PenaltyRange = 0
  BY Remainders
<1> QED
  BY <1>2, <1>3, <1>4

(* Penalties are right after a change if it is the change of the holes.    *)
LEMMA RightAfter ==
  ASSUME SizesOK, NEW h \in HeapType, Tiled(h), NEW g \in HeapType, Tiled(g),
         NEW change, DOMAIN change = BusyRegions(g),
         \A f \in BusyRegions(g) : change[f] = Holes(g, f) - Holes(h, f)
  PROVE  Updated(Penalties(h), change) = Penalties(g)
<1>1. CASE BusyRegions(g) = {}
  BY <1>1 DEF Updated, Penalties
<1>2. CASE BusyRegions(g) # {}
  <2>1. PICK q : q \in BusyRegions(g)
    BY <1>2
  <2>2. \A f \in BusyRegions(g) :
          change[f] = Holes(g, f) - Holes(h, f) + (IF f = q THEN 0 ELSE 0)
    <3> TAKE f \in BusyRegions(g)
    <3>1. Holes(g, f) \in Nat /\ Holes(h, f) \in Nat
      <4>1. f \in Live(g) /\ (f \in BusyRegions(h) => f \in Live(h))
        BY DEF BusyRegions
      <4> QED
        BY <4>1, GapsAreHoles DEF Holes
    <3> QED
      BY <3>1
  <2>3. 0 % PenaltyRange = 0
    BY Remainders
  <2> QED
    BY <2>1, <2>2, <2>3, RightUnless
<1> QED
  BY <1>1, <1>2

-----------------------------------------------------------------------------
(* Heap g has entry e of sz bytes at the left of what was hole r in h: how *)
(* that changes the holes next to entries.                                 *)
HolesMove(g, h, r, e, sz) ==
  LET p == h.mprev[r]
      n == h.mnext[r]
      rest == h.size[r] - sz
  IN /\ g.mprev[e] = p /\ NextEntry(g, e) = n
     /\ g.size[e] = sz /\ g.offset[e] = h.offset[r]
     /\ LeftHole(g, e) = 0 /\ RightHole(g, e) = IF n # NOENTRY THEN rest ELSE 0
     /\ e # p /\ e # n /\ e \notin BusyRegions(h)
     /\ p # NOENTRY =>
          /\ p \in BusyRegions(h) /\ p # n
          /\ LeftHole(g, p) = LeftHole(h, p) /\ RightHole(g, p) = 0
          /\ RightHole(h, p) = IF n # NOENTRY THEN h.size[r] ELSE 0
     /\ n # NOENTRY =>
          /\ n \in BusyRegions(h) /\ g.offset[n] = h.offset[r] + h.size[r]
          /\ LeftHole(h, n) = h.size[r] /\ LeftHole(g, n) = rest
          /\ RightHole(g, n) = RightHole(h, n)
     /\ \A f \in BusyRegions(h) \ {p, n} :
          LeftHole(g, f) = LeftHole(h, f) /\ RightHole(g, f) = RightHole(h, f)

(* The neighbours of a hole.                                               *)
LEMMA AroundHole ==
  ASSUME SizesOK, NEW h \in HeapType, Tiled(h), Coalesced(h), NEW r \in FreeRegions(h)
  PROVE  LET p == h.mprev[r]
             n == h.mnext[r]
         IN /\ r \in Live(h) /\ r \in Entries /\ r # NOENTRY
            /\ h.size[r] \in Nat /\ h.offset[r] \in Nat
            /\ p # NOENTRY =>
                 /\ p \in BusyRegions(h) /\ p \in Entries /\ p # r /\ p # n
                 /\ h.mnext[p] = r /\ h.type[p] = BUSY
            /\ n # NOENTRY =>
                 /\ n \in BusyRegions(h) /\ n \in Entries /\ n # r
                 /\ h.mprev[n] = r /\ h.type[n] = BUSY
                 /\ h.offset[n] = h.offset[r] + h.size[r]
            /\ \A f \in BusyRegions(h) :
                 /\ f # r /\ f \in Live(h) /\ f \in Entries /\ f # NOENTRY
                 /\ (h.mprev[f] = r <=> f = n) /\ (h.mnext[f] = r <=> f = p)
                 /\ h.mprev[f] # NOENTRY => h.mprev[f] \in Live(h)
                 /\ h.mnext[f] # NOENTRY => h.mnext[f] \in Live(h)
<1> DEFINE p == h.mprev[r]
           n == h.mnext[r]
<1>1. r \in Live(h) /\ h.type[r] = FREE
  BY DEF FreeRegions
<1>2. /\ r \in Entries /\ r # NOENTRY /\ h.size[r] \in Nat /\ h.offset[r] \in Nat
      /\ p # NOENTRY => p \in Live(h) /\ h.mnext[p] = r
      /\ n # NOENTRY => /\ n \in Live(h) /\ h.mprev[n] = r
                        /\ h.offset[n] = h.offset[r] + h.size[r]
  BY <1>1, Around
<1>3. \A f \in Live(h) : f \in Entries /\ f # NOENTRY /\ h.type[f] \in {FREE, BUSY}
  BY NoEntry DEF Live, HeapType
<1>4. FREE # BUSY
  BY DEF FREE, BUSY
<1> HIDE DEF p, n
<1>5. ASSUME p # NOENTRY
      PROVE  p \in BusyRegions(h) /\ p \in Entries /\ p # r /\ p # n /\ h.type[p] = BUSY
  <2>1. h.type[p] = BUSY
    BY <1>1, <1>2, <1>3, <1>4, <1>5 DEF Coalesced, FreeRegions
  <2>2. p # r /\ h.mnext[r] # p
    BY <1>1, <1>2, <1>5, Neighbours
  <2> QED
    BY <1>2, <1>3, <1>5, <2>1, <2>2 DEF BusyRegions, n
<1>6. ASSUME n # NOENTRY
      PROVE  n \in BusyRegions(h) /\ n \in Entries /\ n # r /\ h.type[n] = BUSY
  <2>1. h.type[n] = BUSY
    BY <1>6 DEF Coalesced, n
  <2> QED
    BY <1>1, <1>2, <1>3, <1>4, <1>6, <2>1 DEF BusyRegions
<1>7. ASSUME NEW f \in BusyRegions(h)
      PROVE  /\ f # r /\ f \in Live(h) /\ f \in Entries /\ f # NOENTRY
             /\ (h.mprev[f] = r <=> f = n) /\ (h.mnext[f] = r <=> f = p)
             /\ h.mprev[f] # NOENTRY => h.mprev[f] \in Live(h)
             /\ h.mnext[f] # NOENTRY => h.mnext[f] \in Live(h)
  <2>1. f \in Live(h) /\ f # r
    BY <1>1, <1>4 DEF BusyRegions
  <2>2. /\ h.mprev[f] # NOENTRY => h.mprev[f] \in Live(h) /\ h.mnext[h.mprev[f]] = f
        /\ h.mnext[f] # NOENTRY => h.mnext[f] \in Live(h) /\ h.mprev[h.mnext[f]] = f
    BY <2>1, Around
  <2>3. f \in Entries /\ f # NOENTRY
    BY <1>3, <2>1
  <2>4. h.mprev[f] = r <=> f = n
    BY <1>2, <2>2, <2>3 DEF n
  <2>5. h.mnext[f] = r <=> f = p
    BY <1>2, <2>2, <2>3 DEF p
  <2> QED
    BY <2>1, <2>2, <2>3, <2>4, <2>5
<1> QED
  BY <1>1, <1>2, <1>5, <1>6, <1>7 DEF p, n

(* The new entry fills the hole.                                           *)
LEMMA FilledHoles ==
  ASSUME SizesOK, NEW h \in HeapType, Tiled(h), Coalesced(h), NEW r \in FreeRegions(h),
         NEW g, g = [h EXCEPT !.type[r] = BUSY]
  PROVE  HolesMove(g, h, r, r, h.size[r])
<1> DEFINE p == h.mprev[r]
           n == h.mnext[r]
<1>1. /\ g.mprev = h.mprev /\ g.mnext = h.mnext /\ g.size = h.size /\ g.offset = h.offset
      /\ \A f \in Entries : g.type[f] = IF f = r THEN BUSY ELSE h.type[f]
  BY DEF HeapType
<1>2. /\ r \in Entries /\ r # NOENTRY /\ h.size[r] \in Nat
      /\ p # NOENTRY =>
           /\ p \in BusyRegions(h) /\ p \in Entries /\ p # r /\ p # n
           /\ h.mnext[p] = r /\ h.type[p] = BUSY
      /\ n # NOENTRY =>
           /\ n \in BusyRegions(h) /\ n \in Entries /\ n # r
           /\ h.mprev[n] = r /\ h.type[n] = BUSY
           /\ h.offset[n] = h.offset[r] + h.size[r]
      /\ \A f \in BusyRegions(h) :
           /\ f # r /\ f \in Live(h) /\ f \in Entries
           /\ (h.mprev[f] = r <=> f = n) /\ (h.mnext[f] = r <=> f = p)
           /\ h.mprev[f] # NOENTRY => h.mprev[f] \in Live(h)
           /\ h.mnext[f] # NOENTRY => h.mnext[f] \in Live(h)
  BY AroundHole
<1>3. Live(h) \subseteq Entries /\ h.type[r] = FREE /\ FREE # BUSY
  BY DEF Live, FreeRegions, FREE, BUSY
<1> HIDE DEF p, n
<1>4. ASSUME NEW f \in BusyRegions(h)
      PROVE  /\ f # n => LeftHole(g, f) = LeftHole(h, f)
             /\ f # p => RightHole(g, f) = RightHole(h, f)
  <2>1. f # n => (LeftIsFree(g, f) <=> LeftIsFree(h, f))
    BY <1>1, <1>2, <1>3 DEF LeftIsFree
  <2>2. f # p => (RightIsFree(g, f) <=> RightIsFree(h, f))
    BY <1>1, <1>2, <1>3 DEF RightIsFree
  <2> QED
    BY <1>1, <2>1, <2>2 DEF LeftHole, RightHole
<1>5. /\ ~LeftIsFree(g, r) /\ ~RightIsFree(g, r)
  BY <1>1, <1>2, <1>3 DEF LeftIsFree, RightIsFree, p, n
<1>6. /\ NextEntry(g, r) = n /\ LeftHole(g, r) = 0 /\ RightHole(g, r) = 0
  BY <1>1, <1>5 DEF NextEntry, LeftHole, RightHole, n
<1>7. p # NOENTRY => /\ RightHole(g, p) = 0
                     /\ RightHole(h, p) = IF n # NOENTRY THEN h.size[r] ELSE 0
  BY <1>1, <1>2, <1>3 DEF RightHole, RightIsFree, n
<1>8. n # NOENTRY => LeftHole(h, n) = h.size[r] /\ LeftHole(g, n) = 0
  BY <1>1, <1>2, <1>3 DEF LeftHole, LeftIsFree
<1>9. r \notin BusyRegions(h) /\ h.size[r] - h.size[r] = 0 /\ r # p /\ r # n
  BY <1>2
<1>10. g.mprev[r] = p /\ g.size[r] = h.size[r] /\ g.offset[r] = h.offset[r]
  BY <1>1 DEF p
<1>11. n # NOENTRY => g.offset[n] = h.offset[r] + h.size[r]
  BY <1>1, <1>2
<1> QED
  BY <1>2, <1>4, <1>6, <1>7, <1>8, <1>9, <1>10, <1>11 DEF HolesMove, p, n

(* The new entry leaves part of the hole.                                  *)
LEMMA SplitHoles ==
  ASSUME SizesOK, NEW h \in HeapType, Tiled(h), Coalesced(h), NEW r \in FreeRegions(h),
         NEW sz \in Nat, h.size[r] > sz, NEW g, NEW e,
         Split(g, h, r, e, sz), e \in Entries \ Live(h)
  PROVE  HolesMove(g, h, r, e, sz)
<1> DEFINE p == h.mprev[r]
           n == h.mnext[r]
           rest == h.size[r] - sz
<1>1. \A f \in Entries :
        /\ g.type[f] = IF f = e THEN BUSY ELSE h.type[f]
        /\ g.size[f] = IF f = e THEN sz ELSE IF f = r THEN rest ELSE h.size[f]
        /\ g.offset[f] = IF f = e THEN h.offset[r]
                         ELSE IF f = r THEN h.offset[r] + sz ELSE h.offset[f]
        /\ g.mprev[f] = IF f = e THEN p ELSE IF f = r THEN e ELSE h.mprev[f]
        /\ g.mnext[f] = IF f = e THEN r ELSE IF f = p THEN e ELSE h.mnext[f]
  BY DEF Split
<1>2. /\ r \in Live(h) /\ r \in Entries /\ r # NOENTRY /\ h.size[r] \in Nat
      /\ p # NOENTRY =>
           /\ p \in BusyRegions(h) /\ p \in Entries /\ p # r /\ p # n
           /\ h.mnext[p] = r /\ h.type[p] = BUSY
      /\ n # NOENTRY =>
           /\ n \in BusyRegions(h) /\ n \in Entries /\ n # r
           /\ h.mprev[n] = r /\ h.type[n] = BUSY
           /\ h.offset[n] = h.offset[r] + h.size[r]
      /\ \A f \in BusyRegions(h) :
           /\ f # r /\ f \in Live(h) /\ f \in Entries
           /\ (h.mprev[f] = r <=> f = n) /\ (h.mnext[f] = r <=> f = p)
           /\ h.mprev[f] # NOENTRY => h.mprev[f] \in Live(h)
           /\ h.mnext[f] # NOENTRY => h.mnext[f] \in Live(h)
  BY AroundHole
<1>3. /\ Live(h) \subseteq Entries /\ h.type[r] = FREE /\ FREE # BUSY
      /\ e \in Entries /\ e \notin Live(h) /\ e # r /\ e # NOENTRY
  BY <1>2, NoEntry DEF Live, FreeRegions, FREE, BUSY
<1> HIDE DEF p, n, rest
<1>4. ASSUME NEW f \in BusyRegions(h)
      PROVE  /\ f # n => LeftHole(g, f) = LeftHole(h, f)
             /\ f # p => RightHole(g, f) = RightHole(h, f)
  <2>1. f # e /\ f # r /\ f \in Entries
    BY <1>2, <1>3
  <2>2. ASSUME f # n
        PROVE  LeftHole(g, f) = LeftHole(h, f)
    <3> DEFINE m == h.mprev[f]
    <3>1. g.mprev[f] = m
      BY <1>1, <2>1
    <3>2. m # NOENTRY => g.type[m] = h.type[m] /\ g.size[m] = h.size[m]
      BY <1>1, <1>2, <1>3, <2>2
    <3> QED
      BY <3>1, <3>2 DEF LeftHole, LeftIsFree
  <2>3. ASSUME f # p
        PROVE  RightHole(g, f) = RightHole(h, f)
    <3> DEFINE m == h.mnext[f]
    <3>1. g.mnext[f] = m
      BY <1>1, <2>1, <2>3
    <3>2. m # NOENTRY => /\ m \in Entries /\ m # e /\ m # r
                         /\ g.type[m] = h.type[m] /\ g.size[m] = h.size[m]
      BY <1>1, <1>2, <1>3, <2>3
    <3>3. m # NOENTRY /\ h.type[m] = FREE => g.mnext[m] = h.mnext[m]
      BY <1>1, <1>2, <1>3, <3>2, NoEntry
    <3> QED
      BY <3>1, <3>2, <3>3 DEF RightHole, RightIsFree
  <2> QED
    BY <2>2, <2>3
<1>5. /\ g.mprev[e] = p /\ g.mnext[e] = r /\ g.type[r] = FREE /\ g.size[r] = rest
      /\ g.mnext[r] = n /\ g.mprev[r] = e
  BY <1>1, <1>2, <1>3 DEF n
<1>6. /\ ~LeftIsFree(g, e) /\ RightIsFree(g, e)
  BY <1>1, <1>2, <1>3, <1>5 DEF LeftIsFree, RightIsFree
<1>7. /\ NextEntry(g, e) = n /\ LeftHole(g, e) = 0
      /\ RightHole(g, e) = IF n # NOENTRY THEN rest ELSE 0
  BY <1>5, <1>6 DEF NextEntry, LeftHole, RightHole
<1>8. p # NOENTRY => /\ RightHole(g, p) = 0
                     /\ RightHole(h, p) = IF n # NOENTRY THEN h.size[r] ELSE 0
                     /\ e # p
  <2> SUFFICES ASSUME p # NOENTRY
               PROVE  /\ RightHole(g, p) = 0 /\ e # p
                      /\ RightHole(h, p) = IF n # NOENTRY THEN h.size[r] ELSE 0
    OBVIOUS
  <2>1. p \in Entries /\ p # e /\ h.mnext[p] = r
    BY <1>2, <1>3
  <2>2. g.mnext[p] = e /\ g.type[e] = BUSY
    BY <1>1, <1>3, <2>1
  <2> QED
    BY <1>2, <1>3, <2>1, <2>2 DEF RightHole, RightIsFree, n
<1>9. n # NOENTRY => /\ LeftHole(h, n) = h.size[r] /\ LeftHole(g, n) = rest
                     /\ g.offset[n] = h.offset[r] + h.size[r] /\ e # n
  <2> SUFFICES ASSUME n # NOENTRY
               PROVE  /\ LeftHole(h, n) = h.size[r] /\ LeftHole(g, n) = rest
                      /\ g.offset[n] = h.offset[r] + h.size[r] /\ e # n
    OBVIOUS
  <2>1. n \in Entries /\ n # e /\ n # r /\ h.mprev[n] = r
    BY <1>2, <1>3
  <2>2. g.mprev[n] = r /\ g.offset[n] = h.offset[n]
    BY <1>1, <2>1
  <2> QED
    BY <1>2, <1>3, <1>5, <2>1, <2>2 DEF LeftHole, LeftIsFree
<1>10. /\ g.size[e] = sz /\ g.offset[e] = h.offset[r] /\ e \notin BusyRegions(h)
       /\ e # p /\ e # n
  BY <1>1, <1>3, <1>8, <1>9 DEF BusyRegions
<1> QED
  BY <1>2, <1>4, <1>5, <1>7, <1>8, <1>9, <1>10 DEF HolesMove, p, n, rest

(* Placing a request of sz bytes in hole r of h keeps the penalties right. *)
LEMMA PlacementRight ==
  ASSUME SizesOK, NEW h \in HeapType, Tiled(h), Coalesced(h), NEW r \in FreeRegions(h),
         h.free_idx = FreeRegions(h) \ {r}, NEW sz \in Nat, h.size[r] >= sz,
         h.size[r] # sz => h.free_entries # <<>>
  PROVE  LET g == Carve(h, r, sz)
         IN Updated(Penalties(h), PlacementChange(g, NewEntry(h, r, sz))) = Penalties(g)
<1> DEFINE g == Carve(h, r, sz)
           e == NewEntry(h, r, sz)
           p == h.mprev[r]
           n == h.mnext[r]
           change == PlacementChange(g, e)
<1>1. g \in HeapType /\ Tiled(g) /\ BusyRegions(g) = BusyRegions(h) \cup {e}
  BY CarveKeeps
<1>2. r \in Live(h) /\ r # NOENTRY /\ h.size[r] \in Nat /\ h.offset[r] \in Nat
  BY AroundHole
<1>3. HolesMove(g, h, r, e, sz)
  <2>1. CASE h.size[r] = sz
    <3>1. g = [h EXCEPT !.type[r] = BUSY] /\ e = r
      BY <2>1 DEF Carve, NewEntry
    <3> HIDE DEF g, e
    <3> QED
      BY <2>1, <3>1, FilledHoles
  <2>2. CASE h.size[r] # sz
    <3>1. h.size[r] > sz /\ h.free_entries # <<>> /\ StackOK(h)
      BY <1>2, <2>2 DEF Tiled
    <3>2. Split(g, h, r, e, sz) /\ e \in Entries \ Live(h)
      BY <1>2, <3>1, CarveSplits
    <3> HIDE DEF g, e
    <3> QED
      BY <3>1, <3>2, SplitHoles
  <2> QED
    BY <2>1, <2>2
<1> HIDE DEF g, e, p, n
<1>4. /\ g.mprev[e] = p /\ NextEntry(g, e) = n
      /\ g.size[e] = sz /\ g.offset[e] = h.offset[r]
      /\ LeftHole(g, e) = 0
      /\ e # p /\ e # n /\ e \notin BusyRegions(h)
      /\ p # NOENTRY =>
           /\ p \in BusyRegions(h) /\ p # n
           /\ LeftHole(g, p) = LeftHole(h, p) /\ RightHole(g, p) = 0
           /\ RightHole(h, p) = IF n # NOENTRY THEN h.size[r] ELSE 0
      /\ n # NOENTRY =>
           /\ n \in BusyRegions(h) /\ g.offset[n] = h.offset[r] + h.size[r]
           /\ LeftHole(h, n) = h.size[r] /\ LeftHole(g, n) = h.size[r] - sz
           /\ RightHole(g, n) = RightHole(h, n)
      /\ \A f \in BusyRegions(h) \ {p, n} :
           LeftHole(g, f) = LeftHole(h, f) /\ RightHole(g, f) = RightHole(h, f)
  BY <1>3 DEF HolesMove, p, n
<1>5. ASSUME NEW f \in BusyRegions(h)
      PROVE  /\ f # e /\ f # NOENTRY
             /\ Holes(h, f) = LeftHole(h, f) + RightHole(h, f)
             /\ LeftHole(h, f) \in Nat /\ RightHole(h, f) \in Nat
  <2>1. f \in Live(h) /\ f # NOENTRY
    BY NoEntry DEF BusyRegions, Live
  <2>2. /\ LeftGap(h, f) = LeftHole(h, f) /\ RightGap(h, f) = RightHole(h, f)
        /\ LeftHole(h, f) \in Nat /\ RightHole(h, f) \in Nat
    BY <2>1, GapsAreHoles
  <2> QED
    BY <1>4, <2>1, <2>2 DEF Holes
<1>6. RightGap(g, e) = RightHole(g, e) /\ RightHole(g, e) \in Nat
  <2>1. e \in Live(g)
    BY <1>1 DEF BusyRegions
  <2> QED
    BY <1>1, <2>1, GapsAreHoles
<1>7. DOMAIN change = BusyRegions(g)
  BY DEF PlacementChange
<1>8. ASSUME NEW f \in BusyRegions(g)
      PROVE  change[f] = Holes(g, f) - Holes(h, f)
  <2> USE DEF Holes
  <2>1. change[f] =
          CASE f = e -> RightGap(g, e)
            [] f = n -> -sz
            [] f = p /\ n # NOENTRY /\ g.offset[n] > 0 ->
                 -(g.offset[n] - g.offset[e])
            [] OTHER -> 0
    BY <1>4 DEF PlacementChange
  <2>2. CASE f = e
    <3>1. change[f] = RightGap(g, e)
      BY <1>4, <2>1, <2>2
    <3> HIDE DEF change
    <3> QED
      BY <1>4, <1>6, <2>2, <3>1
  <2>3. CASE f # e /\ f = n
    <3>1. change[f] = -sz
      BY <1>1, <1>4, <1>5, <2>1, <2>3
    <3>2. f \in BusyRegions(h) /\ f # NOENTRY
      BY <1>1, <1>5, <2>3
    <3> HIDE DEF change
    <3> QED
      BY <1>2, <1>4, <1>5, <2>3, <3>1, <3>2
  <2>4. CASE f # e /\ f # n /\ f = p
    <3>1. f \in BusyRegions(h) /\ f # NOENTRY
      BY <1>1, <1>5, <2>4
    <3>2. change[f] = IF n # NOENTRY THEN -h.size[r] ELSE 0
      <4>1. CASE n # NOENTRY /\ g.offset[n] > 0
        <5>1. change[f] = -(g.offset[n] - g.offset[e])
          BY <2>1, <2>4, <4>1
        <5> HIDE DEF change
        <5> QED
          BY <1>2, <1>4, <4>1, <5>1
      <4>2. CASE ~(n # NOENTRY /\ g.offset[n] > 0)
        <5>1. change[f] = 0
          BY <2>1, <2>4, <4>2
        <5>2. n # NOENTRY => h.size[r] = 0
          BY <1>2, <1>4, <4>2
        <5> HIDE DEF change
        <5> QED
          BY <5>1, <5>2
      <4> QED
        BY <4>1, <4>2
    <3> HIDE DEF change
    <3> QED
      BY <1>2, <1>4, <1>5, <2>4, <3>1, <3>2
  <2>5. CASE f # e /\ f # n /\ f # p
    <3>1. change[f] = 0
      BY <2>1, <2>5
    <3>2. f \in BusyRegions(h) \ {p, n}
      BY <1>1, <2>5
    <3> HIDE DEF change
    <3> QED
      BY <1>4, <1>5, <3>1, <3>2
  <2> QED
    BY <2>2, <2>3, <2>4, <2>5
<1>9. Updated(Penalties(h), change) = Penalties(g)
  <2> HIDE DEF change
  <2> QED
    BY <1>1, <1>7, <1>8, RightAfter
<1> QED
  BY <1>9 DEF g, e

(* Whatever hole and victim a get chooses, the penalties say after the     *)
(* placement how many bytes are free around each entry if they said so     *)
(* before it, as far as a uint16_t can say it.                             *)
THEOREM PlacementPenaltiesAlwaysRight == Spec => []PlacementPenaltiesRight
<1>1. HeapInv => PlacementPenaltiesRight
  <2> SUFFICES ASSUME HeapInv, NEW q \in Requests,
                      NEW fr \in FreeRegionsFor(q.size), NEW v \in VictimsFor(fr),
                      Fits(EvictedHeap(fr, v, q.size), FinalRegion(fr, v, q.size),
                           q.size)
               PROVE  LET h == EvictedHeap(fr, v, q.size)
                          r == FinalRegion(fr, v, q.size)
                          g == Carve(h, r, q.size)
                      IN Updated(Penalties(h), PlacementChange(g, NewEntry(h, r, q.size)))
                           = Penalties(g)
    BY DEF PlacementPenaltiesRight
  <2> DEFINE h == EvictedHeap(fr, v, q.size)
             r == FinalRegion(fr, v, q.size)
  <2>1. q.size \in Nat
    BY RequestFacts
  <2>2. SizesOK
    BY DEF HeapInv
  <2>3. r # NOENTRY /\ h.size[r] >= q.size
    BY DEF Fits
  <2> HIDE DEF h, r
  <2>4. /\ h \in HeapType /\ Tiled(h) /\ Coalesced(h)
        /\ r \in FreeRegions(h) \cup {NOENTRY}
        /\ h.free_idx = FreeRegions(h) \ {r}
        /\ Cardinality(BusyRegions(h)) < ht_entries
    BY <2>1, PlaceFound DEF h, r
  <2>5. h.free_entries # <<>>
    BY <2>2, <2>4, RoomForOne
  <2>6. r \in FreeRegions(h)
    BY <2>3, <2>4
  <2>7. Updated(Penalties(h), PlacementChange(Carve(h, r, q.size),
                                              NewEntry(h, r, q.size)))
          = Penalties(Carve(h, r, q.size))
    BY <2>1, <2>2, <2>3, <2>4, <2>5, <2>6, PlacementRight
  <2> QED
    BY <2>7 DEF h, r
<1> QED
  BY <1>1, HeapInvariance, PTL

-----------------------------------------------------------------------------
(* The hole on the right of the victim, whatever comes after it.           *)
HoleAfter(h, v) == IF RightIsFree(h, v) THEN h.size[h.mnext[v]] ELSE 0

(* Entries p and n come before and after entry v, with its holes between.  *)
Surrounded(h, v, p, n) ==
  LET hl == LeftHole(h, v)
      hr == HoleAfter(h, v)
  IN /\ h.size[v] \in Nat /\ h.offset[v] \in Nat
     /\ hl \in Nat /\ hr \in Nat
     /\ p = NOENTRY => h.offset[v] = hl
     /\ p # NOENTRY =>
          /\ p \in BusyRegions(h) /\ p # v
          /\ h.size[p] \in Nat /\ h.offset[p] \in Nat
          /\ h.offset[v] = h.offset[p] + h.size[p] + hl
          /\ RightHole(h, p) = hl
     /\ n # NOENTRY =>
          /\ n \in BusyRegions(h) /\ n # v /\ n # p
          /\ h.offset[n] = h.offset[v] + h.size[v] + hr
          /\ LeftHole(h, n) = hr

LEMMA EntriesAround ==
  ASSUME SizesOK, NEW h \in HeapType, Tiled(h), Coalesced(h), NEW v \in BusyRegions(h)
  PROVE  Surrounded(h, v, PrevEntry(h, v), NextEntry(h, v))
<1> DEFINE a == h.mprev[v]
           b == h.mnext[v]
           p == PrevEntry(h, v)
           n == NextEntry(h, v)
           hl == LeftHole(h, v)
           hr == HoleAfter(h, v)
<1>1. v \in Live(h) /\ h.type[v] = BUSY /\ FREE # BUSY
  BY DEF BusyRegions, FREE, BUSY
<1>2. \A f \in Live(h) : f \in Entries /\ f # NOENTRY /\ h.type[f] \in {FREE, BUSY}
  BY NoEntry DEF Live, HeapType
<1>3. /\ h.size[v] \in Nat /\ h.offset[v] \in Nat
      /\ a = NOENTRY => h.offset[v] = 0
      /\ a # NOENTRY => /\ a \in Live(h) /\ h.mnext[a] = v
                        /\ h.size[a] \in Nat /\ h.offset[a] \in Nat
                        /\ h.offset[v] = h.offset[a] + h.size[a]
      /\ b # NOENTRY => /\ b \in Live(h) /\ h.mprev[b] = v
                        /\ h.size[b] \in Nat /\ h.offset[b] \in Nat
                        /\ h.offset[b] = h.offset[v] + h.size[v]
  BY <1>1, Around
<1>4. ASSUME NEW f \in Live(h)
      PROVE  /\ h.size[f] \in Nat /\ h.offset[f] \in Nat
             /\ h.mprev[f] = NOENTRY => h.offset[f] = 0
             /\ h.mprev[f] # NOENTRY =>
                  /\ h.mprev[f] \in Live(h) /\ h.mnext[h.mprev[f]] = f
                  /\ h.offset[f] = h.offset[h.mprev[f]] + h.size[h.mprev[f]]
             /\ h.mnext[f] # NOENTRY =>
                  /\ h.mnext[f] \in Live(h) /\ h.mprev[h.mnext[f]] = f
                  /\ h.offset[h.mnext[f]] = h.offset[f] + h.size[f]
  BY Around
<1>5. hl \in Nat /\ hr \in Nat
  BY <1>3 DEF LeftHole, HoleAfter, LeftIsFree, RightIsFree
<1> HIDE DEF hl, hr, p, n, a, b
<1>6. /\ p = NOENTRY => h.offset[v] = hl
      /\ p # NOENTRY =>
           /\ p \in BusyRegions(h)
           /\ h.offset[v] = h.offset[p] + h.size[p] + hl
           /\ RightHole(h, p) = hl
           /\ \/ h.mnext[p] = v
              \/ a \in Live(h) /\ h.type[a] = FREE /\ h.mnext[p] = a /\ h.mnext[a] = v
  <2>1. CASE LeftIsFree(h, v)
    <3>1. /\ a # NOENTRY /\ a \in Live(h) /\ h.type[a] = FREE
          /\ p = h.mprev[a] /\ hl = h.size[a]
      BY <1>3, <2>1 DEF LeftIsFree, PrevEntry, LeftHole, p, hl, a
    <3>2. p = NOENTRY => h.offset[v] = hl
      <4>1. h.offset[v] = h.offset[a] + hl /\ h.offset[a] \in Nat
        BY <1>3, <3>1
      <4>2. p = NOENTRY => h.offset[a] = 0
        BY <1>4, <3>1
      <4> QED
        BY <1>5, <4>1, <4>2
    <3>3. p # NOENTRY => /\ p \in Live(h) /\ h.mnext[p] = a
                         /\ h.offset[v] = h.offset[p] + h.size[p] + hl
      BY <1>3, <1>4, <3>1
    <3>4. p # NOENTRY => h.type[p] = BUSY
      BY <1>1, <1>2, <3>1, <3>3 DEF Coalesced, FreeRegions
    <3>5. p # NOENTRY => RightHole(h, p) = hl
      BY <1>1, <1>2, <1>3, <3>1, <3>3 DEF RightHole, RightIsFree
    <3> QED
      BY <1>3, <3>1, <3>2, <3>3, <3>4, <3>5 DEF BusyRegions
  <2>2. CASE ~LeftIsFree(h, v)
    <3>1. p = a /\ hl = 0
      BY <2>2 DEF PrevEntry, LeftHole, p, hl, a
    <3>2. p = NOENTRY => h.offset[v] = hl
      BY <1>3, <3>1
    <3>3. p # NOENTRY => /\ p \in Live(h) /\ h.mnext[p] = v
                         /\ h.offset[v] = h.offset[p] + h.size[p] + hl
      BY <1>3, <3>1
    <3>4. p # NOENTRY => h.type[p] = BUSY
      BY <1>2, <2>2, <3>1, <3>3 DEF LeftIsFree, a
    <3>5. p # NOENTRY => RightHole(h, p) = hl
      BY <1>1, <3>1, <3>3 DEF RightHole, RightIsFree
    <3> QED
      BY <3>2, <3>3, <3>4, <3>5 DEF BusyRegions
  <2> QED
    BY <2>1, <2>2
<1>7. n # NOENTRY =>
        /\ n \in BusyRegions(h)
        /\ h.offset[n] = h.offset[v] + h.size[v] + hr
        /\ LeftHole(h, n) = hr
        /\ \/ h.mnext[v] = n
           \/ b \in Live(h) /\ h.type[b] = FREE /\ h.mnext[v] = b /\ h.mnext[b] = n
  <2>1. CASE RightIsFree(h, v)
    <3>1. /\ b # NOENTRY /\ b \in Live(h) /\ h.type[b] = FREE
          /\ n = h.mnext[b] /\ hr = h.size[b] /\ h.mnext[v] = b
      BY <1>3, <2>1 DEF RightIsFree, NextEntry, HoleAfter, n, hr, b
    <3>3. n # NOENTRY => /\ n \in Live(h) /\ h.mprev[n] = b
                         /\ h.offset[n] = h.offset[v] + h.size[v] + hr
      BY <1>3, <1>4, <3>1
    <3>4. n # NOENTRY => h.type[n] = BUSY
      BY <3>1 DEF Coalesced, FreeRegions
    <3>5. n # NOENTRY => LeftHole(h, n) = hr
      BY <3>1, <3>3 DEF LeftHole, LeftIsFree
    <3> QED
      BY <3>1, <3>3, <3>4, <3>5 DEF BusyRegions
  <2>2. CASE ~RightIsFree(h, v)
    <3>1. n = b /\ hr = 0 /\ h.mnext[v] = n
      BY <2>2 DEF NextEntry, HoleAfter, n, hr, b
    <3>3. n # NOENTRY => /\ n \in Live(h) /\ h.mprev[n] = v
                         /\ h.offset[n] = h.offset[v] + h.size[v] + hr
      BY <1>3, <3>1
    <3>4. n # NOENTRY => h.type[n] = BUSY
      BY <1>2, <2>2, <3>1, <3>3 DEF RightIsFree
    <3>5. n # NOENTRY => LeftHole(h, n) = hr
      BY <1>1, <3>1, <3>3 DEF LeftHole, LeftIsFree
    <3> QED
      BY <3>1, <3>3, <3>4, <3>5 DEF BusyRegions
  <2> QED
    BY <2>1, <2>2
<1>8. /\ p # NOENTRY => p # v
      /\ n # NOENTRY => n # v /\ n # p
  <2>1. \A Q \in SUBSET Live(h) : Q # {} => \E e \in Q : h.mnext[e] \notin Q
    BY DEF Tiled, Acyclic
  <2>2. p # NOENTRY => p \in Live(h) /\ h.type[p] = BUSY
    BY <1>6 DEF BusyRegions
  <2>3. n # NOENTRY => n \in Live(h) /\ h.type[n] = BUSY
    BY <1>7 DEF BusyRegions
  <2>4. ASSUME p # NOENTRY
        PROVE  p # v
    <3>1. CASE h.mnext[p] = v
      BY <1>1, <2>2, <2>4, <3>1, Neighbours
    <3>2. CASE a \in Live(h) /\ h.mnext[p] = a /\ h.mnext[a] = v
      BY <1>1, <2>2, <2>4, <3>2, Neighbours
    <3> QED
      BY <1>6, <2>4, <3>1, <3>2
  <2>5. ASSUME n # NOENTRY
        PROVE  n # v
    <3>1. CASE h.mnext[v] = n
      BY <1>1, <2>3, <2>5, <3>1, Neighbours
    <3>2. CASE b \in Live(h) /\ h.mnext[v] = b /\ h.mnext[b] = n
      BY <1>1, <2>3, <2>5, <3>2, Neighbours
    <3> QED
      BY <1>7, <2>5, <3>1, <3>2
  <2>6. ASSUME n # NOENTRY, n = p
        PROVE  FALSE
    <3>1. PICK Q \in SUBSET Live(h) : Q # {} /\ \A e \in Q : h.mnext[e] \in Q
      <4>1. CASE h.mnext[p] = v /\ h.mnext[v] = n
        <5>1. {p, v} \in SUBSET Live(h) /\ \A e \in {p, v} : h.mnext[e] \in {p, v}
          BY <1>1, <2>2, <2>6, <4>1
        <5> QED
          BY <5>1
      <4>2. CASE /\ a \in Live(h) /\ h.mnext[p] = a /\ h.mnext[a] = v
                 /\ h.mnext[v] = n
        <5>1. /\ {p, a, v} \in SUBSET Live(h)
              /\ \A e \in {p, a, v} : h.mnext[e] \in {p, a, v}
          BY <1>1, <2>2, <2>6, <4>2
        <5> QED
          BY <5>1
      <4>3. CASE /\ h.mnext[p] = v
                 /\ b \in Live(h) /\ h.mnext[v] = b /\ h.mnext[b] = n
        <5>1. /\ {p, v, b} \in SUBSET Live(h)
              /\ \A e \in {p, v, b} : h.mnext[e] \in {p, v, b}
          BY <1>1, <2>2, <2>6, <4>3
        <5> QED
          BY <5>1
      <4>4. CASE /\ a \in Live(h) /\ h.mnext[p] = a /\ h.mnext[a] = v
                 /\ b \in Live(h) /\ h.mnext[v] = b /\ h.mnext[b] = n
        <5>1. /\ {p, a, v, b} \in SUBSET Live(h)
              /\ \A e \in {p, a, v, b} : h.mnext[e] \in {p, a, v, b}
          BY <1>1, <2>2, <2>6, <4>4
        <5> QED
          BY <5>1
      <4> QED
        BY <1>6, <1>7, <2>6, <4>1, <4>2, <4>3, <4>4
    <3> QED
      BY <2>1, <3>1
  <2> QED
    BY <2>4, <2>5, <2>6
<1>9. p # NOENTRY => h.size[p] \in Nat /\ h.offset[p] \in Nat
  BY <1>4, <1>6 DEF BusyRegions
<1> QED
  BY <1>3, <1>5, <1>6, <1>7, <1>8, <1>9 DEF Surrounded, hl, hr, p, n

(* The hole an eviction leaves is as large as the victim and the holes     *)
(* beside it.                                                              *)
LEMMA EvictedSize ==
  ASSUME SizesOK, NEW h \in HeapType, Tiled(h), NEW v \in Live(h)
  PROVE  Evict(h, v).size[NewRegion(h, v)]
           = LeftHole(h, v) + h.size[v] + HoleAfter(h, v)
<1> DEFINE r == NewRegion(h, v)
           n == h.mnext[v]
           h1 == IF LeftIsFree(h, v) THEN Absorb(h, r, v) ELSE h
           h2 == IF RightIsFree(h, v) THEN Absorb(h1, r, n) ELSE h1
<1>1. /\ h1 \in HeapType /\ r \in Entries /\ v \in Entries /\ n # r
      /\ h.size \in [Entries -> Nat]
      /\ Live(h1) = (Live(h) \ {v}) \cup {r}
      /\ \A e \in Live(h1) \ {r} : h1.size[e] = h.size[e]
  BY MergeLeft DEF HeapType
<1>2. r # v => LeftIsFree(h, v) /\ r = h.mprev[v]
  BY DEF NewRegion
<1>3. h1.size[r] = LeftHole(h, v) + h.size[v]
  <2>1. CASE LeftIsFree(h, v)
    <3>1. r = h.mprev[v] /\ r \in Live(h) /\ h.mnext[r] = v
      BY <2>1, LeftNeighbour DEF NewRegion, LeftIsFree
    <3>2. r # v
      BY <3>1, Neighbours
    <3>3. h1 = Absorb(h, r, v)
      BY <2>1
    <3> HIDE DEF r, h1
    <3>4. Absorbed(h1, h, r, v)
      BY <1>1, <3>2, <3>3, AbsorbFields
    <3>5. h1.size[r] = h.size[r] + h.size[v]
      BY <1>1, <3>4 DEF Absorbed
    <3> QED
      BY <2>1, <3>1, <3>5 DEF LeftHole
  <2>2. CASE ~LeftIsFree(h, v)
    <3>1. h1 = h /\ r = v /\ LeftHole(h, v) = 0
      BY <2>2 DEF NewRegion, LeftHole
    <3>2. h.size[v] \in Nat
      BY <1>1
    <3> QED
      BY <3>1, <3>2
  <2> QED
    BY <2>1, <2>2
<1>4. h2.size[r] = h1.size[r] + HoleAfter(h, v)
  <2>1. CASE RightIsFree(h, v)
    <3>1. n \in Live(h) /\ n \in Entries
      BY <2>1, RightNeighbour DEF RightIsFree, Live
    <3>2. n # v
      BY <3>1, Neighbours
    <3>3. h2 = Absorb(h1, r, n) /\ n \in Live(h1)
      BY <1>1, <2>1, <3>1, <3>2
    <3> HIDE DEF r, h1, h2, n
    <3>4. Absorbed(h2, h1, r, n)
      BY <1>1, <3>1, <3>3, AbsorbFields
    <3>5. h2.size[r] = h1.size[r] + h1.size[n]
      BY <1>1, <3>4 DEF Absorbed
    <3> QED
      BY <1>1, <2>1, <3>3, <3>5 DEF HoleAfter, n
  <2>2. CASE ~RightIsFree(h, v)
    <3>1. h2 = h1 /\ HoleAfter(h, v) = 0
      BY <2>2 DEF HoleAfter
    <3>2. h1.size[r] \in Nat
      BY <1>1 DEF HeapType
    <3> HIDE DEF h1, h2
    <3> QED
      BY <3>1, <3>2
  <2> QED
    BY <2>1, <2>2
<1>5. Evict(h, v) = [h2 EXCEPT !.type[r] = FREE]
  BY DEF Evict
<1>6. Evict(h, v).size[r] = h2.size[r]
  <2> HIDE DEF h2, r
  <2> QED
    BY <1>5
<1> QED
  BY <1>3, <1>4, <1>6

(* In g the victim v of h has become part of a hole: how that changes the  *)
(* holes next to entries.                                                  *)
HolesMerge(g, h, v, p, n) ==
  LET hole == LeftHole(h, v) + h.size[v] + HoleAfter(h, v)
  IN /\ BusyRegions(g) = BusyRegions(h) \ {v}
     /\ p # NOENTRY => RightHole(g, p) = IF n # NOENTRY THEN hole ELSE 0
     /\ n # NOENTRY => LeftHole(g, n) = hole
     /\ \A f \in BusyRegions(g) :
          /\ f # p => RightHole(g, f) = RightHole(h, f)
          /\ f # n => LeftHole(g, f) = LeftHole(h, f)

LEMMA EvictedHoles ==
  ASSUME SizesOK, NEW h \in HeapType, Tiled(h), Coalesced(h), NEW v \in BusyRegions(h)
  PROVE  HolesMerge(Evict(h, v), h, v, PrevEntry(h, v), NextEntry(h, v))
<1> DEFINE g == Evict(h, v)
           w == NewRegion(h, v)
           m == h.mnext[v]
           p == PrevEntry(h, v)
           n == NextEntry(h, v)
           hole == LeftHole(h, v) + h.size[v] + HoleAfter(h, v)
<1>1. v \in Live(h) /\ h.type[v] = BUSY /\ FREE # BUSY /\ v # NOENTRY
  BY NoEntry DEF BusyRegions, Live, FREE, BUSY
<1>2. /\ g \in HeapType /\ Tiled(g)
      /\ w \in Live(h) /\ w \in Live(g) /\ g.type[w] = FREE
      /\ Live(g) = (Live(h) \ IF RightIsFree(h, v) THEN {v, m} ELSE {v}) \cup {w}
      /\ RightIsFree(h, v) => m \in Live(h) /\ m # w /\ m # v /\ h.type[m] = FREE
      /\ g.mnext[w] = n
      /\ \A e \in Live(g) \ {w} :
           /\ g.mnext[e] = h.mnext[e] /\ g.size[e] = h.size[e]
           /\ g.type[e] = h.type[e]
  BY <1>1, EvictFacts DEF NextEntry, RightIsFree
<1>3. g.size[w] = hole
  BY <1>1, EvictedSize
<1>4. /\ w = v \/ (h.type[w] = FREE /\ w = h.mprev[v] /\ w # v)
      /\ h.mprev[w] = p
  BY <1>1 DEF NewRegion, LeftIsFree, PrevEntry
<1>5. Surrounded(h, v, p, n)
  BY EntriesAround
<1>6. Linked(h) /\ Linked(g) /\ NOENTRY \notin Live(h)
  BY <1>2, NoEntry DEF Tiled, Live
<1>7. \A f \in Live(h) : f \in Entries /\ h.type[f] \in {FREE, BUSY}
  BY DEF Live, HeapType
<1> HIDE DEF g, w, m, p, n, hole
<1>8. BusyRegions(g) = BusyRegions(h) \ {v}
  BY <1>1, <1>2, <1>4 DEF BusyRegions
<1>9. ASSUME NEW f \in BusyRegions(g)
      PROVE  /\ f \in Live(h) /\ f \in Live(g) /\ f # w /\ f # v /\ f # NOENTRY
             /\ g.mnext[f] = h.mnext[f]
             /\ RightIsFree(h, v) => f # m
             /\ f = p <=> h.mnext[f] = w
             /\ f = n <=> g.mprev[f] = w
  <2>1. f \in Live(h) /\ f \in Live(g) /\ f # w /\ f # v /\ f # NOENTRY
    BY <1>1, <1>2, <1>6, <1>8 DEF BusyRegions
  <2>2. g.mnext[f] = h.mnext[f]
    BY <1>2, <2>1
  <2>3. RightIsFree(h, v) => f # m
    BY <1>1, <1>2, <1>8 DEF BusyRegions
  <2>4. f = p <=> h.mnext[f] = w
    BY <1>2, <1>4, <1>6, <2>1 DEF Linked
  <2>5. f = n <=> g.mprev[f] = w
    BY <1>2, <1>6, <2>1 DEF Linked
  <2> QED
    BY <2>1, <2>2, <2>3, <2>4, <2>5
<1>10. ASSUME NEW f \in BusyRegions(g), f # p
       PROVE  RightHole(g, f) = RightHole(h, f)
  <2> DEFINE k == h.mnext[f]
  <2>1. g.mnext[f] = k /\ k # w
    BY <1>9, <1>10
  <2>2. k # NOENTRY => k \in Live(g)
    BY <1>6, <1>9, <2>1 DEF Linked
  <2>3. k # NOENTRY => g.type[k] = h.type[k] /\ g.size[k] = h.size[k]
                       /\ g.mnext[k] = h.mnext[k]
    BY <1>2, <2>1, <2>2
  <2> QED
    BY <2>1, <2>3 DEF RightHole, RightIsFree
<1>11. ASSUME NEW f \in BusyRegions(g), f # n
       PROVE  LeftHole(g, f) = LeftHole(h, f)
  <2> DEFINE k == h.mprev[f]
  <2>1. k # NOENTRY => k \in Live(h) /\ h.mnext[k] = f
    BY <1>6, <1>9 DEF Linked
  <2>2. k # NOENTRY => k # w /\ k # v
    <3>1. h.mnext[v] # f
      BY <1>9, <1>11 DEF NextEntry, n, m
    <3>2. w # v => h.mnext[w] = v
      BY <1>1, <1>2, <1>4, <1>6 DEF Linked
    <3> QED
      BY <1>9, <2>1, <3>1, <3>2
  <2>3. RightIsFree(h, v) => k # m
    BY <1>2, <1>9, <1>11, <2>1, <1>6 DEF NextEntry, n, m
  <2>4. k # NOENTRY => k \in Live(g) \ {w}
    BY <1>2, <2>1, <2>2, <2>3
  <2>5. k # NOENTRY => g.mnext[k] = f /\ g.type[k] = h.type[k] /\ g.size[k] = h.size[k]
    BY <1>2, <2>1, <2>4
  <2>6. g.mprev[f] = k
    <3>1. CASE k # NOENTRY
      BY <1>6, <1>9, <2>4, <2>5, <3>1 DEF Linked
    <3>2. CASE k = NOENTRY
      <4> SUFFICES ASSUME g.mprev[f] # NOENTRY PROVE FALSE
        BY <3>2
      <4>1. g.mprev[f] \in Live(g) /\ g.mnext[g.mprev[f]] = f /\ g.mprev[f] # w
        BY <1>6, <1>9, <1>11 DEF Linked
      <4>2. g.mprev[f] \in Live(h) /\ h.mnext[g.mprev[f]] = f
        BY <1>2, <4>1
      <4> QED
        BY <1>6, <1>9, <3>2, <4>2 DEF Linked
    <3> QED
      BY <3>1, <3>2
  <2> QED
    BY <2>5, <2>6 DEF LeftHole, LeftIsFree
<1>12. ASSUME p # NOENTRY
       PROVE  RightHole(g, p) = IF n # NOENTRY THEN hole ELSE 0
  <2>1. p \in BusyRegions(g)
    BY <1>5, <1>8, <1>12 DEF Surrounded
  <2>2. g.mnext[p] = w /\ w # NOENTRY
    BY <1>2, <1>6, <1>9, <2>1
  <2> QED
    BY <1>2, <1>3, <2>2 DEF RightHole, RightIsFree
<1>13. ASSUME n # NOENTRY
       PROVE  LeftHole(g, n) = hole
  <2>1. n \in BusyRegions(g)
    BY <1>5, <1>8, <1>13 DEF Surrounded
  <2>2. g.mprev[n] = w /\ w # NOENTRY
    BY <1>2, <1>6, <1>9, <2>1
  <2> QED
    BY <1>2, <1>3, <2>2 DEF LeftHole, LeftIsFree
<1> QED
  BY <1>8, <1>10, <1>11, <1>12, <1>13 DEF HolesMerge, g, p, n, hole

(* When an eviction leaves the penalties of the remaining entries right.   *)
LEMMA EvictionRightWhen ==
  ASSUME SizesOK, NEW h \in HeapType, Tiled(h), Coalesced(h), NEW v \in BusyRegions(h)
  PROVE  Updated(Penalties(h), EvictionChange(h, v)) = Penalties(Evict(h, v))
           <=> EvictionRight(h, v)
<1> DEFINE g == Evict(h, v)
           p == PrevEntry(h, v)
           n == NextEntry(h, v)
           hl == LeftHole(h, v)
           hr == HoleAfter(h, v)
           s == h.size[v]
           sv == VictimSize(h, v)
           change == EvictionChange(h, v)
<1>1. /\ s \in Nat /\ h.offset[v] \in Nat
      /\ hl \in Nat /\ hr \in Nat
      /\ p = NOENTRY => h.offset[v] = hl
      /\ p # NOENTRY =>
           /\ p \in BusyRegions(h) /\ p # v
           /\ h.size[p] \in Nat /\ h.offset[p] \in Nat
           /\ h.offset[v] = h.offset[p] + h.size[p] + hl
           /\ RightHole(h, p) = hl
      /\ n # NOENTRY =>
           /\ n \in BusyRegions(h) /\ n # v /\ n # p
           /\ h.offset[n] = h.offset[v] + s + hr
           /\ LeftHole(h, n) = hr
  BY EntriesAround DEF Surrounded
<1>2. /\ BusyRegions(g) = BusyRegions(h) \ {v}
      /\ p # NOENTRY => RightHole(g, p) = IF n # NOENTRY THEN hl + s + hr ELSE 0
      /\ n # NOENTRY => LeftHole(g, n) = hl + s + hr
      /\ \A f \in BusyRegions(g) :
           /\ f # p => RightHole(g, f) = RightHole(h, f)
           /\ f # n => LeftHole(g, f) = LeftHole(h, f)
  BY EvictedHoles DEF HolesMerge
<1>3. g \in HeapType /\ Tiled(g)
  <2>1. v \in Live(h)
    BY DEF BusyRegions
  <2> QED
    BY <2>1, EvictFacts
<1>4. sv = IF LeftIsFree(h, v) THEN s ELSE s + hr
  BY <1>1 DEF VictimSize, HoleAfter
<1>5. ~LeftIsFree(h, v) => hl = 0
  BY DEF LeftHole
<1>6. ASSUME NEW f \in BusyRegions(g)
      PROVE  /\ f \in BusyRegions(h) /\ f # NOENTRY
             /\ Holes(h, f) = LeftHole(h, f) + RightHole(h, f)
             /\ LeftHole(h, f) \in Nat /\ RightHole(h, f) \in Nat
             /\ change[f] =
                  CASE f = p /\ n # NOENTRY -> h.offset[n] - h.offset[v]
                    [] f = p /\ n = NOENTRY ->
                         -(h.offset[v] - h.offset[p] + h.size[p])
                    [] f = n /\ p # NOENTRY ->
                         h.offset[v] + sv - (h.offset[p] + h.size[p])
                    [] f = n /\ p = NOENTRY -> sv
                    [] OTHER -> 0
  <2>1. f \in BusyRegions(h) /\ f \in BusyRegions(h) \ {v}
    BY <1>2
  <2>2. f \in Live(h) /\ f # NOENTRY
    BY <2>1, NoEntry DEF BusyRegions, Live
  <2>3. /\ LeftGap(h, f) = LeftHole(h, f) /\ RightGap(h, f) = RightHole(h, f)
        /\ LeftHole(h, f) \in Nat /\ RightHole(h, f) \in Nat
    BY <2>2, GapsAreHoles
  <2> QED
    BY <2>1, <2>2, <2>3 DEF Holes, EvictionChange, End
<1>7. DOMAIN change = BusyRegions(g)
  BY <1>2 DEF EvictionChange
<1>8. /\ sv \in Nat
      /\ \A f \in BusyRegions(g) : Holes(g, f) = LeftHole(g, f) + RightHole(g, f)
  BY <1>1, <1>4 DEF Holes
<1> HIDE DEF g, p, n, hl, hr, s, sv, change
<1>9. CASE p # NOENTRY /\ n # NOENTRY
  <2> DEFINE error == sv - s
  <2>1. ASSUME NEW f \in BusyRegions(g)
        PROVE  change[f] = Holes(g, f) - Holes(h, f) + (IF f = n THEN error ELSE 0)
    <3>1. CASE f = p
      <4>1. change[f] = h.offset[n] - h.offset[v] /\ f # n
        BY <1>1, <1>6, <1>9, <3>1
      <4> QED
        BY <1>1, <1>2, <1>6, <1>8, <1>9, <3>1, <4>1
    <3>2. CASE f = n
      <4>1. change[f] = h.offset[v] + sv - (h.offset[p] + h.size[p]) /\ f # p
        BY <1>1, <1>6, <1>9, <3>2
      <4> QED
        BY <1>1, <1>2, <1>6, <1>8, <1>9, <3>2, <4>1
    <3>3. CASE f # p /\ f # n
      <4>1. change[f] = 0
        BY <1>6, <3>3
      <4> QED
        BY <1>2, <1>6, <1>8, <3>3, <4>1
    <3> QED
      BY <3>1, <3>2, <3>3
  <2>2. error \in Int /\ n \in BusyRegions(g)
    BY <1>1, <1>2, <1>8, <1>9
  <2>3. error % PenaltyRange = 0 <=> sv % PenaltyRange = s % PenaltyRange
    BY <1>1, <1>8, Remainders
  <2> HIDE DEF error
  <2>4. Updated(Penalties(h), change) = Penalties(g) <=> error % PenaltyRange = 0
    BY <1>3, <1>7, <2>1, <2>2, RightUnless
  <2>5. EvictionRight(h, v) <=> sv % PenaltyRange = s % PenaltyRange
    BY <1>9 DEF EvictionRight, p, n, s, sv
  <2> QED
    BY <2>3, <2>4, <2>5 DEF g, change
<1>10. CASE p # NOENTRY /\ n = NOENTRY
  <2> DEFINE twice == 2 * h.size[p]
             error == -twice
  <2>1. ASSUME NEW f \in BusyRegions(g)
        PROVE  change[f] = Holes(g, f) - Holes(h, f) + (IF f = p THEN error ELSE 0)
    <3>1. CASE f = p
      <4>1. change[f] = -(h.offset[v] - h.offset[p] + h.size[p]) /\ f # n
        BY <1>6, <1>10, <3>1
      <4> QED
        BY <1>1, <1>2, <1>6, <1>8, <1>10, <3>1, <4>1
    <3>2. CASE f # p
      <4>1. change[f] = 0 /\ f # n
        BY <1>6, <1>10, <3>2
      <4> QED
        BY <1>2, <1>6, <1>8, <3>2, <4>1
    <3> QED
      BY <3>1, <3>2
  <2>2. error \in Int /\ twice \in Nat /\ p \in BusyRegions(g)
    BY <1>1, <1>2, <1>10
  <2>3. EvictionRight(h, v) <=> twice % PenaltyRange = 0 % PenaltyRange
    BY <1>10 DEF EvictionRight, p, n
  <2> HIDE DEF twice
  <2>4. error % PenaltyRange = 0 <=> twice % PenaltyRange = 0 % PenaltyRange
    BY <2>2, Remainders
  <2> HIDE DEF error
  <2>5. Updated(Penalties(h), change) = Penalties(g) <=> error % PenaltyRange = 0
    BY <1>3, <1>7, <2>1, <2>2, RightUnless
  <2> QED
    BY <2>3, <2>4, <2>5 DEF g, change
<1>11. CASE p = NOENTRY /\ n # NOENTRY
  <2> DEFINE there == s + h.offset[v]
             error == sv - there
  <2>1. ASSUME NEW f \in BusyRegions(g)
        PROVE  change[f] = Holes(g, f) - Holes(h, f) + (IF f = n THEN error ELSE 0)
    <3>1. CASE f = n
      <4>1. change[f] = sv /\ f # p
        BY <1>6, <1>11, <3>1
      <4> QED
        BY <1>1, <1>2, <1>6, <1>8, <1>11, <3>1, <4>1
    <3>2. CASE f # n
      <4>1. change[f] = 0 /\ f # p
        BY <1>6, <1>11, <3>2
      <4> QED
        BY <1>2, <1>6, <1>8, <3>2, <4>1
    <3> QED
      BY <3>1, <3>2
  <2>2. error \in Int /\ there \in Nat /\ n \in BusyRegions(g)
    BY <1>1, <1>2, <1>8, <1>11
  <2>3. EvictionRight(h, v) <=> sv % PenaltyRange = there % PenaltyRange
    BY <1>11 DEF EvictionRight, p, n, s, sv
  <2> HIDE DEF there
  <2>4. error % PenaltyRange = 0 <=> sv % PenaltyRange = there % PenaltyRange
    BY <1>8, <2>2, Remainders
  <2> HIDE DEF error
  <2>5. Updated(Penalties(h), change) = Penalties(g) <=> error % PenaltyRange = 0
    BY <1>3, <1>7, <2>1, <2>2, RightUnless
  <2> QED
    BY <2>3, <2>4, <2>5 DEF g, change
<1>12. CASE p = NOENTRY /\ n = NOENTRY
  <2>1. ASSUME NEW f \in BusyRegions(g)
        PROVE  change[f] = Holes(g, f) - Holes(h, f)
    <3>1. change[f] = 0 /\ f # p /\ f # n
      BY <1>6, <1>12
    <3> QED
      BY <1>2, <1>6, <1>8, <3>1
  <2>2. Updated(Penalties(h), change) = Penalties(g)
    BY <1>3, <1>7, <2>1, RightAfter
  <2>3. EvictionRight(h, v)
    BY <1>12 DEF EvictionRight, p, n
  <2> QED
    BY <2>2, <2>3 DEF g, change
<1> QED
  BY <1>9, <1>10, <1>11, <1>12

(* An eviction leaves wrong penalties except in the cases listed, whatever *)
(* the buffer holds.                                                       *)
THEOREM EvictionPenaltiesAlwaysRightWhen == Spec => []EvictionPenaltiesRightWhen
<1>1. HeapInv => EvictionPenaltiesRightWhen
  <2> SUFFICES ASSUME HeapInv, NEW v \in table
               PROVE  Updated(Penalties(heap), EvictionChange(heap, v))
                          = Penalties(Evict(heap, v))
                        <=> EvictionRight(heap, v)
    BY DEF EvictionPenaltiesRightWhen
  <2>1. /\ SizesOK /\ heap \in HeapType /\ Tiled(heap) /\ Coalesced(heap)
        /\ v \in BusyRegions(heap)
    BY DEF HeapInv
  <2> QED
    BY <2>1, EvictionRightWhen
<1> QED
  BY <1>1, HeapInvariance, PTL

===============================================================================
