--------------------------- MODULE CuckooTable_proofs ---------------------------
(***************************************************************************)
(* The hash table keeps every entry where lookup and removal look for it,  *)
(* whatever its size, the hash functions, the limit of displacements and   *)
(* the history: the theorems of module CuckooTable.                        *)
(*                                                                         *)
(* InTable is the invariant, relative to a set of entries: while entries   *)
(* are displaced it holds of all but the one that has no slot.  That there *)
(* is none in the end is EndsAtHole: ht_insert makes its displacements     *)
(* along the path ht_insert_check has walked, on which a slot is empty, or *)
(* has been emptied since; until the first such slot the path meets no     *)
(* slot twice, so that the displacements already made do not change it.    *)
(*                                                                         *)
(* The path and the displacements are recursive functions.  The first      *)
(* lemmas say what such a function is, by induction over the naturals,     *)
(* which rests on the ordering of finite sets being well founded.          *)
(***************************************************************************)
EXTENDS CuckooTable, FiniteSetTheorems, WellFoundedInduction, TLAPS

(* A set of naturals has a least element.                                  *)
LEMMA LeastNatural ==
  ASSUME NEW T \in SUBSET Nat, T # {}
  PROVE  \E x \in T : \A y \in T : x <= y
<1> DEFINE R == StrictSubsetOrdering(Nat)
           F == FiniteSubsetsOf(Nat)
           U == {0 .. m : m \in T}
<1>1. IsWellFoundedOn(R, F)
  BY FS_StrictSubsetOrderingWellFounded
<1>2. U \subseteq F /\ U # {}
  <2>1. ASSUME NEW m \in T
        PROVE  0 .. m \in F
    <3>1. IsFiniteSet(0 .. m)
      BY FS_Interval
    <3> QED
      BY <3>1 DEF FiniteSubsetsOf
  <2> QED
    BY <2>1
<1> HIDE DEF R, F, U
<1>3. PICK u \in U : \A w \in U : <<w, u>> \notin R
  BY <1>1, <1>2, WFMin
<1>4. PICK x \in T : u = 0 .. x
  BY DEF U
<1>5. ASSUME NEW y \in T, y < x
      PROVE  FALSE
  <2>1. 0 .. y \in U
    BY DEF U
  <2>2. 0 .. y \subseteq 0 .. x /\ x \in 0 .. x /\ x \notin 0 .. y
    BY <1>5
  <2>3. <<0 .. y, 0 .. x>> \in R
    BY <2>2 DEF R, StrictSubsetOrdering
  <2> QED
    BY <1>3, <1>4, <2>1, <2>3
<1> QED
  BY <1>5

(* Induction, for a set of naturals.                                       *)
LEMMA AllNaturals ==
  ASSUME NEW T \in SUBSET Nat, 0 \in T, \A n \in T : n + 1 \in T
  PROVE  T = Nat
<1> SUFFICES ASSUME Nat \ T # {}
             PROVE  FALSE
  OBVIOUS
<1>1. PICK x \in Nat \ T : \A y \in Nat \ T : x <= y
  BY LeastNatural
<1>2. x - 1 \in T
  BY <1>1
<1> QED
  BY <1>1, <1>2

(* What is done again and again can be done any number of times.           *)
LEMMA Iteration ==
  ASSUME NEW S, NEW a \in S, NEW F \in [S -> S]
  PROVE  \E g \in [Nat -> S] : g[0] = a /\ \A n \in Nat : g[n + 1] = F[g[n]]
<1> DEFINE Upto(n) == {h \in [0 .. n -> S] :
                         h[0] = a /\ \A i \in 0 .. (n - 1) : h[i + 1] = F[h[i]]}
           T == {n \in Nat : Upto(n) # {}}
<1>1. 0 \in T
  <2>1. [i \in 0 .. 0 |-> a] \in Upto(0)
    OBVIOUS
  <2> QED
    BY <2>1
<1>2. ASSUME NEW n \in T
      PROVE  n + 1 \in T
  <2>1. PICK h \in Upto(n) : TRUE
    OBVIOUS
  <2> DEFINE k == [i \in 0 .. (n + 1) |-> IF i = n + 1 THEN F[h[n]] ELSE h[i]]
  <2>2. k \in [0 .. (n + 1) -> S] /\ k[0] = a
    OBVIOUS
  <2>3. \A i \in 0 .. n : k[i + 1] = F[k[i]]
    OBVIOUS
  <2>4. k \in Upto(n + 1)
    BY <2>2, <2>3
  <2> QED
    BY <2>4
<1>3. T = Nat
  <2> HIDE DEF T
  <2>1. T \in SUBSET Nat
    BY DEF T
  <2> QED
    BY <1>1, <1>2, <2>1, AllNaturals
<1>4. ASSUME NEW n \in Nat, NEW h \in Upto(n), NEW k \in Upto(n + 1)
      PROVE  h[n] = k[n]
  <2> DEFINE E == {i \in Nat : i <= n => h[i] = k[i]}
  <2>1. E \in SUBSET Nat /\ 0 \in E
    OBVIOUS
  <2>2. ASSUME NEW i \in E
        PROVE  i + 1 \in E
    OBVIOUS
  <2>3. E = Nat
    <3> HIDE DEF E
    <3> QED
      BY <2>1, <2>2, AllNaturals
  <2> QED
    BY <2>3
<1> DEFINE best == [n \in Nat |-> CHOOSE h \in Upto(n) : TRUE]
           g == [n \in Nat |-> best[n][n]]
<1>5. \A n \in Nat : best[n] \in Upto(n)
  <2> HIDE DEF Upto
  <2> QED
    BY <1>3
<1> HIDE DEF best
<1>6. g \in [Nat -> S] /\ g[0] = a
  BY <1>5
<1>7. ASSUME NEW n \in Nat
      PROVE  g[n + 1] = F[g[n]]
  <2>1. best[n] \in Upto(n) /\ best[n + 1] \in Upto(n + 1)
    BY <1>5
  <2>2. best[n][n] = best[n + 1][n]
    BY <1>4, <2>1
  <2>3. best[n + 1][n + 1] = F[best[n + 1][n]]
    BY <2>1
  <2> QED
    BY <2>2, <2>3
<1> QED
  BY <1>6, <1>7

-----------------------------------------------------------------------------
(* A key has a slot in each table, which tells the table.                  *)
LEMMA SlotFacts ==
  ASSUME NEW t \in Tables, NEW k \in Keys
  PROVE  /\ SlotOf(t, k) \in Slots /\ SlotOf(t, k) % CL_CUCKOO_TABLES = t
         /\ NextTable(t) \in Tables
<1>1. t \in 0 .. 3
  BY DEF Tables, CL_CUCKOO_TABLES
<1>2. /\ HtEntries \in Nat /\ Hash(t, k) \in Nat
      /\ Hash(t, k) <= (HtEntries \div 4) - 1
  BY HtEntriesAssumption, HashAssumption DEF CL_CUCKOO_TABLES
<1> HIDE DEF Tables
<1> DEFINE h == Hash(t, k)
<1>3. h * 4 + t \in 0 .. (HtEntries - 1) /\ (h * 4 + t) % 4 = t
  <2> HIDE DEF h
  <2>1. h \in Nat /\ h <= (HtEntries \div 4) - 1
    BY <1>2 DEF h
  <2> QED
    BY <1>1, <1>2, <2>1
<1> QED
  BY <1>1, <1>3 DEF SlotOf, Slots, NextTable, Tables, CL_CUCKOO_TABLES

LEMMA NextFacts ==
  ASSUME NEW s \in Slots
  PROVE  s % CL_CUCKOO_TABLES \in Tables /\ NextTable(s % CL_CUCKOO_TABLES) \in Tables
BY HtEntriesAssumption DEF Slots, Tables, NextTable, CL_CUCKOO_TABLES

-----------------------------------------------------------------------------
SlotsType == [Slots -> Entries \cup {None}]
IndexType == [Entries -> Slots \cup {None}]

(* In slots sl, with the htindex fields ht and the keys info, the entries  *)
(* of set S and no others are in their places.                             *)
InTable(sl, ht, info, S) ==
  /\ sl \in SlotsType /\ ht \in IndexType
  /\ \A e \in S :
       /\ ht[e] \in Slots /\ sl[ht[e]] = e
       /\ ht[e] = SlotOf(ht[e] % CL_CUCKOO_TABLES, info[e])
  /\ \A s \in Slots : sl[s] # None => sl[s] \in S /\ ht[sl[s]] = s

TableInv ==
  get_info \in [Entries -> Keys \cup {None}] /\ InTable(slot, htindex, get_info, Indexed)

(* The victim leaves its slot.                                             *)
LEMMA RemovedKeeps ==
  ASSUME TableInv, NEW v \in Indexed \cup {None}
  PROVE  /\ InTable(Removed(slot, v), htindex, get_info, Indexed \ {v})
         /\ \A s \in Slots : /\ Removed(slot, v)[s] \in {slot[s], None}
                             /\ v # None /\ slot[s] = v => Removed(slot, v)[s] = None
<1>1. CASE v = None
  BY <1>1, NoneAssumption DEF TableInv, InTable, Removed, Indexed
<1>2. CASE v \in Indexed
  <2>1. v \in Entries /\ v # None /\ htindex[v] \in Slots /\ slot[htindex[v]] = v
    BY <1>2, NoneAssumption DEF TableInv, InTable, Indexed
  <2>2. Removed(slot, v) = [slot EXCEPT ![htindex[v]] = None]
    BY <2>1 DEF Removed
  <2> QED
    BY <2>1, <2>2 DEF TableInv, InTable, SlotsType
<1> QED
  BY <1>1, <1>2

-----------------------------------------------------------------------------
(* While ht_insert displaces entries, all entries of S but the one         *)
(* displaced last are in their places.                                     *)
Turning(info, S, p) ==
  /\ p \in [slot : SlotsType, htindex : IndexType,
            victim : S \cup {None}, table : Tables]
  /\ InTable(p.slot, p.htindex, info, S \ {p.victim})

LEMMA DisplaceKeeps ==
  ASSUME NEW S \in SUBSET Entries, NEW info, \A f \in S : info[f] \in Keys,
         NEW p, Turning(info, S, p)
  PROVE  Turning(info, S, Displace(info, p))
<1>1. CASE p.victim = None
  BY <1>1 DEF Displace
<1>2. CASE p.victim # None
  <2> DEFINE x == p.victim
             s == SlotOf(NextTable(p.table), info[x])
             y == p.slot[s]
             q == Displace(info, p)
  <2>1. /\ x \in S /\ x \in Entries /\ p.table \in Tables
        /\ p.slot \in SlotsType /\ p.htindex \in IndexType
    BY <1>2 DEF Turning
  <2>2. /\ s \in Slots /\ s % CL_CUCKOO_TABLES = NextTable(p.table)
        /\ NextTable(p.table) \in Tables
    <3>1. NextTable(p.table) \in Tables
      BY <2>1 DEF NextTable, Tables, CL_CUCKOO_TABLES
    <3> QED
      BY <2>1, <3>1, SlotFacts
  <2>3. q = [slot |-> [p.slot EXCEPT ![s] = x],
             htindex |-> [p.htindex EXCEPT ![x] = s],
             victim |-> y, table |-> NextTable(p.table)]
    BY <1>2 DEF Displace
  <2>4. y = None \/ (y \in S /\ y # x /\ p.htindex[y] = s)
    BY <2>2 DEF Turning, InTable
  <2>5. /\ q.slot \in SlotsType /\ q.htindex \in IndexType
        /\ q.victim \in S \cup {None} /\ q.table \in Tables
    BY <2>1, <2>2, <2>3, <2>4 DEF SlotsType, IndexType
  <2> HIDE DEF s, y, q
  <2>6. ASSUME NEW f \in S \ {y}
        PROVE  /\ q.htindex[f] \in Slots /\ q.slot[q.htindex[f]] = f
               /\ q.htindex[f] = SlotOf(q.htindex[f] % CL_CUCKOO_TABLES, info[f])
    <3>1. CASE f = x
      <4>1. q.htindex[x] = s /\ q.slot[s] = x
        BY <2>1, <2>2, <2>3 DEF SlotsType, IndexType
      <4> QED
        BY <2>2, <3>1, <4>1 DEF s
    <3>2. CASE f # x
      <4>1. /\ p.htindex[f] \in Slots /\ p.slot[p.htindex[f]] = f
            /\ p.htindex[f] = SlotOf(p.htindex[f] % CL_CUCKOO_TABLES, info[f])
        BY <3>2 DEF Turning, InTable
      <4>2. p.htindex[f] # s
        BY <4>1 DEF y
      <4>3. q.htindex[f] = p.htindex[f] /\ q.slot[p.htindex[f]] = f
        BY <2>1, <2>3, <3>2, <4>1, <4>2 DEF SlotsType, IndexType
      <4> QED
        BY <4>1, <4>3
    <3> QED
      BY <3>1, <3>2
  <2>7. ASSUME NEW r \in Slots, q.slot[r] # None
        PROVE  q.slot[r] \in S \ {y} /\ q.htindex[q.slot[r]] = r
    <3>1. CASE r = s
      <4>1. q.slot[r] = x /\ q.htindex[x] = s
        BY <2>1, <2>2, <2>3, <3>1 DEF SlotsType, IndexType
      <4> QED
        BY <1>2, <2>1, <2>4, <3>1, <4>1
    <3>2. CASE r # s
      <4>1. q.slot[r] = p.slot[r]
        BY <2>1, <2>3, <3>2 DEF SlotsType
      <4>2. p.slot[r] \in S /\ p.slot[r] # x /\ p.htindex[p.slot[r]] = r
        BY <2>7, <4>1 DEF Turning, InTable
      <4>3. q.htindex[p.slot[r]] = r
        BY <2>1, <2>3, <4>2 DEF IndexType
      <4>4. p.slot[r] # y
        BY <2>4, <2>7, <3>2, <4>1, <4>2
      <4> QED
        BY <4>1, <4>2, <4>3, <4>4
    <3> QED
      BY <3>1, <3>2
  <2>8. q.victim = y
    BY <2>3
  <2>9. InTable(q.slot, q.htindex, info, S \ {q.victim})
    BY <2>5, <2>6, <2>7, <2>8 DEF InTable
  <2>10. q \in [slot : SlotsType, htindex : IndexType,
                victim : S \cup {None}, table : Tables]
    BY <2>3, <2>5
  <2> QED
    BY <2>9, <2>10 DEF Turning, q
<1> QED
  BY <1>1, <1>2

(* The turns of ht_insert are displacements one after the other.           *)
LEMMA TurnsFacts ==
  ASSUME NEW S \in SUBSET Entries, NEW info, \A f \in S : info[f] \in Keys,
         NEW first, Turning(info, S, first)
  PROVE  /\ Turns(info, first)[0] = first
         /\ \A n \in Nat :
              /\ Turns(info, first)[n + 1] = Displace(info, Turns(info, first)[n])
              /\ Turning(info, S, Turns(info, first)[n])
<1> DEFINE P == {p \in [slot : SlotsType, htindex : IndexType,
                        victim : S \cup {None}, table : Tables] :
                   Turning(info, S, p)}
           F == [p \in P |-> Displace(info, p)]
<1>1. \A p : Turning(info, S, p) <=> p \in P
  BY DEF Turning
<1>2. \A p \in P : Displace(info, p) \in P
  BY <1>1, DisplaceKeeps
<1> HIDE DEF P
<1>3. F \in [P -> P] /\ first \in P
  BY <1>1, <1>2
<1>4. PICK g \in [Nat -> P] : g[0] = first /\ \A n \in Nat : g[n + 1] = F[g[n]]
  <2> HIDE DEF F
  <2> QED
    BY <1>3, Iteration
<1>5. g = [n \in Nat |-> IF n = 0 THEN first ELSE Displace(info, g[n - 1])]
  <2>1. ASSUME NEW n \in Nat, n # 0
        PROVE  g[n] = Displace(info, g[n - 1])
    <3>1. n - 1 \in Nat /\ (n - 1) + 1 = n
      BY <2>1
    <3>2. g[n] = F[g[n - 1]] /\ g[n - 1] \in P
      BY <1>4, <3>1
    <3> QED
      BY <3>2
  <2> QED
    BY <1>4, <2>1
<1> DEFINE p == Turns(info, first)
<1>6. p = [n \in Nat |-> IF n = 0 THEN first ELSE Displace(info, p[n - 1])]
  BY <1>5 DEF Turns
<1> HIDE DEF p
<1>7. p[0] = first /\ \A n \in Nat : p[n + 1] = Displace(info, p[n])
  <2>1. \A n \in Nat : p[n] = IF n = 0 THEN first ELSE Displace(info, p[n - 1])
    BY <1>6
  <2>2. p[0] = first
    BY <2>1
  <2>3. ASSUME NEW n \in Nat
        PROVE  p[n + 1] = Displace(info, p[n])
    <3>1. n + 1 \in Nat /\ n + 1 # 0 /\ (n + 1) - 1 = n
      OBVIOUS
    <3> QED
      BY <2>1, <3>1
  <2> QED
    BY <2>2, <2>3
<1> DEFINE T == {n \in Nat : p[n] \in P}
<1>8. T = Nat
  <2>1. T \in SUBSET Nat /\ 0 \in T /\ \A n \in T : n + 1 \in T
    BY <1>2, <1>3, <1>7
  <2> HIDE DEF T
  <2> QED
    BY <2>1, AllNaturals
<1> QED
  BY <1>1, <1>7, <1>8 DEF p

(* The walk of ht_insert_check goes from slot to slot.                     *)
LEMMA PathFacts ==
  ASSUME TableInv, NEW s \in Slots
  PROVE  /\ Path(s)[0] = s
         /\ \A n \in Nat : /\ Path(s)[n] \in Slots
                           /\ Path(s)[n + 1] = After(Path(s)[n])
<1> DEFINE F == [r \in Slots |-> After(r)]
<1>1. ASSUME NEW r \in Slots
      PROVE  After(r) \in Slots
  <2>1. CASE slot[r] = None
    BY <2>1 DEF After
  <2>2. CASE slot[r] # None
    <3>1. get_info[slot[r]] \in Keys
      BY <2>2 DEF TableInv, InTable, Indexed
    <3>2. NextTable(r % CL_CUCKOO_TABLES) \in Tables
      BY NextFacts
    <3>3. SlotOf(NextTable(r % CL_CUCKOO_TABLES), get_info[slot[r]]) \in Slots
      BY <3>1, <3>2, SlotFacts
    <3> QED
      BY <2>2, <3>3 DEF After
  <2> QED
    BY <2>1, <2>2
<1>2. F \in [Slots -> Slots]
  BY <1>1
<1>3. PICK g \in [Nat -> Slots] : g[0] = s /\ \A n \in Nat : g[n + 1] = F[g[n]]
  <2> HIDE DEF F
  <2> QED
    BY <1>2, Iteration
<1>4. g = [n \in Nat |-> IF n = 0 THEN s ELSE After(g[n - 1])]
  <2>1. ASSUME NEW n \in Nat, n # 0
        PROVE  g[n] = After(g[n - 1])
    <3>1. n - 1 \in Nat /\ (n - 1) + 1 = n
      BY <2>1
    <3>2. g[n] = F[g[n - 1]] /\ g[n - 1] \in Slots
      BY <1>3, <3>1
    <3> QED
      BY <3>2
  <2> QED
    BY <1>3, <2>1
<1> DEFINE p == Path(s)
<1>5. p = [n \in Nat |-> IF n = 0 THEN s ELSE After(p[n - 1])]
  BY <1>4 DEF Path
<1> HIDE DEF p
<1>6. p[0] = s /\ \A n \in Nat : p[n + 1] = After(p[n])
  <2>1. \A n \in Nat : p[n] = IF n = 0 THEN s ELSE After(p[n - 1])
    BY <1>5
  <2>2. p[0] = s
    BY <2>1
  <2>3. ASSUME NEW n \in Nat
        PROVE  p[n + 1] = After(p[n])
    <3>1. n + 1 \in Nat /\ n + 1 # 0 /\ (n + 1) - 1 = n
      OBVIOUS
    <3> QED
      BY <2>1, <3>1
  <2> QED
    BY <2>2, <2>3
<1> DEFINE T == {n \in Nat : p[n] \in Slots}
<1>7. T = Nat
  <2>1. T \in SUBSET Nat /\ 0 \in T /\ \A n \in T : n + 1 \in T
    BY <1>1, <1>6
  <2> HIDE DEF T
  <2> QED
    BY <2>1, AllNaturals
<1> QED
  BY <1>6, <1>7 DEF p

(* Of the slots sl, which are those of the table but for some that have    *)
(* been emptied, let m be the first on the path from s that is empty: no   *)
(* slot comes twice on the path before it.                                 *)
LEMMA NoneTwice ==
  ASSUME TableInv, NEW s \in Slots, NEW sl,
         NEW m \in Nat, sl[Path(s)[m]] = None,
         \A n \in Nat : n < m => sl[Path(s)[n]] # None,
         NEW i \in Nat, NEW j \in Nat, i < j, j <= m
  PROVE  Path(s)[i] # Path(s)[j]
<1> DEFINE p == Path(s)
<1> SUFFICES ASSUME p[i] = p[j]
             PROVE  FALSE
  OBVIOUS
<1>1. \A n \in Nat : p[n + 1] = After(p[n])
  BY PathFacts
<1> HIDE DEF p
<1> DEFINE T == {d \in Nat : p[i + d] = p[j + d]}
<1>2. 0 \in T
  OBVIOUS
<1>3. ASSUME NEW d \in T
      PROVE  d + 1 \in T
  <2>1. /\ i + d \in Nat /\ i + (d + 1) = (i + d) + 1
        /\ j + d \in Nat /\ j + (d + 1) = (j + d) + 1
    OBVIOUS
  <2>2. p[i + (d + 1)] = p[j + (d + 1)]
    BY <1>1, <2>1
  <2> QED
    BY <2>2
<1>4. T = Nat
  <2>1. T \in SUBSET Nat
    OBVIOUS
  <2> HIDE DEF T
  <2> QED
    BY <1>2, <1>3, <2>1, AllNaturals
<1>5. m - j \in Nat /\ j + (m - j) = m /\ i + (m - j) \in Nat /\ i + (m - j) < m
  OBVIOUS
<1>6. p[i + (m - j)] = p[m]
  BY <1>4, <1>5
<1> QED
  BY <1>5, <1>6 DEF p

(* The record of the displacements p, when the entry has taken slot s of   *)
(* the slots sl and displaced none yet but the one that was there.         *)
Starts(sl, s, p) ==
  /\ s \in Slots /\ p.victim = sl[s] /\ p.table = s % CL_CUCKOO_TABLES
  /\ \A r \in Slots : r # s => p.slot[r] = sl[r]

(* ht_insert, once it has put its entry in slot s, makes its displacements *)
(* along that path, and the one that would come after the empty slot moves *)
(* nothing.                                                                *)
LEMMA EndsAtHole ==
  ASSUME TableInv, NEW s \in Slots,
         NEW sl \in SlotsType, \A r \in Slots : sl[r] \in {slot[r], None},
         \E n \in 0 .. MaxInsert : sl[Path(s)[n]] = None,
         NEW S \in SUBSET Entries, NEW info, \A f \in S : info[f] \in Keys,
         \A r \in Slots : sl[r] # None => info[sl[r]] = get_info[sl[r]],
         NEW first, Turning(info, S, first), Starts(sl, s, first)
  PROVE  Turns(info, first)[MaxInsert].victim = None
<1> DEFINE p == Path(s)
           q == Turns(info, first)
<1>1. /\ p[0] = s
      /\ \A n \in Nat : p[n] \in Slots /\ p[n + 1] = After(p[n])
  BY PathFacts
<1>2. /\ q[0] = first
      /\ \A n \in Nat : q[n + 1] = Displace(info, q[n]) /\ Turning(info, S, q[n])
  BY TurnsFacts
<1>3. PICK m \in Nat : /\ m <= MaxInsert /\ sl[p[m]] = None
                       /\ \A n \in Nat : n < m => sl[p[n]] # None
  <2> DEFINE T == {n \in Nat : sl[p[n]] = None}
  <2>1. PICK h \in 0 .. MaxInsert : sl[p[h]] = None
    OBVIOUS
  <2>2. h \in Nat /\ h <= MaxInsert
    BY MaxInsertAssumption
  <2>3. h \in T /\ T \in SUBSET Nat
    BY <2>1, <2>2
  <2>4. PICK m \in T : \A y \in T : m <= y
    <3> HIDE DEF T
    <3> QED
      BY <2>3, LeastNatural
  <2>5. m \in Nat /\ sl[p[m]] = None /\ m <= h
    BY <2>3, <2>4
  <2>6. ASSUME NEW n \in Nat, n < m
        PROVE  sl[p[n]] # None
    BY <2>4, <2>6
  <2> QED
    BY <2>2, <2>5, <2>6, MaxInsertAssumption
<1>4. ASSUME NEW i \in Nat, NEW j \in Nat, i < j, j <= m
      PROVE  p[i] # p[j]
  BY <1>3, <1>4, NoneTwice
<1>5. ASSUME NEW n \in Nat, n < m
      PROVE  /\ sl[p[n]] # None
             /\ p[n + 1] = SlotOf(NextTable(p[n] % CL_CUCKOO_TABLES), info[sl[p[n]]])
             /\ p[n + 1] % CL_CUCKOO_TABLES = NextTable(p[n] % CL_CUCKOO_TABLES)
  <2>1. sl[p[n]] # None /\ p[n] \in Slots
    BY <1>1, <1>3, <1>5
  <2>2. slot[p[n]] = sl[p[n]] /\ info[sl[p[n]]] = get_info[slot[p[n]]]
    BY <2>1
  <2>3. get_info[slot[p[n]]] \in Keys
    BY <2>1, <2>2 DEF TableInv, InTable, Indexed
  <2>4. p[n + 1] = SlotOf(NextTable(p[n] % CL_CUCKOO_TABLES), get_info[slot[p[n]]])
    BY <1>1, <2>1, <2>2 DEF After
  <2>5. NextTable(p[n] % CL_CUCKOO_TABLES) \in Tables
    BY <2>1, NextFacts
  <2>6. SlotOf(NextTable(p[n] % CL_CUCKOO_TABLES), get_info[slot[p[n]]])
          % CL_CUCKOO_TABLES = NextTable(p[n] % CL_CUCKOO_TABLES)
    BY <2>3, <2>5, SlotFacts
  <2> QED
    BY <2>1, <2>2, <2>4, <2>6
<1> HIDE DEF p, q
<1> DEFINE Along(n) ==
             /\ q[n].victim = sl[p[n]] /\ q[n].table = p[n] % CL_CUCKOO_TABLES
             /\ \A r \in Slots :
                  (\A i \in Nat : i <= n => r # p[i]) => q[n].slot[r] = sl[r]
           T == {n \in Nat : n <= m => Along(n)}
<1>6. 0 \in T
  <2>1. 0 \in Nat /\ 0 <= 0
    OBVIOUS
  <2> QED
    BY <1>1, <1>2, <2>1 DEF Starts
<1>7. ASSUME NEW n \in T
      PROVE  n + 1 \in T
  <2> SUFFICES ASSUME n + 1 <= m
               PROVE  Along(n + 1)
    OBVIOUS
  <2>1. n \in Nat /\ n < m /\ n + 1 \in Nat /\ Along(n)
    BY <1>3
  <2> HIDE DEF T
  <2>2. q[n].victim = sl[p[n]] /\ sl[p[n]] # None
    BY <1>5, <2>1
  <2>3. SlotOf(NextTable(q[n].table), info[q[n].victim]) = p[n + 1]
    BY <1>5, <2>1
  <2>4. q[n + 1] = [slot    |-> [q[n].slot EXCEPT ![p[n + 1]] = q[n].victim],
                    htindex |-> [q[n].htindex EXCEPT ![q[n].victim] = p[n + 1]],
                    victim  |-> q[n].slot[p[n + 1]],
                    table   |-> NextTable(q[n].table)]
    BY <1>2, <2>1, <2>2, <2>3 DEF Displace
  <2>5. q[n].slot[p[n + 1]] = sl[p[n + 1]]
    <3>1. \A i \in Nat : i <= n => p[n + 1] # p[i]
      BY <1>4, <2>1
    <3> QED
      BY <1>1, <2>1, <3>1
  <2>6. q[n + 1].victim = sl[p[n + 1]]
    BY <2>4, <2>5
  <2>7. q[n + 1].table = p[n + 1] % CL_CUCKOO_TABLES
    BY <1>5, <2>1, <2>4
  <2>8. ASSUME NEW r \in Slots, \A i \in Nat : i <= n + 1 => r # p[i]
        PROVE  q[n + 1].slot[r] = sl[r]
    <3>1. r # p[n + 1] /\ \A i \in Nat : i <= n => r # p[i]
      BY <2>1, <2>8
    <3>2. q[n].slot[r] = sl[r]
      BY <2>1, <3>1
    <3>3. q[n].slot \in SlotsType
      BY <1>2, <2>1 DEF Turning
    <3> QED
      BY <2>4, <3>1, <3>2, <3>3 DEF SlotsType
  <2> QED
    BY <2>6, <2>7, <2>8
<1>8. q[m].victim = None
  <2>1. T \in SUBSET Nat
    OBVIOUS
  <2>2. T = Nat
    <3> HIDE DEF T
    <3> QED
      BY <1>6, <1>7, <2>1, AllNaturals
  <2>3. Along(m)
    BY <2>2
  <2> QED
    BY <1>3, <2>3
<1> DEFINE U == {n \in Nat : m <= n => q[n].victim = None}
<1>9. 0 \in U
  BY <1>8
<1>10. ASSUME NEW n \in U
       PROVE  n + 1 \in U
  <2>1. CASE m <= n
    <3>1. n \in Nat /\ n + 1 \in Nat /\ q[n].victim = None
      BY <2>1
    <3>2. q[n + 1] = Displace(info, q[n])
      BY <1>2, <3>1
    <3>3. q[n + 1] = q[n]
      BY <3>1, <3>2 DEF Displace
    <3> QED
      BY <3>1, <3>3
  <2>2. CASE ~ m <= n
    <3>1. n + 1 = m \/ ~ m <= n + 1
      BY <1>3, <2>2
    <3> QED
      BY <1>8, <3>1
  <2> QED
    BY <2>1, <2>2
<1>11. U = Nat
  <2>1. U \in SUBSET Nat
    OBVIOUS
  <2> HIDE DEF U
  <2> QED
    BY <1>9, <1>10, <2>1, AllNaturals
<1> QED
  BY <1>3, <1>11, MaxInsertAssumption DEF q

(* ht_insert puts the new entry in its slot before it displaces any.       *)
FirstSlot(sl, t, k) ==
  IF sl[SlotOf(t, k)] = None THEN SlotOf(t, k) ELSE SlotOf(NextTable(t), k)

LEMMA FirstKeeps ==
  ASSUME NEW S \in SUBSET Entries, NEW e \in S, NEW info, info[e] \in Keys,
         NEW sl, InTable(sl, htindex, info, S \ {e}), NEW t \in Tables,
         NEW p, p = First(sl, info, t, e, 1),
         NEW s, s = FirstSlot(sl, t, info[e])
  PROVE  Turning(info, S, p) /\ Starts(sl, s, p)
<1> DEFINE u == IF sl[SlotOf(t, info[e])] = None THEN t ELSE NextTable(t)
           x == sl[s]
<1>1. u \in Tables /\ NextTable(t) \in Tables /\ NextTable(t) # t
  BY DEF NextTable, Tables, CL_CUCKOO_TABLES
<1>2. s = SlotOf(u, info[e])
  BY DEF FirstSlot
<1>3. s \in Slots /\ s % CL_CUCKOO_TABLES = u
  <2> HIDE DEF u
  <2> QED
    BY <1>1, <1>2, SlotFacts
<1>4. p = [slot |-> [sl EXCEPT ![s] = e], htindex |-> [htindex EXCEPT ![e] = s],
           victim |-> x, table |-> u]
  BY <1>2 DEF First, Stamped
<1>5. sl \in SlotsType /\ htindex \in IndexType /\ e \in Entries /\ e # None
  BY NoneAssumption DEF InTable
<1>6. x = None \/ (x \in S \ {e} /\ htindex[x] = s)
  BY <1>3 DEF InTable
<1> HIDE DEF u, x
<1>7. /\ p.slot \in SlotsType /\ p.htindex \in IndexType
      /\ p.victim = x /\ x \in S \cup {None} /\ p.table = u
  BY <1>3, <1>4, <1>5, <1>6 DEF SlotsType, IndexType
<1>8. ASSUME NEW f \in S \ {x}
      PROVE  /\ p.htindex[f] \in Slots /\ p.slot[p.htindex[f]] = f
             /\ p.htindex[f] = SlotOf(p.htindex[f] % CL_CUCKOO_TABLES, info[f])
  <2>1. CASE f = e
    <3>1. p.htindex[e] = s /\ p.slot[s] = e
      BY <1>3, <1>4, <1>5 DEF SlotsType, IndexType
    <3> QED
      BY <1>2, <1>3, <2>1, <3>1
  <2>2. CASE f # e
    <3>1. /\ htindex[f] \in Slots /\ sl[htindex[f]] = f
          /\ htindex[f] = SlotOf(htindex[f] % CL_CUCKOO_TABLES, info[f])
      BY <2>2 DEF InTable
    <3>2. htindex[f] # s
      BY <3>1 DEF x
    <3>3. p.htindex[f] = htindex[f] /\ p.slot[htindex[f]] = f
      BY <1>4, <1>5, <2>2, <3>1, <3>2 DEF SlotsType, IndexType
    <3> QED
      BY <3>1, <3>3
  <2> QED
    BY <2>1, <2>2
<1>9. ASSUME NEW r \in Slots, p.slot[r] # None
      PROVE  p.slot[r] \in S \ {x} /\ p.htindex[p.slot[r]] = r
  <2>1. CASE r = s
    <3>1. p.slot[r] = e /\ p.htindex[e] = r
      BY <1>3, <1>4, <1>5, <2>1 DEF SlotsType, IndexType
    <3> QED
      BY <1>5, <1>6, <3>1
  <2>2. CASE r # s
    <3>1. p.slot[r] = sl[r]
      BY <1>4, <1>5, <2>2 DEF SlotsType
    <3>2. sl[r] \in S \ {e} /\ htindex[sl[r]] = r
      BY <1>9, <3>1 DEF InTable
    <3>3. p.htindex[sl[r]] = r
      BY <1>4, <1>5, <3>2 DEF IndexType
    <3>4. sl[r] # x
      BY <1>6, <1>9, <2>2, <3>1, <3>2
    <3> QED
      BY <3>1, <3>2, <3>3, <3>4
  <2> QED
    BY <2>1, <2>2
<1>10. InTable(p.slot, p.htindex, info, S \ {p.victim})
  BY <1>7, <1>8, <1>9 DEF InTable
<1>11. p \in [slot : SlotsType, htindex : IndexType,
              victim : S \cup {None}, table : Tables]
  BY <1>1, <1>4, <1>7
<1>12. \A r \in Slots : r # s => p.slot[r] = sl[r]
  BY <1>4, <1>5 DEF SlotsType
<1>13. Turning(info, S, p)
  BY <1>10, <1>11 DEF Turning
<1> QED
  BY <1>3, <1>7, <1>12, <1>13 DEF Starts, x

(* Once the victim is gone, the new entry finds its slot empty or an empty *)
(* slot on the path.                                                       *)
LEMMA RoomMade ==
  ASSUME TableInv, NEW k \in Keys, NEW t \in Tables, NEW v \in Victims(k, t)
  PROVE  /\ v \in Indexed \cup {None}
         /\ LET sl == Removed(slot, v)
            IN \/ sl[SlotOf(t, k)] = None
               \/ \E n \in 0 .. MaxInsert : sl[Path(SlotOf(NextTable(t), k))[n]] = None
<1> DEFINE h == SlotOf(t, k)
           p == Path(SlotOf(NextTable(t), k))
           sl == Removed(slot, v)
<1>1. h \in Slots /\ \A n \in Nat : p[n] \in Slots
  <2>1. NextTable(t) \in Tables
    BY SlotFacts
  <2> QED
    BY <2>1, SlotFacts, PathFacts
<1>2. 0 .. MaxInsert \subseteq Nat /\ 0 .. (MaxInsert - 1) \subseteq 0 .. MaxInsert
  BY MaxInsertAssumption
<1>3. CASE Conflicts(k, t) = {}
  <2>1. slot[h] = None \/ \E n \in 0 .. MaxInsert : slot[p[n]] = None
    BY <1>3 DEF Conflicts
  <2>2. v \in Indexed \cup {None}
    BY <1>3 DEF Victims
  <2>3. \A s \in Slots : sl[s] \in {slot[s], None}
    BY <2>2, RemovedKeeps
  <2> HIDE DEF sl, p, h
  <2>4. sl[h] = None \/ \E n \in 0 .. MaxInsert : sl[p[n]] = None
    BY <1>1, <1>2, <2>1, <2>3
  <2> QED
    BY <2>2, <2>4 DEF sl, p, h
<1>4. CASE Conflicts(k, t) # {}
  <2>1. /\ slot[h] # None /\ \A n \in 0 .. MaxInsert : slot[p[n]] # None
        /\ v = slot[h] \/ \E n \in 0 .. (MaxInsert - 1) : v = slot[p[n]]
    BY <1>4 DEF Conflicts, Victims
  <2> HIDE DEF p, h
  <2>2. v \in Indexed /\ v # None
    BY <1>1, <1>2, <2>1 DEF TableInv, InTable
  <2>3. \A s \in Slots : slot[s] = v => sl[s] = None
    BY <2>2, RemovedKeeps
  <2> HIDE DEF sl
  <2>4. sl[h] = None \/ \E n \in 0 .. MaxInsert : sl[p[n]] = None
    BY <1>1, <1>2, <2>1, <2>3
  <2> QED
    BY <2>2, <2>4 DEF sl, p, h
<1> QED
  BY <1>3, <1>4

-----------------------------------------------------------------------------
(* The proofs are about gets whose count is not 0: with one that is, the   *)
(* new entry's slot reads as empty (the run cuckoo_wrap).                  *)
Unwrapped == 0 \notin Counts

LEMMA CountIsOne ==
  ASSUME Unwrapped, NEW c \in Counts
  PROVE  c = 1
BY CountsAssumption DEF Unwrapped

LEMMA TableInit ==
  ASSUME Init
  PROVE  TableInv /\ Indexed = {}
BY DEF Init, TableInv, InTable, SlotsType, IndexType, Indexed

(* A lookup returns an entry of the key, and stamps a slot that stays what *)
(* it is.                                                                  *)
LEMMA HitKeeps ==
  ASSUME TableInv, NEW k \in Keys, Hit(k, 1)
  PROVE  /\ UNCHANGED <<slot, htindex, get_info, table_size>>
         /\ answer' \in Indexed /\ get_info[answer'] = k
<1> DEFINE m == Min(TablesWith(k))
<1>1. m \in TablesWith(k)
  <2>1. TablesWith(k) \in SUBSET Nat /\ TablesWith(k) # {}
    BY DEF Hit, TablesWith, Tables, CL_CUCKOO_TABLES
  <2>2. \E x \in TablesWith(k) : \A y \in TablesWith(k) : x <= y
    BY <2>1, LeastNatural
  <2> QED
    BY <2>2 DEF Min
<1> DEFINE s == SlotOf(m, k)
<1>2. s \in Slots
  <2>1. m \in Tables
    BY <1>1 DEF TablesWith
  <2> QED
    BY <2>1, SlotFacts
<1>3. slot[s] # None /\ get_info[slot[s]] = k
  BY <1>1 DEF TablesWith
<1>4. answer' = slot[s] /\ slot' = [slot EXCEPT ![s] = slot[s]]
  BY DEF Hit, Stamped
<1> HIDE DEF s
<1>5. slot' = slot
  BY <1>2, <1>4 DEF TableInv, InTable, SlotsType
<1> QED
  BY <1>2, <1>3, <1>4, <1>5 DEF TableInv, InTable, Hit

(* An eviction without an insertion.                                       *)
LEMMA EvictKeeps ==
  ASSUME TableInv, NEW v \in Indexed, Evict(v)
  PROVE  TableInv' /\ Indexed' = Indexed \ {v}
<1>1. v \in Entries /\ v # None
  BY NoneAssumption DEF Indexed
<1>2. get_info' \in [Entries -> Keys \cup {None}] /\ Indexed' = Indexed \ {v}
  BY <1>1 DEF Evict, TableInv, Indexed
<1>3. InTable(slot', htindex, get_info, Indexed')
  BY <1>2, RemovedKeeps DEF Evict
<1>4. /\ htindex' \in IndexType
      /\ \A e \in Indexed' : htindex'[e] = htindex[e] /\ get_info'[e] = get_info[e]
  BY <1>1, <1>2 DEF Evict, TableInv, InTable, IndexType, Indexed
<1> HIDE DEF Indexed
<1>5. InTable(slot', htindex', get_info', Indexed')
  BY <1>3, <1>4 DEF InTable
<1> QED
  BY <1>2, <1>5 DEF TableInv

(* An insertion, after the eviction of the victim there may be: every      *)
(* entry but the victim is in its place in the end, the new one included.  *)
LEMMA CacheKeeps ==
  ASSUME TableInv, NEW k \in Keys, NEW t \in Tables, NEW v \in Victims(k, t),
         NEW e \in Entries, Cache(k, t, v, e, 1)
  PROVE  TableInv' /\ Indexed' = (Indexed \ {v}) \cup {e} /\ e \notin Indexed \ {v}
<1> DEFINE info == [f \in Entries |-> IF f = e THEN k
                                      ELSE IF f = v THEN None ELSE get_info[f]]
           sl == Removed(slot, v)
           S == (Indexed \ {v}) \cup {e}
           first == First(sl, info, t, e, 1)
           q == Turns(info, first)[MaxInsert]
<1>1. /\ e \notin Indexed \ {v} /\ get_info' = info /\ slot' = q.slot
      /\ htindex' = [f \in Entries |-> IF f = v /\ v # e THEN None
                                       ELSE q.htindex[f]]
  BY DEF Cache, Inserted
<1>2. v \in Indexed \cup {None}
  BY RoomMade
<1>3. info \in [Entries -> Keys \cup {None}] /\ Indexed' = S
  BY <1>1, <1>2, NoneAssumption DEF TableInv, Indexed
<1>4. /\ S \in SUBSET Entries /\ info[e] = k /\ S \ {e} = Indexed \ {v}
      /\ \A f \in S \ {e} : info[f] = get_info[f]
      /\ \A f \in S : info[f] \in Keys
  BY <1>1, <1>2 DEF TableInv, Indexed
<1>5. InTable(sl, htindex, get_info, S \ {e})
  BY <1>2, <1>4, RemovedKeeps
<1>6. \A r \in Slots : sl[r] \in {slot[r], None}
  BY <1>2, RemovedKeeps
<1> HIDE DEF info, sl, S, first
<1>7. InTable(sl, htindex, info, S \ {e})
  BY <1>4, <1>5 DEF InTable
<1>8. e \in S
  BY DEF S
<1> DEFINE s == FirstSlot(sl, t, k)
<1>9. Turning(info, S, first) /\ Starts(sl, s, first)
  <2>1. /\ info[e] \in Keys /\ first = First(sl, info, t, e, 1)
        /\ s = FirstSlot(sl, t, info[e])
    BY <1>4 DEF first
  <2> HIDE DEF first, s
  <2>2. S \in SUBSET Entries
    BY <1>4
  <2>3. Turning(info, S, first)
    BY <1>7, <1>8, <2>1, <2>2, FirstKeeps
  <2>4. Starts(sl, s, first)
    BY <1>7, <1>8, <2>1, <2>2, FirstKeeps
  <2> QED
    BY <2>3, <2>4
<1>10. /\ Turns(info, first)[0] = first
       /\ \A n \in Nat : /\ Turns(info, first)[n + 1] = Displace(info, Turns(info, first)[n])
                         /\ Turning(info, S, Turns(info, first)[n])
  BY <1>4, <1>9, TurnsFacts
<1>11. q.victim = None
  <2>1. \E n \in 0 .. MaxInsert : sl[Path(s)[n]] = None
    <3>1. CASE sl[SlotOf(t, k)] = None
      <4>1. s = SlotOf(t, k) /\ Path(s)[0] = s
        BY <1>9, <3>1, PathFacts DEF FirstSlot, Starts
      <4>2. 0 \in 0 .. MaxInsert
        BY MaxInsertAssumption
      <4> HIDE DEF s
      <4> QED
        BY <3>1, <4>1, <4>2
    <3>2. CASE sl[SlotOf(t, k)] # None
      <4>1. s = SlotOf(NextTable(t), k)
        BY <3>2 DEF FirstSlot
      <4> QED
        BY <3>2, <4>1, RoomMade DEF sl
    <3> QED
      BY <3>1, <3>2
  <2>2. sl \in SlotsType
    BY <1>7 DEF InTable
  <2>3. \A r \in Slots : sl[r] # None => info[sl[r]] = get_info[sl[r]]
    BY <1>4, <1>7 DEF InTable
  <2> HIDE DEF s
  <2> QED
    <3>1. S \in SUBSET Entries /\ \A f \in S : info[f] \in Keys
      BY <1>4
    <3>2. Turning(info, S, first) /\ Starts(sl, s, first) /\ s \in Slots
      BY <1>9 DEF Starts
    <3>3. Turns(info, first)[MaxInsert].victim = None
      BY <3>1, <1>6, <3>2, <2>1, <2>2, <2>3, EndsAtHole
    <3> QED
      BY <3>3
<1>12. InTable(q.slot, q.htindex, info, S)
  <2>1. None \notin S
    BY <1>4, NoneAssumption
  <2>2. S \ {None} = S
    BY <2>1
  <2>3. Turning(info, S, q)
    BY <1>10, MaxInsertAssumption
  <2> HIDE DEF q
  <2> QED
    BY <1>11, <2>2, <2>3 DEF Turning
<1> HIDE DEF q
<1>13. InTable(slot', htindex', info, S)
  <2>1. htindex' \in IndexType
    BY <1>1, <1>12 DEF InTable, IndexType
  <2>2. \A f \in S : f \in Entries /\ (f = v => v = e)
    BY <1>4 DEF S
  <2>3. \A f \in S : htindex'[f] = q.htindex[f]
    BY <1>1, <2>2
  <2> QED
    BY <1>1, <1>12, <2>1, <2>3 DEF InTable
<1> QED
  BY <1>1, <1>3, <1>13 DEF TableInv, S

-----------------------------------------------------------------------------
(* Occupied slots and entries correspond: each entry has one slot.         *)
LEMMA OneSlotEach ==
  ASSUME TableInv
  PROVE  /\ IsFiniteSet(Indexed)
         /\ Cardinality({s \in Slots : slot[s] # None}) = Cardinality(Indexed)
         /\ Cardinality(Indexed) \in Nat /\ Cardinality(Indexed) <= HtEntries
<1> DEFINE O == {s \in Slots : slot[s] # None}
           f == [s \in O |-> slot[s]]
<1>1. IsFiniteSet(Slots) /\ Cardinality(Slots) = HtEntries
  <2>1. IsFiniteSet(0 .. (HtEntries - 1)) /\ Cardinality(0 .. (HtEntries - 1)) = HtEntries
    BY FS_Interval, HtEntriesAssumption DEF CL_CUCKOO_TABLES
  <2> QED
    BY <2>1 DEF Slots
<1>2. IsFiniteSet(O) /\ Cardinality(O) <= HtEntries /\ Cardinality(O) \in Nat
  <2>1. O \subseteq Slots
    OBVIOUS
  <2> HIDE DEF O
  <2> QED
    BY <1>1, <2>1, FS_Subset, FS_CardinalityType
<1>3. f \in Bijection(O, Indexed)
  <2>1. f \in [O -> Indexed]
    BY DEF TableInv, InTable
  <2>2. ASSUME NEW a \in O, NEW b \in O, f[a] = f[b]
        PROVE  a = b
    BY <2>2 DEF TableInv, InTable
  <2>3. ASSUME NEW e \in Indexed
        PROVE  \E a \in O : f[a] = e
    <3>1. e # None /\ htindex[e] \in O /\ f[htindex[e]] = e
      BY NoneAssumption DEF TableInv, InTable, Indexed
    <3> QED
      BY <3>1
  <2> HIDE DEF f, O
  <2> QED
    BY <2>1, <2>2, <2>3 DEF Bijection, Injection, Surjection, IsInjective
<1> HIDE DEF f, O
<1>4. ExistsBijection(O, Indexed)
  BY <1>3 DEF ExistsBijection
<1>5. IsFiniteSet(Indexed) /\ Cardinality(O) = Cardinality(Indexed)
  BY <1>2, <1>4, FS_Bijection
<1> QED
  BY <1>2, <1>5 DEF O

(* The entries are in their places, and table_size is their number.        *)
IndexInv == TableInv /\ table_size = Cardinality(Indexed)

LEMMA IndexStep ==
  ASSUME Unwrapped, IndexInv, [Next]_vars
  PROVE  IndexInv'
<1>1. TableInv /\ IsFiniteSet(Indexed) /\ table_size = Cardinality(Indexed)
  BY OneSlotEach DEF IndexInv
<1>2. ASSUME NEW k \in Keys, NEW c \in Counts, Hit(k, c)
      PROVE  IndexInv'
  <2>1. Hit(k, 1)
    BY <1>2, CountIsOne
  <2>2. UNCHANGED <<slot, htindex, get_info, table_size>>
    BY <1>1, <2>1, HitKeeps
  <2> QED
    BY <2>2 DEF IndexInv, TableInv, InTable, Indexed
<1>3. ASSUME NEW k \in Keys, NEW t \in Tables, NEW v \in Victims(k, t),
             v # None, Evict(v)
      PROVE  IndexInv'
  <2>1. v \in Indexed
    BY <1>1, <1>3, RoomMade
  <2>2. TableInv' /\ Indexed' = Indexed \ {v}
    BY <1>1, <1>3, <2>1, EvictKeeps
  <2>3. Cardinality(Indexed \ {v}) = Cardinality(Indexed) - 1
    BY <1>1, <2>1, FS_RemoveElement
  <2> QED
    BY <1>1, <1>3, <2>2, <2>3 DEF Evict, IndexInv
<1>4. ASSUME NEW k \in Keys, NEW c \in Counts, NEW t \in Tables,
             NEW v \in Victims(k, t), NEW e \in Entries, Cache(k, t, v, e, c)
      PROVE  IndexInv'
  <2>1. Cache(k, t, v, e, 1)
    BY <1>4, CountIsOne
  <2>2. TableInv' /\ Indexed' = (Indexed \ {v}) \cup {e} /\ e \notin Indexed \ {v}
    BY <1>1, <2>1, CacheKeeps
  <2>3. v \in Indexed \cup {None}
    BY <1>1, RoomMade
  <2>4. table_size' = IF v = None THEN table_size + 1 ELSE table_size
    BY <2>1 DEF Cache
  <2>5. IsFiniteSet(Indexed \ {v}) /\ Cardinality(Indexed \ {v}) \in Nat
    BY <1>1, FS_RemoveElement, FS_CardinalityType
  <2>6. Cardinality(Indexed') = Cardinality(Indexed \ {v}) + 1
    BY <2>2, <2>5, FS_AddElement
  <2>7. CASE v = None
    <3>1. Indexed \ {v} = Indexed
      BY <2>7, NoneAssumption DEF Indexed
    <3> QED
      BY <1>1, <2>2, <2>4, <2>6, <2>7, <3>1 DEF IndexInv
  <2>8. CASE v # None
    <3>1. Cardinality(Indexed \ {v}) = Cardinality(Indexed) - 1
      BY <1>1, <2>3, <2>8, FS_RemoveElement
    <3>2. Cardinality(Indexed) \in Nat
      BY <1>1, FS_CardinalityType
    <3> QED
      BY <1>1, <2>2, <2>4, <2>6, <2>8, <3>1, <3>2 DEF IndexInv
  <2> QED
    BY <2>7, <2>8
<1>5. ASSUME Invalidate
      PROVE  IndexInv'
  <2>1. TableInv' /\ Indexed' = {} /\ table_size' = 0
    BY <1>5 DEF Invalidate, TableInv, InTable, SlotsType, IndexType, Indexed
  <2> QED
    BY <2>1, FS_EmptySet DEF IndexInv
<1>6. CASE UNCHANGED vars
  BY <1>6, <1>1 DEF vars, IndexInv, TableInv, InTable, Indexed
<1> QED
  BY <1>2, <1>3, <1>4, <1>5, <1>6 DEF Next, Miss

LEMMA IndexAlways ==
  ASSUME Unwrapped
  PROVE  Spec => []IndexInv
<1>1. Init => IndexInv
  BY TableInit, FS_EmptySet DEF Init, IndexInv
<1>2. IndexInv /\ [Next]_vars => IndexInv'
  BY IndexStep
<1> QED
  BY <1>1, <1>2, PTL DEF Spec

(* Whatever the tables, the hash functions and the history: an entry that  *)
(* is in the table sits in one slot, which its htindex names and its key   *)
(* has, as long as no count of a get is 0.                                 *)
THEOREM EntriesAlwaysInPlace ==
  ASSUME Unwrapped
  PROVE  Spec => []EntriesInPlace
<1>1. IndexInv => EntriesInPlace
  <2> SUFFICES ASSUME TableInv
               PROVE  EntriesInPlace
    BY DEF IndexInv
  <2>1. ASSUME NEW e \in Indexed
        PROVE  /\ {s \in Slots : slot[s] = e} = {htindex[e]}
               /\ htindex[e] = SlotOf(htindex[e] % CL_CUCKOO_TABLES, get_info[e])
    <3>1. e \in Entries /\ e # None
      BY NoneAssumption DEF Indexed
    <3> QED
      BY <3>1 DEF TableInv, InTable
  <2> QED
    BY <2>1 DEF EntriesInPlace
<1> QED
  BY <1>1, IndexAlways, PTL

(* table_size is the number of slots that hold an entry: the scan for a    *)
(* victim, which counts entries up to it, neither ends early nor goes on   *)
(* for ever.                                                               *)
THEOREM SizeAlwaysCountsSlots ==
  ASSUME Unwrapped
  PROVE  Spec => []SizeCountsSlots
<1>1. IndexInv => SizeCountsSlots
  BY OneSlotEach DEF IndexInv, SizeCountsSlots
<1> QED
  BY <1>1, IndexAlways, PTL

-----------------------------------------------------------------------------
(* The limit of displacements lets the walk see every table.               *)
LongWalk == MaxInsert >= CL_CUCKOO_TABLES - 1

LEMMA ConflictEverywhere ==
  ASSUME TableInv, LongWalk, NEW k \in Keys, NEW t \in Tables, Conflicts(k, t) # {},
         NEW u \in Tables
  PROVE  \E e \in Conflicts(k, t) : htindex[e] % CL_CUCKOO_TABLES = u
<1> DEFINE h == SlotOf(t, k)
           p == Path(SlotOf(NextTable(t), k))
           C == Conflicts(k, t)
<1>1. /\ slot[h] # None /\ \A n \in 0 .. MaxInsert : slot[p[n]] # None
      /\ C = {slot[h]} \cup {slot[p[n]] : n \in 0 .. (MaxInsert - 1)}
  BY DEF Conflicts
<1>2. /\ h \in Slots /\ h % CL_CUCKOO_TABLES = t
      /\ p[0] \in Slots /\ p[0] % CL_CUCKOO_TABLES = NextTable(t)
      /\ \A n \in Nat : p[n] \in Slots /\ p[n + 1] = After(p[n])
  <2>1. NextTable(t) \in Tables
    BY SlotFacts
  <2>2. SlotOf(NextTable(t), k) \in Slots
    BY <2>1, SlotFacts
  <2>3. p[0] = SlotOf(NextTable(t), k)
    BY <2>2, PathFacts
  <2> QED
    BY <2>1, <2>2, <2>3, SlotFacts, PathFacts
<1> HIDE DEF h, p, C
<1>3. 0 \in 0 .. MaxInsert /\ 1 \in 0 .. MaxInsert /\ 2 \in 0 .. MaxInsert
  BY MaxInsertAssumption DEF LongWalk, CL_CUCKOO_TABLES
<1>4. ASSUME NEW n \in 0 .. MaxInsert
      PROVE  p[n + 1] % CL_CUCKOO_TABLES = NextTable(p[n] % CL_CUCKOO_TABLES)
  <2>1. n \in Nat /\ slot[p[n]] # None
    BY <1>1
  <2>2. get_info[slot[p[n]]] \in Keys /\ NextTable(p[n] % CL_CUCKOO_TABLES) \in Tables
    BY <1>2, <2>1, NextFacts DEF TableInv, InTable, Indexed
  <2>3. p[n + 1] = SlotOf(NextTable(p[n] % CL_CUCKOO_TABLES), get_info[slot[p[n]]])
    BY <1>2, <2>1 DEF After
  <2> QED
    BY <2>2, <2>3, SlotFacts
<1>5. /\ p[1] % CL_CUCKOO_TABLES = NextTable(NextTable(t))
      /\ p[2] % CL_CUCKOO_TABLES = NextTable(NextTable(NextTable(t)))
  <2>1. 0 + 1 = 1 /\ 1 + 1 = 2
    OBVIOUS
  <2>2. p[1] % CL_CUCKOO_TABLES = NextTable(NextTable(t))
    BY <1>2, <1>3, <1>4, <2>1
  <2> QED
    BY <1>3, <1>4, <2>1, <2>2
<1>6. u \in {t, NextTable(t), NextTable(NextTable(t)), NextTable(NextTable(NextTable(t)))}
  BY DEF Tables, NextTable, CL_CUCKOO_TABLES
<1>7. \E s \in {h, p[0], p[1], p[2]} : s \in Slots /\ s % CL_CUCKOO_TABLES = u
  BY <1>2, <1>5, <1>6
<1>8. PICK s \in {h, p[0], p[1], p[2]} : s \in Slots /\ s % CL_CUCKOO_TABLES = u
  BY <1>7
<1>9. slot[s] \in C /\ slot[s] # None
  <2>1. 0 \in 0 .. (MaxInsert - 1) /\ 1 \in 0 .. (MaxInsert - 1) /\ 2 \in 0 .. (MaxInsert - 1)
    BY MaxInsertAssumption DEF LongWalk, CL_CUCKOO_TABLES
  <2> QED
    BY <1>1, <1>3, <1>8, <2>1
<1>10. htindex[slot[s]] = s
  BY <1>8, <1>9 DEF TableInv, InTable
<1> QED
  BY <1>8, <1>9, <1>10 DEF C

(* A conflict takes an entry in each table, whatever the history and the   *)
(* hash functions, as long as no count is 0 and the limit of displacements *)
(* (10 in the code) is not below the number of tables less one.            *)
THEOREM ConflictAlwaysInAllTables ==
  ASSUME Unwrapped, LongWalk
  PROVE  Spec => []ConflictInAllTables
<1>1. IndexInv => ConflictInAllTables
  BY ConflictEverywhere DEF IndexInv, ConflictInAllTables
<1> QED
  BY <1>1, IndexAlways, PTL

-----------------------------------------------------------------------------
LEMMA SameCardinality ==
  ASSUME NEW S
  PROVE  Abstract!Cardinality(S) = Cardinality(S)
BY DEF Cardinality, Abstract!Cardinality

EntriesFit == IsFiniteSet(Indexed) /\ Cardinality(Indexed) <= HtEntries

LEMMA EntriesFitSlots ==
  ASSUME TableInv
  PROVE  EntriesFit
BY OneSlotEach DEF EntriesFit

(* A step of the table is a step of the map or changes nothing of it.      *)
LEMMA IndexIsMap ==
  ASSUME Unwrapped, TableInv, TableInv', [Next]_vars
  PROVE  [Abstract!Next]_<<get_info, answer>>
<1>1. Abstract!Indexed = Indexed
  BY DEF Abstract!Indexed, Indexed
<1>2. EntriesFit'
  BY EntriesFitSlots, PTL
<1>3. ASSUME NEW k \in Keys, NEW c \in Counts, Hit(k, c)
      PROVE  Abstract!Next
  <2>1. Hit(k, 1)
    BY <1>3, CountIsOne
  <2>2. get_info' = get_info /\ answer' \in Indexed /\ get_info[answer'] = k
    BY <2>1, HitKeeps
  <2>3. Abstract!Hit(k)
    BY <1>1, <2>2 DEF Abstract!Hit, Abstract!Holding
  <2> QED
    BY <2>3 DEF Abstract!Next
<1>4. ASSUME NEW k \in Keys, NEW c \in Counts, Miss(k, c)
      PROVE  Abstract!Next
  <2>1. Abstract!Holding(k) = {}
    <3> SUFFICES ASSUME NEW e \in Indexed, get_info[e] = k
                 PROVE  FALSE
      BY <1>1 DEF Abstract!Holding
    <3>1. /\ htindex[e] \in Slots /\ slot[htindex[e]] = e /\ e # None
          /\ htindex[e] = SlotOf(htindex[e] % CL_CUCKOO_TABLES, k)
      BY NoneAssumption DEF TableInv, InTable, Indexed
    <3>2. htindex[e] % CL_CUCKOO_TABLES \in TablesWith(k)
      BY <3>1, NextFacts DEF TablesWith
    <3> QED
      BY <1>4, <3>2 DEF Miss
  <2> PICK t \in Tables : \E v \in Victims(k, t) :
          \/ v # None /\ Evict(v)
          \/ \E e \in Entries : Cache(k, t, v, e, c)
    BY <1>4 DEF Miss
  <2>2. PICK v \in Victims(k, t) :
          \/ v # None /\ Evict(v)
          \/ \E e \in Entries : Cache(k, t, v, e, c)
    OBVIOUS
  <2>3. v \in Indexed \cup {None}
    BY RoomMade
  <2>4. CASE v # None /\ Evict(v)
    <3>1. Abstract!Evict(v) /\ v \in Abstract!Indexed
      BY <1>1, <2>3, <2>4 DEF Evict, Abstract!Evict
    <3>2. Abstract!Miss(k)
      BY <2>1, <3>1 DEF Abstract!Miss
    <3> QED
      BY <3>2 DEF Abstract!Next
  <2>5. ASSUME NEW e \in Entries, Cache(k, t, v, e, c)
        PROVE  Abstract!Next
    <3>1. Cache(k, t, v, e, 1)
      BY <2>5, CountIsOne
    <3>2. Indexed' = (Indexed \ {v}) \cup {e} /\ e \notin Indexed \ {v}
      BY <3>1, CacheKeeps
    <3>3. IsFiniteSet(Indexed') /\ Cardinality(Indexed') <= HtEntries
      BY <1>2 DEF EntriesFit
    <3>4. Cardinality(Indexed \ {v}) < HtEntries
      <4>1. IsFiniteSet(Indexed \ {v}) /\ Cardinality(Indexed \ {v}) \in Nat
        BY OneSlotEach, FS_RemoveElement, FS_CardinalityType
      <4>2. Cardinality(Indexed') = Cardinality(Indexed \ {v}) + 1
        BY <3>2, <4>1, FS_AddElement
      <4> QED
        BY <3>3, <4>1, <4>2, HtEntriesAssumption
    <3>5. Abstract!Cache(k, v, e)
      BY <1>1, <3>1, <3>2, <3>4, SameCardinality DEF Cache, Abstract!Cache
    <3>6. Abstract!Miss(k)
      BY <1>1, <2>1, <2>3, <3>5 DEF Abstract!Miss
    <3> QED
      BY <3>6 DEF Abstract!Next
  <2> QED
    BY <2>2, <2>4, <2>5
<1>5. ASSUME Invalidate
      PROVE  Abstract!Next
  BY <1>5 DEF Invalidate, Abstract!Invalidate, Abstract!Next
<1>6. CASE UNCHANGED vars
  BY <1>6 DEF vars
<1> QED
  BY <1>3, <1>4, <1>5, <1>6 DEF Next

(* The table is the map it is taken for, for all keys, sizes and hash      *)
(* functions: lookups find what is there, an insertion, with all its       *)
(* displacements, loses nothing but its victim.                            *)
THEOREM ImplementsIndexAlways ==
  ASSUME Unwrapped
  PROVE  Spec => ImplementsIndex
<1>1. Init => Abstract!Init
  BY DEF Init, Abstract!Init
<1>2. IndexInv /\ IndexInv' /\ [Next]_vars => [Abstract!Next]_<<get_info, answer>>
  BY IndexIsMap DEF IndexInv
<1> QED
  BY <1>1, <1>2, IndexAlways, PTL DEF Spec, ImplementsIndex, Abstract!Spec

===============================================================================
