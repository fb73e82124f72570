-------------------------- MODULE RegionHeap_proofs --------------------------
(***************************************************************************)
(* What the operations on the memory buffer of a window preserve, for any  *)
(* number of descriptors and any size of the buffer.                       *)
(*                                                                         *)
(* The two facts a caller needs are EvictKeeps and CarveKeeps: an eviction *)
(* and a placement each keep the descriptors tiling the buffer, the holes  *)
(* apart and the index exact, and change nothing of the other entries.     *)
(* Both come from facts about the pointer surgery itself: AbsorbTiled (one *)
(* region swallows its right neighbour, the only thing an eviction does to *)
(* the list) and SplitTiled (one region is cut in two).  RoomForOne and    *)
(* AllFree count: there is a descriptor left for a placement, and a buffer *)
(* with nothing in it has room for any request.                            *)
(***************************************************************************)
EXTENDS RegionHeap, FiniteSetTheorems, TLAPS

(* Pushing a descriptor adds it to the stack (FREE_CENTRY).                *)
LEMMA RangeAppend ==
  ASSUME NEW S, NEW s \in Seq(S), NEW x \in S
  PROVE  Range(Append(s, x)) = Range(s) \cup {x}
<1> DEFINE t == Append(s, x)
<1>1. /\ DOMAIN t = 1 .. (Len(s) + 1)
      /\ DOMAIN s = 1 .. Len(s)
      /\ \A i \in 1 .. Len(s) : t[i] = s[i]
      /\ t[Len(s) + 1] = x
      /\ Len(s) \in Nat
  OBVIOUS
<1>2. ASSUME NEW y \in Range(t) PROVE y \in Range(s) \cup {x}
  <2>1. PICK i \in DOMAIN t : y = t[i]
    BY <1>2 DEF Range
  <2> QED
    BY <1>1, <2>1 DEF Range
<1>3. Range(s) \cup {x} \subseteq Range(t)
  BY <1>1 DEF Range
<1> QED
  BY <1>2, <1>3

(* A stack without repetitions has none after a push of a new element.     *)
LEMMA InjAppend ==
  ASSUME NEW S, NEW s \in Seq(S), NEW x \in S, IsInjective(s), x \notin Range(s)
  PROVE  IsInjective(Append(s, x))
<1> DEFINE t == Append(s, x)
<1>1. /\ DOMAIN t = 1 .. (Len(s) + 1)
      /\ DOMAIN s = 1 .. Len(s)
      /\ \A i \in 1 .. Len(s) : t[i] = s[i]
      /\ t[Len(s) + 1] = x
      /\ Len(s) \in Nat
  OBVIOUS
<1>2. \A i \in 1 .. Len(s) : s[i] # x
  BY <1>1 DEF Range
<1>3. ASSUME NEW i \in DOMAIN t, NEW j \in DOMAIN t, t[i] = t[j] PROVE i = j
  <2>1. \A k \in DOMAIN t : k \in 1 .. Len(s) \/ k = Len(s) + 1
    BY <1>1
  <2> QED
    BY <1>1, <1>2, <1>3, <2>1 DEF IsInjective
<1> QED
  BY <1>3 DEF IsInjective

(* Popping a descriptor takes it, and nothing else, off the stack          *)
(* (NEW_CENTRY).                                                           *)
LEMMA FrontFacts ==
  ASSUME NEW S, NEW s \in Seq(S), IsInjective(s), s # <<>>
  PROVE  /\ Front(s) \in Seq(S)
         /\ IsInjective(Front(s))
         /\ Last(s) \in S
         /\ Last(s) \in Range(s)
         /\ Range(Front(s)) = Range(s) \ {Last(s)}
<1> DEFINE n == Len(s)
           t == Front(s)
<1>1. n \in Nat /\ n > 0 /\ DOMAIN s = 1 .. n /\ \A i \in 1 .. n : s[i] \in S
  OBVIOUS
<1>2. t \in Seq(S) /\ DOMAIN t = 1 .. (n - 1) /\ \A i \in 1 .. (n - 1) : t[i] = s[i]
  BY <1>1 DEF Front
<1>3. Last(s) = s[n] /\ n \in DOMAIN s
  BY <1>1 DEF Last
<1>4. IsInjective(t)
  BY <1>1, <1>2 DEF IsInjective
<1>5. ASSUME NEW y \in Range(t) PROVE y \in Range(s) \ {Last(s)}
  <2>1. PICK i \in 1 .. (n - 1) : y = s[i]
    BY <1>2, <1>5 DEF Range
  <2>2. s[i] # s[n]
    BY <1>1, <2>1 DEF IsInjective
  <2> QED
    BY <1>1, <1>3, <2>1, <2>2 DEF Range
<1>6. ASSUME NEW y \in Range(s), y # Last(s) PROVE y \in Range(t)
  <2>1. PICK i \in 1 .. n : y = s[i]
    BY <1>1 DEF Range
  <2>2. i \in 1 .. (n - 1)
    BY <1>1, <1>3, <1>6, <2>1
  <2> QED
    BY <1>2, <2>1, <2>2 DEF Range
<1> QED
  BY <1>1, <1>2, <1>3, <1>4, <1>5, <1>6 DEF Range

-----------------------------------------------------------------------------
(* NOENTRY is not the index of a descriptor.                               *)
LEMMA NoEntry == NOENTRY \notin Entries
  BY DEF NOENTRY, Entries

(* Absorb, field by field.                                                 *)
Absorbed(g, h, a, b) ==
  /\ g \in HeapType
  /\ \A e \in Entries :
       /\ g.type[e] = IF e = b THEN FREE ELSE h.type[e]
       /\ g.size[e] = IF e = a THEN h.size[a] + h.size[b]
                      ELSE IF e = b THEN 0 ELSE h.size[e]
       /\ g.offset[e] = IF e = b THEN 0 ELSE h.offset[e]
       /\ g.mprev[e] = IF e = b THEN NOENTRY
                       ELSE IF e = h.mnext[b] THEN a ELSE h.mprev[e]
       /\ g.mnext[e] = IF e = a THEN h.mnext[b]
                       ELSE IF e = b THEN NOENTRY ELSE h.mnext[e]
  /\ g.free_entries = Append(h.free_entries, b)
  /\ g.free_idx = h.free_idx \ {a, b}

(* Absorb does to the fields what Absorbed says, and yields a heap.        *)
LEMMA AbsorbFields ==
  ASSUME NEW h \in HeapType, NEW a \in Entries, NEW b \in Entries, a # b
  PROVE  Absorbed(Absorb(h, a, b), h, a, b)
<1> DEFINE g == Absorb(h, a, b)
<1>1. /\ h.type \in [Entries -> {FREE, BUSY}]
      /\ h.size \in [Entries -> Nat]
      /\ h.offset \in [Entries -> Nat]
      /\ h.mprev \in [Entries -> Entries \cup {NOENTRY}]
      /\ h.mnext \in [Entries -> Entries \cup {NOENTRY}]
      /\ h.free_entries \in Seq(Entries)
      /\ h.free_idx \subseteq Entries
  BY DEF HeapType
<1>2. g.type \in [Entries -> {FREE, BUSY}] /\ g.offset \in [Entries -> Nat]
  BY <1>1 DEF Absorb
<1>3. g.size \in [Entries -> Nat]
  <2>1. h.size[a] + h.size[b] \in Nat
    BY <1>1
  <2> DEFINE grown == [h.size EXCEPT ![a] = h.size[a] + h.size[b]]
  <2>2. grown \in [Entries -> Nat]
    BY <1>1, <2>1
  <2>3. g.size = [grown EXCEPT ![b] = 0]
    BY DEF Absorb
  <2> HIDE DEF g, grown
  <2> QED
    BY <2>2, <2>3
<1>4. g.mprev \in [Entries -> Entries \cup {NOENTRY}]
  BY <1>1 DEF Absorb
<1>5. g.mnext \in [Entries -> Entries \cup {NOENTRY}]
  BY <1>1 DEF Absorb
<1>6. g.free_entries \in Seq(Entries) /\ g.free_idx \subseteq Entries
  BY <1>1 DEF Absorb
<1>7. g \in HeapType
  BY <1>2, <1>3, <1>4, <1>5, <1>6 DEF Absorb, HeapType
<1>8. \A e \in Entries :
        /\ g.type[e] = IF e = b THEN FREE ELSE h.type[e]
        /\ g.size[e] = IF e = a THEN h.size[a] + h.size[b]
                       ELSE IF e = b THEN 0 ELSE h.size[e]
        /\ g.offset[e] = IF e = b THEN 0 ELSE h.offset[e]
        /\ g.mprev[e] = IF e = b THEN NOENTRY
                        ELSE IF e = h.mnext[b] THEN a ELSE h.mprev[e]
        /\ g.mnext[e] = IF e = a THEN h.mnext[b]
                        ELSE IF e = b THEN NOENTRY ELSE h.mnext[e]
  BY <1>1 DEF Absorb
<1> QED
  BY <1>7, <1>8 DEF Absorb, Absorbed

(* What a well-formed list says of two neighbours.                         *)
LEMMA Neighbours ==
  ASSUME NEW h \in HeapType, Tiled(h),
         NEW a \in Live(h), NEW b \in Live(h), h.mnext[a] = b
  PROVE  /\ a \in Entries /\ b \in Entries
         /\ a # b /\ h.mnext[b] # a /\ h.mnext[b] # b
         /\ h.mprev[b] = a
         /\ h.offset[b] = h.offset[a] + h.size[a]
<1>1. a \in Entries /\ b \in Entries /\ b # NOENTRY
  BY DEF Live, Entries, NOENTRY
<1>2. h.mprev[b] = a /\ h.offset[b] = h.offset[a] + h.size[a]
  BY <1>1 DEF Tiled, Linked
<1>3. a # b
  <2>1. \E e \in {a} : h.mnext[e] \notin {a}
    BY DEF Tiled, Acyclic
  <2> QED
    BY <2>1
<1>4. h.mnext[b] # b
  <2>1. \E e \in {b} : h.mnext[e] \notin {b}
    BY DEF Tiled, Acyclic
  <2> QED
    BY <2>1
<1>5. h.mnext[b] # a
  <2>1. \E e \in {a, b} : h.mnext[e] \notin {a, b}
    BY DEF Tiled, Acyclic
  <2> QED
    BY <2>1
<1> QED
  BY <1>1, <1>2, <1>3, <1>4, <1>5

(* Swallowing a neighbour keeps the list sound and the buffer tiled.       *)
LEMMA AbsorbTiled ==
  ASSUME NEW h \in HeapType, Tiled(h),
         NEW a \in Live(h), NEW b \in Live(h), h.mnext[a] = b
  PROVE  LET g == Absorb(h, a, b) IN
         /\ Live(g) = Live(h) \ {b}
         /\ Tiled(g)
<1> DEFINE g == Absorb(h, a, b)
<1>1. /\ a \in Entries /\ b \in Entries
      /\ a # b /\ h.mnext[b] # a /\ h.mnext[b] # b
      /\ h.mprev[b] = a
      /\ h.offset[b] = h.offset[a] + h.size[a]
  BY Neighbours
<1>2. /\ g \in HeapType
      /\ g.free_entries = Append(h.free_entries, b)
      /\ \A e \in Entries :
           /\ g.size[e] = IF e = a THEN h.size[a] + h.size[b]
                          ELSE IF e = b THEN 0 ELSE h.size[e]
           /\ g.offset[e] = IF e = b THEN 0 ELSE h.offset[e]
           /\ g.mprev[e] = IF e = b THEN NOENTRY
                           ELSE IF e = h.mnext[b] THEN a ELSE h.mprev[e]
           /\ g.mnext[e] = IF e = a THEN h.mnext[b]
                           ELSE IF e = b THEN NOENTRY ELSE h.mnext[e]
  BY <1>1, AbsorbFields DEF Absorbed
<1>3. /\ h.size \in [Entries -> Nat]
      /\ h.offset \in [Entries -> Nat]
      /\ h.mprev \in [Entries -> Entries \cup {NOENTRY}]
      /\ h.mnext \in [Entries -> Entries \cup {NOENTRY}]
      /\ h.free_entries \in Seq(Entries)
  BY DEF HeapType
<1>4. Live(g) = Live(h) \ {b}
  BY <1>1, <1>2, <1>3, RangeAppend DEF Live
<1>5. Live(g) \subseteq Entries /\ Live(h) \subseteq Entries /\ a \in Live(g)
  BY <1>1, <1>4 DEF Live
<1> HIDE DEF g
<1>6. StackOK(g)
  <2>1. b \notin Range(h.free_entries) /\ IsInjective(h.free_entries)
    BY DEF Live, Tiled, StackOK
  <2> QED
    BY <1>1, <1>2, <1>3, <2>1, InjAppend DEF StackOK
<1>7. Linked(g)
  <2> SUFFICES ASSUME NEW e \in Live(g)
               PROVE  /\ g.mnext[e] # NOENTRY =>
                           /\ g.mnext[e] \in Live(g)
                           /\ g.mprev[g.mnext[e]] = e
                           /\ g.offset[g.mnext[e]] = g.offset[e] + g.size[e]
                      /\ g.mnext[e] = NOENTRY => g.offset[e] + g.size[e] = mem_size
                      /\ g.mprev[e] # NOENTRY =>
                           /\ g.mprev[e] \in Live(g)
                           /\ g.mnext[g.mprev[e]] = e
                      /\ g.mprev[e] = NOENTRY => g.offset[e] = 0
    BY DEF Linked
  <2>1. /\ e \in Live(h) /\ e # b /\ e \in Entries
        /\ h.mnext[e] # NOENTRY =>
             /\ h.mnext[e] \in Live(h)
             /\ h.mprev[h.mnext[e]] = e
             /\ h.offset[h.mnext[e]] = h.offset[e] + h.size[e]
        /\ h.mnext[e] = NOENTRY => h.offset[e] + h.size[e] = mem_size
        /\ h.mprev[e] # NOENTRY =>
             /\ h.mprev[e] \in Live(h)
             /\ h.mnext[h.mprev[e]] = e
        /\ h.mprev[e] = NOENTRY => h.offset[e] = 0
    BY <1>4, <1>5 DEF Tiled, Linked
  <2>2. /\ h.mnext[b] # NOENTRY =>
             /\ h.mnext[b] \in Live(h)
             /\ h.mprev[h.mnext[b]] = b
             /\ h.offset[h.mnext[b]] = h.offset[b] + h.size[b]
        /\ h.mnext[b] = NOENTRY => h.offset[b] + h.size[b] = mem_size
    BY DEF Tiled, Linked
  <2>3. CASE e = a
    <3>1. /\ g.mnext[a] = h.mnext[b] /\ g.mprev[a] = h.mprev[a]
          /\ g.size[a] = h.size[a] + h.size[b] /\ g.offset[a] = h.offset[a]
          /\ g.offset[a] + g.size[a] = h.offset[b] + h.size[b]
      BY <1>1, <1>2, <1>3
    <3>2. g.mnext[a] # NOENTRY =>
            /\ g.mnext[a] \in Live(g)
            /\ g.mprev[g.mnext[a]] = a
            /\ g.offset[g.mnext[a]] = g.offset[a] + g.size[a]
      BY <1>1, <1>2, <1>4, <1>5, <2>2, <3>1
    <3>3. g.mprev[a] # NOENTRY =>
             /\ g.mprev[a] \in Live(g)
             /\ g.mnext[g.mprev[a]] = a
      <4> SUFFICES ASSUME h.mprev[a] # NOENTRY
                   PROVE  h.mprev[a] \in Live(g) /\ g.mnext[h.mprev[a]] = a
        BY <3>1
      <4>1. h.mprev[a] \in Live(h) /\ h.mnext[h.mprev[a]] = a
        BY <2>1, <2>3
      <4>2. h.mprev[a] # a /\ h.mprev[a] # b
        BY <1>1, <4>1
      <4> QED
        BY <1>2, <1>4, <1>5, <4>1, <4>2
    <3> QED
      BY <2>1, <2>2, <2>3, <3>1, <3>2, <3>3
  <2>4. CASE e # a
    <3>1. h.mnext[e] # b
      BY <1>1, <2>1, <2>4, NoEntry
    <3>2. /\ g.mnext[e] = h.mnext[e] /\ g.size[e] = h.size[e]
          /\ g.offset[e] = h.offset[e]
      BY <1>2, <2>1, <2>4
    <3>3. g.mnext[e] # NOENTRY =>
             /\ g.mnext[e] \in Live(g)
             /\ g.mprev[g.mnext[e]] = e
             /\ g.offset[g.mnext[e]] = g.offset[e] + g.size[e]
      BY <1>2, <1>4, <1>5, <2>1, <2>2, <2>4, <3>1, <3>2
    <3>4. CASE e = h.mnext[b]
      BY <1>1, <1>2, <1>5, <2>1, <2>2, <2>4, <3>2, <3>3, <3>4 DEF Entries, NOENTRY
    <3>5. CASE e # h.mnext[b]
      <4>1. g.mprev[e] = h.mprev[e] /\ h.mprev[e] # b
        BY <1>2, <2>1, <3>5, <1>1 DEF Entries, NOENTRY
      <4>2. h.mprev[e] # a
        BY <1>1, <2>1 DEF Entries, NOENTRY
      <4> QED
        BY <1>2, <1>4, <1>5, <2>1, <3>2, <3>3, <4>1, <4>2
    <3> QED
      BY <3>4, <3>5
  <2> QED
    BY <2>3, <2>4
<1>8. OneTail(g)
  <2>1. \A e \in Live(g) : g.mnext[e] = NOENTRY =>
          h.mnext[IF e = a THEN b ELSE e] = NOENTRY
    BY <1>2, <1>4, <1>5
  <2>2. \A e, f \in Live(h) : h.mnext[e] = NOENTRY /\ h.mnext[f] = NOENTRY => e = f
    BY DEF Tiled, OneTail
  <2> QED
    BY <1>4, <2>1, <2>2 DEF OneTail
<1>9. Acyclic(g)
  <2> SUFFICES ASSUME NEW S \in SUBSET Live(g), S # {}
               PROVE  \E e \in S : g.mnext[e] \notin S
    BY DEF Acyclic
  <2> DEFINE T == IF a \in S THEN S \cup {b} ELSE S
  <2>1. PICK e \in T : h.mnext[e] \notin T
    <3>1. T \in SUBSET Live(h) /\ T # {}
      BY <1>4
    <3> QED
      BY <3>1 DEF Tiled, Acyclic
  <2>2. CASE e = b
    <3>1. a \in S /\ h.mnext[b] \notin S
      BY <1>4, <2>1, <2>2
    <3> QED
      BY <1>1, <1>2, <3>1
  <2>3. CASE e # b
    <3>1. e \in S /\ e # a /\ h.mnext[e] \notin S
      BY <2>1, <2>3
    <3> QED
      BY <1>2, <1>5, <2>3, <3>1
  <2> QED
    BY <2>2, <2>3
<1>10. Partitioned(g)
  <2>1. Span(g, a) = Span(h, a) \cup Span(h, b)
    <3> DEFINE o == h.offset[a]
               m == h.size[a]
               n == h.size[b]
    <3>1. o \in Nat /\ m \in Nat /\ n \in Nat
      BY <1>1, <1>3
    <3>2. /\ Span(g, a) = o .. (o + (m + n) - 1)
          /\ Span(h, a) = o .. (o + m - 1)
          /\ Span(h, b) = (o + m) .. (o + m + n - 1)
      BY <1>1, <1>2 DEF Span
    <3> HIDE DEF o, m, n
    <3>3. o .. (o + (m + n) - 1) = (o .. (o + m - 1)) \cup ((o + m) .. (o + m + n - 1))
      BY <3>1
    <3> QED
      BY <3>2, <3>3
  <2>2. \A e \in Live(g) : e # a => Span(g, e) = Span(h, e)
    BY <1>2, <1>4, <1>5 DEF Span
  <2>3. /\ \A e \in Live(h) : Span(h, e) \subseteq Bytes
        /\ \A e, f \in Live(h) : e # f => Span(h, e) \cap Span(h, f) = {}
        /\ \A x \in Bytes : \E e \in Live(h) : x \in Span(h, e)
    BY DEF Tiled, Partitioned
  <2>4. \A e \in Live(g) : Span(g, e) \subseteq Bytes
    BY <1>4, <2>1, <2>2, <2>3
  <2>5. \A e, f \in Live(g) : e # f => Span(g, e) \cap Span(g, f) = {}
    BY <1>1, <1>4, <2>1, <2>2, <2>3
  <2>6. \A x \in Bytes : \E e \in Live(g) : x \in Span(g, e)
    BY <1>1, <1>4, <1>5, <2>1, <2>2, <2>3
  <2> QED
    BY <2>4, <2>5, <2>6 DEF Partitioned
<1> QED
  BY <1>4, <1>6, <1>7, <1>8, <1>9, <1>10 DEF Tiled, g

-----------------------------------------------------------------------------
(* The types and the index play no part in how the buffer is tiled.        *)
LEMMA SameList ==
  ASSUME NEW h, NEW g, Tiled(h),
         g.size = h.size, g.offset = h.offset,
         g.mprev = h.mprev, g.mnext = h.mnext,
         g.free_entries = h.free_entries
  PROVE  Tiled(g) /\ Live(g) = Live(h)
<1>1. Live(g) = Live(h)
  BY DEF Live
<1>2. \A e : Span(g, e) = Span(h, e)
  BY DEF Span
<1>3. StackOK(g) /\ Linked(g) /\ OneTail(g) /\ Acyclic(g)
  BY <1>1 DEF Tiled, StackOK, Linked, OneTail, Acyclic
<1>4. Partitioned(g)
  BY <1>1, <1>2 DEF Tiled, Partitioned
<1> QED
  BY <1>1, <1>3, <1>4 DEF Tiled

(* The left neighbour of a region in use is in use and points back.        *)
LEMMA LeftNeighbour ==
  ASSUME NEW h \in HeapType, Tiled(h), NEW v \in Live(h), h.mprev[v] # NOENTRY
  PROVE  h.mprev[v] \in Live(h) /\ h.mnext[h.mprev[v]] = v
  BY DEF Tiled, Linked

(* The right neighbour of a region in use is in use and points back.       *)
LEMMA RightNeighbour ==
  ASSUME NEW h \in HeapType, Tiled(h), NEW v \in Live(h), h.mnext[v] # NOENTRY
  PROVE  h.mnext[v] \in Live(h) /\ h.mprev[h.mnext[v]] = v
  BY DEF Tiled, Linked

(* The first half of an eviction: a free left neighbour swallows the       *)
(* victim.                                                                 *)
LEMMA MergeLeft ==
  ASSUME NEW h \in HeapType, Tiled(h), NEW v \in Live(h)
  PROVE  LET r == NewRegion(h, v)
             g == IF LeftIsFree(h, v) THEN Absorb(h, r, v) ELSE h
         IN /\ g \in HeapType /\ Tiled(g)
            /\ Live(g) = (Live(h) \ {v}) \cup {r}
            /\ r \in Live(h) /\ r \in Entries /\ v \in Entries
            /\ g.mnext[r] = h.mnext[v]
            /\ h.mnext[v] # r
            /\ g.free_idx = IF LeftIsFree(h, v) THEN h.free_idx \ {r, v}
                            ELSE h.free_idx
            /\ g.size[r] >= h.size[r] /\ g.size[r] >= h.size[v]
            /\ \A e \in Live(g) \ {r} :
                 /\ g.mnext[e] = h.mnext[e] /\ g.size[e] = h.size[e]
                 /\ g.offset[e] = h.offset[e]
            /\ \A e \in Live(g) : g.type[e] = h.type[e]
<1> DEFINE r == NewRegion(h, v)
           g == IF LeftIsFree(h, v) THEN Absorb(h, r, v) ELSE h
<1>1. /\ Live(h) \subseteq Entries /\ v \in Entries
      /\ h.size \in [Entries -> Nat]
  BY DEF Live, HeapType
<1>2. CASE LeftIsFree(h, v)
  <2>1. r = h.mprev[v] /\ g = Absorb(h, r, v) /\ h.mprev[v] # NOENTRY
    BY <1>2 DEF NewRegion, LeftIsFree
  <2>2. r \in Live(h) /\ h.mnext[r] = v
    BY <2>1, LeftNeighbour
  <2>3. r # v /\ h.mnext[v] # r /\ r \in Entries
    BY <2>2, Neighbours
  <2> HIDE DEF r, g
  <2>4. Live(g) = Live(h) \ {v} /\ Tiled(g)
    BY <2>1, <2>2, AbsorbTiled
  <2>5. Absorbed(g, h, r, v)
    BY <1>1, <2>1, <2>3, AbsorbFields
  <2>6. g.size[r] >= h.size[r] /\ g.size[r] >= h.size[v]
    BY <1>1, <2>3, <2>5 DEF Absorbed
  <2>7. Live(g) = (Live(h) \ {v}) \cup {r}
    BY <2>2, <2>3, <2>4
  <2>8. \A e \in Live(g) \ {r} :
                 /\ g.mnext[e] = h.mnext[e] /\ g.size[e] = h.size[e]
                 /\ g.offset[e] = h.offset[e]
    BY <1>1, <2>4, <2>5 DEF Absorbed
  <2>9. \A e \in Live(g) : g.type[e] = h.type[e]
    BY <1>1, <2>4, <2>5 DEF Absorbed
  <2>10. g.mnext[r] = h.mnext[v]
    BY <2>3, <2>5 DEF Absorbed
  <2> QED
    BY <1>1, <1>2, <2>2, <2>3, <2>4, <2>5, <2>6, <2>7, <2>8, <2>9, <2>10 DEF r, g, Absorbed
<1>3. CASE ~LeftIsFree(h, v)
  <2>1. r = v /\ g = h
    BY <1>3 DEF NewRegion
  <2>2. h.mnext[v] # v
    <3>1. \E e \in {v} : h.mnext[e] \notin {v}
      BY DEF Tiled, Acyclic
    <3> QED
      BY <3>1
  <2>3. h.size[v] >= h.size[v]
    BY <1>1
  <2> QED
    BY <1>1, <1>3, <2>1, <2>2, <2>3
<1> QED
  BY <1>2, <1>3

(* The second half: the hole swallows a free right neighbour.              *)
LEMMA EvictFacts ==
  ASSUME NEW h \in HeapType, Tiled(h), NEW v \in Live(h)
  PROVE  LET r == NewRegion(h, v)
             n == h.mnext[v]
             g == Evict(h, v)
         IN /\ g \in HeapType /\ Tiled(g)
            /\ r \in Live(h) /\ r \in Live(g)
            /\ Live(g) = (Live(h) \ IF RightIsFree(h, v) THEN {v, n} ELSE {v})
                            \cup {r}
            /\ RightIsFree(h, v) => n \in Live(h) /\ n # r /\ n # v
            /\ g.mnext[r] = IF RightIsFree(h, v) THEN h.mnext[n] ELSE n
            /\ g.free_idx = h.free_idx
                              \ ((IF LeftIsFree(h, v) THEN {r, v} ELSE {})
                         \cup (IF RightIsFree(h, v) THEN {r, n} ELSE {}))
            /\ g.size[r] >= h.size[r]
            /\ RightIsFree(h, v) => g.size[r] >= h.size[n]
            /\ \A e \in Live(g) \ {r} :
                 /\ g.mnext[e] = h.mnext[e] /\ g.size[e] = h.size[e]
                 /\ g.offset[e] = h.offset[e] /\ g.type[e] = h.type[e]
            /\ g.type[r] = FREE
<1> DEFINE r == NewRegion(h, v)
           n == h.mnext[v]
           h1 == IF LeftIsFree(h, v) THEN Absorb(h, r, v) ELSE h
           h2 == IF RightIsFree(h, v) THEN Absorb(h1, r, n) ELSE h1
           g == Evict(h, v)
<1>1. /\ h1 \in HeapType /\ Tiled(h1)
      /\ Live(h1) = (Live(h) \ {v}) \cup {r}
      /\ r \in Live(h) /\ r \in Entries /\ v \in Entries
      /\ h1.mnext[r] = n
      /\ n # r
      /\ h1.free_idx = IF LeftIsFree(h, v) THEN h.free_idx \ {r, v}
                       ELSE h.free_idx
      /\ h1.size[r] >= h.size[r]
      /\ \A e \in Live(h1) \ {r} :
           /\ h1.mnext[e] = h.mnext[e] /\ h1.size[e] = h.size[e]
           /\ h1.offset[e] = h.offset[e]
      /\ \A e \in Live(h1) : h1.type[e] = h.type[e]
  BY MergeLeft
<1>2. g = [h2 EXCEPT !.type[r] = FREE]
  BY DEF Evict
<1>3. Live(h) \subseteq Entries /\ Live(h1) \subseteq Entries
  BY DEF Live
<1>4. h1.size \in [Entries -> Nat] /\ h.size \in [Entries -> Nat]
  BY <1>1 DEF HeapType
<1> HIDE DEF r, h1, g
<1>5. /\ h2 \in HeapType /\ Tiled(h2)
      /\ r \in Live(h2)
      /\ Live(h2) = (Live(h) \ IF RightIsFree(h, v) THEN {v, n} ELSE {v})
                       \cup {r}
      /\ RightIsFree(h, v) => n \in Live(h) /\ n # r /\ n # v
      /\ h2.mnext[r] = IF RightIsFree(h, v) THEN h.mnext[n] ELSE n
      /\ h2.free_idx = h.free_idx
                         \ ((IF LeftIsFree(h, v) THEN {r, v} ELSE {})
                    \cup (IF RightIsFree(h, v) THEN {r, n} ELSE {}))
      /\ h2.size[r] >= h.size[r]
      /\ RightIsFree(h, v) => h2.size[r] >= h.size[n]
      /\ \A e \in Live(h2) \ {r} :
           /\ h2.mnext[e] = h.mnext[e] /\ h2.size[e] = h.size[e]
           /\ h2.offset[e] = h.offset[e] /\ h2.type[e] = h.type[e]
  <2>1. CASE RightIsFree(h, v)
    <3>1. n # NOENTRY /\ h2 = Absorb(h1, r, n)
      BY <2>1 DEF RightIsFree
    <3>2. n \in Live(h) /\ n # v
      <4>1. n \in Live(h)
        BY <3>1, RightNeighbour
      <4>2. \E e \in {v} : h.mnext[e] \notin {v}
        BY DEF Tiled, Acyclic
      <4> QED
        BY <4>1, <4>2
    <3>3. n \in Live(h1) /\ r \in Live(h1) /\ n \in Entries
      BY <1>1, <1>3, <3>2
    <3> HIDE DEF h2, n
    <3>4. Live(h2) = Live(h1) \ {n} /\ Tiled(h2)
      BY <1>1, <3>1, <3>3, AbsorbTiled
    <3>5. Absorbed(h2, h1, r, n)
      BY <1>1, <3>1, <3>3, AbsorbFields
    <3>6. h2.size[r] >= h.size[r] /\ h2.size[r] >= h.size[n]
      <4>1. h2.size[r] = h1.size[r] + h.size[n]
        BY <1>1, <3>3, <3>5 DEF Absorbed
      <4>2. h1.size[r] \in Nat /\ h.size[n] \in Nat /\ h.size[r] \in Nat
        BY <1>1, <1>4, <3>3
      <4> QED
        BY <1>1, <4>1, <4>2
    <3>7. Live(h2) = (Live(h) \ {v, n}) \cup {r}
      BY <1>1, <3>4
    <3>8. \A e \in Live(h2) \ {r} :
           /\ h2.mnext[e] = h.mnext[e] /\ h2.size[e] = h.size[e]
           /\ h2.offset[e] = h.offset[e] /\ h2.type[e] = h.type[e]
      BY <1>1, <1>3, <3>4, <3>5 DEF Absorbed
    <3>9. h2.mnext[r] = h.mnext[n]
      BY <1>1, <3>3, <3>5 DEF Absorbed
    <3>10. h2.free_idx = h.free_idx
                         \ ((IF LeftIsFree(h, v) THEN {r, v} ELSE {})
                              \cup {r, n})
      BY <1>1, <3>5 DEF Absorbed
    <3> QED
      BY <1>1, <2>1, <3>2, <3>3, <3>4, <3>5, <3>6, <3>7, <3>8, <3>9, <3>10 DEF Absorbed
  <2>2. CASE ~RightIsFree(h, v)
    BY <1>1, <2>2
  <2> QED
    BY <2>1, <2>2
<1> HIDE DEF h2
<1>6. /\ g.size = h2.size /\ g.offset = h2.offset
      /\ g.mprev = h2.mprev /\ g.mnext = h2.mnext
      /\ g.free_entries = h2.free_entries
      /\ g.free_idx = h2.free_idx
      /\ g.type = [h2.type EXCEPT ![r] = FREE]
      /\ g \in HeapType
  BY <1>1, <1>2, <1>5 DEF HeapType
<1>7. Tiled(g) /\ Live(g) = Live(h2)
  BY <1>5, <1>6, SameList
<1>8. g.type[r] = FREE /\ \A e \in Live(g) \ {r} : g.type[e] = h2.type[e]
  BY <1>1, <1>5, <1>6 DEF HeapType, Live
<1> QED
  BY <1>1, <1>5, <1>6, <1>7, <1>8 DEF r, g

(* An eviction frees the victim's bytes and nothing else, keeps holes      *)
(* apart, and leaves every hole but the one the request takes indexed.     *)
LEMMA EvictKeeps ==
  ASSUME NEW h \in HeapType, Tiled(h), Coalesced(h),
         NEW v \in BusyRegions(h),
         NEW fr \in FreeRegions(h) \cup {NOENTRY},
         h.free_idx = FreeRegions(h) \ {fr},
         NEW sz \in Nat
  PROVE  LET g == HeapAfterEvict(h, v, fr, sz)
             r == RegionAfterEvict(h, v, fr, sz)
         IN /\ g \in HeapType /\ Tiled(g) /\ Coalesced(g)
            /\ BusyRegions(g) = BusyRegions(h) \ {v}
            /\ \A e \in BusyRegions(g) :
                 g.offset[e] = h.offset[e] /\ g.size[e] = h.size[e]
            /\ r \in FreeRegions(g) \cup {NOENTRY}
            /\ g.free_idx = FreeRegions(g) \ {r}
            /\ fr # NOENTRY => r # NOENTRY /\ g.size[r] >= h.size[fr]
<1> DEFINE w == NewRegion(h, v)
           n == h.mnext[v]
           x == Evict(h, v)
           g == HeapAfterEvict(h, v, fr, sz)
           r == RegionAfterEvict(h, v, fr, sz)
<1>1. v \in Live(h) /\ h.type[v] = BUSY /\ BUSY # FREE
  BY DEF BusyRegions, BUSY, FREE
<1>2. /\ x \in HeapType /\ Tiled(x)
      /\ w \in Live(h) /\ w \in Live(x)
      /\ Live(x) = (Live(h) \ IF RightIsFree(h, v) THEN {v, n} ELSE {v})
                      \cup {w}
      /\ RightIsFree(h, v) => n \in Live(h) /\ n # w /\ n # v
      /\ x.mnext[w] = IF RightIsFree(h, v) THEN h.mnext[n] ELSE n
      /\ x.free_idx = h.free_idx
                        \ ((IF LeftIsFree(h, v) THEN {w, v} ELSE {})
                   \cup (IF RightIsFree(h, v) THEN {w, n} ELSE {}))
      /\ x.size[w] >= h.size[w]
      /\ RightIsFree(h, v) => x.size[w] >= h.size[n]
      /\ \A e \in Live(x) \ {w} :
           /\ x.mnext[e] = h.mnext[e] /\ x.size[e] = h.size[e]
           /\ x.offset[e] = h.offset[e] /\ x.type[e] = h.type[e]
      /\ x.type[w] = FREE
  BY <1>1, EvictFacts
<1>3. /\ Live(h) \subseteq Entries /\ Live(x) \subseteq Entries
      /\ h.type \in [Entries -> {FREE, BUSY}]
      /\ h.size \in [Entries -> Nat]
  BY DEF Live, HeapType
<1>4. w = IF LeftIsFree(h, v) THEN h.mprev[v] ELSE v
  BY DEF NewRegion
<1>5. /\ LeftIsFree(h, v) => h.type[h.mprev[v]] = FREE
      /\ RightIsFree(h, v) <=> n # NOENTRY /\ h.type[n] = FREE
  BY DEF LeftIsFree, RightIsFree
<1> HIDE DEF w, n, x
<1>6. BusyRegions(x) = BusyRegions(h) \ {v}
  BY <1>1, <1>2, <1>4, <1>5 DEF BusyRegions
<1>7. /\ FreeRegions(x) \ {w} = FreeRegions(h)
                          \ (IF RightIsFree(h, v) THEN {w, n} ELSE {w})
      /\ w \in FreeRegions(x)
  BY <1>1, <1>2, <1>4, <1>5 DEF FreeRegions
<1>8. v \notin FreeRegions(h)
  BY <1>1 DEF FreeRegions
<1>9. x.free_idx = FreeRegions(x) \ {w, fr}
  BY <1>2, <1>4, <1>7, <1>8
<1>10. Coalesced(x)
  <2> SUFFICES ASSUME NEW e \in FreeRegions(x), x.mnext[e] # NOENTRY
               PROVE  x.type[x.mnext[e]] = BUSY
    BY DEF Coalesced
  <2>1. x.mnext[e] \in Live(x)
    BY <1>2 DEF FreeRegions, Tiled, Linked
  <2>2. x.mnext[e] # w => x.type[x.mnext[e]] = h.type[x.mnext[e]]
    BY <1>2, <2>1
  <2>3. CASE e = w
    <3>1. CASE RightIsFree(h, v)
      <4>1. n \in FreeRegions(h) /\ x.mnext[w] = h.mnext[n]
        BY <1>2, <1>5, <3>1 DEF FreeRegions
      <4>2. h.type[x.mnext[w]] = BUSY
        BY <2>3, <4>1 DEF Coalesced
      <4>3. x.mnext[w] # w
        <5>1. CASE LeftIsFree(h, v)
          BY <1>1, <1>4, <1>5, <4>2, <5>1
        <5>2. CASE ~LeftIsFree(h, v)
          <6>1. h.mnext[n] # v
            BY <1>1, <1>2, <3>1, Neighbours DEF n
          <6> QED
            BY <1>4, <4>1, <5>2, <6>1
        <5> QED
          BY <5>1, <5>2
      <4> QED
        BY <2>2, <2>3, <4>2, <4>3
    <3>2. CASE ~RightIsFree(h, v)
      <4>1. x.mnext[w] = n /\ n # NOENTRY /\ h.type[n] # FREE
        BY <1>2, <1>5, <2>3, <3>2
      <4>2. n \in Live(h)
        BY <1>1, <4>1, RightNeighbour DEF n
      <4>3. h.type[n] = BUSY
        BY <1>3, <4>1, <4>2
      <4>4. n # w
        <5>1. CASE LeftIsFree(h, v)
          BY <1>1, <1>4, <1>5, <4>1, <5>1
        <5>2. CASE ~LeftIsFree(h, v)
          BY <1>1, <1>4, <4>2, <5>2, Neighbours DEF n
        <5> QED
          BY <5>1, <5>2
      <4> QED
        BY <2>2, <2>3, <4>1, <4>3, <4>4
    <3> QED
      BY <3>1, <3>2
  <2>4. CASE e # w
    <3>1. e \in FreeRegions(h) /\ x.mnext[e] = h.mnext[e]
      BY <1>2, <1>7, <2>4 DEF FreeRegions
    <3>2. h.type[h.mnext[e]] = BUSY /\ h.mnext[e] # NOENTRY
      BY <3>1 DEF Coalesced
    <3>3. h.mnext[e] # w
      <4>1. CASE LeftIsFree(h, v)
        BY <1>1, <1>4, <1>5, <3>2, <4>1
      <4>2. CASE ~LeftIsFree(h, v)
        <5>1. SUFFICES ASSUME h.mnext[e] = v PROVE FALSE
          BY <1>4, <4>2
        <5>2. h.mprev[v] = e /\ e \in Entries
          BY <1>1, <3>1, <5>1, Neighbours DEF FreeRegions
        <5> QED
          BY <3>1, <4>2, <5>2, NoEntry DEF LeftIsFree, FreeRegions
      <4> QED
        BY <4>1, <4>2
    <3> QED
      BY <2>2, <3>1, <3>2, <3>3
  <2> QED
    BY <2>3, <2>4
<1>11. fr # NOENTRY => fr \in FreeRegions(h)
  OBVIOUS
<1>12. Expanded(h, v, fr) <=>
         \/ LeftIsFree(h, v) /\ w = fr
         \/ RightIsFree(h, v) /\ n = fr
  BY <1>4 DEF Expanded, n
<1>13. CASE TakesNewRegion(h, v, fr, sz)
  <2>1. g = x /\ r = w
    BY <1>13 DEF HeapAfterEvict, RegionAfterEvict, x, w
  <2>2. fr = NOENTRY \/ Expanded(h, v, fr)
    BY <1>13 DEF TakesNewRegion
  <2>3. fr \notin FreeRegions(x) \ {w}
    BY <1>2, <1>3, <1>12, <2>2, NoEntry DEF FreeRegions
  <2>4. g.free_idx = FreeRegions(g) \ {r}
    BY <1>9, <2>1, <2>3
  <2>5. fr # NOENTRY => r # NOENTRY /\ g.size[r] >= h.size[fr]
    BY <1>2, <1>3, <1>12, <2>1, <2>2, NoEntry
  <2>6. \A e \in BusyRegions(g) :
          g.offset[e] = h.offset[e] /\ g.size[e] = h.size[e]
    BY <1>1, <1>2, <2>1 DEF BusyRegions
  <2> QED
    BY <1>2, <1>6, <1>7, <1>10, <2>1, <2>4, <2>5, <2>6
<1>14. CASE ~TakesNewRegion(h, v, fr, sz)
  <2>1. g = [x EXCEPT !.free_idx = @ \cup {w}] /\ r = fr
    BY <1>14 DEF HeapAfterEvict, RegionAfterEvict, x, w
  <2>2. ~Expanded(h, v, fr)
    BY <1>14 DEF TakesNewRegion
  <2> HIDE DEF g, r
  <2>3. /\ g.size = x.size /\ g.offset = x.offset /\ g.type = x.type
        /\ g.mprev = x.mprev /\ g.mnext = x.mnext
        /\ g.free_entries = x.free_entries
        /\ g.free_idx = x.free_idx \cup {w}
        /\ g \in HeapType
    BY <1>2, <1>3, <2>1 DEF HeapType
  <2>4. Tiled(g) /\ Live(g) = Live(x)
    BY <1>2, <2>3, SameList
  <2>5. FreeRegions(g) = FreeRegions(x) /\ BusyRegions(g) = BusyRegions(x)
    BY <2>3, <2>4 DEF FreeRegions, BusyRegions
  <2>6. Coalesced(g)
    BY <1>10, <2>3, <2>5 DEF Coalesced
  <2>7. fr # w
    BY <1>1, <1>2, <1>3, <1>4, <1>8, <1>12, <2>2, NoEntry
  <2>8. g.free_idx = FreeRegions(g) \ {r}
    BY <1>7, <1>9, <2>1, <2>3, <2>5, <2>7
  <2>9. fr # NOENTRY => fr \in FreeRegions(x) \ {w}
    BY <1>7, <1>11, <1>12, <2>2, <2>7
  <2>10. fr # NOENTRY => r # NOENTRY /\ g.size[r] >= h.size[fr]
    BY <1>2, <1>3, <2>1, <2>3, <2>9 DEF FreeRegions
  <2>11. \A e \in BusyRegions(g) :
           g.offset[e] = h.offset[e] /\ g.size[e] = h.size[e]
    BY <1>1, <1>2, <2>3, <2>5 DEF BusyRegions
  <2> QED
    BY <1>6, <2>1, <2>3, <2>4, <2>5, <2>6, <2>8, <2>9, <2>10, <2>11 DEF g, r
<1> QED
  BY <1>13, <1>14

-----------------------------------------------------------------------------
(* Splitting region r: e takes its left end.                               *)
Split(g, h, r, e, sz) ==
  /\ g \in HeapType
  /\ \A f \in Entries :
       /\ g.type[f] = IF f = e THEN BUSY ELSE h.type[f]
       /\ g.size[f] = IF f = e THEN sz
                      ELSE IF f = r THEN h.size[r] - sz ELSE h.size[f]
       /\ g.offset[f] = IF f = e THEN h.offset[r]
                        ELSE IF f = r THEN h.offset[r] + sz ELSE h.offset[f]
       /\ g.mprev[f] = IF f = e THEN h.mprev[r]
                       ELSE IF f = r THEN e ELSE h.mprev[f]
       /\ g.mnext[f] = IF f = e THEN r
                       ELSE IF f = h.mprev[r] THEN e ELSE h.mnext[f]
  /\ g.free_entries = Front(h.free_entries)
  /\ g.free_idx = h.free_idx \cup {r}

(* A placement that does not fill its region does to the fields what Split *)
(* says, with a descriptor from the stack.                                 *)
LEMMA CarveSplits ==
  ASSUME NEW h \in HeapType, StackOK(h), NEW r \in Live(h), NEW sz \in Nat,
         h.size[r] > sz, h.free_entries # <<>>
  PROVE  /\ Split(Carve(h, r, sz), h, r, NewEntry(h, r, sz), sz)
         /\ NewEntry(h, r, sz) = Last(h.free_entries)
         /\ NewEntry(h, r, sz) \in Entries \ Live(h)
         /\ r \in Entries
<1> DEFINE e == NewEntry(h, r, sz)
           g == Carve(h, r, sz)
<1>1. /\ h.type \in [Entries -> {FREE, BUSY}]
      /\ h.size \in [Entries -> Nat]
      /\ h.offset \in [Entries -> Nat]
      /\ h.mprev \in [Entries -> Entries \cup {NOENTRY}]
      /\ h.mnext \in [Entries -> Entries \cup {NOENTRY}]
      /\ h.free_entries \in Seq(Entries)
      /\ h.free_idx \subseteq Entries
      /\ r \in Entries
  BY DEF HeapType, Live
<1>2. h.size[r] # sz /\ h.size[r] - sz \in Nat
  BY <1>1
<1>2a. /\ Last(h.free_entries) \in Range(h.free_entries)
      /\ Last(h.free_entries) \in Entries
      /\ Front(h.free_entries) \in Seq(Entries)
  <2> HIDE DEF e, g
  <2> QED
    BY <1>1, FrontFacts DEF StackOK
<1>3. e = Last(h.free_entries)
  BY <1>2 DEF NewEntry
<1>4. g = [type   |-> [h.type EXCEPT ![e] = BUSY],
           size   |-> [h.size EXCEPT ![e] = sz, ![r] = h.size[r] - sz],
           offset |-> [h.offset EXCEPT ![e] = h.offset[r],
                                       ![r] = h.offset[r] + sz],
           mprev  |-> [h.mprev EXCEPT ![e] = h.mprev[r], ![r] = e],
           mnext  |-> [f \in Entries |-> IF f = e THEN r
                                         ELSE IF f = h.mprev[r] THEN e
                                         ELSE h.mnext[f]],
           free_entries |-> Front(h.free_entries),
           free_idx     |-> h.free_idx \cup {r}]
      /\ e # r
  <2>1. Last(h.free_entries) # r
    BY <1>2a DEF Live
  <2>2. e # r
    BY <1>3, <2>1
  <2> QED
    BY <1>1, <1>2, <2>2 DEF Carve
<1> HIDE DEF e, g
<1>5. e \in Entries \ Live(h)
  BY <1>3, <1>2a DEF Live
<1>6. /\ g.free_entries = Front(h.free_entries)
      /\ g.free_idx = h.free_idx \cup {r}
      /\ g.type = [h.type EXCEPT ![e] = BUSY]
      /\ g.mnext = [f \in Entries |-> IF f = e THEN r
                                      ELSE IF f = h.mprev[r] THEN e
                                      ELSE h.mnext[f]]
  BY <1>4
<1>7. /\ g.mprev = [h.mprev EXCEPT ![e] = h.mprev[r], ![r] = e]
      /\ g.offset = [h.offset EXCEPT ![e] = h.offset[r],
                                     ![r] = h.offset[r] + sz]
      /\ g.size = [h.size EXCEPT ![e] = sz, ![r] = h.size[r] - sz]
  BY <1>4
<1>8. \A f \in Entries :
       /\ g.type[f] = IF f = e THEN BUSY ELSE h.type[f]
       /\ g.size[f] = IF f = e THEN sz
                      ELSE IF f = r THEN h.size[r] - sz ELSE h.size[f]
       /\ g.offset[f] = IF f = e THEN h.offset[r]
                        ELSE IF f = r THEN h.offset[r] + sz ELSE h.offset[f]
       /\ g.mprev[f] = IF f = e THEN h.mprev[r]
                       ELSE IF f = r THEN e ELSE h.mprev[f]
       /\ g.mnext[f] = IF f = e THEN r
                       ELSE IF f = h.mprev[r] THEN e ELSE h.mnext[f]
  <2> TAKE f \in Entries
  <2>1. e \in Entries /\ e # r
    BY <1>4, <1>5
  <2>2. g.type[f] = IF f = e THEN BUSY ELSE h.type[f]
    BY <1>1, <1>6
  <2>3. g.size[f] = IF f = e THEN sz
                    ELSE IF f = r THEN h.size[r] - sz ELSE h.size[f]
    BY <1>1, <1>7, <2>1
  <2>4. g.offset[f] = IF f = e THEN h.offset[r]
                      ELSE IF f = r THEN h.offset[r] + sz ELSE h.offset[f]
    BY <1>1, <1>7, <2>1
  <2>5. g.mprev[f] = IF f = e THEN h.mprev[r]
                     ELSE IF f = r THEN e ELSE h.mprev[f]
    BY <1>1, <1>7, <2>1
  <2>6. g.mnext[f] = IF f = e THEN r
                     ELSE IF f = h.mprev[r] THEN e ELSE h.mnext[f]
    BY <1>6
  <2> QED
    BY <2>2, <2>3, <2>4, <2>5, <2>6
<1>9. g \in HeapType
  <2>1. g.type \in [Entries -> {FREE, BUSY}]
    BY <1>1, <1>5, <1>6
  <2>2. /\ DOMAIN g.size = Entries /\ DOMAIN g.offset = Entries
        /\ DOMAIN g.mprev = Entries
        /\ g.size = [f \in Entries |-> g.size[f]]
        /\ g.offset = [f \in Entries |-> g.offset[f]]
        /\ g.mprev = [f \in Entries |-> g.mprev[f]]
    BY <1>1, <1>7
  <2>3. \A f \in Entries :
          /\ g.size[f] \in Nat /\ g.offset[f] \in Nat
          /\ g.mprev[f] \in Entries \cup {NOENTRY}
    <3> TAKE f \in Entries
    <3>1. CASE f = e
      BY <1>1, <1>5, <1>8, <3>1
    <3>2. CASE f # e /\ f = r
      <4>1. h.offset[r] + sz \in Nat
        BY <1>1
      <4> QED
        BY <1>2, <1>5, <1>8, <3>2, <4>1
    <3>3. CASE f # e /\ f # r
      BY <1>1, <1>8, <3>3
    <3> QED
      BY <3>1, <3>2, <3>3
  <2>4. /\ g.size \in [Entries -> Nat] /\ g.offset \in [Entries -> Nat]
        /\ g.mprev \in [Entries -> Entries \cup {NOENTRY}]
    BY <2>2, <2>3
  <2>5. g.mnext \in [Entries -> Entries \cup {NOENTRY}]
    BY <1>1, <1>5, <1>6
  <2>6. g.free_entries \in Seq(Entries) /\ g.free_idx \subseteq Entries
    BY <1>1, <1>2a, <1>6
  <2> QED
    BY <1>4, <2>1, <2>4, <2>5, <2>6 DEF HeapType
<1> QED
  BY <1>1, <1>3, <1>5, <1>6, <1>8, <1>9 DEF Split, e, g

(* Cutting a region in two keeps the list sound and the buffer tiled, and  *)
(* puts one more descriptor in use.                                        *)
LEMMA SplitTiled ==
  ASSUME NEW h \in HeapType, Tiled(h), NEW r \in Live(h), NEW sz \in Nat,
         h.size[r] > sz, h.free_entries # <<>>,
         NEW g, NEW e, e = Last(h.free_entries), Split(g, h, r, e, sz)
  PROVE  Tiled(g) /\ Live(g) = Live(h) \cup {e} /\ e \notin Live(h)
<1>1. /\ h.size \in [Entries -> Nat]
      /\ h.offset \in [Entries -> Nat]
      /\ h.mprev \in [Entries -> Entries \cup {NOENTRY}]
      /\ h.mnext \in [Entries -> Entries \cup {NOENTRY}]
      /\ h.free_entries \in Seq(Entries)
      /\ IsInjective(h.free_entries)
      /\ r \in Entries /\ Live(h) \subseteq Entries
  BY DEF HeapType, Live, Tiled, StackOK
<1>2. /\ e \in Entries /\ e \in Range(h.free_entries)
      /\ IsInjective(Front(h.free_entries))
      /\ Range(Front(h.free_entries)) = Range(h.free_entries) \ {e}
  BY <1>1, FrontFacts
<1>3. e \notin Live(h) /\ e # r /\ e # NOENTRY
  BY <1>2, NoEntry DEF Live
<1>4. StackOK(g) /\ Live(g) = Live(h) \cup {e}
  BY <1>2 DEF Split, StackOK, Live
<1>5. \A f \in Entries :
       /\ g.size[f] = IF f = e THEN sz
                      ELSE IF f = r THEN h.size[r] - sz ELSE h.size[f]
       /\ g.offset[f] = IF f = e THEN h.offset[r]
                        ELSE IF f = r THEN h.offset[r] + sz ELSE h.offset[f]
       /\ g.mprev[f] = IF f = e THEN h.mprev[r]
                       ELSE IF f = r THEN e ELSE h.mprev[f]
       /\ g.mnext[f] = IF f = e THEN r
                       ELSE IF f = h.mprev[r] THEN e ELSE h.mnext[f]
  BY DEF Split
<1>6. \A f \in Live(h) :
        /\ f \in Entries /\ f # e
        /\ h.mnext[f] # NOENTRY =>
             /\ h.mnext[f] \in Live(h)
             /\ h.mprev[h.mnext[f]] = f
             /\ h.offset[h.mnext[f]] = h.offset[f] + h.size[f]
        /\ h.mnext[f] = NOENTRY => h.offset[f] + h.size[f] = mem_size
        /\ h.mprev[f] # NOENTRY =>
             /\ h.mprev[f] \in Live(h)
             /\ h.mnext[h.mprev[f]] = f
        /\ h.mprev[f] = NOENTRY => h.offset[f] = 0
  BY <1>1, <1>3 DEF Tiled, Linked
<1>7. h.mnext[r] # r /\ h.mprev[r] # r
  <2>1. \E f \in {r} : h.mnext[f] \notin {r}
    BY DEF Tiled, Acyclic
  <2> QED
    BY <1>3, <1>6, <2>1, <1>1, NoEntry
<1>8. ASSUME NEW f \in Live(h), f # h.mprev[r]
      PROVE  h.mnext[f] # r
  BY <1>6, <1>8, <1>1, NoEntry
<1>9. ASSUME NEW f \in Live(g)
      PROVE  /\ g.mnext[f] # NOENTRY =>
                  /\ g.mnext[f] \in Live(g)
                  /\ g.mprev[g.mnext[f]] = f
                  /\ g.offset[g.mnext[f]] = g.offset[f] + g.size[f]
             /\ g.mnext[f] = NOENTRY => g.offset[f] + g.size[f] = mem_size
  <2>1. CASE f = e
    <3>1. /\ g.mnext[e] = r /\ g.size[e] = sz /\ g.offset[e] = h.offset[r]
          /\ g.mprev[r] = e /\ g.offset[r] = h.offset[r] + sz
      BY <1>1, <1>2, <1>3, <1>5
    <3>2. r \in Live(g) /\ r # NOENTRY
      BY <1>1, <1>4, NoEntry
    <3> QED
      BY <2>1, <3>1, <3>2
  <2>2. CASE f # e /\ f = h.mprev[r]
    <3>1. f \in Live(h) /\ h.mnext[f] = r /\ f # r
      BY <1>4, <1>6, <1>7, <1>9, <2>2, <1>1, NoEntry
    <3>2. g.mnext[f] = e /\ g.mprev[e] = f /\ g.offset[e] = h.offset[r]
      BY <1>1, <1>2, <1>5, <2>2, <3>1
    <3>3. g.offset[f] = h.offset[f] /\ g.size[f] = h.size[f]
      BY <1>1, <1>5, <2>2, <3>1
    <3>4. h.offset[r] = h.offset[f] + h.size[f]
      BY <1>1, <1>6, <3>1, NoEntry
    <3> QED
      BY <1>3, <1>4, <3>2, <3>3, <3>4
  <2>3. CASE f # e /\ f # h.mprev[r]
    <3>1. f \in Live(h) /\ f \in Entries /\ h.mnext[f] # r
      BY <1>1, <1>4, <1>8, <2>3
    <3>2. g.mnext[f] = h.mnext[f]
      BY <1>5, <2>3, <3>1
    <3>3. g.offset[f] + g.size[f] = h.offset[f] + h.size[f]
      BY <1>1, <1>5, <2>3, <3>1
    <3>4. ASSUME h.mnext[f] # NOENTRY
          PROVE  /\ h.mnext[f] \in Live(h) /\ h.mnext[f] # e
                 /\ g.mprev[h.mnext[f]] = f
                 /\ g.offset[h.mnext[f]] = h.offset[h.mnext[f]]
      <4>1. h.mnext[f] \in Live(h) /\ h.mprev[h.mnext[f]] = f
        BY <1>6, <3>1, <3>4
      <4>2. h.mnext[f] \in Entries /\ h.mnext[f] # e
        BY <1>6, <4>1
      <4> QED
        BY <1>5, <3>1, <4>1, <4>2
    <3> QED
      BY <1>4, <1>6, <3>1, <3>2, <3>3, <3>4
  <2> QED
    BY <2>1, <2>2, <2>3
<1>10. ASSUME NEW f \in Live(g)
       PROVE  /\ g.mprev[f] # NOENTRY =>
                   /\ g.mprev[f] \in Live(g)
                   /\ g.mnext[g.mprev[f]] = f
              /\ g.mprev[f] = NOENTRY => g.offset[f] = 0
  <2>1. CASE f = e
    <3>1. g.mprev[e] = h.mprev[r] /\ g.offset[e] = h.offset[r]
      BY <1>2, <1>5
    <3>2. h.mprev[r] # NOENTRY => h.mprev[r] \in Live(h) /\ h.mprev[r] # e
      BY <1>6
    <3>3. h.mprev[r] # NOENTRY => g.mnext[h.mprev[r]] = e
      BY <1>1, <1>5, <3>2
    <3> QED
      BY <1>4, <1>6, <2>1, <3>1, <3>2, <3>3
  <2>2. CASE f = r
    BY <1>1, <1>2, <1>3, <1>4, <1>5, <2>2
  <2>3. CASE f # e /\ f # r
    <3>1. f \in Live(h) /\ f \in Entries
      BY <1>1, <1>4, <2>3
    <3>2. g.mprev[f] = h.mprev[f] /\ g.offset[f] = h.offset[f]
      BY <1>5, <2>3, <3>1
    <3>3. ASSUME h.mprev[f] # NOENTRY
          PROVE  h.mprev[f] \in Live(h) /\ g.mnext[h.mprev[f]] = f
      <4>1. h.mprev[f] \in Live(h) /\ h.mnext[h.mprev[f]] = f
        BY <1>6, <3>1, <3>3
      <4>2. h.mprev[f] # h.mprev[r]
        <5>1. h.mprev[f] = h.mprev[r] => h.mnext[h.mprev[r]] = r
          BY <1>6, <3>3
        <5> QED
          BY <2>3, <4>1, <5>1
      <4>3. h.mprev[f] \in Entries /\ h.mprev[f] # e
        BY <1>6, <4>1
      <4> QED
        BY <1>5, <4>1, <4>2, <4>3
    <3> QED
      BY <1>4, <1>6, <3>1, <3>2, <3>3
  <2> QED
    BY <2>1, <2>2, <2>3
<1>11. Linked(g)
  BY <1>9, <1>10 DEF Linked
<1>12. OneTail(g)
  <2>1. \A f \in Live(g) : g.mnext[f] = NOENTRY =>
          f \in Live(h) /\ h.mnext[f] = NOENTRY
    BY <1>1, <1>2, <1>3, <1>4, <1>5, NoEntry
  <2> QED
    BY <2>1 DEF Tiled, OneTail
<1>13. Acyclic(g)
  <2> SUFFICES ASSUME NEW S \in SUBSET Live(g), S # {}
               PROVE  \E f \in S : g.mnext[f] \notin S
    BY DEF Acyclic
  <2>1. g.mnext[e] = r
    BY <1>2, <1>5
  <2>2. CASE S \ {e} = {}
    <3>1. S = {e}
      BY <2>2
    <3> QED
      BY <1>3, <2>1, <3>1
  <2>3. CASE S \ {e} # {}
    <3>1. PICK f \in S \ {e} : h.mnext[f] \notin S \ {e}
      <4>1. S \ {e} \in SUBSET Live(h)
        BY <1>4
      <4> QED
        BY <2>3, <4>1 DEF Tiled, Acyclic
    <3>2. f \in Live(h) /\ f \in Entries
      BY <1>1, <1>4
    <3>3. CASE f = h.mprev[r]
      <4>1. h.mnext[f] = r /\ g.mnext[f] = e
        BY <1>1, <1>5, <1>6, <3>1, <3>2, <3>3, NoEntry
      <4>2. r \notin S
        BY <1>3, <3>1, <4>1
      <4> QED
        BY <2>1, <3>1, <4>1, <4>2
    <3>4. CASE f # h.mprev[r]
      <4>1. g.mnext[f] = h.mnext[f]
        BY <1>5, <3>1, <3>2, <3>4
      <4>2. h.mnext[f] # e
        BY <1>3, <1>6, <3>2
      <4> QED
        BY <3>1, <4>1, <4>2
    <3> QED
      BY <3>3, <3>4
  <2> QED
    BY <2>2, <2>3
<1>14. Partitioned(g)
  <2> DEFINE o == h.offset[r]
             m == h.size[r]
  <2>1. o \in Nat /\ m \in Nat /\ sz < m
    BY <1>1
  <2>2. /\ Span(h, r) = o .. (o + m - 1)
        /\ Span(g, e) = o .. (o + sz - 1)
        /\ Span(g, r) = (o + sz) .. (o + sz + (m - sz) - 1)
    BY <1>1, <1>2, <1>3, <1>5 DEF Span
  <2> HIDE DEF o, m
  <2>3. /\ Span(h, r) = Span(g, e) \cup Span(g, r)
        /\ Span(g, e) \cap Span(g, r) = {}
    BY <2>1, <2>2
  <2>4. \A f \in Live(h) : f # r => Span(g, f) = Span(h, f)
    BY <1>5, <1>6 DEF Span
  <2>5. /\ \A f \in Live(h) : Span(h, f) \subseteq Bytes
        /\ \A f1, f2 \in Live(h) : f1 # f2 => Span(h, f1) \cap Span(h, f2) = {}
        /\ \A x \in Bytes : \E f \in Live(h) : x \in Span(h, f)
    BY DEF Tiled, Partitioned
  <2>6. \A f \in Live(g) : Span(g, f) \subseteq Bytes
    BY <1>4, <2>3, <2>4, <2>5
  <2>7. \A f1, f2 \in Live(g) : f1 # f2 => Span(g, f1) \cap Span(g, f2) = {}
    BY <1>4, <2>3, <2>4, <2>5
  <2>8. \A x \in Bytes : \E f \in Live(g) : x \in Span(g, f)
    BY <1>4, <2>3, <2>4, <2>5
  <2> QED
    BY <2>6, <2>7, <2>8 DEF Partitioned
<1> QED
  BY <1>3, <1>4, <1>11, <1>12, <1>13, <1>14 DEF Tiled

(* Placing a request keeps all that holds of the heap, and makes one more  *)
(* region busy: the one that holds the request.                            *)
LEMMA CarveKeeps ==
  ASSUME NEW h \in HeapType, Tiled(h), Coalesced(h),
         NEW r \in FreeRegions(h), h.free_idx = FreeRegions(h) \ {r},
         NEW sz \in Nat, h.size[r] >= sz,
         h.size[r] # sz => h.free_entries # <<>>
  PROVE  LET g == Carve(h, r, sz)
             e == NewEntry(h, r, sz)
         IN /\ g \in HeapType /\ Tiled(g) /\ Coalesced(g) /\ Indexed(g)
            /\ e \in Entries \ BusyRegions(h)
            /\ BusyRegions(g) = BusyRegions(h) \cup {e}
            /\ FreeRegions(g) \subseteq FreeRegions(h)
            /\ g.size[e] = sz /\ g.offset[e] = h.offset[r]
            /\ \A f \in BusyRegions(h) :
                 g.offset[f] = h.offset[f] /\ g.size[f] = h.size[f]
<1> DEFINE g == Carve(h, r, sz)
           e == NewEntry(h, r, sz)
<1>1. /\ r \in Live(h) /\ r \in Entries /\ h.type[r] = FREE /\ FREE # BUSY
      /\ h.type \in [Entries -> {FREE, BUSY}]
      /\ h.size \in [Entries -> Nat]
      /\ Live(h) \subseteq Entries
  BY DEF FreeRegions, Live, HeapType, FREE, BUSY
<1>2. CASE h.size[r] = sz
  <2>1. e = r /\ g = [h EXCEPT !.type[r] = BUSY]
    BY <1>2 DEF NewEntry, Carve
  <2> HIDE DEF e, g
  <2>2. /\ g.size = h.size /\ g.offset = h.offset
        /\ g.type = [h.type EXCEPT ![r] = BUSY]
        /\ g.mprev = h.mprev /\ g.mnext = h.mnext
        /\ g.free_entries = h.free_entries /\ g.free_idx = h.free_idx
        /\ g \in HeapType
    BY <1>1, <2>1 DEF HeapType
  <2>3. Tiled(g) /\ Live(g) = Live(h)
    BY <2>2, SameList
  <2>4. /\ BusyRegions(g) = BusyRegions(h) \cup {r}
        /\ FreeRegions(g) = FreeRegions(h) \ {r}
        /\ r \notin BusyRegions(h)
    BY <1>1, <2>2, <2>3 DEF BusyRegions, FreeRegions
  <2>5. Indexed(g)
    BY <2>2, <2>4 DEF Indexed
  <2>6. Coalesced(g)
    <3> SUFFICES ASSUME NEW f \in FreeRegions(g), g.mnext[f] # NOENTRY
                 PROVE  g.type[g.mnext[f]] = BUSY
      BY DEF Coalesced
    <3>1. f \in FreeRegions(h) /\ g.mnext[f] = h.mnext[f]
      BY <2>2, <2>4
    <3>2. h.type[h.mnext[f]] = BUSY
      BY <3>1 DEF Coalesced
    <3>3. h.mnext[f] \in Live(h)
      BY <3>1, RightNeighbour DEF FreeRegions
    <3> QED
      BY <1>1, <2>2, <3>1, <3>2, <3>3
  <2> QED
    BY <1>1, <1>2, <2>1, <2>2, <2>3, <2>4, <2>5, <2>6 DEF e, g
<1>3. CASE h.size[r] # sz
  <2>1. h.size[r] > sz /\ h.free_entries # <<>>
    BY <1>1, <1>3
  <2>2. Split(g, h, r, e, sz) /\ e = Last(h.free_entries)
    BY <1>1, <2>1, CarveSplits DEF Tiled
  <2> HIDE DEF e, g
  <2>3. Tiled(g) /\ Live(g) = Live(h) \cup {e} /\ e \notin Live(h)
    BY <1>1, <2>1, <2>2, SplitTiled
  <2>4. /\ g \in HeapType /\ e \in Entries
        /\ g.free_idx = FreeRegions(h)
        /\ \A f \in Entries :
             /\ g.type[f] = IF f = e THEN BUSY ELSE h.type[f]
             /\ g.size[f] = IF f = e THEN sz
                            ELSE IF f = r THEN h.size[r] - sz ELSE h.size[f]
             /\ g.offset[f] = IF f = e THEN h.offset[r]
                              ELSE IF f = r THEN h.offset[r] + sz ELSE h.offset[f]
             /\ g.mnext[f] = IF f = e THEN r
                             ELSE IF f = h.mprev[r] THEN e ELSE h.mnext[f]
    BY <2>2, <2>3 DEF Split, Live
  <2>5. /\ BusyRegions(g) = BusyRegions(h) \cup {e}
        /\ FreeRegions(g) = FreeRegions(h)
        /\ e \notin BusyRegions(h)
    BY <1>1, <2>3, <2>4 DEF BusyRegions, FreeRegions
  <2>6. Indexed(g)
    BY <2>4, <2>5 DEF Indexed
  <2>7. Coalesced(g)
    <3> SUFFICES ASSUME NEW f \in FreeRegions(g), g.mnext[f] # NOENTRY
                 PROVE  g.type[g.mnext[f]] = BUSY
      BY DEF Coalesced
    <3>1. f \in FreeRegions(h) /\ f \in Live(h) /\ f # e /\ f \in Entries
      BY <1>1, <2>3, <2>5 DEF FreeRegions
    <3>2. f # h.mprev[r]
      <4>1. f = h.mprev[r] => h.mnext[f] = r
        BY <1>1, <3>1, NoEntry, LeftNeighbour
      <4> QED
        BY <1>1, <3>1, <4>1, NoEntry DEF Coalesced
    <3>3. g.mnext[f] = h.mnext[f]
      BY <2>4, <3>1, <3>2
    <3>4. h.type[h.mnext[f]] = BUSY
      BY <3>1, <3>3 DEF Coalesced
    <3>5. h.mnext[f] \in Live(h)
      BY <3>1, <3>3, RightNeighbour
    <3> QED
      BY <1>1, <2>4, <3>3, <3>4, <3>5
  <2>8. \A f \in BusyRegions(h) :
                 g.offset[f] = h.offset[f] /\ g.size[f] = h.size[f]
    <3>1. \A f \in BusyRegions(h) : f \in Entries /\ f # e /\ f # r
      BY <1>1, <2>5 DEF BusyRegions
    <3> QED
      BY <2>4, <3>1
  <2> QED
    BY <1>1, <2>3, <2>4, <2>5, <2>6, <2>7, <2>8 DEF e, g
<1> QED
  BY <1>2, <1>3

-----------------------------------------------------------------------------
(* The sizes of two disjoint sets add up.                                  *)
LEMMA DisjointUnion ==
  ASSUME NEW S, NEW T, IsFiniteSet(S), IsFiniteSet(T), S \cap T = {}
  PROVE  Cardinality(S \cup T) = Cardinality(S) + Cardinality(T)
<1>1. Cardinality(S \cup T)
        = Cardinality(S) + Cardinality(T) - Cardinality(S \cap T)
  BY FS_Union
<1>2. Cardinality(S \cap T) = 0
  BY FS_EmptySet
<1>3. Cardinality(S) \in Nat /\ Cardinality(T) \in Nat
  BY FS_CardinalityType
<1> QED
  BY <1>1, <1>2, <1>3

(* Every hole but the last region has a busy right neighbour of its own,   *)
(* so there is at most one hole more than there are busy regions.          *)
LEMMA FreeBound ==
  ASSUME SizesOK, NEW h \in HeapType, Tiled(h), Coalesced(h)
  PROVE  LET F == FreeRegions(h)
             B == BusyRegions(h)
         IN /\ IsFiniteSet(F) /\ IsFiniteSet(B) /\ IsFiniteSet(Live(h))
            /\ Cardinality(F) \in Nat /\ Cardinality(B) \in Nat
            /\ Cardinality(F) <= Cardinality(B) + 1
            /\ Cardinality(Live(h)) = Cardinality(F) + Cardinality(B)
<1> DEFINE F == FreeRegions(h)
           B == BusyRegions(h)
           I == {f \in F : h.mnext[f] # NOENTRY}
           T == {f \in F : h.mnext[f] = NOENTRY}
           next == [f \in I |-> h.mnext[f]]
<1>1. IsFiniteSet(Entries)
  BY FS_Interval DEF SizesOK, Entries
<1>2. /\ Live(h) \subseteq Entries /\ F \subseteq Live(h) /\ B \subseteq Live(h)
      /\ Live(h) = F \cup B /\ F \cap B = {}
  <2>1. h.type \in [Entries -> {FREE, BUSY}] /\ FREE # BUSY
    BY DEF HeapType, FREE, BUSY
  <2> QED
    BY <2>1 DEF Live, FreeRegions, BusyRegions
<1>3. IsFiniteSet(Live(h)) /\ IsFiniteSet(F) /\ IsFiniteSet(B)
  <2>1. IsFiniteSet(Live(h))
    BY <1>1, <1>2, FS_Subset
  <2> QED
    BY <1>2, <2>1, FS_Subset
<1>4. next \in Injection(I, B)
  <2>1. \A f \in I : h.mnext[f] \in B /\ h.mprev[h.mnext[f]] = f
    <3> SUFFICES ASSUME NEW f \in I
                 PROVE  h.mnext[f] \in B /\ h.mprev[h.mnext[f]] = f
      OBVIOUS
    <3>1. f \in FreeRegions(h) /\ f \in Live(h) /\ h.mnext[f] # NOENTRY
      BY <1>2
    <3>2. h.mnext[f] \in Live(h) /\ h.mprev[h.mnext[f]] = f
      BY <3>1, RightNeighbour
    <3>3. h.type[h.mnext[f]] = BUSY
      BY <3>1 DEF Coalesced
    <3> QED
      BY <3>2, <3>3 DEF BusyRegions
  <2>2. next \in [I -> B]
    BY <2>1
  <2>3. IsInjective(next)
    BY <2>1 DEF IsInjective
  <2> QED
    BY <2>2, <2>3 DEF Injection
<1>5. IsFiniteSet(I) /\ Cardinality(I) <= Cardinality(B)
  <2> HIDE DEF I, B, next
  <2> QED
    BY <1>3, <1>4, FS_Injection
<1>6. IsFiniteSet(T) /\ Cardinality(T) <= 1
  <2>1. \A e, f \in T : e = f
    BY <1>2 DEF Tiled, OneTail
  <2>2. IsFiniteSet(T)
    BY <1>3, FS_Subset
  <2> HIDE DEF T
  <2>3. CASE T = {}
    BY <2>3, FS_EmptySet
  <2>4. CASE T # {}
    <3>1. \E x : T = {x}
      BY <2>1, <2>4
    <3> QED
      BY <2>2, <3>1, FS_Singleton
  <2> QED
    BY <2>2, <2>3, <2>4
<1>7. Cardinality(F) = Cardinality(I) + Cardinality(T)
  <2>1. F = I \cup T /\ I \cap T = {}
    OBVIOUS
  <2> HIDE DEF F, I, T
  <2> QED
    BY <1>5, <1>6, <2>1, DisjointUnion
<1>8. Cardinality(Live(h)) = Cardinality(F) + Cardinality(B)
  <2> HIDE DEF F, B
  <2> QED
    BY <1>2, <1>3, DisjointUnion
<1>9. /\ Cardinality(F) \in Nat /\ Cardinality(B) \in Nat
      /\ Cardinality(I) \in Nat /\ Cardinality(T) \in Nat
  <2> HIDE DEF F, B, I, T
  <2> QED
    BY <1>3, <1>5, <1>6, FS_CardinalityType
<1> QED
  <2> HIDE DEF F, B, I, T
  <2>1. Cardinality(F) <= Cardinality(B) + 1
    BY <1>5, <1>6, <1>7, <1>9
  <2> QED
    BY <1>3, <1>8, <1>9, <2>1 DEF F, B

(* With fewer busy regions than the hash table has slots there is a        *)
(* descriptor on the stack, and no more holes than slots.                  *)
LEMMA RoomForOne ==
  ASSUME SizesOK, NEW h \in HeapType, Tiled(h), Coalesced(h),
         Cardinality(BusyRegions(h)) < ht_entries
  PROVE  /\ h.free_entries # <<>>
         /\ Cardinality(FreeRegions(h)) <= ht_entries
<1> DEFINE F == Cardinality(FreeRegions(h))
           B == Cardinality(BusyRegions(h))
           L == Cardinality(Live(h))
<1>1. F \in Nat /\ B \in Nat /\ F <= B + 1 /\ L = F + B
  BY FreeBound
<1>2. B < ht_entries /\ ht_entries \in Nat
  BY DEF SizesOK
<1>3. Cardinality(Entries) = 2 * ht_entries
  BY FS_Interval DEF SizesOK, Entries
<1>4. h.free_entries = <<>> => Live(h) = Entries
  BY DEF Live, Range
<1> HIDE DEF F, B, L
<1>5. L < 2 * ht_entries /\ F <= ht_entries
  BY <1>1, <1>2
<1> QED
  BY <1>2, <1>3, <1>4, <1>5 DEF F, L

(* A buffer with no more busy regions than the hash table has slots has no *)
(* more holes than slots either: with a slot to spare there is at most one *)
(* hole more than busy regions, without one the descriptors run out first. *)
LEMMA FewHoles ==
  ASSUME SizesOK, NEW h \in HeapType, Tiled(h), Coalesced(h),
         Cardinality(BusyRegions(h)) <= ht_entries
  PROVE  Cardinality(FreeRegions(h)) <= ht_entries
<1> DEFINE F == Cardinality(FreeRegions(h))
           B == Cardinality(BusyRegions(h))
           L == Cardinality(Live(h))
<1>1. F \in Nat /\ B \in Nat /\ F <= B + 1 /\ L = F + B
  BY FreeBound
<1>2. IsFiniteSet(Entries) /\ Cardinality(Entries) = 2 * ht_entries
  BY FS_Interval DEF SizesOK, Entries
<1>3. L <= 2 * ht_entries
  <2>1. Live(h) \subseteq Entries
    BY DEF Live
  <2>2. L <= Cardinality(Entries)
    BY <1>2, <2>1, FS_Subset
  <2> QED
    BY <1>2, <2>2
<1>4. B <= ht_entries /\ ht_entries \in Nat
  BY DEF SizesOK
<1> HIDE DEF F, B, L
<1>5. F <= ht_entries
  BY <1>1, <1>3, <1>4
<1> QED
  BY <1>5 DEF F

(* A buffer with no busy region is one hole as large as the buffer.        *)
LEMMA AllFree ==
  ASSUME SizesOK, NEW h \in HeapType, Tiled(h), Coalesced(h), Indexed(h),
         BusyRegions(h) = {}, NEW sz \in Nat, sz <= mem_size
  PROVE  BestFit(h, sz) # {}
<1>1. /\ Live(h) \subseteq Entries
      /\ h.type \in [Entries -> {FREE, BUSY}]
      /\ h.size \in [Entries -> Nat]
      /\ h.offset \in [Entries -> Nat]
  BY DEF Live, HeapType
<1>2. \A e \in Live(h) : e \in FreeRegions(h)
  BY <1>1 DEF BusyRegions, FreeRegions
<1>3. \A e \in Live(h) : h.mnext[e] = NOENTRY
  <2> SUFFICES ASSUME NEW e \in Live(h), h.mnext[e] # NOENTRY PROVE FALSE
    OBVIOUS
  <2>1. h.mnext[e] \in Live(h) /\ h.type[h.mnext[e]] = BUSY
    BY <1>2, RightNeighbour DEF Coalesced
  <2> QED
    BY <2>1 DEF BusyRegions
<1>4. PICK e \in Live(h) : 0 \in Span(h, e)
  <2>1. 0 \in Bytes
    BY DEF SizesOK, Bytes
  <2> QED
    BY <2>1 DEF Tiled, Partitioned
<1>5. Live(h) = {e}
  BY <1>3 DEF Tiled, OneTail
<1>6. h.mprev[e] = NOENTRY
  <2> SUFFICES ASSUME h.mprev[e] # NOENTRY PROVE FALSE
    OBVIOUS
  <2>1. h.mprev[e] \in Live(h) /\ h.mnext[h.mprev[e]] = e
    BY LeftNeighbour
  <2> QED
    BY <1>1, <1>3, <2>1, NoEntry
<1>7. h.size[e] = mem_size
  <2>1. h.offset[e] = 0 /\ h.offset[e] + h.size[e] = mem_size
    BY <1>3, <1>6 DEF Tiled, Linked
  <2> QED
    BY <1>1, <2>1
<1>8. h.free_idx = {e}
  BY <1>2, <1>5 DEF Indexed, FreeRegions
<1>9. e \in BestFit(h, sz)
  BY <1>1, <1>7, <1>8 DEF SizesOK, BestFit
<1> QED
  BY <1>9

(* A buffer right after reset_data_structures.                             *)
LEMMA EmptyHeapOK ==
  SizesOK =>
    /\ EmptyHeap \in HeapType
    /\ Tiled(EmptyHeap) /\ Coalesced(EmptyHeap) /\ Indexed(EmptyHeap)
    /\ BusyRegions(EmptyHeap) = {}
<1> SUFFICES ASSUME SizesOK
             PROVE  /\ EmptyHeap \in HeapType
                    /\ Tiled(EmptyHeap) /\ Coalesced(EmptyHeap)
                    /\ Indexed(EmptyHeap)
                    /\ BusyRegions(EmptyHeap) = {}
  OBVIOUS
<1> DEFINE h == EmptyHeap
           n == 2 * ht_entries - 1
<1>1. ht_entries \in Nat /\ ht_entries > 0 /\ n \in Nat /\ mem_size \in Nat
  BY DEF SizesOK
<1>2. 0 \in Entries /\ Entries = 0 .. n /\ 1 .. n \subseteq Entries
  BY <1>1 DEF Entries
<1>3. /\ h.type = [e \in Entries |-> FREE]
      /\ h.size = [e \in Entries |-> IF e = 0 THEN mem_size ELSE 0]
      /\ h.offset = [e \in Entries |-> 0]
      /\ h.mprev = [e \in Entries |-> NOENTRY]
      /\ h.mnext = [e \in Entries |-> NOENTRY]
      /\ h.free_entries = [i \in 1 .. n |-> i]
      /\ h.free_idx = {0}
  BY DEF EmptyHeap
<1>4. h \in HeapType
  <2> HIDE DEF n
  <2>1. [i \in 1 .. n |-> i] \in Seq(Entries)
    <3>1. [i \in 1 .. n |-> i] \in [1 .. n -> Entries]
      BY <1>2
    <3> QED
      BY <1>1, <3>1
  <2>2. h.size \in [Entries -> Nat]
    BY <1>1, <1>3
  <2> QED
    BY <1>2, <1>3, <2>1, <2>2 DEF HeapType, EmptyHeap, n
<1> HIDE DEF h, n
<1>5. Live(h) = {0} /\ IsInjective(h.free_entries)
  BY <1>1, <1>2, <1>3 DEF Live, Range, IsInjective
<1>6. /\ h.type[0] = FREE /\ h.size[0] = mem_size /\ h.offset[0] = 0
      /\ h.mprev[0] = NOENTRY /\ h.mnext[0] = NOENTRY
  BY <1>2, <1>3
<1>7. FreeRegions(h) = {0} /\ BusyRegions(h) = {}
  BY <1>5, <1>6 DEF FreeRegions, BusyRegions, FREE, BUSY
<1>8. Linked(h) /\ OneTail(h) /\ Coalesced(h) /\ Indexed(h) /\ StackOK(h)
  BY <1>1, <1>3, <1>5, <1>6, <1>7
     DEF Linked, OneTail, Coalesced, Indexed, StackOK
<1>9. Acyclic(h)
  <2> SUFFICES ASSUME NEW S \in SUBSET {0}, S # {}
               PROVE  \E e \in S : h.mnext[e] \notin S
    BY <1>5 DEF Acyclic
  <2>1. S = {0}
    OBVIOUS
  <2> QED
    BY <1>2, <1>6, <2>1, NoEntry
<1>10. Partitioned(h)
  <2>1. Span(h, 0) = Bytes
    BY <1>1, <1>6 DEF Span, Bytes
  <2> QED
    BY <1>5, <2>1 DEF Partitioned
<1> QED
  BY <1>4, <1>7, <1>8, <1>9, <1>10 DEF Tiled, h

===============================================================================
