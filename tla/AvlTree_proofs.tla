----------------------------- MODULE AvlTree_proofs -----------------------------
(***************************************************************************)
(* The index of the free regions is a search tree in balance, and does     *)
(* what a set of regions would do, whatever the number of nodes, the sizes *)
(* and the history: the theorems of module AvlTree.                        *)
(***************************************************************************)
EXTENDS AvlTree, FiniteSetTheorems, WellFoundedInduction, TLAPS

-----------------------------------------------------------------------------
(* A set of naturals has a least element.                                  *)
LEMMA LeastNatural ==
  ASSUME NEW T \in SUBSET Nat, T # {}
  PROVE  \E x \in T : \A y \in T : x <= y
<1> DEFINE R == StrictSubsetOrdering(Nat)
           F == FiniteSubsetsOf(Nat)
           U == {0 .. m : m \in T}
<1>1. IsWellFoundedOn(R, F)
  BY FS_StrictSubsetOrderingWellFounded
<1>2. U \subseteq F /\ U # {}
  <2>1. ASSUME NEW m \in T
        PROVE  0 .. m \in F
    <3>1. IsFiniteSet(0 .. m)
      BY FS_Interval
    <3> QED
      BY <3>1 DEF FiniteSubsetsOf
  <2> QED
    BY <2>1
<1> HIDE DEF R, F, U
<1>3. PICK u \in U : \A w \in U : <<w, u>> \notin R
  BY <1>1, <1>2, WFMin
<1>4. PICK x \in T : u = 0 .. x
  BY DEF U
<1>5. ASSUME NEW y \in T, y < x
      PROVE  FALSE
  <2>1. 0 .. y \in U
    BY DEF U
  <2>2. 0 .. y \subseteq 0 .. x /\ x \in 0 .. x /\ x \notin 0 .. y
    BY <1>5
  <2>3. <<0 .. y, 0 .. x>> \in R
    BY <2>2 DEF R, StrictSubsetOrdering
  <2> QED
    BY <1>3, <1>4, <2>1, <2>3
<1> QED
  BY <1>5

(* Induction, for a set of naturals.                                       *)
LEMMA AllNaturals ==
  ASSUME NEW T \in SUBSET Nat, 0 \in T, \A n \in T : n + 1 \in T
  PROVE  T = Nat
<1> SUFFICES ASSUME Nat \ T # {}
             PROVE  FALSE
  OBVIOUS
<1>1. PICK x \in Nat \ T : \A y \in Nat \ T : x <= y
  BY LeastNatural
<1>2. x - 1 \in T
  BY <1>1
<1> QED
  BY <1>1, <1>2

(* What is done again and again can be done any number of times.           *)
Repeated(S, a, F) ==
  \E g \in [Nat -> S] : g[0] = a /\ \A n \in Nat : g[n + 1] = F[g[n]]

LEMMA Iteration ==
  ASSUME NEW S, NEW a \in S, NEW F \in [S -> S]
  PROVE  Repeated(S, a, F)
<1> DEFINE Upto(n) == {h \in [0 .. n -> S] :
                         h[0] = a /\ \A i \in 0 .. (n - 1) : h[i + 1] = F[h[i]]}
           T == {n \in Nat : Upto(n) # {}}
<1>1. 0 \in T
  <2>1. [i \in 0 .. 0 |-> a] \in Upto(0)
    OBVIOUS
  <2> QED
    BY <2>1
<1>2. ASSUME NEW n \in T
      PROVE  n + 1 \in T
  <2>1. PICK h \in Upto(n) : TRUE
    OBVIOUS
  <2> DEFINE k == [i \in 0 .. (n + 1) |-> IF i = n + 1 THEN F[h[n]] ELSE h[i]]
  <2>2. k \in [0 .. (n + 1) -> S] /\ k[0] = a
    OBVIOUS
  <2>3. \A i \in 0 .. n : k[i + 1] = F[k[i]]
    OBVIOUS
  <2>4. k \in Upto(n + 1)
    BY <2>2, <2>3
  <2> QED
    BY <2>4
<1>3. T = Nat
  <2> HIDE DEF T
  <2>1. T \in SUBSET Nat
    BY DEF T
  <2> QED
    BY <1>1, <1>2, <2>1, AllNaturals
<1>4. ASSUME NEW n \in Nat, NEW h \in Upto(n), NEW k \in Upto(n + 1)
      PROVE  h[n] = k[n]
  <2> DEFINE E == {i \in Nat : i <= n => h[i] = k[i]}
  <2>1. E \in SUBSET Nat /\ 0 \in E
    OBVIOUS
  <2>2. ASSUME NEW i \in E
        PROVE  i + 1 \in E
    OBVIOUS
  <2>3. E = Nat
    <3> HIDE DEF E
    <3> QED
      BY <2>1, <2>2, AllNaturals
  <2> QED
    BY <2>3
<1> DEFINE best == [n \in Nat |-> CHOOSE h \in Upto(n) : TRUE]
           g == [n \in Nat |-> best[n][n]]
<1>5. \A n \in Nat : best[n] \in Upto(n)
  <2> HIDE DEF Upto
  <2> QED
    BY <1>3
<1> HIDE DEF best
<1>6. g \in [Nat -> S] /\ g[0] = a
  BY <1>5
<1>7. ASSUME NEW n \in Nat
      PROVE  g[n + 1] = F[g[n]]
  <2>1. best[n] \in Upto(n) /\ best[n + 1] \in Upto(n + 1)
    BY <1>5
  <2>2. best[n][n] = best[n + 1][n]
    BY <1>4, <2>1
  <2>3. best[n + 1][n + 1] = F[best[n + 1][n]]
    BY <2>1
  <2> QED
    BY <2>2, <2>3
<1> QED
  BY <1>6, <1>7 DEF Repeated

-----------------------------------------------------------------------------
Links == Nodes \cup {NULL}

Trees ==
  [root    : Links,
   parent  : [Nodes -> Links],
   child   : [Sides -> [Nodes -> Links]],
   balance : [Nodes -> Int],
   data    : [Nodes -> Regions \cup {Nothing}],
   free    : Seq(Nodes)]

(* The nodes U are those of a tree, B[n] those of the subtree of n.        *)
Linked(t, U, B) ==
  /\ U \in SUBSET Nodes /\ B \in [Links -> SUBSET U]
  /\ B[NULL] = {} /\ B[t.root] = U
  /\ t.root \in U \cup {NULL}
  /\ t.root # NULL => t.parent[t.root] = NULL
  /\ \A n \in U, s \in Sides :
       /\ t.child[s][n] \in U \cup {NULL}
       /\ t.child[s][n] # NULL => t.parent[t.child[s][n]] = n
       /\ B[n] = {n} \cup B[t.child[s][n]] \cup B[t.child[-s][n]]
       /\ B[t.child[s][n]] \cap B[t.child[-s][n]] = {}
       /\ n \notin B[t.child[s][n]]
  /\ \A n \in U \ {t.root} :
       t.parent[n] \in U /\ \E s \in Sides : t.child[s][t.parent[n]] = n

LEMMA SideFacts ==
  /\ NULL \notin Nodes /\ Left \in Sides /\ Right \in Sides
  /\ \A s \in Sides : /\ -s \in Sides /\ -s # s /\ -(-s) = s
                       /\ \A z \in Sides : z = s \/ z = -s
<1>1. NULL \notin Nodes
  BY CapacityAssumption DEF NULL, Nodes
<1>2. ASSUME NEW s \in Sides
      PROVE  -s \in Sides /\ -s # s /\ -(-s) = s /\ \A z \in Sides : z = s \/ z = -s
  BY DEF Sides, Left, Right
<1> QED
  BY <1>1, <1>2 DEF Sides

LEMMA LeftRight ==
  /\ -Left = Right /\ -Right = Left /\ Left # Right
  /\ \A s \in Sides : s = Left \/ s = Right
<1>1. Left # Right /\ \A s \in Sides : s = Left \/ s = Right
  BY DEF Left, Right, Sides
<1> QED
  BY <1>1, SideFacts

(* Changes of the fields of a tree.                                        *)
LEMMA Fields ==
  ASSUME NEW t \in Trees
  PROVE  /\ t.root \in Links /\ t.parent \in [Nodes -> Links]
         /\ t.child \in [Sides -> [Nodes -> Links]] /\ t.balance \in [Nodes -> Int]
         /\ t.data \in [Nodes -> Regions \cup {Nothing}] /\ t.free \in Seq(Nodes)
BY DEF Trees

LEMMA TwoSet ==
  ASSUME NEW S, NEW T, NEW f \in [S -> T], NEW x \in S, NEW y \in S,
         NEW a \in T, NEW b \in T
  PROVE  LET g == [f EXCEPT ![x] = a, ![y] = b]
         IN /\ g \in [S -> T]
            /\ \A z \in S : g[z] = IF z = y THEN b ELSE IF z = x THEN a ELSE f[z]
OBVIOUS

LEMMA ChildSet ==
  ASSUME NEW f \in [Sides -> [Nodes -> Links]], NEW z \in Sides, NEW x \in Nodes,
         NEW y \in Links
  PROVE  LET g == [f EXCEPT ![z][x] = y]
         IN /\ g \in [Sides -> [Nodes -> Links]]
            /\ \A w \in Sides, v \in Nodes :
                 g[w][v] = IF w = z /\ v = x THEN y ELSE f[w][v]
OBVIOUS

(* A child and its subtree.                                                *)
LEMMA ChildFacts ==
  ASSUME NEW t \in Trees, NEW U, NEW B, Linked(t, U, B),
         NEW n \in U, NEW s \in Sides, t.child[s][n] # NULL
  PROVE  LET c == t.child[s][n]
         IN /\ n \in Nodes /\ c \in U /\ c \in Nodes /\ c # n /\ c \in B[c]
            /\ t.parent[c] = n /\ B[c] \subseteq B[n] /\ n \notin B[c]
            /\ c # t.child[-s][n] /\ n \in B[n] /\ c # t.root
            /\ \A x \in U, z \in Sides : t.child[z][x] = c => x = n /\ z = s
<1> DEFINE c == t.child[s][n]
<1>1. c \in U /\ t.parent[c] = n /\ n \in Nodes /\ c \in Nodes
  BY DEF Linked
<1>2. c \in B[c] /\ n \notin B[c] /\ B[c] \subseteq B[n] /\ n \in B[n]
  BY <1>1, SideFacts DEF Linked
<1>3. c # t.child[-s][n]
  BY <1>2 DEF Linked
<1>4. c # t.root
  BY <1>1, SideFacts DEF Linked
<1>5. ASSUME NEW x \in U, NEW z \in Sides, t.child[z][x] = c
      PROVE  x = n /\ z = s
  <2>1. x = n
    BY <1>1, <1>5 DEF Linked
  <2> QED
    BY <1>3, <1>5, <2>1, SideFacts
<1> QED
  BY <1>1, <1>2, <1>3, <1>4, <1>5

(* n is not among the nodes below it, nor is a node it is below.           *)
LEMMA ParentFacts ==
  ASSUME NEW t \in Trees, NEW U, NEW B, Linked(t, U, B), NEW n \in U,
         n # t.root
  PROVE  LET p == t.parent[n]
         IN /\ p \in U /\ p \in Nodes /\ p \notin B[n] /\ B[n] \subseteq B[p]
            /\ \E s \in Sides : t.child[s][p] = n /\ t.child[-s][p] # n
<1>1. PICK s \in Sides : t.child[s][t.parent[n]] = n
  BY DEF Linked
<1>2. t.parent[n] \in U /\ n # NULL
  BY SideFacts DEF Linked
<1> QED
  BY <1>1, <1>2, ChildFacts

-----------------------------------------------------------------------------
(* p becomes the parent of n, if there is an n.                            *)
LEMMA UnderFacts ==
  ASSUME NEW t \in Trees, NEW n \in Links, NEW p \in Links
  PROVE  LET r == Under(t, n, p)
         IN /\ r \in Trees /\ r.root = t.root /\ r.data = t.data /\ r.free = t.free
            /\ r.balance = t.balance /\ r.child = t.child
            /\ \A x \in Nodes : r.parent[x] = IF x = n THEN p ELSE t.parent[x]
<1>1. CASE n = NULL
  BY <1>1, SideFacts DEF Under
<1>2. CASE n # NULL
  <2>1. n \in Nodes
    BY <1>2 DEF Links
  <2>2. Under(t, n, p) = [t EXCEPT !.parent[n] = p]
    BY <1>2 DEF Under
  <2>3. [t.parent EXCEPT ![n] = p] \in [Nodes -> Links]
    BY <2>1, Fields
  <2> QED
    BY <2>1, <2>2, <2>3 DEF Trees
<1> QED
  BY <1>1, <1>2

(* m takes the place of n.                                                 *)
LEMMA HangFacts ==
  ASSUME NEW t \in Trees, NEW n \in Nodes, NEW p, NEW m \in Links,
         n # t.root => p \in Nodes /\ \E s \in Sides : t.child[s][p] = n /\ t.child[-s][p] # n
  PROVE  LET r == Hang(t, n, p, m)
         IN /\ r \in Trees
            /\ r.root = IF n = t.root THEN m ELSE t.root
            /\ r.parent = t.parent /\ r.balance = t.balance
            /\ r.data = t.data /\ r.free = t.free
            /\ \A z \in Sides, x \in Nodes :
                 r.child[z][x] = IF n # t.root /\ x = p /\ t.child[z][x] = n
                                 THEN m ELSE t.child[z][x]
<1>1. CASE n = t.root
  BY <1>1 DEF Hang, Trees
<1>2. CASE n # t.root
  <2> DEFINE s == CHOOSE s \in Sides : t.child[s][p] = n
             r == [t EXCEPT !.child[s][p] = m]
  <2>1. s \in Sides /\ t.child[s][p] = n /\ t.child[-s][p] # n /\ p \in Nodes
    BY <1>2, SideFacts
  <2> HIDE DEF s
  <2>2. r \in Trees
    BY <2>1 DEF Trees
  <2>3. /\ r.root = t.root /\ r.parent = t.parent /\ r.balance = t.balance
        /\ r.data = t.data /\ r.free = t.free
    BY DEF Trees
  <2>4. \A z \in Sides, x \in Nodes :
           r.child[z][x] = IF x = p /\ z = s THEN m ELSE t.child[z][x]
    BY <2>1 DEF Trees
  <2>5. \A z \in Sides : t.child[z][p] = n <=> z = s
    BY <2>1, SideFacts
  <2>6. Hang(t, n, p, m) = r
    BY <1>2 DEF Hang, s
  <2> HIDE DEF r
  <2> QED
    BY <1>2, <2>2, <2>3, <2>4, <2>5, <2>6
<1> QED
  BY <1>1, <1>2

(* r is t with the child c of n on side s risen above n, as far as the     *)
(* links of the nodes of U go.                                             *)
Rotated(t, r, n, s, U) ==
  LET c == t.child[s][n]
      g == t.child[-s][c]
  IN /\ r.root = IF n = t.root THEN c ELSE t.root
     /\ \A x \in U :
          /\ r.parent[x] = IF x = c THEN t.parent[n]
                           ELSE IF x = n THEN c
                           ELSE IF x = g THEN n ELSE t.parent[x]
          /\ r.child[s][x] = IF x = n THEN g
                             ELSE IF t.child[s][x] = n THEN c ELSE t.child[s][x]
          /\ r.child[-s][x] = IF x = c THEN n
                              ELSE IF t.child[-s][x] = n THEN c ELSE t.child[-s][x]

LEMMA RotateFacts ==
  ASSUME NEW t \in Trees, NEW U, NEW B, Linked(t, U, B),
         NEW n \in U, NEW s \in Sides, t.child[s][n] # NULL
  PROVE  LET r == Rotate(t, n, s)
             c == t.child[s][n]
         IN /\ r \in Trees /\ Rotated(t, r, n, s, U)
            /\ r.data = t.data /\ r.free = t.free
            /\ r.balance = [t.balance EXCEPT ![c] = t.balance[c] - s,
                                             ![n] = -(t.balance[c] - s)]
<1> DEFINE c == t.child[s][n]
           g == t.child[-s][c]
           b == t.balance[c] - s
           t1 == [t EXCEPT !.parent  = [@ EXCEPT ![c] = t.parent[n], ![n] = c],
                           !.child   = [@ EXCEPT ![-s][c] = n, ![s][n] = g],
                           !.balance = [@ EXCEPT ![c] = b, ![n] = -b]]
           t2 == Under(t1, g, n)
           r == Hang(t2, n, t.parent[n], c)
<1>1. /\ c \in Nodes /\ c \in U /\ n \in Nodes /\ c # n /\ -s \in Sides /\ -s # s /\ b \in Int
      /\ g \in Links /\ t.parent[c] = n /\ t.parent[n] \in Links
  BY ChildFacts, SideFacts DEF Links, Trees, Sides, Left, Right
<1>2. g # NULL => g # n /\ g # c /\ g \in Nodes /\ g \in U
  <2> SUFFICES ASSUME g # NULL
               PROVE  g # n /\ g # c /\ g \in Nodes /\ g \in U
    OBVIOUS
  <2>1. g \in U /\ g \in Nodes /\ g # c /\ t.parent[g] = c /\ g \in B[c]
    BY <1>1, ChildFacts
  <2>2. n \notin B[c]
    BY <1>1, ChildFacts
  <2> QED
    BY <2>1, <2>2
<1>3. n # t.root => /\ t.parent[n] \in Nodes /\ t.parent[n] # n /\ t.parent[n] # c
                    /\ \E z \in Sides : t.child[z][t.parent[n]] = n /\ t.child[-z][t.parent[n]] # n
  <2> SUFFICES ASSUME n # t.root
               PROVE  /\ t.parent[n] \in Nodes /\ t.parent[n] # n /\ t.parent[n] # c
                      /\ \E z \in Sides : t.child[z][t.parent[n]] = n /\ t.child[-z][t.parent[n]] # n
    OBVIOUS
  <2>1. /\ t.parent[n] \in Nodes /\ t.parent[n] \notin B[n]
        /\ \E z \in Sides : t.child[z][t.parent[n]] = n /\ t.child[-z][t.parent[n]] # n
    BY ParentFacts
  <2>2. n \in B[n] /\ c \in B[n]
    BY ChildFacts
  <2> QED
    BY <2>1, <2>2
<1> HIDE DEF g
<1>4. /\ t1 \in Trees /\ t1.root = t.root /\ t1.data = t.data /\ t1.free = t.free
      /\ t1.parent = [t.parent EXCEPT ![c] = t.parent[n], ![n] = c]
      /\ t1.balance = [t.balance EXCEPT ![c] = b, ![n] = -b]
      /\ \A z \in Sides, x \in Nodes :
           t1.child[z][x] = IF z = -s /\ x = c THEN n
                            ELSE IF z = s /\ x = n THEN g ELSE t.child[z][x]
  <2> HIDE DEF c, b
  <2> DEFINE P == [t.parent EXCEPT ![c] = t.parent[n], ![n] = c]
             C1 == [t.child EXCEPT ![-s][c] = n]
             C == [C1 EXCEPT ![s][n] = g]
             d == [t.balance EXCEPT ![c] = b, ![n] = -b]
  <2>1. n \in Links /\ c \in Links
    BY <1>1 DEF Links
  <2>2. P \in [Nodes -> Links] /\ d \in [Nodes -> Int]
    <3>1. -b \in Int
      BY <1>1
    <3>2. t.parent \in [Nodes -> Links] /\ t.balance \in [Nodes -> Int]
      BY Fields
    <3> QED
      BY <1>1, <2>1, <3>1, <3>2, TwoSet
  <2>3. /\ C1 \in [Sides -> [Nodes -> Links]]
        /\ \A z \in Sides, x \in Nodes :
             C1[z][x] = IF z = -s /\ x = c THEN n ELSE t.child[z][x]
    BY <1>1, <2>1, Fields, ChildSet
  <2> HIDE DEF C1
  <2>4. /\ C \in [Sides -> [Nodes -> Links]]
        /\ \A z \in Sides, x \in Nodes :
             C[z][x] = IF z = s /\ x = n THEN g ELSE C1[z][x]
    BY <1>1, <2>3, ChildSet
  <2>5. \A z \in Sides, x \in Nodes :
           C[z][x] = IF z = -s /\ x = c THEN n
                     ELSE IF z = s /\ x = n THEN g ELSE t.child[z][x]
    BY <1>1, <2>3, <2>4
  <2>6. t1 = [t EXCEPT !.parent = P, !.child = C, !.balance = d]
    BY DEF C1
  <2> HIDE DEF P, C, d, t1
  <2>7. /\ t1 \in Trees /\ t1.root = t.root /\ t1.data = t.data /\ t1.free = t.free
        /\ t1.parent = P /\ t1.child = C /\ t1.balance = d
    BY <2>2, <2>4, <2>6 DEF Trees
  <2>8. t1.parent = [t.parent EXCEPT ![c] = t.parent[n], ![n] = c]
    BY <2>7 DEF P
  <2>9. t1.balance = [t.balance EXCEPT ![c] = b, ![n] = -b]
    BY <2>7 DEF d
  <2> QED
    BY <2>5, <2>7, <2>8, <2>9
<1> HIDE DEF t1
<1>5. /\ t2 \in Trees /\ t2.root = t.root /\ t2.data = t.data /\ t2.free = t.free
      /\ t2.balance = t1.balance /\ t2.child = t1.child
      /\ t2.parent = IF g = NULL THEN t1.parent ELSE [t1.parent EXCEPT ![g] = n]
  <2>1. CASE g = NULL
    BY <1>4, <2>1 DEF Under
  <2>2. CASE g # NULL
    <3>1. t2 = [t1 EXCEPT !.parent[g] = n]
      BY <2>2 DEF Under
    <3>2. g \in Nodes /\ n \in Links
      BY <1>1, <1>2, <2>2 DEF Links
    <3>3. [t1.parent EXCEPT ![g] = n] \in [Nodes -> Links]
      BY <1>4, <3>2, Fields
    <3> QED
      BY <1>4, <2>2, <3>1, <3>2, <3>3 DEF Trees
  <2> QED
    BY <2>1, <2>2
<1> HIDE DEF t2
<1>6. n # t2.root => t.parent[n] \in Nodes /\ \E z \in Sides : t2.child[z][t.parent[n]] = n /\ t2.child[-z][t.parent[n]] # n
  BY <1>1, <1>3, <1>4, <1>5, SideFacts
<1>7. /\ r \in Trees
      /\ r.root = IF n = t.root THEN c ELSE t.root
      /\ r.parent = t2.parent /\ r.balance = t2.balance
      /\ r.data = t2.data /\ r.free = t2.free
      /\ \A z \in Sides, x \in Nodes :
           r.child[z][x] = IF n # t.root /\ x = t.parent[n] /\ t2.child[z][x] = n
                           THEN c ELSE t2.child[z][x]
  <2>1. c \in Links
    BY <1>1 DEF Links
  <2> QED
    BY <1>1, <1>5, <1>6, <2>1, HangFacts
<1>8. Rotate(t, n, s) = r
  BY DEF Rotate, r, t2, t1, c, g, b
<1> HIDE DEF r
<1>9. Rotated(t, r, n, s, U)
  <2> SUFFICES ASSUME NEW x \in U
               PROVE  /\ r.parent[x] = IF x = c THEN t.parent[n]
                                       ELSE IF x = n THEN c
                                       ELSE IF x = g THEN n ELSE t.parent[x]
                      /\ r.child[s][x] = IF x = n THEN g
                                         ELSE IF t.child[s][x] = n THEN c ELSE t.child[s][x]
                      /\ r.child[-s][x] = IF x = c THEN n
                                          ELSE IF t.child[-s][x] = n THEN c ELSE t.child[-s][x]
    BY <1>7 DEF Rotated, g
  <2>1. x \in Nodes /\ x # NULL /\ U \subseteq Nodes
    BY SideFacts DEF Linked
  <2>2. \A z \in Sides : t.child[z][x] = n => n # t.root /\ x = t.parent[n]
    BY <2>1, SideFacts DEF Linked
  <2>3. r.parent[x] = IF x = c THEN t.parent[n]
                      ELSE IF x = n THEN c
                      ELSE IF x = g THEN n ELSE t.parent[x]
    BY <1>1, <1>2, <1>4, <1>5, <1>7, <2>1 DEF Trees
  <2>4. /\ t2.child[s][x] = IF x = n THEN g ELSE t.child[s][x]
        /\ t2.child[-s][x] = IF x = c THEN n ELSE t.child[-s][x]
    BY <1>1, <1>4, <1>5, <2>1
  <2>5. g # n /\ t.child[-s][c] # n
    BY <1>1, <1>2, SideFacts DEF g
  <2> QED
    BY <1>1, <1>3, <1>7, <2>1, <2>2, <2>3, <2>4, <2>5
<1> QED
  BY <1>4, <1>5, <1>7, <1>8, <1>9

(* The nodes below each node when the child of n on side s has risen.      *)
Raised(t, B, n, s) ==
  [B EXCEPT ![t.child[s][n]] = B[n],
            ![n] = {n} \cup B[t.child[-s][n]] \cup B[t.child[-s][t.child[s][n]]]]

(* The children after a rotation, and the nodes below them.                *)
Turned(t, r, B, n, s, U) ==
  LET c == t.child[s][n]
      g == t.child[-s][c]
      a == t.child[-s][n]
      d == t.child[s][c]
      B2 == Raised(t, B, n, s)
  IN /\ c \in U /\ c # n /\ n # NULL /\ c # NULL
     /\ \A x \in {a, g, d} : /\ x \in U \cup {NULL} /\ x # c /\ x # n /\ (x # t.root \/ x = NULL)
                             /\ B2[x] = B[x]
     /\ r.child[s][n] = g /\ r.child[-s][n] = a
     /\ r.child[s][c] = d /\ r.child[-s][c] = n
     /\ \A x \in U \ {n, c}, z \in Sides :
          \/ /\ t.child[z][x] = n /\ r.child[z][x] = c
             /\ n # t.root /\ x = t.parent[n]
          \/ r.child[z][x] = t.child[z][x] /\ t.child[z][x] \notin {n, c}
     /\ \A x \in U \ {n, c}, z \in Sides : B2[r.child[z][x]] = B[t.child[z][x]]
     /\ B2 \in [Links -> SUBSET U]
     /\ \A x \in Links \ {n, c} : B2[x] = B[x]
     /\ B2[c] = B[n] /\ B2[n] = {n} \cup B[a] \cup B[g]

LEMMA RotatedChildren ==
  ASSUME NEW t \in Trees, NEW r \in Trees, NEW U, NEW B, Linked(t, U, B),
         NEW n \in U, NEW s \in Sides, t.child[s][n] # NULL, Rotated(t, r, n, s, U)
  PROVE  Turned(t, r, B, n, s, U)
<1> DEFINE c == t.child[s][n]
           g == t.child[-s][c]
           a == t.child[-s][n]
           d == t.child[s][c]
           B2 == Raised(t, B, n, s)
<1>1. /\ c \in U /\ c # n /\ n \in Nodes /\ c \in Nodes /\ n # NULL /\ c # NULL
      /\ t.parent[c] = n /\ c \in B[n] /\ n \in B[n] /\ n \notin B[c] /\ c \in B[c]
      /\ -s \in Sides /\ -s # s /\ c # t.root
  BY ChildFacts, SideFacts
<1>2. a \in U \cup {NULL} /\ g \in U \cup {NULL} /\ d \in U \cup {NULL}
  BY <1>1 DEF Linked
<1>3. ASSUME a # NULL PROVE a # c /\ a # n /\ a # t.root
  BY <1>1, <1>3, ChildFacts, SideFacts
<1>4. ASSUME NEW z \in Sides, t.child[z][c] # NULL
      PROVE t.child[z][c] # c /\ t.child[z][c] # n /\ t.child[z][c] # t.root
  <2>1. t.parent[t.child[z][c]] = c /\ t.child[z][c] # c /\ t.child[z][c] # t.root
        /\ t.child[z][c] \in B[c]
    BY SMTT(20), <1>1, <1>4, ChildFacts DEF Linked
  <2> QED
    BY SMTT(20), <1>1, <2>1
<1>5. \A x \in {a, g, d} : x \in U \cup {NULL} /\ x # c /\ x # n /\ (x # t.root \/ x = NULL)
  BY <1>1, <1>2, <1>3, <1>4
<1>6. /\ B2 \in [Links -> SUBSET U] /\ (\A x \in Links \ {n, c} : B2[x] = B[x])
      /\ B2[c] = B[n] /\ B2[n] = {n} \cup B[a] \cup B[g]
  <2>1. c \in Links /\ n \in Links /\ a \in Links /\ g \in Links /\ B \in [Links -> SUBSET U]
    BY <1>1, <1>2 DEF Links, Linked
  <2>2. {n} \cup B[a] \cup B[g] \in SUBSET U /\ B[n] \in SUBSET U
    BY <2>1
  <2> HIDE DEF c, g, a
  <2> DEFINE C == B[n]
             N == {n} \cup B[a] \cup B[g]
  <2>3. B2 = [B EXCEPT ![c] = C, ![n] = N]
    BY DEF Raised, c, g, a
  <2> HIDE DEF C, N, B2
  <2>4. /\ B2 \in [Links -> SUBSET U]
        /\ \A x \in Links : B2[x] = IF x = n THEN N ELSE IF x = c THEN C ELSE B[x]
    <3>1. C \in SUBSET U /\ N \in SUBSET U
      BY SMTT(20), <2>2 DEF C, N
    <3> QED
      BY <2>1, <2>3, <3>1, TwoSet
  <2> QED
    BY <1>1, <2>1, <2>4 DEF C, N
<1>7. \A x \in {a, g, d} : B2[x] = B[x]
  <2>1. U \cup {NULL} \subseteq Links
    BY DEF Linked, Links
  <2> QED
    BY SMTT(20), <1>5, <1>6, <2>1
<1>8. \A x \in U, z \in Sides : /\ t.child[z][x] = c => x = n /\ z = s
                                /\ t.child[z][x] = n => n # t.root /\ x = t.parent[n]
  <2>1. ASSUME NEW x \in U, NEW z \in Sides, t.child[z][x] = n
        PROVE  n # t.root /\ x = t.parent[n]
    BY <1>1, <2>1, ChildFacts
  <2>2. ASSUME NEW x \in U, NEW z \in Sides, t.child[z][x] = c
        PROVE  x = n /\ z = s
    BY SMTT(20), <2>2, ChildFacts
  <2> QED
    BY <2>1, <2>2
<1> HIDE DEF B2
<1>9. r.child[s][n] = g /\ r.child[-s][n] = a /\ r.child[s][c] = d /\ r.child[-s][c] = n
  BY SMTT(20), <1>1, <1>5, <1>8 DEF Rotated
<1>10. ASSUME NEW x \in U \ {n, c}, NEW z \in Sides
       PROVE  \/ /\ t.child[z][x] = n /\ r.child[z][x] = c
                 /\ n # t.root /\ x = t.parent[n]
              \/ r.child[z][x] = t.child[z][x] /\ t.child[z][x] \notin {n, c}
  <2>1. z = s \/ z = -s
    BY SideFacts
  <2> QED
    BY <1>8, <2>1 DEF Rotated
<1>11. ASSUME NEW x \in U \ {n, c}, NEW z \in Sides
       PROVE  B2[r.child[z][x]] = B[t.child[z][x]]
  <2>1. t.child[z][x] \in Links
    BY DEF Linked, Links
  <2> QED
    BY <1>6, <1>10, <2>1
<1> QED
  BY Zenon, <1>1, <1>5, <1>6, <1>7, <1>9, <1>10, <1>11 DEF B2, Turned

(* A rotation leaves a tree over the same nodes.                           *)
LEMMA RotatedLinked ==
  ASSUME NEW t \in Trees, NEW r \in Trees, NEW U, NEW B, Linked(t, U, B),
         NEW n \in U, NEW s \in Sides, t.child[s][n] # NULL, Rotated(t, r, n, s, U)
  PROVE  Linked(r, U, Raised(t, B, n, s))
<1> DEFINE c == t.child[s][n]
           g == t.child[-s][c]
           a == t.child[-s][n]
           d == t.child[s][c]
           B2 == Raised(t, B, n, s)
<1>1. /\ c \in U /\ c # n /\ n # NULL /\ c # NULL
      /\ \A x \in {a, g, d} : /\ x \in U \cup {NULL} /\ x # c /\ x # n
                              /\ (x # t.root \/ x = NULL)
                              /\ B2[x] = B[x]
      /\ r.child[s][n] = g /\ r.child[-s][n] = a
      /\ r.child[s][c] = d /\ r.child[-s][c] = n
      /\ \A x \in U \ {n, c}, z \in Sides :
           \/ /\ t.child[z][x] = n /\ r.child[z][x] = c
              /\ n # t.root /\ x = t.parent[n]
           \/ r.child[z][x] = t.child[z][x] /\ t.child[z][x] \notin {n, c}
      /\ \A x \in U \ {n, c}, z \in Sides : B2[r.child[z][x]] = B[t.child[z][x]]
      /\ B2 \in [Links -> SUBSET U]
      /\ \A x \in Links \ {n, c} : B2[x] = B[x]
      /\ B2[c] = B[n] /\ B2[n] = {n} \cup B[a] \cup B[g]
  BY SMTT(20), RotatedChildren DEF Turned
<1>2. /\ t.parent[c] = n /\ c \in B[n] /\ n \in B[n] /\ n \notin B[c] /\ c \in B[c]
      /\ -s \in Sides /\ -s # s /\ -(-s) = s /\ c # t.root
      /\ \A z \in Sides : z = s \/ z = -s
  BY ChildFacts, SideFacts
<1> HIDE DEF B2
<1>3. /\ B[n] = {n} \cup B[c] \cup B[a] /\ B[c] \cap B[a] = {} /\ n \notin B[a]
      /\ B[c] = {c} \cup B[d] \cup B[g] /\ B[d] \cap B[g] = {} /\ c \notin B[d] \cup B[g]
  BY Zenon, <1>1, <1>2 DEF Linked
<1>4. U \in SUBSET Nodes /\ U \subseteq Links /\ NULL \in Links /\ NULL \notin U
  BY SideFacts DEF Linked, Links
<1> DEFINE Tree(q) == /\ q.root \in U \cup {NULL} /\ (q.root # NULL => q.parent[q.root] = NULL)
                      /\ \A x \in U, z \in Sides :
                           /\ q.child[z][x] \in U \cup {NULL}
                           /\ q.child[z][x] # NULL => q.parent[q.child[z][x]] = x
<1>11. /\ r.root = IF n = t.root THEN c ELSE t.root
       /\ \A x \in U : r.parent[x] = IF x = c THEN t.parent[n]
                                     ELSE IF x = n THEN c
                                     ELSE IF x = g THEN n ELSE t.parent[x]
  BY DEF Rotated
<1>12. Tree(t) /\ B[NULL] = {} /\ B[t.root] = U
  BY DEF Linked
<1>13. /\ (a # NULL => t.parent[a] = n /\ a \in B[a]) /\ (g # NULL => t.parent[g] = c /\ g \in B[g])
       /\ (d # NULL => t.parent[d] = c /\ d \in B[d])
  <2>1. ASSUME NEW x \in U, NEW z \in Sides, t.child[z][x] # NULL
        PROVE  t.parent[t.child[z][x]] = x /\ t.child[z][x] \in B[t.child[z][x]]
    BY <2>1, ChildFacts
  <2> QED
    BY Zenon, <1>1, <1>2, <2>1
<1>14. t.child[s][n] = c /\ t.child[-s][n] = a /\ t.child[s][c] = d /\ t.child[-s][c] = g
  OBVIOUS
<1> HIDE DEF c, g, a, d
<1>5. B2[NULL] = {} /\ B2[r.root] = U /\ r.root \in U \cup {NULL}
  BY <1>1, <1>2, <1>4, <1>11, <1>12
<1>6. r.root # NULL => r.parent[r.root] = NULL
  <2>1. CASE n = t.root
    BY <1>1, <1>11, <1>12, <2>1
  <2>2. CASE n # t.root /\ t.root # NULL
    <3>1. r.root = t.root /\ t.root \in U /\ t.root # c /\ t.root # g /\ t.root # n
      BY <1>1, <1>2, <1>11, <1>12, <2>2
    <3> QED
      BY <1>11, <1>12, <2>2, <3>1
  <2>3. CASE t.root = NULL
    BY <1>1, <1>11, <1>12, <2>3
  <2> QED
    BY <2>1, <2>2, <2>3
<1>7. ASSUME NEW x \in U, NEW z \in Sides
      PROVE  /\ r.child[z][x] \in U \cup {NULL}
             /\ r.child[z][x] # NULL => r.parent[r.child[z][x]] = x
  <2>1. CASE x = n /\ z = s
    BY <1>1, <1>2, <1>11, <2>1
  <2>2. CASE x = n /\ z = -s
    <3>1. a # NULL => a # g /\ t.parent[a] = n
      BY <1>3, <1>13
    <3> QED
      BY <1>1, <1>2, <1>11, <2>2, <3>1
  <2>3. CASE x = c /\ z = s
    <3>1. d # NULL => d # g /\ t.parent[d] = c
      BY <1>3, <1>13
    <3> QED
      BY <1>1, <1>2, <1>11, <2>3, <3>1
  <2>4. CASE x = c /\ z = -s
    BY <1>1, <1>2, <1>11, <2>4
  <2>5. CASE x \notin {n, c}
    <3>1. CASE t.child[z][x] = n /\ r.child[z][x] = c /\ x = t.parent[n]
      BY <1>1, <1>11, <3>1
    <3>2. CASE r.child[z][x] = t.child[z][x] /\ t.child[z][x] \notin {n, c}
      <4>1. t.child[z][x] \in U \cup {NULL}
        BY <1>12
      <4>2. ASSUME t.child[z][x] # NULL
            PROVE  t.parent[t.child[z][x]] = x /\ t.child[z][x] # g
        <5>1. t.parent[t.child[z][x]] = x
          BY <1>12, <4>2
        <5> QED
          BY <1>13, <2>5, <4>2, <5>1
      <4> QED
        BY <1>11, <3>2, <4>1, <4>2
    <3> QED
      BY <1>1, <2>5, <3>1, <3>2
  <2> QED
    BY <1>2, <2>1, <2>2, <2>3, <2>4, <2>5
<1>8. ASSUME NEW x \in U, NEW z \in Sides
      PROVE  /\ B2[x] = {x} \cup B2[r.child[z][x]] \cup B2[r.child[-z][x]]
             /\ B2[r.child[z][x]] \cap B2[r.child[-z][x]] = {}
             /\ x \notin B2[r.child[z][x]]
  <2>1. CASE x = n
    <3>1. B2[r.child[s][n]] = B[g] /\ B2[r.child[-s][n]] = B[a]
      BY <1>1
    <3>2. B[g] \subseteq B[c]
      BY <1>3
    <3> QED
      BY <1>1, <1>2, <1>3, <2>1, <3>1, <3>2
  <2>2. CASE x = c
    <3>1. B2[r.child[s][c]] = B[d] /\ B2[r.child[-s][c]] = B2[n]
      BY <1>1
    <3>2. B2[c] = {c} \cup B[d] \cup B2[n] /\ B[d] \cap B2[n] = {} /\ c \notin B2[n] \cup B[d]
      BY <1>1, <1>2, <1>3
    <3> QED
      BY <1>2, <2>2, <3>1, <3>2
  <2>3. CASE x \notin {n, c}
    <3>1. /\ B2[r.child[z][x]] = B[t.child[z][x]] /\ B2[r.child[-z][x]] = B[t.child[-z][x]]
          /\ B2[x] = B[x]
      BY <1>1, <1>4, <2>3, SideFacts
    <3> QED
      BY <3>1 DEF Linked
  <2> QED
    BY <2>1, <2>2, <2>3
<1>9. ASSUME NEW x \in U \ {r.root}
      PROVE  r.parent[x] \in U /\ \E z \in Sides : r.child[z][r.parent[x]] = x
  <2>1. CASE x = c
    <3>1. n # t.root
      BY <2>1, <1>9, <1>11
    <3>2. t.parent[n] \in U /\ t.parent[n] \notin B[n]
      BY <3>1, ParentFacts
    <3>3. PICK z \in Sides : t.child[z][t.parent[n]] = n
      BY <3>1 DEF Linked
    <3>4. r.child[z][t.parent[n]] = c
      BY <1>1, <1>2, <3>2, <3>3
    <3> QED
      BY <1>11, <2>1, <3>2, <3>4
  <2>2. CASE x = n
    BY <1>1, <1>2, <1>11, <2>2
  <2>3. CASE x = g
    <3>1. r.parent[x] = n
      BY <1>1, <1>4, <1>11, <2>3
    <3> QED
      BY <1>1, <2>3, <3>1
  <2>4. CASE x \notin {c, n, g}
    <3>1. r.parent[x] = t.parent[x] /\ x # t.root
      BY <1>1, <1>9, <1>11, <2>4
    <3>2. PICK z \in Sides : t.parent[x] \in U /\ t.child[z][t.parent[x]] = x
      BY <3>1 DEF Linked
    <3>3. CASE t.parent[x] = n
      <4>1. x = a
        BY <1>2, <1>14, <2>4, <3>2, <3>3
      <4> QED
        BY <1>1, <1>2, <3>1, <3>3, <4>1
    <3>4. CASE t.parent[x] = c
      <4>1. x = d
        BY <1>2, <1>14, <2>4, <3>2, <3>4
      <4> QED
        BY <1>1, <1>2, <3>1, <3>4, <4>1
    <3>5. CASE t.parent[x] \notin {n, c}
      <4>1. r.child[z][t.parent[x]] = x
        BY <1>1, <2>4, <3>2, <3>5
      <4> QED
        BY <3>1, <3>2, <4>1
    <3> QED
      BY <3>3, <3>4, <3>5
  <2> QED
    BY <2>1, <2>2, <2>3, <2>4
<1>10. Linked(r, U, B2)
  <2>1. U \in SUBSET Nodes /\ B2 \in [Links -> SUBSET U]
    BY <1>1, <1>4
  <2> HIDE DEF Tree
  <2> QED
    BY <1>5, <1>6, <1>7, <1>8, <1>9, <2>1 DEF Linked
<1> QED
  BY SMTT(20), <1>10 DEF B2

-----------------------------------------------------------------------------
(* y may be the key of a node on side s of one with key x.                 *)
Beyond(s, x, y) == IF s = Left THEN y <= x ELSE x <= y

Ordered(t, U, B, K) ==
  /\ \A x \in U : K[x] \in Int
  /\ \A x \in U, z \in Sides : \A y \in B[t.child[z][x]] : Beyond(z, K[x], K[y])

LEMMA BeyondFacts ==
  ASSUME NEW s \in Sides, NEW x \in Int, NEW y \in Int
  PROVE  /\ Beyond(s, x, y) <=> Beyond(-s, y, x)
         /\ \A z \in Int : Beyond(s, x, y) /\ Beyond(s, y, z) => Beyond(s, x, z)
BY DEF Beyond, Sides, Left, Right

LEMMA RotatedOrdered ==
  ASSUME NEW t \in Trees, NEW r \in Trees, NEW U, NEW B, Linked(t, U, B),
         NEW n \in U, NEW s \in Sides, t.child[s][n] # NULL, Rotated(t, r, n, s, U),
         NEW K, Ordered(t, U, B, K)
  PROVE  Ordered(r, U, Raised(t, B, n, s), K)
<1> DEFINE c == t.child[s][n]
           g == t.child[-s][c]
           a == t.child[-s][n]
           d == t.child[s][c]
           B2 == Raised(t, B, n, s)
<1>1. /\ c \in U /\ c # n
      /\ \A x \in {a, g, d} : B2[x] = B[x]
      /\ r.child[s][n] = g /\ r.child[-s][n] = a
      /\ r.child[s][c] = d /\ r.child[-s][c] = n
      /\ \A x \in U \ {n, c}, z \in Sides : B2[r.child[z][x]] = B[t.child[z][x]]
      /\ B2[n] = {n} \cup B[a] \cup B[g]
  BY SMTT(20), RotatedChildren DEF Turned
<1>2. /\ n \notin B[c] /\ c \in B[c] /\ -s \in Sides
      /\ \A z \in Sides : z = s \/ z = -s
  BY ChildFacts, SideFacts
<1>3. B[c] = {c} \cup B[d] \cup B[g]
  BY Zenon, <1>1, <1>2 DEF Linked
<1>4. /\ t.child[s][n] = c /\ t.child[-s][n] = a /\ t.child[s][c] = d /\ t.child[-s][c] = g
      /\ B[a] \subseteq U /\ B[g] \subseteq U
  <2>1. a \in U \cup {NULL} /\ g \in U \cup {NULL}
    BY Zenon, <1>1, <1>2 DEF Linked
  <2>2. \A x \in U \cup {NULL} : B[x] \subseteq U
    BY DEF Linked, Links
  <2> QED
    BY <2>1, <2>2
<1> HIDE DEF B2, c, g, a, d
<1>5. /\ \A x \in U : K[x] \in Int
      /\ \A x \in U, z \in Sides : \A y \in B[t.child[z][x]] : Beyond(z, K[x], K[y])
  BY DEF Ordered
<1>6. ASSUME NEW x \in U, NEW z \in Sides, NEW y \in B2[r.child[z][x]]
      PROVE  Beyond(z, K[x], K[y])
  <2>1. CASE x = n /\ z = s
    BY <1>1, <1>2, <1>3, <1>4, <1>5, <1>6, <2>1
  <2>2. CASE x = n /\ z = -s
    BY <1>1, <1>2, <1>4, <1>5, <1>6, <2>2
  <2>3. CASE x = c /\ z = s
    BY <1>1, <1>2, <1>4, <1>5, <1>6, <2>3
  <2>4. CASE x = c /\ z = -s
    <3>1. Beyond(-s, K[c], K[n])
      BY <1>1, <1>2, <1>4, <1>5, BeyondFacts
    <3>2. CASE y = n
      BY <2>4, <3>1, <3>2
    <3>3. CASE y \in B[g]
      BY <1>1, <1>2, <1>4, <1>5, <2>4, <3>3
    <3>4. CASE y \in B[a]
      <4>1. Beyond(-s, K[n], K[y]) /\ K[y] \in Int /\ K[c] \in Int /\ K[n] \in Int
        BY <1>1, <1>2, <1>4, <1>5, <3>4
      <4> QED
        BY <1>2, <2>4, <3>1, <4>1, BeyondFacts
    <3> QED
      BY <1>1, <1>6, <2>4, <3>2, <3>3, <3>4
  <2>5. CASE x \notin {n, c}
    BY <1>1, <1>5, <1>6, <2>5
  <2> QED
    BY <1>2, <2>1, <2>2, <2>3, <2>4, <2>5
<1> QED
  BY SMTT(20), <1>5, <1>6 DEF Ordered, B2

-----------------------------------------------------------------------------
(* A double rotation is, as far as the links go, the rotation of the child *)
(* followed by that of the node.                                           *)
Doubled(t, t1, r, n, s, U) ==
  LET c == t.child[s][n]
      g == t.child[-s][c]
  IN /\ r \in Trees /\ t1 \in Trees
     /\ Rotated(t, t1, c, -s, U) /\ Rotated(t1, r, n, s, U)
     /\ t1.child[s][n] = g
     /\ r.data = t.data /\ r.free = t.free
     /\ \A x \in Nodes :
          r.balance[x] = IF x = g THEN 0
                         ELSE IF x = c THEN IF t.balance[g] = -s THEN s ELSE 0
                         ELSE IF x = n THEN IF t.balance[g] = s THEN -s ELSE 0
                         ELSE t.balance[x]

LEMMA RotateTwiceFacts ==
  ASSUME NEW t \in Trees, NEW U, NEW B, Linked(t, U, B),
         NEW n \in U, NEW s \in Sides, t.child[s][n] # NULL,
         t.child[-s][t.child[s][n]] # NULL
  PROVE  Doubled(t, Rotate(t, t.child[s][n], -s), RotateTwice(t, n, s), n, s, U)
<1> DEFINE c == t.child[s][n]
           g == t.child[-s][c]
           toN == t.child[-s][g]
           toC == t.child[s][g]
           p == t.parent[n]
           t1 == Rotate(t, c, -s)
           r == RotateTwice(t, n, s)
           bn == IF t.balance[g] = s THEN -s ELSE 0
           bc == IF t.balance[g] = -s THEN s ELSE 0
           u == [t EXCEPT
                   !.parent  = [@ EXCEPT ![g] = p, ![c] = g, ![n] = g],
                   !.child   = [@ EXCEPT ![s][n] = toN, ![-s][c] = toC,
                                         ![s][g] = c, ![-s][g] = n],
                   !.balance = [@ EXCEPT ![n] = bn, ![c] = bc, ![g] = 0]]
           v == Under(u, toN, n)
           w == Under(v, toC, c)
<1>1. /\ -s \in Sides /\ -s # s /\ -(-s) = s /\ bn \in Int /\ bc \in Int
      /\ \A z \in Sides : z = s \/ z = -s
      /\ n # NULL /\ U \subseteq Nodes /\ NULL \notin U
  BY SideFacts DEF Sides, Left, Right, Linked
<1>2. /\ c \in U /\ c # n /\ t.parent[c] = n /\ n \notin B[c] /\ c \in B[c] /\ c # t.root
      /\ B[c] \subseteq B[n] /\ n \in B[n] /\ c # t.child[-s][n] /\ c # NULL
  BY SMTT(20), ChildFacts
<1>3. /\ g \in U /\ g # c /\ t.parent[g] = c /\ c \notin B[g] /\ g \in B[g] /\ g # t.root
      /\ B[g] \subseteq B[c]
  BY SMTT(20), <1>1, <1>2, ChildFacts
<1>4. n # t.root => /\ p \in U /\ p \notin B[n]
                    /\ \E z \in Sides : t.child[z][p] = n /\ t.child[-z][p] # n
  BY ParentFacts
<1>5. \A x \in U, z \in Sides : t.child[z][x] = n => n # t.root /\ x = p
  BY <1>1, ChildFacts
<1>6. t1 \in Trees /\ Rotated(t, t1, c, -s, U)
  BY Zenon, <1>1, <1>2, <1>3, RotateFacts
<1>7. /\ t.child[s][n] = c /\ t.child[-s][c] = g /\ t.child[-s][g] = toN /\ t.child[s][g] = toC
      /\ t.parent[n] = p /\ p \in Links
  BY <1>1, Fields DEF Linked
<1> HIDE DEF c, g, toN, toC, p
<1>8. ASSUME NEW z \in Sides, t.child[z][g] # NULL
      PROVE  /\ t.child[z][g] \in U /\ t.child[z][g] \notin {n, c, g} /\ t.parent[t.child[z][g]] = g
             /\ t.child[z][g] \in B[n]
  <2>1. /\ t.child[z][g] \in U /\ t.child[z][g] # g /\ t.parent[t.child[z][g]] = g
        /\ t.child[z][g] \in B[g]
    BY <1>3, <1>8, ChildFacts
  <2> QED
    BY <1>2, <1>3, <2>1
<1>9. /\ toN # NULL => /\ toN \in U /\ toN \notin {n, c, g} /\ t.parent[toN] = g
                       /\ toN \in B[n] /\ toN # toC
      /\ toC # NULL => toC \in U /\ toC \notin {n, c, g} /\ t.parent[toC] = g /\ toC \in B[n]
  <2>1. toC # NULL => toC # toN
    BY <1>1, <1>3, <1>7, ChildFacts
  <2> QED
    BY <1>1, <1>8, <1>7, <2>1
<1>10. \A x \in U, z \in Sides : /\ t.child[z][x] = c => x = n /\ z = s
                                 /\ t.child[z][x] = g => x = c /\ z = -s
  <2>1. ASSUME NEW x \in U, NEW z \in Sides, t.child[z][x] = c
        PROVE  x = n /\ z = s
    <3>1. x = n
      BY <1>2, <2>1 DEF Linked
    <3> QED
      BY <1>1, <1>2, <2>1, <3>1
  <2>2. ASSUME NEW x \in U, NEW z \in Sides, t.child[z][x] = g
        PROVE  x = c /\ z = -s
    BY <1>1, <1>2, <1>3, <1>7, <2>2, ChildFacts
  <2> QED
    BY <2>1, <2>2
<1>11. /\ t1.root = t.root
       /\ \A x \in U :
            /\ t1.parent[x] = IF x = g THEN n ELSE IF x = c THEN g
                              ELSE IF x = toC THEN c ELSE t.parent[x]
            /\ t1.child[-s][x] = IF x = c THEN toC
                                 ELSE IF t.child[-s][x] = c THEN g ELSE t.child[-s][x]
            /\ t1.child[s][x] = IF x = g THEN c
                                ELSE IF t.child[s][x] = c THEN g ELSE t.child[s][x]
  BY <1>1, <1>2, <1>6, <1>7 DEF Rotated
<1>12. r = Hang(w, n, p, g)
  BY DEF RotateTwice, c, g, toN, toC, p
<1> HIDE DEF t1, r, v, w, bn, bc
<1>13. toN \in Links /\ toC \in Links /\ n \in Links /\ c \in Links /\ g \in Links
  BY <1>1, <1>2, <1>3, <1>9 DEF Links
<1>14. /\ u \in Trees /\ u.root = t.root /\ u.data = t.data /\ u.free = t.free
       /\ \A x \in Nodes : /\ u.parent[x] = IF x \in {n, c} THEN g ELSE IF x = g THEN p
                                            ELSE t.parent[x]
                           /\ u.balance[x] = IF x = g THEN 0 ELSE IF x = c THEN bc
                                             ELSE IF x = n THEN bn ELSE t.balance[x]
       /\ \A z \in Sides, x \in Nodes :
            u.child[z][x] = IF x = g /\ z = -s THEN n
                            ELSE IF x = g /\ z = s THEN c
                            ELSE IF x = c /\ z = -s THEN toC
                            ELSE IF x = n /\ z = s THEN toN ELSE t.child[z][x]
  <2> DEFINE P1 == [t.parent EXCEPT ![g] = p, ![c] = g]
             P == [P1 EXCEPT ![n] = g]
             b1 == [t.balance EXCEPT ![n] = bn, ![c] = bc]
             b == [b1 EXCEPT ![g] = 0]
             C1 == [t.child EXCEPT ![s][n] = toN]
             C2 == [C1 EXCEPT ![-s][c] = toC]
             C3 == [C2 EXCEPT ![s][g] = c]
             C == [C3 EXCEPT ![-s][g] = n]
  <2>1. /\ n \in Nodes /\ c \in Nodes /\ g \in Nodes /\ t.parent \in [Nodes -> Links]
        /\ t.balance \in [Nodes -> Int] /\ t.child \in [Sides -> [Nodes -> Links]]
    BY <1>1, <1>2, <1>3, Fields
  <2>2. /\ P1 \in [Nodes -> Links]
        /\ \A x \in Nodes : P1[x] = IF x = c THEN g ELSE IF x = g THEN p ELSE t.parent[x]
    BY <1>7, <1>13, <2>1, TwoSet
  <2> HIDE DEF P1
  <2>3. /\ P \in [Nodes -> Links]
        /\ \A x \in Nodes : P[x] = IF x \in {n, c} THEN g ELSE IF x = g THEN p ELSE t.parent[x]
    BY <1>13, <2>1, <2>2
  <2>4. /\ b1 \in [Nodes -> Int]
        /\ \A x \in Nodes : b1[x] = IF x = c THEN bc ELSE IF x = n THEN bn ELSE t.balance[x]
    <3>1. t.balance \in [Nodes -> Int] /\ bn \in Int /\ bc \in Int
      BY <1>1, <2>1
    <3> QED
      BY <2>1, <3>1, TwoSet
  <2> HIDE DEF b1
  <2>5. /\ b \in [Nodes -> Int]
        /\ \A x \in Nodes : b[x] = IF x = g THEN 0 ELSE IF x = c THEN bc
                                   ELSE IF x = n THEN bn ELSE t.balance[x]
    BY <2>1, <2>4
  <2>6. /\ C1 \in [Sides -> [Nodes -> Links]]
        /\ \A z \in Sides, x \in Nodes : C1[z][x] = IF z = s /\ x = n THEN toN ELSE t.child[z][x]
    BY <1>13, <2>1, ChildSet
  <2> HIDE DEF C1
  <2>7. /\ C2 \in [Sides -> [Nodes -> Links]]
        /\ \A z \in Sides, x \in Nodes : C2[z][x] = IF z = -s /\ x = c THEN toC ELSE C1[z][x]
    BY <1>1, <1>13, <2>1, <2>6, ChildSet
  <2> HIDE DEF C2
  <2>8. /\ C3 \in [Sides -> [Nodes -> Links]]
        /\ \A z \in Sides, x \in Nodes : C3[z][x] = IF z = s /\ x = g THEN c ELSE C2[z][x]
    BY <1>13, <2>1, <2>7, ChildSet
  <2> HIDE DEF C3
  <2>9. /\ C \in [Sides -> [Nodes -> Links]]
        /\ \A z \in Sides, x \in Nodes : C[z][x] = IF z = -s /\ x = g THEN n ELSE C3[z][x]
    BY <1>1, <1>13, <2>1, <2>8, ChildSet
  <2>10. u = [t EXCEPT !.parent = P, !.child = C, !.balance = b]
    BY DEF P1, b1, C1, C2, C3
  <2> HIDE DEF P, C, b, u
  <2>11. /\ u \in Trees /\ u.root = t.root /\ u.data = t.data /\ u.free = t.free
         /\ u.parent = P /\ u.child = C /\ u.balance = b
    BY <2>3, <2>5, <2>9, <2>10 DEF Trees
  <2>12. \A z \in Sides, x \in Nodes :
            C[z][x] = IF x = g /\ z = -s THEN n
                      ELSE IF x = g /\ z = s THEN c
                      ELSE IF x = c /\ z = -s THEN toC
                      ELSE IF x = n /\ z = s THEN toN ELSE t.child[z][x]
    BY <1>1, <1>2, <1>3, <2>6, <2>7, <2>8, <2>9
  <2> QED
    BY <2>3, <2>5, <2>11, <2>12
<1> HIDE DEF u
<1>15. /\ v \in Trees /\ v.root = u.root /\ v.data = u.data /\ v.free = u.free
       /\ v.balance = u.balance /\ v.child = u.child
       /\ \A x \in Nodes : v.parent[x] = IF x = toN THEN n ELSE u.parent[x]
  BY <1>1, <1>9, <1>13, <1>14, UnderFacts DEF v
<1>16. /\ w \in Trees /\ w.root = u.root /\ w.data = u.data /\ w.free = u.free
       /\ w.balance = u.balance /\ w.child = u.child
       /\ \A x \in Nodes : w.parent[x] = IF x = toC THEN c ELSE v.parent[x]
  BY <1>1, <1>9, <1>13, <1>15, UnderFacts DEF w
<1>17. n # w.root => p \in Nodes /\ \E z \in Sides : w.child[z][p] = n /\ w.child[-z][p] # n
  <2> SUFFICES ASSUME n # t.root
               PROVE  p \in Nodes /\ \E z \in Sides : w.child[z][p] = n /\ w.child[-z][p] # n
    BY <1>14, <1>16
  <2>1. p \in Nodes /\ p \notin {n, c, g}
    BY <1>1, <1>2, <1>3, <1>4
  <2>2. \A z \in Sides : w.child[z][p] = t.child[z][p]
    BY <1>14, <1>16, <2>1
  <2> QED
    BY <1>4, <2>1, <2>2, SideFacts
<1>18. /\ r \in Trees
       /\ r.root = IF n = t.root THEN g ELSE t.root
       /\ r.parent = w.parent /\ r.balance = u.balance
       /\ r.data = t.data /\ r.free = t.free
       /\ \A z \in Sides, x \in Nodes :
            r.child[z][x] = IF n # t.root /\ x = p /\ u.child[z][x] = n
                            THEN g ELSE u.child[z][x]
  <2>1. n \in Nodes
    BY <1>1
  <2> QED
    BY <1>12, <1>13, <1>14, <1>16, <1>17, <2>1, HangFacts
<1>19. t1.child[s][n] = g /\ t1.child[-s][g] = toN /\ t1.parent[n] = p
  <2>1. n # g /\ n # toC
    BY <1>2, <1>3, <1>1, <1>9
  <2>2. t.child[-s][g] # c
    BY <1>1, <1>3, <1>10
  <2> QED
    BY <1>2, <1>3, <1>7, <1>11, <2>1, <2>2
<1>20. ASSUME NEW x \in U
       PROVE  /\ r.parent[x] = IF x = g THEN t1.parent[n]
                               ELSE IF x = n THEN g
                               ELSE IF x = toN THEN n ELSE t1.parent[x]
              /\ r.child[s][x] = IF x = n THEN toN
                                 ELSE IF t1.child[s][x] = n THEN g ELSE t1.child[s][x]
              /\ r.child[-s][x] = IF x = g THEN n
                                  ELSE IF t1.child[-s][x] = n THEN g ELSE t1.child[-s][x]
  <2>1. /\ x \in Nodes /\ x # NULL /\ n # c /\ n # g /\ c # g
        /\ (toN # NULL => toN \notin {n, c, g} /\ toN # toC)
        /\ (toC # NULL => toC \notin {n, c, g})
    BY <1>1, <1>2, <1>3, <1>9
  <2>2. r.parent[x] = IF x = g THEN t1.parent[n]
                      ELSE IF x = n THEN g
                      ELSE IF x = toN THEN n ELSE t1.parent[x]
    BY <1>11, <1>14, <1>15, <1>16, <1>18, <1>19, <2>1
  <2>3. \A z \in Sides : t.child[z][x] = n => n # t.root /\ x = p /\ x \notin {n, c, g}
    BY <1>2, <1>3, <1>4, <1>5
  <2>4. /\ u.child[s][x] = IF x = g THEN c ELSE IF x = n THEN toN ELSE t.child[s][x]
        /\ u.child[-s][x] = IF x = g THEN n ELSE IF x = c THEN toC ELSE t.child[-s][x]
    BY <1>1, <1>14, <2>1
  <2>5. /\ r.child[s][x] = IF n # t.root /\ x = p /\ u.child[s][x] = n THEN g ELSE u.child[s][x]
        /\ r.child[-s][x] = IF n # t.root /\ x = p /\ u.child[-s][x] = n THEN g ELSE u.child[-s][x]
    BY <1>1, <1>18, <2>1
  <2>6. n # t.root => p \notin {n, c, g}
    BY <1>2, <1>3, <1>4
  <2>7. /\ t1.child[-s][x] = IF x = c THEN toC ELSE t.child[-s][x]
        /\ t1.child[s][x] = IF x = g THEN c ELSE IF x = n THEN g ELSE t.child[s][x]
    BY <1>1, <1>10, <1>7, <1>11, <2>1
  <2>8. toC # n /\ toN # n
    BY <1>1, <1>9
  <2>9. r.child[s][x] = IF x = n THEN toN
                        ELSE IF t1.child[s][x] = n THEN g ELSE t1.child[s][x]
    BY <1>1, <2>1, <2>3, <2>4, <2>5, <2>6, <2>7, <2>8
  <2>10. r.child[-s][x] = IF x = g THEN n
                          ELSE IF t1.child[-s][x] = n THEN g ELSE t1.child[-s][x]
    BY <1>1, <2>1, <2>3, <2>4, <2>5, <2>6, <2>7, <2>8
  <2> QED
    BY <2>2, <2>9, <2>10
<1>21. Rotated(t1, r, n, s, U)
  BY <1>11, <1>18, <1>19, <1>20 DEF Rotated
<1>22. \A x \in Nodes :
          r.balance[x] = IF x = g THEN 0 ELSE IF x = c THEN bc
                         ELSE IF x = n THEN bn ELSE t.balance[x]
  BY <1>14, <1>18
<1> QED
  BY Zenon, <1>6, <1>18, <1>19, <1>21, <1>22 DEF Doubled, t1, r, c, g, bn, bc

-----------------------------------------------------------------------------
(* The balance of a node, counted towards side s.                          *)
Tilt(s, b) == IF s = Left THEN 0 - b ELSE b

LEMMA TiltFacts ==
  ASSUME NEW s \in Sides
  PROVE  /\ Tilt(s, s) = 1 /\ Tilt(s, -s) = -1 /\ Tilt(s, 0) = 0
         /\ s \in -1 .. 1 /\ -s \in -1 .. 1 /\ s # -s /\ s # 0 /\ -s # 0
         /\ \A b \in -1 .. 1 : b = 0 \/ b = s \/ b = -s
         /\ \A b \in Int : /\ Tilt(s, b) \in Int /\ Tilt(s, b + s) = Tilt(s, b) + 1
                           /\ Tilt(-s, b) = 0 - Tilt(s, b)
<1>1. /\ s \in -1 .. 1 /\ -s \in -1 .. 1 /\ s # -s /\ s # 0 /\ -s # 0
      /\ \A b \in -1 .. 1 : b = 0 \/ b = s \/ b = -s
  BY DEF Sides, Left, Right
<1>2. Tilt(s, s) = 1 /\ Tilt(s, 0) = 0
  BY DEF Tilt, Sides, Left, Right
<1>3. \A b \in Int : Tilt(s, b) \in Int /\ Tilt(s, b + s) = Tilt(s, b) + 1
  BY DEF Tilt, Sides, Left, Right
<1>4. ASSUME NEW b \in Int
      PROVE  Tilt(-s, b) = 0 - Tilt(s, b)
  <2>1. s = Left <=> -s # Left
    BY DEF Sides, Left, Right
  <2> QED
    BY <2>1 DEF Tilt
<1>5. Tilt(s, -s) = -1
  <2>1. Tilt(s, -s) = 0 - Tilt(s, s)
    BY DEF Tilt, Sides, Left, Right
  <2> QED
    BY <1>2, <2>1
<1> QED
  BY <1>1, <1>2, <1>3, <1>4, <1>5

Taller(x, y) == IF x > y THEN x ELSE y

(* Node x is as high as h says, and in balance.                            *)
Proper(t, h, x) ==
  /\ t.balance[x] \in -1 .. 1
  /\ Tilt(Right, t.balance[x]) = h[t.child[Right][x]] - h[t.child[Left][x]]
  /\ h[x] = 1 + Taller(h[t.child[Left][x]], h[t.child[Right][x]])

Heights(h) == h \in [Links -> Nat] /\ h[NULL] = 0

LEMMA ProperOn ==
  ASSUME NEW t \in Trees, NEW h, Heights(h), NEW x \in Nodes, NEW s \in Sides
  PROVE  Proper(t, h, x) <=>
           /\ t.balance[x] \in -1 .. 1
           /\ Tilt(s, t.balance[x]) = h[t.child[s][x]] - h[t.child[-s][x]]
           /\ h[x] = 1 + Taller(h[t.child[s][x]], h[t.child[-s][x]])
<1>1. \A z \in Sides : h[t.child[z][x]] \in Nat
  BY Fields DEF Heights
<1>2. t.balance[x] \in Int
  BY Fields
<1>3. -Left = Right /\ -Right = Left /\ (s = Left \/ s = Right)
      /\ Left \in Sides /\ Right \in Sides /\ Left # Right
  BY SideFacts, LeftRight
<1> DEFINE l == h[t.child[Left][x]]
           r == h[t.child[Right][x]]
           b == t.balance[x]
<1>4. /\ l \in Nat /\ r \in Nat /\ b \in Int
      /\ Proper(t, h, x) <=> b \in -1 .. 1 /\ Tilt(Right, b) = r - l /\ h[x] = 1 + Taller(l, r)
  BY <1>1, <1>2, <1>3 DEF Proper
<1>5. h[t.child[s][x]] = (IF s = Left THEN l ELSE r) /\ h[t.child[-s][x]] = (IF s = Left THEN r ELSE l)
  BY <1>3
<1> HIDE DEF l, r, b
<1>6. /\ Tilt(Left, b) = 0 - b /\ Tilt(Right, b) = b
      /\ Taller(l, r) = Taller(r, l)
  BY <1>3, <1>4 DEF Tilt, Taller
<1>7. Tilt(Right, b) = r - l <=> Tilt(Left, b) = l - r
  BY <1>4, <1>6
<1> QED
  BY <1>3, <1>4, <1>5, <1>6, <1>7 DEF b

(* The numbers of a rotation: node n has a of height ha on one side and c  *)
(* on the other, the high one, c has d of height hd and g of height hg.    *)
LEMMA SingleHeights ==
  ASSUME NEW s \in Sides, NEW b \in Int, NEW ha \in Nat, NEW hd \in Nat, NEW hg \in Nat,
         b \in -1 .. 1, Tilt(s, b) = hd - hg, ha + 2 = 1 + Taller(hd, hg), b # -s
  PROVE  LET hn == 1 + Taller(hg, ha)
         IN /\ hn \in Nat /\ b - s \in -1 .. 1 /\ -(b - s) \in -1 .. 1
            /\ Tilt(s, -(b - s)) = hg - ha /\ Tilt(s, b - s) = hd - hn
            /\ 1 + Taller(hd, hn) = IF b = 0 THEN ha + 3 ELSE ha + 2
            /\ b - s = IF b = 0 THEN -s ELSE 0
<1>1. CASE s = -1
  BY <1>1 DEF Tilt, Taller, Left
<1>2. CASE s = 1
  BY <1>2 DEF Tilt, Taller, Left
<1> QED
  BY <1>1, <1>2 DEF Sides, Left, Right

(* The same of a double rotation: g has hC on the side of n, hN on that of *)
(* the other.                                                              *)
Evened(s, b, ha, hd, hg, hC, hN) ==
  LET bn == IF b = s THEN -s ELSE 0
      bc == IF b = -s THEN s ELSE 0
  IN /\ bn \in -1 .. 1 /\ bc \in -1 .. 1 /\ Tilt(s, 0) = 0
     /\ Tilt(s, bn) = hN - ha /\ 1 + Taller(hN, ha) = ha + 1
     /\ Tilt(s, bc) = hd - hC /\ 1 + Taller(hd, hC) = ha + 1
     /\ 1 + Taller(ha + 1, ha + 1) = ha + 2
     /\ hg = ha + 1

LEMMA DoubleHeights ==
  ASSUME NEW s \in Sides, NEW ha \in Nat, NEW hd \in Nat, NEW hg \in Nat,
         NEW hC \in Nat, NEW hN \in Nat, NEW b \in Int,
         Tilt(s, -s) = hd - hg, ha + 2 = 1 + Taller(hd, hg),
         b \in -1 .. 1, Tilt(s, b) = hC - hN, hg = 1 + Taller(hC, hN)
  PROVE  Evened(s, b, ha, hd, hg, hC, hN)
<1>1. /\ Tilt(s, s) = 1 /\ Tilt(s, -s) = -1 /\ Tilt(s, 0) = 0
      /\ s \in -1 .. 1 /\ -s \in -1 .. 1 /\ s # -s /\ s # 0 /\ -s # 0
      /\ (b = 0 \/ b = s \/ b = -s)
  BY TiltFacts
<1>2. hg = hd + 1 /\ hd = ha
  BY <1>1 DEF Taller
<1>3. /\ b = 0 => hC = ha /\ hN = ha
      /\ b = s => hC = ha /\ hN = ha - 1
      /\ b = -s => hC = ha - 1 /\ hN = ha
  BY <1>1, <1>2 DEF Taller
<1>4. 1 + Taller(hN, ha) = ha + 1 /\ 1 + Taller(hd, hC) = ha + 1 /\ 1 + Taller(ha + 1, ha + 1) = ha + 2
  BY <1>1, <1>2, <1>3 DEF Taller
<1> QED
  BY <1>1, <1>2, <1>3, <1>4 DEF Evened

(* In r node m has taken the place that n has in t, in order, and all      *)
(* nodes but the one above have the heights h2.                            *)
Mended(t, B, h, n, r, B2, h2, m, U) ==
  /\ r \in Trees /\ Linked(r, U, B2) /\ Heights(h2)
  /\ r.data = t.data /\ r.free = t.free
  /\ \A K : Ordered(t, U, B, K) => Ordered(r, U, B2, K)
  /\ m \in U /\ B2[m] = B[n] /\ r.parent[m] = t.parent[n]
  /\ r.root = IF n = t.root THEN m ELSE t.root
  /\ \A x \in U : x = t.parent[n] \/ Proper(r, h2, x)
  /\ n # t.root =>
       LET p == t.parent[n]
       IN /\ h2[p] = h[p] /\ r.balance[p] = t.balance[p] /\ B2[p] = B[p]
          /\ \A z \in Sides : t.child[z][p] = n =>
               /\ r.child[z][p] = m /\ r.child[-z][p] = t.child[-z][p]
               /\ h2[t.child[-z][p]] = h[t.child[-z][p]]

(* So it is with some heights, that of m being k.                          *)
Mends(t, B, h, n, r, m, k, U) ==
  \E B2, h2 : Mended(t, B, h, n, r, B2, h2, m, U) /\ h2[m] = k

LEMMA RotateMends ==
  ASSUME NEW t \in Trees, NEW U, NEW B, Linked(t, U, B), NEW h, Heights(h),
         NEW n \in U, NEW s \in Sides,
         \A x \in U \ {n} : Proper(t, h, x),
         h[t.child[s][n]] = h[t.child[-s][n]] + 2, t.balance[t.child[s][n]] # -s
  PROVE  LET c == t.child[s][n]
             r == Rotate(t, n, s)
             H == h[t.child[-s][n]]
             k == IF t.balance[c] = 0 THEN H + 3 ELSE H + 2
         IN /\ c # NULL /\ r.balance[c] = IF t.balance[c] = 0 THEN -s ELSE 0
            /\ Mends(t, B, h, n, r, c, k, U)
<1> DEFINE c == t.child[s][n]
           g == t.child[-s][c]
           a == t.child[-s][n]
           d == t.child[s][c]
           b == t.balance[c]
           p == t.parent[n]
           B2 == Raised(t, B, n, s)
           r == Rotate(t, n, s)
           hn == 1 + Taller(h[g], h[a])
           k == IF b = 0 THEN h[a] + 3 ELSE h[a] + 2
           h2 == [h EXCEPT ![n] = hn, ![c] = k]
<1>1. /\ \A z \in Sides, x \in Nodes : t.child[z][x] \in Links
      /\ U \subseteq Nodes /\ U \subseteq Links /\ n \in Nodes /\ -s \in Sides /\ NULL \in Links
      /\ h \in [Links -> Nat] /\ h[NULL] = 0 /\ -(-s) = s /\ t.balance \in [Nodes -> Int]
      /\ \A z \in Sides : z = s \/ z = -s
  BY Fields, SideFacts DEF Linked, Links, Heights
<1>2. c # NULL
  <2>1. h[a] \in Nat
    BY <1>1
  <2> QED
    BY <1>1, <2>1
<1>3. /\ r \in Trees /\ Rotated(t, r, n, s, U) /\ r.data = t.data /\ r.free = t.free
      /\ r.balance = [t.balance EXCEPT ![c] = b - s, ![n] = -(b - s)]
  BY <1>2, RotateFacts
<1>4. Linked(r, U, B2)
  BY <1>2, <1>3, RotatedLinked
<1>5. /\ c \in U /\ c # n /\ n # NULL
      /\ \A x \in {a, g, d} : x \in U \cup {NULL} /\ x # c /\ x # n
      /\ r.child[s][n] = g /\ r.child[-s][n] = a
      /\ r.child[s][c] = d /\ r.child[-s][c] = n
      /\ \A x \in U \ {n, c}, z \in Sides :
           \/ /\ t.child[z][x] = n /\ r.child[z][x] = c
              /\ n # t.root /\ x = p
           \/ r.child[z][x] = t.child[z][x] /\ t.child[z][x] \notin {n, c}
      /\ \A x \in Links \ {n, c} : B2[x] = B[x]
      /\ B2[c] = B[n]
  <2>1. r \in Trees
    BY <1>3
  <2>3. Rotated(t, r, n, s, U)
    BY <1>3
  <2>4. t.child[s][n] # NULL
    BY <1>2
  <2> HIDE DEF r
  <2>2. Turned(t, r, B, n, s, U)
    BY <2>1, <2>3, <2>4, RotatedChildren
  <2> QED
    BY Zenon, <2>2 DEF Turned
<1>6. n # t.root => /\ p \in U /\ p # n /\ p # c /\ p # NULL
                    /\ \A z \in Sides : t.child[z][p] = n => t.child[-z][p] \notin {n, c}
  <2> SUFFICES ASSUME n # t.root
               PROVE  /\ p \in U /\ p # n /\ p # c /\ p # NULL
                      /\ \A z \in Sides : t.child[z][p] = n => t.child[-z][p] \notin {n, c}
    OBVIOUS
  <2>1. /\ p \in U /\ p \in Nodes /\ p \notin B[n] /\ B[n] \subseteq B[p]
        /\ \E z \in Sides : t.child[z][p] = n /\ t.child[-z][p] # n
    BY ParentFacts
  <2> p # NULL
    BY <2>1, SideFacts
  <2>2. n \in B[n] /\ c \in B[n]
    BY <1>2, ChildFacts
  <2>3. ASSUME NEW z \in Sides, t.child[z][p] = n
        PROVE  t.child[-z][p] # n
    <3>1. p \in U
      BY <2>1
    <3> HIDE DEF p, c, g, a, d, b
    <3>2. t.child[z][p] # NULL
      BY <1>5, <2>3
    <3>3. t.child[z][p] # t.child[-z][p]
      BY <3>1, <3>2, ChildFacts
    <3> QED
      BY <2>3, <3>3
  <2>4. \A z \in Sides : t.child[z][p] # c
    <3>1. \A x \in U, z \in Sides : t.child[z][x] = c => x = n
      BY <1>2, ChildFacts
    <3>2. p \in U /\ p # n
      BY <2>1, <2>2
    <3> HIDE DEF p, c, g, a, d, b
    <3> QED
      BY <3>1, <3>2
  <2> QED
    BY Zenon, <1>5, <2>1, <2>2, <2>3, <2>4, SideFacts
<1>7. /\ b \in -1 .. 1 /\ Tilt(s, b) = h[d] - h[g] /\ h[c] = 1 + Taller(h[d], h[g])
      /\ h[a] \in Nat /\ h[d] \in Nat /\ h[g] \in Nat /\ b \in Int
  <2>1. c \in Nodes /\ Proper(t, h, c) /\ Heights(h)
    BY SMTT(20), <1>1, <1>5
  <2>2. h[a] \in Nat /\ h[d] \in Nat /\ h[g] \in Nat /\ b \in Int
    BY <1>1, <2>1
  <2> QED
    BY SMTT(20), <2>1, <2>2, ProperOn
<1>8. /\ hn \in Nat /\ b - s \in -1 .. 1 /\ -(b - s) \in -1 .. 1
      /\ Tilt(s, -(b - s)) = h[g] - h[a] /\ Tilt(s, b - s) = h[d] - hn
      /\ 1 + Taller(h[d], hn) = k
      /\ b - s = IF b = 0 THEN -s ELSE 0
  <2>1. h[a] + 2 = 1 + Taller(h[d], h[g]) /\ b # -s
    BY <1>7
  <2> HIDE DEF b, g, a, d
  <2> QED
    BY SMTT(20), <1>7, <2>1, SingleHeights
<1>9. k \in Nat
  BY SMTT(20), <1>7
<1>10. t.child[s][n] = c /\ p = t.parent[n] /\ c \in Nodes /\ t.balance[c] = b
  BY SMTT(20), <1>1, <1>5
<1> HIDE DEF c, g, a, d, b, p, B2, r, hn, k
<1>11. Heights(h2) /\ \A x \in Links : h2[x] = IF x = c THEN k ELSE IF x = n THEN hn ELSE h[x]
  BY <1>1, <1>5, <1>8, <1>9, <1>10 DEF Heights, Links
<1> HIDE DEF h2
<1>12. \A x \in Nodes : r.balance[x] = IF x = n THEN -(b - s)
                                       ELSE IF x = c THEN b - s ELSE t.balance[x]
  <2> DEFINE v == b - s
             w == -(b - s)
  <2>1. v \in Int /\ w \in Int
    BY <1>8
  <2>2. r.balance = [t.balance EXCEPT ![c] = v, ![n] = w]
    BY <1>3
  <2>3. \A x \in Nodes : r.balance[x] = IF x = n THEN w ELSE IF x = c THEN v ELSE t.balance[x]
    <3>1. t.balance \in [Nodes -> Int] /\ n \in Nodes /\ c \in Nodes
      BY <1>1, <1>10
    <3> HIDE DEF v, w
    <3> QED
      BY <2>1, <2>2, <3>1
  <2> QED
    BY <2>3
<1>13. /\ h2[n] = hn /\ h2[c] = k
       /\ h2[a] = h[a] /\ h2[g] = h[g] /\ h2[d] = h[d]
       /\ r.balance[n] = -(b - s) /\ r.balance[c] = b - s
  <2>1. a \in Links /\ g \in Links /\ d \in Links
    BY <1>1, <1>5
  <2> QED
    BY <1>1, <1>5, <1>10, <1>11, <1>12, <2>1
<1>14. Proper(r, h2, n)
  BY SMTT(20), <1>1, <1>3, <1>5, <1>8, <1>11, <1>13, ProperOn DEF hn
<1>15. Proper(r, h2, c)
  BY <1>1, <1>3, <1>5, <1>8, <1>10, <1>11, <1>13, ProperOn
<1>16. ASSUME NEW x \in U, x # p, x # n, x # c
       PROVE  Proper(r, h2, x)
  <2>1. \A z \in Sides : /\ r.child[z][x] = t.child[z][x] /\ t.child[z][x] \in Links
                         /\ h2[r.child[z][x]] = h[t.child[z][x]]
    BY <1>1, <1>5, <1>11, <1>16
  <2>2. h2[x] = h[x] /\ r.balance[x] = t.balance[x] /\ Proper(t, h, x)
    BY <1>1, <1>11, <1>12, <1>16
  <2> QED
    BY <2>1, <2>2, SideFacts DEF Proper
<1>17. r.parent[c] = p /\ r.root = IF n = t.root THEN c ELSE t.root
  BY <1>3, <1>5, <1>10 DEF Rotated
<1>18. ASSUME n # t.root
       PROVE  /\ h2[p] = h[p] /\ r.balance[p] = t.balance[p] /\ B2[p] = B[p]
              /\ \A z \in Sides : t.child[z][p] = n =>
                   /\ r.child[z][p] = c /\ r.child[-z][p] = t.child[-z][p]
                   /\ h2[t.child[-z][p]] = h[t.child[-z][p]]
  <2>1. h2[p] = h[p] /\ r.balance[p] = t.balance[p] /\ B2[p] = B[p]
    BY <1>1, <1>5, <1>6, <1>11, <1>12, <1>18
  <2>2. ASSUME NEW z \in Sides, t.child[z][p] = n
        PROVE  /\ r.child[z][p] = c /\ r.child[-z][p] = t.child[-z][p]
               /\ h2[t.child[-z][p]] = h[t.child[-z][p]]
    <3>1. t.child[-z][p] \notin {n, c} /\ -z \in Sides /\ t.child[-z][p] \in Links
      BY <1>1, <1>6, <1>18, <2>2, SideFacts
    <3> QED
      BY <1>5, <1>6, <1>11, <1>18, <2>2, <3>1
  <2> QED
    BY <2>1, <2>2
<1>19. ASSUME NEW K, Ordered(t, U, B, K)
       PROVE  Ordered(r, U, B2, K)
  BY SMTT(20), <1>2, <1>3, <1>10, <1>19, RotatedOrdered DEF B2
<1>20. Mended(t, B, h, n, r, B2, h2, c, U)
  <2>1. \A x \in U : x = p \/ Proper(r, h2, x)
    BY <1>14, <1>15, <1>16
  <2> QED
    BY SMTT(20), <1>3, <1>4, <1>5, <1>10, <1>11, <1>17, <1>18, <1>19, <2>1 DEF Mended
<1> QED
  BY Zenon, <1>2, <1>3, <1>8, <1>13, <1>20 DEF Mends, c, r, k, b, a

(* The children after a double rotation, and the nodes below them.         *)
TurnedTwice(t, t1, r, B, n, s, U) ==
  LET c == t.child[s][n]
      g == t.child[-s][c]
      p == t.parent[n]
      B2 == Raised(t1, Raised(t, B, c, -s), n, s)
  IN /\ c \in U /\ g \in U /\ c # n /\ g # n /\ g # c
     /\ r.child[s][n] = t.child[-s][g] /\ r.child[-s][n] = t.child[-s][n]
     /\ r.child[s][c] = t.child[s][c] /\ r.child[-s][c] = t.child[s][g]
     /\ r.child[s][g] = c /\ r.child[-s][g] = n
     /\ \A x \in {t.child[-s][n], t.child[s][c], t.child[s][g], t.child[-s][g]} :
          x \in U \cup {NULL} /\ x \notin {n, c, g}
     /\ \A x \in U \ {n, c, g}, z \in Sides :
          \/ t.child[z][x] = n /\ r.child[z][x] = g /\ n # t.root /\ x = p
          \/ r.child[z][x] = t.child[z][x] /\ t.child[z][x] \notin {n, c, g}
     /\ B2[g] = B[n] /\ \A x \in Links \ {n, c, g} : B2[x] = B[x]
     /\ r.parent[g] = p /\ r.root = IF n = t.root THEN g ELSE t.root
     /\ Linked(r, U, B2)

LEMMA RotatedTwice ==
  ASSUME NEW t \in Trees, NEW t1 \in Trees, NEW r \in Trees,
         NEW U, NEW B, Linked(t, U, B), NEW n \in U, NEW s \in Sides,
         t.child[s][n] # NULL, t.child[-s][t.child[s][n]] # NULL,
         Rotated(t, t1, t.child[s][n], -s, U), Rotated(t1, r, n, s, U)
  PROVE  TurnedTwice(t, t1, r, B, n, s, U)
<1> DEFINE c == t.child[s][n]
           g == t.child[-s][c]
           a == t.child[-s][n]
           d == t.child[s][c]
           toN == t.child[-s][g]
           toC == t.child[s][g]
           p == t.parent[n]
           B1 == Raised(t, B, c, -s)
           B2 == Raised(t1, B1, n, s)
<1>1. /\ -s \in Sides /\ -s # s /\ -(-s) = s /\ \A z \in Sides : z = s \/ z = -s
      /\ NULL \notin Nodes /\ U \subseteq Nodes /\ U \subseteq Links /\ NULL \in Links
  BY SideFacts DEF Linked, Links
<1>2. /\ c \in U /\ c # n /\ t.parent[c] = n /\ n \notin B[c] /\ c \in B[c] /\ c # t.root
      /\ c # a /\ \A x \in U, z \in Sides : t.child[z][x] = c => x = n /\ z = s
  BY ChildFacts
<1>3. /\ g \in U /\ g # c /\ g \in B[c]
      /\ \A x \in U, z \in Sides : t.child[z][x] = g => x = c /\ z = -s
  BY <1>1, <1>2, ChildFacts
<1>4. Turned(t, t1, B, c, -s, U)
  BY <1>1, <1>2, RotatedChildren
<1>5. /\ t.child[s][n] = c /\ t.child[-s][n] = a /\ t.child[s][c] = d /\ t.child[-s][c] = g
      /\ t.child[-s][g] = toN /\ t.child[s][g] = toC /\ t.parent[n] = p
  OBVIOUS
<1>6. Linked(t1, U, B1)
  BY <1>1, <1>2, <1>5, RotatedLinked
<1> HIDE DEF c, g, a, d, toN, toC, p, B2
<1>7. /\ \A x \in {d, toC, toN} : x \in U \cup {NULL} /\ x # g /\ x # c
      /\ t1.child[-s][c] = toC /\ t1.child[s][c] = d
      /\ t1.child[-s][g] = toN /\ t1.child[s][g] = c
      /\ \A x \in U \ {c, g}, z \in Sides :
           \/ t.child[z][x] = c /\ t1.child[z][x] = g
           \/ t1.child[z][x] = t.child[z][x] /\ t.child[z][x] \notin {c, g}
      /\ \A x \in Links \ {c, g} : B1[x] = B[x]
  BY <1>1, <1>4, <1>5 DEF Turned, B1
<1> HIDE DEF B1
<1>8. t1.child[s][n] = g /\ t1.child[-s][n] = a /\ n # g
  <2>1. n # g
    BY <1>2, <1>3
  <2>2. t1.child[s][n] = g
    BY <1>1, <1>2, <1>5, <1>7, <2>1
  <2>3. t1.child[-s][n] = a
    BY <1>1, <1>2, <1>5, <1>7, <2>1
  <2> QED
    BY <2>1, <2>2, <2>3
<1>9. Turned(t1, r, B1, n, s, U)
  <2>1. t1.child[s][n] # NULL
    BY <1>1, <1>3, <1>8
  <2> QED
    BY <1>6, <2>1, RotatedChildren
<1>10. Linked(r, U, B2)
  <2>1. t1.child[s][n] # NULL
    BY <1>1, <1>3, <1>8
  <2> QED
    BY SMTT(20), <1>6, <2>1, RotatedLinked DEF B2
<1>11. /\ \A x \in {a, toN, c} : x \in U \cup {NULL} /\ x # g /\ x # n
       /\ r.child[s][n] = toN /\ r.child[-s][n] = a
       /\ r.child[s][g] = c /\ r.child[-s][g] = n
       /\ \A x \in U \ {n, g}, z \in Sides :
            \/ t1.child[z][x] = n /\ r.child[z][x] = g
            \/ r.child[z][x] = t1.child[z][x] /\ t1.child[z][x] \notin {n, g}
       /\ \A x \in Links \ {n, g} : B2[x] = B1[x]
       /\ B2[g] = B1[n]
  BY <1>7, <1>8, <1>9 DEF Turned, B2
<1>12. toC # n /\ d # n
  <2>1. ASSUME NEW x \in U, NEW z \in Sides, t.child[z][x] = n
        PROVE  n \in B[x]
    BY <1>1, <2>1, ChildFacts
  <2>2. d # n
    BY <1>1, <1>2, <1>5, <2>1
  <2>3. toC = n => n \in B[g] /\ B[g] \subseteq B[c]
    <3>1. B[g] \subseteq B[c]
      BY <1>1, <1>2, <1>3, <1>5 DEF Linked
    <3> QED
      BY <1>3, <1>5, <2>1, <3>1
  <2> QED
    BY <1>2, <2>2, <2>3
<1>13. r.child[s][c] = d /\ r.child[-s][c] = toC
  BY <1>1, <1>2, <1>3, <1>7, <1>11, <1>12
<1>14. \A x \in U, z \in Sides : t.child[z][x] = n => n # t.root /\ x = p
  <2>1. ASSUME NEW x \in U, NEW z \in Sides, t.child[z][x] = n
        PROVE  n # t.root /\ x = t.parent[n]
    BY <1>1, <2>1, ChildFacts
  <2> QED
    BY <1>5, <2>1
<1>15. ASSUME NEW x \in U \ {n, c, g}, NEW z \in Sides
       PROVE  \/ t.child[z][x] = n /\ r.child[z][x] = g /\ n # t.root /\ x = p
              \/ r.child[z][x] = t.child[z][x] /\ t.child[z][x] \notin {n, c, g}
  <2>1. t1.child[z][x] = t.child[z][x] /\ t.child[z][x] \notin {c, g}
    BY <1>2, <1>7
  <2> QED
    BY <1>11, <1>14, <2>1
<1>16. B2[g] = B[n] /\ \A x \in Links \ {n, c, g} : B2[x] = B[x]
  BY <1>1, <1>2, <1>7, <1>8, <1>11
<1>17. r.parent[g] = p /\ r.root = IF n = t.root THEN g ELSE t.root
  <2>1. t1.parent[n] = p
    <3>1. t1.parent[n] = IF n = g THEN t.parent[c] ELSE IF n = c THEN g
                         ELSE IF n = t.child[s][g] THEN c ELSE t.parent[n]
      BY <1>1, <1>5 DEF Rotated
    <3> QED
      BY <1>2, <1>5, <1>8, <1>12, <3>1
  <2>2. t1.root = IF c = t.root THEN g ELSE t.root
    BY SMTT(20), <1>1, <1>5 DEF Rotated
  <2>3. r.parent[g] = t1.parent[n] /\ r.root = IF n = t1.root THEN g ELSE t1.root
    BY SMTT(20), <1>3, <1>8 DEF Rotated
  <2> QED
    BY <1>2, <2>1, <2>2, <2>3
<1>18. \A x \in {a, d, toC, toN} : x \in U \cup {NULL} /\ x \notin {n, c, g}
  <2>1. a # c
    BY <1>2
  <2> QED
    BY <1>7, <1>11, <1>12, <2>1
<1> QED
  BY Zenon, <1>2, <1>3, <1>8, <1>10, <1>11, <1>13, <1>15, <1>16, <1>17, <1>18
  DEF TurnedTwice, B2, B1, c, g, a, d, toN, toC, p

LEMMA RotateTwiceMends ==
  ASSUME NEW t \in Trees, NEW U, NEW B, Linked(t, U, B), NEW h, Heights(h),
         NEW n \in U, NEW s \in Sides,
         \A x \in U \ {n} : Proper(t, h, x),
         h[t.child[s][n]] = h[t.child[-s][n]] + 2, t.balance[t.child[s][n]] = -s
  PROVE  LET g == t.child[-s][t.child[s][n]]
             r == RotateTwice(t, n, s)
         IN /\ t.child[s][n] # NULL /\ g # NULL /\ r.balance[g] = 0
            /\ Mends(t, B, h, n, r, g, h[t.child[-s][n]] + 2, U)
<1> DEFINE c == t.child[s][n]
           g == t.child[-s][c]
           a == t.child[-s][n]
           d == t.child[s][c]
           toN == t.child[-s][g]
           toC == t.child[s][g]
           p == t.parent[n]
           t1 == Rotate(t, c, -s)
           B2 == Raised(t1, Raised(t, B, c, -s), n, s)
           r == RotateTwice(t, n, s)
           bn == IF t.balance[g] = s THEN -s ELSE 0
           bc == IF t.balance[g] = -s THEN s ELSE 0
           h1 == [h EXCEPT ![n] = h[a] + 1, ![c] = h[a] + 1]
           h2 == [h1 EXCEPT ![g] = h[a] + 2]
<1>1. /\ \A z \in Sides, x \in Nodes : t.child[z][x] \in Links
      /\ U \subseteq Nodes /\ U \subseteq Links /\ n \in Nodes /\ -s \in Sides /\ NULL \in Links
      /\ h \in [Links -> Nat] /\ h[NULL] = 0 /\ t.balance \in [Nodes -> Int]
      /\ -(-s) = s /\ -s # s /\ \A z \in Sides : z = s \/ z = -s
      /\ NULL \notin U
  BY SMTT(20), Fields, SideFacts DEF Linked, Links, Heights
<1>2. c # NULL /\ c \in U /\ c \in Nodes /\ c # n
  <2>1. c # NULL
    <3>1. h[a] \in Nat /\ h[c] = h[a] + 2
      BY SMTT(20), <1>1
    <3> QED
      BY <1>1, <3>1
  <2> QED
    BY <2>1, ChildFacts
<1>3. /\ Tilt(s, -s) = h[d] - h[g] /\ h[c] = 1 + Taller(h[d], h[g])
      /\ h[a] \in Nat /\ h[d] \in Nat /\ h[g] \in Nat
  <2>1. Proper(t, h, c) /\ Heights(h) /\ t.balance[c] = -s
    BY <1>1, <1>2
  <2>2. h[a] \in Nat /\ h[d] \in Nat /\ h[g] \in Nat
    BY <1>1, <1>2
  <2>3. Tilt(s, t.balance[c]) = h[d] - h[g] /\ h[c] = 1 + Taller(h[d], h[g])
    BY <1>2, <2>1, ProperOn
  <2> QED
    BY <2>1, <2>2, <2>3
<1>4. g # NULL
  <2>1. Tilt(s, -s) = -1
    BY TiltFacts
  <2> QED
    BY <1>1, <1>3, <2>1
<1>5. /\ r \in Trees /\ t1 \in Trees
      /\ Rotated(t, t1, c, -s, U) /\ Rotated(t1, r, n, s, U)
      /\ t1.child[s][n] = g
      /\ r.data = t.data /\ r.free = t.free
      /\ \A x \in Nodes :
           r.balance[x] = IF x = g THEN 0 ELSE IF x = c THEN bc
                          ELSE IF x = n THEN bn ELSE t.balance[x]
  <2>1. Doubled(t, t1, r, n, s, U)
    BY <1>2, <1>4, RotateTwiceFacts
  <2> HIDE DEF t1, r
  <2> QED
    BY Zenon, <2>1 DEF Doubled
<1>6. TurnedTwice(t, t1, r, B, n, s, U)
  <2>1. t1 \in Trees /\ r \in Trees
    BY Zenon, <1>5
  <2>2. t.child[s][n] # NULL /\ t.child[-s][t.child[s][n]] # NULL
    BY <1>2, <1>4
  <2>3. Rotated(t, t1, t.child[s][n], -s, U)
    BY Zenon, <1>5
  <2>4. Rotated(t1, r, n, s, U)
    BY Zenon, <1>5
  <2> HIDE DEF t1, r, g
  <2> QED
    BY <2>1, <2>2, <2>3, <2>4, RotatedTwice
<1>7. ASSUME NEW K, Ordered(t, U, B, K)
      PROVE  Ordered(r, U, B2, K)
  <2>1. t1 \in Trees /\ r \in Trees
    BY <1>5
  <2>2. t.child[s][n] # NULL /\ t.child[-s][c] # NULL /\ t1.child[s][n] # NULL
    BY Zenon, <1>2, <1>4, <1>5
  <2>3. Rotated(t, t1, c, -s, U)
    BY Zenon, <1>5
  <2>4. Rotated(t1, r, n, s, U)
    BY <1>5
  <2> DEFINE B1 == Raised(t, B, c, -s)
  <2> HIDE DEF t1, r, c
  <2>5. Linked(t1, U, B1)
    BY <1>1, <1>2, <2>1, <2>2, <2>3, RotatedLinked
  <2>6. Ordered(t1, U, B1, K)
    BY <1>1, <1>2, <1>7, <2>1, <2>2, <2>3, RotatedOrdered
  <2> HIDE DEF B1
  <2>7. Ordered(r, U, Raised(t1, B1, n, s), K)
    BY <2>1, <2>2, <2>4, <2>5, <2>6, RotatedOrdered
  <2> QED
    BY <2>7 DEF B1
<1>8. /\ t.child[s][n] = c /\ t.child[-s][n] = a /\ t.child[s][c] = d /\ t.child[-s][c] = g
      /\ t.child[-s][g] = toN /\ t.child[s][g] = toC /\ t.parent[n] = p
  OBVIOUS
<1> HIDE DEF c, g, a, d, toN, toC, p, t1, B2, r
<1>9. /\ g \in U /\ g # n /\ g # c
      /\ r.child[s][n] = toN /\ r.child[-s][n] = a
      /\ r.child[s][c] = d /\ r.child[-s][c] = toC
      /\ r.child[s][g] = c /\ r.child[-s][g] = n
      /\ \A x \in {a, d, toC, toN} : x \in U \cup {NULL} /\ x \notin {n, c, g}
      /\ \A x \in U \ {n, c, g}, z \in Sides :
           \/ t.child[z][x] = n /\ r.child[z][x] = g /\ n # t.root /\ x = p
           \/ r.child[z][x] = t.child[z][x] /\ t.child[z][x] \notin {n, c, g}
      /\ B2[g] = B[n] /\ \A x \in Links \ {n, c, g} : B2[x] = B[x]
      /\ r.parent[g] = p /\ r.root = IF n = t.root THEN g ELSE t.root
      /\ Linked(r, U, B2)
  BY <1>6, <1>8 DEF TurnedTwice, B2
<1>10. /\ bn \in -1 .. 1 /\ bc \in -1 .. 1 /\ Tilt(s, 0) = 0
       /\ Tilt(s, bn) = h[toN] - h[a] /\ 1 + Taller(h[toN], h[a]) = h[a] + 1
       /\ Tilt(s, bc) = h[d] - h[toC] /\ 1 + Taller(h[d], h[toC]) = h[a] + 1
       /\ 1 + Taller(h[a] + 1, h[a] + 1) = h[a] + 2
       /\ h[g] = h[a] + 1
  <2>1. Proper(t, h, g) /\ g \in Nodes
    BY <1>1, <1>9
  <2>2. /\ t.balance[g] \in -1 .. 1 /\ Tilt(s, t.balance[g]) = h[toC] - h[toN]
        /\ h[g] = 1 + Taller(h[toC], h[toN])
    BY <1>8, <2>1, ProperOn
  <2>3. h[toC] \in Nat /\ h[toN] \in Nat /\ h[a] + 2 = 1 + Taller(h[d], h[g])
    BY <1>1, <1>3, <1>8, <2>1
  <2>4. t.balance[g] \in Int
    BY <2>2
  <2> HIDE DEF bn, bc
  <2> DEFINE b == t.balance[g]
  <2>5. b \in Int /\ b \in -1 .. 1 /\ Tilt(s, b) = h[toC] - h[toN]
    BY <2>2, <2>4
  <2>6. bn = (IF b = s THEN -s ELSE 0) /\ bc = (IF b = -s THEN s ELSE 0)
    BY DEF bn, bc
  <2> DEFINE ha == h[a]  hd == h[d]  hg == h[g]  hC == h[toC]  hN == h[toN]
  <2>7. ha \in Nat /\ hd \in Nat /\ hg \in Nat /\ hC \in Nat /\ hN \in Nat
    BY <1>3, <2>3
  <2>8. /\ Tilt(s, -s) = hd - hg /\ ha + 2 = 1 + Taller(hd, hg)
        /\ Tilt(s, b) = hC - hN /\ hg = 1 + Taller(hC, hN)
    BY <1>3, <2>2, <2>3, <2>5
  <2> HIDE DEF b, ha, hd, hg, hC, hN
  <2>9. Evened(s, b, ha, hd, hg, hC, hN)
    BY <2>5, <2>7, <2>8, DoubleHeights
  <2> QED
    BY <2>6, <2>9 DEF Evened, ha, hd, hg, hC, hN
<1>11. \A x \in Nodes : r.balance[x] = IF x = g THEN 0 ELSE IF x = c THEN bc
                                       ELSE IF x = n THEN bn ELSE t.balance[x]
  BY Zenon, <1>5
<1> HIDE DEF bn, bc
<1>12. /\ Heights(h2)
       /\ \A x \in Links : h2[x] = IF x = g THEN h[a] + 2
                                   ELSE IF x \in {n, c} THEN h[a] + 1 ELSE h[x]
  <2> DEFINE v == h[a] + 1
             w == h[a] + 2
  <2>1. v \in Nat /\ w \in Nat
    BY <1>3
  <2>2. n \in Links /\ c \in Links /\ g \in Links /\ n # NULL /\ c # NULL /\ g # NULL
    BY <1>1, <1>2, <1>9
  <2>3. h1 = [h EXCEPT ![n] = v, ![c] = v] /\ h2 = [h1 EXCEPT ![g] = w]
    OBVIOUS
  <2> HIDE DEF v, w, h1, h2
  <2>4. h1 \in [Links -> Nat] /\ \A x \in Links : h1[x] = IF x \in {n, c} THEN v ELSE h[x]
    BY <1>1, <2>1, <2>2, <2>3
  <2>5. h2 \in [Links -> Nat] /\ \A x \in Links : h2[x] = IF x = g THEN w ELSE h1[x]
    BY <2>1, <2>2, <2>3, <2>4
  <2>6. h2[NULL] = 0
    BY <1>1, <2>2, <2>4, <2>5
  <2> QED
    BY <2>4, <2>5, <2>6 DEF Heights, v, w
<1> HIDE DEF h1, h2
<1>13. /\ h2[n] = h[a] + 1 /\ h2[c] = h[a] + 1 /\ h2[g] = h[a] + 2
       /\ h2[a] = h[a] /\ h2[d] = h[d] /\ h2[toC] = h[toC] /\ h2[toN] = h[toN]
       /\ r.balance[n] = bn /\ r.balance[c] = bc /\ r.balance[g] = 0
  <2>1. /\ a \in Links /\ d \in Links /\ toC \in Links /\ toN \in Links
        /\ n \in Links /\ c \in Links /\ g \in Links /\ g \in Nodes
    BY <1>1, <1>2, <1>9
  <2>2. \A x \in {a, d, toC, toN} : x \notin {n, c, g}
    BY <1>9
  <2> QED
    BY <1>1, <1>2, <1>9, <1>11, <1>12, <2>1, <2>2
<1>14. Proper(r, h2, n)
  BY <1>1, <1>5, <1>9, <1>10, <1>12, <1>13, ProperOn DEF r
<1>15. Proper(r, h2, c)
  BY SMTT(20), <1>1, <1>2, <1>5, <1>9, <1>10, <1>12, <1>13, ProperOn DEF r
<1>16. Proper(r, h2, g)
  <2>1. r \in Trees /\ g \in Nodes /\ 0 \in -1 .. 1
    BY <1>1, <1>5, <1>9 DEF r
  <2>2. /\ Tilt(s, r.balance[g]) = h2[r.child[s][g]] - h2[r.child[-s][g]]
        /\ h2[g] = 1 + Taller(h2[r.child[s][g]], h2[r.child[-s][g]])
    BY <1>3, <1>9, <1>10, <1>13
  <2> QED
    BY <1>12, <1>13, <2>1, <2>2, ProperOn
<1>17. ASSUME NEW x \in U, x # p, x \notin {n, c, g}
       PROVE  Proper(r, h2, x)
  <2>1. \A z \in Sides : /\ r.child[z][x] = t.child[z][x] /\ t.child[z][x] \in Links
                         /\ h2[r.child[z][x]] = h[t.child[z][x]]
    BY <1>1, <1>9, <1>12, <1>17
  <2>2. h2[x] = h[x] /\ r.balance[x] = t.balance[x] /\ Proper(t, h, x)
    BY <1>1, <1>11, <1>12, <1>17
  <2> QED
    BY <2>1, <2>2, SideFacts DEF Proper
<1>18. ASSUME n # t.root
       PROVE  /\ h2[p] = h[p] /\ r.balance[p] = t.balance[p] /\ B2[p] = B[p]
              /\ \A z \in Sides : t.child[z][p] = n =>
                   /\ r.child[z][p] = g /\ r.child[-z][p] = t.child[-z][p]
                   /\ h2[t.child[-z][p]] = h[t.child[-z][p]]
  <2>1. /\ p \in U /\ p \in Nodes /\ p \notin B[n] /\ B[n] \subseteq B[p]
        /\ \E z \in Sides : t.child[z][p] = n /\ t.child[-z][p] # n
    BY <1>18, ParentFacts DEF p
  <2>2. c \in B[n] /\ g \in B[n] /\ n \in B[n]
    <3>1. c \in B[c] /\ B[c] \subseteq B[n] /\ n \in B[n]
      BY <1>2, <1>8, ChildFacts
    <3>2. g \in B[g] /\ B[g] \subseteq B[c]
      BY <1>1, <1>2, <1>4, <1>8, ChildFacts
    <3> QED
      BY <3>1, <3>2
  <2>3. p \notin {n, c, g} /\ p \in Links
    BY <1>1, <2>1, <2>2
  <2>4. h2[p] = h[p] /\ r.balance[p] = t.balance[p] /\ B2[p] = B[p]
    BY <1>9, <1>11, <1>12, <2>1, <2>3
  <2>5. ASSUME NEW z \in Sides, t.child[z][p] = n
        PROVE  /\ r.child[z][p] = g /\ r.child[-z][p] = t.child[-z][p]
               /\ h2[t.child[-z][p]] = h[t.child[-z][p]]
    <3>1. t.child[-z][p] # n /\ -z \in Sides /\ t.child[-z][p] \in Links
      BY <1>1, <2>1, <2>2, <2>5, SideFacts DEF Linked
    <3>2. r.child[-z][p] = t.child[-z][p] /\ t.child[-z][p] \notin {n, c, g}
      BY <1>9, <2>1, <2>3, <3>1
    <3> QED
      BY <1>9, <1>12, <2>1, <2>3, <2>5, <3>1, <3>2
  <2> QED
    BY <2>4, <2>5
<1>19. Mended(t, B, h, n, r, B2, h2, g, U)
  <2>1. \A x \in U : x = p \/ Proper(r, h2, x)
    BY <1>14, <1>15, <1>16, <1>17
  <2>2. r \in Trees /\ r.data = t.data /\ r.free = t.free
    BY <1>5 DEF r
  <2> QED
    BY <1>7, <1>8, <1>9, <1>12, <1>18, <2>1, <2>2 DEF Mended
<1> QED
  BY Zenon, <1>2, <1>4, <1>13, <1>19 DEF Mends, c, g, r, a

-----------------------------------------------------------------------------
(* A tree over the nodes U, in the order of the keys K.                    *)
Shaped(t, U, B, h, K) ==
  t \in Trees /\ Linked(t, U, B) /\ Heights(h) /\ Ordered(t, U, B, K)

(* What a node above a mended one knows of it: of the side it is on, and   *)
(* of the height that it had.                                              *)
Resumed(r, B2, h2, m, H, k, U) ==
  LET p == r.parent[m]
      z == SideOf(r, m)
  IN /\ p \in U \cup {NULL}
     /\ h2[m] = H \/ p = NULL => \A x \in U : Proper(r, h2, x)
     /\ p # NULL =>
          /\ z \in Sides /\ r.child[z][p] = m /\ r.child[-z][p] \in Links
          /\ \A x \in U \ {p} : Proper(r, h2, x)
          /\ r.balance[p] \in -1 .. 1
          /\ Tilt(z, r.balance[p]) = H - h2[r.child[-z][p]]
          /\ h2[p] = 1 + Taller(H, h2[r.child[-z][p]])
          /\ Cardinality(B2[p]) > k

LEMMA Countable ==
  ASSUME NEW S \in SUBSET Nodes
  PROVE  IsFiniteSet(S) /\ Cardinality(S) \in Nat /\ Cardinality(S) <= Capacity
<1>1. IsFiniteSet(Nodes) /\ Cardinality(Nodes) = Capacity
  BY CapacityAssumption, FS_Interval DEF Nodes
<1> QED
  BY <1>1, FS_Subset, FS_CardinalityType

LEMMA Fewer ==
  ASSUME NEW S \in SUBSET Nodes, NEW T \in SUBSET S, NEW x \in S, x \notin T
  PROVE  Cardinality(T) \in Nat /\ Cardinality(S) \in Nat
         /\ Cardinality(T) + 1 <= Cardinality(S) /\ Cardinality(S) <= Capacity
<1>1. IsFiniteSet(S) /\ Cardinality(S) <= Capacity /\ Cardinality(S) \in Nat
  BY Countable
<1>2. IsFiniteSet(T) /\ Cardinality(T) <= Cardinality(S) /\ Cardinality(T) \in Nat
      /\ (Cardinality(T) = Cardinality(S) => T = S)
  BY <1>1, FS_Subset, FS_CardinalityType
<1> QED
  BY <1>1, <1>2

LEMMA SideOfFacts ==
  ASSUME NEW r, NEW m, NEW z \in Sides, r.parent[m] # NULL,
         r.child[z][r.parent[m]] = m, r.child[-z][r.parent[m]] # m
  PROVE  SideOf(r, m) = z
<1>1. z = Left \/ (z = Right /\ -z = Left)
  BY DEF Sides, Left, Right
<1> QED
  BY <1>1 DEF SideOf

LEMMA Resume ==
  ASSUME NEW v \in Trees, NEW U, NEW B, Linked(v, U, B), NEW h, Heights(h),
         NEW n \in U, \A x \in U \ {n} : Proper(v, h, x),
         NEW r, NEW B2, NEW h2, NEW m, Mended(v, B, h, n, r, B2, h2, m, U)
  PROVE  Resumed(r, B2, h2, m, h[n], Cardinality(B[n]), U)
<1> DEFINE p == v.parent[n]
           z == SideOf(r, m)
<1>1. /\ r \in Trees /\ Linked(r, U, B2) /\ Heights(h2)
      /\ m \in U /\ r.parent[m] = p
      /\ r.root = IF n = v.root THEN m ELSE v.root
      /\ \A x \in U : x = p \/ Proper(r, h2, x)
      /\ U \subseteq Nodes /\ NULL \notin U
  BY SMTT(20), SideFacts DEF Mended, Linked
<1>2. CASE n = v.root
  <2>1. p = NULL
    BY SMTT(20), <1>1, <1>2 DEF Linked
  <2> QED
    BY <1>1, <2>1 DEF Resumed
<1>3. CASE n # v.root
  <2>1. /\ p \in U /\ p \in Nodes /\ p \notin B[n] /\ B[n] \subseteq B[p]
        /\ \E s \in Sides : v.child[s][p] = n /\ v.child[-s][p] # n
    BY <1>3, ParentFacts
  <2>2. PICK s \in Sides : v.child[s][p] = n /\ v.child[-s][p] # n
    BY <2>1
  <2>3. /\ h2[p] = h[p] /\ r.balance[p] = v.balance[p] /\ B2[p] = B[p]
        /\ r.child[s][p] = m /\ r.child[-s][p] = v.child[-s][p]
        /\ h2[v.child[-s][p]] = h[v.child[-s][p]]
    BY SMTT(20), <1>3, <2>2 DEF Mended
  <2>4. r.child[-s][p] # m
    <3>1. m \in B2[m]
      BY <1>1, SideFacts DEF Linked
    <3>2. B2[r.child[s][p]] \cap B2[r.child[-s][p]] = {}
      BY ZenonT(30), <1>1, <2>1 DEF Linked
    <3> QED
      BY SMTT(20), <2>3, <3>1, <3>2
  <2>5. z = s
    BY SMTT(20), <1>1, <2>1, <2>3, <2>4, SideOfFacts
  <2>6. n \in B[n] /\ p # n /\ p \in B[p]
    <3>1. v.child[s][p] # NULL
      BY <1>1, <2>2
    <3> QED
      BY <2>1, <2>2, <3>1, ChildFacts
  <2>7. /\ r.balance[p] \in -1 .. 1
        /\ Tilt(s, r.balance[p]) = h[n] - h2[r.child[-s][p]]
        /\ h2[p] = 1 + Taller(h[n], h2[r.child[-s][p]])
    <3>1. Proper(v, h, p)
      BY <2>1, <2>6
    <3>2. /\ v.balance[p] \in -1 .. 1
          /\ Tilt(s, v.balance[p]) = h[v.child[s][p]] - h[v.child[-s][p]]
          /\ h[p] = 1 + Taller(h[v.child[s][p]], h[v.child[-s][p]])
      BY <2>1, <3>1, ProperOn
    <3> QED
      BY <2>2, <2>3, <3>2
  <2>8. Cardinality(B2[p]) > Cardinality(B[n])
    <3>1. B[p] \in SUBSET Nodes
      BY <1>1, <2>1 DEF Linked, Links
    <3> DEFINE S == B[p]
               T == B[n]
    <3>2. S \in SUBSET Nodes /\ T \in SUBSET S /\ p \in S /\ p \notin T
      BY <2>1, <2>6, <3>1
    <3> HIDE DEF S, T, p
    <3>3. /\ Cardinality(T) \in Nat /\ Cardinality(S) \in Nat
          /\ Cardinality(T) + 1 <= Cardinality(S)
      BY ZenonT(30), <3>2, Fewer
    <3>4. Cardinality(B2[p]) > Cardinality(B[n])
      BY <2>3, <3>3 DEF S, T
    <3> QED
      BY <3>4
  <2>9. ASSUME h2[m] = h[n]
        PROVE  Proper(r, h2, p)
    <3>1. p \in Nodes /\ r \in Trees /\ Heights(h2)
      BY <1>1, <2>1
    <3>2. /\ Tilt(s, r.balance[p]) = h2[r.child[s][p]] - h2[r.child[-s][p]]
          /\ h2[p] = 1 + Taller(h2[r.child[s][p]], h2[r.child[-s][p]])
      BY <2>3, <2>7, <2>9
    <3> QED
      BY SMTT(20), <2>7, <3>1, <3>2, ProperOn
  <2>10. p # NULL /\ r.child[-s][p] \in Links /\ s \in Sides
    <3>1. -s \in Sides /\ r \in Trees
      BY <1>1, SideFacts
    <3> QED
      BY <1>1, <2>1, <3>1, Fields
  <2>11. h2[m] = h[n] \/ r.parent[m] = NULL => \A x \in U : Proper(r, h2, x)
    BY <1>1, <2>9, <2>10
  <2> QED
    BY SMTT(20), <1>1, <2>1, <2>3, <2>5, <2>7, <2>8, <2>10, <2>11 DEF Resumed
<1> QED
  BY SMTT(20), <1>2, <1>3

(* The balance of one node is changed.                                     *)
Weighed(t, n, b) == [t EXCEPT !.balance[n] = b]

Weighs(t, v, U, B, h, K, n, b) ==
  /\ Shaped(v, U, B, h, K) /\ v.balance[n] = b
  /\ v.data = t.data /\ v.free = t.free /\ v.child = t.child /\ v.parent = t.parent
  /\ v.root = t.root
  /\ \A x \in U \ {n} : v.balance[x] = t.balance[x]
  /\ \A x \in U \ {n} : Proper(t, h, x) => Proper(v, h, x)

LEMMA WeighedFacts ==
  ASSUME NEW t, NEW U, NEW B, NEW h, NEW K, Shaped(t, U, B, h, K),
         NEW n \in U, NEW b \in Int
  PROVE  Weighs(t, Weighed(t, n, b), U, B, h, K, n, b)
<1> DEFINE v == Weighed(t, n, b)
           d == [t.balance EXCEPT ![n] = b]
<1>1. t \in Trees /\ n \in Nodes /\ U \subseteq Nodes
  BY DEF Shaped, Linked
<1>2. d \in [Nodes -> Int] /\ d[n] = b /\ \A x \in U \ {n} : d[x] = t.balance[x]
  BY <1>1, Fields
<1>3. v = [t EXCEPT !.balance = d]
  BY DEF Weighed
<1> HIDE DEF d, v
<1>4. /\ v \in Trees /\ v.data = t.data /\ v.free = t.free /\ v.child = t.child
      /\ v.parent = t.parent /\ v.root = t.root /\ v.balance = d
  BY <1>1, <1>2, <1>3 DEF Trees
<1>5. Linked(v, U, B)
  BY <1>4 DEF Shaped, Linked
<1>6. Ordered(v, U, B, K)
  BY <1>4 DEF Shaped, Ordered
<1>7. \A x \in U \ {n} : Proper(t, h, x) => Proper(v, h, x)
  BY <1>2, <1>4 DEF Proper
<1> QED
  BY <1>2, <1>4, <1>5, <1>6, <1>7 DEF Shaped, Weighs, v

(* Nothing but the balance and the height of n changed.                    *)
LEMMA StayMends ==
  ASSUME NEW v \in Trees, NEW U, NEW B, Linked(v, U, B), NEW h, Heights(h),
         NEW n \in U, NEW s \in Sides, \A x \in U \ {n} : Proper(v, h, x),
         v.balance[n] \in -1 .. 1,
         Tilt(s, v.balance[n]) = h[v.child[s][n]] - h[v.child[-s][n]]
  PROVE  Mends(v, B, h, n, v, n, 1 + Taller(h[v.child[s][n]], h[v.child[-s][n]]), U)
<1> DEFINE p == v.parent[n]
           k == 1 + Taller(h[v.child[s][n]], h[v.child[-s][n]])
           h2 == [h EXCEPT ![n] = k]
<1>1. /\ U \subseteq Nodes /\ U \subseteq Links /\ n \in Nodes /\ n \in Links
      /\ h \in [Links -> Nat] /\ h[NULL] = 0 /\ -s \in Sides /\ n # NULL
      /\ \A z \in Sides, x \in U : v.child[z][x] \in Links
  BY SMTT(20), Fields, SideFacts DEF Linked, Links, Heights
<1>2. k \in Nat
  BY <1>1 DEF Taller
<1> HIDE DEF k
<1>3. Heights(h2) /\ h2[n] = k /\ \A x \in Links \ {n} : h2[x] = h[x]
  BY <1>1, <1>2 DEF Heights
<1> HIDE DEF h2
<1>4. ASSUME NEW x \in U, NEW z \in Sides, v.child[z][x] = n
      PROVE  x = p /\ n # v.root /\ v.child[-z][x] # n /\ x # n
  BY <1>1, <1>4, ChildFacts, SideFacts
<1>5. Proper(v, h2, n)
  <2>1. h2[v.child[s][n]] = h[v.child[s][n]] /\ h2[v.child[-s][n]] = h[v.child[-s][n]]
    BY <1>1, <1>3, <1>4
  <2> QED
    BY <1>1, <1>3, <2>1, ProperOn DEF k
<1>6. ASSUME NEW x \in U, x # p, x # n
      PROVE  Proper(v, h2, x)
  <2>1. \A z \in Sides : h2[v.child[z][x]] = h[v.child[z][x]]
    BY <1>1, <1>3, <1>4, <1>6
  <2>2. h2[x] = h[x] /\ Proper(v, h, x)
    BY <1>1, <1>3, <1>6
  <2> QED
    BY <2>1, <2>2, SideFacts DEF Proper
<1>7. ASSUME n # v.root
      PROVE  /\ h2[p] = h[p]
             /\ \A z \in Sides : v.child[z][p] = n => h2[v.child[-z][p]] = h[v.child[-z][p]]
  <2>1. /\ p \in U /\ p \in Nodes /\ p \notin B[n] /\ B[n] \subseteq B[p]
        /\ \E z \in Sides : v.child[z][p] = n /\ v.child[-z][p] # n
    BY <1>7, ParentFacts
  <2>2. p # n /\ p \in Links
    BY <1>1, <1>4, <2>1
  <2> HIDE DEF p
  <2>3. \A z \in Sides : v.child[z][p] = n => v.child[-z][p] # n /\ v.child[-z][p] \in Links
    BY SMTT(20), <1>1, <1>4, <2>1, SideFacts
  <2> QED
    BY <1>3, <2>2, <2>3
<1>8. Mended(v, B, h, n, v, B, h2, n, U)
  <2>1. \A x \in U : x = p \/ Proper(v, h2, x)
    BY <1>5, <1>6
  <2> QED
    BY SMTT(20), <1>3, <1>7, <2>1 DEF Mended
<1> QED
  BY <1>3, <1>8 DEF Mends, k

-----------------------------------------------------------------------------
(* The subtree of n on side s has grown by one: h[n] is its height before. *)
Grown(t, h, n, s) ==
  /\ s \in Sides /\ t.balance[n] \in -1 .. 1 /\ t.child[s][n] # NULL
  /\ Tilt(s, t.balance[n]) + 1 = h[t.child[s][n]] - h[t.child[-s][n]]
  /\ h[n] = 1 + Taller(h[t.child[s][n]] - 1, h[t.child[-s][n]])
  /\ t.balance[t.child[s][n]] # 0 \/ h[t.child[s][n]] = 1

(* The subtree of n on the side other than d has shrunk by one; or that    *)
(* below n has, and it is already in balance.                              *)
Shrunk(t, h, n, d) ==
  \/ /\ d \in Sides /\ t.balance[n] \in -1 .. 1
     /\ Tilt(d, t.balance[n]) + 1 = h[t.child[d][n]] - h[t.child[-d][n]]
     /\ h[n] = 1 + Taller(h[t.child[d][n]], h[t.child[-d][n]] + 1)
  \/ /\ d = 0 /\ t.balance[n] = 0
     /\ h[t.child[Left][n]] = h[t.child[Right][n]]
     /\ h[n] = 2 + h[t.child[Left][n]]

(* A walk that has made k turns: all is well but at the node it is at.     *)
Walking(grown, w, U, K, D, F, k) ==
  \E B, h :
    /\ Shaped(w.tree, U, B, h, K) /\ w.tree.data = D /\ w.tree.free = F
    /\ w.node \in U \cup {NULL}
    /\ \A x \in U : x = w.node \/ Proper(w.tree, h, x)
    /\ w.node # NULL =>
         /\ Cardinality(B[w.node]) > k
         /\ IF grown THEN Grown(w.tree, h, w.node, w.change)
                     ELSE Shrunk(w.tree, h, w.node, w.change)

Walks == [tree : Trees, node : Links, change : Int]

LEMMA UpFacts ==
  ASSUME NEW t \in Trees, NEW m \in Nodes, NEW d \in Int
  PROVE  /\ Ended(t) \in Walks /\ Ended(t).tree = t /\ Ended(t).node = NULL
         /\ Up(t, m, d) \in Walks /\ Up(t, m, d).tree = t
         /\ Up(t, m, d).node = t.parent[m] /\ Up(t, m, d).change = d
<1>1. t.parent[m] \in Links /\ NULL \in Links
  BY Fields DEF Links
<1> QED
  BY <1>1 DEF Ended, Up, Walks

LEMMA SideOfInt == \A t, m : SideOf(t, m) \in Int /\ -SideOf(t, m) \in Int
BY DEF SideOf, Left, Right

(* A subtree has the height it had: the walk is over.                      *)
LEMMA MendsEnd ==
  ASSUME NEW v, NEW U, NEW B, NEW h, NEW K, Shaped(v, U, B, h, K),
         NEW n \in U, \A x \in U \ {n} : Proper(v, h, x),
         NEW r, NEW m, Mends(v, B, h, n, r, m, h[n], U), NEW grown, NEW k
  PROVE  Walking(grown, Ended(r), U, K, v.data, v.free, k) /\ Ended(r) \in Walks
<1>1. PICK B2, h2 : Mended(v, B, h, n, r, B2, h2, m, U) /\ h2[m] = h[n]
  BY DEF Mends
<1>2. Resumed(r, B2, h2, m, h[n], Cardinality(B[n]), U)
  BY <1>1, Resume DEF Shaped
<1>3. \A x \in U : Proper(r, h2, x)
  BY SMTT(20), <1>1, <1>2 DEF Resumed
<1>4. /\ Shaped(r, U, B2, h2, K) /\ r \in Trees /\ r.data = v.data /\ r.free = v.free
      /\ m \in Nodes
  BY SMTT(20), <1>1 DEF Mended, Shaped, Linked
<1>5. Ended(r) \in Walks /\ Ended(r).tree = r /\ Ended(r).node = NULL
  BY <1>4, UpFacts
<1> QED
  BY <1>3, <1>4, <1>5 DEF Walking

(* It is higher by one.                                                    *)
LEMMA MendsGrow ==
  ASSUME NEW v, NEW U, NEW B, NEW h, NEW K, Shaped(v, U, B, h, K),
         NEW n \in U, \A x \in U \ {n} : Proper(v, h, x),
         NEW r, NEW m, Mends(v, B, h, n, r, m, h[n] + 1, U),
         NEW k \in Nat, Cardinality(B[n]) > k, r.balance[m] # 0 \/ h[n] = 0
  PROVE  LET w == Up(r, m, SideOf(r, m))
         IN Walking(TRUE, w, U, K, v.data, v.free, k + 1) /\ w \in Walks
<1>1. PICK B2, h2 : Mended(v, B, h, n, r, B2, h2, m, U) /\ h2[m] = h[n] + 1
  BY DEF Mends
<1>2. Resumed(r, B2, h2, m, h[n], Cardinality(B[n]), U)
  BY <1>1, Resume DEF Shaped
<1>3. /\ Shaped(r, U, B2, h2, K) /\ r \in Trees /\ r.data = v.data /\ r.free = v.free
      /\ m \in Nodes /\ m # NULL /\ n \in Links /\ B[n] \in SUBSET Nodes
      /\ \A x \in U \cup {NULL} : B2[x] \in SUBSET Nodes
  BY SMTT(20), <1>1, SideFacts DEF Mended, Shaped, Linked, Links
<1>4. h \in [Links -> Nat] /\ h2 \in [Links -> Nat]
  BY <1>1 DEF Mended, Shaped, Heights
<1> DEFINE p == r.parent[m]
           z == SideOf(r, m)
           w == Up(r, m, z)
<1>5. w \in Walks /\ w.tree = r /\ w.node = p /\ w.change = z
  BY <1>3, UpFacts, SideOfInt
<1>6. ASSUME p = NULL
      PROVE  Walking(TRUE, w, U, K, v.data, v.free, k + 1)
  <2>1. \A x \in U : Proper(r, h2, x)
    BY <1>2, <1>6 DEF Resumed
  <2> QED
    BY <1>3, <1>5, <1>6, <2>1 DEF Walking
<1>7. ASSUME p # NULL
      PROVE  Walking(TRUE, w, U, K, v.data, v.free, k + 1)
  <2>1. /\ p \in U /\ z \in Sides /\ r.child[z][p] = m /\ r.child[-z][p] \in Links
        /\ \A x \in U \ {p} : Proper(r, h2, x)
        /\ r.balance[p] \in -1 .. 1
        /\ Tilt(z, r.balance[p]) = h[n] - h2[r.child[-z][p]]
        /\ h2[p] = 1 + Taller(h[n], h2[r.child[-z][p]])
        /\ Cardinality(B2[p]) > Cardinality(B[n])
    BY <1>2, <1>7 DEF Resumed
  <2>2. Grown(r, h2, p, z)
    <3>1. h[n] \in Nat /\ h2[r.child[-z][p]] \in Nat
      BY <1>3, <1>4, <2>1
    <3>2. h2[m] - 1 = h[n]
      BY <1>1, <3>1
    <3>3. Tilt(z, r.balance[p]) + 1 = h2[m] - h2[r.child[-z][p]]
      BY <1>1, <2>1, <3>1
    <3> HIDE DEF p, z
    <3> QED
      BY <1>1, <1>3, <2>1, <3>1, <3>2, <3>3 DEF Grown
  <2>3. Cardinality(B2[p]) > k + 1
    <3>1. Cardinality(B2[p]) \in Nat /\ Cardinality(B[n]) \in Nat
      <4>1. B2[p] \in SUBSET Nodes /\ B[n] \in SUBSET Nodes
        BY <1>3, <2>1
      <4> QED
        BY <4>1, Countable
    <3> QED
      BY <2>1, <3>1
  <2> HIDE DEF p, z, w
  <2> QED
    BY <1>3, <1>5, <2>1, <2>2, <2>3 DEF Walking
<1> QED
  BY ZenonT(30), <1>5, <1>6, <1>7

(* It is lower by one.                                                     *)
LEMMA MendsShrink ==
  ASSUME NEW v, NEW U, NEW B, NEW h, NEW K, Shaped(v, U, B, h, K),
         NEW n \in U, \A x \in U \ {n} : Proper(v, h, x),
         NEW r, NEW m, Mends(v, B, h, n, r, m, h[n] - 1, U),
         NEW k \in Nat, Cardinality(B[n]) > k
  PROVE  LET w == Up(r, m, -SideOf(r, m))
         IN Walking(FALSE, w, U, K, v.data, v.free, k + 1) /\ w \in Walks
<1>1. PICK B2, h2 : Mended(v, B, h, n, r, B2, h2, m, U) /\ h2[m] = h[n] - 1
  BY DEF Mends
<1>2. Resumed(r, B2, h2, m, h[n], Cardinality(B[n]), U)
  BY <1>1, Resume DEF Shaped
<1>3. /\ Shaped(r, U, B2, h2, K) /\ r \in Trees /\ r.data = v.data /\ r.free = v.free
      /\ m \in Nodes /\ m # NULL /\ n \in Links /\ B[n] \in SUBSET Nodes
      /\ \A x \in U \cup {NULL} : B2[x] \in SUBSET Nodes
  BY SMTT(20), <1>1, SideFacts DEF Mended, Shaped, Linked, Links
<1>4. h \in [Links -> Nat] /\ h2 \in [Links -> Nat]
  BY <1>1 DEF Mended, Shaped, Heights
<1> DEFINE p == r.parent[m]
           z == SideOf(r, m)
           d == -z
           w == Up(r, m, d)
<1>5. w \in Walks /\ w.tree = r /\ w.node = p /\ w.change = d
  BY <1>3, UpFacts, SideOfInt
<1>6. ASSUME p = NULL
      PROVE  Walking(FALSE, w, U, K, v.data, v.free, k + 1)
  <2>1. \A x \in U : Proper(r, h2, x)
    BY <1>2, <1>6 DEF Resumed
  <2> QED
    BY <1>3, <1>5, <1>6, <2>1 DEF Walking
<1>7. ASSUME p # NULL
      PROVE  Walking(FALSE, w, U, K, v.data, v.free, k + 1)
  <2>1. /\ p \in U /\ z \in Sides /\ r.child[z][p] = m /\ r.child[-z][p] \in Links
        /\ \A x \in U \ {p} : Proper(r, h2, x)
        /\ r.balance[p] \in -1 .. 1
        /\ Tilt(z, r.balance[p]) = h[n] - h2[r.child[-z][p]]
        /\ h2[p] = 1 + Taller(h[n], h2[r.child[-z][p]])
        /\ Cardinality(B2[p]) > Cardinality(B[n])
    BY <1>2, <1>7 DEF Resumed
  <2>2. Shrunk(r, h2, p, d)
    <3>1. h[n] \in Nat /\ h2[m] \in Nat /\ h2[r.child[-z][p]] \in Nat /\ r.balance[p] \in Int
      BY <1>3, <1>4, <2>1 DEF Links
    <3>2. h2[m] + 1 = h[n]
      BY <1>1, <3>1
    <3>3. d \in Sides /\ -d = z
      BY <2>1, SideFacts
    <3>4. Tilt(d, r.balance[p]) = 0 - Tilt(z, r.balance[p])
      BY <2>1, <3>1, TiltFacts
    <3> DEFINE x == h2[r.child[-z][p]]
    <3>5. Tilt(d, r.balance[p]) + 1 = x - h2[m]
      BY <2>1, <3>1, <3>2, <3>4
    <3>6. h2[p] = 1 + Taller(x, h2[m] + 1)
      BY <2>1, <3>1, <3>2 DEF Taller
    <3>7. h2[r.child[d][p]] = x /\ h2[r.child[-d][p]] = h2[m]
      BY <2>1, <3>3
    <3> HIDE DEF p, z, d, x
    <3> QED
      BY <2>1, <3>3, <3>5, <3>6, <3>7 DEF Shrunk
  <2>3. Cardinality(B2[p]) > k + 1
    <3>1. Cardinality(B2[p]) \in Nat /\ Cardinality(B[n]) \in Nat
      <4>1. B2[p] \in SUBSET Nodes /\ B[n] \in SUBSET Nodes
        BY <1>3, <2>1
      <4> QED
        BY <4>1, Countable
    <3> QED
      BY <2>1, <3>1
  <2> HIDE DEF p, z, d, w
  <2> QED
    BY <1>3, <1>5, <2>1, <2>2, <2>3 DEF Walking
<1> QED
  BY ZenonT(30), <1>5, <1>6, <1>7

-----------------------------------------------------------------------------
(* What a turn of each walk is, by the new balance of the node.            *)
LEMMA InsertStepCases ==
  ASSUME NEW w, w.node # NULL, NEW b, b = w.tree.balance[w.node] + w.change
  PROVE  LET n == w.node
             v == Weighed(w.tree, n, b)
         IN /\ b = 0 => InsertStep(w) = Ended(v)
            /\ b \in Sides => InsertStep(w) = Up(v, n, SideOf(v, n))
            /\ \A s \in Sides : b = s + s =>
                 InsertStep(w) = Ended(IF v.balance[v.child[s][n]] = s THEN Rotate(v, n, s)
                                       ELSE RotateTwice(v, n, s))
<1> DEFINE n == w.node
           v == Weighed(w.tree, n, b)
           s0 == IF b < 0 THEN Left ELSE Right
<1>1. InsertStep(w) = CASE n = NULL -> w
                        [] n # NULL /\ b = 0 -> Ended(v)
                        [] n # NULL /\ b \in {-1, 1} -> Up(v, n, SideOf(v, n))
                        [] n # NULL /\ b \in {-2, 2} ->
                             Ended(IF v.balance[v.child[s0][n]] = s0 THEN Rotate(v, n, s0)
                                   ELSE RotateTwice(v, n, s0))
  BY DEF InsertStep, Weighed
<1>2. \A s \in Sides : b = s + s => b \in {-2, 2} /\ s0 = s
  BY DEF Sides, Left, Right
<1>3. b \in Sides <=> b \in {-1, 1}
  BY DEF Sides, Left, Right
<1> HIDE DEF v, s0
<1>4. ASSUME NEW s \in Sides, b = s + s
      PROVE  InsertStep(w) = Ended(IF v.balance[v.child[s][n]] = s THEN Rotate(v, n, s)
                                   ELSE RotateTwice(v, n, s))
  <2>1. b \in {-2, 2} /\ s0 = s
    BY <1>2, <1>4
  <2>2. b # 0 /\ b \notin {-1, 1}
    BY <2>1
  <2> QED
    BY <1>1, <2>1, <2>2
<1>5. b = 0 => InsertStep(w) = Ended(v)
  BY <1>1
<1>6. b \in Sides => InsertStep(w) = Up(v, n, SideOf(v, n))
  <2>1. b \in {-1, 1} => b # 0
    OBVIOUS
  <2> QED
    BY <1>1, <1>3, <2>1
<1> QED
  BY Zenon, <1>4, <1>5, <1>6 DEF v

LEMMA DeleteStepCases ==
  ASSUME NEW w, w.node # NULL, NEW b, b = w.tree.balance[w.node] + w.change
  PROVE  LET n == w.node
             v == Weighed(w.tree, n, b)
         IN /\ b = 0 => DeleteStep(w) = Up(v, n, -SideOf(v, n))
            /\ b \in Sides => DeleteStep(w) = Ended(v)
            /\ \A s \in Sides : b = s + s =>
                 LET c == v.child[s][n]
                     r == Rotate(v, n, s)
                     r2 == RotateTwice(v, n, s)
                     g == v.child[-s][c]
                 IN DeleteStep(w) = IF v.balance[c] = -s THEN Up(r2, g, -SideOf(r2, g))
                                    ELSE IF r.balance[c] = -s THEN Ended(r)
                                    ELSE Up(r, c, -SideOf(r, c))
<1> DEFINE n == w.node
           v == Weighed(w.tree, n, b)
           s0 == IF b < 0 THEN Left ELSE Right
           c(s) == v.child[s][n]
           r(s) == Rotate(v, n, s)
           r2(s) == RotateTwice(v, n, s)
           g(s) == v.child[-s][c(s)]
           turn(s) == IF v.balance[c(s)] = -s THEN Up(r2(s), g(s), -SideOf(r2(s), g(s)))
                      ELSE IF r(s).balance[c(s)] = -s THEN Ended(r(s))
                      ELSE Up(r(s), c(s), -SideOf(r(s), c(s)))
<1>1. DeleteStep(w) = CASE n = NULL -> w
                        [] n # NULL /\ b = 0 -> Up(v, n, -SideOf(v, n))
                        [] n # NULL /\ b \in {-1, 1} -> Ended(v)
                        [] n # NULL /\ b \in {-2, 2} -> turn(s0)
  BY DEF DeleteStep, Weighed
<1>2. \A s \in Sides : b = s + s => b \in {-2, 2} /\ s0 = s
  BY DEF Sides, Left, Right
<1>3. b \in Sides <=> b \in {-1, 1}
  BY DEF Sides, Left, Right
<1> HIDE DEF v, s0, turn
<1>4. ASSUME NEW s \in Sides, b = s + s
      PROVE  DeleteStep(w) = turn(s)
  <2>1. b \in {-2, 2} /\ s0 = s
    BY <1>2, <1>4
  <2>2. b # 0 /\ b \notin {-1, 1}
    BY <2>1
  <2> QED
    BY <1>1, <2>1, <2>2
<1>5. b = 0 => DeleteStep(w) = Up(v, n, -SideOf(v, n))
  BY <1>1
<1>6. b \in Sides => DeleteStep(w) = Ended(v)
  <2>1. b \in {-1, 1} => b # 0
    OBVIOUS
  <2> QED
    BY <1>1, <1>3, <2>1
<1> QED
  BY Zenon, <1>4, <1>5, <1>6 DEF v, turn

(* A turn of the walk after an insertion.                                  *)
LEMMA InsertStepWalks ==
  ASSUME NEW U, NEW K, NEW D, NEW F, NEW k \in Nat, NEW w \in Walks,
         Walking(TRUE, w, U, K, D, F, k)
  PROVE  InsertStep(w) \in Walks /\ Walking(TRUE, InsertStep(w), U, K, D, F, k + 1)
<1>1. CASE w.node = NULL
  <2>1. InsertStep(w) = w
    BY <1>1 DEF InsertStep
  <2> QED
    BY <1>1, <2>1 DEF Walking
<1>2. CASE w.node # NULL
  <2> DEFINE t == w.tree
             n == w.node
             s == w.change
             b == t.balance[n] + s
             v == Weighed(t, n, b)
             c == v.child[s][n]
             a == v.child[-s][n]
  <2>1. PICK B, h :
          /\ Shaped(t, U, B, h, K) /\ t.data = D /\ t.free = F
          /\ n \in U
          /\ \A x \in U : x = n \/ Proper(t, h, x)
          /\ Cardinality(B[n]) > k
          /\ Grown(t, h, n, s)
    BY <1>2 DEF Walking
  <2> HIDE DEF t, n, s
  <2>2. /\ t \in Trees /\ h \in [Links -> Nat] /\ U \subseteq Nodes /\ n \in Nodes
        /\ Linked(t, U, B) /\ Heights(h) /\ h[NULL] = 0 /\ s \in Sides
        /\ t.balance[n] \in Int /\ b \in Int /\ -s \in Sides
    <3>1. s \in Sides /\ s \in Int
      BY <2>1 DEF Grown, Sides, Left, Right
    <3>2. t \in Trees /\ Linked(t, U, B) /\ Heights(h)
      BY <2>1 DEF Shaped
    <3>3. U \subseteq Nodes /\ n \in Nodes
      BY <2>1, <3>2 DEF Linked
    <3>4. t.balance[n] \in Int /\ -s \in Sides
      BY <3>1, <3>2, <3>3, Fields, SideFacts
    <3> QED
      BY <3>1, <3>2, <3>3, <3>4 DEF Heights
  <2>3. /\ Shaped(v, U, B, h, K) /\ v.balance[n] = b /\ v.data = D /\ v.free = F
        /\ v.child = t.child /\ v.parent = t.parent /\ v.root = t.root
        /\ \A x \in U \ {n} : v.balance[x] = t.balance[x]
        /\ \A x \in U \ {n} : Proper(v, h, x)
    <3>1. Weighs(t, v, U, B, h, K, n, b)
      BY <2>1, <2>2, WeighedFacts
    <3> HIDE DEF v
    <3> QED
      BY <2>1, <3>1 DEF Weighs
  <2>4. /\ t.balance[n] \in -1 .. 1 /\ c # NULL
        /\ Tilt(s, t.balance[n]) + 1 = h[c] - h[a]
        /\ h[n] = 1 + Taller(h[c] - 1, h[a])
        /\ t.balance[c] # 0 \/ h[c] = 1
    BY <2>1, <2>3 DEF Grown
  <2>5. Tilt(s, b) = h[c] - h[a] /\ h[c] \in Nat /\ h[a] \in Nat /\ h[n] \in Nat
    <3>1. Tilt(s, b) = Tilt(s, t.balance[n]) + 1
      BY <2>2, TiltFacts
    <3>2. c \in Links /\ a \in Links /\ n \in Links
      <4>1. t.child[s][n] \in Links /\ t.child[-s][n] \in Links
        BY <2>2, Fields
      <4> HIDE DEF v
      <4> QED
        BY <2>2, <2>3, <4>1 DEF Links
    <3> QED
      BY Zenon, <2>2, <2>4, <3>1, <3>2
  <2>6. v \in Trees /\ Linked(v, U, B)
    BY SMTT(20), <2>3 DEF Shaped
  <2>7. /\ b = 0 => InsertStep(w) = Ended(v)
        /\ b \in Sides => InsertStep(w) = Up(v, n, SideOf(v, n))
        /\ \A z \in Sides : b = z + z =>
             InsertStep(w) = Ended(IF v.balance[v.child[z][n]] = z THEN Rotate(v, n, z)
                                   ELSE RotateTwice(v, n, z))
    BY SMTT(20), <1>2, InsertStepCases DEF t, n, s
  <2>8. t.balance[n] = 0 \/ t.balance[n] = s \/ t.balance[n] = -s
    BY <2>2, <2>4, TiltFacts
  <2>9. b \in -1 .. 1 => Mends(v, B, h, n, v, n, 1 + Taller(h[c], h[a]), U)
    BY SMTT(20), <2>1, <2>2, <2>3, <2>5, <2>6, StayMends
  <2> HIDE DEF v, c, a, b
  <2>10. CASE t.balance[n] = -s
    <3>1. b = 0
      BY <2>2, <2>10 DEF b, Sides, Left, Right
    <3>2. Tilt(s, b) = 0
      BY <2>2, <3>1, TiltFacts
    <3>3. 1 + Taller(h[c], h[a]) = h[n]
      BY <2>4, <2>5, <3>2 DEF Taller
    <3>4. Mends(v, B, h, n, v, n, h[n], U)
      BY <2>9, <3>1, <3>3
    <3>5. Walking(TRUE, Ended(v), U, K, v.data, v.free, k + 1) /\ Ended(v) \in Walks
      BY <2>1, <2>3, <3>4, MendsEnd
    <3> QED
      BY <2>3, <2>7, <3>1, <3>5
  <2>11. CASE t.balance[n] = 0
    <3>1. b = s
      BY <2>2, <2>11 DEF b, Sides, Left, Right
    <3>2. Tilt(s, b) = 1 /\ b \in -1 .. 1 /\ b # 0
      BY <2>2, <3>1, TiltFacts
    <3>3. 1 + Taller(h[c], h[a]) = h[n] + 1
      BY <2>4, <2>5, <3>2 DEF Taller
    <3>4. Mends(v, B, h, n, v, n, h[n] + 1, U)
      BY <2>9, <3>2, <3>3
    <3>5. v.balance[n] # 0
      BY <2>3, <3>2
    <3> DEFINE u == Up(v, n, SideOf(v, n))
    <3>6. Walking(TRUE, u, U, K, v.data, v.free, k + 1) /\ u \in Walks
      BY <2>1, <2>3, <3>4, <3>5, MendsGrow
    <3> QED
      BY <2>2, <2>3, <2>7, <3>1, <3>6
  <2>12. CASE t.balance[n] = s
    <3>1. b = s + s
      BY <2>2, <2>12 DEF b, Sides, Left, Right
    <3>2. h[c] = h[a] + 2
      <4>1. Tilt(s, t.balance[n]) = 1
        BY <2>2, <2>12, TiltFacts
      <4> QED
        BY <2>4, <2>5, <4>1
    <3>3. h[n] = h[a] + 2
      BY <2>4, <2>5, <3>2 DEF Taller
    <3>4. v.balance[c] = t.balance[c] /\ c \in U /\ t.balance[c] # 0
      <4>1. c \in U /\ c # n
        <5>1. v.child[s][n] # NULL
          BY <2>4 DEF c
        <5> QED
          BY <2>1, <2>2, <2>6, <5>1, ChildFacts DEF c
      <4> QED
        BY <2>3, <2>4, <2>5, <3>2, <4>1
    <3>5. t.balance[c] = s \/ t.balance[c] = -s
      <4>1. Proper(v, h, c)
        <5>1. c # n
          <6>1. v.child[s][n] # NULL
            BY <2>4 DEF c
          <6> QED
            BY <2>1, <2>2, <2>6, <6>1, ChildFacts DEF c
        <5> QED
          BY <2>3, <3>4, <5>1
      <4> QED
        BY <2>2, <3>4, <4>1, TiltFacts DEF Proper
    <3>6. v.child[s][n] = c /\ v.child[-s][n] = a
      BY DEF c, a
    <3>7. s # -s /\ s # 0
      BY <2>2, TiltFacts
    <3> DEFINE r == Rotate(v, n, s)
               r2 == RotateTwice(v, n, s)
               g == v.child[-s][v.child[s][n]]
    <3>8. ASSUME t.balance[c] = s
          PROVE  /\ Mends(v, B, h, n, r, c, h[n], U)
                 /\ InsertStep(w) = Ended(r)
      <4>1. /\ v.balance[v.child[s][n]] # -s /\ v.balance[v.child[s][n]] # 0
            /\ h[v.child[s][n]] = h[v.child[-s][n]] + 2
        BY SMTT(20), <3>2, <3>4, <3>6, <3>7, <3>8
      <4>2. Mends(v, B, h, n, r, v.child[s][n], h[v.child[-s][n]] + 2, U)
        BY <2>1, <2>2, <2>3, <2>6, <4>1, RotateMends
      <4>3. InsertStep(w) = Ended(r)
        BY <2>2, <2>7, <3>1, <3>4, <3>6, <3>8
      <4> QED
        BY <3>3, <3>6, <4>2, <4>3
    <3>9. ASSUME t.balance[c] = -s
          PROVE  /\ Mends(v, B, h, n, r2, g, h[n], U)
                 /\ InsertStep(w) = Ended(r2)
      <4>1. /\ v.balance[v.child[s][n]] = -s
            /\ h[v.child[s][n]] = h[v.child[-s][n]] + 2
        BY SMTT(20), <3>2, <3>4, <3>6, <3>9
      <4>2. Mends(v, B, h, n, r2, g, h[v.child[-s][n]] + 2, U)
        BY <2>1, <2>2, <2>3, <2>6, <4>1, RotateTwiceMends
      <4>3. InsertStep(w) = Ended(r2)
        BY <2>2, <2>7, <3>1, <3>4, <3>6, <3>7, <3>9
      <4> QED
        BY <3>3, <3>6, <4>2, <4>3
    <3> HIDE DEF r, r2, g
    <3>10. ASSUME NEW q, NEW m, Mends(v, B, h, n, q, m, h[n], U)
           PROVE  Walking(TRUE, Ended(q), U, K, D, F, k + 1) /\ Ended(q) \in Walks
      <4>1. Walking(TRUE, Ended(q), U, K, v.data, v.free, k + 1) /\ Ended(q) \in Walks
        BY <2>1, <2>3, <3>10, MendsEnd
      <4> QED
        BY <2>3, <4>1
    <3> QED
      BY <3>5, <3>8, <3>9, <3>10
  <2> QED
    BY <2>8, <2>10, <2>11, <2>12
<1> QED
  BY <1>1, <1>2

(* A turn of the walk after a deletion.                                    *)
LEMMA DeleteStepWalks ==
  ASSUME NEW U, NEW K, NEW D, NEW F, NEW k \in Nat, NEW w \in Walks,
         Walking(FALSE, w, U, K, D, F, k)
  PROVE  DeleteStep(w) \in Walks /\ Walking(FALSE, DeleteStep(w), U, K, D, F, k + 1)
<1>1. CASE w.node = NULL
  <2>1. DeleteStep(w) = w
    BY <1>1 DEF DeleteStep
  <2> QED
    BY <1>1, <2>1 DEF Walking
<1>2. CASE w.node # NULL
  <2> DEFINE t == w.tree
             n == w.node
             s == w.change
             b == t.balance[n] + s
             v == Weighed(t, n, b)
             c == v.child[s][n]
             a == v.child[-s][n]
  <2>1. PICK B, h :
          /\ Shaped(t, U, B, h, K) /\ t.data = D /\ t.free = F
          /\ n \in U
          /\ \A x \in U : x = n \/ Proper(t, h, x)
          /\ Cardinality(B[n]) > k
          /\ Shrunk(t, h, n, s)
    BY <1>2 DEF Walking
  <2>2. /\ b = 0 => DeleteStep(w) = Up(v, n, -SideOf(v, n))
        /\ b \in Sides => DeleteStep(w) = Ended(v)
        /\ \A z \in Sides : b = z + z =>
             LET e == v.child[z][n]
                 r == Rotate(v, n, z)
                 r2 == RotateTwice(v, n, z)
                 g == v.child[-z][e]
             IN DeleteStep(w) = IF v.balance[e] = -z THEN Up(r2, g, -SideOf(r2, g))
                                ELSE IF r.balance[e] = -z THEN Ended(r)
                                ELSE Up(r, e, -SideOf(r, e))
    BY Zenon, <1>2, DeleteStepCases
  <2> HIDE DEF t, n, s
  <2>3. /\ t \in Trees /\ h \in [Links -> Nat] /\ U \subseteq Nodes /\ n \in Nodes
        /\ Linked(t, U, B) /\ Heights(h) /\ h[NULL] = 0 /\ s \in Int
        /\ t.balance[n] \in Int /\ b \in Int
    <3>1. s \in Int
      BY <2>1 DEF Shrunk, Sides, Left, Right
    <3>2. t \in Trees /\ Linked(t, U, B) /\ Heights(h)
      BY <2>1 DEF Shaped
    <3>3. U \subseteq Nodes /\ n \in Nodes
      BY <2>1, <3>2 DEF Linked
    <3>4. t.balance[n] \in Int
      BY <3>2, <3>3, Fields
    <3> QED
      BY <3>1, <3>2, <3>3, <3>4 DEF Heights
  <2>4. /\ Shaped(v, U, B, h, K) /\ v.balance[n] = b /\ v.data = D /\ v.free = F
        /\ v.child = t.child /\ v.parent = t.parent /\ v.root = t.root
        /\ \A x \in U \ {n} : v.balance[x] = t.balance[x]
        /\ \A x \in U \ {n} : Proper(v, h, x)
    <3>1. Weighs(t, v, U, B, h, K, n, b)
      BY <2>1, <2>3, WeighedFacts
    <3> HIDE DEF v
    <3> QED
      BY <2>1, <3>1 DEF Weighs
  <2>5. v \in Trees /\ Linked(v, U, B)
    BY <2>4 DEF Shaped
  <2> HIDE DEF v
  <2>6. \A z \in Sides, x \in U : h[v.child[z][x]] \in Nat /\ v.child[z][x] \in Links /\ h[x] \in Nat
    <3>1. U \subseteq Links
      BY <2>3 DEF Links
    <3> QED
      BY <2>3, <2>5, <3>1, Fields
  <2> DEFINE up(r, m) == Up(r, m, -SideOf(r, m))
  <2>7. ASSUME NEW r, NEW m, Mends(v, B, h, n, r, m, h[n] - 1, U)
        PROVE  Walking(FALSE, up(r, m), U, K, D, F, k + 1) /\ up(r, m) \in Walks
    <3>1. Walking(FALSE, up(r, m), U, K, v.data, v.free, k + 1) /\ up(r, m) \in Walks
      BY <2>1, <2>4, <2>7, MendsShrink
    <3> QED
      BY <2>4, <3>1
  <2>8. ASSUME NEW r, NEW m, Mends(v, B, h, n, r, m, h[n], U)
        PROVE  Walking(FALSE, Ended(r), U, K, D, F, k + 1) /\ Ended(r) \in Walks
    <3>1. Walking(FALSE, Ended(r), U, K, v.data, v.free, k + 1) /\ Ended(r) \in Walks
      BY <2>1, <2>4, <2>8, MendsEnd
    <3> QED
      BY <2>4, <3>1
  <2>9. CASE s = 0
    <3>1. /\ b = 0 /\ h[v.child[Left][n]] = h[v.child[Right][n]]
          /\ h[n] = 2 + h[v.child[Left][n]]
      BY <2>1, <2>4, <2>9 DEF Shrunk, Sides, Left, Right, b
    <3> DEFINE l == h[v.child[Left][n]]
    <3>2. -Left = Right /\ Left \in Sides /\ l \in Nat
      <4>1. -Left = Right /\ Left \in Sides
        BY SideFacts, LeftRight
      <4> QED
        BY <2>1, <2>6, <4>1
    <3>3. v.balance[n] \in -1 .. 1 /\ Tilt(Left, v.balance[n]) = h[v.child[Left][n]] - h[v.child[-Left][n]]
      <4>1. Tilt(Left, 0) = 0
        BY <3>2, TiltFacts
      <4> QED
        BY <2>4, <3>1, <3>2, <4>1
    <3>4. Mends(v, B, h, n, v, n, 1 + Taller(h[v.child[Left][n]], h[v.child[-Left][n]]), U)
      BY <2>1, <2>3, <2>4, <2>5, <3>2, <3>3, StayMends
    <3>5. 1 + Taller(h[v.child[Left][n]], h[v.child[-Left][n]]) = h[n] - 1
      BY <3>1, <3>2 DEF Taller
    <3>6. Mends(v, B, h, n, v, n, h[n] - 1, U)
      BY <3>4, <3>5
    <3> QED
      BY <2>2, <2>7, <3>1, <3>6
  <2>10. CASE s # 0
    <3>1. /\ s \in Sides /\ t.balance[n] \in -1 .. 1 /\ -s \in Sides /\ -s # s
          /\ Tilt(s, t.balance[n]) + 1 = h[c] - h[a]
          /\ h[n] = 1 + Taller(h[c], h[a] + 1)
      BY <2>1, <2>4, <2>10, SideFacts DEF Shrunk
    <3>2. Tilt(s, b) = h[c] - h[a] /\ h[c] \in Nat /\ h[a] \in Nat /\ h[n] \in Nat
      <4>1. Tilt(s, b) = Tilt(s, t.balance[n]) + 1
        BY ZenonT(30), <2>3, <3>1, TiltFacts
      <4>2. h[c] \in Nat /\ h[a] \in Nat /\ h[n] \in Nat
        BY <2>1, <2>6, <3>1
      <4> HIDE DEF c, a, b
      <4> QED
        BY <3>1, <4>1, <4>2
    <3>3. t.balance[n] = 0 \/ t.balance[n] = s \/ t.balance[n] = -s
      BY <3>1, TiltFacts
    <3>4. b \in -1 .. 1 => Mends(v, B, h, n, v, n, 1 + Taller(h[c], h[a]), U)
      BY SMTT(20), <2>1, <2>3, <2>4, <2>5, <3>1, <3>2, StayMends
    <3> HIDE DEF c, a, b
    <3>5. CASE t.balance[n] = -s
      <4>1. b = 0
        BY <3>1, <3>5 DEF b, Sides, Left, Right
      <4>2. Tilt(s, b) = 0
        BY <3>1, <4>1, TiltFacts
      <4>3. 1 + Taller(h[c], h[a]) = h[n] - 1
        BY <3>1, <3>2, <4>2 DEF Taller
      <4>4. Mends(v, B, h, n, v, n, h[n] - 1, U)
        BY <3>4, <4>1, <4>3
      <4> QED
        BY <2>2, <2>7, <4>1, <4>4
    <3>6. CASE t.balance[n] = 0
      <4>1. b = s
        BY <3>1, <3>6 DEF b, Sides, Left, Right
      <4>2. Tilt(s, b) = 1 /\ b \in -1 .. 1 /\ b # 0
        BY <3>1, <4>1, TiltFacts
      <4>3. 1 + Taller(h[c], h[a]) = h[n]
        BY <3>1, <3>2, <4>2 DEF Taller
      <4>4. Mends(v, B, h, n, v, n, h[n], U)
        BY <3>4, <4>2, <4>3
      <4> QED
        BY <2>2, <2>8, <3>1, <4>1, <4>4
    <3>7. CASE t.balance[n] = s
      <4>1. b = s + s
        BY <3>1, <3>7 DEF b, Sides, Left, Right
      <4>2. h[c] = h[a] + 2 /\ h[n] = h[a] + 3
        <5>1. Tilt(s, t.balance[n]) = 1
          BY <3>1, <3>7, TiltFacts
        <5>2. h[c] = h[a] + 2
          BY <3>1, <3>2, <5>1
        <5> QED
          BY <3>1, <3>2, <5>2 DEF Taller
      <4> DEFINE r == Rotate(v, n, s)
                 r2 == RotateTwice(v, n, s)
                 g == v.child[-s][c]
      <4>3. v.child[s][n] = c /\ v.child[-s][n] = a
        BY DEF c, a
      <4>4. DeleteStep(w) = IF v.balance[c] = -s THEN up(r2, g)
                            ELSE IF r.balance[c] = -s THEN Ended(r) ELSE up(r, c)
        BY <2>2, <3>1, <4>1, <4>3
      <4>5. h[v.child[s][n]] = h[v.child[-s][n]] + 2
        BY <4>2, <4>3
      <4>6. s # -s /\ s # 0 /\ -s # 0
        BY <3>1, TiltFacts
      <4>7. CASE v.balance[c] = -s
        <5>1. v.balance[v.child[s][n]] = -s
          BY <4>3, <4>7
        <5>2. Mends(v, B, h, n, r2, v.child[-s][v.child[s][n]], h[v.child[-s][n]] + 2, U)
          BY <2>1, <2>3, <2>4, <2>5, <3>1, <4>5, <5>1, RotateTwiceMends
        <5> HIDE DEF r2, r
        <5>3. Mends(v, B, h, n, r2, g, h[n] - 1, U)
          <6>1. h[v.child[-s][n]] + 2 = h[n] - 1
            BY <3>2, <4>2, <4>3
          <6> QED
            BY <4>3, <5>2, <6>1
        <5> QED
          BY ZenonT(30), <2>7, <4>4, <4>7, <5>3
      <4>8. CASE v.balance[c] # -s
        <5>1. v.balance[v.child[s][n]] # -s
          BY <4>3, <4>8
        <5> DEFINE j == IF v.balance[v.child[s][n]] = 0 THEN h[v.child[-s][n]] + 3
                                                       ELSE h[v.child[-s][n]] + 2
        <5>2. /\ Mends(v, B, h, n, r, v.child[s][n], j, U)
              /\ r.balance[v.child[s][n]] = IF v.balance[v.child[s][n]] = 0 THEN -s ELSE 0
          BY SMTT(20), <2>1, <2>3, <2>4, <2>5, <3>1, <4>5, <5>1, RotateMends
        <5> HIDE DEF r
        <5>3. CASE v.balance[c] = 0
          <6>1. Mends(v, B, h, n, r, c, h[n], U) /\ r.balance[c] = -s
            BY <4>2, <4>3, <5>2, <5>3
          <6> QED
            BY <2>8, <4>4, <4>8, <6>1
        <5>4. CASE v.balance[c] # 0
          <6>1. j = h[n] - 1
            BY <3>2, <4>2, <4>3, <5>4
          <6>2. Mends(v, B, h, n, r, c, h[n] - 1, U) /\ r.balance[c] = 0
            BY <4>3, <5>2, <5>4, <6>1
          <6> QED
            BY <2>7, <4>4, <4>6, <4>8, <6>2
        <5> QED
          BY ZenonT(30), <5>3, <5>4
      <4> QED
        BY <4>7, <4>8
    <3> QED
      BY <3>3, <3>5, <3>6, <3>7
  <2> QED
    BY Zenon, <2>9, <2>10
<1> QED
  BY <1>1, <1>2

(* A search tree over the nodes U, in balance.                             *)
Sound(t, U, K) ==
  \E B, h : Shaped(t, U, B, h, K) /\ \A x \in U : Proper(t, h, x)

Kept(t, U, K, D, F) == Sound(t, U, K) /\ t.data = D /\ t.free = F

(* A walk that has made as many turns as there are nodes is over.          *)
LEMMA WalkEnds ==
  ASSUME NEW grown, NEW w, NEW U, NEW K, NEW D, NEW F,
         Walking(grown, w, U, K, D, F, Capacity)
  PROVE  Kept(w.tree, U, K, D, F)
<1>1. PICK B, h :
        /\ Shaped(w.tree, U, B, h, K) /\ w.tree.data = D /\ w.tree.free = F
        /\ w.node \in U \cup {NULL}
        /\ \A x \in U : x = w.node \/ Proper(w.tree, h, x)
        /\ w.node # NULL => Cardinality(B[w.node]) > Capacity
  BY DEF Walking
<1>2. w.node = NULL
  <2> SUFFICES ASSUME w.node # NULL
               PROVE  FALSE
    OBVIOUS
  <2>1. B[w.node] \in SUBSET Nodes
    BY <1>1 DEF Shaped, Linked, Links
  <2>2. Cardinality(B[w.node]) \in Nat /\ Cardinality(B[w.node]) <= Capacity
    BY <2>1, Countable
  <2> QED
    BY <1>1, <2>2, CapacityAssumption
<1>3. NULL \notin U
  BY <1>1, SideFacts DEF Shaped, Linked
<1> QED
  BY <1>1, <1>2, <1>3 DEF Kept, Sound

LEMMA InsertBalanceFacts ==
  ASSUME NEW U, NEW K, NEW t, NEW n, NEW d,
         [tree |-> t, node |-> n, change |-> d] \in Walks,
         Walking(TRUE, [tree |-> t, node |-> n, change |-> d], U, K, t.data, t.free, 0)
  PROVE  Kept(InsertBalance(t, n, d), U, K, t.data, t.free)
<1> DEFINE W(w, k) == Walking(TRUE, w, U, K, t.data, t.free, k)
           P == {w \in Walks : \E k \in Nat : W(w, k)}
           w0 == [tree |-> t, node |-> n, change |-> d]
           F == [w \in P |-> InsertStep(w)]
<1>1. ASSUME NEW w \in Walks, NEW k \in Nat, W(w, k)
      PROVE  InsertStep(w) \in Walks /\ W(InsertStep(w), k + 1)
  BY <1>1, InsertStepWalks
<1>2. W(w0, 0) /\ w0 \in Walks
  OBVIOUS
<1> HIDE DEF w0, W
<1>3. F \in [P -> P]
  BY <1>1
<1>4. PICK g \in [Nat -> P] : g[0] = w0 /\ \A k \in Nat : g[k + 1] = F[g[k]]
  <2>1. w0 \in P
    BY <1>2
  <2> HIDE DEF F, P
  <2>2. Repeated(P, w0, F)
    BY <1>3, <2>1, Iteration
  <2> QED
    BY <2>2 DEF Repeated
<1>5. g = [k \in Nat |-> IF k = 0 THEN w0 ELSE InsertStep(g[k - 1])]
  <2>1. ASSUME NEW k \in Nat, k # 0
        PROVE  g[k] = InsertStep(g[k - 1])
    <3>1. k - 1 \in Nat /\ (k - 1) + 1 = k
      BY <2>1
    <3>2. g[k] = F[g[k - 1]] /\ g[k - 1] \in P
      BY <1>4, <3>1
    <3> QED
      BY <3>2
  <2> QED
    BY <1>4, <2>1
<1> DEFINE p == CHOOSE p : p = [k \in Nat |-> IF k = 0 THEN w0 ELSE InsertStep(p[k - 1])]
<1>6. p = [k \in Nat |-> IF k = 0 THEN w0 ELSE InsertStep(p[k - 1])]
  BY <1>5
<1>7. InsertBalance(t, n, d) = p[Capacity].tree
  BY DEF InsertBalance, w0
<1> HIDE DEF p
<1>8. p[0] = w0 /\ \A k \in Nat : p[k + 1] = InsertStep(p[k])
  <2>1. \A k \in Nat : p[k] = IF k = 0 THEN w0 ELSE InsertStep(p[k - 1])
    BY <1>6
  <2>2. p[0] = w0
    BY <2>1
  <2>3. ASSUME NEW k \in Nat
        PROVE  p[k + 1] = InsertStep(p[k])
    <3>1. k + 1 \in Nat /\ k + 1 # 0 /\ (k + 1) - 1 = k
      OBVIOUS
    <3> QED
      BY <2>1, <3>1
  <2> QED
    BY <2>2, <2>3
<1> DEFINE T == {k \in Nat : p[k] \in Walks /\ W(p[k], k)}
<1>9. T = Nat
  <2>1. T \in SUBSET Nat /\ 0 \in T
    BY <1>2, <1>8
  <2>2. \A k \in T : k + 1 \in T
    BY <1>1, <1>8
  <2> HIDE DEF T
  <2> QED
    BY <2>1, <2>2, AllNaturals
<1>10. W(p[Capacity], Capacity)
  BY <1>9, CapacityAssumption
<1>11. Kept(p[Capacity].tree, U, K, t.data, t.free)
  BY <1>10, WalkEnds DEF W
<1> QED
  BY <1>7, <1>11

LEMMA DeleteBalanceFacts ==
  ASSUME NEW U, NEW K, NEW t, NEW n, NEW d,
         [tree |-> t, node |-> n, change |-> d] \in Walks,
         Walking(FALSE, [tree |-> t, node |-> n, change |-> d], U, K, t.data, t.free, 0)
  PROVE  Kept(DeleteBalance(t, n, d), U, K, t.data, t.free)
<1> DEFINE W(w, k) == Walking(FALSE, w, U, K, t.data, t.free, k)
           P == {w \in Walks : \E k \in Nat : W(w, k)}
           w0 == [tree |-> t, node |-> n, change |-> d]
           F == [w \in P |-> DeleteStep(w)]
<1>1. ASSUME NEW w \in Walks, NEW k \in Nat, W(w, k)
      PROVE  DeleteStep(w) \in Walks /\ W(DeleteStep(w), k + 1)
  BY <1>1, DeleteStepWalks
<1>2. W(w0, 0) /\ w0 \in Walks
  OBVIOUS
<1> HIDE DEF w0, W
<1>3. F \in [P -> P]
  BY <1>1
<1>4. PICK g \in [Nat -> P] : g[0] = w0 /\ \A k \in Nat : g[k + 1] = F[g[k]]
  <2>1. w0 \in P
    BY <1>2
  <2> HIDE DEF F, P
  <2>2. Repeated(P, w0, F)
    BY <1>3, <2>1, Iteration
  <2> QED
    BY <2>2 DEF Repeated
<1>5. g = [k \in Nat |-> IF k = 0 THEN w0 ELSE DeleteStep(g[k - 1])]
  <2>1. ASSUME NEW k \in Nat, k # 0
        PROVE  g[k] = DeleteStep(g[k - 1])
    <3>1. k - 1 \in Nat /\ (k - 1) + 1 = k
      BY <2>1
    <3>2. g[k] = F[g[k - 1]] /\ g[k - 1] \in P
      BY <1>4, <3>1
    <3> QED
      BY <3>2
  <2> QED
    BY <1>4, <2>1
<1> DEFINE p == CHOOSE p : p = [k \in Nat |-> IF k = 0 THEN w0 ELSE DeleteStep(p[k - 1])]
<1>6. p = [k \in Nat |-> IF k = 0 THEN w0 ELSE DeleteStep(p[k - 1])]
  BY <1>5
<1>7. DeleteBalance(t, n, d) = p[Capacity].tree
  BY DEF DeleteBalance, w0
<1> HIDE DEF p
<1>8. p[0] = w0 /\ \A k \in Nat : p[k + 1] = DeleteStep(p[k])
  <2>1. \A k \in Nat : p[k] = IF k = 0 THEN w0 ELSE DeleteStep(p[k - 1])
    BY <1>6
  <2>2. p[0] = w0
    BY <2>1
  <2>3. ASSUME NEW k \in Nat
        PROVE  p[k + 1] = DeleteStep(p[k])
    <3>1. k + 1 \in Nat /\ k + 1 # 0 /\ (k + 1) - 1 = k
      OBVIOUS
    <3> QED
      BY <2>1, <3>1
  <2> QED
    BY <2>2, <2>3
<1> DEFINE T == {k \in Nat : p[k] \in Walks /\ W(p[k], k)}
<1>9. T = Nat
  <2>1. T \in SUBSET Nat /\ 0 \in T
    BY <1>2, <1>8
  <2>2. \A k \in T : k + 1 \in T
    BY <1>1, <1>8
  <2> HIDE DEF T
  <2> QED
    BY <2>1, <2>2, AllNaturals
<1>10. W(p[Capacity], Capacity)
  BY <1>9, CapacityAssumption
<1>11. Kept(p[Capacity].tree, U, K, t.data, t.free)
  BY <1>10, WalkEnds DEF W
<1> QED
  BY <1>7, <1>11

-----------------------------------------------------------------------------
(* Giving a node back adds it to the stack of unused ones.                 *)
LEMMA RangeAppend ==
  ASSUME NEW S, NEW s \in Seq(S), NEW x \in S
  PROVE  Range(Append(s, x)) = Range(s) \cup {x}
<1> DEFINE t == Append(s, x)
<1>1. /\ DOMAIN t = 1 .. (Len(s) + 1)
      /\ DOMAIN s = 1 .. Len(s)
      /\ \A i \in 1 .. Len(s) : t[i] = s[i]
      /\ t[Len(s) + 1] = x
      /\ Len(s) \in Nat
  OBVIOUS
<1>2. ASSUME NEW y \in Range(t) PROVE y \in Range(s) \cup {x}
  <2>1. PICK i \in DOMAIN t : y = t[i]
    BY <1>2 DEF Range
  <2> QED
    BY <1>1, <2>1 DEF Range
<1>3. Range(s) \cup {x} \subseteq Range(t)
  BY <1>1 DEF Range
<1> QED
  BY <1>2, <1>3

(* A stack without repetitions has none after a push of a new element.     *)
LEMMA InjAppend ==
  ASSUME NEW S, NEW s \in Seq(S), NEW x \in S, IsInjective(s), x \notin Range(s)
  PROVE  IsInjective(Append(s, x))
<1> DEFINE t == Append(s, x)
<1>1. /\ DOMAIN t = 1 .. (Len(s) + 1)
      /\ DOMAIN s = 1 .. Len(s)
      /\ \A i \in 1 .. Len(s) : t[i] = s[i]
      /\ t[Len(s) + 1] = x
      /\ Len(s) \in Nat
  OBVIOUS
<1>2. \A i \in 1 .. Len(s) : s[i] # x
  BY <1>1 DEF Range
<1>3. ASSUME NEW i \in DOMAIN t, NEW j \in DOMAIN t, t[i] = t[j] PROVE i = j
  <2>1. \A k \in DOMAIN t : k \in 1 .. Len(s) \/ k = Len(s) + 1
    BY <1>1
  <2> QED
    BY <1>1, <1>2, <1>3, <2>1 DEF IsInjective
<1> QED
  BY <1>3 DEF IsInjective

(* Taking a node takes it, and nothing else, off the stack.                *)
LEMMA FrontFacts ==
  ASSUME NEW S, NEW s \in Seq(S), IsInjective(s), s # <<>>
  PROVE  /\ Front(s) \in Seq(S)
         /\ IsInjective(Front(s))
         /\ Last(s) \in S
         /\ Last(s) \in Range(s)
         /\ Range(Front(s)) = Range(s) \ {Last(s)}
<1> DEFINE n == Len(s)
           t == Front(s)
<1>1. n \in Nat /\ n > 0 /\ DOMAIN s = 1 .. n /\ \A i \in 1 .. n : s[i] \in S
  OBVIOUS
<1>2. t \in Seq(S) /\ DOMAIN t = 1 .. (n - 1) /\ \A i \in 1 .. (n - 1) : t[i] = s[i]
  BY <1>1 DEF Front
<1>3. Last(s) = s[n] /\ n \in DOMAIN s
  BY <1>1 DEF Last
<1>4. IsInjective(t)
  BY <1>1, <1>2 DEF IsInjective
<1>5. ASSUME NEW y \in Range(t) PROVE y \in Range(s) \ {Last(s)}
  <2>1. PICK i \in 1 .. (n - 1) : y = s[i]
    BY <1>2, <1>5 DEF Range
  <2>2. s[i] # s[n]
    BY <1>1, <2>1 DEF IsInjective
  <2> QED
    BY <1>1, <1>3, <2>1, <2>2 DEF Range
<1>6. ASSUME NEW y \in Range(s), y # Last(s) PROVE y \in Range(t)
  <2>1. PICK i \in 1 .. n : y = s[i]
    BY <1>1 DEF Range
  <2>2. i \in 1 .. (n - 1)
    BY <1>1, <1>3, <1>6, <2>1
  <2> QED
    BY <1>2, <2>1, <2>2 DEF Range
<1> QED
  BY <1>1, <1>2, <1>3, <1>4, <1>5, <1>6 DEF Range

(* Node_New.                                                               *)
Fresh(t, v, n, e, p) ==
  /\ v \in Trees /\ v.root = t.root /\ v.free = Front(t.free)
  /\ v.data = [t.data EXCEPT ![n] = e]
  /\ \A x \in Nodes :
       /\ v.parent[x] = IF x = n THEN p ELSE t.parent[x]
       /\ v.balance[x] = IF x = n THEN 0 ELSE t.balance[x]
       /\ \A z \in Sides : v.child[z][x] = IF x = n THEN NULL ELSE t.child[z][x]

LEMMA NodeNewFacts ==
  ASSUME NEW t \in Trees, IsInjective(t.free), t.free # << >>, NEW e \in Regions, NEW p \in Links
  PROVE  Fresh(t, NodeNew(t, e, p), Last(t.free), e, p)
<1> DEFINE n == Last(t.free)
           P == [t.parent EXCEPT ![n] = p]
           d == [t.balance EXCEPT ![n] = 0]
           C == [s \in Sides |-> [t.child[s] EXCEPT ![n] = NULL]]
           D == [t.data EXCEPT ![n] = e]
           F == Front(t.free)
           v == NodeNew(t, e, p)
<1>1. /\ t.root \in Links /\ t.parent \in [Nodes -> Links]
      /\ t.child \in [Sides -> [Nodes -> Links]] /\ t.balance \in [Nodes -> Int]
      /\ t.data \in [Nodes -> Regions \cup {Nothing}] /\ t.free \in Seq(Nodes)
  BY Fields
<1>2. n \in Nodes /\ F \in Seq(Nodes)
  BY <1>1, FrontFacts
<1>3. v = [t EXCEPT !.free = F, !.parent = P, !.data = D, !.child = C, !.balance = d]
  BY <1>1 DEF NodeNew
<1> HIDE DEF n, F
<1>4. P \in [Nodes -> Links] /\ d \in [Nodes -> Int] /\ D \in [Nodes -> Regions \cup {Nothing}]
  BY <1>1, <1>2
<1>5. \A x \in Nodes : /\ P[x] = IF x = n THEN p ELSE t.parent[x]
                       /\ d[x] = IF x = n THEN 0 ELSE t.balance[x]
  BY <1>1, <1>2
<1>6. /\ C \in [Sides -> [Nodes -> Links]]
      /\ \A z \in Sides, x \in Nodes : C[z][x] = IF x = n THEN NULL ELSE t.child[z][x]
  <2>1. NULL \in Links
    BY DEF Links
  <2> QED
    BY <1>1, <1>2, <2>1
<1> HIDE DEF P, d, C, D, v
<1>7. /\ v \in Trees /\ v.root = t.root /\ v.free = F /\ v.parent = P /\ v.data = D
      /\ v.child = C /\ v.balance = d
  BY <1>2, <1>3, <1>4, <1>6 DEF Trees
<1>8. Fresh(t, v, n, e, p)
  BY <1>5, <1>6, <1>7 DEF Fresh, F, D
<1> QED
  BY <1>8 DEF v, n

(* What holds of a node when it does of its children holds of every node.  *)
LEMMA TreeInduction ==
  ASSUME NEW t \in Trees, NEW U, NEW B, Linked(t, U, B), NEW S \in SUBSET U,
         \A y \in U : (\A s \in Sides : t.child[s][y] \in S \cup {NULL}) => y \in S
  PROVE  S = U
<1> SUFFICES ASSUME NEW y0 \in U, y0 \notin S
             PROVE  FALSE
  OBVIOUS
<1> DEFINE T == {Cardinality(B[y]) : y \in U \ S}
<1>1. U \subseteq Links /\ \A x \in Links : B[x] \in SUBSET Nodes
  BY DEF Linked, Links
<1>2. T \in SUBSET Nat /\ T # {}
  BY <1>1, Countable
<1> HIDE DEF T
<1>3. PICK j \in T : \A i \in T : j <= i
  BY <1>2, LeastNatural
<1>4. PICK y \in U \ S : j = Cardinality(B[y])
  BY <1>3 DEF T
<1>5. PICK s \in Sides : t.child[s][y] \notin S \cup {NULL}
  BY <1>4
<1> DEFINE c == t.child[s][y]
<1>6. c \in U \ S /\ B[c] \subseteq B[y] /\ y \notin B[c] /\ y \in B[y]
  BY <1>5, ChildFacts
<1>7. Cardinality(B[c]) \in T
  BY <1>6 DEF T
<1>8. Cardinality(B[c]) + 1 <= Cardinality(B[y]) /\ Cardinality(B[c]) \in Nat
      /\ Cardinality(B[y]) \in Nat
  <2> DEFINE P == B[y]
             R == B[c]
  <2>1. P \in SUBSET Nodes /\ R \in SUBSET P /\ y \in P /\ y \notin R
    BY <1>1, <1>6
  <2> HIDE DEF P, R
  <2>2. Cardinality(R) + 1 <= Cardinality(P) /\ Cardinality(R) \in Nat /\ Cardinality(P) \in Nat
    BY <2>1, Fewer
  <2> QED
    BY <2>2 DEF P, R
<1> QED
  BY <1>3, <1>4, <1>7, <1>8

(* The parent of a node below y is below y too, if it is not y.            *)
LEMMA Upward ==
  ASSUME NEW t \in Trees, NEW U, NEW B, Linked(t, U, B),
         NEW y0 \in U, NEW m \in B[y0], m # y0
  PROVE  t.parent[m] \in B[y0]
<1> DEFINE S == {y \in U : m \in B[y] /\ m # y => t.parent[m] \in B[y]}
<1>1. ASSUME NEW y \in U, \A s \in Sides : t.child[s][y] \in S \cup {NULL}
      PROVE  y \in S
  <2> SUFFICES ASSUME m \in B[y], m # y
               PROVE  t.parent[m] \in B[y]
    OBVIOUS
  <2>1. PICK s \in Sides : m \in B[t.child[s][y]]
    <3>1. B[y] = {y} \cup B[t.child[Left][y]] \cup B[t.child[Right][y]]
      BY SideFacts, LeftRight DEF Linked
    <3> QED
      BY <3>1, SideFacts
  <2> DEFINE c == t.child[s][y]
  <2>2. c # NULL
    BY <2>1 DEF Linked
  <2>3. c \in S /\ t.parent[c] = y /\ B[c] \subseteq B[y] /\ y \in B[y]
    BY <1>1, <2>2, ChildFacts
  <2> QED
    BY <2>1, <2>3
<1>2. S = U
  <2>1. S \in SUBSET U
    OBVIOUS
  <2> HIDE DEF S
  <2> QED
    BY <1>1, <2>1, TreeInduction
<1> QED
  BY <1>2

(* What is below a node below y is below y.                                *)
LEMMA Downward ==
  ASSUME NEW t \in Trees, NEW U, NEW B, Linked(t, U, B),
         NEW y0 \in U, NEW m \in B[y0]
  PROVE  B[m] \subseteq B[y0]
<1> DEFINE S == {y \in U : m \in B[y] => B[m] \subseteq B[y]}
<1>1. ASSUME NEW y \in U, \A s \in Sides : t.child[s][y] \in S \cup {NULL}
      PROVE  y \in S
  <2> SUFFICES ASSUME m \in B[y], m # y
               PROVE  B[m] \subseteq B[y]
    OBVIOUS
  <2>1. PICK s \in Sides : m \in B[t.child[s][y]]
    <3>1. B[y] = {y} \cup B[t.child[Left][y]] \cup B[t.child[Right][y]]
      BY SideFacts, LeftRight DEF Linked
    <3> QED
      BY <3>1, SideFacts
  <2> DEFINE c == t.child[s][y]
  <2>2. c # NULL
    BY <2>1 DEF Linked
  <2>3. c \in S /\ B[c] \subseteq B[y]
    BY <1>1, <2>2, ChildFacts
  <2> QED
    BY <2>1, <2>3
<1>2. S = U
  <2>1. S \in SUBSET U
    OBVIOUS
  <2> HIDE DEF S
  <2> QED
    BY <1>1, <2>1, TreeInduction
<1> QED
  BY <1>2

-----------------------------------------------------------------------------
(* A key z belongs below node m, as far as the nodes above it tell.        *)
Fits(t, U, B, K, m, z) ==
  \A x \in U, s \in Sides : m \in B[t.child[s][x]] => Beyond(s, K[x], z)

(* The keys of the nodes U are the sizes of the regions in them.           *)
Keyed(t, U, K) == \A x \in U : K[x] = size[t.data[x]] /\ K[x] \in Nat

LEMMA TowardFacts ==
  ASSUME NEW t, NEW U, NEW K, Keyed(t, U, K), NEW m \in U, NEW z \in Nat
  PROVE  Toward(t, z, m) \in Sides /\ Beyond(Toward(t, z, m), K[m], z)
<1>1. K[m] = size[t.data[m]] /\ K[m] \in Nat
  BY DEF Keyed
<1>2. CASE z <= K[m]
  BY <1>1, <1>2, SideFacts DEF Toward, Beyond
<1>3. CASE ~(z <= K[m])
  BY <1>1, <1>3, SideFacts, LeftRight DEF Toward, Beyond
<1> QED
  BY <1>2, <1>3

(* What Tree_Insert looks for: a node p without a child where z belongs.   *)
Placed(t, U, B, K, p, z) ==
  p \in U /\ Fits(t, U, B, K, p, z) /\ t.child[Toward(t, z, p)][p] = NULL

(* The way down after k turns: k nodes fewer below, or none to go to.      *)
Descended(t, U, B, K, m, z, k) ==
  /\ m \in U /\ Fits(t, U, B, K, m, z)
  /\ t.child[Toward(t, z, m)][m] = NULL \/ Cardinality(B[m]) + k <= Capacity

LEMMA DescentStepFacts ==
  ASSUME NEW t \in Trees, NEW U, NEW B, Linked(t, U, B), NEW K, Keyed(t, U, K),
         NEW z \in Nat, NEW m, NEW k \in Nat, Descended(t, U, B, K, m, z, k)
  PROVE  Descended(t, U, B, K, DescentStep(t, z, m), z, k + 1)
<1> DEFINE s == Toward(t, z, m)
           c == t.child[s][m]
<1>1. s \in Sides /\ Beyond(s, K[m], z) /\ m \in U /\ Fits(t, U, B, K, m, z)
  BY TowardFacts DEF Descended
<1>2. CASE c = NULL
  <2>1. DescentStep(t, z, m) = m
    BY <1>2 DEF DescentStep
  <2> QED
    BY <1>1, <1>2, <2>1 DEF Descended
<1>3. CASE c # NULL
  <2>1. DescentStep(t, z, m) = c
    BY <1>3 DEF DescentStep
  <2> HIDE DEF s
  <2>2. /\ m \in Nodes /\ c \in U /\ t.parent[c] = m /\ B[c] \subseteq B[m] /\ m \notin B[c]
        /\ m \in B[m] /\ \A x \in U, r \in Sides : t.child[r][x] = c => x = m /\ r = s
    BY <1>1, <1>3, ChildFacts
  <2>3. Fits(t, U, B, K, c, z)
    <3> SUFFICES ASSUME NEW x \in U, NEW r \in Sides, c \in B[t.child[r][x]]
                 PROVE  Beyond(r, K[x], z)
      BY DEF Fits
    <3>1. CASE t.child[r][x] = c
      BY <1>1, <2>2, <3>1
    <3>2. CASE t.child[r][x] # c
      <4>1. t.child[r][x] \in U
        BY DEF Linked
      <4>2. t.parent[c] \in B[t.child[r][x]]
        BY <3>2, <4>1, Upward
      <4> QED
        BY <1>1, <2>2, <4>2 DEF Fits
    <3> QED
      BY <3>1, <3>2
  <2>4. Cardinality(B[c]) + (k + 1) <= Capacity
    <3> DEFINE S == B[m]
               T == B[c]
    <3>1. S \in SUBSET Nodes /\ T \in SUBSET S /\ m \in S /\ m \notin T
      BY <2>2 DEF Linked, Links
    <3> HIDE DEF S, T
    <3>2. /\ Cardinality(T) \in Nat /\ Cardinality(S) \in Nat
          /\ Cardinality(T) + 1 <= Cardinality(S)
      BY <3>1, Fewer
    <3>3. Cardinality(S) + k <= Capacity
      BY <1>3 DEF Descended, S, s
    <3>4. Cardinality(T) + (k + 1) <= Capacity
      BY <3>2, <3>3, CapacityAssumption
    <3> QED
      BY <3>4 DEF T
  <2> QED
    BY <2>1, <2>2, <2>3, <2>4 DEF Descended
<1> QED
  BY <1>2, <1>3

LEMMA PlaceFacts ==
  ASSUME NEW t \in Trees, NEW U, NEW B, Linked(t, U, B), NEW K, Keyed(t, U, K), NEW z \in Nat,
         t.root # NULL
  PROVE  Placed(t, U, B, K, Place(t, z, t.root), z)
<1> DEFINE a == t.root
           W(m, k) == Descended(t, U, B, K, m, z, k)
           F == [m \in U |-> DescentStep(t, z, m)]
<1>1. ASSUME NEW m \in U, NEW k \in Nat, W(m, k)
      PROVE  DescentStep(t, z, m) \in U /\ W(DescentStep(t, z, m), k + 1)
  <2>1. W(DescentStep(t, z, m), k + 1)
    BY <1>1, DescentStepFacts
  <2> QED
    BY <2>1 DEF Descended
<1>2. U \subseteq Nodes /\ \A m \in U : B[m] \in SUBSET Nodes
  BY DEF Linked, Links
<1>3. W(a, 0)
  <2>1. a \in U
    BY DEF Linked
  <2>2. Fits(t, U, B, K, a, z)
    <3> SUFFICES ASSUME NEW x \in U, NEW s \in Sides, a \in B[t.child[s][x]]
                 PROVE  FALSE
      BY DEF Fits
    <3>1. t.child[s][x] # NULL
      BY DEF Linked
    <3>2. CASE t.child[s][x] = a
      BY <3>1, <3>2, ChildFacts
    <3>3. CASE t.child[s][x] # a
      <4>1. t.parent[a] \in B[t.child[s][x]]
        BY <3>1, <3>3, Upward, ChildFacts
      <4>2. t.parent[a] = NULL /\ B[t.child[s][x]] \subseteq U
        BY <3>1, ChildFacts DEF Linked, Links
      <4> QED
        BY <1>2, <4>1, <4>2, SideFacts
    <3> QED
      BY <3>2, <3>3
  <2>3. Cardinality(B[a]) \in Nat /\ Cardinality(B[a]) <= Capacity
    BY <1>2, <2>1, Countable
  <2> QED
    BY <2>1, <2>2, <2>3 DEF Descended
<1>4. F \in [U -> U]
  <2> SUFFICES ASSUME NEW m \in U
               PROVE  DescentStep(t, z, m) \in U
    OBVIOUS
  <2>1. Toward(t, z, m) \in Sides
    BY TowardFacts
  <2> QED
    BY <2>1 DEF DescentStep, Linked
<1> HIDE DEF a, W
<1>5. PICK g \in [Nat -> U] : g[0] = a /\ \A k \in Nat : g[k + 1] = F[g[k]]
  <2>1. a \in U
    BY <1>3 DEF W, Descended
  <2> HIDE DEF F
  <2>2. Repeated(U, a, F)
    BY <1>4, <2>1, Iteration
  <2> QED
    BY <2>2 DEF Repeated
<1>6. g = [k \in Nat |-> IF k = 0 THEN a ELSE DescentStep(t, z, g[k - 1])]
  <2>1. ASSUME NEW k \in Nat, k # 0
        PROVE  g[k] = DescentStep(t, z, g[k - 1])
    <3>1. k - 1 \in Nat /\ (k - 1) + 1 = k
      BY <2>1
    <3>2. g[k] = F[g[k - 1]] /\ g[k - 1] \in U
      BY <1>5, <3>1
    <3> QED
      BY <3>2
  <2> QED
    BY <1>5, <2>1
<1> DEFINE p == CHOOSE p : p = [k \in Nat |-> IF k = 0 THEN a ELSE DescentStep(t, z, p[k - 1])]
<1>7. p = [k \in Nat |-> IF k = 0 THEN a ELSE DescentStep(t, z, p[k - 1])]
  BY <1>6
<1>8. Place(t, z, t.root) = p[Capacity]
  BY DEF Place, a
<1> HIDE DEF p
<1>9. p[0] = a /\ \A k \in Nat : p[k + 1] = DescentStep(t, z, p[k])
  <2>1. \A k \in Nat : p[k] = IF k = 0 THEN a ELSE DescentStep(t, z, p[k - 1])
    BY <1>7
  <2>2. p[0] = a
    BY <2>1
  <2>3. ASSUME NEW k \in Nat
        PROVE  p[k + 1] = DescentStep(t, z, p[k])
    <3>1. k + 1 \in Nat /\ k + 1 # 0 /\ (k + 1) - 1 = k
      OBVIOUS
    <3> QED
      BY <2>1, <3>1
  <2> QED
    BY <2>2, <2>3
<1> DEFINE T == {k \in Nat : p[k] \in U /\ W(p[k], k)}
<1>10. T = Nat
  <2>1. T \in SUBSET Nat /\ 0 \in T
    BY <1>3, <1>9 DEF W, Descended
  <2>2. \A k \in T : k + 1 \in T
    BY <1>1, <1>9
  <2> HIDE DEF T
  <2> QED
    BY <2>1, <2>2, AllNaturals
<1>11. W(p[Capacity], Capacity)
  BY <1>10, CapacityAssumption
<1>12. ASSUME NEW m \in U
       PROVE  ~(Cardinality(B[m]) + Capacity <= Capacity)
  <2> DEFINE S == B[m]
             O == {}
  <2>1. S \in SUBSET Nodes /\ O \in SUBSET S /\ m \in S /\ m \notin O
    <3>1. m \in B[m]
      BY SideFacts DEF Linked
    <3> QED
      BY <1>2, <3>1
  <2> HIDE DEF S, O
  <2>2. Cardinality(O) \in Nat /\ Cardinality(S) \in Nat /\ Cardinality(O) + 1 <= Cardinality(S)
    BY <2>1, Fewer
  <2>3. ~(Cardinality(S) + Capacity <= Capacity)
    BY <2>2, CapacityAssumption
  <2> QED
    BY <2>3 DEF S
<1> QED
  BY <1>8, <1>11, <1>12 DEF W, Descended, Placed

-----------------------------------------------------------------------------
(* n is a new child of p, on side s.                                       *)
Attached(t, v, n, p, s) ==
  /\ v \in Trees /\ v.root = t.root
  /\ \A x \in Nodes :
       /\ v.parent[x] = IF x = n THEN p ELSE t.parent[x]
       /\ v.balance[x] = IF x = n THEN 0 ELSE t.balance[x]
       /\ \A z \in Sides : v.child[z][x] = IF x = n THEN NULL
                                           ELSE IF x = p /\ z = s THEN n ELSE t.child[z][x]

(* The nodes below each node then.                                         *)
Joined(B, n, p) ==
  [x \in Links |-> IF x = n THEN {n} ELSE IF p \in B[x] THEN B[x] \cup {n} ELSE B[x]]

LEMMA AttachedLinked ==
  ASSUME NEW t \in Trees, NEW U, NEW B, Linked(t, U, B), NEW n \in Nodes, n \notin U,
         NEW p \in U, NEW s \in Sides, t.child[s][p] = NULL, NEW v, Attached(t, v, n, p, s)
  PROVE  Linked(v, U \cup {n}, Joined(B, n, p))
<1> DEFINE V == U \cup {n}
           B2 == Joined(B, n, p)
<1>1. /\ U \subseteq Nodes /\ V \subseteq Nodes /\ V \subseteq Links /\ NULL \in Links
      /\ NULL \notin Nodes /\ n # NULL /\ n # p /\ p \in Nodes /\ -s \in Sides /\ -s # s
      /\ \A z \in Sides : -z \in Sides /\ -(-z) = z /\ -z # z /\ (z = s \/ z = -s)
  BY SideFacts DEF Linked, Links
<1>2. /\ \A x \in Links : B[x] \in SUBSET U
      /\ B[NULL] = {} /\ B[t.root] = U /\ t.root \in U
      /\ t.parent[t.root] = NULL
  <2>1. t.root # NULL
    BY DEF Linked
  <2> QED
    BY <2>1 DEF Linked
<1>3. ASSUME NEW x \in U, NEW z \in Sides
      PROVE  /\ t.child[z][x] \in U \cup {NULL}
             /\ t.child[z][x] # NULL => t.parent[t.child[z][x]] = x
             /\ B[x] = {x} \cup B[t.child[z][x]] \cup B[t.child[-z][x]]
             /\ B[t.child[z][x]] \cap B[t.child[-z][x]] = {}
             /\ x \notin B[t.child[z][x]]
  BY DEF Linked
<1>4. /\ v.root = t.root
      /\ \A x \in U : v.parent[x] = t.parent[x] /\ v.parent[n] = p
      /\ \A x \in U, z \in Sides :
           v.child[z][x] = IF x = p /\ z = s THEN n ELSE t.child[z][x]
      /\ \A z \in Sides : v.child[z][n] = NULL
  BY <1>1 DEF Attached
<1>5. /\ B2 \in [Links -> SUBSET V] /\ B2[n] = {n} /\ B2[NULL] = {}
      /\ \A x \in U \cup {NULL} : B2[x] = IF p \in B[x] THEN B[x] \cup {n} ELSE B[x]
  BY <1>1, <1>2 DEF Joined
<1> HIDE DEF B2
<1>6. B2[v.root] = V /\ v.root \in V /\ v.parent[v.root] = NULL
  <2>1. B2[t.root] = IF p \in B[t.root] THEN B[t.root] \cup {n} ELSE B[t.root]
    BY <1>2, <1>5
  <2>2. v.parent[t.root] = t.parent[t.root]
    BY <1>2, <1>4
  <2> QED
    BY <1>2, <1>4, <2>1, <2>2
<1>7. ASSUME NEW x \in V, NEW z \in Sides
      PROVE  /\ v.child[z][x] \in V \cup {NULL}
             /\ v.child[z][x] # NULL => v.parent[v.child[z][x]] = x
  <2>1. CASE x = n
    BY <1>4, <2>1
  <2>2. CASE x \in U /\ x = p /\ z = s
    BY <1>4, <2>2
  <2>3. CASE x \in U /\ ~(x = p /\ z = s)
    <3>1. v.child[z][x] = t.child[z][x]
      BY <1>4, <2>3
    <3> QED
      BY <1>3, <1>4, <2>3, <3>1
  <2> QED
    BY <2>1, <2>2, <2>3
<1>8. ASSUME NEW x \in V, NEW z \in Sides
      PROVE  /\ B2[x] = {x} \cup B2[v.child[z][x]] \cup B2[v.child[-z][x]]
             /\ B2[v.child[z][x]] \cap B2[v.child[-z][x]] = {}
             /\ x \notin B2[v.child[z][x]]
  <2>1. CASE x = n
    BY <1>1, <1>4, <1>5, <2>1
  <2>2. CASE x = p
    <3>1. /\ v.child[s][p] = n /\ v.child[-s][p] = t.child[-s][p] /\ t.child[-s][p] \in U \cup {NULL}
          /\ B[p] = {p} \cup B[t.child[-s][p]] /\ p \notin B[t.child[-s][p]]
      BY <1>1, <1>2, <1>3, <1>4
    <3>2. /\ B2[v.child[s][p]] = {n} /\ B2[v.child[-s][p]] = B[t.child[-s][p]]
          /\ B2[p] = {p} \cup B[t.child[-s][p]] \cup {n}
      BY <1>5, <3>1
    <3>3. n \notin B[t.child[-s][p]]
      BY <1>1, <1>2, <3>1
    <3> QED
      BY SMTT(20), <1>1, <2>2, <3>1, <3>2, <3>3
  <2>3. CASE x \in U /\ x # p
    <3> DEFINE l == t.child[z][x]
               r == t.child[-z][x]
    <3>1. /\ v.child[z][x] = l /\ v.child[-z][x] = r /\ l \in U \cup {NULL} /\ r \in U \cup {NULL}
          /\ B[x] = {x} \cup B[l] \cup B[r] /\ B[l] \cap B[r] = {} /\ x \notin B[l] /\ x \notin B[r]
      BY <1>1, <1>3, <1>4, <2>3
    <3>2. n \notin B[l] /\ n \notin B[r] /\ n # x
      BY <1>1, <1>2, <2>3, <3>1
    <3> HIDE DEF l, r
    <3>3. /\ B2[x] = IF p \in B[x] THEN B[x] \cup {n} ELSE B[x]
          /\ B2[l] = IF p \in B[l] THEN B[l] \cup {n} ELSE B[l]
          /\ B2[r] = IF p \in B[r] THEN B[r] \cup {n} ELSE B[r]
      BY <1>5, <2>3, <3>1
    <3>4. p \in B[x] <=> p \in B[l] \/ p \in B[r]
      BY <2>3, <3>1
    <3>5. B2[l] \cap B2[r] = {} /\ x \notin B2[l]
      BY <3>1, <3>2, <3>3
    <3>6. B2[x] = {x} \cup B2[l] \cup B2[r]
      <4>1. CASE p \in B[l]
        BY <3>1, <3>3, <3>4, <4>1
      <4>2. CASE p \notin B[l]
        BY <3>1, <3>3, <3>4, <4>2
      <4> QED
        BY <4>1, <4>2
    <3> QED
      BY <3>1, <3>5, <3>6
  <2> QED
    BY <2>1, <2>2, <2>3
<1>9. ASSUME NEW x \in V \ {v.root}
      PROVE  v.parent[x] \in V /\ \E z \in Sides : v.child[z][v.parent[x]] = x
  <2>1. CASE x = n
    BY <1>4, <2>1
  <2>2. CASE x \in U
    <3>1. PICK z \in Sides : t.parent[x] \in U /\ t.child[z][t.parent[x]] = x
      BY <1>4, <1>9, <2>2 DEF Linked
    <3>2. x # NULL
      BY <1>1, <2>2
    <3> QED
      BY <1>4, <2>2, <3>1, <3>2
  <2> QED
    BY <2>1, <2>2
<1>10. Linked(v, V, B2)
  <2> HIDE DEF V
  <2> QED
    BY <1>1, <1>5, <1>6, <1>7, <1>8, <1>9 DEF Linked
<1> QED
  BY <1>10 DEF B2

LEMMA AttachedOrdered ==
  ASSUME NEW t \in Trees, NEW U, NEW B, Linked(t, U, B), NEW n \in Nodes, n \notin U,
         NEW p \in U, NEW s \in Sides, t.child[s][p] = NULL, NEW v, Attached(t, v, n, p, s),
         NEW K, Ordered(t, U, B, K), NEW z \in Nat, Fits(t, U, B, K, p, z), Beyond(s, K[p], z),
         NEW K2, K2[n] = z, \A x \in U : K2[x] = K[x]
  PROVE  Ordered(v, U \cup {n}, Joined(B, n, p), K2)
<1> DEFINE B2 == Joined(B, n, p)
<1>1. /\ U \subseteq Nodes /\ U \subseteq Links /\ NULL \in Links /\ n \in Links
      /\ n # NULL /\ B[NULL] = {} /\ \A x \in Links : B[x] \in SUBSET U
      /\ \A x \in U, r \in Sides : t.child[r][x] \in U \cup {NULL}
  BY SideFacts DEF Linked, Links
<1>2. /\ \A x \in U, r \in Sides :
           v.child[r][x] = IF x = p /\ r = s THEN n ELSE t.child[r][x]
      /\ \A r \in Sides : v.child[r][n] = NULL
  BY <1>1 DEF Attached
<1>3. /\ B2[n] = {n} /\ B2[NULL] = {}
      /\ \A x \in U \cup {NULL} : B2[x] = IF p \in B[x] THEN B[x] \cup {n} ELSE B[x]
  BY <1>1 DEF Joined
<1> HIDE DEF B2
<1>4. ASSUME NEW x \in U \cup {n}, NEW r \in Sides, NEW y \in B2[v.child[r][x]]
      PROVE  Beyond(r, K2[x], K2[y])
  <2>1. x \in U
    BY <1>2, <1>3, <1>4
  <2>2. CASE x = p /\ r = s
    BY <1>2, <1>3, <1>4, <2>1, <2>2
  <2>3. CASE ~(x = p /\ r = s)
    <3>1. v.child[r][x] = t.child[r][x] /\ t.child[r][x] \in U \cup {NULL}
      BY <1>1, <1>2, <2>1, <2>3
    <3>2. CASE y = n
      <4>1. p \in B[t.child[r][x]]
        BY <1>1, <1>3, <1>4, <3>1, <3>2
      <4> QED
        BY <2>1, <3>2, <4>1 DEF Fits
    <3>3. CASE y # n
      <4>1. y \in B[t.child[r][x]] /\ y \in U
        BY ZenonT(30), <1>1, <1>3, <1>4, <3>1, <3>3
      <4> QED
        BY <2>1, <4>1 DEF Ordered
    <3> QED
      BY <3>2, <3>3
  <2> QED
    BY <2>2, <2>3
<1>5. \A x \in U \cup {n} : K2[x] \in Int
  BY DEF Ordered
<1> QED
  BY <1>4, <1>5 DEF Ordered, B2

(* The walk up from a new child begins.                                    *)
Joining(t, U, B, h, K, v, n, p, s, K2) ==
  /\ Shaped(t, U, B, h, K) /\ \A x \in U : Proper(t, h, x)
  /\ n \in Nodes \ U /\ p \in U /\ s \in Sides /\ t.child[s][p] = NULL
  /\ Attached(t, v, n, p, s)
  /\ K2[n] \in Nat /\ Fits(t, U, B, K, p, K2[n]) /\ Beyond(s, K[p], K2[n])
  /\ \A x \in U : K2[x] = K[x]

LEMMA AttachedWalks ==
  ASSUME NEW t, NEW U, NEW B, NEW h, NEW K, NEW v, NEW n, NEW p, NEW s, NEW K2,
         Joining(t, U, B, h, K, v, n, p, s, K2)
  PROVE  Walking(TRUE, [tree |-> v, node |-> p, change |-> s], U \cup {n}, K2,
                 v.data, v.free, 0)
<1> DEFINE V == U \cup {n}
           B2 == Joined(B, n, p)
           h2 == [h EXCEPT ![n] = 1]
           w == [tree |-> v, node |-> p, change |-> s]
<1>0. /\ Shaped(t, U, B, h, K) /\ \A x \in U : Proper(t, h, x)
      /\ n \in Nodes /\ n \notin U /\ p \in U /\ s \in Sides /\ t.child[s][p] = NULL
      /\ Attached(t, v, n, p, s)
      /\ K2[n] \in Nat /\ Fits(t, U, B, K, p, K2[n]) /\ Beyond(s, K[p], K2[n])
      /\ \A x \in U : K2[x] = K[x]
  BY DEF Joining
<1>1. t \in Trees /\ Linked(t, U, B) /\ Heights(h) /\ Ordered(t, U, B, K) /\ v \in Trees
  BY <1>0 DEF Shaped, Attached
<1>2. /\ n \in Links /\ n # NULL /\ U \subseteq Nodes /\ n # p /\ p \in Nodes
      /\ Left \in Sides /\ Right \in Sides /\ -s \in Sides /\ -s # s /\ NULL \in Links
  BY <1>0, <1>1, SideFacts DEF Linked, Links
<1>3. Heights(h2) /\ h2[n] = 1 /\ \A x \in Links \ {n} : h2[x] = h[x]
  BY <1>1, <1>2 DEF Heights
<1>4. \A x \in U, r \in Sides : t.child[r][x] \in Links \ {n}
  <2>1. \A x \in U, r \in Sides : t.child[r][x] \in U \cup {NULL}
    BY <1>1 DEF Linked
  <2> QED
    BY <1>0, <1>2, <2>1 DEF Links
<1>5. Linked(v, V, B2)
  BY <1>0, <1>1, AttachedLinked
<1>6. Ordered(v, V, B2, K2)
  BY <1>0, <1>1, AttachedOrdered
<1> HIDE DEF h2
<1>7. ASSUME NEW x \in V, x # p
      PROVE  Proper(v, h2, x)
  <2>1. CASE x = n
    <3>1. v.balance[n] = 0 /\ \A r \in Sides : v.child[r][n] = NULL
      BY <1>0 DEF Attached
    <3>2. Tilt(Right, 0) = 0 /\ h2[NULL] = 0 /\ Taller(0, 0) = 0
      BY <1>2, <1>3, TiltFacts DEF Heights, Taller
    <3> QED
      BY <1>2, <1>3, <2>1, <3>1, <3>2 DEF Proper
  <2>2. CASE x \in U
    <3>1. Proper(t, h, x) /\ x \in Nodes /\ x # n
      BY <1>0, <1>2, <2>2
    <3>2. /\ v.balance[x] = t.balance[x] /\ v.child[Left][x] = t.child[Left][x]
          /\ v.child[Right][x] = t.child[Right][x]
      BY <1>0, <1>2, <1>7, <3>1 DEF Attached
    <3>3. /\ h2[x] = h[x] /\ h2[t.child[Left][x]] = h[t.child[Left][x]]
          /\ h2[t.child[Right][x]] = h[t.child[Right][x]]
      BY <1>2, <1>3, <1>4, <2>2, <3>1 DEF Links
    <3> QED
      BY <3>1, <3>2, <3>3 DEF Proper
  <2> QED
    BY <2>1, <2>2
<1>8. Grown(v, h2, p, s)
  <2> DEFINE o == t.child[-s][p]
             b == t.balance[p]
  <2>1. /\ b \in -1 .. 1 /\ Tilt(s, b) = h[t.child[s][p]] - h[o]
        /\ h[p] = 1 + Taller(h[t.child[s][p]], h[o])
    BY <1>0, <1>1, <1>2, ProperOn
  <2>2. v.balance[p] = b /\ v.child[s][p] = n /\ v.child[-s][p] = o
    BY <1>0, <1>2 DEF Attached
  <2>3. h[t.child[s][p]] = 0 /\ h2[o] = h[o] /\ h2[p] = h[p] /\ h[o] \in Nat /\ Tilt(s, b) \in Int
    <3>1. o \in Links \ {n} /\ p \in Links \ {n}
      BY <1>0, <1>2, <1>4 DEF Links
    <3>2. b \in Int
      BY <2>1
    <3> QED
      BY <1>0, <1>1, <1>3, <3>1, <3>2, TiltFacts DEF Heights
  <2> HIDE DEF b, o
  <2>4. Tilt(s, b) + 1 = 1 - h[o] /\ h2[p] = 1 + Taller(1 - 1, h[o])
    BY <2>1, <2>3
  <2> QED
    BY <1>0, <1>2, <1>3, <2>1, <2>2, <2>3, <2>4 DEF Grown
<1>9. Cardinality(B2[p]) > 0
  <2> DEFINE S == B2[p]
             O == {}
  <2>1. S \in SUBSET Nodes /\ O \in SUBSET S /\ p \in S /\ p \notin O
    BY <1>0, <1>2, <1>5, SideFacts DEF Linked, Links
  <2> HIDE DEF S, O
  <2>2. Cardinality(O) \in Nat /\ Cardinality(S) \in Nat /\ Cardinality(O) + 1 <= Cardinality(S)
    BY <2>1, Fewer
  <2>3. Cardinality(S) > 0
    BY <2>2
  <2> QED
    BY <2>3 DEF S
<1>10. Shaped(v, V, B2, h2, K2)
  BY <1>1, <1>3, <1>5, <1>6 DEF Shaped
<1>11. w.tree = v /\ w.node = p /\ w.change = s /\ p \in V
  BY <1>0
<1> HIDE DEF w, V, B2
<1>12. Walking(TRUE, w, V, K2, v.data, v.free, 0)
  BY <1>7, <1>8, <1>9, <1>10, <1>11 DEF Walking
<1> QED
  BY <1>12 DEF w, V

(* A tree of one node.                                                     *)
LEMMA SingleSound ==
  ASSUME NEW v \in Trees, NEW n \in Nodes, v.root = n, v.parent[n] = NULL, v.balance[n] = 0,
         \A s \in Sides : v.child[s][n] = NULL, NEW K, K[n] \in Int
  PROVE  Sound(v, {n}, K)
<1> DEFINE B == [x \in Links |-> IF x = n THEN {n} ELSE {}]
           h == [x \in Links |-> IF x = n THEN 1 ELSE 0]
           U == {n}
<1>1. n \in Links /\ NULL \in Links /\ n # NULL /\ \A s \in Sides : -s \in Sides
  BY SideFacts DEF Links
<1>2. /\ B \in [Links -> SUBSET U] /\ B[NULL] = {} /\ B[n] = U /\ U \in SUBSET Nodes
      /\ \A x \in U : x = n
  BY <1>1
<1>3. Heights(h) /\ h[n] = 1 /\ h[NULL] = 0
  BY <1>1 DEF Heights
<1> HIDE DEF B, h
<1>4. Linked(v, U, B)
  <2>1. ASSUME NEW x \in U, NEW s \in Sides
        PROVE  /\ v.child[s][x] \in U \cup {NULL}
               /\ v.child[s][x] # NULL => v.parent[v.child[s][x]] = x
               /\ B[x] = {x} \cup B[v.child[s][x]] \cup B[v.child[-s][x]]
               /\ B[v.child[s][x]] \cap B[v.child[-s][x]] = {}
               /\ x \notin B[v.child[s][x]]
    BY <1>1, <1>2
  <2>2. U \ {v.root} = {}
    OBVIOUS
  <2>3. v.root \in U /\ B[v.root] = U
    BY <1>2
  <2> HIDE DEF U
  <2> QED
    BY <1>1, <1>2, <2>1, <2>2, <2>3 DEF Linked
<1>5. Ordered(v, U, B, K)
  BY <1>2 DEF Ordered
<1>6. Proper(v, h, n)
  <2>1. Tilt(Right, 0) = 0 /\ Taller(0, 0) = 0 /\ Left \in Sides /\ Right \in Sides
    BY SideFacts, TiltFacts DEF Taller
  <2> QED
    BY <1>3, <2>1 DEF Proper
<1>7. Shaped(v, U, B, h, K) /\ \A x \in U : Proper(v, h, x)
  BY <1>2, <1>3, <1>4, <1>5, <1>6 DEF Shaped
<1> QED
  BY <1>7 DEF Sound

(* A node from the stack is attached to p.                                 *)
Holding(t, v, n, e, p, s) ==
  /\ Attached(t, v, n, p, s)
  /\ v.data = [t.data EXCEPT ![n] = e] /\ v.free = Front(t.free)

LEMMA AttachFacts ==
  ASSUME NEW t, NEW u, NEW n \in Nodes, NEW e, NEW p \in Nodes, n # p, NEW s \in Sides,
         Fresh(t, u, n, e, p)
  PROVE  Holding(t, [u EXCEPT !.child[s][p] = n], n, e, p, s)
<1> DEFINE C == [u.child EXCEPT ![s][p] = n]
           v == [u EXCEPT !.child[s][p] = n]
<1>1. /\ u \in Trees /\ u.root = t.root /\ u.free = Front(t.free)
      /\ u.data = [t.data EXCEPT ![n] = e]
  BY DEF Fresh
<1>2. /\ C \in [Sides -> [Nodes -> Links]]
      /\ \A z \in Sides, x \in Nodes :
           C[z][x] = IF z = s /\ x = p THEN n ELSE u.child[z][x]
  <2>1. u.child \in [Sides -> [Nodes -> Links]] /\ n \in Links
    BY <1>1, Fields DEF Links
  <2> QED
    BY <2>1, ChildSet
<1>3. v = [u EXCEPT !.child = C]
  BY <1>1 DEF Trees
<1> HIDE DEF C, v
<1>4. /\ v \in Trees /\ v.child = C /\ v.root = u.root /\ v.parent = u.parent
      /\ v.balance = u.balance /\ v.data = u.data /\ v.free = u.free
  BY <1>1, <1>2, <1>3 DEF Trees
<1>5. Attached(t, v, n, p, s)
  BY <1>1, <1>2, <1>4 DEF Attached, Fresh
<1>6. v.data = [t.data EXCEPT ![n] = e] /\ v.free = Front(t.free)
  BY <1>1, <1>4
<1> QED
  BY <1>5, <1>6 DEF v, Holding

(* What a tree has to be for an insertion or a deletion.                   *)
Stocked(t, U) == IsInjective(t.free) /\ Range(t.free) = Nodes \ U

(* Tree_Insert adds a node and leaves a search tree in balance.            *)
LEMMA TreeInsertFacts ==
  ASSUME NEW t, NEW U, NEW K, Sound(t, U, K), Keyed(t, U, K), Stocked(t, U), t.free # << >>,
         NEW e \in Regions, NEW z \in Nat, NEW n, n = Last(t.free),
         NEW K2, K2[n] = z, \A x \in U : K2[x] = K[x]
  PROVE  Kept(TreeInsert(t, e, z), U \cup {n}, K2, [t.data EXCEPT ![n] = e], Front(t.free))
<1>1. PICK B, h : Shaped(t, U, B, h, K) /\ \A x \in U : Proper(t, h, x)
  BY DEF Sound
<1>2. t \in Trees /\ Linked(t, U, B) /\ IsInjective(t.free)
  BY <1>1 DEF Shaped, Stocked
<1>3. n \in Nodes /\ n \notin U
  <2>1. t.free \in Seq(Nodes)
    BY <1>2, Fields
  <2> QED
    BY <1>2, <2>1, FrontFacts DEF Stocked
<1>4. CASE t.root = NULL
  <2> DEFINE u == NodeNew(t, e, NULL)
             v == [u EXCEPT !.root = n]
  <2>1. U = {}
    BY <1>2, <1>4 DEF Linked
  <2>2. NULL \in Links /\ n \in Links
    BY <1>3 DEF Links
  <2>3. Fresh(t, u, n, e, NULL)
    BY <1>2, <2>2, NodeNewFacts
  <2>4. TreeInsert(t, e, z) = v
    BY <1>4 DEF TreeInsert
  <2> HIDE DEF u
  <2>5. /\ v \in Trees /\ v.root = n /\ v.parent = u.parent /\ v.child = u.child
        /\ v.balance = u.balance /\ v.data = u.data /\ v.free = u.free
    BY <2>2, <2>3 DEF Trees, Fresh
  <2> HIDE DEF v
  <2>6. /\ v.parent[n] = NULL /\ v.balance[n] = 0 /\ \A s \in Sides : v.child[s][n] = NULL
        /\ v.data = [t.data EXCEPT ![n] = e] /\ v.free = Front(t.free)
    BY <1>3, <2>3, <2>5 DEF Fresh
  <2>7. Sound(v, {n}, K2)
    BY <1>3, <2>5, <2>6, SingleSound
  <2>8. U \cup {n} = {n}
    BY <2>1
  <2> QED
    BY <2>4, <2>6, <2>7, <2>8 DEF Kept
<1>5. CASE t.root # NULL
  <2> DEFINE p == Place(t, z, t.root)
             s == Toward(t, z, p)
             u == NodeNew(t, e, p)
             v == [u EXCEPT !.child[s][p] = n]
  <2>1. Placed(t, U, B, K, p, z)
    BY <1>2, <1>5, PlaceFacts
  <2> HIDE DEF p
  <2>2. p \in U /\ Fits(t, U, B, K, p, z) /\ t.child[s][p] = NULL
    BY <2>1 DEF Placed
  <2>3. s \in Sides /\ Beyond(s, K[p], z)
    BY <2>2, TowardFacts
  <2>4. p \in Nodes /\ n # p /\ p \in Links
    BY <1>2, <1>3, <2>2 DEF Linked, Links
  <2>5. Fresh(t, u, n, e, p)
    BY <1>2, <2>4, NodeNewFacts
  <2>6. TreeInsert(t, e, z) = InsertBalance(v, p, s)
    BY <1>5 DEF TreeInsert, p
  <2> HIDE DEF s, u
  <2>7. Holding(t, v, n, e, p, s)
    BY <1>3, <2>3, <2>4, <2>5, AttachFacts
  <2> HIDE DEF v
  <2>8. Walking(TRUE, [tree |-> v, node |-> p, change |-> s], U \cup {n}, K2, v.data, v.free, 0)
    <3>1. Attached(t, v, n, p, s)
      BY <2>7 DEF Holding
    <3>2. Joining(t, U, B, h, K, v, n, p, s, K2)
      BY <1>1, <1>3, <2>2, <2>3, <3>1 DEF Joining
    <3> QED
      BY <3>2, AttachedWalks
  <2>9. [tree |-> v, node |-> p, change |-> s] \in Walks
    <3>1. v \in Trees /\ s \in Int
      BY <2>3, <2>7 DEF Holding, Attached, Sides, Left, Right
    <3> QED
      BY <2>4, <3>1 DEF Walks
  <2>10. Kept(InsertBalance(v, p, s), U \cup {n}, K2, v.data, v.free)
    BY <2>8, <2>9, InsertBalanceFacts
  <2> QED
    BY <2>6, <2>7, <2>10 DEF Holding
<1> QED
  BY <1>4, <1>5

-----------------------------------------------------------------------------
(* A tree with no node.                                                    *)
LEMMA EmptySound ==
  ASSUME NEW v \in Trees, v.root = NULL, NEW K
  PROVE  Sound(v, {}, K)
<1> DEFINE B == [x \in Links |-> {}]
           h == [x \in Links |-> 0]
           U == {}
<1>1. NULL \in Links
  BY DEF Links
<1>2. B \in [Links -> SUBSET U] /\ B[NULL] = {} /\ B[v.root] = U /\ U \in SUBSET Nodes
      /\ v.root \in U \cup {NULL} /\ \A x \in U : FALSE
  BY <1>1
<1>3. Heights(h)
  BY <1>1 DEF Heights
<1> HIDE DEF B, h, U
<1>4. Linked(v, U, B)
  BY <1>2 DEF Linked
<1>5. Ordered(v, U, B, K)
  BY <1>2 DEF Ordered
<1>6. Shaped(v, U, B, h, K) /\ \A x \in U : Proper(v, h, x)
  BY <1>2, <1>3, <1>4, <1>5 DEF Shaped
<1>7. Sound(v, U, K)
  BY <1>6 DEF Sound
<1> QED
  BY <1>7 DEF U

(* In v node m is gone, and its one child x, if any, has its place.        *)
Spliced(t, v, m, x, U) ==
  /\ v \in Trees /\ v.root = t.root
  /\ \A y \in U \ {m} :
       /\ v.parent[y] = IF y = x THEN t.parent[m] ELSE t.parent[y]
       /\ \A z \in Sides : v.child[z][y] = IF t.child[z][y] = m THEN x ELSE t.child[z][y]

Without(B, m) == [y \in Links |-> B[y] \ {m}]

LEMMA SplicedChildren ==
  ASSUME NEW t \in Trees, NEW U, NEW B, Linked(t, U, B), NEW m \in U,
         NEW s \in Sides, t.child[s][m] = NULL, NEW v, Spliced(t, v, m, t.child[-s][m], U)
  PROVE  \A y \in U \ {m}, z \in Sides : B[v.child[z][y]] \ {m} = B[t.child[z][y]] \ {m}
<1> DEFINE x == t.child[-s][m]
<1>1. B[m] \ {m} = B[x] \ {m}
  <2>1. B[m] = {m} \cup B[t.child[s][m]] \cup B[x] /\ B[NULL] = {}
    BY DEF Linked
  <2> QED
    BY <2>1
<1>2. SUFFICES ASSUME NEW y \in U \ {m}, NEW z \in Sides
               PROVE  B[v.child[z][y]] \ {m} = B[t.child[z][y]] \ {m}
  OBVIOUS
<1>3. v.child[z][y] = IF t.child[z][y] = m THEN x ELSE t.child[z][y]
  BY DEF Spliced
<1> HIDE DEF x
<1> QED
  BY <1>1, <1>3

LEMMA SplicedLinked ==
  ASSUME NEW t \in Trees, NEW U, NEW B, Linked(t, U, B), NEW m \in U, m # t.root,
         NEW s \in Sides, t.child[s][m] = NULL, NEW v, Spliced(t, v, m, t.child[-s][m], U)
  PROVE  Linked(v, U \ {m}, Without(B, m))
<1> DEFINE V == U \ {m}
           C == Without(B, m)
           x == t.child[-s][m]
<1>1. /\ U \subseteq Nodes /\ U \subseteq Links /\ NULL \in Links /\ NULL \notin U
      /\ -s \in Sides /\ B \in [Links -> SUBSET U] /\ t.root \in U /\ m # NULL
      /\ \A z \in Sides : -z \in Sides
  <2>1. U \subseteq Nodes /\ B \in [Links -> SUBSET U] /\ B[t.root] = U /\ B[NULL] = {}
        /\ t.root \in U \cup {NULL}
    BY DEF Linked
  <2>2. t.root \in U
    BY <2>1
  <2> QED
    BY <2>1, <2>2, SideFacts DEF Links
<1>2. C \in [Links -> SUBSET V] /\ \A y \in Links : C[y] = B[y] \ {m}
  BY <1>1 DEF Without
<1>3. x \in V \cup {NULL} /\ (x # NULL => t.parent[x] = m)
  <2>1. CASE x = NULL
    BY <2>1
  <2>2. CASE x # NULL
    <3>1. x \in U /\ x # m /\ t.parent[x] = m
      BY <1>1, <2>2, ChildFacts
    <3> QED
      BY <3>1
  <2> QED
    BY <2>1, <2>2
<1>4. /\ v.root = t.root
      /\ \A y \in V :
           /\ v.parent[y] = IF y = x THEN t.parent[m] ELSE t.parent[y]
           /\ \A z \in Sides : v.child[z][y] = IF t.child[z][y] = m THEN x ELSE t.child[z][y]
  BY DEF Spliced
<1>5. \A y \in V, z \in Sides : B[v.child[z][y]] \ {m} = B[t.child[z][y]] \ {m}
  BY SplicedChildren
<1>6. ASSUME NEW y \in U, NEW z \in Sides
      PROVE  /\ t.child[z][y] \in U \cup {NULL}
             /\ t.child[z][y] # NULL => t.parent[t.child[z][y]] = y
             /\ B[y] = {y} \cup B[t.child[z][y]] \cup B[t.child[-z][y]]
             /\ B[t.child[z][y]] \cap B[t.child[-z][y]] = {}
             /\ y \notin B[t.child[z][y]]
  BY DEF Linked
<1> HIDE DEF x, C
<1>7. ASSUME NEW y \in V, NEW z \in Sides
      PROVE  v.child[z][y] \in V \cup {NULL} /\ (v.child[z][y] # NULL => v.parent[v.child[z][y]] = y)
  <2>1. CASE t.child[z][y] = m
    <3>1. v.child[z][y] = x /\ t.parent[m] = y
      BY <1>1, <1>4, <1>6, <2>1
    <3> QED
      BY <1>3, <1>4, <3>1
  <2>2. CASE t.child[z][y] # m
    <3>1. v.child[z][y] = t.child[z][y] /\ t.child[z][y] \in V \cup {NULL}
      BY <1>4, <1>6, <2>2
    <3>2. t.child[z][y] # NULL => t.child[z][y] # x
      BY <1>3, <1>6
    <3> QED
      BY <1>4, <1>6, <3>1, <3>2
  <2> QED
    BY <2>1, <2>2
<1>8. ASSUME NEW y \in V, NEW z \in Sides
      PROVE  /\ C[y] = {y} \cup C[v.child[z][y]] \cup C[v.child[-z][y]]
             /\ C[v.child[z][y]] \cap C[v.child[-z][y]] = {}
             /\ y \notin C[v.child[z][y]]
  <2> DEFINE L == B[t.child[z][y]]
             R == B[t.child[-z][y]]
  <2>1. B[y] = {y} \cup L \cup R /\ L \cap R = {} /\ y \notin L /\ y # m
    BY <1>6
  <2>2. v.child[z][y] \in Links /\ v.child[-z][y] \in Links /\ y \in Links
    BY <1>1, <1>7
  <2>3. C[v.child[z][y]] = L \ {m} /\ C[v.child[-z][y]] = R \ {m} /\ C[y] = B[y] \ {m}
    BY <1>1, <1>2, <1>5, <2>2
  <2> HIDE DEF L, R
  <2> QED
    BY <2>1, <2>3
<1>9. ASSUME NEW y \in V \ {v.root}
      PROVE  v.parent[y] \in V /\ \E z \in Sides : v.child[z][v.parent[y]] = y
  <2>1. CASE y = x
    <3>1. PICK z \in Sides : t.parent[m] \in U /\ t.child[z][t.parent[m]] = m
      BY DEF Linked
    <3>2. t.parent[m] # m
      BY <1>1, <3>1, ChildFacts
    <3> QED
      BY <1>4, <2>1, <3>1, <3>2
  <2>2. CASE y # x
    <3>1. PICK z \in Sides : t.parent[y] \in U /\ t.child[z][t.parent[y]] = y
      BY <1>4, <1>9 DEF Linked
    <3>2. t.parent[y] # m
      <4> SUFFICES ASSUME t.parent[y] = m
                   PROVE  FALSE
        OBVIOUS
      <4>1. z = s \/ z = -s
        BY SideFacts
      <4> QED
        BY <1>1, <2>2, <3>1, <4>1 DEF x
    <3> QED
      BY <1>4, <2>2, <3>1, <3>2
  <2> QED
    BY <2>1, <2>2
<1>10. V \in SUBSET Nodes /\ C[NULL] = {} /\ C[v.root] = V /\ v.root \in V
       /\ v.parent[v.root] = NULL
  <2>1. B[NULL] = {} /\ B[t.root] = U /\ t.parent[t.root] = NULL
    BY <1>1 DEF Linked
  <2>2. t.root # x
    BY <1>1, <1>3, <2>1
  <2> QED
    BY <1>1, <1>2, <1>4, <2>1, <2>2
<1>11. Linked(v, V, C)
  <2> HIDE DEF V
  <2> QED
    BY <1>2, <1>7, <1>8, <1>9, <1>10 DEF Linked
<1> QED
  BY <1>11 DEF C

LEMMA SplicedOrdered ==
  ASSUME NEW t \in Trees, NEW U, NEW B, Linked(t, U, B), NEW m \in U,
         NEW s \in Sides, t.child[s][m] = NULL, NEW v, Spliced(t, v, m, t.child[-s][m], U),
         NEW K, Ordered(t, U, B, K)
  PROVE  Ordered(v, U \ {m}, Without(B, m), K)
<1> DEFINE C == Without(B, m)
<1>1. ASSUME NEW x \in U \ {m}, NEW z \in Sides, NEW y \in C[v.child[z][x]]
      PROVE  Beyond(z, K[x], K[y])
  <2>1. v.child[z][x] \in Links
    <3>1. x \in Nodes /\ v \in Trees
      BY DEF Linked, Spliced
    <3> QED
      BY <3>1, Fields
  <2>2. y \in B[t.child[z][x]]
    <3>1. y \in B[v.child[z][x]] \ {m}
      BY <1>1, <2>1 DEF Without
    <3> QED
      BY <3>1, SplicedChildren
  <2> QED
    BY <2>2 DEF Ordered
<1>2. \A x \in U \ {m} : K[x] \in Int
  BY DEF Ordered
<1> HIDE DEF C
<1>3. Ordered(v, U \ {m}, C, K)
  BY <1>1, <1>2 DEF Ordered
<1> QED
  BY <1>3 DEF C

(* A subtree of node p has lost a node, on the side other than d.          *)
Cut(v, U, B, h, K, p, d) ==
  /\ Shaped(v, U, B, h, K) /\ p \in U /\ Shrunk(v, h, p, d)
  /\ \A x \in U : x = p \/ Proper(v, h, x)

(* The walk up from there begins.                                          *)
LEMMA CutWalks ==
  ASSUME NEW v, NEW U, NEW B, NEW h, NEW K, NEW p, NEW d, Cut(v, U, B, h, K, p, d)
  PROVE  /\ [tree |-> v, node |-> p, change |-> d] \in Walks
         /\ Walking(FALSE, [tree |-> v, node |-> p, change |-> d], U, K, v.data, v.free, 0)
<1> DEFINE w == [tree |-> v, node |-> p, change |-> d]
<1>1. /\ Shaped(v, U, B, h, K) /\ p \in U /\ Shrunk(v, h, p, d)
      /\ \A x \in U : x = p \/ Proper(v, h, x)
  BY DEF Cut
<1>2. w.tree = v /\ w.node = p /\ w.change = d
  OBVIOUS
<1>3. w \in Walks
  <2>1. v \in Trees /\ p \in Links /\ d \in Int
    BY SMTT(20), <1>1 DEF Shaped, Linked, Links, Shrunk, Sides, Left, Right
  <2> QED
    BY <2>1 DEF Walks
<1>4. Cardinality(B[p]) > 0
  <2> DEFINE S == B[p]
             O == {}
  <2>1. S \in SUBSET Nodes /\ O \in SUBSET S /\ p \in S /\ p \notin O
    BY <1>1, SideFacts DEF Shaped, Linked, Links
  <2> HIDE DEF S, O
  <2>2. Cardinality(O) \in Nat /\ Cardinality(S) \in Nat /\ Cardinality(O) + 1 <= Cardinality(S)
    BY <2>1, Fewer
  <2>3. Cardinality(S) > 0
    BY <2>2
  <2> QED
    BY <2>3 DEF S
<1> HIDE DEF w
<1>5. Walking(FALSE, w, U, K, v.data, v.free, 0)
  BY <1>1, <1>2, <1>4 DEF Walking
<1> QED
  BY <1>3, <1>5 DEF w

(* So it does when a node m that lacks a child is taken out.               *)
LEMMA SplicedCut ==
  ASSUME NEW t, NEW U, NEW B, NEW h, NEW K, Shaped(t, U, B, h, K),
         \A x \in U : Proper(t, h, x), NEW m \in U, m # t.root,
         NEW s \in Sides, t.child[s][m] = NULL, NEW v, Spliced(t, v, m, t.child[-s][m], U),
         \A y \in U \ {m} : v.balance[y] = t.balance[y],
         NEW q \in Sides, t.child[q][t.parent[m]] = m
  PROVE  Cut(v, U \ {m}, Without(B, m), h, K, t.parent[m], -q)
<1> DEFINE V == U \ {m}
           C == Without(B, m)
           x == t.child[-s][m]
           p == t.parent[m]
           o == t.child[-q][p]
<1>1. t \in Trees /\ Linked(t, U, B) /\ Heights(h) /\ Ordered(t, U, B, K) /\ v \in Trees
  BY DEF Shaped, Spliced
<1>2. Shaped(v, V, C, h, K)
  BY <1>1, SplicedLinked, SplicedOrdered DEF Shaped
<1>3. /\ U \subseteq Nodes /\ m # NULL /\ Left \in Sides /\ Right \in Sides /\ -q \in Sides
      /\ -(-q) = q /\ -q # q /\ -s \in Sides
  BY <1>1, SideFacts DEF Linked
<1>4. p \in U /\ p # m /\ t.child[-q][p] # m
  <2>1. p \in U
    BY <1>1 DEF Linked
  <2> QED
    BY <1>1, <1>3, <2>1, ChildFacts
<1>5. ASSUME NEW y \in U, NEW z \in Sides, t.child[z][y] = m
      PROVE  y = p /\ z = q
  BY <1>1, <1>3, <1>4, <1>5, ChildFacts
<1>6. \A y \in V : /\ v.balance[y] = t.balance[y]
                   /\ \A z \in Sides : v.child[z][y] = IF t.child[z][y] = m THEN x ELSE t.child[z][y]
  BY DEF Spliced
<1>7. ASSUME NEW y \in V, y # p
      PROVE  Proper(v, h, y)
  <2>1. Proper(t, h, y)
    OBVIOUS
  <2>2. v.child[Left][y] = t.child[Left][y] /\ v.child[Right][y] = t.child[Right][y]
    BY <1>3, <1>5, <1>6, <1>7
  <2> QED
    BY <1>6, <2>1, <2>2 DEF Proper
<1>8. h[m] = 1 + h[x] /\ h[x] \in Nat
  <2>1. h[m] = 1 + Taller(h[t.child[s][m]], h[x])
    BY <1>1, <1>3, ProperOn
  <2>2. h[t.child[s][m]] = 0 /\ h[x] \in Nat
    <3>1. x \in Links
      BY <1>1, <1>3, Fields
    <3> QED
      BY <1>1, <3>1 DEF Heights
  <2> QED
    BY <2>1, <2>2 DEF Taller
<1>9. /\ t.balance[p] \in -1 .. 1 /\ Tilt(q, t.balance[p]) = h[m] - h[o]
      /\ h[p] = 1 + Taller(h[m], h[o])
  <2>1. Proper(t, h, p) /\ p \in Nodes
    BY <1>3, <1>4
  <2> QED
    BY <1>1, <2>1, ProperOn
<1>10. v.balance[p] = t.balance[p] /\ v.child[q][p] = x /\ v.child[-q][p] = o
  BY <1>3, <1>4, <1>6
<1>11. h[o] \in Nat
  <2>1. o \in Links
    BY <1>1, <1>3, <1>4, Fields
  <2> QED
    BY <1>1, <2>1 DEF Heights
<1> HIDE DEF x, o, p
<1>12. Shrunk(v, h, p, -q)
  <2> DEFINE b == t.balance[p]
  <2>1. Tilt(-q, b) = 0 - Tilt(q, b) /\ Tilt(q, b) = h[m] - h[o]
    <3>1. b \in Int
      BY <1>9
    <3> QED
      BY <1>9, <3>1, TiltFacts
  <2>2. Tilt(-q, b) + 1 = h[o] - h[x]
    BY <1>8, <1>11, <2>1
  <2>3. h[p] = 1 + Taller(h[o], h[x] + 1)
    BY <1>8, <1>9, <1>11 DEF Taller
  <2> QED
    BY <1>3, <1>9, <1>10, <2>2, <2>3 DEF Shrunk
<1>13. Cut(v, V, C, h, K, p, -q)
  BY <1>2, <1>4, <1>7, <1>12 DEF Cut
<1> QED
  BY <1>13 DEF p

(* Another key for node n, that fits where n is.                           *)
Rekeyed(t, U, B, K, K2, n) ==
  /\ K2[n] \in Int /\ Fits(t, U, B, K, n, K2[n])
  /\ \A z \in Sides : \A y \in B[t.child[z][n]] : Beyond(z, K2[n], K[y])
  /\ \A y \in U \ {n} : K2[y] = K[y]

LEMMA RekeyedOrdered ==
  ASSUME NEW t, NEW U, NEW B, Linked(t, U, B), NEW K, Ordered(t, U, B, K),
         NEW n \in U, NEW K2, Rekeyed(t, U, B, K, K2, n)
  PROVE  Ordered(t, U, B, K2)
<1>1. ASSUME NEW x \in U, NEW z \in Sides, NEW y \in B[t.child[z][x]]
      PROVE  Beyond(z, K2[x], K2[y])
  <2>1. /\ x \notin B[t.child[z][x]] /\ y \in U /\ Beyond(z, K[x], K[y])
    <3>1. t.child[z][x] \in Links /\ B \in [Links -> SUBSET U]
      BY DEF Linked, Links
    <3>2. x \notin B[t.child[z][x]] /\ Beyond(z, K[x], K[y])
      BY DEF Linked, Ordered
    <3> QED
      BY <3>1, <3>2
  <2>2. CASE x = n
    BY <2>1, <2>2 DEF Rekeyed
  <2>3. CASE y = n
    BY <2>1, <2>3 DEF Rekeyed, Fits
  <2>4. CASE x # n /\ y # n
    BY <2>1, <2>4 DEF Rekeyed
  <2> QED
    BY <2>2, <2>3, <2>4
<1>2. \A x \in U : K2[x] \in Int
  BY DEF Ordered, Rekeyed
<1> QED
  BY <1>1, <1>2 DEF Ordered

(* The key of a node below n fits where n is, as far as the nodes above n  *)
(* tell, also when that node is gone.                                      *)
LEMMA SplicedFits ==
  ASSUME NEW t \in Trees, NEW U, NEW B, Linked(t, U, B), NEW K, Ordered(t, U, B, K),
         NEW n \in U, NEW m \in B[n], m \in U,
         NEW s \in Sides, t.child[s][m] = NULL, NEW v, Spliced(t, v, m, t.child[-s][m], U)
  PROVE  Fits(v, U \ {m}, Without(B, m), K, n, K[m])
<1> SUFFICES ASSUME NEW x \in U \ {m}, NEW z \in Sides, n \in Without(B, m)[v.child[z][x]]
             PROVE  Beyond(z, K[x], K[m])
  BY DEF Fits
<1>1. v.child[z][x] \in Links
  <2>1. x \in Nodes /\ v \in Trees
    BY DEF Linked, Spliced
  <2> QED
    BY <2>1, Fields
<1>2. n \in B[t.child[z][x]]
  <2>1. n \in B[v.child[z][x]] \ {m}
    BY <1>1 DEF Without
  <2> QED
    BY <2>1, SplicedChildren
<1>3. t.child[z][x] \in U
  BY <1>2 DEF Linked
<1>4. m \in B[t.child[z][x]]
  BY <1>2, <1>3, Downward
<1> QED
  BY <1>4 DEF Ordered

(* A node of height 0 is none.                                             *)
LEMMA NoNode ==
  ASSUME NEW t \in Trees, NEW U, NEW B, NEW h, NEW K, Shaped(t, U, B, h, K),
         NEW x \in U \cup {NULL}, x # NULL => Proper(t, h, x)
  PROVE  h[x] \in Nat /\ (h[x] = 0 <=> x = NULL)
<1>1. CASE x = NULL
  BY <1>1 DEF Shaped, Heights
<1>2. CASE x # NULL
  <2>1. x \in Nodes /\ x \in Links
    BY <1>2 DEF Shaped, Linked, Links
  <2>2. t.child[Left][x] \in Links /\ t.child[Right][x] \in Links
    BY <2>1, Fields, SideFacts
  <2>3. h[x] \in Nat /\ h[t.child[Left][x]] \in Nat /\ h[t.child[Right][x]] \in Nat
    BY <2>1, <2>2 DEF Shaped, Heights
  <2>4. h[x] = 1 + Taller(h[t.child[Left][x]], h[t.child[Right][x]])
    BY <1>2 DEF Proper
  <2> QED
    BY <1>2, <2>3, <2>4 DEF Taller
<1> QED
  BY <1>1, <1>2

(* In v node n has taken over the contents of its one child m, a leaf.     *)
Absorbed(t, v, n, m, U) ==
  /\ v \in Trees /\ v.root = t.root
  /\ \A y \in U \ {m} :
       /\ v.parent[y] = t.parent[y]
       /\ v.balance[y] = IF y = n THEN 0 ELSE t.balance[y]
       /\ \A z \in Sides : v.child[z][y] = IF y = n THEN NULL ELSE t.child[z][y]

LEMMA OneChild ==
  ASSUME NEW t, NEW U, NEW B, NEW h, NEW K, Shaped(t, U, B, h, K),
         \A x \in U : Proper(t, h, x), NEW n \in U,
         NEW q \in Sides, t.child[q][n] # NULL, t.child[-q][n] = NULL
  PROVE  LET m == t.child[q][n]
         IN /\ m \in U /\ m # n /\ m # t.root /\ t.parent[m] = n /\ m \in B[n]
            /\ h[n] = 2 /\ t.balance[m] = 0 /\ \A z \in Sides : t.child[z][m] = NULL
            /\ \A y \in U, z \in Sides : t.child[z][y] = m => y = n /\ z = q
<1> DEFINE m == t.child[q][n]
<1>1. t \in Trees /\ Linked(t, U, B) /\ Heights(h) /\ n \in Nodes
  BY DEF Shaped, Linked
<1>2. /\ m \in U /\ m \in Nodes /\ m # n /\ m # t.root /\ t.parent[m] = n /\ m \in B[n]
      /\ \A y \in U, z \in Sides : t.child[z][y] = m => y = n /\ z = q
  BY <1>1, ChildFacts
<1>3. /\ t.child[Left][m] \in U \cup {NULL} /\ t.child[Right][m] \in U \cup {NULL}
  BY <1>1, <1>2, SideFacts DEF Linked
<1> DEFINE a == h[t.child[Left][m]]
           b == h[t.child[Right][m]]
<1>4. /\ a \in Nat /\ (a = 0 <=> t.child[Left][m] = NULL)
      /\ b \in Nat /\ (b = 0 <=> t.child[Right][m] = NULL)
  BY <1>1, <1>3, NoNode
<1>5. h[m] = 1 + Taller(a, b) /\ t.balance[m] \in -1 .. 1 /\ Tilt(Right, t.balance[m]) = b - a
  BY <1>2 DEF Proper
<1>6. t.balance[n] \in -1 .. 1 /\ Tilt(q, t.balance[n]) = h[m] - 0 /\ h[n] = 1 + Taller(h[m], 0)
  <2>1. h[t.child[-q][n]] = 0 /\ Proper(t, h, n)
    BY <1>1 DEF Heights
  <2> QED
    BY <1>1, <2>1, ProperOn
<1> HIDE DEF a, b
<1>7. Tilt(q, t.balance[n]) <= 1
  BY <1>6 DEF Tilt
<1>8. a = 0 /\ b = 0 /\ h[m] = 1
  BY <1>4, <1>5, <1>6, <1>7 DEF Taller
<1>9. h[n] = 2
  BY <1>6, <1>8 DEF Taller
<1>10. t.balance[m] = 0
  <2>1. t.balance[m] \in Int /\ Left # Right
    BY <1>5, LeftRight
  <2> QED
    BY <1>5, <1>8, <2>1 DEF Tilt
<1>11. \A z \in Sides : t.child[z][m] = NULL
  BY <1>4, <1>8, LeftRight
<1> QED
  BY <1>2, <1>9, <1>10, <1>11

LEMMA AbsorbedCut ==
  ASSUME NEW t, NEW U, NEW B, NEW h, NEW K, Shaped(t, U, B, h, K),
         \A x \in U : Proper(t, h, x), NEW n \in U,
         NEW q \in Sides, t.child[q][n] # NULL, t.child[-q][n] = NULL,
         NEW v, Absorbed(t, v, n, t.child[q][n], U),
         NEW K2, K2[n] = K[t.child[q][n]], \A y \in U \ {n} : K2[y] = K[y]
  PROVE  Cut(v, U \ {t.child[q][n]}, Without(B, t.child[q][n]), h, K2, n, 0)
<1> DEFINE m == t.child[q][n]
           V == U \ {m}
           C == Without(B, m)
<1>1. /\ t \in Trees /\ Linked(t, U, B) /\ Heights(h) /\ Ordered(t, U, B, K) /\ v \in Trees
      /\ U \subseteq Nodes /\ NULL \in Links /\ NULL \notin U /\ Left \in Sides /\ Right \in Sides
      /\ -q \in Sides /\ \A z \in Sides : z = q \/ z = -q
  BY SideFacts DEF Shaped, Linked, Absorbed, Links
<1>2. /\ m \in U /\ m # n /\ m # t.root /\ t.parent[m] = n /\ m \in B[n]
      /\ h[n] = 2 /\ t.balance[m] = 0 /\ \A z \in Sides : t.child[z][m] = NULL
      /\ \A y \in U, z \in Sides : t.child[z][y] = m => y = n /\ z = q
  BY OneChild
<1>3. /\ v.root = t.root
      /\ \A y \in V :
           /\ v.parent[y] = t.parent[y]
           /\ v.balance[y] = IF y = n THEN 0 ELSE t.balance[y]
           /\ \A z \in Sides : v.child[z][y] = IF y = n THEN NULL ELSE t.child[z][y]
  BY DEF Absorbed
<1>4. t.child[q][m] = NULL /\ t.child[-q][m] = NULL /\ n \in V
  BY <1>1, <1>2
<1> HIDE DEF m
<1>5. ASSUME NEW y \in V, NEW z \in Sides
      PROVE  v.child[z][y] = IF t.child[z][y] = m THEN NULL ELSE t.child[z][y]
  <2>1. CASE y = n
    BY <1>1, <1>3, <2>1 DEF m
  <2>2. CASE y # n
    BY <1>2, <1>3, <2>2
  <2> QED
    BY <2>1, <2>2
<1>6. Spliced(t, v, m, t.child[-q][m], U)
  BY <1>1, <1>3, <1>4, <1>5 DEF Spliced
<1>7. Linked(v, V, C) /\ Ordered(v, V, C, K)
  BY <1>1, <1>2, <1>4, <1>6, SplicedLinked, SplicedOrdered
<1>8. Rekeyed(v, V, C, K, K2, n)
  <2>1. Fits(v, V, C, K, n, K[m])
    BY <1>1, <1>2, <1>4, <1>6, SplicedFits
  <2>2. K2[n] \in Int
    BY <1>1, <1>2 DEF Ordered, m
  <2>3. \A z \in Sides : v.child[z][n] = NULL
    BY <1>3, <1>4
  <2>4. C[NULL] = {}
    BY <1>7 DEF Linked
  <2>5. K2[n] = K[m] /\ \A y \in V \ {n} : K2[y] = K[y]
    BY DEF m
  <2> HIDE DEF C, V
  <2> QED
    BY <2>1, <2>2, <2>3, <2>4, <2>5 DEF Rekeyed
<1>9. Shaped(v, V, C, h, K2)
  <2>1. Ordered(v, V, C, K2)
    BY <1>4, <1>7, <1>8, RekeyedOrdered
  <2> QED
    BY <1>1, <1>7, <2>1 DEF Shaped
<1>10. Shrunk(v, h, n, 0)
  BY <1>1, <1>2, <1>3, <1>4 DEF Shrunk, Heights
<1>11. ASSUME NEW x \in V, x # n
       PROVE  Proper(v, h, x)
  <2>1. Proper(t, h, x)
    OBVIOUS
  <2> QED
    BY <1>1, <1>3, <1>11, <2>1 DEF Proper
<1>12. Cut(v, V, C, h, K2, n, 0)
  BY <1>4, <1>9, <1>10, <1>11 DEF Cut
<1> QED
  BY <1>12 DEF m

-----------------------------------------------------------------------------
(* Node m instead of n.                                                    *)
Instead(n, m, x) == IF x = n THEN m ELSE x

(* In w it is so, for all that the links and the balances tell.            *)
Swapped(t, w, n, m, U) ==
  /\ w \in Trees /\ w.root = Instead(n, m, t.root)
  /\ \A y \in U :
       /\ w.parent[Instead(n, m, y)] = Instead(n, m, t.parent[y])
       /\ w.balance[Instead(n, m, y)] = t.balance[y]
       /\ \A z \in Sides : w.child[z][Instead(n, m, y)] = Instead(n, m, t.child[z][y])

(* The nodes below each, and the heights.                                  *)
Swaps(t, w, n, m, U, V, B, C, h, g) ==
  /\ C \in [Links -> SUBSET V] /\ Heights(g)
  /\ \A y \in U \cup {NULL} :
       C[Instead(n, m, y)] = {Instead(n, m, x) : x \in B[y]} /\ g[Instead(n, m, y)] = h[y]

LEMMA SwapsExist ==
  ASSUME NEW t \in Trees, NEW U, NEW B, Linked(t, U, B), NEW h, Heights(h),
         NEW n \in U, NEW m \in Nodes, m \notin U, NEW w
  PROVE  \E C, g : Swaps(t, w, n, m, U, (U \ {n}) \cup {m}, B, C, h, g)
<1> DEFINE R(x) == Instead(n, m, x)
           Back(x) == Instead(m, n, x)
           V == (U \ {n}) \cup {m}
           C == [x \in Links |-> IF x \in V \cup {NULL} THEN {R(y) : y \in B[Back(x)]} ELSE {}]
           g == [x \in Links |-> h[Back(x)]]
<1>1. /\ U \subseteq Nodes /\ V \subseteq Nodes /\ NULL \notin Nodes /\ NULL \in Links
      /\ Nodes \subseteq Links
  BY SideFacts DEF Linked, Links
<1>2. ASSUME NEW y \in U \cup {NULL}
      PROVE  R(y) \in V \cup {NULL} /\ R(y) \in Links /\ Back(R(y)) = y
  BY <1>1 DEF Instead, Links
<1>3. \A x \in Links : B[x] \in SUBSET U
  BY DEF Linked
<1>4. C \in [Links -> SUBSET V]
  <2>1. \A x \in V \cup {NULL} : Back(x) \in Links
    BY <1>1 DEF Instead
  <2>2. \A y \in U : R(y) \in V
    BY DEF Instead
  <2> HIDE DEF R, Back, V
  <2> QED
    BY <1>3, <2>1, <2>2
<1>5. ASSUME NEW y \in U \cup {NULL}
      PROVE  C[R(y)] = {R(x) : x \in B[y]} /\ g[R(y)] = h[y]
  <2> HIDE DEF R, Back, V
  <2> QED
    BY <1>2
<1>6. Heights(g)
  <2>1. \A x \in Links : Back(x) \in Links
    BY <1>1 DEF Instead
  <2>2. Back(NULL) = NULL
    BY <1>1 DEF Instead
  <2> HIDE DEF Back
  <2> QED
    BY <1>1, <2>1, <2>2 DEF Heights
<1> HIDE DEF C, g, V
<1>7. Swaps(t, w, n, m, U, V, B, C, h, g)
  BY <1>4, <1>5, <1>6 DEF Swaps
<1> QED
  BY <1>7 DEF V

LEMMA SwappedLinked ==
  ASSUME NEW t \in Trees, NEW U, NEW B, Linked(t, U, B), NEW h,
         NEW n \in U, NEW m \in Nodes, m \notin U, NEW w, Swapped(t, w, n, m, U),
         NEW C, NEW g, Swaps(t, w, n, m, U, (U \ {n}) \cup {m}, B, C, h, g)
  PROVE  Linked(w, (U \ {n}) \cup {m}, C)
<1> DEFINE R(x) == Instead(n, m, x)
           V == (U \ {n}) \cup {m}
           Im(S) == {R(x) : x \in S}
<1>1. /\ U \subseteq Nodes /\ V \subseteq Nodes /\ NULL \notin Nodes /\ NULL \in Links
      /\ B \in [Links -> SUBSET U] /\ t.root \in U /\ \A z \in Sides : -z \in Sides
      /\ U \subseteq Links
  <2>1. B[NULL] = {} /\ B[t.root] = U /\ t.root \in U \cup {NULL} /\ B \in [Links -> SUBSET U]
    BY DEF Linked
  <2>2. t.root \in U
    BY <2>1
  <2> QED
    BY <2>1, <2>2, SideFacts DEF Linked, Links
<1>2. /\ R(NULL) = NULL /\ \A y \in U : R(y) \in V /\ \A x \in U : R(x) = R(y) => x = y
      /\ \A v \in V : \E y \in U : v = R(y)
  BY <1>1 DEF Instead
<1>3. Im(U) = V
  BY <1>2
<1>4. /\ w.root = R(t.root)
      /\ \A y \in U : /\ w.parent[R(y)] = R(t.parent[y])
                      /\ \A z \in Sides : w.child[z][R(y)] = R(t.child[z][y])
  BY DEF Swapped
<1>5. C \in [Links -> SUBSET V] /\ \A y \in U \cup {NULL} : C[R(y)] = Im(B[y])
  BY DEF Swaps
<1>6. ASSUME NEW y \in U, NEW z \in Sides
      PROVE  /\ t.child[z][y] \in U \cup {NULL}
             /\ t.child[z][y] # NULL => t.parent[t.child[z][y]] = y
             /\ B[y] = {y} \cup B[t.child[z][y]] \cup B[t.child[-z][y]]
             /\ B[t.child[z][y]] \cap B[t.child[-z][y]] = {}
             /\ y \notin B[t.child[z][y]]
  BY DEF Linked
<1> HIDE DEF R, V
<1>7. ASSUME NEW v \in V, NEW z \in Sides
      PROVE  /\ w.child[z][v] \in V \cup {NULL}
             /\ w.child[z][v] # NULL => w.parent[w.child[z][v]] = v
             /\ C[v] = {v} \cup C[w.child[z][v]] \cup C[w.child[-z][v]]
             /\ C[w.child[z][v]] \cap C[w.child[-z][v]] = {}
             /\ v \notin C[w.child[z][v]]
  <2>1. PICK y \in U : v = R(y)
    BY <1>2
  <2> DEFINE c == t.child[z][y]
             o == t.child[-z][y]
  <2>2. /\ c \in U \cup {NULL} /\ o \in U \cup {NULL} /\ (c # NULL => t.parent[c] = y)
        /\ B[y] = {y} \cup B[c] \cup B[o] /\ B[c] \cap B[o] = {} /\ y \notin B[c]
    BY <1>1, <1>6
  <2>3. w.child[z][v] = R(c) /\ w.child[-z][v] = R(o)
    BY <1>1, <1>4, <2>1
  <2>4. B[c] \subseteq U /\ B[o] \subseteq U
    BY <1>1, <2>2
  <2> HIDE DEF c, o
  <2>5. R(c) \in V \cup {NULL} /\ (R(c) # NULL => w.parent[R(c)] = v)
    BY <1>2, <1>4, <2>1, <2>2
  <2>6. C[v] = Im(B[y]) /\ C[R(c)] = Im(B[c]) /\ C[R(o)] = Im(B[o])
    BY <1>5, <2>1, <2>2
  <2>7. Im(B[y]) = {v} \cup Im(B[c]) \cup Im(B[o])
    BY <2>1, <2>2
  <2>8. Im(B[c]) \cap Im(B[o]) = {} /\ v \notin Im(B[c])
    BY <1>2, <2>1, <2>2, <2>4
  <2> HIDE DEF Im
  <2> QED
    BY <2>3, <2>5, <2>6, <2>7, <2>8
<1>8. ASSUME NEW v \in V \ {w.root}
      PROVE  w.parent[v] \in V /\ \E z \in Sides : w.child[z][w.parent[v]] = v
  <2>1. PICK y \in U : v = R(y)
    BY <1>2
  <2>2. y # t.root
    BY <1>4, <1>8, <2>1
  <2>3. PICK z \in Sides : t.parent[y] \in U /\ t.child[z][t.parent[y]] = y
    BY <2>2 DEF Linked
  <2> QED
    BY <1>2, <1>4, <2>1, <2>3
<1>9. C[NULL] = {} /\ C[w.root] = V /\ w.root \in V /\ w.parent[w.root] = NULL
  <2>1. B[NULL] = {} /\ B[t.root] = U /\ t.parent[t.root] = NULL
    BY <1>1 DEF Linked
  <2>2. C[NULL] = Im(B[NULL]) /\ C[w.root] = Im(B[t.root])
    BY <1>1, <1>2, <1>4, <1>5
  <2> QED
    BY <1>1, <1>2, <1>3, <1>4, <2>1, <2>2
<1>10. V \in SUBSET Nodes
  BY <1>1
<1> HIDE DEF Im
<1>11. Linked(w, V, C)
  BY <1>5, <1>7, <1>8, <1>9, <1>10 DEF Linked
<1> QED
  BY <1>11 DEF V

(* The walk up may as well begin after such a change.                      *)
LEMMA SwappedCut ==
  ASSUME NEW t, NEW U, NEW B, NEW h, NEW K, NEW p, NEW d, Cut(t, U, B, h, K, p, d),
         NEW n \in U, NEW m \in Nodes, m \notin U, NEW w, Swapped(t, w, n, m, U),
         NEW K2, K2[m] = K[n], \A y \in U \ {n} : K2[y] = K[y]
  PROVE  \E C, g : Cut(w, (U \ {n}) \cup {m}, C, g, K2, Instead(n, m, p), d)
<1> DEFINE R(x) == Instead(n, m, x)
           V == (U \ {n}) \cup {m}
<1>1. /\ t \in Trees /\ Linked(t, U, B) /\ Heights(h) /\ Ordered(t, U, B, K)
      /\ p \in U /\ Shrunk(t, h, p, d) /\ w \in Trees
      /\ \A x \in U : x = p \/ Proper(t, h, x)
      /\ \A z \in Sides : -z \in Sides
      /\ Left \in Sides /\ Right \in Sides
  BY SideFacts DEF Cut, Shaped, Swapped
<1>2. PICK C, g : Swaps(t, w, n, m, U, V, B, C, h, g)
  BY <1>1, SwapsExist
<1>3. Linked(w, V, C)
  BY <1>1, <1>2, SwappedLinked
<1>4. /\ R(NULL) = NULL /\ \A y \in U : R(y) \in V
      /\ \A v \in V : \E y \in U : v = R(y)
      /\ \A y \in U : K2[R(y)] = K[y]
  <2>1. NULL \notin U
    BY <1>1, SideFacts DEF Linked
  <2> QED
    BY <2>1 DEF Instead
<1>5. \A y \in U \cup {NULL} : C[R(y)] = {R(x) : x \in B[y]} /\ g[R(y)] = h[y]
  BY <1>2 DEF Swaps
<1>6. \A y \in U : /\ w.balance[R(y)] = t.balance[y]
                   /\ \A z \in Sides : w.child[z][R(y)] = R(t.child[z][y])
  BY DEF Swapped
<1>7. \A y \in U, z \in Sides : t.child[z][y] \in U \cup {NULL} /\ B[t.child[z][y]] \subseteq U
  <2>1. B \in [Links -> SUBSET U] /\ \A y \in U, z \in Sides : t.child[z][y] \in U \cup {NULL}
    BY <1>1 DEF Linked
  <2>2. U \cup {NULL} \subseteq Links
    BY <1>1 DEF Linked, Links
  <2> QED
    BY <2>1, <2>2
<1> HIDE DEF R, V
<1>8. ASSUME NEW v \in V, NEW z \in Sides, NEW u \in C[w.child[z][v]]
      PROVE  Beyond(z, K2[v], K2[u])
  <2>1. PICK y \in U : v = R(y)
    BY <1>4
  <2>2. C[w.child[z][v]] = {R(x) : x \in B[t.child[z][y]]}
    BY <1>5, <1>6, <1>7, <2>1
  <2>3. PICK x \in B[t.child[z][y]] : u = R(x)
    BY <1>8, <2>2
  <2>4. x \in U /\ Beyond(z, K[y], K[x])
    BY <1>1, <1>7 DEF Ordered
  <2> QED
    BY <1>4, <2>1, <2>3, <2>4
<1>9. Ordered(w, V, C, K2)
  <2>1. \A v \in V : K2[v] \in Int
    BY <1>1, <1>4 DEF Ordered
  <2> QED
    BY <1>8, <2>1 DEF Ordered
<1>10. Shaped(w, V, C, g, K2)
  BY <1>1, <1>2, <1>3, <1>9 DEF Shaped, Swaps
<1>11. ASSUME NEW y \in U
       PROVE  /\ w.balance[R(y)] = t.balance[y] /\ g[R(y)] = h[y]
              /\ \A z \in Sides : g[w.child[z][R(y)]] = h[t.child[z][y]]
  BY <1>5, <1>6, <1>7
<1>12. ASSUME NEW v \in V, v # R(p)
       PROVE  Proper(w, g, v)
  <2>1. PICK y \in U : v = R(y)
    BY <1>4
  <2>2. Proper(t, h, y)
    BY <1>1, <1>12, <2>1
  <2> QED
    BY <1>1, <1>11, <2>1, <2>2 DEF Proper
<1>13. Shrunk(w, g, R(p), d)
  <2>1. CASE d \in Sides
    <3>1. /\ w.balance[R(p)] = t.balance[p] /\ g[R(p)] = h[p]
          /\ g[w.child[d][R(p)]] = h[t.child[d][p]] /\ g[w.child[-d][R(p)]] = h[t.child[-d][p]]
      BY <1>1, <1>11, <2>1
    <3>2. d # 0
      BY <2>1, TiltFacts
    <3> QED
      BY <1>1, <2>1, <3>1, <3>2 DEF Shrunk
  <2>2. CASE d \notin Sides
    <3>1. /\ w.balance[R(p)] = t.balance[p] /\ g[R(p)] = h[p]
          /\ g[w.child[Left][R(p)]] = h[t.child[Left][p]]
          /\ g[w.child[Right][R(p)]] = h[t.child[Right][p]]
      BY <1>1, <1>11
    <3> QED
      BY <1>1, <2>2, <3>1 DEF Shrunk
  <2> QED
    BY <2>1, <2>2
<1>14. Cut(w, V, C, g, K2, R(p), d)
  BY <1>1, <1>4, <1>10, <1>12, <1>13 DEF Cut
<1> QED
  BY <1>14 DEF V, R

-----------------------------------------------------------------------------
(* On the way to the least node below r, after k turns: what is not below  *)
(* a is no less.                                                           *)
Leftward(t, B, K, r, a, k) ==
  /\ a \in B[r]
  /\ a = r \/ (t.parent[a] \in B[r] /\ t.child[Left][t.parent[a]] = a)
  /\ \A y \in B[r] : y \in B[a] \/ K[a] <= K[y]
  /\ t.child[Left][a] = NULL \/ Cardinality(B[a]) + k <= Capacity

(* m is the least node below r, and has no left child.                     *)
Least(t, B, K, r, m) ==
  /\ m \in B[r] /\ t.child[Left][m] = NULL
  /\ m = r \/ (t.parent[m] \in B[r] /\ t.child[Left][t.parent[m]] = m)
  /\ \A y \in B[r] : K[m] <= K[y]

LEMMA LeftStepFacts ==
  ASSUME NEW t \in Trees, NEW U, NEW B, Linked(t, U, B), NEW K, Ordered(t, U, B, K),
         NEW r \in U, NEW a, NEW k \in Nat, Leftward(t, B, K, r, a, k)
  PROVE  Leftward(t, B, K, r, LeftStep(t, a), k + 1)
<1> DEFINE c == t.child[Left][a]
<1>1. /\ a \in B[r] /\ \A y \in B[r] : y \in B[a] \/ K[a] <= K[y]
      /\ B \in [Links -> SUBSET U] /\ U \subseteq Links /\ Left \in Sides /\ Right \in Sides
      /\ U \subseteq Nodes
  BY SideFacts DEF Leftward, Linked, Links
<1>2. a \in U
  BY <1>1
<1>3. CASE c = NULL
  <2>1. LeftStep(t, a) = a
    BY <1>3 DEF LeftStep
  <2> QED
    BY <1>3, <2>1 DEF Leftward
<1>4. CASE c # NULL
  <2>1. LeftStep(t, a) = c
    BY <1>4 DEF LeftStep
  <2>2. /\ c \in U /\ t.parent[c] = a /\ B[c] \subseteq B[a] /\ a \notin B[c] /\ a \in B[a]
        /\ c \in B[c]
    BY <1>1, <1>2, <1>4, ChildFacts
  <2>3. B[a] \subseteq B[r]
    BY <1>1, Downward
  <2>4. ASSUME NEW y \in B[r]
        PROVE  y \in B[c] \/ K[c] <= K[y]
    <3>1. K[c] <= K[a] /\ K[c] \in Int /\ K[a] \in Int /\ K[y] \in Int
      <4>1. Beyond(Left, K[a], K[c]) /\ y \in U
        BY <1>1, <1>2, <2>2 DEF Ordered
      <4> QED
        BY <1>2, <2>2, <4>1 DEF Beyond, Ordered
    <3>2. CASE y \in B[a]
      <4>1. B[a] = {a} \cup B[c] \cup B[t.child[Right][a]]
        BY <1>1, <1>2, LeftRight DEF Linked
      <4>2. y \in B[t.child[Right][a]] => K[a] <= K[y]
        <5>1. y \in B[t.child[Right][a]] => Beyond(Right, K[a], K[y])
          BY <1>1, <1>2 DEF Ordered
        <5> QED
          BY <5>1, LeftRight DEF Beyond
      <4> HIDE DEF c
      <4>3. CASE y = a
        BY <3>1, <4>3
      <4>4. CASE y \in B[t.child[Right][a]]
        BY <3>1, <4>2, <4>4
      <4> QED
        BY <3>2, <4>1, <4>3, <4>4
    <3>3. CASE y \notin B[a]
      BY <1>1, <3>1, <3>3
    <3> QED
      BY <3>2, <3>3
  <2>5. Cardinality(B[c]) + (k + 1) <= Capacity
    <3> DEFINE S == B[a]
               T == B[c]
    <3>1. S \in SUBSET Nodes /\ T \in SUBSET S /\ a \in S /\ a \notin T
      BY <1>1, <1>2, <2>2
    <3>2. Cardinality(S) + k <= Capacity
      BY <1>4 DEF Leftward
    <3> HIDE DEF S, T
    <3>3. Cardinality(T) \in Nat /\ Cardinality(S) \in Nat /\ Cardinality(T) + 1 <= Cardinality(S)
      BY <3>1, Fewer
    <3>4. Cardinality(T) + (k + 1) <= Capacity
      BY <3>2, <3>3, CapacityAssumption
    <3> QED
      BY <3>4 DEF T
  <2>6. c \in B[r] /\ t.parent[c] \in B[r] /\ t.child[Left][t.parent[c]] = c
    BY <1>1, <2>2, <2>3
  <2> HIDE DEF c
  <2>7. Leftward(t, B, K, r, c, k + 1)
    BY <2>4, <2>5, <2>6 DEF Leftward
  <2> QED
    BY <2>1, <2>7
<1> QED
  BY <1>3, <1>4

LEMMA LeftmostFacts ==
  ASSUME NEW t \in Trees, NEW U, NEW B, Linked(t, U, B), NEW K, Ordered(t, U, B, K),
         NEW r \in U
  PROVE  Least(t, B, K, r, Leftmost(t, r))
<1> DEFINE W(m, k) == Leftward(t, B, K, r, m, k)
           F == [m \in U |-> LeftStep(t, m)]
<1>1. /\ U \subseteq Nodes /\ B \in [Links -> SUBSET U] /\ U \subseteq Links
      /\ Left \in Sides /\ Right \in Sides
  BY SideFacts DEF Linked, Links
<1>2. ASSUME NEW m \in U, NEW k \in Nat, W(m, k)
      PROVE  LeftStep(t, m) \in U /\ W(LeftStep(t, m), k + 1)
  <2>1. W(LeftStep(t, m), k + 1)
    BY <1>2, LeftStepFacts
  <2> QED
    BY <1>1, <2>1 DEF Leftward
<1>3. W(r, 0)
  <2>1. r \in B[r]
    BY <1>1 DEF Linked
  <2>2. Cardinality(B[r]) \in Nat /\ Cardinality(B[r]) <= Capacity
    <3>1. B[r] \in SUBSET Nodes
      BY <1>1
    <3> QED
      BY <3>1, Countable
  <2>3. Cardinality(B[r]) + 0 <= Capacity
    BY <2>2
  <2> QED
    BY <2>1, <2>3 DEF Leftward
<1>4. F \in [U -> U]
  <2> SUFFICES ASSUME NEW m \in U
               PROVE  LeftStep(t, m) \in U
    OBVIOUS
  <2> QED
    BY <1>1 DEF LeftStep, Linked
<1> HIDE DEF W
<1>5. PICK g \in [Nat -> U] : g[0] = r /\ \A k \in Nat : g[k + 1] = F[g[k]]
  <2> HIDE DEF F
  <2>1. Repeated(U, r, F)
    BY <1>4, Iteration
  <2> QED
    BY <2>1 DEF Repeated
<1>6. g = [k \in Nat |-> IF k = 0 THEN r ELSE LeftStep(t, g[k - 1])]
  <2>1. ASSUME NEW k \in Nat, k # 0
        PROVE  g[k] = LeftStep(t, g[k - 1])
    <3>1. k - 1 \in Nat /\ (k - 1) + 1 = k
      BY <2>1
    <3>2. g[k] = F[g[k - 1]] /\ g[k - 1] \in U
      BY <1>5, <3>1
    <3> QED
      BY <3>2
  <2> QED
    BY <1>5, <2>1
<1> DEFINE p == CHOOSE p : p = [k \in Nat |-> IF k = 0 THEN r ELSE LeftStep(t, p[k - 1])]
<1>7. p = [k \in Nat |-> IF k = 0 THEN r ELSE LeftStep(t, p[k - 1])]
  BY <1>6
<1>8. Leftmost(t, r) = p[Capacity]
  BY DEF Leftmost
<1> HIDE DEF p
<1>9. p[0] = r /\ \A k \in Nat : p[k + 1] = LeftStep(t, p[k])
  <2>1. \A k \in Nat : p[k] = IF k = 0 THEN r ELSE LeftStep(t, p[k - 1])
    BY <1>7
  <2>2. p[0] = r
    BY <2>1
  <2>3. ASSUME NEW k \in Nat
        PROVE  p[k + 1] = LeftStep(t, p[k])
    <3>1. k + 1 \in Nat /\ k + 1 # 0 /\ (k + 1) - 1 = k
      OBVIOUS
    <3> QED
      BY <2>1, <3>1
  <2> QED
    BY <2>2, <2>3
<1> DEFINE T == {k \in Nat : p[k] \in U /\ W(p[k], k)}
<1>10. T = Nat
  <2>1. T \in SUBSET Nat /\ 0 \in T
    BY <1>3, <1>9
  <2>2. \A k \in T : k + 1 \in T
    BY <1>2, <1>9
  <2> HIDE DEF T
  <2> QED
    BY <2>1, <2>2, AllNaturals
<1> DEFINE m == p[Capacity]
<1>11. W(m, Capacity) /\ m \in U
  BY <1>10, CapacityAssumption
<1> HIDE DEF m
<1>12. ~(Cardinality(B[m]) + Capacity <= Capacity)
  <2> DEFINE S == B[m]
             O == {}
  <2>1. S \in SUBSET Nodes /\ O \in SUBSET S /\ m \in S /\ m \notin O
    <3>1. m \in B[m]
      BY <1>1, <1>11 DEF Linked
    <3> QED
      BY <1>1, <1>11, <3>1
  <2> HIDE DEF S, O
  <2>2. Cardinality(O) \in Nat /\ Cardinality(S) \in Nat /\ Cardinality(O) + 1 <= Cardinality(S)
    BY <2>1, Fewer
  <2>3. ~(Cardinality(S) + Capacity <= Capacity)
    BY <2>2, CapacityAssumption
  <2> QED
    BY <2>3 DEF S
<1>13. t.child[Left][m] = NULL
  BY <1>11, <1>12 DEF W, Leftward
<1>14. ASSUME NEW y \in B[r]
       PROVE  K[m] <= K[y]
  <2>1. y \in U /\ K[y] \in Int /\ K[m] \in Int
    BY <1>1, <1>11 DEF Ordered
  <2>2. CASE y \in B[m]
    <3>1. B[m] = {m} \cup B[t.child[Right][m]] /\ B[NULL] = {}
      <4>1. B[m] = {m} \cup B[t.child[Left][m]] \cup B[t.child[Right][m]] /\ B[NULL] = {}
        BY <1>1, <1>11, LeftRight DEF Linked
      <4> QED
        BY <1>13, <4>1
    <3>2. y \in B[t.child[Right][m]] => Beyond(Right, K[m], K[y])
      BY <1>1, <1>11 DEF Ordered
    <3>3. Beyond(Right, K[m], K[y]) => K[m] <= K[y]
      BY LeftRight DEF Beyond
    <3>4. y = m => K[m] <= K[y]
      BY <2>1
    <3> QED
      BY <2>2, <3>1, <3>2, <3>3, <3>4
  <2>3. CASE y \notin B[m]
    BY <1>11, <2>3 DEF W, Leftward
  <2> QED
    BY <2>2, <2>3
<1>15. Least(t, B, K, r, m)
  BY <1>11, <1>13, <1>14 DEF W, Leftward, Least
<1> QED
  BY <1>8, <1>15 DEF m

-----------------------------------------------------------------------------
(* Node m, that lacks a child, is taken out of t.                          *)
Loses(t, v, m, x, U) ==
  /\ Spliced(t, v, m, x, U) /\ v.data = t.data /\ v.free = t.free
  /\ \A y \in U \ {m} : v.balance[y] = t.balance[y]

LEMMA SpliceOut ==
  ASSUME NEW t \in Trees, NEW U, NEW B, Linked(t, U, B), NEW m \in U, m # t.root,
         NEW s \in Sides, t.child[s][m] = NULL
  PROVE  Loses(t, Hang(Under(t, t.child[-s][m], t.parent[m]), m, t.parent[m], t.child[-s][m]),
               m, t.child[-s][m], U)
<1> DEFINE x == t.child[-s][m]
           p == t.parent[m]
           u == Under(t, x, p)
           v == Hang(u, m, p, x)
<1>1. m \in Nodes /\ x \in Links /\ p \in Links /\ U \subseteq Nodes /\ m # NULL /\ -s \in Sides
  <2>1. m \in Nodes /\ U \subseteq Nodes /\ -s \in Sides
    BY SideFacts DEF Linked
  <2> QED
    BY <2>1, Fields, SideFacts
<1>2. p \in U /\ p \in Nodes /\ \E q \in Sides : t.child[q][p] = m /\ t.child[-q][p] # m
  BY ParentFacts
<1>3. ASSUME NEW y \in U, NEW z \in Sides, t.child[z][y] = m
      PROVE  y = p
  BY <1>1, <1>3, ChildFacts
<1>4. x # m
  <2>1. CASE x = NULL
    BY <1>1, <2>1
  <2>2. CASE x # NULL
    BY <1>1, <2>2, ChildFacts
  <2> QED
    BY <2>1, <2>2
<1> HIDE DEF x, p
<1>5. /\ u \in Trees /\ u.root = t.root /\ u.data = t.data /\ u.free = t.free
      /\ u.balance = t.balance /\ u.child = t.child
      /\ \A y \in Nodes : u.parent[y] = IF y = x THEN p ELSE t.parent[y]
  BY <1>1, UnderFacts
<1> HIDE DEF u
<1>6. /\ v \in Trees /\ v.root = IF m = u.root THEN x ELSE u.root
      /\ v.parent = u.parent /\ v.balance = u.balance /\ v.data = u.data /\ v.free = u.free
      /\ \A z \in Sides, y \in Nodes :
           v.child[z][y] = IF m # u.root /\ y = p /\ u.child[z][y] = m THEN x ELSE u.child[z][y]
  BY <1>1, <1>2, <1>5, HangFacts
<1> HIDE DEF v
<1>7. /\ v.root = t.root
      /\ \A y \in U \ {m} :
           /\ v.parent[y] = IF y = x THEN p ELSE t.parent[y]
           /\ \A z \in Sides : v.child[z][y] = IF t.child[z][y] = m THEN x ELSE t.child[z][y]
  BY <1>1, <1>3, <1>5, <1>6
<1>8. Spliced(t, v, m, x, U)
  BY <1>6, <1>7 DEF Spliced, p
<1>9. Loses(t, v, m, x, U)
  BY <1>5, <1>6, <1>8 DEF Loses
<1> QED
  BY <1>9 DEF v, u, x, p

(* A node that has no child is deleted.                                    *)
LEMMA DeleteLeafFacts ==
  ASSUME NEW t, NEW U, NEW B, NEW h, NEW K, Shaped(t, U, B, h, K),
         \A x \in U : Proper(t, h, x), NEW n \in U,
         t.child[Left][n] = NULL, t.child[Right][n] = NULL
  PROVE  Kept(DeleteLeaf(t, n), U \ {n}, K, t.data, t.free)
<1>1. /\ t \in Trees /\ Linked(t, U, B) /\ Left \in Sides /\ Right \in Sides /\ -Left = Right
      /\ U \subseteq Nodes /\ NULL \notin U
  BY SideFacts, LeftRight DEF Shaped, Linked
<1>2. CASE n = t.root
  <2> DEFINE v == [t EXCEPT !.root = NULL]
  <2>1. DeleteLeaf(t, n) = v
    BY <1>2 DEF DeleteLeaf
  <2>2. v \in Trees /\ v.root = NULL /\ v.data = t.data /\ v.free = t.free
    BY <1>1 DEF Trees, Links
  <2>3. U \ {n} = {}
    <3>1. B[n] = {n} \cup B[t.child[Left][n]] \cup B[t.child[Right][n]] /\ B[NULL] = {}
          /\ B[n] = U
      BY <1>1, <1>2 DEF Linked
    <3> QED
      BY <3>1
  <2> HIDE DEF v
  <2>4. Sound(v, {}, K)
    BY <2>2, EmptySound
  <2> QED
    BY <2>1, <2>2, <2>3, <2>4 DEF Kept
<1>3. CASE n # t.root
  <2> DEFINE p == t.parent[n]
             v == Hang(Under(t, t.child[-Left][n], p), n, p, t.child[-Left][n])
             d == -SideOf(t, n)
  <2>1. DeleteLeaf(t, n) = DeleteBalance(v, p, d)
    <3>1. Under(t, t.child[-Left][n], p) = t /\ t.child[-Left][n] = NULL
      BY <1>1 DEF Under
    <3> QED
      BY <1>3, <3>1 DEF DeleteLeaf
  <2>2. Loses(t, v, n, t.child[-Left][n], U)
    BY <1>1, <1>3, SpliceOut
  <2> HIDE DEF v
  <2>3. PICK q \in Sides : p \in U /\ t.child[q][p] = n /\ t.child[-q][p] # n
    BY <1>1, <1>3, ParentFacts
  <2>4. SideOf(t, n) = q
    BY <1>1, <2>3, SideOfFacts
  <2>5. Cut(v, U \ {n}, Without(B, n), h, K, p, -q)
    <3>1. /\ Spliced(t, v, n, t.child[-Left][n], U)
          /\ \A y \in U \ {n} : v.balance[y] = t.balance[y]
      BY <2>2 DEF Loses
    <3> QED
      BY <1>1, <1>3, <2>3, <3>1, SplicedCut
  <2>6. Cut(v, U \ {n}, Without(B, n), h, K, p, d)
    BY <2>4, <2>5
  <2> HIDE DEF p, d
  <2>7. Kept(DeleteBalance(v, p, d), U \ {n}, K, v.data, v.free)
    BY <2>6, CutWalks, DeleteBalanceFacts
  <2> QED
    BY <2>1, <2>2, <2>7 DEF Loses
<1> QED
  BY <1>2, <1>3

(* Tree_Replace, when the child is a leaf.                                 *)
LEMMA ReplaceFacts ==
  ASSUME NEW t \in Trees, NEW U, U \subseteq Nodes, NEW n \in Nodes, NEW m \in Nodes,
         t.balance[m] = 0, \A z \in Sides : t.child[z][m] = NULL
  PROVE  /\ Absorbed(t, Replace(t, n, m), n, m, U)
         /\ Replace(t, n, m).data = [t.data EXCEPT ![n] = t.data[m]]
         /\ Replace(t, n, m).free = t.free
<1> DEFINE b == [t.balance EXCEPT ![n] = 0]
           D == [t.data EXCEPT ![n] = t.data[m]]
           C == [t.child EXCEPT ![Left][n] = NULL, ![Right][n] = NULL]
           v == Replace(t, n, m)
<1>1. /\ t.root \in Links /\ t.parent \in [Nodes -> Links]
      /\ t.child \in [Sides -> [Nodes -> Links]] /\ t.balance \in [Nodes -> Int]
      /\ t.data \in [Nodes -> Regions \cup {Nothing}] /\ t.free \in Seq(Nodes)
  BY Fields
<1>2. t.child[Left][m] = NULL /\ t.child[Right][m] = NULL /\ Left \in Sides /\ Right \in Sides
      /\ NULL \in Links /\ \A z \in Sides : z = Left \/ z = Right
  BY SideFacts, LeftRight DEF Links
<1>3. v = [t EXCEPT !.balance = b, !.data = D, !.child = C]
  BY <1>2 DEF Replace, Under
<1>4. b \in [Nodes -> Int] /\ \A y \in Nodes : b[y] = IF y = n THEN 0 ELSE t.balance[y]
  BY <1>1
<1>5. D \in [Nodes -> Regions \cup {Nothing}]
  BY <1>1
<1>6. /\ C \in [Sides -> [Nodes -> Links]]
      /\ \A z \in Sides, y \in Nodes : C[z][y] = IF y = n THEN NULL ELSE t.child[z][y]
  <2> DEFINE C1 == [t.child EXCEPT ![Left][n] = NULL]
  <2>1. /\ C1 \in [Sides -> [Nodes -> Links]]
        /\ \A z \in Sides, y \in Nodes : C1[z][y] = IF z = Left /\ y = n THEN NULL ELSE t.child[z][y]
    BY <1>1, <1>2, ChildSet
  <2>2. C = [C1 EXCEPT ![Right][n] = NULL]
    OBVIOUS
  <2> HIDE DEF C1, C
  <2>3. /\ C \in [Sides -> [Nodes -> Links]]
        /\ \A z \in Sides, y \in Nodes : C[z][y] = IF z = Right /\ y = n THEN NULL ELSE C1[z][y]
    BY <1>2, <2>1, <2>2, ChildSet
  <2> QED
    BY <1>2, <2>1, <2>3
<1> HIDE DEF b, D, C, v
<1>7. /\ v \in Trees /\ v.balance = b /\ v.data = D /\ v.child = C /\ v.root = t.root
      /\ v.parent = t.parent /\ v.free = t.free
  BY <1>3, <1>4, <1>5, <1>6 DEF Trees
<1>8. Absorbed(t, v, n, m, U)
  BY <1>4, <1>6, <1>7 DEF Absorbed
<1> QED
  BY <1>7, <1>8 DEF v, D

(* A node that has one child is deleted.                                   *)
Loner(t, U, B, h, K, n, q, m, K2) ==
  /\ Shaped(t, U, B, h, K) /\ (\A x \in U : Proper(t, h, x)) /\ n \in U
  /\ q \in Sides /\ t.child[q][n] # NULL /\ t.child[-q][n] = NULL /\ m = t.child[q][n]
  /\ K2[n] = K[m] /\ \A y \in U \ {n} : K2[y] = K[y]

LEMMA DeleteLoneFacts ==
  ASSUME NEW t, NEW U, NEW B, NEW h, NEW K, NEW n, NEW q, NEW m, NEW K2,
         Loner(t, U, B, h, K, n, q, m, K2)
  PROVE  Kept(DeleteBalance(Replace(t, n, m), n, 0), U \ {m}, K2,
              [t.data EXCEPT ![n] = t.data[m]], t.free)
<1> DEFINE v == Replace(t, n, m)
<1>0. /\ Shaped(t, U, B, h, K) /\ (\A x \in U : Proper(t, h, x)) /\ n \in U
      /\ q \in Sides /\ t.child[q][n] # NULL /\ t.child[-q][n] = NULL /\ m = t.child[q][n]
      /\ K2[n] = K[m] /\ \A y \in U \ {n} : K2[y] = K[y]
  BY DEF Loner
<1>1. t \in Trees /\ Linked(t, U, B) /\ U \subseteq Nodes /\ n \in Nodes
  BY <1>0 DEF Shaped, Linked
<1>2. m \in U /\ t.balance[m] = 0 /\ \A z \in Sides : t.child[z][m] = NULL
  BY <1>0, OneChild
<1>3. /\ Absorbed(t, v, n, m, U) /\ v.data = [t.data EXCEPT ![n] = t.data[m]]
      /\ v.free = t.free
  BY <1>1, <1>2, ReplaceFacts
<1> HIDE DEF v
<1>4. Cut(v, U \ {m}, Without(B, m), h, K2, n, 0)
  <2>1. Absorbed(t, v, n, t.child[q][n], U) /\ K2[n] = K[t.child[q][n]]
    BY <1>0, <1>3
  <2>2. Cut(v, U \ {t.child[q][n]}, Without(B, t.child[q][n]), h, K2, n, 0)
    BY <1>0, <2>1, AbsorbedCut
  <2> QED
    BY <1>0, <2>2
<1>5. Kept(DeleteBalance(v, n, 0), U \ {m}, K2, v.data, v.free)
  BY <1>4, CutWalks, DeleteBalanceFacts
<1> QED
  BY <1>3, <1>5 DEF v

-----------------------------------------------------------------------------
(* Who is who around a node n that has two children l and r, when m, with  *)
(* parent p and right child x, is the least node below r.                  *)
Inner(t, U, B, n, m, l, r, p, x) ==
  /\ l = t.child[Left][n] /\ r = t.child[Right][n]
  /\ p = t.parent[m] /\ x = t.child[Right][m]
  /\ n \in U /\ m \in U /\ l \in U /\ r \in U /\ p \in U /\ x \in U \cup {NULL}
  /\ m # n /\ m # l /\ m # t.root /\ l # n /\ r # n /\ l # r /\ m \in B[n]
  /\ x # n /\ x # l /\ x # r /\ x # m /\ p # m
  /\ t.parent[l] = n /\ t.parent[r] = n /\ (x # NULL => t.parent[x] = m)
  /\ (m = r => p = n) /\ (m # r => p # n /\ t.child[Left][p] = m)
  /\ t.parent[n] # n /\ t.parent[n] # m /\ t.parent[n] # p
  /\ \A y \in U : t.parent[y] = n => y = l \/ y = r
  /\ \A y \in U, z \in Sides :
       /\ t.child[z][y] = m => y = p /\ (m # r => z = Left)
       /\ t.child[z][y] = n => n # t.root /\ y = t.parent[n]

LEMMA InnerFacts ==
  ASSUME NEW t \in Trees, NEW U, NEW B, Linked(t, U, B), NEW K, NEW n \in U,
         t.child[Left][n] # NULL, t.child[Right][n] # NULL,
         NEW m, Least(t, B, K, t.child[Right][n], m)
  PROVE  Inner(t, U, B, n, m, t.child[Left][n], t.child[Right][n], t.parent[m], t.child[Right][m])
<1> DEFINE l == t.child[Left][n]
           r == t.child[Right][n]
           p == t.parent[m]
           x == t.child[Right][m]
<1>1. /\ Left \in Sides /\ Right \in Sides /\ -Left = Right /\ -Right = Left /\ Left # Right
      /\ U \subseteq Nodes /\ NULL \notin U /\ NULL \notin Nodes
      /\ \A z \in Sides : z = Left \/ z = Right
  BY SideFacts, LeftRight DEF Linked
<1>2. /\ l \in U /\ l # n /\ t.parent[l] = n /\ l # r /\ n \notin B[l] /\ l \in B[l]
      /\ r \in U /\ r # n /\ t.parent[r] = n /\ n \notin B[r] /\ r \in B[r]
      /\ B[l] \subseteq B[n] /\ B[r] \subseteq B[n] /\ r # t.root
      /\ \A y \in U, z \in Sides : t.child[z][y] = r => y = n /\ z = Right
  BY <1>1, ChildFacts
<1>3. /\ m \in B[r] /\ t.child[Left][m] = NULL
      /\ m = r \/ (p \in B[r] /\ t.child[Left][p] = m)
  BY DEF Least
<1>4. B[l] \cap B[r] = {} /\ B[r] \subseteq U /\ B[n] \subseteq U
  <2>1. B[t.child[Left][n]] \cap B[t.child[-Left][n]] = {}
    BY <1>1 DEF Linked
  <2>2. \A y \in U : B[y] \subseteq U
    BY DEF Linked, Links
  <2> QED
    BY <1>1, <1>2, <2>1, <2>2
<1>5. m \in U /\ m # n /\ m # l /\ m \in B[n] /\ m # NULL
  BY <1>1, <1>2, <1>3, <1>4
<1>6. p \in U /\ p # m /\ m # t.root /\ \A y \in U, z \in Sides : t.child[z][y] = m => y = p
  <2>1. m # t.root
    <3>1. CASE m = r
      BY <1>2, <3>1
    <3>2. CASE m # r
      BY <1>1, <1>3, <1>4, <1>5, <3>2, ChildFacts
    <3> QED
      BY <3>1, <3>2
  <2>2. /\ p \in U /\ p \notin B[m] /\ \E s \in Sides : t.child[s][p] = m /\ t.child[-s][p] # m
    BY <1>5, <2>1, ParentFacts
  <2>3. m \in B[m]
    BY <1>1, <1>5 DEF Linked
  <2> QED
    BY <1>5, <2>1, <2>2, <2>3, ChildFacts
<1>7. /\ x \in U \cup {NULL} /\ (x # NULL => t.parent[x] = m)
  BY <1>1, <1>5 DEF Linked
<1>8. x # n /\ x # l /\ x # r /\ x # m
  <2>1. CASE x = NULL
    BY <1>1, <1>2, <1>5, <2>1
  <2>2. CASE x # NULL
    <3>1. x # m /\ x \in B[x] /\ B[x] \subseteq B[m]
      BY <1>1, <1>5, <2>2, ChildFacts
    <3>2. B[m] \subseteq B[r]
      BY <1>2, <1>3, Downward
    <3> QED
      BY <1>2, <1>5, <1>7, <2>2, <3>1, <3>2
  <2> QED
    BY <2>1, <2>2
<1>9. (m = r => p = n) /\ (m # r => p # n /\ t.child[Left][p] = m)
  BY <1>2, <1>3
<1>10. ASSUME NEW y \in U, t.parent[y] = n
       PROVE  y = l \/ y = r
  <2>1. y # t.root
    BY <1>1, <1>10 DEF Linked
  <2>2. PICK z \in Sides : t.child[z][n] = y
    BY <1>10, <2>1 DEF Linked
  <2> QED
    BY <1>1, <2>2
<1>11. /\ t.parent[n] # n /\ t.parent[n] # m /\ t.parent[n] # p
       /\ \A y \in U, z \in Sides : t.child[z][y] = n => n # t.root /\ y = t.parent[n]
  <2>1. ASSUME NEW y \in U, NEW z \in Sides, t.child[z][y] = n
        PROVE  n # t.root /\ y = t.parent[n]
    BY <1>1, <2>1, ChildFacts
  <2>2. CASE n = t.root
    <3>1. t.parent[n] = NULL
      BY <1>1, <2>2 DEF Linked
    <3> QED
      BY <1>1, <1>5, <1>6, <2>1, <3>1
  <2>3. CASE n # t.root
    <3>1. t.parent[n] \in U /\ t.parent[n] \notin B[n]
      BY <2>3, ParentFacts
    <3>2. n \in B[n]
      BY <1>1 DEF Linked
    <3>3. p \in B[n]
      BY <1>2, <1>3, <1>9, <3>2
    <3> QED
      BY <1>5, <2>1, <3>1, <3>2, <3>3
  <2> QED
    BY <2>2, <2>3
<1>12. ASSUME NEW y \in U, NEW z \in Sides, t.child[z][y] = m, m # r
       PROVE  z = Left
  <2>1. t.child[Left][p] # NULL /\ t.child[Left][p] = m
    BY <1>5, <1>9, <1>12
  <2> QED
    BY <1>1, <1>6, <1>12, <2>1, ChildFacts
<1> HIDE DEF l, r, p, x
<1>13. Inner(t, U, B, n, m, l, r, p, x)
  BY <1>2, <1>5, <1>6, <1>7, <1>8, <1>9, <1>10, <1>11, <1>12 DEF Inner, l, r, p, x
<1> QED
  BY <1>13 DEF l, r, p, x

(* Node m gets the parent, the left child and the balance of n.            *)
Succeeded(t, v, n, m) ==
  /\ v \in Trees /\ v.root = (IF n = t.root THEN m ELSE t.root)
  /\ v.data = t.data /\ v.free = t.free
  /\ \A y \in Nodes :
       /\ v.balance[y] = IF y = m THEN t.balance[n] ELSE t.balance[y]
       /\ v.parent[y] = IF y = t.child[Left][n] THEN m
                        ELSE IF y = m THEN t.parent[n] ELSE t.parent[y]
       /\ \A z \in Sides :
            v.child[z][y] = IF z = Left /\ y = m THEN t.child[Left][n]
                            ELSE IF n # t.root /\ y = t.parent[n] /\ t.child[z][y] = n THEN m
                            ELSE t.child[z][y]

LEMMA SucceedFacts ==
  ASSUME NEW t \in Trees, NEW n \in Nodes, NEW m \in Nodes, m # n,
         t.child[Left][n] # n, t.parent[n] # m,
         n # t.root => /\ t.parent[n] \in Nodes
                       /\ \E s \in Sides : /\ t.child[s][t.parent[n]] = n
                                           /\ t.child[-s][t.parent[n]] # n
  PROVE  Succeeded(t, Succeed(t, n, m), n, m)
<1> DEFINE l == t.child[Left][n]
           q == t.parent[n]
           P == [t.parent EXCEPT ![m] = q]
           C == [t.child EXCEPT ![Left][m] = l]
           b == [t.balance EXCEPT ![m] = t.balance[n]]
           u == [t EXCEPT !.parent = P, !.child = C, !.balance = b]
           u2 == Under(u, l, m)
           v == Hang(u2, n, q, m)
<1>1. /\ t.root \in Links /\ t.parent \in [Nodes -> Links]
      /\ t.child \in [Sides -> [Nodes -> Links]] /\ t.balance \in [Nodes -> Int]
      /\ t.data \in [Nodes -> Regions \cup {Nothing}] /\ t.free \in Seq(Nodes)
      /\ Left \in Sides /\ Right \in Sides
  BY Fields, SideFacts
<1>2. Succeed(t, n, m) = v
  BY DEF Succeed
<1>3. l \in Links /\ q \in Links /\ m \in Links
  BY <1>1 DEF Links
<1>4. P \in [Nodes -> Links] /\ \A y \in Nodes : P[y] = IF y = m THEN q ELSE t.parent[y]
  BY <1>1, <1>3
<1>5. b \in [Nodes -> Int] /\ \A y \in Nodes : b[y] = IF y = m THEN t.balance[n] ELSE t.balance[y]
  BY <1>1
<1>6. /\ C \in [Sides -> [Nodes -> Links]]
      /\ \A z \in Sides, y \in Nodes : C[z][y] = IF z = Left /\ y = m THEN l ELSE t.child[z][y]
  BY <1>1, <1>3, ChildSet
<1>7. l # n /\ q # m /\ (n # t.root => q \in Nodes /\ \E s \in Sides : t.child[s][q] = n /\ t.child[-s][q] # n)
  OBVIOUS
<1>8. q = t.parent[n] /\ l = t.child[Left][n]
  OBVIOUS
<1> HIDE DEF P, C, b, l, q
<1>9. /\ u \in Trees /\ u.parent = P /\ u.child = C /\ u.balance = b /\ u.root = t.root
      /\ u.data = t.data /\ u.free = t.free
  BY <1>4, <1>5, <1>6 DEF Trees
<1> HIDE DEF u
<1>10. /\ u2 \in Trees /\ u2.root = u.root /\ u2.data = u.data /\ u2.free = u.free
       /\ u2.balance = u.balance /\ u2.child = u.child
       /\ \A y \in Nodes : u2.parent[y] = IF y = l THEN m ELSE u.parent[y]
  <2>1. l \in Links /\ m \in Links /\ u \in Trees
    BY <1>3, <1>9
  <2> QED
    BY <2>1, UnderFacts
<1> HIDE DEF u2
<1>11. n # u2.root => q \in Nodes /\ \E s \in Sides : u2.child[s][q] = n /\ u2.child[-s][q] # n
  <2> SUFFICES ASSUME n # u2.root
               PROVE  q \in Nodes /\ \E s \in Sides : u2.child[s][q] = n /\ u2.child[-s][q] # n
    OBVIOUS
  <2>1. PICK s \in Sides : q \in Nodes /\ t.child[s][q] = n /\ t.child[-s][q] # n
    BY <1>7, <1>9, <1>10
  <2>2. -s \in Sides
    BY SideFacts
  <2> QED
    BY <1>6, <1>7, <1>9, <1>10, <2>1, <2>2
<1>12. /\ v \in Trees /\ v.root = IF n = u2.root THEN m ELSE u2.root
       /\ v.parent = u2.parent /\ v.balance = u2.balance /\ v.data = u2.data
       /\ v.free = u2.free
       /\ \A z \in Sides, y \in Nodes :
            v.child[z][y] = IF n # u2.root /\ y = q /\ u2.child[z][y] = n
                            THEN m ELSE u2.child[z][y]
  BY <1>3, <1>10, <1>11, HangFacts
<1> HIDE DEF v
<1>13. \A y \in Nodes :
         /\ v.balance[y] = IF y = m THEN t.balance[n] ELSE t.balance[y]
         /\ v.parent[y] = IF y = l THEN m ELSE IF y = m THEN q ELSE t.parent[y]
  BY <1>4, <1>5, <1>9, <1>10, <1>12
<1>14. \A y \in Nodes, z \in Sides :
         v.child[z][y] = IF z = Left /\ y = m THEN l
                         ELSE IF n # t.root /\ y = q /\ t.child[z][y] = n THEN m
                         ELSE t.child[z][y]
  BY <1>6, <1>7, <1>9, <1>10, <1>12
<1>15. Succeeded(t, v, n, m)
  BY <1>8, <1>9, <1>10, <1>12, <1>13, <1>14 DEF Succeeded
<1> QED
  BY <1>2, <1>15

(* Node m stands in for n in w, as it does when n is deleted.              *)
Stands(t, v, w, n, m, U) ==
  Swapped(v, w, n, m, U \ {m}) /\ w.data = t.data /\ w.free = t.free

(* The successor is the right child.                                       *)
LEMMA NearSwapped ==
  ASSUME NEW t \in Trees, NEW U, NEW B, Linked(t, U, B), NEW n, NEW m, NEW l, NEW r, NEW p, NEW x,
         Inner(t, U, B, n, m, l, r, p, x), m = r, NEW v, Loses(t, v, m, x, U)
  PROVE  Stands(t, v, Succeed(t, n, m), n, m, U)
<1> DEFINE w == Succeed(t, n, m)
           R(y) == Instead(n, m, y)
<1>1. /\ U \subseteq Nodes /\ Left \in Sides /\ Right \in Sides /\ NULL \notin U
      /\ \A z \in Sides : z = Left \/ z = Right
      /\ Left # Right
  BY SMTT(20), SideFacts, LeftRight DEF Linked
<1>2. /\ l = t.child[Left][n] /\ r = t.child[Right][n]
      /\ p = t.parent[m] /\ x = t.child[Right][m]
      /\ n \in U /\ m \in U /\ l \in U /\ r \in U /\ p \in U /\ x \in U \cup {NULL}
      /\ m # n /\ m # l /\ m # t.root /\ l # n
      /\ x # n /\ x # l /\ x # m
      /\ (x # NULL => t.parent[x] = m)
      /\ p = n
      /\ t.parent[n] # n /\ t.parent[n] # m
      /\ \A y \in U : t.parent[y] = n => y = l \/ y = m
      /\ \A y \in U, z \in Sides :
           /\ t.child[z][y] = m => y = n
           /\ t.child[z][y] = n => n # t.root /\ y = t.parent[n]
      /\ t.parent[l] = n
  BY SMTT(20) DEF Inner
<1>3. n \in Nodes /\ m \in Nodes
  BY SMTT(20), <1>1, <1>2
<1>4. n # t.root => /\ t.parent[n] \in Nodes
                    /\ \E s \in Sides : /\ t.child[s][t.parent[n]] = n
                                        /\ t.child[-s][t.parent[n]] # n
  <2> SUFFICES ASSUME n # t.root
               PROVE  /\ t.parent[n] \in Nodes
                      /\ \E s \in Sides : /\ t.child[s][t.parent[n]] = n
                                          /\ t.child[-s][t.parent[n]] # n
    OBVIOUS
  <2> QED
    BY SMTT(20), <1>2, ParentFacts
<1>5. Succeeded(t, w, n, m)
  <2>1. t.child[Left][n] # n /\ t.parent[n] # m /\ m # n
    BY SMTT(20), <1>2
  <2> QED
    BY <1>3, <1>4, <2>1, SucceedFacts
<1> HIDE DEF w
<1>6. /\ w \in Trees /\ w.root = (IF n = t.root THEN m ELSE t.root)
      /\ w.data = t.data /\ w.free = t.free
      /\ \A y \in U :
           /\ w.balance[y] = IF y = m THEN t.balance[n] ELSE t.balance[y]
           /\ w.parent[y] = IF y = l THEN m ELSE IF y = m THEN t.parent[n] ELSE t.parent[y]
           /\ \A z \in Sides :
                w.child[z][y] = IF z = Left /\ y = m THEN l
                                ELSE IF n # t.root /\ y = t.parent[n] /\ t.child[z][y] = n THEN m
                                ELSE t.child[z][y]
  BY SMTT(20), <1>1, <1>2, <1>5 DEF Succeeded
<1>7. /\ v.root = t.root
      /\ \A y \in U \ {m} :
           /\ v.balance[y] = t.balance[y]
           /\ v.parent[y] = IF y = x THEN n ELSE t.parent[y]
           /\ \A z \in Sides : v.child[z][y] = IF t.child[z][y] = m THEN x ELSE t.child[z][y]
  BY <1>2 DEF Loses, Spliced
<1>8. ASSUME NEW y \in U \ {m}
      PROVE  /\ w.parent[R(y)] = R(v.parent[y]) /\ w.balance[R(y)] = v.balance[y]
             /\ \A z \in Sides : w.child[z][R(y)] = R(v.child[z][y])
  <2>1. CASE y = n
    <3>1. R(y) = m
      BY SMTT(20), <2>1 DEF Instead
    <3>2. w.parent[m] = R(v.parent[n]) /\ w.balance[m] = v.balance[n]
      BY SMTT(20), <1>2, <1>6, <1>7 DEF Instead
    <3>3. w.child[Left][m] = R(v.child[Left][n])
      BY SMTT(20), <1>1, <1>2, <1>6, <1>7 DEF Instead
    <3>4. w.child[Right][m] = R(v.child[Right][n])
      BY SMTT(20), <1>1, <1>2, <1>6, <1>7 DEF Instead
    <3> QED
      BY <1>1, <2>1, <3>1, <3>2, <3>3, <3>4
  <2>2. CASE y # n
    <3>1. R(y) = y
      BY <2>2 DEF Instead
    <3>2. w.balance[y] = v.balance[y]
      BY <1>6, <1>7
    <3>3. w.parent[y] = R(v.parent[y])
      <4>1. CASE y = x
        BY SMTT(20), <1>1, <1>2, <1>6, <1>7, <4>1 DEF Instead
      <4>2. CASE y = l
        BY SMTT(20), <1>2, <1>6, <1>7, <4>2 DEF Instead
      <4>3. CASE y # x /\ y # l
        BY SMTT(20), <1>2, <1>6, <1>7, <4>3 DEF Instead
      <4> QED
        BY SMTT(20), <4>1, <4>2, <4>3
    <3>4. ASSUME NEW z \in Sides
          PROVE  w.child[z][y] = R(v.child[z][y])
      <4>1. t.child[z][y] # m
        BY <1>2, <2>2
      <4>2. v.child[z][y] = t.child[z][y]
        BY <1>7, <4>1
      <4>3. w.child[z][y] = IF n # t.root /\ y = t.parent[n] /\ t.child[z][y] = n THEN m
                            ELSE t.child[z][y]
        BY <1>6
      <4> QED
        BY <1>2, <4>2, <4>3 DEF Instead
    <3> QED
      BY <3>1, <3>2, <3>3, <3>4
  <2> QED
    BY <2>1, <2>2
<1>9. w.root = R(v.root)
  BY <1>6, <1>7 DEF Instead
<1>10. Swapped(v, w, n, m, U \ {m})
  BY <1>6, <1>8, <1>9 DEF Swapped
<1> QED
  BY <1>6, <1>10 DEF Stands, w

(* The successor is further down: it leaves its place to its right child   *)
(* and gets the right child of n first.                                    *)
Detached(t, m, r, p, x) ==
  Under([t EXCEPT !.child = [@ EXCEPT ![Left][p] = x, ![Right][m] = r], !.parent[r] = m],
        x, p)

Detaches(t, u, m, r, p, x) ==
  /\ u \in Trees /\ u.root = t.root /\ u.data = t.data /\ u.free = t.free
  /\ u.balance = t.balance
  /\ \A y \in Nodes :
       /\ u.parent[y] = IF y = x THEN p ELSE IF y = r THEN m ELSE t.parent[y]
       /\ u.child[Left][y] = IF y = p THEN x ELSE t.child[Left][y]
       /\ u.child[Right][y] = IF y = m THEN r ELSE t.child[Right][y]

LEMMA DetachedFacts ==
  ASSUME NEW t \in Trees, NEW m \in Nodes, NEW r \in Nodes, NEW p \in Nodes, NEW x \in Links
  PROVE  Detaches(t, Detached(t, m, r, p, x), m, r, p, x)
<1> DEFINE P == [t.parent EXCEPT ![r] = m]
           C1 == [t.child EXCEPT ![Left][p] = x]
           C == [C1 EXCEPT ![Right][m] = r]
           u1 == [t EXCEPT !.child = C, !.parent = P]
           u == Under(u1, x, p)
<1>1. /\ t.root \in Links /\ t.parent \in [Nodes -> Links]
      /\ t.child \in [Sides -> [Nodes -> Links]] /\ t.balance \in [Nodes -> Int]
      /\ t.data \in [Nodes -> Regions \cup {Nothing}] /\ t.free \in Seq(Nodes)
      /\ Left \in Sides /\ Right \in Sides /\ Left # Right
      /\ m \in Links /\ r \in Links /\ p \in Links
  BY Fields, SideFacts, LeftRight DEF Links
<1>2. Detached(t, m, r, p, x) = u
  BY DEF Detached
<1>3. P \in [Nodes -> Links] /\ \A y \in Nodes : P[y] = IF y = r THEN m ELSE t.parent[y]
  BY <1>1
<1>4. /\ C1 \in [Sides -> [Nodes -> Links]]
      /\ \A z \in Sides, y \in Nodes : C1[z][y] = IF z = Left /\ y = p THEN x ELSE t.child[z][y]
  BY <1>1, ChildSet
<1> HIDE DEF C1
<1>5. /\ C \in [Sides -> [Nodes -> Links]]
      /\ \A z \in Sides, y \in Nodes : C[z][y] = IF z = Right /\ y = m THEN r ELSE C1[z][y]
  BY <1>1, <1>4, ChildSet
<1> HIDE DEF C, P
<1>6. /\ u1 \in Trees /\ u1.child = C /\ u1.parent = P /\ u1.root = t.root
      /\ u1.balance = t.balance /\ u1.data = t.data /\ u1.free = t.free
  BY <1>3, <1>5 DEF Trees
<1> HIDE DEF u1
<1>7. /\ u \in Trees /\ u.root = u1.root /\ u.data = u1.data /\ u.free = u1.free
      /\ u.balance = u1.balance /\ u.child = u1.child
      /\ \A y \in Nodes : u.parent[y] = IF y = x THEN p ELSE u1.parent[y]
  <2>1. u1 \in Trees /\ p \in Links
    BY <1>1, <1>6
  <2> QED
    BY <2>1, UnderFacts
<1> HIDE DEF u
<1>8. \A y \in Nodes :
        /\ u.parent[y] = IF y = x THEN p ELSE IF y = r THEN m ELSE t.parent[y]
        /\ u.child[Left][y] = IF y = p THEN x ELSE t.child[Left][y]
        /\ u.child[Right][y] = IF y = m THEN r ELSE t.child[Right][y]
  BY <1>1, <1>3, <1>4, <1>5, <1>6, <1>7
<1>9. Detaches(t, u, m, r, p, x)
  BY <1>6, <1>7, <1>8 DEF Detaches
<1> QED
  BY <1>2, <1>9

LEMMA FarSwapped ==
  ASSUME NEW t \in Trees, NEW U, NEW B, Linked(t, U, B), NEW n, NEW m, NEW l, NEW r, NEW p, NEW x,
         Inner(t, U, B, n, m, l, r, p, x), m # r, NEW v, Loses(t, v, m, x, U)
  PROVE  Stands(t, v, Succeed(Detached(t, m, r, p, x), n, m), n, m, U)
<1> DEFINE u == Detached(t, m, r, p, x)
           w == Succeed(u, n, m)
           R(y) == Instead(n, m, y)
<1>1. /\ U \subseteq Nodes /\ Left \in Sides /\ Right \in Sides /\ NULL \notin U
      /\ \A z \in Sides : z = Left \/ z = Right
      /\ Left # Right /\ -Left = Right /\ -Right = Left
  BY SideFacts, LeftRight DEF Linked
<1>2. /\ l = t.child[Left][n] /\ r = t.child[Right][n]
      /\ p = t.parent[m]
      /\ n \in U /\ m \in U /\ l \in U /\ r \in U /\ p \in U /\ x \in U \cup {NULL}
      /\ m # n /\ m # l /\ l # n /\ r # n /\ l # r
      /\ x # n /\ x # l /\ x # m
      /\ t.parent[l] = n /\ t.parent[r] = n
      /\ p # n
      /\ t.parent[n] # n /\ t.parent[n] # m /\ t.parent[n] # p
      /\ \A y \in U : t.parent[y] = n => y = l \/ y = r
      /\ t.child[Left][p] = m
      /\ \A y \in U, z \in Sides :
           /\ t.child[z][y] = m => y = p /\ z = Left
           /\ t.child[z][y] = n => n # t.root /\ y = t.parent[n]
  BY DEF Inner
<1>3. n \in Nodes /\ m \in Nodes /\ r \in Nodes /\ p \in Nodes /\ x \in Links
  BY <1>1, <1>2 DEF Links
<1>4. Detaches(t, u, m, r, p, x)
  BY <1>3, DetachedFacts
<1> HIDE DEF u
<1>5. /\ u \in Trees /\ u.root = t.root /\ u.data = t.data /\ u.free = t.free
      /\ u.balance = t.balance
      /\ \A y \in U :
           /\ u.parent[y] = IF y = x THEN p ELSE IF y = r THEN m ELSE t.parent[y]
           /\ u.child[Left][y] = IF y = p THEN x ELSE t.child[Left][y]
           /\ u.child[Right][y] = IF y = m THEN r ELSE t.child[Right][y]
  BY <1>1, <1>4 DEF Detaches
<1>6. u.child[Left][n] = l /\ u.parent[n] = t.parent[n]
  BY <1>2, <1>5
<1>7. n # u.root => /\ u.parent[n] \in Nodes
                    /\ \E s \in Sides : /\ u.child[s][u.parent[n]] = n
                                        /\ u.child[-s][u.parent[n]] # n
  <2> SUFFICES ASSUME n # t.root
               PROVE  /\ t.parent[n] \in Nodes
                      /\ \E s \in Sides : /\ u.child[s][t.parent[n]] = n
                                          /\ u.child[-s][t.parent[n]] # n
    BY <1>5, <1>6
  <2>1. PICK s \in Sides : /\ t.parent[n] \in U /\ t.child[s][t.parent[n]] = n
                           /\ t.child[-s][t.parent[n]] # n
    BY <1>2, ParentFacts
  <2>2. \A z \in Sides : u.child[z][t.parent[n]] = t.child[z][t.parent[n]]
    BY <1>1, <1>2, <1>5, <2>1
  <2>3. -s \in Sides
    BY <1>1
  <2> QED
    BY <1>1, <2>1, <2>2, <2>3
<1>8. Succeeded(u, w, n, m)
  <2>1. u.child[Left][n] # n /\ u.parent[n] # m /\ m # n
    BY <1>2, <1>6
  <2> QED
    BY <1>3, <1>5, <1>7, <2>1, SucceedFacts
<1> HIDE DEF w
<1>9. /\ w \in Trees /\ w.root = (IF n = t.root THEN m ELSE t.root)
      /\ w.data = t.data /\ w.free = t.free
      /\ \A y \in U :
           /\ w.balance[y] = IF y = m THEN t.balance[n] ELSE t.balance[y]
           /\ w.parent[y] = IF y = l THEN m ELSE IF y = m THEN t.parent[n] ELSE u.parent[y]
           /\ \A z \in Sides :
                w.child[z][y] = IF z = Left /\ y = m THEN l
                                ELSE IF n # t.root /\ y = t.parent[n] /\ u.child[z][y] = n THEN m
                                ELSE u.child[z][y]
  BY <1>1, <1>5, <1>6, <1>8 DEF Succeeded
<1>10. /\ v.root = t.root
       /\ \A y \in U \ {m} :
            /\ v.balance[y] = t.balance[y]
            /\ v.parent[y] = IF y = x THEN p ELSE t.parent[y]
            /\ \A z \in Sides : v.child[z][y] = IF t.child[z][y] = m THEN x ELSE t.child[z][y]
  BY <1>2 DEF Loses, Spliced
<1>11. ASSUME NEW y \in U \ {m}
       PROVE  /\ w.parent[R(y)] = R(v.parent[y]) /\ w.balance[R(y)] = v.balance[y]
              /\ \A z \in Sides : w.child[z][R(y)] = R(v.child[z][y])
  <2>1. CASE y = n
    <3>1. R(y) = m
      BY <2>1 DEF Instead
    <3>2. w.parent[m] = R(v.parent[n]) /\ w.balance[m] = v.balance[n]
      BY <1>2, <1>9, <1>10 DEF Instead
    <3>3. w.child[Left][m] = R(v.child[Left][n])
      BY <1>1, <1>2, <1>9, <1>10 DEF Instead
    <3>4. w.child[Right][m] = R(v.child[Right][n])
      <4>1. u.child[Right][m] = r /\ v.child[Right][n] = r
        BY <1>1, <1>2, <1>5, <1>10
      <4> QED
        BY <1>1, <1>2, <1>9, <4>1 DEF Instead
    <3> QED
      BY <1>1, <2>1, <3>1, <3>2, <3>3, <3>4
  <2>2. CASE y # n
    <3>1. R(y) = y
      BY <2>2 DEF Instead
    <3>2. w.balance[y] = v.balance[y]
      BY <1>9, <1>10
    <3>3. w.parent[y] = R(v.parent[y])
      <4>1. CASE y = x
        BY <1>1, <1>2, <1>5, <1>9, <1>10, <4>1 DEF Instead
      <4>2. CASE y = l
        BY <1>2, <1>9, <1>10, <4>2 DEF Instead
      <4>3. CASE y # x /\ y # l
        BY <1>2, <1>5, <1>9, <1>10, <4>3 DEF Instead
      <4> QED
        BY <4>1, <4>2, <4>3
    <3>4. ASSUME NEW z \in Sides
          PROVE  w.child[z][y] = R(v.child[z][y])
      <4>1. u.child[z][y] = v.child[z][y]
        <5>1. CASE z = Left
          BY <1>2, <1>5, <1>10, <5>1
        <5>2. CASE z = Right
          BY <1>1, <1>2, <1>5, <1>10, <5>2
        <5> QED
          BY <1>1, <5>1, <5>2
      <4>2. w.child[z][y] = IF n # t.root /\ y = t.parent[n] /\ u.child[z][y] = n THEN m
                            ELSE u.child[z][y]
        BY <1>9
      <4>3. u.child[z][y] = n => n # t.root /\ y = t.parent[n]
        <5>1. v.child[z][y] = IF t.child[z][y] = m THEN x ELSE t.child[z][y]
          BY <1>10
        <5>2. t.child[z][y] = n => n # t.root /\ y = t.parent[n]
          BY <1>2
        <5>3. x # n
          BY <1>2
        <5> QED
          BY <4>1, <5>1, <5>2, <5>3
      <4> QED
        BY <4>1, <4>2, <4>3 DEF Instead
    <3> QED
      BY <3>1, <3>2, <3>3, <3>4
  <2> QED
    BY <2>1, <2>2
<1>12. w.root = R(v.root)
  BY <1>9, <1>10 DEF Instead
<1>13. Swapped(v, w, n, m, U \ {m})
  BY <1>9, <1>11, <1>12 DEF Swapped
<1> QED
  BY <1>9, <1>13 DEF Stands, w, u

(* The successor's key fits where n is, when the successor is gone.        *)
LEMMA SuccessorRekeyed ==
  ASSUME NEW t \in Trees, NEW U, NEW B, Linked(t, U, B), NEW K, Ordered(t, U, B, K),
         NEW n, NEW m, NEW l, NEW r, NEW p, NEW x,
         Inner(t, U, B, n, m, l, r, p, x), Least(t, B, K, r, m),
         NEW v, Loses(t, v, m, x, U), Linked(v, U \ {m}, Without(B, m)),
         NEW K2, K2[n] = K[m], \A y \in U \ {n} : K2[y] = K[y]
  PROVE  Rekeyed(v, U \ {m}, Without(B, m), K, K2, n)
<1>1. /\ Left \in Sides /\ Right \in Sides /\ -Left = Right /\ Left # Right
      /\ \A z \in Sides : z = Left \/ z = Right
      /\ B \in [Links -> SUBSET U] /\ U \subseteq Links
  BY SideFacts, LeftRight DEF Linked, Links
<1>2. /\ n \in U \ {m} /\ m \in U /\ m \in B[n] /\ l = t.child[Left][n] /\ r = t.child[Right][n]
      /\ t.child[Left][m] = NULL /\ x = t.child[-Left][m] /\ Spliced(t, v, m, x, U)
      /\ m \in B[r] /\ \A y \in B[r] : K[m] <= K[y]
  BY <1>1 DEF Inner, Least, Loses
<1>3. Fits(v, U \ {m}, Without(B, m), K, n, K[m])
  BY <1>1, <1>2, SplicedFits
<1>4. K[m] \in Int /\ K[n] \in Int
  BY <1>2 DEF Ordered
<1>5. ASSUME NEW z \in Sides, NEW y \in Without(B, m)[v.child[z][n]]
      PROVE  Beyond(z, K[m], K[y])
  <2>1. v.child[z][n] \in Links
    <3>1. v.child[z][n] \in (U \ {m}) \cup {NULL}
      BY SMTT(20), <1>2 DEF Linked
    <3> QED
      BY SMTT(20), <1>1, <3>1 DEF Links
  <2>2. y \in B[t.child[z][n]]
    <3>1. y \in B[v.child[z][n]] \ {m}
      BY <1>5, <2>1 DEF Without
    <3>2. Spliced(t, v, m, t.child[-Left][m], U)
      BY <1>2
    <3>3. B[v.child[z][n]] \ {m} = B[t.child[z][n]] \ {m}
      BY SMTT(20), <1>1, <1>2, <3>2, SplicedChildren
    <3> QED
      BY <3>1, <3>3
  <2>3. t.child[z][n] \in Links
    BY SMTT(20), <1>1, <1>2 DEF Linked, Links
  <2>4. y \in U /\ K[y] \in Int
    <3>1. y \in U
      BY <1>1, <2>2, <2>3
    <3> QED
      BY <3>1 DEF Ordered
  <2>5. CASE z = Left
    <3>1. Beyond(Left, K[n], K[y]) /\ Beyond(Right, K[n], K[m])
      BY <1>1, <1>2, <2>2, <2>5 DEF Ordered
    <3> QED
      BY <1>1, <1>4, <2>4, <2>5, <3>1 DEF Beyond
  <2>6. CASE z = Right
    BY <1>1, <1>2, <2>2, <2>6 DEF Beyond
  <2> QED
    BY <1>1, <2>5, <2>6
<1> QED
  BY <1>2, <1>3, <1>4, <1>5 DEF Rekeyed

LEMMA CutRekeyed ==
  ASSUME NEW v, NEW U, NEW B, NEW h, NEW K, NEW p, NEW d, Cut(v, U, B, h, K, p, d),
         NEW n \in U, NEW K2, Rekeyed(v, U, B, K, K2, n)
  PROVE  Cut(v, U, B, h, K2, p, d)
<1>1. Shaped(v, U, B, h, K)
  BY DEF Cut
<1>2. Shaped(v, U, B, h, K2)
  BY <1>1, RekeyedOrdered DEF Shaped
<1> QED
  BY <1>2 DEF Cut

(* A node that has two children is deleted.                                *)
LEMMA DeleteInnerFacts ==
  ASSUME NEW t, NEW U, NEW B, NEW h, NEW K, Shaped(t, U, B, h, K),
         \A x \in U : Proper(t, h, x), NEW n \in U,
         t.child[Left][n] # NULL, t.child[Right][n] # NULL
  PROVE  Kept(DeleteInner(t, n), U \ {n}, K, t.data, t.free)
<1> DEFINE l == t.child[Left][n]
           r == t.child[Right][n]
           m == Leftmost(t, r)
           p == t.parent[m]
           x == t.child[Right][m]
           w == IF m = r THEN Succeed(t, n, m) ELSE Succeed(Detached(t, m, r, p, x), n, m)
           q == IF m = r THEN Right ELSE Left
           a == Instead(n, m, p)
           v == Hang(Under(t, t.child[-Left][m], p), m, p, t.child[-Left][m])
           K2 == [y \in U |-> IF y = n THEN K[m] ELSE K[y]]
           V == U \ {m}
           C == Without(B, m)
<1>1. /\ t \in Trees /\ Linked(t, U, B) /\ Ordered(t, U, B, K) /\ U \subseteq Nodes
      /\ Left \in Sides /\ Right \in Sides /\ -Left = Right /\ -Right = Left
  BY SideFacts, LeftRight DEF Shaped, Linked
<1>2. Least(t, B, K, r, m)
  <2>1. r \in U
    BY <1>1 DEF Linked
  <2> QED
    BY <1>1, <2>1, LeftmostFacts
<1> HIDE DEF m
<1>3. Inner(t, U, B, n, m, l, r, p, x)
  BY <1>1, <1>2, InnerFacts
<1>4. /\ n \in V /\ m \in U /\ m # t.root /\ t.child[Left][m] = NULL /\ x = t.child[-Left][m]
      /\ q \in Sides /\ t.child[q][p] = m /\ m \in Nodes /\ m \notin V
      /\ (m = r => p = n) /\ (m # r => p # n)
  BY <1>1, <1>2, <1>3 DEF Inner, Least
<1>5. DeleteInner(t, n) = DeleteBalance(w, a, -q)
  <2>1. CASE m = r
    BY SMTT(20), <1>1, <1>4, <2>1 DEF DeleteInner, m, Instead
  <2>2. CASE m # r
    BY <1>1, <1>4, <2>2 DEF DeleteInner, m, Instead, Detached
  <2> QED
    BY <2>1, <2>2
<1>6. Loses(t, v, m, x, U)
  <2>1. Loses(t, v, m, t.child[-Left][m], U)
    BY <1>1, <1>4, SpliceOut
  <2> QED
    BY <1>4, <2>1
<1> HIDE DEF v
<1>7. Stands(t, v, w, n, m, U)
  <2>1. CASE m = r
    <3>1. Stands(t, v, Succeed(t, n, m), n, m, U)
      BY <1>1, <1>3, <1>6, <2>1, NearSwapped
    <3> QED
      BY <2>1, <3>1
  <2>2. CASE m # r
    <3>1. Stands(t, v, Succeed(Detached(t, m, r, p, x), n, m), n, m, U)
      BY <1>1, <1>3, <1>6, <2>2, FarSwapped
    <3> QED
      BY <2>2, <3>1
  <2> QED
    BY <2>1, <2>2
<1> HIDE DEF w, q, l, r
<1>8. Cut(v, V, C, h, K, p, -q)
  <2>1. Spliced(t, v, m, t.child[-Left][m], U) /\ \A y \in U \ {m} : v.balance[y] = t.balance[y]
    BY <1>4, <1>6 DEF Loses
  <2> QED
    BY <1>1, <1>4, <2>1, SplicedCut
<1>9. Rekeyed(v, V, C, K, K2, n)
  <2>1. Linked(v, V, C)
    BY <1>8 DEF Cut, Shaped
  <2>2. K2[n] = K[m] /\ \A y \in U \ {n} : K2[y] = K[y]
    OBVIOUS
  <2> HIDE DEF K2
  <2> QED
    BY <1>1, <1>2, <1>3, <1>6, <2>1, <2>2, SuccessorRekeyed
<1>10. K[m] = K2[n] /\ \A y \in V \ {n} : K[y] = K2[y]
  OBVIOUS
<1> HIDE DEF p, x, K2, V, C
<1>11. Cut(v, V, C, h, K2, p, -q)
  BY <1>4, <1>8, <1>9, CutRekeyed
<1>12. PICK D, g : Cut(w, (V \ {n}) \cup {m}, D, g, K, a, -q)
  <2>1. Swapped(v, w, n, m, V)
    BY <1>7 DEF Stands, V
  <2>2. \E D, g : Cut(w, (V \ {n}) \cup {m}, D, g, K, Instead(n, m, p), -q)
    BY <1>4, <1>10, <1>11, <2>1, SwappedCut
  <2> QED
    BY <2>2
<1>13. (V \ {n}) \cup {m} = U \ {n}
  BY <1>4 DEF V
<1>14. Cut(w, U \ {n}, D, g, K, a, -q)
  BY <1>12, <1>13
<1> HIDE DEF a
<1>15. Kept(DeleteBalance(w, a, -q), U \ {n}, K, w.data, w.free)
  BY <1>14, CutWalks, DeleteBalanceFacts
<1> QED
  BY <1>5, <1>7, <1>15 DEF Stands

-----------------------------------------------------------------------------
(* Only the keys of the nodes matter.                                      *)
LEMMA SameKeys ==
  ASSUME NEW t, NEW U, NEW K, Sound(t, U, K), NEW K2, \A x \in U : K2[x] = K[x]
  PROVE  Sound(t, U, K2)
<1>1. PICK B, h : Shaped(t, U, B, h, K) /\ \A x \in U : Proper(t, h, x)
  BY DEF Sound
<1>2. \A x \in U, z \in Sides : B[t.child[z][x]] \subseteq U
  BY <1>1 DEF Shaped, Linked, Links
<1>3. Ordered(t, U, B, K2)
  BY <1>1, <1>2 DEF Shaped, Ordered
<1>4. Shaped(t, U, B, h, K2)
  BY <1>1, <1>3 DEF Shaped
<1> QED
  BY <1>1, <1>4 DEF Sound

(* The stack of unused nodes is no part of the tree.                       *)
LEMMA Restocked ==
  ASSUME NEW t, NEW U, NEW K, NEW D, NEW F, Kept(t, U, K, D, F), NEW G \in Seq(Nodes)
  PROVE  Kept([t EXCEPT !.free = G], U, K, D, G)
<1> DEFINE v == [t EXCEPT !.free = G]
<1>1. PICK B, h : Shaped(t, U, B, h, K) /\ \A x \in U : Proper(t, h, x)
  BY DEF Kept, Sound
<1>2. /\ v \in Trees /\ v.root = t.root /\ v.parent = t.parent /\ v.child = t.child
      /\ v.balance = t.balance /\ v.data = t.data /\ v.free = G
  BY <1>1 DEF Shaped, Trees
<1> HIDE DEF v
<1>3. Linked(v, U, B) /\ Ordered(v, U, B, K) /\ Heights(h)
  BY <1>1, <1>2 DEF Shaped, Linked, Ordered
<1>4. \A x \in U : Proper(v, h, x)
  BY <1>1, <1>2 DEF Proper
<1>5. Sound(v, U, K)
  BY <1>2, <1>3, <1>4 DEF Sound, Shaped
<1>6. Kept(v, U, K, D, G)
  BY <1>2, <1>5 DEF Kept
<1> QED
  BY <1>6 DEF v

(* The child of a node that has one, and the node that a deletion frees.   *)
Lone(t, n) == (t.child[Left][n] = NULL) # (t.child[Right][n] = NULL)

Only(t, n) == IF t.child[Left][n] = NULL THEN t.child[Right][n] ELSE t.child[Left][n]

Freed(t, n) == IF Lone(t, n) THEN Only(t, n) ELSE n

(* The regions in the nodes after a deletion.                              *)
Remaining(t, n) ==
  IF Lone(t, n) THEN [t.data EXCEPT ![n] = t.data[Only(t, n)]] ELSE t.data

(* Tree_DeleteNode takes out a node, or rather what is in it, and leaves a *)
(* search tree in balance.                                                 *)
Deleted(t, v, n, U, K2) ==
  /\ Kept(v, U \ {Freed(t, n)}, K2, Remaining(t, n), Append(t.free, Freed(t, n)))
  /\ Freed(t, n) \in U /\ (Lone(t, n) => Freed(t, n) # n)

LEMMA TreeDeleteFacts ==
  ASSUME NEW t, NEW U, NEW K, Sound(t, U, K), NEW n \in U, NEW K2,
         \A y \in U \ {Freed(t, n)} :
            K2[y] = IF y = n THEN K[IF Lone(t, n) THEN Only(t, n) ELSE n] ELSE K[y]
  PROVE  Deleted(t, TreeDelete(t, n), n, U, K2)
<1> DEFINE l == t.child[Left][n]
           r == t.child[Right][n]
           m == Freed(t, n)
           D == Remaining(t, n)
           t1 == CASE l = NULL /\ r = NULL -> DeleteLeaf(t, n)
                   [] l # NULL /\ r # NULL -> DeleteInner(t, n)
                   [] OTHER -> DeleteBalance(Replace(t, n, Only(t, n)), n, 0)
<1>1. PICK B, h : Shaped(t, U, B, h, K) /\ \A x \in U : Proper(t, h, x)
  BY DEF Sound
<1>2. /\ t \in Trees /\ Linked(t, U, B) /\ Left \in Sides /\ Right \in Sides /\ -Left = Right
      /\ -Right = Left /\ U \subseteq Nodes /\ t.free \in Seq(Nodes)
  BY <1>1, SideFacts, LeftRight, Fields DEF Shaped, Linked
<1>3. /\ Kept(t1, U \ {m}, K2, D, t.free) /\ m \in U /\ (Lone(t, n) => m # n)
  <2>1. CASE l = NULL /\ r = NULL
    <3>1. t1 = DeleteLeaf(t, n) /\ m = n /\ D = t.data /\ ~Lone(t, n)
      BY <2>1 DEF Freed, Lone, Remaining
    <3>2. Kept(DeleteLeaf(t, n), U \ {n}, K, t.data, t.free)
      BY <1>1, <2>1, DeleteLeafFacts
    <3>3. \A y \in U \ {n} : K2[y] = K[y]
      BY <3>1
    <3>4. Sound(DeleteLeaf(t, n), U \ {n}, K2)
      BY <3>2, <3>3, SameKeys DEF Kept
    <3> HIDE DEF t1, m, D
    <3> QED
      BY <3>1, <3>2, <3>4 DEF Kept
  <2>2. CASE l # NULL /\ r # NULL
    <3>1. t1 = DeleteInner(t, n) /\ m = n /\ D = t.data /\ ~Lone(t, n)
      BY <2>2 DEF Freed, Lone, Remaining
    <3>2. Kept(DeleteInner(t, n), U \ {n}, K, t.data, t.free)
      BY <1>1, <2>2, DeleteInnerFacts
    <3>3. \A y \in U \ {n} : K2[y] = K[y]
      BY <3>1
    <3>4. Sound(DeleteInner(t, n), U \ {n}, K2)
      BY <3>2, <3>3, SameKeys DEF Kept
    <3> HIDE DEF t1, m, D
    <3> QED
      BY <3>1, <3>2, <3>4 DEF Kept
  <2>3. CASE (l = NULL) # (r = NULL)
    <3> DEFINE o == Only(t, n)
               K3 == [y \in U |-> IF y = n THEN K[o] ELSE K[y]]
    <3>1. Lone(t, n) /\ m = o /\ D = [t.data EXCEPT ![n] = t.data[o]]
      BY <2>3 DEF Lone, Freed, Remaining
    <3>2. t1 = DeleteBalance(Replace(t, n, o), n, 0)
      BY <2>3
    <3>3. PICK s \in Sides : t.child[s][n] # NULL /\ t.child[-s][n] = NULL /\ o = t.child[s][n]
      <4>1. CASE l = NULL
        <5>1. r # NULL /\ o = r
          BY <2>3, <4>1 DEF Only
        <5> QED
          BY <1>2, <4>1, <5>1
      <4>2. CASE l # NULL
        <5>1. r = NULL /\ o = l
          BY <2>3, <4>2 DEF Only
        <5> QED
          BY <1>2, <4>2, <5>1
      <4> QED
        BY <4>1, <4>2
    <3>4. o \in U /\ o # n
      BY <1>2, <3>3, ChildFacts
    <3>5. K3[n] = K[o] /\ \A y \in U \ {n} : K3[y] = K[y]
      OBVIOUS
    <3> HIDE DEF t1, m, D, o, K3
    <3>6. Kept(DeleteBalance(Replace(t, n, o), n, 0), U \ {o}, K3,
               [t.data EXCEPT ![n] = t.data[o]], t.free)
      <4>1. t.child[s][n] # NULL /\ t.child[-s][n] = NULL /\ o = t.child[s][n] /\ s \in Sides
        BY <3>3
      <4>2. K3[n] = K[o] /\ \A y \in U \ {n} : K3[y] = K[y]
        BY <3>5
      <4>3. Shaped(t, U, B, h, K) /\ (\A x \in U : Proper(t, h, x)) /\ n \in U
        BY <1>1
      <4>4. Loner(t, U, B, h, K, n, s, o, K3)
        BY <4>1, <4>2, <4>3 DEF Loner
      <4> QED
        BY <4>4, DeleteLoneFacts
    <3>7. \A y \in U \ {o} : K2[y] = K3[y]
      <4>1. m = Freed(t, n) /\ o = Only(t, n)
        BY DEF m, o
      <4>2. K2[n] = K[o]
        BY <1>1, <3>1, <3>4, <4>1
      <4>3. \A y \in U \ {o} : y # n => K2[y] = K[y]
        BY <3>1, <4>1
      <4> QED
        BY <3>5, <4>2, <4>3
    <3>8. Sound(DeleteBalance(Replace(t, n, o), n, 0), U \ {o}, K2)
      BY <3>6, <3>7, SameKeys DEF Kept
    <3> QED
      BY <3>1, <3>2, <3>4, <3>6, <3>8 DEF Kept
  <2> QED
    BY <2>1, <2>2, <2>3
<1>4. TreeDelete(t, n) = [t1 EXCEPT !.free = Append(t1.free, m)]
  BY DEF TreeDelete, Freed, Lone, Only
<1> HIDE DEF t1, m, D
<1>5. Append(t.free, m) \in Seq(Nodes) /\ t1.free = t.free
  BY <1>2, <1>3 DEF Kept
<1>6. Kept([t1 EXCEPT !.free = Append(t.free, m)], U \ {m}, K2, D, Append(t.free, m))
  BY <1>3, <1>5, Restocked
<1> QED
  BY <1>3, <1>4, <1>5, <1>6 DEF Deleted, m, D

-----------------------------------------------------------------------------
(* The sizes of the regions in the nodes, the keys of the tree.            *)
KeysOf(t, sz) == [n \in Nodes |-> sz[t.data[n]]]

(* The inductive invariant: a search tree in balance over the nodes that   *)
(* are not on the stack, each of which its region knows.                   *)
IndexOK ==
  /\ tnode \in [Regions -> Links] /\ size \in [Regions -> Nat]
  /\ Sound(tree, Used, KeysOf(tree, size)) /\ IsInjective(tree.free)
  /\ \A n \in Used : tree.data[n] \in Regions /\ tnode[tree.data[n]] = n

(* The nodes in use after a step.                                          *)
LEMMA UsedFacts ==
  ASSUME IndexOK
  PROVE  /\ tree \in Trees /\ Used \subseteq Nodes /\ Stocked(tree, Used)
         /\ Keyed(tree, Used, KeysOf(tree, size))
         /\ \A x \in Used, y \in Used : tree.data[x] = tree.data[y] => x = y
<1>1. tree \in Trees
  BY DEF IndexOK, Sound, Shaped
<1>2. \A x \in Range(tree.free) : x \in Nodes
  <2>1. tree.free \in Seq(Nodes)
    BY <1>1, Fields
  <2> QED
    BY <2>1 DEF Range
<1>3. Used \subseteq Nodes /\ Range(tree.free) = Nodes \ Used
  BY <1>2 DEF Used
<1>4. Keyed(tree, Used, KeysOf(tree, size))
  BY <1>3 DEF IndexOK, Keyed, KeysOf
<1>5. \A x \in Used, y \in Used : tree.data[x] = tree.data[y] => x = y
  BY DEF IndexOK
<1> QED
  BY <1>1, <1>3, <1>4, <1>5 DEF Stocked, IndexOK

(* A region that is told there is room for finds a node.                   *)
LEMMA RoomLeft ==
  ASSUME IndexOK, Cardinality(indexed) < Capacity
  PROVE  tree.free # << >>
<1> SUFFICES ASSUME tree.free = << >>
             PROVE  FALSE
  OBVIOUS
<1>1. Used = Nodes
  <2>1. Range(tree.free) = {}
    BY DEF Range
  <2> QED
    BY <2>1 DEF Used
<1> DEFINE f == [n \in Nodes |-> tree.data[n]]
<1>2. f \in [Nodes -> indexed] /\ \A x \in Nodes, y \in Nodes : f[x] = f[y] => x = y
  BY <1>1, UsedFacts DEF indexed
<1>3. f \in Surjection(Nodes, indexed)
  <2>1. \A e \in indexed : \E n \in Nodes : f[n] = e
    BY <1>1 DEF indexed
  <2> HIDE DEF f
  <2> QED
    BY <1>2, <2>1 DEF Surjection
<1> HIDE DEF f
<1>4. f \in Injection(Nodes, indexed)
  BY <1>2 DEF Injection, IsInjective
<1>5. IsFiniteSet(Nodes) /\ Cardinality(Nodes) = Capacity
  BY CapacityAssumption, FS_Interval DEF Nodes
<1>6. Cardinality(indexed) = Capacity
  BY <1>3, <1>4, <1>5, FS_Surjection
<1> QED
  BY <1>6, CapacityAssumption

(* Tree_Empty.                                                             *)
LEMMA EmptyFacts ==
  /\ EmptyTree \in Trees /\ EmptyTree.root = NULL
  /\ IsInjective(EmptyTree.free) /\ Range(EmptyTree.free) = Nodes
<1> DEFINE F == [i \in 1 .. Capacity |-> i - 1]
           P == [n \in Nodes |-> NULL]
           C == [s \in Sides |-> [n \in Nodes |-> NULL]]
           b == [n \in Nodes |-> 0]
           D == [n \in Nodes |-> Nothing]
<1>1. EmptyTree = [root |-> NULL, parent |-> P, child |-> C, balance |-> b, data |-> D,
                   free |-> F]
  BY DEF EmptyTree
<1>2. /\ NULL \in Links /\ P \in [Nodes -> Links] /\ C \in [Sides -> [Nodes -> Links]]
      /\ b \in [Nodes -> Int] /\ D \in [Nodes -> Regions \cup {Nothing}]
  BY DEF Links
<1>3. F \in Seq(Nodes) /\ DOMAIN F = 1 .. Capacity
  <2>1. F \in [1 .. Capacity -> Nodes]
    BY CapacityAssumption DEF Nodes
  <2> HIDE DEF F
  <2> QED
    BY <2>1, CapacityAssumption
<1>4. IsInjective(F)
  BY CapacityAssumption DEF IsInjective
<1>5. Range(F) = Nodes
  <2>1. \A n \in Nodes : n + 1 \in 1 .. Capacity /\ F[n + 1] = n
    BY CapacityAssumption DEF Nodes
  <2>2. \A i \in 1 .. Capacity : F[i] \in Nodes
    BY CapacityAssumption DEF Nodes
  <2> HIDE DEF F
  <2> QED
    BY <1>3, <2>1, <2>2 DEF Range
<1> HIDE DEF F, P, C, b, D
<1> QED
  BY <1>1, <1>2, <1>3, <1>4, <1>5 DEF Trees

LEMMA InitOK ==
  ASSUME tree = EmptyTree, tnode = [e \in Regions |-> NULL], size = [e \in Regions |-> 0]
  PROVE  IndexOK /\ Used = {}
<1>1. Used = {}
  BY EmptyFacts DEF Used
<1>2. Sound(tree, {}, KeysOf(tree, size))
  BY EmptyFacts, EmptySound
<1>3. tnode \in [Regions -> Links] /\ size \in [Regions -> Nat]
  BY DEF Links
<1> QED
  BY <1>1, <1>2, <1>3, EmptyFacts DEF IndexOK

LEMMA InsertOK ==
  ASSUME IndexOK, NEW e \in Regions, NEW s \in Sizes, Insert(e, s)
  PROVE  IndexOK' /\ indexed' = indexed \cup {e}
<1> DEFINE n == Last(tree.free)
           U == Used
           K == KeysOf(tree, size)
           K2 == KeysOf(tree', size')
           D == [tree.data EXCEPT ![n] = e]
<1>1. /\ e \notin indexed /\ size' = [size EXCEPT ![e] = s]
      /\ tree' = TreeInsert(tree, e, s) /\ tnode' = [tnode EXCEPT ![e] = n]
      /\ Cardinality(indexed) < Capacity /\ s \in Nat
  BY SizesAssumption DEF Insert
<1>2. /\ tree \in Trees /\ U \subseteq Nodes /\ Stocked(tree, U) /\ Keyed(tree, U, K)
      /\ tree.free # << >> /\ Sound(tree, U, K)
  BY <1>1, UsedFacts, RoomLeft DEF IndexOK
<1>3. /\ tnode \in [Regions -> Links] /\ size \in [Regions -> Nat]
      /\ \A x \in U : tree.data[x] \in Regions /\ tnode[tree.data[x]] = x
  BY DEF IndexOK
<1>4. /\ n \in Nodes /\ n \notin U /\ IsInjective(Front(tree.free))
      /\ Range(Front(tree.free)) = (Nodes \ U) \ {n}
  <2>1. tree.free \in Seq(Nodes)
    BY <1>2, Fields
  <2> QED
    BY <1>2, <2>1, FrontFacts DEF Stocked
<1>5. D \in [Nodes -> Regions \cup {Nothing}] /\ D[n] = e /\ \A x \in U : D[x] = tree.data[x]
  <2>1. tree.data \in [Nodes -> Regions \cup {Nothing}]
    BY <1>2, Fields
  <2> QED
    BY <1>2, <1>4, <2>1
<1>6. \A x \in U : tree.data[x] # e
  BY <1>1 DEF indexed
<1> HIDE DEF n, D, U
<1> DEFINE K3 == [x \in Nodes |-> IF x = n THEN s ELSE K[x]]
<1>7. K3[n] = s /\ \A x \in U : K3[x] = K[x]
  BY <1>2, <1>4
<1> HIDE DEF K, K3
<1>8. Kept(tree', U \cup {n}, K3, D, Front(tree.free))
  <2>1. Kept(TreeInsert(tree, e, s), U \cup {n}, K3, [tree.data EXCEPT ![n] = e], Front(tree.free))
    BY <1>1, <1>2, <1>7, TreeInsertFacts DEF n
  <2> QED
    BY <1>1, <2>1 DEF D
<1>9. tree'.data = D /\ tree'.free = Front(tree.free) /\ Sound(tree', U \cup {n}, K3)
  BY <1>8 DEF Kept
<1>10. Used' = U \cup {n}
  BY <1>2, <1>4, <1>9 DEF Used
<1>11. \A x \in U \cup {n} : K2[x] = K3[x]
  <2>1. K2[n] = K3[n]
    BY <1>1, <1>3, <1>4, <1>5, <1>7, <1>9 DEF KeysOf
  <2>2. ASSUME NEW x \in U
        PROVE  K2[x] = K3[x]
    <3>1. K2[x] = size'[tree.data[x]] /\ K[x] = size[tree.data[x]]
      BY <1>2, <1>5, <1>9 DEF KeysOf, K
    <3>2. size'[tree.data[x]] = size[tree.data[x]]
      BY <1>1, <1>3, <1>6
    <3> QED
      BY <1>7, <3>1, <3>2
  <2> QED
    BY <2>1, <2>2
<1> HIDE DEF K2
<1>12. Sound(tree', Used', K2)
  BY <1>9, <1>10, <1>11, SameKeys
<1>13. tnode' \in [Regions -> Links] /\ size' \in [Regions -> Nat]
  BY <1>1, <1>3, <1>4 DEF Links
<1>14. \A x \in Used' : tree'.data[x] \in Regions /\ tnode'[tree'.data[x]] = x
  <2>1. tnode'[e] = n
    BY <1>1, <1>3
  <2>2. ASSUME NEW x \in U
        PROVE  D[x] \in Regions /\ tnode'[D[x]] = x
    BY <1>1, <1>3, <1>5, <1>6
  <2> QED
    BY <1>5, <1>9, <1>10, <2>1, <2>2
<1>15. indexed' = indexed \cup {e}
  <2>1. indexed' = {D[x] : x \in U \cup {n}}
    BY <1>9, <1>10 DEF indexed
  <2>2. indexed = {tree.data[x] : x \in U}
    BY DEF indexed, U
  <2> QED
    BY <1>5, <2>1, <2>2
<1> QED
  BY <1>4, <1>9, <1>12, <1>13, <1>14, <1>15 DEF IndexOK, K2

(* The one child of a node is another node of the tree.                    *)
LEMMA OnlyFacts ==
  ASSUME NEW t, NEW U, NEW K, Sound(t, U, K), NEW n \in U
  PROVE  Freed(t, n) \in U /\ (Lone(t, n) => Only(t, n) \in U /\ Only(t, n) # n)
<1>1. PICK B, h : Shaped(t, U, B, h, K)
  BY DEF Sound
<1>2. t \in Trees /\ Linked(t, U, B) /\ Left \in Sides /\ Right \in Sides
  BY <1>1, SideFacts DEF Shaped
<1>3. Lone(t, n) => Only(t, n) \in U /\ Only(t, n) # n
  <2>1. CASE t.child[Left][n] # NULL
    BY <1>2, <2>1, ChildFacts DEF Only
  <2>2. CASE t.child[Right][n] # NULL
    BY <1>2, <2>1, <2>2, ChildFacts DEF Only
  <2> QED
    BY <2>1, <2>2 DEF Lone
<1> QED
  BY <1>3 DEF Freed

LEMMA DeleteOK ==
  ASSUME IndexOK, NEW e \in Regions, Delete(e)
  PROVE  IndexOK' /\ indexed' = indexed \ {e}
<1> DEFINE n == tnode[e]
           m == Freed(tree, n)
           o == Only(tree, n)
           U == Used
           K == KeysOf(tree, size)
           K2 == KeysOf(tree', size')
           D == Remaining(tree, n)
<1>1. /\ e \in indexed /\ tree' = TreeDelete(tree, n) /\ size' = [size EXCEPT ![e] = 0]
      /\ tnode' = [f \in Regions |-> IF f \in Moved(tree, n) THEN n
                                     ELSE IF f = e THEN NULL ELSE tnode[f]]
  BY DEF Delete
<1>2. /\ tree \in Trees /\ U \subseteq Nodes /\ Stocked(tree, U) /\ Sound(tree, U, K)
      /\ \A x \in U, y \in U : tree.data[x] = tree.data[y] => x = y
  BY UsedFacts DEF IndexOK
<1>3. /\ tnode \in [Regions -> Links] /\ size \in [Regions -> Nat]
      /\ \A x \in U : tree.data[x] \in Regions /\ tnode[tree.data[x]] = x
  BY DEF IndexOK
<1>4. n \in U /\ tree.data[n] = e
  <2>1. PICK x \in U : e = tree.data[x]
    BY <1>1 DEF indexed
  <2> QED
    BY <1>3, <2>1
<1> HIDE DEF n
<1>5. m \in U /\ (Lone(tree, n) => o \in U /\ o # n)
  BY <1>2, <1>4, OnlyFacts
<1>6. IF Lone(tree, n) THEN m = o ELSE m = n
  BY DEF Freed
<1>7. \A y \in U \ {m} : D[y] = tree.data[IF y = n THEN o ELSE y]
  <2>1. tree.data \in [Nodes -> Regions \cup {Nothing}]
    BY <1>2, Fields
  <2>2. CASE Lone(tree, n)
    BY <1>2, <1>4, <2>1, <2>2 DEF Remaining
  <2>3. CASE ~Lone(tree, n)
    BY <1>6, <2>3 DEF Remaining
  <2> QED
    BY <2>2, <2>3
<1>8. Moved(tree, n) = IF Lone(tree, n) THEN {tree.data[o]} ELSE {}
  BY DEF Moved, Lone, Only
<1> DEFINE K3 == [y \in U |-> IF y = n THEN K[IF Lone(tree, n) THEN o ELSE n] ELSE K[y]]
<1>9. \A y \in U \ {m} : K3[y] = IF y = n THEN K[IF Lone(tree, n) THEN o ELSE n] ELSE K[y]
  OBVIOUS
<1> HIDE DEF K3, K, U
<1>10. Deleted(tree, tree', n, U, K3)
  BY <1>1, <1>2, <1>4, <1>9, TreeDeleteFacts
<1>11. /\ tree'.data = D /\ tree'.free = Append(tree.free, m) /\ Sound(tree', U \ {m}, K3)
  BY <1>10 DEF Deleted, Kept
<1>12. /\ Range(tree'.free) = (Nodes \ U) \cup {m} /\ IsInjective(tree'.free)
  <2>1. tree.free \in Seq(Nodes) /\ m \in Nodes /\ m \notin Range(tree.free)
    BY <1>2, <1>5, Fields DEF Stocked
  <2> QED
    BY <1>2, <1>11, <2>1, RangeAppend, InjAppend DEF Stocked
<1>13. Used' = U \ {m}
  BY <1>2, <1>12 DEF Used
<1> HIDE DEF m, o, D
<1>14. ASSUME NEW y \in U \ {m}, NEW x, x = IF y = n THEN o ELSE y
       PROVE  /\ x \in U /\ D[y] = tree.data[x] /\ tree.data[x] # e /\ tree.data[x] \in Regions
              /\ tnode'[tree.data[x]] = y /\ K3[y] = K[x]
  <2>1. x \in U /\ x # n /\ (y = n => Lone(tree, n))
    BY <1>4, <1>5, <1>6, <1>14
  <2>2. tree.data[x] # e /\ tree.data[x] \in Regions /\ tnode[tree.data[x]] = x
    BY <1>2, <1>3, <1>4, <2>1
  <2>3. tnode'[tree.data[x]] = IF tree.data[x] \in Moved(tree, n) THEN n ELSE x
    BY <1>1, <2>2
  <2>4. tree.data[x] \in Moved(tree, n) <=> y = n
    <3>1. CASE y = n
      BY <1>8, <1>14, <2>1, <3>1
    <3>2. CASE y # n
      BY <1>2, <1>5, <1>6, <1>8, <1>14, <2>1, <3>2
    <3> QED
      BY <3>1, <3>2
  <2>5. K3[y] = K[x]
    BY <1>9, <1>14, <2>1
  <2> QED
    BY <1>7, <1>14, <2>1, <2>2, <2>3, <2>4, <2>5
<1>15. \A y \in U \ {m} : K2[y] = K3[y]
  <2> SUFFICES ASSUME NEW y \in U \ {m}
               PROVE  K2[y] = K3[y]
    OBVIOUS
  <2> DEFINE x == IF y = n THEN o ELSE y
  <2>1. /\ x \in U /\ D[y] = tree.data[x] /\ tree.data[x] # e /\ tree.data[x] \in Regions
        /\ K3[y] = K[x]
    BY <1>14
  <2> HIDE DEF x
  <2>2. K2[y] = size'[tree.data[x]] /\ K[x] = size[tree.data[x]]
    BY <1>2, <1>11, <2>1 DEF KeysOf, K
  <2>3. size'[tree.data[x]] = size[tree.data[x]]
    BY <1>1, <1>3, <2>1
  <2> QED
    BY <2>1, <2>2, <2>3
<1> HIDE DEF K2
<1>16. Sound(tree', Used', K2)
  BY <1>11, <1>13, <1>15, SameKeys
<1>17. tnode' \in [Regions -> Links] /\ size' \in [Regions -> Nat]
  <2>1. n \in Links /\ NULL \in Links
    BY <1>2, <1>4 DEF Links
  <2> QED
    BY <1>1, <1>3, <2>1
<1>18. \A y \in Used' : tree'.data[y] \in Regions /\ tnode'[tree'.data[y]] = y
  BY <1>11, <1>13, <1>14
<1>19. indexed' = indexed \ {e}
  <2>1. indexed' = {D[y] : y \in U \ {m}} /\ indexed = {tree.data[x] : x \in U}
    BY <1>11, <1>13 DEF indexed, U
  <2>2. ASSUME NEW y \in U \ {m}
        PROVE  D[y] \in indexed \ {e}
    BY <1>14, <2>1
  <2>3. ASSUME NEW x \in U, tree.data[x] # e
        PROVE  \E y \in U \ {m} : D[y] = tree.data[x]
    <3>1. x # n
      BY <1>4, <2>3
    <3>2. CASE Lone(tree, n) /\ x = m
      BY <1>4, <1>5, <1>6, <1>7, <3>1, <3>2
    <3>3. CASE x # m
      BY <1>7, <3>1, <3>3
    <3> QED
      BY <1>6, <3>1, <3>2, <3>3
  <2> QED
    BY <2>1, <2>2, <2>3
<1> QED
  BY <1>12, <1>16, <1>17, <1>18, <1>19 DEF IndexOK, K2

LEMMA EmptyOK ==
  ASSUME Empty
  PROVE  IndexOK' /\ indexed' = {}
<1>1. tree' = EmptyTree /\ tnode' = [e \in Regions |-> NULL] /\ size' = [e \in Regions |-> 0]
  BY DEF Empty
<1>2. Used' = {}
  BY <1>1, EmptyFacts DEF Used
<1>3. Sound(tree', {}, KeysOf(tree', size'))
  BY <1>1, EmptyFacts, EmptySound
<1>4. tnode' \in [Regions -> Links] /\ size' \in [Regions -> Nat]
  BY <1>1 DEF Links
<1>5. indexed' = {}
  BY <1>2 DEF indexed
<1> QED
  BY <1>1, <1>2, <1>3, <1>4, <1>5, EmptyFacts DEF IndexOK

(* A search, or a step of something else, leaves the tree alone.           *)
LEMMA SameOK ==
  ASSUME IndexOK, UNCHANGED <<tree, tnode, size>>
  PROVE  IndexOK' /\ indexed' = indexed
<1>1. Used' = Used /\ tree' = tree /\ tnode' = tnode /\ size' = size
  BY DEF Used
<1>2. indexed' = indexed
  BY <1>1 DEF indexed
<1> QED
  BY <1>1, <1>2 DEF IndexOK

LEMMA IndexNext ==
  ASSUME IndexOK, [Next]_vars
  PROVE  IndexOK'
<1>1. CASE \E e \in Regions, s \in Sizes : Insert(e, s)
  BY <1>1, InsertOK
<1>2. CASE \E e \in Regions : Delete(e)
  BY <1>2, DeleteOK
<1>3. CASE Empty
  BY <1>3, EmptyOK
<1>4. CASE \E s \in Sizes : Search(s)
  BY <1>4, SameOK DEF Search
<1>5. CASE UNCHANGED vars
  BY <1>5, SameOK DEF vars
<1> QED
  BY <1>1, <1>2, <1>3, <1>4, <1>5 DEF Next

(* Whatever is inserted, deleted and searched for (Tree_Insert,            *)
(* Tree_DeleteNode and Tree_Empty of AvlTree.c), the nodes that are not on *)
(* the stack are those of a search tree in balance, linked both ways, and  *)
(* every region in it knows its node.                                      *)
THEOREM IndexAlways == Spec => []IndexOK
<1>1. Init => IndexOK
  BY InitOK DEF Init
<1>2. IndexOK /\ [Next]_vars => IndexOK'
  BY IndexNext
<1> QED
  BY <1>1, <1>2, PTL DEF Spec

-----------------------------------------------------------------------------
(* The subtrees and heights that the properties of AvlTree name are those  *)
(* of the invariant: two trees of sets, or of heights, that are equal      *)
(* below a node are equal at the node.                                     *)
LEMMA BelowFacts ==
  ASSUME NEW B, tree \in Trees, Linked(tree, Used, B)
  PROVE  \A n \in Used \cup {NULL} : Below[n] = B[n]
<1> DEFINE U == Used
           V == Used \cup {NULL}
           l(n) == tree.child[Left][n]
           r(n) == tree.child[Right][n]
           f == [n \in V |-> B[n]]
           p == CHOOSE p : p = [n \in V |-> IF n = NULL THEN {}
                                            ELSE {n} \cup p[l(n)] \cup p[r(n)]]
<1>1. /\ B[NULL] = {} /\ NULL \notin U
      /\ \A n \in U : B[n] = {n} \cup B[l(n)] \cup B[r(n)] /\ l(n) \in V /\ r(n) \in V
  BY SideFacts, LeftRight DEF Linked
<1>2. Below = p
  BY DEF Below
<1>3. V = U \cup {NULL}
  OBVIOUS
<1> HIDE DEF U, V, l, r
<1>4. f = [n \in V |-> IF n = NULL THEN {} ELSE {n} \cup f[l(n)] \cup f[r(n)]]
  <2>1. ASSUME NEW n \in V, n # NULL
        PROVE  f[n] = {n} \cup f[l(n)] \cup f[r(n)]
    BY <1>1, <1>3, <2>1
  <2>2. f[NULL] = {}
    BY <1>1, <1>3
  <2> QED
    BY <2>1, <2>2
<1> HIDE DEF f
<1>5. p = [n \in V |-> IF n = NULL THEN {} ELSE {n} \cup p[l(n)] \cup p[r(n)]]
  BY <1>4
<1> HIDE DEF p
<1>6. p[NULL] = {} /\ \A n \in U : p[n] = {n} \cup p[l(n)] \cup p[r(n)]
  BY <1>1, <1>3, <1>5
<1> DEFINE S == {n \in U : p[n] = B[n]}
<1>7. ASSUME NEW y \in U, \A s \in Sides : tree.child[s][y] \in S \cup {NULL}
      PROVE  y \in S
  <2>1. l(y) \in S \cup {NULL} /\ r(y) \in S \cup {NULL}
    BY <1>7, SideFacts DEF l, r
  <2>2. p[l(y)] = B[l(y)] /\ p[r(y)] = B[r(y)]
    BY <1>1, <1>6, <2>1
  <2> QED
    BY <1>1, <1>6, <2>2
<1>8. S = U
  <2>1. S \in SUBSET U /\ Linked(tree, U, B)
    BY DEF U
  <2> HIDE DEF S
  <2> QED
    BY <1>7, <2>1, TreeInduction
<1> QED
  BY <1>1, <1>2, <1>3, <1>6, <1>8 DEF V, U

LEMMA HeightFacts ==
  ASSUME NEW B, NEW h, tree \in Trees, Linked(tree, Used, B), Heights(h),
         \A x \in Used : Proper(tree, h, x)
  PROVE  \A n \in Used \cup {NULL} : Height[n] = h[n]
<1> DEFINE U == Used
           V == Used \cup {NULL}
           l(n) == tree.child[Left][n]
           r(n) == tree.child[Right][n]
           f == [n \in V |-> h[n]]
           p == CHOOSE p : p = [n \in V |-> IF n = NULL THEN 0
                                            ELSE LET a == p[l(n)]
                                                     b == p[r(n)]
                                                 IN 1 + IF a > b THEN a ELSE b]
<1>1. /\ h[NULL] = 0 /\ NULL \notin U
      /\ \A n \in U : h[n] = 1 + Taller(h[l(n)], h[r(n)]) /\ l(n) \in V /\ r(n) \in V
  BY SideFacts, LeftRight DEF Linked, Proper, Heights
<1>2. Height = p
  BY DEF Height
<1>3. V = U \cup {NULL}
  OBVIOUS
<1> HIDE DEF U, V, l, r
<1>4. f = [n \in V |-> IF n = NULL THEN 0 ELSE LET a == f[l(n)]
                                                   b == f[r(n)]
                                               IN 1 + IF a > b THEN a ELSE b]
  <2>1. ASSUME NEW n \in V, n # NULL
        PROVE  f[n] = 1 + Taller(f[l(n)], f[r(n)])
    BY <1>1, <1>3, <2>1
  <2>2. f[NULL] = 0
    BY <1>1, <1>3
  <2> QED
    BY <2>1, <2>2 DEF Taller
<1> HIDE DEF f
<1>5. p = [n \in V |-> IF n = NULL THEN 0 ELSE LET a == p[l(n)]
                                                   b == p[r(n)]
                                               IN 1 + IF a > b THEN a ELSE b]
  BY Zenon, <1>4
<1> HIDE DEF p
<1>6. p[NULL] = 0 /\ \A n \in U : p[n] = 1 + Taller(p[l(n)], p[r(n)])
  BY <1>1, <1>3, <1>5 DEF Taller
<1> DEFINE S == {n \in U : p[n] = h[n]}
<1>7. ASSUME NEW y \in U, \A s \in Sides : tree.child[s][y] \in S \cup {NULL}
      PROVE  y \in S
  <2>1. l(y) \in S \cup {NULL} /\ r(y) \in S \cup {NULL}
    BY <1>7, SideFacts DEF l, r
  <2>2. p[l(y)] = h[l(y)] /\ p[r(y)] = h[r(y)]
    BY <1>1, <1>6, <2>1
  <2> QED
    BY <1>1, <1>6, <2>2
<1>8. S = U
  <2>1. S \in SUBSET U /\ Linked(tree, U, B)
    BY DEF U
  <2> HIDE DEF S
  <2> QED
    BY <1>7, <2>1, TreeInduction
<1> QED
  BY <1>1, <1>2, <1>3, <1>6, <1>8 DEF V, U

(* What the invariant says, in the words of the properties.                *)
Readings(B, h) ==
  /\ Shaped(tree, Used, B, h, KeysOf(tree, size)) /\ \A x \in Used : Proper(tree, h, x)
  /\ \A n \in Used \cup {NULL} : Below[n] = B[n] /\ Height[n] = h[n]
  /\ \A n \in Used, s \in Sides : tree.child[s][n] \in Used \cup {NULL}
  /\ \A n \in Used : KeysOf(tree, size)[n] = size[tree.data[n]]

LEMMA ReadingsExist ==
  ASSUME IndexOK
  PROVE  \E B, h : Readings(B, h)
<1>1. PICK B, h : /\ Shaped(tree, Used, B, h, KeysOf(tree, size))
                  /\ \A x \in Used : Proper(tree, h, x)
  BY DEF IndexOK, Sound
<1>2. tree \in Trees /\ Linked(tree, Used, B) /\ Heights(h)
  BY <1>1 DEF Shaped
<1>3. \A n \in Used \cup {NULL} : Below[n] = B[n]
  BY <1>2, BelowFacts
<1>4. \A n \in Used \cup {NULL} : Height[n] = h[n]
  BY <1>1, <1>2, HeightFacts
<1>5. \A n \in Used, s \in Sides : tree.child[s][n] \in Used \cup {NULL}
  BY <1>2 DEF Linked
<1>6. \A n \in Used : KeysOf(tree, size)[n] = size[tree.data[n]]
  BY UsedFacts DEF KeysOf
<1> QED
  BY <1>1, <1>3, <1>4, <1>5, <1>6 DEF Readings

LEMMA TreeRead ==
  ASSUME IndexOK
  PROVE  TreeOK
<1>1. PICK B, h : Readings(B, h)
  BY ReadingsExist
<1> DEFINE U == Used
<1>2. /\ Linked(tree, U, B) /\ \A n \in U \cup {NULL} : Below[n] = B[n]
      /\ \A n \in U, s \in Sides : tree.child[s][n] \in U \cup {NULL}
  BY <1>1 DEF Readings, Shaped
<1>3. IsInjective(tree.free)
  BY DEF IndexOK
<1>4. Below[tree.root] = U
  BY <1>2 DEF Linked
<1>5. tree.root # NULL => tree.parent[tree.root] = NULL
  BY <1>2 DEF Linked
<1>6. \A n \in U, s \in Sides : tree.child[s][n] # NULL => tree.parent[tree.child[s][n]] = n
  BY <1>2 DEF Linked
<1>7. \A n \in U : Below[tree.child[Left][n]] \cap Below[tree.child[Right][n]] = {}
  <2>1. \A n \in U : B[tree.child[Left][n]] \cap B[tree.child[Right][n]] = {}
    <3>1. ASSUME NEW n \in U
          PROVE  B[tree.child[Left][n]] \cap B[tree.child[-Left][n]] = {}
      BY <1>2, SideFacts DEF Linked
    <3>2. -Left = Right
      BY LeftRight
    <3> QED
      BY <3>1, <3>2
  <2>2. \A n \in U, s \in Sides : Below[tree.child[s][n]] = B[tree.child[s][n]]
    BY <1>2
  <2>3. Left \in Sides /\ Right \in Sides
    BY SideFacts
  <2> HIDE DEF U
  <2> QED
    BY <2>1, <2>2, <2>3
<1> QED
  BY <1>3, <1>4, <1>5, <1>6, <1>7 DEF TreeOK

LEMMA SortedRead ==
  ASSUME IndexOK
  PROVE  Sorted
<1>1. PICK B, h : Readings(B, h)
  BY ReadingsExist
<1> DEFINE U == Used
           K == KeysOf(tree, size)
<1>2. /\ Linked(tree, U, B) /\ Ordered(tree, U, B, K) /\ \A n \in U \cup {NULL} : Below[n] = B[n]
      /\ \A n \in U, s \in Sides : tree.child[s][n] \in U \cup {NULL}
      /\ \A n \in U : K[n] = size[tree.data[n]]
  BY <1>1 DEF Readings, Shaped
<1>3. U \subseteq Links /\ \A x \in Links : B[x] \subseteq U
  BY <1>2 DEF Linked, Links
<1>4. NULL \in Links
  BY DEF Links
<1> HIDE DEF U, K
<1>5. ASSUME NEW n \in U, NEW s \in Sides, NEW m \in Below[tree.child[s][n]]
      PROVE  Beyond(s, size[tree.data[n]], size[tree.data[m]])
  <2>1. m \in B[tree.child[s][n]]
    BY <1>2
  <2>2. tree.child[s][n] \in Links
    BY <1>2, <1>3, <1>4
  <2>3. m \in U /\ Beyond(s, K[n], K[m])
    BY <1>2, <1>3, <2>1, <2>2 DEF Ordered
  <2> QED
    BY <1>2, <2>3
<1>6. ASSUME NEW n \in U, NEW m \in Below[tree.child[Left][n]]
      PROVE  size[tree.data[m]] <= size[tree.data[n]]
  <2>1. Beyond(Left, size[tree.data[n]], size[tree.data[m]])
    BY <1>5, SideFacts
  <2> QED
    BY <2>1 DEF Beyond
<1>7. ASSUME NEW n \in U, NEW m \in Below[tree.child[Right][n]]
      PROVE  size[tree.data[m]] >= size[tree.data[n]]
  <2>1. Beyond(Right, size[tree.data[n]], size[tree.data[m]])
    BY <1>5, SideFacts
  <2>2. size[tree.data[n]] \in Nat /\ size[tree.data[m]] \in Nat
    <3>1. m \in U
      <4>1. m \in B[tree.child[Right][n]] /\ tree.child[Right][n] \in Links
        BY <1>2, <1>3, <1>4, SideFacts
      <4> QED
        BY <1>3, <4>1
    <3> QED
      BY <3>1 DEF IndexOK, U
  <2> QED
    BY <2>1, <2>2, LeftRight DEF Beyond
<1> QED
  BY <1>6, <1>7 DEF Sorted, U

LEMMA BalancedRead ==
  ASSUME IndexOK
  PROVE  Balanced
<1>1. PICK B, h : Readings(B, h)
  BY ReadingsExist
<1> SUFFICES ASSUME NEW n \in Used
             PROVE  /\ tree.balance[n] \in -1 .. 1
                    /\ tree.balance[n] = Height[tree.child[Right][n]]
                                         - Height[tree.child[Left][n]]
  BY DEF Balanced
<1> DEFINE b == tree.balance[n]
           l == tree.child[Left][n]
           r == tree.child[Right][n]
<1>2. b \in -1 .. 1 /\ Tilt(Right, b) = h[r] - h[l]
  BY <1>1 DEF Readings, Proper
<1>3. Height[l] = h[l] /\ Height[r] = h[r]
  BY <1>1, SideFacts DEF Readings
<1>4. Tilt(Right, b) = b
  BY LeftRight DEF Tilt
<1> QED
  BY <1>2, <1>3, <1>4

(* The links of AvlTree.c stay those of one tree over the nodes in use,    *)
(* in both directions, and the stack of unused nodes holds every other     *)
(* node once: no insertion, deletion or rotation loses a node, shares one  *)
(* between two parents or leaves a link to its old parent.                 *)
THEOREM TreeAlwaysOK == Spec => []TreeOK
<1>1. IndexOK => TreeOK
  BY TreeRead
<1> QED
  BY <1>1, IndexAlways, PTL

(* The node that a region keeps (tnode) is the one that holds it, also     *)
(* after a deletion moved it (free_entry_replace): a deletion through it   *)
(* takes out that region and no other.                                     *)
THEOREM NodeAlwaysOfRegion == Spec => []NodeOfRegion
<1>1. IndexOK => NodeOfRegion
  BY DEF IndexOK, NodeOfRegion
<1> QED
  BY <1>1, IndexAlways, PTL

(* No rotation and no deletion upsets the order of the sizes               *)
(* (free_entry_comp), on which every search depends.                       *)
THEOREM AlwaysSorted == Spec => []Sorted
<1>1. IndexOK => Sorted
  BY SortedRead
<1> QED
  BY <1>1, IndexAlways, PTL

(* The balances that Tree_InsertBalance and Tree_DeleteBalance keep are    *)
(* the differences in height that they stand for, and the loops stop only  *)
(* where every node is in balance again.                                   *)
THEOREM AlwaysBalanced == Spec => []Balanced
<1>1. IndexOK => Balanced
  BY BalancedRead
<1> QED
  BY <1>1, IndexAlways, PTL

-----------------------------------------------------------------------------
(* What a search for z has found so far, and where the rest may be: after  *)
(* k turns, k nodes fewer below, or none to go to.                         *)
Searching(t, U, B, K, z, w, k) ==
  /\ w.node \in U \cup {NULL}
  /\ w.best = Nothing \/ \E y \in U : w.best = t.data[y] /\ z <= K[y]
  /\ \A y \in U : z <= K[y] =>
       y \in B[w.node] \/ (w.best # Nothing /\ size[w.best] <= K[y])
  /\ w.node # NULL => Cardinality(B[w.node]) + k <= Capacity

(* A tree over regions whose sizes are the keys.                           *)
Stored(t, U, B, K) ==
  /\ t \in Trees /\ Linked(t, U, B) /\ Ordered(t, U, B, K) /\ Keyed(t, U, K)
  /\ \A y \in U : t.data[y] \in Regions

Searches(U) == [node : U \cup {NULL}, best : Regions \cup {Nothing}]

(* One side of a node can be left out of a search.                         *)
LEMMA NarrowFacts ==
  ASSUME NEW t, NEW U, NEW B, NEW K, Stored(t, U, B, K), NEW n \in U, NEW s \in Sides,
         NEW k \in Nat, Cardinality(B[n]) + k <= Capacity
  PROVE  /\ t.child[s][n] \in U \cup {NULL}
         /\ t.child[s][n] # NULL => Cardinality(B[t.child[s][n]]) + (k + 1) <= Capacity
         /\ \A y \in B[n] : y = n \/ y \in B[t.child[s][n]] \/ Beyond(-s, K[n], K[y])
<1> DEFINE c == t.child[s][n]
<1>1. /\ c \in U \cup {NULL} /\ -s \in Sides /\ U \subseteq Nodes /\ U \subseteq Links
      /\ B[n] = {n} \cup B[c] \cup B[t.child[-s][n]] /\ \A x \in U : B[x] \in SUBSET U
  BY SideFacts DEF Stored, Linked, Links
<1>2. \A y \in B[t.child[-s][n]] : Beyond(-s, K[n], K[y])
  BY <1>1 DEF Stored, Ordered
<1>3. ASSUME c # NULL
      PROVE  Cardinality(B[c]) + (k + 1) <= Capacity
  <2>1. c \in U /\ B[c] \subseteq B[n] /\ n \notin B[c] /\ n \in B[n]
    BY <1>1, <1>3, ChildFacts DEF Stored
  <2> DEFINE P == B[n]
             T == B[c]
  <2>2. P \in SUBSET Nodes /\ T \in SUBSET P /\ n \in P /\ n \notin T
    BY <1>1, <2>1
  <2>3. Cardinality(P) + k <= Capacity
    OBVIOUS
  <2> HIDE DEF P, T
  <2>4. Cardinality(T) \in Nat /\ Cardinality(P) \in Nat /\ Cardinality(T) + 1 <= Cardinality(P)
    BY <2>2, Fewer
  <2>5. Cardinality(T) + (k + 1) <= Capacity
    BY <2>3, <2>4, CapacityAssumption
  <2> QED
    BY <2>5 DEF T
<1> HIDE DEF c
<1>4. \A y \in B[n] : y = n \/ y \in B[c] \/ Beyond(-s, K[n], K[y])
  BY <1>1, <1>2
<1> QED
  BY <1>1, <1>3, <1>4 DEF c

LEMMA CeilingStepFacts ==
  ASSUME NEW t, NEW U, NEW B, NEW K, Stored(t, U, B, K), NEW z \in Nat,
         NEW w \in Searches(U), NEW k \in Nat, Searching(t, U, B, K, z, w, k)
  PROVE  /\ CeilingStep(t, z, w) \in Searches(U)
         /\ Searching(t, U, B, K, z, CeilingStep(t, z, w), k + 1)
<1> DEFINE n == w.node
           b == w.best
           e == t.data[n]
<1>1. /\ n \in U \cup {NULL} /\ b \in Regions \cup {Nothing} /\ w = [node |-> n, best |-> b]
      /\ b = Nothing \/ \E y \in U : b = t.data[y] /\ z <= K[y]
      /\ \A y \in U : z <= K[y] => y \in B[n] \/ (b # Nothing /\ size[b] <= K[y])
      /\ n # NULL => Cardinality(B[n]) + k <= Capacity
  BY DEF Searching, Searches
<1>2. /\ \A y \in U : K[y] = size[t.data[y]] /\ K[y] \in Nat /\ t.data[y] \in Regions
                      /\ t.data[y] # Nothing
      /\ NULL \notin U /\ B[NULL] = {} /\ Left \in Sides /\ Right \in Sides
      /\ -Left = Right /\ -Right = Left
  BY SideFacts, LeftRight, NothingAssumption DEF Stored, Keyed, Linked
<1>3. CASE n = NULL
  <2>1. CeilingStep(t, z, w) = w
    BY <1>3 DEF CeilingStep
  <2> QED
    BY <1>3, <2>1 DEF Searching
<1>4. CASE n # NULL
  <2>1. n \in U /\ e = t.data[n] /\ K[n] = size[e] /\ K[n] \in Nat /\ e \in Regions /\ e # Nothing
        /\ Cardinality(B[n]) + k <= Capacity
    BY <1>1, <1>2, <1>4
  <2>2. CASE z = size[e]
    <3>1. CeilingStep(t, z, w) = [node |-> NULL, best |-> e]
      BY <1>4, <2>2 DEF CeilingStep
    <3> HIDE DEF e, n
    <3>2. [node |-> NULL, best |-> e] \in Searches(U)
      BY <2>1 DEF Searches
    <3>3. Searching(t, U, B, K, z, [node |-> NULL, best |-> e], k + 1)
      <4>1. \E y \in U : e = t.data[y] /\ z <= K[y]
        BY <2>1, <2>2
      <4>2. \A y \in U : z <= K[y] => (e # Nothing /\ size[e] <= K[y])
        BY <2>1, <2>2
      <4> QED
        BY <4>1, <4>2 DEF Searching
    <3> QED
      BY <3>1, <3>2, <3>3
  <2>3. CASE z > size[e]
    <3> DEFINE c == t.child[Right][n]
    <3>1. CeilingStep(t, z, w) = [node |-> c, best |-> b]
      <4>1. CeilingStep(t, z, w) = [w EXCEPT !.node = c]
        BY <1>4, <2>1, <2>3 DEF CeilingStep
      <4> QED
        BY <1>1, <4>1
    <3> HIDE DEF e, n, b
    <3>2. /\ c \in U \cup {NULL} /\ (c # NULL => Cardinality(B[c]) + (k + 1) <= Capacity)
          /\ \A y \in B[n] : y = n \/ y \in B[c] \/ Beyond(Left, K[n], K[y])
      <4>1. /\ c \in U \cup {NULL} /\ (c # NULL => Cardinality(B[c]) + (k + 1) <= Capacity)
            /\ \A y \in B[n] : y = n \/ y \in B[c] \/ Beyond(-Right, K[n], K[y])
        BY <1>2, <2>1, NarrowFacts
      <4> QED
        BY <1>2, <4>1
    <3> HIDE DEF c
    <3>3. ASSUME NEW y \in U, z <= K[y], y \in B[n]
          PROVE  y \in B[c]
      <4>1. K[y] \in Nat
        BY <1>2
      <4>2. ~Beyond(Left, K[n], K[y]) /\ y # n
        BY <2>1, <2>3, <3>3, <4>1 DEF Beyond
      <4> QED
        BY <3>2, <3>3, <4>2
    <3>4. [node |-> c, best |-> b] \in Searches(U)
      BY <1>1, <3>2 DEF Searches
    <3>5. Searching(t, U, B, K, z, [node |-> c, best |-> b], k + 1)
      BY <1>1, <3>2, <3>3 DEF Searching
    <3> QED
      BY <3>1, <3>4, <3>5
  <2>4. CASE z < size[e]
    <3> DEFINE c == t.child[Left][n]
               b2 == IF b # Nothing /\ size[b] < size[e] THEN b ELSE e
    <3>1. CeilingStep(t, z, w) = [node |-> c, best |-> b2]
      BY <1>4, <2>1, <2>4 DEF CeilingStep
    <3>2. /\ b2 \in Regions \cup {Nothing} /\ b2 # Nothing /\ size[b2] <= K[n]
          /\ \E y \in U : b2 = t.data[y] /\ z <= K[y]
      <4> HIDE DEF b, e, n
      <4>1. CASE b # Nothing /\ size[b] < size[e]
        <5>1. b2 = b
          BY <4>1
        <5>2. PICK y \in U : b = t.data[y] /\ z <= K[y]
          BY <1>1, <4>1
        <5>3. size[b] \in Nat
          BY <1>2, <5>2
        <5> QED
          BY <1>1, <2>1, <4>1, <5>1, <5>2, <5>3
      <4>2. CASE ~(b # Nothing /\ size[b] < size[e])
        <5>1. b2 = e
          BY <4>2
        <5> QED
          BY <2>1, <2>4, <5>1
      <4> QED
        BY <4>1, <4>2
    <3>3. ASSUME b # Nothing
          PROVE  size[b2] <= size[b] /\ size[b] \in Nat /\ size[b2] \in Nat
      <4> HIDE DEF b, e, n
      <4>1. size[b] \in Nat
        BY <1>1, <1>2, <3>3
      <4>2. CASE size[b] < size[e]
        BY <3>3, <4>1, <4>2
      <4>3. CASE ~(size[b] < size[e])
        BY <2>1, <3>3, <4>1, <4>3
      <4> QED
        BY <4>2, <4>3
    <3> HIDE DEF e, n, b, b2
    <3>4. /\ c \in U \cup {NULL} /\ (c # NULL => Cardinality(B[c]) + (k + 1) <= Capacity)
          /\ \A y \in B[n] : y = n \/ y \in B[c] \/ Beyond(Right, K[n], K[y])
      <4>1. /\ c \in U \cup {NULL} /\ (c # NULL => Cardinality(B[c]) + (k + 1) <= Capacity)
            /\ \A y \in B[n] : y = n \/ y \in B[c] \/ Beyond(-Left, K[n], K[y])
        BY <1>2, <2>1, NarrowFacts
      <4> QED
        BY <1>2, <4>1
    <3> HIDE DEF c
    <3>5. size[b2] \in Nat
      BY <1>2, <3>2
    <3>6. ASSUME NEW y \in U, z <= K[y], y \notin B[c]
          PROVE  size[b2] <= K[y]
      <4>1. K[y] \in Nat
        BY <1>2
      <4>2. CASE y \in B[n]
        <5>1. Beyond(Right, K[n], K[y]) => K[n] <= K[y]
          BY LeftRight DEF Beyond
        <5>2. K[n] <= K[y]
          BY <2>1, <3>4, <3>6, <4>2, <5>1
        <5> QED
          BY <2>1, <3>2, <3>5, <4>1, <5>2
      <4>3. CASE y \notin B[n]
        <5>1. b # Nothing /\ size[b] <= K[y]
          BY <1>1, <3>6, <4>3
        <5> QED
          BY <3>3, <4>1, <5>1
      <4> QED
        BY <4>2, <4>3
    <3>7. [node |-> c, best |-> b2] \in Searches(U)
      BY <3>2, <3>4 DEF Searches
    <3>8. Searching(t, U, B, K, z, [node |-> c, best |-> b2], k + 1)
      BY <3>2, <3>4, <3>6 DEF Searching
    <3> QED
      BY <3>1, <3>7, <3>8
  <2> QED
    BY <2>1, <2>2, <2>3, <2>4
<1> QED
  BY <1>3, <1>4

(* A region of the least key that is not less than z, if there is one.     *)
Answers(t, U, K, z, b) ==
  \/ b = Nothing /\ \A y \in U : ~(z <= K[y])
  \/ \E y \in U : /\ b = t.data[y] /\ z <= K[y]
                  /\ \A x \in U : z <= K[x] => K[y] <= K[x]

LEMMA CeilingFacts ==
  ASSUME NEW t, NEW U, NEW B, NEW K, Stored(t, U, B, K), NEW z \in Nat
  PROVE  Answers(t, U, K, z, Ceiling(t, z))
<1> DEFINE a == [node |-> t.root, best |-> Nothing]
           R == Searches(U)
           W(w, k) == Searching(t, U, B, K, z, w, k)
           F == [w \in R |-> CeilingStep(t, z, w)]
<1>1. /\ U \subseteq Nodes /\ B \in [Links -> SUBSET U] /\ U \subseteq Links
      /\ t.root \in U \cup {NULL} /\ B[t.root] = U /\ NULL \notin U
      /\ \A y \in U, s \in Sides : t.child[s][y] \in U \cup {NULL}
  BY SideFacts DEF Stored, Linked, Links
<1>2. ASSUME NEW w \in R, NEW k \in Nat, W(w, k)
      PROVE  CeilingStep(t, z, w) \in R /\ W(CeilingStep(t, z, w), k + 1)
  BY <1>2, CeilingStepFacts
<1>3. a \in R /\ W(a, 0)
  <2>1. a \in R
    BY <1>1 DEF Searches
  <2>2. U \in SUBSET Nodes
    BY <1>1
  <2>3. Cardinality(U) \in Nat /\ Cardinality(U) <= Capacity
    BY <2>2, Countable
  <2>4. Cardinality(B[t.root]) + 0 <= Capacity
    BY <1>1, <2>3
  <2> QED
    BY <1>1, <2>1, <2>4 DEF Searching
<1>4. F \in [R -> R]
  <2> SUFFICES ASSUME NEW w \in R
               PROVE  CeilingStep(t, z, w) \in R
    OBVIOUS
  <2> DEFINE n == w.node
             e == t.data[n]
             b == IF w.best # Nothing /\ size[w.best] < size[e] THEN w.best ELSE e
             l == [node |-> t.child[Left][n], best |-> b]
             r == [w EXCEPT !.node = t.child[Right][n]]
  <2>1. n \in U \cup {NULL} /\ w.best \in Regions \cup {Nothing}
    BY DEF Searches
  <2>2. CASE n = NULL
    BY <2>2 DEF CeilingStep
  <2>3. CASE n # NULL
    <3>1. /\ e \in Regions /\ size[e] \in Nat
          /\ t.child[Left][n] \in U \cup {NULL} /\ t.child[Right][n] \in U \cup {NULL}
      BY <1>1, <2>1, <2>3, SideFacts DEF Stored, Keyed
    <3>2. b \in Regions \cup {Nothing}
      BY <2>1, <3>1
    <3> HIDE DEF e, b
    <3>3. [node |-> NULL, best |-> e] \in R /\ l \in R /\ r \in R
      BY <3>1, <3>2 DEF Searches
    <3>4. CASE z = size[e]
      BY <2>3, <3>3, <3>4 DEF CeilingStep, e
    <3>5. CASE z > size[e]
      <4>1. CeilingStep(t, z, w) = r
        BY <2>3, <3>1, <3>5 DEF CeilingStep, e
      <4> QED
        BY <3>3, <4>1
    <3>6. CASE z < size[e]
      <4>1. CeilingStep(t, z, w) = l
        BY <2>3, <3>1, <3>6 DEF CeilingStep, e, b
      <4> QED
        BY <3>3, <4>1
    <3> QED
      BY <3>1, <3>4, <3>5, <3>6
  <2> QED
    BY <2>2, <2>3
<1> HIDE DEF a, W, R
<1>5. PICK g \in [Nat -> R] : g[0] = a /\ \A k \in Nat : g[k + 1] = F[g[k]]
  <2> HIDE DEF F
  <2>1. Repeated(R, a, F)
    BY <1>3, <1>4, Iteration
  <2> QED
    BY <2>1 DEF Repeated
<1>6. g = [k \in Nat |-> IF k = 0 THEN a ELSE CeilingStep(t, z, g[k - 1])]
  <2>1. ASSUME NEW k \in Nat, k # 0
        PROVE  g[k] = CeilingStep(t, z, g[k - 1])
    <3>1. k - 1 \in Nat /\ (k - 1) + 1 = k
      BY <2>1
    <3>2. g[k] = F[g[k - 1]] /\ g[k - 1] \in R
      BY <1>5, <3>1
    <3> QED
      BY <3>2
  <2> QED
    BY <1>5, <2>1
<1> DEFINE p == CHOOSE p : p = [k \in Nat |-> IF k = 0 THEN a ELSE CeilingStep(t, z, p[k - 1])]
<1>7. p = [k \in Nat |-> IF k = 0 THEN a ELSE CeilingStep(t, z, p[k - 1])]
  BY <1>6
<1>8. Ceiling(t, z) = p[Capacity].best
  BY DEF Ceiling, a
<1> HIDE DEF p
<1>9. p[0] = a /\ \A k \in Nat : p[k + 1] = CeilingStep(t, z, p[k])
  <2>1. \A k \in Nat : p[k] = IF k = 0 THEN a ELSE CeilingStep(t, z, p[k - 1])
    BY <1>7
  <2>2. p[0] = a
    BY <2>1
  <2>3. ASSUME NEW k \in Nat
        PROVE  p[k + 1] = CeilingStep(t, z, p[k])
    <3>1. k + 1 \in Nat /\ k + 1 # 0 /\ (k + 1) - 1 = k
      OBVIOUS
    <3> QED
      BY <2>1, <3>1
  <2> QED
    BY <2>2, <2>3
<1> DEFINE T == {k \in Nat : p[k] \in R /\ W(p[k], k)}
<1>10. T = Nat
  <2>1. T \in SUBSET Nat /\ 0 \in T
    BY <1>3, <1>9
  <2>2. \A k \in T : k + 1 \in T
    BY <1>2, <1>9
  <2> HIDE DEF T
  <2> QED
    BY <2>1, <2>2, AllNaturals
<1> DEFINE w == p[Capacity]
           m == w.node
<1>11. W(w, Capacity)
  BY <1>10, CapacityAssumption
<1> HIDE DEF w
<1>12. ASSUME m \in U
       PROVE  ~(Cardinality(B[m]) + Capacity <= Capacity)
  <2> DEFINE S == B[m]
             O == {}
  <2>1. S \in SUBSET Nodes /\ O \in SUBSET S /\ m \in S /\ m \notin O
    <3>1. m \in B[m]
      BY <1>1, <1>12, SideFacts DEF Stored, Linked
    <3> QED
      BY <1>1, <1>12, <3>1
  <2> HIDE DEF S, O
  <2>2. Cardinality(O) \in Nat /\ Cardinality(S) \in Nat /\ Cardinality(O) + 1 <= Cardinality(S)
    BY <2>1, Fewer
  <2>3. ~(Cardinality(S) + Capacity <= Capacity)
    BY <2>2, CapacityAssumption
  <2> QED
    BY <2>3 DEF S
<1>13. m = NULL /\ B[m] = {}
  <2>1. m = NULL
    BY <1>1, <1>11, <1>12 DEF W, Searching
  <2> QED
    BY <2>1 DEF Stored, Linked
<1>14. /\ w.best = Nothing \/ \E y \in U : w.best = t.data[y] /\ z <= K[y]
       /\ \A y \in U : z <= K[y] => w.best # Nothing /\ size[w.best] <= K[y]
  BY <1>11, <1>13 DEF W, Searching
<1>15. \A y \in U : K[y] = size[t.data[y]]
  BY DEF Stored, Keyed
<1>16. Answers(t, U, K, z, w.best)
  BY <1>14, <1>15 DEF Answers
<1> QED
  BY <1>8, <1>16 DEF w

(* A search of the tree is a search of the set.                            *)
LEMMA SearchFacts ==
  ASSUME IndexOK, NEW s \in Sizes
  PROVE  Ceiling(tree, s) \in IF Abstract!Fitting(s) = {} THEN {Nothing}
                              ELSE Abstract!Fitting(s)
<1> DEFINE U == Used
           K == KeysOf(tree, size)
           b == Ceiling(tree, s)
<1>1. PICK B : Stored(tree, U, B, K)
  <2>1. PICK B, h : Shaped(tree, U, B, h, K)
    BY DEF IndexOK, Sound
  <2> QED
    BY <2>1, UsedFacts DEF Stored, Shaped, IndexOK
<1>2. s \in Nat
  BY SizesAssumption
<1> HIDE DEF K
<1>3. Answers(tree, U, K, s, b)
  BY <1>1, <1>2, CeilingFacts
<1>4. \A y \in U : K[y] = size[tree.data[y]] /\ K[y] \in Nat /\ tree.data[y] # Nothing
  BY <1>1, NothingAssumption DEF Stored, Keyed
<1>5. indexed = {tree.data[y] : y \in U}
  BY DEF indexed
<1>6. Abstract!Fitting(s) = {e \in indexed : /\ size[e] >= s
                                             /\ \A f \in indexed : size[f] >= s => size[e] <= size[f]}
  BY DEF Abstract!Fitting
<1> HIDE DEF U, b
<1>7. CASE b = Nothing /\ \A y \in U : ~(s <= K[y])
  <2>1. \A e \in indexed : ~(size[e] >= s)
    BY <1>2, <1>4, <1>5, <1>7
  <2>2. Abstract!Fitting(s) = {}
    BY <1>6, <2>1
  <2> QED
    BY <1>7, <2>2 DEF b
<1>8. CASE \E y \in U : /\ b = tree.data[y] /\ s <= K[y]
                        /\ \A x \in U : s <= K[x] => K[y] <= K[x]
  <2>1. PICK y \in U : /\ b = tree.data[y] /\ s <= K[y]
                       /\ \A x \in U : s <= K[x] => K[y] <= K[x]
    BY <1>8
  <2>2. b \in indexed /\ size[b] >= s
    BY <1>2, <1>4, <1>5, <2>1
  <2>3. \A f \in indexed : size[f] >= s => size[b] <= size[f]
    BY <1>2, <1>4, <1>5, <2>1
  <2>4. b \in Abstract!Fitting(s)
    BY <1>6, <2>2, <2>3
  <2> QED
    BY <2>4 DEF b
<1> QED
  BY <1>3, <1>7, <1>8 DEF Answers

(* Each step is a step of the set of regions.                              *)
LEMMA IndexStep ==
  ASSUME IndexOK, [Next]_vars
  PROVE  [Abstract!Next]_<<indexed, size, found>>
<1>1. ASSUME NEW e \in Regions, NEW s \in Sizes, Insert(e, s)
      PROVE  Abstract!Insert(e, s)
  <2>1. indexed' = indexed \cup {e}
    BY <1>1, InsertOK
  <2>2. /\ e \notin indexed /\ Cardinality(indexed) < Capacity
        /\ size' = [size EXCEPT ![e] = s] /\ found' = Nothing
    BY <1>1 DEF Insert
  <2>3. Cardinality(indexed) = Abstract!Cardinality(indexed)
    BY DEF Cardinality, Abstract!Cardinality
  <2> QED
    BY <2>1, <2>2, <2>3 DEF Abstract!Insert
<1>2. ASSUME NEW e \in Regions, Delete(e)
      PROVE  Abstract!Delete(e)
  <2>1. indexed' = indexed \ {e}
    BY <1>2, DeleteOK
  <2> QED
    BY <1>2, <2>1 DEF Delete, Abstract!Delete
<1>3. ASSUME Empty
      PROVE  Abstract!Empty
  <2>1. indexed' = {}
    BY <1>3, EmptyOK
  <2> QED
    BY <1>3, <2>1 DEF Empty, Abstract!Empty
<1>4. ASSUME NEW s \in Sizes, Search(s)
      PROVE  Abstract!Search(s)
  <2>1. found' = <<s, Ceiling(tree, s)>> /\ UNCHANGED <<tree, tnode, size>>
    BY <1>4 DEF Search
  <2>2. indexed' = indexed
    BY <2>1, SameOK
  <2>3. found' \in {s} \X (IF Abstract!Fitting(s) = {} THEN {Nothing}
                           ELSE Abstract!Fitting(s))
    BY <2>1, SearchFacts
  <2> QED
    BY <2>1, <2>2, <2>3 DEF Abstract!Search
<1>5. CASE UNCHANGED vars
  <2>1. indexed' = indexed
    BY <1>5, SameOK DEF vars
  <2> QED
    BY <1>5, <2>1 DEF vars
<1>6. CASE \E e \in Regions, s \in Sizes : Insert(e, s)
  BY <1>1, <1>6 DEF Abstract!Next
<1>7. CASE \E e \in Regions : Delete(e)
  BY <1>2, <1>7 DEF Abstract!Next
<1>8. CASE Empty
  BY <1>3, <1>8 DEF Abstract!Next
<1>9. CASE \E s \in Sizes : Search(s)
  BY <1>4, <1>9 DEF Abstract!Next
<1> QED
  BY <1>5, <1>6, <1>7, <1>8, <1>9 DEF Next

(* What Tree_Insert, Tree_DeleteNode, Tree_Empty and Tree_CSearchNode do   *)
(* to the tree is what CMPI_Get takes them to do to a set of regions; in   *)
(* particular a search finds a smallest region that is large enough,       *)
(* whenever there is one.                                                  *)
THEOREM StepsAlwaysImplementIndex == Spec => StepsImplementIndex
<1>1. IndexOK /\ [Next]_vars => [Abstract!Next]_<<indexed, size, found>>
  BY IndexStep
<1> QED
  BY <1>1, IndexAlways, PTL DEF Spec, StepsImplementIndex

(* The tree implements the set of regions (module FreeIndex), from its     *)
(* creation (Tree_New) on.                                                 *)
THEOREM TreeImplementsIndex == Spec => Abstract!Spec
<1>1. Init => Abstract!Init
  <2> SUFFICES ASSUME Init
               PROVE  Abstract!Init
    OBVIOUS
  <2>1. Used = {}
    BY InitOK DEF Init
  <2>2. indexed = {}
    BY <2>1 DEF indexed
  <2>3. size \in [Regions -> {0}] /\ found = Nothing
    BY DEF Init
  <2> QED
    BY <2>2, <2>3 DEF Abstract!Init
<1>2. IndexOK /\ [Next]_vars => [Abstract!Next]_<<indexed, size, found>>
  BY IndexStep
<1> QED
  BY <1>1, <1>2, IndexAlways, PTL DEF Spec, Abstract!Spec

===============================================================================
