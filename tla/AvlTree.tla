-------------------------------- MODULE AvlTree --------------------------------
(***************************************************************************)
(* The AVL tree that indexes the free regions by size (free_idx):          *)
(* src/src/AVL/AvlTree.c, with the callbacks of src/src/clampi_win.c.      *)
(*                                                                         *)
(* The nodes come from a pool and are linked both ways; a region keeps the *)
(* node it is stored in (tnode) and is deleted through it, so a deletion   *)
(* that moves a region to another node must tell it.                       *)
(*                                                                         *)
(* The two sides of a node are -1 and 1, the sign they have in a balance,  *)
(* and each rotation is written once for both.  A loop of the code is a    *)
(* function of the number of its turns, which its last turn ends: what is  *)
(* then left to do is nothing.                                             *)
(***************************************************************************)
EXTENDS Integers, FiniteSets, SequencesExt

CONSTANTS
  Regions,   \* descriptors that may be indexed
  Sizes,     \* sizes of regions and of requests
  Capacity,  \* tot_nodes
  Nothing    \* a search's NULL

ASSUME SizesAssumption    == Sizes \subseteq Nat
ASSUME CapacityAssumption == Capacity \in Nat \ {0}
ASSUME NothingAssumption  == Nothing \notin Regions

VARIABLES
  tree,   \* the nodes, the root and the stack of unused nodes
  tnode,  \* the node of a region
  size,   \* the size of a region
  found   \* the size and the answer of a search, if that was the last call

vars == <<tree, tnode, size, found>>

NULL  == -1
Left  == -1
Right == 1
Sides == {Left, Right}
Nodes == 0 .. (Capacity - 1)

-----------------------------------------------------------------------------
(* Tree_New and Tree_Empty.  The fields of unused nodes are written before *)
(* they are read.                                                          *)
EmptyTree ==
  [root    |-> NULL,
   parent  |-> [n \in Nodes |-> NULL],
   child   |-> [s \in Sides |-> [n \in Nodes |-> NULL]],
   balance |-> [n \in Nodes |-> 0],
   data    |-> [n \in Nodes |-> Nothing],
   free    |-> [i \in 1 .. Capacity |-> i - 1]]

(* Node p becomes the parent of n, if there is an n.                       *)
Under(t, n, p) == IF n = NULL THEN t ELSE [t EXCEPT !.parent[n] = p]

(* Node m takes the place of n under n's parent p, or at the root.         *)
Hang(t, n, p, m) ==
  IF n = t.root THEN [t EXCEPT !.root = m]
  ELSE LET s == CHOOSE s \in Sides : t.child[s][p] = n
       IN [t EXCEPT !.child[s][p] = m]

(* A slip: the subtree that changes sides keeps its parent.                *)
RotateStale(t, n, s) ==
  LET c == t.child[s][n]
      b == t.balance[c] - s
  IN Hang([t EXCEPT
             !.parent  = [@ EXCEPT ![c] = t.parent[n], ![n] = c],
             !.child   = [@ EXCEPT ![-s][c] = n, ![s][n] = t.child[-s][c]],
             !.balance = [@ EXCEPT ![c] = b, ![n] = -b]],
          n, t.parent[n], c)

(* Tree_RotateLeft (s = Right) and Tree_RotateRight (s = Left): the child  *)
(* c on side s rises above n.                                              *)
Rotate(t, n, s) ==
  LET c == t.child[s][n]
      g == t.child[-s][c]
      b == t.balance[c] - s
      t1 == [t EXCEPT
               !.parent  = [@ EXCEPT ![c] = t.parent[n], ![n] = c],
               !.child   = [@ EXCEPT ![-s][c] = n, ![s][n] = g],
               !.balance = [@ EXCEPT ![c] = b, ![n] = -b]]
  IN Hang(Under(t1, g, n), n, t.parent[n], c)

(* Tree_RotateRightLeft (s = Right) and Tree_RotateLeftRight (s = Left):   *)
(* the grandchild g between n and its child c rises above both.            *)
RotateTwice(t, n, s) ==
  LET c == t.child[s][n]
      g == t.child[-s][c]
      toN == t.child[-s][g]
      toC == t.child[s][g]
      t1 == [t EXCEPT
               !.parent  = [@ EXCEPT ![g] = t.parent[n], ![c] = g, ![n] = g],
               !.child   = [@ EXCEPT ![s][n] = toN, ![-s][c] = toC,
                                     ![s][g] = c, ![-s][g] = n],
               !.balance = [@ EXCEPT ![n] = IF t.balance[g] = s THEN -s ELSE 0,
                                     ![c] = IF t.balance[g] = -s THEN s ELSE 0,
                                     ![g] = 0]]
  IN Hang(Under(Under(t1, toN, n), toC, c), n, t.parent[n], g)

(* The side of its parent that n is on.                                    *)
SideOf(t, n) ==
  LET p == t.parent[n]
  IN IF p = NULL THEN 0 ELSE IF t.child[Left][p] = n THEN Left ELSE Right

(* A walk up the tree: the tree so far, the node it has come to, NULL when *)
(* it is over, and what is to be added to the balance of that node.        *)
Ended(t) == [tree |-> t, node |-> NULL, change |-> 0]
Up(t, n, d) == [tree |-> t, node |-> t.parent[n], change |-> d]

(* A turn of the loop of Tree_InsertBalance: the subtree of the node on    *)
(* the side of the change grew by one.                                     *)
InsertStep(w) ==
  LET n == w.node
      b == w.tree.balance[n] + w.change
      s == IF b < 0 THEN Left ELSE Right
      t == [w.tree EXCEPT !.balance[n] = b]
  IN CASE n = NULL -> w
       [] n # NULL /\ b = 0 -> Ended(t)
       [] n # NULL /\ b \in {-1, 1} -> Up(t, n, SideOf(t, n))
       [] n # NULL /\ b \in {-2, 2} ->
            Ended(IF t.balance[t.child[s][n]] = s THEN Rotate(t, n, s)
                                                  ELSE RotateTwice(t, n, s))

(* A slip: a rotation that left the height as it was does not end it.      *)
DeleteStepOn(w) ==
  LET n == w.node
      b == w.tree.balance[n] + w.change
      s == IF b < 0 THEN Left ELSE Right
      t == [w.tree EXCEPT !.balance[n] = b]
      c == t.child[s][n]
      up(t2, m) == Up(t2, m, -SideOf(t2, m))
  IN CASE n = NULL -> w
       [] n # NULL /\ b = 0 -> up(t, n)
       [] n # NULL /\ b \in {-1, 1} -> Ended(t)
       [] n # NULL /\ b \in {-2, 2} ->
            IF t.balance[c] = -s THEN up(RotateTwice(t, n, s), t.child[-s][c])
                                 ELSE up(Rotate(t, n, s), c)

(* A turn of the loop of Tree_DeleteBalance: the subtree on the other side *)
(* than that of the change shrank by one.                                  *)
DeleteStep(w) ==
  LET n == w.node
      b == w.tree.balance[n] + w.change
      s == IF b < 0 THEN Left ELSE Right
      t == [w.tree EXCEPT !.balance[n] = b]
      c == t.child[s][n]
      \* the walk goes on from the node m now at n's place in t2
      up(t2, m) == Up(t2, m, -SideOf(t2, m))
  IN CASE n = NULL -> w
       [] n # NULL /\ b = 0 -> up(t, n)
       [] n # NULL /\ b \in {-1, 1} -> Ended(t)
       [] n # NULL /\ b \in {-2, 2} ->
            IF t.balance[c] = -s THEN up(RotateTwice(t, n, s), t.child[-s][c])
            ELSE LET t2 == Rotate(t, n, s)
                 IN IF t2.balance[c] = -s THEN Ended(t2) ELSE up(t2, c)

(* No loop makes more turns than there are nodes.                          *)
InsertBalance(t, n, d) ==
  LET w[k \in Nat] == IF k = 0 THEN [tree |-> t, node |-> n, change |-> d]
                                ELSE InsertStep(w[k - 1])
  IN w[Capacity].tree

DeleteBalance(t, n, d) ==
  LET w[k \in Nat] == IF k = 0 THEN [tree |-> t, node |-> n, change |-> d]
                                ELSE DeleteStep(w[k - 1])
  IN w[Capacity].tree

-----------------------------------------------------------------------------
(* Node_New, for a tree that has an unused node.                           *)
NodeNew(t, e, p) ==
  LET n == Last(t.free)
  IN [t EXCEPT !.free = Front(@), !.parent[n] = p, !.data[n] = e,
               !.child = [s \in Sides |-> [@[s] EXCEPT ![n] = NULL]],
               !.balance[n] = 0]

(* A slip: the comparison the wrong way round.                             *)
TowardMirrored(t, z, n) == IF z >= size[t.data[n]] THEN Left ELSE Right

(* Where a region of size z belongs, seen from n: regions that are no      *)
(* larger are on the left (free_entry_comp).                               *)
Toward(t, z, n) == IF z <= size[t.data[n]] THEN Left ELSE Right

(* The node below which there is a free place for a region of size z.      *)
DescentStep(t, z, m) ==
  LET c == t.child[Toward(t, z, m)][m] IN IF c = NULL THEN m ELSE c

Place(t, z, n) ==
  LET m[k \in Nat] == IF k = 0 THEN n ELSE DescentStep(t, z, m[k - 1])
  IN m[Capacity]

(* Tree_Insert.                                                            *)
TreeInsert(t, e, z) ==
  LET n == Last(t.free)
      p == Place(t, z, t.root)
      s == Toward(t, z, p)
  IN IF t.root = NULL THEN [NodeNew(t, e, NULL) EXCEPT !.root = n]
     ELSE InsertBalance([NodeNew(t, e, p) EXCEPT !.child[s][p] = n], p, s)

(* Tree_Replace: node n takes over the contents of its child m.            *)
Replace(t, n, m) ==
  LET l == t.child[Left][m]
      r == t.child[Right][m]
  IN Under(Under([t EXCEPT !.balance[n] = t.balance[m], !.data[n] = t.data[m],
                           !.child = [@ EXCEPT ![Left][n] = l, ![Right][n] = r]],
                 l, n),
           r, n)

(* The least node below n.                                                 *)
LeftStep(t, m) == IF t.child[Left][m] = NULL THEN m ELSE t.child[Left][m]

Leftmost(t, n) ==
  LET m[k \in Nat] == IF k = 0 THEN n ELSE LeftStep(t, m[k - 1])
  IN m[Capacity]

(* Tree_DeleteNode: a node with no child is cut off, one with one child    *)
(* takes over its contents, one with two is replaced by its successor.     *)
(* The node that is given back is not always n.                            *)
DeleteLeaf(t, n) ==
  LET p == t.parent[n] IN
  IF n = t.root THEN [t EXCEPT !.root = NULL]
  ELSE DeleteBalance(Hang(t, n, p, NULL), p, -SideOf(t, n))

Succeed(t, n, m) ==
  Hang(Under([t EXCEPT !.parent[m] = t.parent[n],
                       !.child[Left][m] = t.child[Left][n],
                       !.balance[m] = t.balance[n]],
             t.child[Left][n], m),
       n, t.parent[n], m)

DeleteInner(t, n) ==
  LET r == t.child[Right][n]
      m == Leftmost(t, r)
      p == t.parent[m]
      x == t.child[Right][m]
  IN IF m = r THEN DeleteBalance(Succeed(t, n, m), m, Left)
     ELSE DeleteBalance(
            Succeed(Under([t EXCEPT !.child = [@ EXCEPT ![Left][p] = x, ![Right][m] = r],
                                    !.parent[r] = m],
                          x, p),
                    n, m),
            p, Right)

TreeDelete(t, n) ==
  LET l == t.child[Left][n]
      r == t.child[Right][n]
      only == IF l = NULL THEN r ELSE l
      t1 == CASE l = NULL /\ r = NULL -> DeleteLeaf(t, n)
              [] l # NULL /\ r # NULL -> DeleteInner(t, n)
              [] OTHER -> DeleteBalance(Replace(t, n, only), n, 0)
      unused == IF (l = NULL) # (r = NULL) THEN only ELSE n
  IN [t1 EXCEPT !.free = Append(@, unused)]

(* A slip: a region that changes nodes is not told.                        *)
MovedUntold(t, n) == {}

(* The region that changes nodes in a deletion, told by free_entry_replace *)
Moved(t, n) ==
  LET l == t.child[Left][n]
      r == t.child[Right][n]
  IN IF (l = NULL) # (r = NULL) THEN {t.data[IF l = NULL THEN r ELSE l]} ELSE {}

(* A slip: a region of exactly the right size is passed over.              *)
CeilingStepStrict(t, z, w) ==
  LET e == t.data[w.node] IN
  CASE w.node = NULL -> w
    [] w.node # NULL /\ z >= size[e] ->
         [w EXCEPT !.node = t.child[Right][w.node]]
    [] w.node # NULL /\ z < size[e] ->
         [node |-> t.child[Left][w.node], best |-> e]

(* A turn of the loop of Tree_CSearchNode, that keeps the smallest of the  *)
(* regions met that are larger than z.                                     *)
CeilingStep(t, z, w) ==
  LET e == t.data[w.node]
      smaller == w.best # Nothing /\ size[w.best] < size[e]
  IN CASE w.node = NULL -> w
       [] w.node # NULL /\ z = size[e] -> [node |-> NULL, best |-> e]
       [] w.node # NULL /\ z > size[e] ->
            [w EXCEPT !.node = t.child[Right][w.node]]
       [] w.node # NULL /\ z < size[e] ->
            [node |-> t.child[Left][w.node],
             best |-> IF smaller THEN w.best ELSE e]

(* Tree_CSearchNode.                                                       *)
Ceiling(t, z) ==
  LET w[k \in Nat] == IF k = 0 THEN [node |-> t.root, best |-> Nothing]
                                ELSE CeilingStep(t, z, w[k - 1])
  IN w[Capacity].best

-----------------------------------------------------------------------------
Used    == Nodes \ Range(tree.free)
indexed == {tree.data[n] : n \in Used}

Init ==
  /\ tree = EmptyTree
  /\ tnode = [e \in Regions |-> NULL]
  /\ size = [e \in Regions |-> 0]
  /\ found = Nothing

(* CMPI_Get indexes a region.  It never has more than Capacity at a time   *)
(* (module ClampiWindow: DescriptorsSuffice).                              *)
Insert(e, s) ==
  /\ e \notin indexed
  /\ Cardinality(indexed) < Capacity
  /\ size' = [size EXCEPT ![e] = s]
  /\ tree' = TreeInsert(tree, e, s)
  /\ tnode' = [tnode EXCEPT ![e] = Last(tree.free)]
  /\ found' = Nothing

(* CMPI_Get takes a region out of the index, through its node.             *)
Delete(e) ==
  /\ e \in indexed
  /\ tree' = TreeDelete(tree, tnode[e])
  /\ tnode' = [f \in Regions |-> IF f \in Moved(tree, tnode[e]) THEN tnode[e]
                                 ELSE IF f = e THEN NULL ELSE tnode[f]]
  /\ size' = [size EXCEPT ![e] = 0]
  /\ found' = Nothing

Empty ==
  /\ tree' = EmptyTree
  /\ tnode' = [e \in Regions |-> NULL]
  /\ size' = [e \in Regions |-> 0]
  /\ found' = Nothing

Search(s) ==
  /\ found' = <<s, Ceiling(tree, s)>>
  /\ UNCHANGED <<tree, tnode, size>>

Next ==
  \/ \E e \in Regions, s \in Sizes : Insert(e, s)
  \/ \E e \in Regions : Delete(e)
  \/ Empty
  \/ \E s \in Sizes : Search(s)

Spec == Init /\ [][Next]_vars

-----------------------------------------------------------------------------
(* The index as CMPI_Get sees it.                                          *)
Abstract == INSTANCE FreeIndex

(* The subtree below n, as a set of nodes, and its height.                 *)
Below[n \in Used \cup {NULL}] ==
  IF n = NULL THEN {}
  ELSE {n} \cup Below[tree.child[Left][n]] \cup Below[tree.child[Right][n]]

Height[n \in Used \cup {NULL}] ==
  IF n = NULL THEN 0
  ELSE LET l == Height[tree.child[Left][n]]
           r == Height[tree.child[Right][n]]
       IN 1 + IF l > r THEN l ELSE r

(* The links are those of a tree over the nodes in use, both ways.         *)
TreeOK ==
  /\ IsInjective(tree.free)
  /\ Below[tree.root] = Used
  /\ tree.root # NULL => tree.parent[tree.root] = NULL
  /\ \A n \in Used, s \in Sides :
       tree.child[s][n] # NULL => tree.parent[tree.child[s][n]] = n
  /\ \A n \in Used :
       Below[tree.child[Left][n]] \cap Below[tree.child[Right][n]] = {}

(* Every region finds its own node: nothing else is deleted in its place.  *)
NodeOfRegion == \A n \in Used : tnode[tree.data[n]] = n

(* The regions are in order of size; equal ones may be on either side,     *)
(* since rotations move them.                                              *)
Sorted ==
  \A n \in Used :
    /\ \A m \in Below[tree.child[Left][n]] :
         size[tree.data[m]] <= size[tree.data[n]]
    /\ \A m \in Below[tree.child[Right][n]] :
         size[tree.data[m]] >= size[tree.data[n]]

(* The balance of a node is the difference in height of its subtrees, and  *)
(* no more than one: a search takes logarithmically many steps.            *)
Balanced ==
  \A n \in Used :
    /\ tree.balance[n] \in -1 .. 1
    /\ tree.balance[n] = Height[tree.child[Right][n]] - Height[tree.child[Left][n]]

(* Each operation on the tree is the operation on a set of regions that    *)
(* CMPI_Get takes it for; in particular a search finds a smallest region   *)
(* that is large enough.                                                   *)
StepsImplementIndex == [][Abstract!Next]_<<indexed, size, found>>

===============================================================================
