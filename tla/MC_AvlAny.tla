------------------------------- MODULE MC_AvlAny -------------------------------
(***************************************************************************)
(* One operation on every AVL tree of fewer than Capacity nodes: what      *)
(* holds before and after it holds after any sequence of operations whose  *)
(* trees stay that small.  Trees of 12 nodes are the first where one       *)
(* deletion needs rotations at two levels.                                 *)
(*                                                                         *)
(* Regions are numbered in order of their sizes.  The nodes are numbered   *)
(* in the same order, which loses nothing: an operation looks at the       *)
(* number of a node only to tell it from the others.                       *)
(***************************************************************************)
EXTENDS AvlTree

VARIABLE done  \* has the one operation been made?

(* The AVL trees over the nodes lo .. hi in order.                         *)
RECURSIVE Shapes(_, _)
Shapes(lo, hi) ==
  IF hi < lo THEN {[root |-> NULL, height |-> 0, kids |-> <<>>, bal |-> <<>>]}
  ELSE UNION {
         LET ls == Shapes(lo, k - 1)
             rs == Shapes(k + 1, hi)
         IN {[root   |-> k,
              height |-> 1 + IF l.height > r.height THEN l.height ELSE r.height,
              kids   |-> l.kids \o <<<<l.root, r.root>>>> \o r.kids,
              bal    |-> l.bal \o <<r.height - l.height>> \o r.bal] :
               <<l, r>> \in {p \in ls \X rs :
                               p[1].height - p[2].height \in -1 .. 1}} :
         k \in lo .. hi}

(* The tree of a shape, its nodes holding the regions of their numbers.    *)
Grown(shape) ==
  LET used == 0 .. (Len(shape.kids) - 1)
      Kid(s, n) == shape.kids[n + 1][IF s = Left THEN 1 ELSE 2]
      Above(n) == {p \in used : n \in {Kid(Left, p), Kid(Right, p)}}
  IN [root    |-> shape.root,
      parent  |-> [n \in Nodes |-> IF n \in used /\ Above(n) # {}
                                   THEN CHOOSE p \in Above(n) : TRUE ELSE NULL],
      child   |-> [s \in Sides |-> [n \in Nodes |->
                     IF n \in used THEN Kid(s, n) ELSE NULL]],
      balance |-> [n \in Nodes |-> IF n \in used THEN shape.bal[n + 1] ELSE 0],
      data    |-> [n \in Nodes |-> IF n \in used THEN n ELSE Nothing],
      free    |-> [i \in 1 .. (Capacity - Len(shape.kids)) |-> Capacity - i]]

(* Sizes that are all different, or the same in pairs.                     *)
AnyInit ==
  /\ tree \in {Grown(s) : s \in UNION {Shapes(0, n) : n \in -1 .. (Capacity - 2)}}
  /\ tnode = [e \in Regions |-> IF e \in indexed THEN e ELSE NULL]
  /\ \E d \in {1, 2} :
       size = [e \in Regions |-> IF e \in indexed THEN 2 * ((e \div d) + 1) ELSE 0]
  /\ found = Nothing
  /\ done = FALSE

AnyNext ==
  /\ ~done
  /\ done' = TRUE
  /\ \/ \E s \in Sizes : Insert(Capacity - 1, s)
     \/ \E e \in Regions : Delete(e)
     \/ Empty
     \/ \E s \in Sizes : Search(s)

AnySpec == AnyInit /\ [][AnyNext]_<<vars, done>>

===============================================================================
