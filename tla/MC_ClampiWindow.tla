--------------------------- MODULE MC_ClampiWindow ---------------------------
(* Instances of ClampiWindow, with its accounts, for TLC.                   *)
EXTENDS Accounting

(* All requests of the given lengths that lie in the first bytes of the    *)
(* memory of each rank.                                                    *)
RequestsUpTo(last, lengths) ==
  {q \in [rank : Ranks, disp : 0 .. last, size : lengths] :
     q.disp + q.size <= last + 1}

SmallRequests == RequestsUpTo(1, {1, 2})

(* One byte of each rank.                                                  *)
UnitRequests == RequestsUpTo(0, {1})

(* Three bytes of a target, the first two, the second by itself.           *)
NestedRequests ==
  [rank : {0}, disp : {0}, size : {2, 3}]
    \cup {[rank |-> 0, disp |-> 1, size |-> 1]}

(* Few requests, of many lengths: an empty one, and one that is larger     *)
(* than the buffer, included.                                              *)
LayoutRequests ==
  [rank : {0}, disp : {0}, size : {0, 1, 2, MemSize + 1}]
    \cup {[rank |-> 0, disp |-> 1, size |-> 1]}

(* Two requests whose displacements are AddrRange apart.                   *)
FarRequests == {[rank |-> 0, disp |-> d, size |-> 1] : d \in {0, AddrRange}}

(* The first slot of the queue: what might be taken for a pending copy.    *)
FreshValues == {0}

BufSymmetry == Permutations(Bufs)

===============================================================================
