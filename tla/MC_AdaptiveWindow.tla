-------------------------- MODULE MC_AdaptiveWindow --------------------------
(* Instances of AdaptiveWindow for TLC.                                    *)
EXTENDS AdaptiveWindow, TLC

(* Two bytes of a target, and the second by itself.                        *)
TwoRequests ==
  {[rank |-> 0, disp |-> 1, size |-> 1], [rank |-> 0, disp |-> 0, size |-> 2]}

(* The first slot of the queue: what might be taken for a pending copy.    *)
FreshValues == {0}

BufSymmetry == Permutations(Bufs)

===============================================================================
