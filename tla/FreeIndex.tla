------------------------------- MODULE FreeIndex -------------------------------
(***************************************************************************)
(* What CMPI_Get relies on in the index of the free regions (free_idx):    *)
(* a set of regions, from which a search takes a smallest one that is      *)
(* large enough.  Module AvlTree implements it.                            *)
(***************************************************************************)
EXTENDS Integers, FiniteSets

CONSTANTS
  Regions,   \* descriptors that may be indexed
  Sizes,     \* sizes of regions and of requests
  Capacity,  \* tot_nodes: how many regions the index can hold
  Nothing    \* the answer of a search that finds no region, no search

VARIABLES
  indexed,  \* the regions in the index
  size,     \* their sizes
  found     \* the size and the answer of a search, if that was the last call

Init ==
  /\ indexed = {}
  /\ size \in [Regions -> {0}]
  /\ found = Nothing

Insert(e, s) ==
  /\ e \notin indexed
  /\ Cardinality(indexed) < Capacity
  /\ indexed' = indexed \cup {e}
  /\ size' = [size EXCEPT ![e] = s]
  /\ found' = Nothing

Delete(e) ==
  /\ e \in indexed
  /\ indexed' = indexed \ {e}
  /\ size' = [size EXCEPT ![e] = 0]
  /\ found' = Nothing

Empty ==
  /\ indexed' = {}
  /\ size' = [e \in Regions |-> 0]
  /\ found' = Nothing

(* Of several regions of the same size any may be found.                   *)
Fitting(s) ==
  {e \in indexed :
     /\ size[e] >= s
     /\ \A f \in indexed : size[f] >= s => size[e] <= size[f]}

Search(s) ==
  /\ found' \in {s} \X (IF Fitting(s) = {} THEN {Nothing} ELSE Fitting(s))
  /\ UNCHANGED <<indexed, size>>

Next ==
  \/ \E e \in Regions, s \in Sizes : Insert(e, s)
  \/ \E e \in Regions : Delete(e)
  \/ Empty
  \/ \E s \in Sizes : Search(s)

Spec == Init /\ [][Next]_<<indexed, size, found>>

===============================================================================
