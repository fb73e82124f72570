------------------------------ MODULE EntryIndex ------------------------------
(***************************************************************************)
(* What the rest of CLaMPI relies on in the hash table of the cache        *)
(* entries: a partial map from keys to descriptors.  It is what module     *)
(* ClampiWindow assumes of the table; module CuckooTable implements it.    *)
(***************************************************************************)
EXTENDS Integers, FiniteSets

CONSTANTS
  Keys,       \* the keys of entries: rank, displacement, size
  Entries,    \* descriptors
  HtEntries,  \* slots of the table
  None        \* no key, no descriptor

VARIABLES
  get_info,  \* the key a descriptor is indexed under
  answer     \* the descriptor the last lookup found

Indexed == {e \in Entries : get_info[e] # None}

Holding(k) == {e \in Indexed : get_info[e] = k}

Init ==
  /\ get_info = [e \in Entries |-> None]
  /\ answer = None

(* A key that is indexed is found.                                         *)
Hit(k) ==
  /\ answer' \in Holding(k)
  /\ UNCHANGED get_info

(* Of a key that is not indexed, one entry at most goes, the one that was  *)
(* chosen as the victim, ...                                               *)
Evict(v) ==
  /\ get_info' = [get_info EXCEPT ![v] = None]
  /\ answer' = None

(* ... and the new one comes.                                              *)
Cache(k, v, e) ==
  /\ e \notin Indexed \ {v}
  /\ Cardinality(Indexed \ {v}) < HtEntries
  /\ get_info' = [f \in Entries |-> IF f = e THEN k
                                    ELSE IF f = v THEN None ELSE get_info[f]]
  /\ answer' = None

Miss(k) ==
  /\ Holding(k) = {}
  /\ \/ \E v \in Indexed : Evict(v)
     \/ \E v \in Indexed \cup {None}, e \in Entries : Cache(k, v, e)

Invalidate ==
  /\ get_info' = [e \in Entries |-> None]
  /\ answer' = None

Next ==
  \/ \E k \in Keys : Hit(k) \/ Miss(k)
  \/ Invalidate

Spec == Init /\ [][Next]_<<get_info, answer>>

===============================================================================
