------------------------------ MODULE VictimScan ------------------------------
(***************************************************************************)
(* The scan of the hash table for the entry to evict when the buffer is    *)
(* full: the loop in CMPI_Get (src/src/clampi_get.c), turn by turn, over   *)
(* any contents the table may have.                                        *)
(*                                                                         *)
(* The scan starts anywhere and wraps around.  It looks at CL_MAX_SCAN     *)
(* slots or, if they are all empty, at as many as it takes; it would never *)
(* end if it did not stop when it has met all entries.  A score is a       *)
(* double, and may be 0/0, which compares as neither smaller nor larger    *)
(* than anything: some 800 empty gets in a row, hits for the most part,    *)
(* multiply the mean message size by ALPHA until it is 0, and if the next  *)
(* empty get misses, the buffer being full, entries with no free byte      *)
(* beside them are scored by that mean.                                    *)
(***************************************************************************)
EXTENDS Resizing, FiniteSets

CONSTANTS
  HtEntries,  \* CL_HT_ENTRIES(cache)
  MaxScan,    \* CL_MAX_SCAN
  Scores,     \* scores, other than NaN
  NaN,        \* not a number
  None        \* no entry, no score

ASSUME HtEntriesAssumption == HtEntries \in Nat \ {0}
ASSUME MaxScanAssumption   == MaxScan \in Nat \ {0}
ASSUME ScoresAssumption ==
  Scores \subseteq Int /\ None \notin Scores \cup {NaN} /\ NaN \notin Scores

Slots == 0 .. (HtEntries - 1)

VARIABLES
  score,       \* the score of the entry in a slot, None if lasthit is 0
  table_size,  \* cache->table_size
  start,       \* where the scan began
  idx,         \* the slot to look at
  i,           \* slots looked at
  c,           \* entries met
  minscore,    \* least score so far
  victim,      \* the slot whose index ivictim is, -1 if none was met
  done         \* has the loop ended?

vars == <<score, table_size, start, idx, i, c, minscore, victim, done>>

Occupied == {s \in Slots : score[s] # None}

(* The entries are counted as module CuckooTable shows (SizeCountsSlots).  *)
Init ==
  /\ score \in [Slots -> Scores \cup {NaN, None}]
  /\ table_size = Cardinality(Occupied)
  /\ start \in Slots
  /\ idx = start
  /\ i = 0
  /\ c = 0
  /\ minscore = 0
  /\ victim = -1
  /\ done = FALSE

(* cscore <= minscore, in doubles.                                         *)
LessOrEqual(x, y) == x # NaN /\ y # NaN /\ x <= y

(* Slips: the scan gives up after CL_MAX_SCAN slots, whatever it met; it   *)
(* stops at the first entry; the first entry must beat the initial         *)
(* minscore.                                                               *)
GoesOnShort == i < MaxScan /\ c < table_size
GoesOnFirst == c = 0 /\ c < table_size
BetterOnly  == LessOrEqual(score[idx], minscore)

(* The condition of the loop.                                              *)
GoesOn == (i < MaxScan \/ c = 0) /\ c < table_size

(* The entry in the slot is the best so far.                               *)
Better == LessOrEqual(score[idx], minscore) \/ c = 0

(* A slip: the scan does not step over an empty slot.                      *)
TurnInPlace ==
  /\ ~done
  /\ GoesOn
  /\ score[idx] # None
  /\ IF Better THEN minscore' = score[idx] /\ victim' = idx
               ELSE UNCHANGED <<minscore, victim>>
  /\ c' = c + 1
  /\ idx' = (idx + 1) % HtEntries
  /\ i' = i + 1
  /\ UNCHANGED <<score, table_size, start, done>>

Turn ==
  /\ ~done
  /\ GoesOn
  /\ IF score[idx] = None
     THEN UNCHANGED <<minscore, victim, c>>
     ELSE /\ IF Better THEN minscore' = score[idx] /\ victim' = idx
                       ELSE UNCHANGED <<minscore, victim>>
          /\ c' = c + 1
  /\ idx' = (idx + 1) % HtEntries
  /\ i' = i + 1
  /\ UNCHANGED <<score, table_size, start, done>>

End ==
  /\ ~done
  /\ ~GoesOn
  /\ done' = TRUE
  /\ UNCHANGED <<score, table_size, start, idx, i, c, minscore, victim>>

Next == Turn \/ End

(* The loop is sequential code: it goes on as long as it can.              *)
Spec == Init /\ [][Next]_vars /\ WF_vars(Next)

-----------------------------------------------------------------------------
(* "Do not visit more than cache->table_size entries (otw you will loop)": *)
(* the scan ends, whatever the table holds and wherever it begins.         *)
ScanEnds == <>done

(* assert(ivictim!=-1): the scan of a table that is not empty ends with an *)
(* entry of the table, and it has looked at no slot twice for it.          *)
FindsVictim ==
  /\ i <= HtEntries
  /\ done /\ Occupied # {} => victim \in Occupied

(* The slots looked at.                                                    *)
Seen == {(start + j) % HtEntries : j \in 0 .. (i - 1)}

(* The victim has the least score of the entries met, as long as the       *)
(* scores are numbers.                                                     *)
VictimIsLeast ==
  \A s \in Seen \cap Occupied :
    /\ victim \in Seen \cap Occupied
    /\ (\A r \in Seen \cap Occupied : score[r] # NaN) => score[victim] <= score[s]

(* What the scan reports to the adaptive scheme: the numbers of slots and  *)
(* of entries it has seen, among those module Adaptive takes into account. *)
(* CL_MAX_SCAN slots, unless every entry has been met before.              *)
ScanReported ==
  done /\ Occupied # {} => <<i, c>> \in ScanResults(HtEntries, table_size, MaxScan)

===============================================================================
