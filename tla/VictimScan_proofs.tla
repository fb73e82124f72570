--------------------------- MODULE VictimScan_proofs ---------------------------
(***************************************************************************)
(* The scan for a victim is right for every table, every start, every      *)
(* length of the sample and every assignment of scores: it looks at no     *)
(* slot twice and ends with an entry of least score.                       *)
(***************************************************************************)
EXTENDS VictimScan, FiniteSetTheorems, TLAPS

(* The entries met.                                                        *)
Met == Seen \cap Occupied

Types ==
  /\ score \in [Slots -> Scores \cup {NaN, None}]
  /\ start \in Slots
  /\ i \in 0 .. HtEntries
  /\ idx = (start + i) % HtEntries
  /\ done \in BOOLEAN

(* The counters are the sizes of the sets they count; a scan is longer     *)
(* than the sample only until it meets an entry.                           *)
Counts ==
  /\ table_size = Cardinality(Occupied)
  /\ Cardinality(Seen) = i
  /\ c = Cardinality(Met)
  /\ i > MaxScan => c <= 1
  /\ done => ~GoesOn

Best ==
  /\ Met # {} => victim \in Met /\ minscore = score[victim]
  /\ (\A s \in Met : score[s] # NaN) => \A s \in Met : score[victim] <= score[s]

Inv == Types /\ Counts /\ Best

-----------------------------------------------------------------------------
(* Where a scan is after j turns, if it has gone round once at most.       *)
LEMMA Ring ==
  ASSUME NEW s \in Slots, NEW j \in 0 .. HtEntries
  PROVE  (s + j) % HtEntries
           = IF s + j < HtEntries THEN s + j ELSE (s + j) - HtEntries
<1>1. ASSUME NEW n \in Nat \ {0}, NEW a \in Nat, a < n PROVE a % n = a
  BY <1>1
<1>2. ASSUME NEW n \in Nat \ {0}, NEW a \in Nat, n <= a, a < 2 * n
      PROVE  a % n = a - n
  BY <1>2
<1>3. HtEntries \in Nat \ {0} /\ s + j \in Nat /\ s + j < 2 * HtEntries
  BY HtEntriesAssumption DEF Slots
<1> QED
  BY <1>1, <1>2, <1>3

(* One turn further.                                                       *)
LEMMA NextSlot ==
  ASSUME NEW s \in Slots, NEW j \in 0 .. (HtEntries - 1)
  PROVE  (((s + j) % HtEntries) + 1) % HtEntries = (s + (j + 1)) % HtEntries
<1>1. HtEntries \in Nat \ {0} /\ s \in 0 .. (HtEntries - 1)
  BY HtEntriesAssumption DEF Slots
<1>2. j \in 0 .. HtEntries /\ j + 1 \in 0 .. HtEntries
  BY <1>1
<1>3. CASE s + j < HtEntries
  BY <1>1, <1>2, <1>3, Ring
<1>4. CASE s + j >= HtEntries
  <2>1. (s + j) % HtEntries = (s + j) - HtEntries
    BY <1>1, <1>2, <1>4, Ring
  <2>2. (s + (j + 1)) % HtEntries = (s + (j + 1)) - HtEntries
    BY <1>1, <1>2, <1>4, Ring
  <2>3. (s + j) - HtEntries + 1 \in Slots
    BY <1>1, <1>4 DEF Slots
  <2>4. ASSUME NEW r \in Slots PROVE r % HtEntries = r
    <3>1. 0 \in 0 .. HtEntries /\ r + 0 = r /\ r < HtEntries
      BY <1>1 DEF Slots
    <3> QED
      BY <3>1, Ring
  <2> QED
    BY <1>1, <2>1, <2>2, <2>3, <2>4
<1> QED
  BY <1>1, <1>3, <1>4

(* Until the scan has gone round, it looks at slots it has not seen.       *)
LEMMA NoSlotTwice ==
  ASSUME NEW s \in Slots, NEW j \in 0 .. (HtEntries - 1), NEW k \in 0 .. (j - 1)
  PROVE  (s + j) % HtEntries # (s + k) % HtEntries
<1>1. HtEntries \in Nat \ {0} /\ s \in 0 .. (HtEntries - 1)
  BY HtEntriesAssumption DEF Slots
<1>2. j \in 0 .. HtEntries /\ k \in 0 .. HtEntries /\ k < j /\ j < HtEntries
  BY <1>1
<1>3. (s + j) % HtEntries
        = IF s + j < HtEntries THEN s + j ELSE (s + j) - HtEntries
  BY <1>2, Ring
<1>4. (s + k) % HtEntries
        = IF s + k < HtEntries THEN s + k ELSE (s + k) - HtEntries
  BY <1>2, Ring
<1> QED
  BY <1>1, <1>2, <1>3, <1>4

-----------------------------------------------------------------------------
(* The sets that are counted are finite, and c is between 0 and both the   *)
(* turns and the entries there are.                                        *)
LEMMA Finite ==
  ASSUME Types
  PROVE  /\ IsFiniteSet(Slots) /\ Cardinality(Slots) = HtEntries
         /\ Seen \subseteq Slots /\ IsFiniteSet(Seen)
         /\ Occupied \subseteq Slots /\ IsFiniteSet(Occupied)
         /\ IsFiniteSet(Met)
         /\ Cardinality(Met) \in Nat /\ Cardinality(Occupied) \in Nat
         /\ Cardinality(Met) <= Cardinality(Occupied)
<1>1. IsFiniteSet(Slots) /\ Cardinality(Slots) = HtEntries
  BY HtEntriesAssumption, FS_Interval DEF Slots
<1>2. Seen \subseteq Slots
  <2> SUFFICES ASSUME NEW j \in 0 .. (i - 1)
               PROVE  (start + j) % HtEntries \in Slots
    BY DEF Seen
  <2>1. HtEntries \in Nat \ {0} /\ start \in Slots /\ j \in 0 .. HtEntries
    BY HtEntriesAssumption DEF Types
  <2>2. (start + j) % HtEntries = IF start + j < HtEntries THEN start + j
                                  ELSE (start + j) - HtEntries
    BY <2>1, Ring
  <2> QED
    BY <2>1, <2>2 DEF Slots
<1>3. Occupied \subseteq Slots /\ Met \subseteq Occupied
  BY DEF Occupied, Met
<1>4. IsFiniteSet(Seen) /\ IsFiniteSet(Occupied)
  BY <1>1, <1>2, <1>3, FS_Subset
<1>5. IsFiniteSet(Met) /\ Cardinality(Met) <= Cardinality(Occupied)
  BY <1>3, <1>4, FS_Subset
<1> QED
  BY <1>1, <1>2, <1>3, <1>4, <1>5, FS_CardinalityType

(* A scan that goes on has not gone round: after a round it has met every  *)
(* entry.                                                                  *)
LEMMA NotRound ==
  ASSUME Inv, GoesOn
  PROVE  i < HtEntries
<1> SUFFICES ASSUME i = HtEntries PROVE FALSE
  BY HtEntriesAssumption DEF Inv, Types
<1>1. Cardinality(Seen) = Cardinality(Slots)
  BY Finite DEF Inv, Counts
<1>2. Seen = Slots
  BY <1>1, Finite, FS_Subset DEF Inv
<1>3. Met = Occupied
  BY <1>2 DEF Met, Occupied
<1> QED
  BY <1>3, Finite DEF Inv, Counts, GoesOn

(* A turn looks at one more slot.                                          *)
LEMMA OneMore ==
  ASSUME Inv, Turn
  PROVE  /\ idx \in Slots /\ idx \notin Seen
         /\ Seen' = Seen \cup {idx}
         /\ i' = i + 1 /\ i' \in 0 .. HtEntries
         /\ idx' = (start' + i') % HtEntries
         /\ Occupied' = Occupied
         /\ Met' = IF score[idx] = None THEN Met ELSE Met \cup {idx}
<1>1. i < HtEntries
  BY NotRound DEF Turn
<1>2. /\ HtEntries \in Nat \ {0} /\ start \in Slots
      /\ i \in 0 .. (HtEntries - 1) /\ i \in 0 .. HtEntries
      /\ idx = (start + i) % HtEntries
  BY <1>1, HtEntriesAssumption DEF Inv, Types
<1>3. /\ start' = start /\ score' = score /\ i' = i + 1
      /\ idx' = (idx + 1) % HtEntries
  BY DEF Turn
<1>4. idx \in Slots
  <2>1. idx = IF start + i < HtEntries THEN start + i
              ELSE (start + i) - HtEntries
    BY <1>2, Ring
  <2> QED
    BY <1>2, <2>1 DEF Slots
<1>5. idx \notin Seen
  BY <1>2, NoSlotTwice DEF Seen
<1>6. Seen' = Seen \cup {idx}
  <2>1. 0 .. (i' - 1) = (0 .. (i - 1)) \cup {i}
    BY <1>2, <1>3
  <2>2. Seen' = {(start + j) % HtEntries : j \in 0 .. (i' - 1)}
    BY <1>3 DEF Seen
  <2> QED
    BY <1>2, <2>1, <2>2 DEF Seen
<1>7. idx' = (start' + i') % HtEntries
  BY <1>2, <1>3, NextSlot
<1>8. Occupied' = Occupied
  BY <1>3 DEF Occupied
<1>9. Met' = IF score[idx] = None THEN Met ELSE Met \cup {idx}
  BY <1>4, <1>6, <1>8 DEF Met, Occupied
<1> QED
  BY <1>2, <1>3, <1>4, <1>5, <1>6, <1>7, <1>8, <1>9

(* The counters keep counting.                                             *)
LEMMA CountsKept ==
  ASSUME Inv, Turn
  PROVE  Counts'
<1>1. /\ Cardinality(Seen) = i /\ c = Cardinality(Met) /\ i \in Nat
      /\ table_size = Cardinality(Occupied) /\ c \in Nat
  BY Finite DEF Inv, Counts, Types
<1>2. /\ table_size' = table_size /\ done' = done /\ ~done /\ i' = i + 1
      /\ c' = IF score[idx] = None THEN c ELSE c + 1
  BY DEF Turn
<1>3. table_size' = Cardinality(Occupied)'
  BY <1>1, <1>2, OneMore
<1>4. Cardinality(Seen') = i'
  BY <1>1, <1>2, OneMore, Finite, FS_AddElement DEF Inv
<1>5. c' = Cardinality(Met')
  <2>1. idx \notin Met /\ IsFiniteSet(Met)
    BY OneMore, Finite DEF Met, Inv
  <2> QED
    BY <1>1, <1>2, <2>1, OneMore, FS_AddElement
<1>6. i' > MaxScan => c' <= 1
  <2> SUFFICES ASSUME i' > MaxScan PROVE c' <= 1
    OBVIOUS
  <2>1. c = 0
    BY <1>1, <1>2, MaxScanAssumption DEF Turn, GoesOn
  <2> QED
    BY <1>2, <2>1
<1> QED
  BY <1>2, <1>3, <1>4, <1>5, <1>6 DEF Counts

(* The best entry so far stays the best, or gives way to a better one.     *)
LEMMA BestKept ==
  ASSUME Inv, Turn
  PROVE  Best'
<1>1. /\ score' = score /\ Met' = IF score[idx] = None THEN Met
                                  ELSE Met \cup {idx}
  BY OneMore DEF Turn
<1>2. Met # {} <=> c # 0
  BY Finite, FS_EmptySet DEF Inv, Counts
<1>3. \A s \in Met : score[s] # None /\ score[s] \in Scores \cup {NaN}
  BY Finite DEF Met, Occupied, Inv, Types
<1>4. CASE score[idx] = None
  <2>1. victim' = victim /\ minscore' = minscore
    BY <1>4 DEF Turn
  <2> QED
    BY <1>1, <1>4, <2>1 DEF Inv, Best
<1>5. CASE score[idx] # None /\ Better
  <2>1. victim' = idx /\ minscore' = score[idx] /\ Met' = Met \cup {idx}
    BY <1>1, <1>5 DEF Turn
  <2>2. score[idx] \in Scores \cup {NaN}
    BY <1>5, OneMore DEF Inv, Types
  <2>3. ASSUME \A s \in Met' : score[s] # NaN, NEW s \in Met'
        PROVE  score[idx] <= score[s]
    <3>1. score[idx] \in Int
      BY <2>1, <2>2, <2>3, ScoresAssumption
    <3>2. CASE s = idx
      BY <3>1, <3>2
    <3>3. CASE s # idx
      <4>1. s \in Met /\ victim \in Met /\ minscore = score[victim]
        BY <2>1, <3>3 DEF Inv, Best
      <4>2. score[victim] <= score[s]
        BY <2>1, <2>3, <4>1 DEF Inv, Best
      <4>3. score[idx] <= score[victim]
        BY <1>2, <1>5, <4>1 DEF Better, LessOrEqual
      <4>4. score[s] \in Int /\ score[victim] \in Int
        BY <1>3, <2>1, <2>3, <4>1, ScoresAssumption
      <4> QED
        BY <3>1, <4>2, <4>3, <4>4
    <3> QED
      BY <3>2, <3>3
  <2> QED
    BY <1>1, <2>1, <2>3 DEF Best
<1>6. CASE score[idx] # None /\ ~Better
  <2>1. victim' = victim /\ minscore' = minscore /\ Met' = Met \cup {idx}
    BY <1>1, <1>6 DEF Turn
  <2>2. victim \in Met /\ minscore = score[victim] /\ Met # {}
    BY <1>2, <1>6 DEF Inv, Best, Better
  <2>3. ASSUME \A s \in Met' : score[s] # NaN, NEW s \in Met'
        PROVE  score[victim] <= score[s]
    <3>1. CASE s \in Met
      BY <2>1, <2>3, <3>1 DEF Inv, Best
    <3>2. CASE s = idx
      <4>1. score[idx] # NaN /\ score[victim] # NaN
        BY <2>1, <2>2, <2>3
      <4>2. score[idx] \in Int /\ score[victim] \in Int
        BY <1>3, <1>6, <2>2, <4>1, OneMore, ScoresAssumption DEF Inv, Types
      <4>3. ~(score[idx] <= score[victim])
        BY <1>6, <2>2, <4>1 DEF Better, LessOrEqual
      <4> QED
        BY <3>2, <4>2, <4>3
    <3> QED
      BY <2>1, <3>1, <3>2
  <2> QED
    BY <1>1, <2>1, <2>2, <2>3 DEF Best
<1> QED
  BY <1>4, <1>5, <1>6

-----------------------------------------------------------------------------
(* Nothing has been seen yet, and nothing counted.                         *)
LEMMA InitInv == Init => Inv
<1> SUFFICES ASSUME Init PROVE Inv
  OBVIOUS
<1>1. /\ i = 0 /\ c = 0 /\ done = FALSE /\ start \in Slots /\ idx = start
      /\ HtEntries \in Nat \ {0}
  BY HtEntriesAssumption DEF Init
<1>2. Types
  <2>1. 0 \in 0 .. HtEntries /\ start + 0 = start /\ start < HtEntries
    BY <1>1 DEF Slots
  <2>2. idx = (start + 0) % HtEntries
    BY <1>1, <2>1, Ring
  <2> QED
    BY <1>1, <2>1, <2>2 DEF Init, Types
<1>3. Seen = {} /\ Met = {}
  BY <1>1 DEF Seen, Met
<1>4. Cardinality({}) = 0
  BY FS_EmptySet
<1>5. Counts
  BY <1>1, <1>3, <1>4, MaxScanAssumption DEF Init, Counts
<1>6. Best
  BY <1>3 DEF Best
<1> QED
  BY <1>2, <1>5, <1>6 DEF Inv

(* A turn keeps the invariant; so does the end, which only records it.     *)
LEMMA NextInv == Inv /\ [Next]_vars => Inv'
<1> SUFFICES ASSUME Inv, [Next]_vars PROVE Inv'
  OBVIOUS
<1>1. CASE Turn
  <2>1. score' = score /\ start' = start /\ done' = done
    BY <1>1 DEF Turn
  <2>2. Types'
    BY <1>1, <2>1, OneMore DEF Inv, Types, Slots
  <2> QED
    BY <1>1, <2>2, CountsKept, BestKept DEF Inv
<1>2. CASE End
  <2>1. UNCHANGED <<score, table_size, start, idx, i, c, minscore, victim>>
        /\ done' = TRUE /\ ~GoesOn
    BY <1>2 DEF End
  <2>2. UNCHANGED <<Seen, Occupied, Met, GoesOn>>
    BY <2>1 DEF Seen, Occupied, Met, GoesOn
  <2>3. Types'
    BY <2>1 DEF Inv, Types, Slots
  <2>4. Counts'
    BY <2>1, <2>2 DEF Inv, Counts
  <2>5. Best'
    BY <2>1, <2>2 DEF Inv, Best
  <2> QED
    BY <2>3, <2>4, <2>5 DEF Inv
<1>3. CASE UNCHANGED vars
  BY <1>3 DEF vars, Inv, Types, Counts, Best, Met, Seen, Occupied, GoesOn, Slots
<1> QED
  BY <1>1, <1>2, <1>3 DEF Next

(* The invariant holds throughout a scan.                                  *)
LEMMA Invariance == Spec => []Inv
<1> QED
  BY InitInv, NextInv, PTL DEF Spec

(* assert(ivictim!=-1): the scan of a table that is not empty ends with an *)
(* entry of the table, and never looks at a slot twice.                    *)
THEOREM VictimFound == Spec => []FindsVictim
<1>1. Inv => FindsVictim
  <2> SUFFICES ASSUME Inv PROVE FindsVictim
    OBVIOUS
  <2>1. i <= HtEntries
    BY HtEntriesAssumption DEF Inv, Types
  <2>2. ASSUME done, Occupied # {} PROVE victim \in Occupied
    <3>1. table_size # 0
      BY <2>2, Finite, FS_EmptySet DEF Inv, Counts
    <3>2. c # 0
      BY <2>2, <3>1, Finite DEF Inv, Counts, GoesOn
    <3>3. Met # {}
      BY <3>2, FS_EmptySet DEF Inv, Counts
    <3> QED
      BY <3>3 DEF Inv, Best, Met
  <2> QED
    BY <2>1, <2>2 DEF FindsVictim
<1> QED
  BY <1>1, Invariance, PTL

(* The victim has the least score of the entries met.                      *)
THEOREM VictimAlwaysLeast == Spec => []VictimIsLeast
<1>1. Inv => VictimIsLeast
  BY DEF Inv, Best, VictimIsLeast, Met
<1> QED
  BY <1>1, Invariance, PTL

(* What the scan reports is among what module Adaptive takes into account. *)
THEOREM ReportForeseen == Spec => []ScanReported
<1>1. Inv => ScanReported
  <2> SUFFICES ASSUME Inv, done, Occupied # {}
               PROVE  <<i, c>> \in ScanResults(HtEntries, table_size, MaxScan)
    BY DEF ScanReported
  <2>1. /\ i \in Nat /\ i <= HtEntries /\ c \in Nat /\ table_size \in Nat
        /\ HtEntries \in Nat /\ MaxScan \in Nat /\ c <= table_size
        /\ table_size # 0
    BY HtEntriesAssumption, MaxScanAssumption, Finite, FS_EmptySet
       DEF Inv, Types, Counts
  <2>2. ~GoesOn /\ (i > MaxScan => c <= 1)
    BY DEF Inv, Counts
  <2>3. c # 0 /\ (i < MaxScan => c = table_size) /\ (i > MaxScan => c = 1)
    BY <2>1, <2>2 DEF GoesOn
  <2>4. Cardinality(Seen \ Occupied) = i - c /\ IsFiniteSet(Seen \ Occupied)
    BY Finite, FS_Difference DEF Inv, Counts, Met
  <2>5. Cardinality(Slots \ Occupied) = HtEntries - table_size
        /\ IsFiniteSet(Slots \ Occupied)
    <3>1. Slots \cap Occupied = Occupied
      BY DEF Occupied
    <3> QED
      BY <3>1, Finite, FS_Difference DEF Inv, Counts
  <2>6. i - c <= HtEntries - table_size
    <3>1. Seen \ Occupied \subseteq Slots \ Occupied
      BY Finite DEF Inv
    <3>2. Cardinality(Seen \ Occupied) <= Cardinality(Slots \ Occupied)
      BY <2>5, <3>1, FS_Subset
    <3> QED
      BY <2>4, <2>5, <3>2
  <2>7. c <= i
    <3>1. Cardinality(Seen \ Occupied) \in Nat
      BY <2>4, FS_CardinalityType
    <3> QED
      BY <2>1, <2>4, <3>1
  <2>8. <<i, c>> \in (1 .. HtEntries) \X (1 .. table_size)
    BY <2>1, <2>3, <2>7
  <2> QED
    BY <2>3, <2>6, <2>7, <2>8 DEF ScanResults
<1> QED
  BY <1>1, Invariance, PTL

===============================================================================
