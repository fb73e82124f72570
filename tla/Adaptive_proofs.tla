--------------------------- MODULE Adaptive_proofs ---------------------------
(***************************************************************************)
(* The table never becomes too small for the hash, whatever its configured *)
(* size, the length of a scan and the history of evictions; and, where the *)
(* sizes fit the integers they are kept in, no change of size is one that  *)
(* module AdaptiveWindow leaves out.                                       *)
(***************************************************************************)
EXTENDS Adaptive, TLAPS

Stats ==
  [ht_evictions : Nat, sp_evictions : Nat, last_eviction_scan : Nat,
   tot_eviction_scan : Nat, tot_eviction_sample : Nat]

(* No table is asked for whose number of entries does not fit newval_ht,   *)
(* an int.                                                                 *)
TablesFit == MaxHt < IntRange \div 2

FitsHash(n) == TablesFit => n >= 4 /\ n < IntRange \div 2

(* HashHasSlots is not inductive: it is the size of the scans that keeps a *)
(* small table from being made smaller.                                    *)
Inv ==
  /\ ht_entries \in Nat
  /\ mem_size \in Int
  /\ getcount \in Nat
  /\ table_size \in Int
  /\ stat \in Stats
  /\ FitsHash(ht_entries)
  /\ ScansFitTable

(* A product is monotonic.                                                 *)
LEMMA Monotonic ==
  ASSUME NEW s \in Nat, NEW m \in Nat, NEW n \in Nat, m <= n
  PROVE  m * s <= n * s
<1>1. PICK d \in Nat : n = m + d
  <2>1. n - m \in Nat /\ n = m + (n - m)
    OBVIOUS
  <2> QED BY <2>1
<1>2. d * s \in Nat
  OBVIOUS
<1>3. n * s = m * s + d * s
  BY <1>1
<1> QED BY <1>2, <1>3

(* Where the scans so far met fewer entries than one in ten slots, the     *)
(* table has more than ten.                                                *)
LEMMA SparseIsLarge ==
  ASSUME NEW s \in Stats, NEW n \in Nat, NEW g,
         s.tot_eviction_scan <= s.sp_evictions * n,
         s.tot_eviction_sample >= s.sp_evictions,
         HtTooLarge(g, s)
  PROVE  n > 10
<1> DEFINE k == s.sp_evictions
<1>1. k \in Nat /\ s.tot_eviction_scan \in Nat /\ s.tot_eviction_sample \in Nat
  BY DEF Stats
<1>2. 10 * k <= 10 * s.tot_eviction_sample
  BY <1>1
<1>3. 10 * s.tot_eviction_sample < s.tot_eviction_scan
  BY DEF HtTooLarge
<1>4. k * n \in Nat /\ k * n = n * k
  BY <1>1
<1>5. 10 * k < n * k
  BY <1>1, <1>2, <1>3, <1>4
<1>6. n <= 10 => n * k <= 10 * k
  BY <1>1, Monotonic
<1> QED BY <1>1, <1>4, <1>5, <1>6

(* An empty cache of enough slots satisfies the invariant.                 *)
LEMMA ResizeInv ==
  ASSUME NEW n \in Nat, FitsHash(n), NEW m \in Int, Resize(n, m)
  PROVE  Inv'
<1>1. NoStats \in Stats
  BY DEF NoStats, Stats
<1>2. ht_entries' = n /\ mem_size' = m /\ getcount' = 0 /\ table_size' = 0
      /\ stat' = NoStats
  BY DEF Resize
<1>3. NoStats.tot_eviction_scan = 0 /\ NoStats.sp_evictions = 0
      /\ NoStats.tot_eviction_sample = 0
  BY DEF NoStats
<1>4. ScansFitTable'
  BY <1>2, <1>3 DEF ScansFitTable
<1> QED BY <1>1, <1>2, <1>4 DEF Inv, FitsHash

(* The sizes cl_adapt computes.                                            *)
LEMMA SizesTyped ==
  /\ \A n \in Nat : Increased(n) \in Nat /\ Decreased(n) \in Nat
  /\ \A n \in Nat : n >= 4 => Increased(n) >= 4
  /\ \A n \in Nat : n > 10 => Decreased(n) >= 4
  /\ \A n \in Nat : Decreased(n) <= n
BY DEF Increased, Decreased

(* A number that fits an int is stored as it is, and any other as some     *)
(* number of slots.                                                        *)
LEMMA Stored ==
  ASSUME NEW x \in Nat, NEW n \in NewHtEntries(x)
  PROVE  n \in Nat /\ (x < IntRange \div 2 => n = x)
  BY IntRangeAssumption DEF NewHtEntries

(* What a scan adds to the counters.                                       *)
LEMMA ScannedCounts ==
  ASSUME stat \in Stats, NEW i \in Nat, NEW c \in Nat
  PROVE  /\ Scanned(i, c) \in Stats
         /\ Scanned(i, c).sp_evictions = stat.sp_evictions + 1
         /\ Scanned(i, c).tot_eviction_scan = stat.tot_eviction_scan + i
         /\ Scanned(i, c).tot_eviction_sample = stat.tot_eviction_sample + c
<1> DEFINE x == stat.sp_evictions + 1
           y == stat.tot_eviction_scan + i
           z == stat.tot_eviction_sample + c
           new == [stat EXCEPT !.sp_evictions = x, !.last_eviction_scan = i,
                               !.tot_eviction_scan = y,
                               !.tot_eviction_sample = z]
<1>1. x \in Nat /\ y \in Nat /\ z \in Nat
  BY DEF Stats
<1>2. Scanned(i, c) = new
  BY DEF Scanned
<1> HIDE DEF x, y, z
<1>3. new \in Stats
  BY <1>1 DEF Stats
<1>4. new.sp_evictions = x /\ new.tot_eviction_scan = y
      /\ new.tot_eviction_sample = z
  BY DEF Stats
<1> QED BY <1>2, <1>3, <1>4 DEF x, y, z

(* A get that counts an eviction in s, which the scans of this table allow. *)
LEMMA EvictingInv ==
  ASSUME Inv, NEW s \in Stats,
         s.tot_eviction_scan <= s.sp_evictions * ht_entries,
         s.tot_eviction_sample >= s.sp_evictions,
         NewMemSize(2 * mem_size) \in Int,
         GetEvicting(s)
  PROVE  Inv'
<1>1. ht_entries \in Nat /\ FitsHash(ht_entries) /\ mem_size \in Int
  BY DEF Inv
<1>2. CASE IncreaseHt(s)
  <2>1. PICK n \in NewHtEntries(Increased(ht_entries)) : Resize(n, mem_size)
    BY <1>2 DEF IncreaseHt
  <2>2. Increased(ht_entries) \in Nat /\ Increased(ht_entries) <= MaxHt
    BY <1>1, <1>2, SizesTyped DEF IncreaseHt
  <2>3. n \in Nat /\ (TablesFit => n = Increased(ht_entries))
    BY <2>2, Stored, IntRangeAssumption, MaxHtAssumption DEF TablesFit
  <2>4. FitsHash(n)
    BY <1>1, <2>2, <2>3, SizesTyped, IntRangeAssumption, MaxHtAssumption
    DEF FitsHash, TablesFit
  <2> QED BY <1>1, <2>1, <2>3, <2>4, ResizeInv
<1>3. CASE DecreaseHt(s)
  <2>1. PICK n \in NewHtEntries(Decreased(ht_entries)) : Resize(n, mem_size)
    BY <1>3 DEF DecreaseHt
  <2>2. ht_entries > 10
    BY <1>1, <1>3, SparseIsLarge DEF DecreaseHt
  <2>3. Decreased(ht_entries) \in Nat /\ Decreased(ht_entries) <= ht_entries
    BY <1>1, SizesTyped
  <2>4. n \in Nat /\ (TablesFit => n = Decreased(ht_entries))
    BY <1>1, <2>3, Stored, IntRangeAssumption DEF FitsHash
  <2>5. FitsHash(n)
    BY <1>1, <2>2, <2>3, <2>4, SizesTyped, IntRangeAssumption DEF FitsHash
  <2> QED BY <1>1, <2>1, <2>4, <2>5, ResizeInv
<1>4. CASE IncreaseMem(s)
  <2>1. Resize(ht_entries, NewMemSize(2 * mem_size))
    BY <1>4 DEF IncreaseMem
  <2> QED BY <1>1, <2>1, ResizeInv
<1>5. CASE Evict(s)
  <2>1. /\ getcount' = getcount + 1 /\ stat' = s
        /\ table_size' \in {table_size, table_size - 1}
        /\ ht_entries' = ht_entries /\ mem_size' = mem_size
    BY <1>5 DEF Evict
  <2> QED BY <2>1 DEF Inv, ScansFitTable
<1> QED BY <1>2, <1>3, <1>4, <1>5 DEF GetEvicting

(* A buffer's size is a number.                                            *)
LEMMA MemSizeTyped ==
  ASSUME NEW x \in Int, LongRange \in Nat \ {0}
  PROVE  NewMemSize(x) \in Int
<1> DEFINE y == ToInt(x) + CacheLine - 1
<1>1. CacheLine \in Nat \ {0} /\ IntRange \in Nat \ {0}
  BY CacheLineAssumption, IntRangeAssumption
<1>2. ToInt(x) \in Int
  BY <1>1 DEF ToInt
<1>3. y \in Int
  BY <1>1, <1>2
<1>4. \A z \in Int : Quotient(z, CacheLine) \in Int
  BY <1>1 DEF Quotient
<1>5. Quotient(y, CacheLine) \in Int
  BY <1>3, <1>4
<1>6. Quotient(y, CacheLine) * CacheLine \in Int
  BY <1>1, <1>5
<1>7. \A z \in Int : ToLong(z) \in Int
  BY DEF ToLong
<1> QED BY <1>6, <1>7 DEF NewMemSize

(* The invariant holds at first.                                           *)
LEMMA InitInv == Init => Inv
<1> SUFFICES ASSUME Init PROVE Inv
  OBVIOUS
<1>1. NoStats \in Stats
  BY DEF NoStats, Stats
<1>2. CLALIGN(MemSize, CacheLine) \in Int
  BY MemSizeAssumption, CacheLineAssumption DEF CLALIGN
<1>3. ScansFitTable
  BY HtSizeAssumption DEF Init, NoStats, ScansFitTable
<1> QED
  BY <1>1, <1>2, <1>3, HtSizeAssumption DEF Init, Inv, FitsHash

(* Every step keeps it.                                                    *)
LEMMA NextInv == Inv /\ [Next]_vars => Inv'
<1> SUFFICES ASSUME Inv, [Next]_vars PROVE Inv'
  OBVIOUS
<1>t. /\ ht_entries \in Nat /\ FitsHash(ht_entries) /\ mem_size \in Int
      /\ getcount \in Nat /\ table_size \in Int /\ stat \in Stats
      /\ stat.sp_evictions \in Nat /\ stat.ht_evictions \in Nat
      /\ stat.last_eviction_scan \in Nat
      /\ stat.tot_eviction_scan \in Nat /\ stat.tot_eviction_sample \in Nat
  BY DEF Inv, Stats
<1>f. /\ stat.tot_eviction_scan <= stat.sp_evictions * ht_entries
      /\ stat.tot_eviction_sample >= stat.sp_evictions
  BY DEF Inv, ScansFitTable
<1>m. NewMemSize(2 * mem_size) \in Int /\ NewMemSize(MemSize) \in Int
  BY <1>t, MemSizeTyped, MemSizeAssumption, LongRangeAssumption
<1>1. CASE Get
  <2>1. /\ getcount' = getcount + 1 /\ stat' = stat
        /\ table_size' \in {table_size, table_size + 1}
        /\ ht_entries' = ht_entries /\ mem_size' = mem_size
    BY <1>1 DEF Get
  <2> QED BY <2>1 DEF Inv, ScansFitTable
<1>2. CASE GetConflict
  <2>1. Conflict \in Stats
    BY <1>t DEF Conflict, Stats
  <2>2. /\ Conflict.tot_eviction_scan = stat.tot_eviction_scan
        /\ Conflict.tot_eviction_sample = stat.tot_eviction_sample
        /\ Conflict.sp_evictions = stat.sp_evictions
    BY <1>t DEF Conflict, Stats
  <2>3. GetEvicting(Conflict)
    BY <1>2 DEF GetConflict
  <2> QED BY <1>f, <1>m, <2>1, <2>2, <2>3, EvictingInv
<1>3. CASE GetNoSpace
  <2>1. PICK r \in ScanResults(ht_entries, table_size, MaxScan) :
               GetEvicting(Scanned(r[1], r[2]))
    BY <1>3 DEF GetNoSpace
  <2> DEFINE i == r[1]
             c == r[2]
             s == Scanned(i, c)
             k == stat.sp_evictions
  <2>2. i \in Nat /\ i <= ht_entries /\ c \in Nat /\ c >= 1
    BY <1>t, <2>1 DEF ScanResults
  <2>3. /\ s \in Stats
        /\ s.sp_evictions = k + 1
        /\ s.tot_eviction_scan = stat.tot_eviction_scan + i
        /\ s.tot_eviction_sample = stat.tot_eviction_sample + c
    BY <1>t, <2>2, ScannedCounts
  <2>4. k * ht_entries \in Int /\ (k + 1) * ht_entries = k * ht_entries + ht_entries
    BY <1>t
  <2>5. s.tot_eviction_scan <= s.sp_evictions * ht_entries
    BY <1>t, <1>f, <2>2, <2>3, <2>4
  <2>6. s.tot_eviction_sample >= s.sp_evictions
    BY <1>t, <1>f, <2>2, <2>3
  <2> HIDE DEF s
  <2> QED BY <1>m, <2>1, <2>3, <2>5, <2>6, EvictingInv DEF s
<1>4. CASE Invalidate
  <2>1. Resize(ht_entries, mem_size)
    BY <1>4 DEF Invalidate
  <2> QED BY <1>t, <2>1, ResizeInv
<1>5. CASE Reset
  <2>1. Resize(ToInt(HtSize), NewMemSize(MemSize))
    BY <1>5 DEF Reset
  <2>2. ToInt(HtSize) = HtSize
    BY HtSizeAssumption, IntRangeAssumption DEF ToInt
  <2>3. HtSize \in Nat /\ FitsHash(HtSize)
    BY HtSizeAssumption DEF FitsHash
  <2> QED BY <1>m, <2>1, <2>2, <2>3, ResizeInv
<1>6. CASE UNCHANGED vars
  BY <1>6 DEF vars, Inv, ScansFitTable
<1> QED BY <1>1, <1>2, <1>3, <1>4, <1>5, <1>6 DEF Next

(* However often cl_adapt makes the table smaller, CMPI_HASH never divides *)
(* by zero, as long as no larger table is asked for than an int can count. *)
THEOREM HashAlwaysHasSlots ==
  ASSUME TablesFit
  PROVE  Spec => []HashHasSlots
<1>1. Inv => HashHasSlots
  BY DEF Inv, FitsHash, HashHasSlots
<1> QED BY <1>1, InitInv, NextInv, PTL DEF Spec

(* The counters never speak of a table that has been replaced, whatever    *)
(* number of slots it has been given.                                      *)
THEOREM ScansAlwaysFitTable == Spec => []ScansFitTable
<1>1. Inv => ScansFitTable
  BY DEF Inv
<1> QED BY <1>1, InitInv, NextInv, PTL DEF Spec

-----------------------------------------------------------------------------
(* What ChangesForeseen asks of the machine besides TablesFit, and what    *)
(* the code's values give: two cache lines divide the range of an int (64  *)
(* and 2^32), the configured buffer fits an int, and nothing of nearly     *)
(* LongRange bytes can be allocated, which is what an int that has become  *)
(* negative reads as.                                                      *)
LinesFit == \E w \in Nat \ {0} : IntRange = w * (2 * CacheLine)

BufferFits == CLALIGN(MemSize, CacheLine) < IntRange \div 2

NegativeTooLarge == IntRange <= LongRange /\ MaxAlloc <= LongRange - IntRange

(* While the process runs, the buffer is whole lines and fits an int.      *)
WholeLines ==
  process = "running" =>
    mem_size < IntRange \div 2 /\ \E j \in Nat : mem_size = j * CacheLine

(* Of a multiple of the line, as many lines are needed; of a negative one, *)
(* one line less, since the division truncates.                            *)
LEMMA Lines ==
  ASSUME NEW line \in Nat \ {0}, NEW j \in Int
  PROVE  /\ j >= 0 => Quotient(j * line + line - 1, line) = j
         /\ j < 0 => Quotient(j * line + line - 1, line) \in {j, j + 1}
<1>1. CASE j >= 0
  <2>1. j * line \in Nat /\ j * line + line - 1 >= 0
    BY <1>1
  <2>2. (j * line + line - 1) \div line = j
    BY <1>1, <2>1
  <2> QED
    BY <1>1, <2>1, <2>2 DEF Quotient
<1>2. CASE j < 0
  <2> DEFINE x == j * line + line - 1
  <2>1. x \in Int /\ (line = 1 => x = j)
    OBVIOUS
  <2>2. PICK i \in Nat : j = -1 - i
    <3>1. -1 - j \in Nat /\ j = -1 - (-1 - j)
      BY <1>2
    <3> QED
      BY <3>1
  <2>3. i * line \in Nat /\ x = -(i * line) - 1
    BY <2>2
  <2>4. Quotient(x, line) = -((i * line + 1) \div line)
    BY <2>3 DEF Quotient
  <2>5. (i * line + 1) \div line \in {i, i + 1}
    OBVIOUS
  <2> QED
    BY <1>2, <2>2, <2>4, <2>5
<1> QED
  BY <1>1, <1>2

(* A number of lines that fits an int is what it is aligned to.            *)
LEMMA Aligned ==
  ASSUME LinesFit, NegativeTooLarge,
         NEW j \in Nat, j * CacheLine < IntRange \div 2
  PROVE  /\ NewMemSize(j * CacheLine) = j * CacheLine
         /\ CLALIGN(j * CacheLine, CacheLine) = j * CacheLine
<1> DEFINE line == CacheLine
           x == j * line
<1>1. /\ line \in Nat \ {0} /\ IntRange \in Nat \ {0} /\ LongRange \in Nat \ {0}
      /\ IntRange <= LongRange
  BY CacheLineAssumption, IntRangeAssumption, LongRangeAssumption DEF NegativeTooLarge
<1> HIDE DEF line
<1>2. x \in Nat /\ x < IntRange \div 2
  BY <1>1 DEF line
<1>3. Quotient(x + line - 1, line) = j /\ (x + line - 1) \div line = j
  <2>1. Quotient(x + line - 1, line) = j
    BY <1>1, Lines
  <2>2. x + line - 1 >= 0
    BY <1>1, <1>2
  <2> QED
    BY <2>1, <2>2 DEF Quotient
<1>4. ToInt(x) = x /\ ToLong(x) = x
  <2> HIDE DEF x
  <2> QED
    BY <1>1, <1>2 DEF ToInt, ToLong
<1> QED
  BY <1>3, <1>4 DEF NewMemSize, CLALIGN, line

(* If the doubled buffer can be allocated, doubling it did not overflow.   *)
LEMMA DoublingForeseen ==
  ASSUME LinesFit, NegativeTooLarge, NEW m,
         m < IntRange \div 2, \E j \in Nat : m = j * CacheLine,
         NewMemSize(2 * m) <= MaxAlloc
  PROVE  /\ NewMemSize(2 * m) = CLALIGN(2 * m, CacheLine)
         /\ NewMemSize(2 * m) < IntRange \div 2
         /\ \E j \in Nat : NewMemSize(2 * m) = j * CacheLine
<1> DEFINE line == CacheLine
<1>1. /\ line \in Nat \ {0} /\ IntRange \in Nat \ {0} /\ LongRange \in Nat \ {0}
      /\ IntRange <= LongRange /\ MaxAlloc <= LongRange - IntRange /\ MaxAlloc \in Nat
  BY CacheLineAssumption, IntRangeAssumption, LongRangeAssumption,
     MaxAllocAssumption DEF NegativeTooLarge
<1>2. PICK j \in Nat : m = j * line
  OBVIOUS
<1>3. PICK w \in Nat \ {0} : IntRange = w * (2 * line)
  BY DEF LinesFit
<1> HIDE DEF line
<1>4. /\ w * line \in Nat /\ IntRange \div 2 = w * line /\ IntRange = 2 * (w * line)
      /\ j * line \in Nat /\ 2 * m = (2 * j) * line /\ 2 * m = 2 * (j * line)
      /\ m = j * line /\ j * line < w * line
  <2>1. w * line \in Nat /\ IntRange = 2 * (w * line)
    BY <1>1, <1>3
  <2>2. IntRange \div 2 = w * line
    BY <2>1
  <2>3. j * line \in Nat /\ 2 * m = (2 * j) * line /\ 2 * m = 2 * (j * line)
    BY <1>1, <1>2
  <2> QED
    BY <1>2, <2>1, <2>2, <2>3
<1>5. CASE 2 * m < IntRange \div 2
  <2>1. 2 * j \in Nat /\ (2 * j) * CacheLine < IntRange \div 2
    BY <1>4, <1>5 DEF line
  <2>2. /\ NewMemSize((2 * j) * CacheLine) = (2 * j) * CacheLine
        /\ CLALIGN((2 * j) * CacheLine, CacheLine) = (2 * j) * CacheLine
    BY <2>1, Aligned
  <2>3. 2 * m = (2 * j) * CacheLine
    BY <1>4 DEF line
  <2> QED
    BY <2>1, <2>2, <2>3
<1>6. CASE ~ 2 * m < IntRange \div 2
  <2> DEFINE i == 2 * j - 2 * w
             a == j * line
             b == w * line
             q == Quotient(ToInt(2 * m) + line - 1, line)
  <2>1. a \in Nat /\ b \in Nat /\ a < b /\ b <= 2 * a /\ 0 < b
    BY <1>4, <1>6
  <2>2. i * line = 2 * a - 2 * b /\ i \in Int
    BY <1>1
  <2>3. i < 0 /\ i <= -2
    <3>1. w <= j => w * line <= j * line
      BY <1>1, Monotonic
    <3>2. j < w
      BY <1>4, <3>1
    <3> QED
      BY <3>2
  <2>4. ToInt(2 * m) = i * line
    <3> HIDE DEF a, b, i
    <3>1. 2 * m = 2 * a /\ IntRange = 2 * b /\ IntRange \div 2 = b
      BY <1>4 DEF a, b
    <3>2. (2 * a) % (2 * b) = 2 * a
      BY <2>1
    <3> QED
      BY <2>1, <2>2, <3>1, <3>2 DEF ToInt
  <2>5. q \in {i, i + 1}
    BY <1>1, <2>2, <2>3, <2>4, Lines
  <2>6. q * line \in {2 * a - 2 * b, 2 * a - 2 * b + line} /\ q * line < 0
    <3>1. (i + 1) * line = i * line + line
      BY <1>1
    <3>2. q \in Int /\ q <= -1
      BY <2>3, <2>5
    <3> HIDE DEF i, q, a, b
    <3>3. PICK d \in Nat : q = -1 - d
      <4>1. -1 - q \in Nat /\ q = -1 - (-1 - q)
        BY <3>2
      <4> QED
        BY <4>1
    <3>4. q * line = -line - d * line /\ d * line \in Nat
      BY <1>1, <3>3
    <3> QED
      BY <1>1, <2>2, <2>5, <3>1, <3>4
  <2>7. q * line \in Int /\ q * line > -(2 * b) /\ 2 * b <= LongRange
    <3> HIDE DEF a, b, q, i
    <3>1. IntRange = 2 * b
      BY <1>4 DEF b
    <3>2. 2 * a - 2 * b \in Int /\ 2 * a - 2 * b + line \in Int
      BY <1>1, <2>1
    <3>3. q * line \in Int
      BY <2>6, <3>2
    <3>4. q * line >= 2 * a - 2 * b
      BY <1>1, <2>1, <2>6
    <3> QED
      BY <1>1, <2>1, <3>1, <3>3, <3>4
  <2>8. ToLong(q * line) > MaxAlloc
    <3> DEFINE y == q * line
    <3>1. y \in Int /\ y < 0 /\ y > -(2 * b) /\ IntRange = 2 * b
      BY <1>4, <2>6, <2>7
    <3> HIDE DEF y, b, q
    <3>2. y + LongRange \in 0 .. (LongRange - 1) /\ y + LongRange > MaxAlloc
      BY <1>1, <2>1, <2>7, <3>1
    <3>3. y % LongRange = y + LongRange
      BY <1>1, <3>1, <3>2
    <3> QED
      BY <3>2, <3>3 DEF ToLong, y
  <2>9. NewMemSize(2 * m) = ToLong(q * line)
    BY DEF NewMemSize, line
  <2> QED
    <3>1. ToLong(q * line) \in Int
      BY <1>1, <2>7 DEF ToLong
    <3> QED
      BY <1>1, <2>8, <2>9, <3>1
<1> QED
  BY <1>5, <1>6

(* The change of sizes of a step is one of NewSizes.                       *)
Foreseen ==
  process' = "running" /\ <<ht_entries, mem_size>>' # <<ht_entries, mem_size>>
    => <<ht_entries, mem_size>>' \in NewSizes(ht_entries, mem_size, CacheLine, Counted)

LEMMA ResizeKeepsLines ==
  ASSUME NEW n, NEW m, Resize(n, m),
         m <= MaxAlloc => /\ m < IntRange \div 2
                          /\ \E j \in Nat : m = j * CacheLine,
         m \in Int
  PROVE  WholeLines' /\ (process' = "running" => m <= MaxAlloc)
<1>1. mem_size' = m /\ process' = IF m > MaxAlloc THEN "exited" ELSE process
  BY DEF Resize
<1>2. process' = "running" => m <= MaxAlloc
  BY <1>1, MaxAllocAssumption
<1> QED
  BY <1>1, <1>2 DEF WholeLines

(* cl_adapt, called with the counters s.                                   *)
LEMMA EvictingForeseen ==
  ASSUME LinesFit, NegativeTooLarge, TablesFit, Inv, WholeLines,
         NEW s \in Stats,
         s.tot_eviction_scan <= s.sp_evictions * ht_entries,
         s.ht_evictions > 0 => "ht" \in Counted,
         s.sp_evictions > 0 => "sp" \in Counted,
         GetEvicting(s)
  PROVE  WholeLines' /\ Foreseen
<1>1. /\ process = "running" /\ mem_size < IntRange \div 2
      /\ \E j \in Nat : mem_size = j * CacheLine
      /\ mem_size \in Int /\ ht_entries \in Nat /\ getcount \in Nat
  BY DEF GetEvicting, WholeLines, Inv
<1>2. /\ s.ht_evictions \in Nat /\ s.sp_evictions \in Nat
      /\ s.tot_eviction_scan \in Nat /\ s.tot_eviction_sample \in Nat
  BY DEF Stats
<1>3. CASE IncreaseHt(s)
  <2>0. PICK n \in NewHtEntries(Increased(ht_entries)) : Resize(n, mem_size)
    BY <1>3 DEF IncreaseHt
  <2>a. Increased(ht_entries) \in Nat /\ Increased(ht_entries) <= MaxHt
    BY <1>1, <1>3, SizesTyped DEF IncreaseHt
  <2>b. n = Increased(ht_entries)
    BY <2>a, Stored, IntRangeAssumption, MaxHtAssumption DEF TablesFit
  <2>1. 10 * s.ht_evictions > getcount + 1 /\ Resize(Increased(ht_entries), mem_size)
    BY <1>3, <2>0, <2>b DEF IncreaseHt, HtTooSmall
  <2>2. "ht" \in Counted
    BY <1>1, <1>2, <2>1
  <2>3. <<ht_entries, mem_size>>' = <<Increased(ht_entries), mem_size>>
    BY <2>1 DEF Resize
  <2> QED
    BY <1>1, <2>1, <2>2, <2>3, ResizeKeepsLines DEF Foreseen, NewSizes
<1>4. CASE DecreaseHt(s)
  <2>0. PICK n \in NewHtEntries(Decreased(ht_entries)) : Resize(n, mem_size)
    BY <1>4 DEF DecreaseHt
  <2>a. /\ Decreased(ht_entries) \in Nat /\ Decreased(ht_entries) <= ht_entries
        /\ ht_entries < IntRange \div 2
    BY <1>1, SizesTyped DEF Inv, FitsHash
  <2>b. n = Decreased(ht_entries)
    BY <1>1, <2>a, Stored, IntRangeAssumption
  <2>1. /\ 10 * s.tot_eviction_sample < s.tot_eviction_scan
        /\ Resize(Decreased(ht_entries), mem_size)
    BY <1>4, <2>0, <2>b DEF DecreaseHt, HtTooLarge
  <2>2. s.sp_evictions > 0
    <3>1. s.sp_evictions = 0 => s.sp_evictions * ht_entries = 0
      BY <1>1
    <3> QED
      BY <1>2, <2>1, <3>1
  <2>3. <<ht_entries, mem_size>>' = <<Decreased(ht_entries), mem_size>>
    BY <2>1 DEF Resize
  <2> QED
    BY <1>1, <2>1, <2>2, <2>3, ResizeKeepsLines DEF Foreseen, NewSizes
<1>5. CASE IncreaseMem(s)
  <2> DEFINE m == NewMemSize(2 * mem_size)
  <2>1. 10 * s.sp_evictions > getcount + 1 /\ Resize(ht_entries, m)
    BY <1>5 DEF IncreaseMem, MemTooSmall
  <2>2. "sp" \in Counted
    BY <1>1, <1>2, <2>1
  <2>3. m \in Int
    BY <1>1, MemSizeTyped, LongRangeAssumption
  <2>4. m <= MaxAlloc => /\ m = CLALIGN(2 * mem_size, CacheLine)
                         /\ m < IntRange \div 2
                         /\ \E j \in Nat : m = j * CacheLine
    BY <1>1, DoublingForeseen
  <2> HIDE DEF m
  <2>5. WholeLines' /\ (process' = "running" => m <= MaxAlloc)
    BY <2>1, <2>3, <2>4, ResizeKeepsLines
  <2>6. <<ht_entries, mem_size>>' = <<ht_entries, m>>
    BY <2>1 DEF Resize
  <2> QED
    BY <2>2, <2>4, <2>5, <2>6 DEF Foreseen, NewSizes
<1>6. CASE Evict(s)
  BY <1>6 DEF Evict, WholeLines, Foreseen
<1> QED
  BY <1>3, <1>4, <1>5, <1>6 DEF GetEvicting

LEMMA LinesInit ==
  ASSUME LinesFit, BufferFits, Init
  PROVE  WholeLines
<1> DEFINE line == CacheLine
           x == MemSize + line - 1
<1>1. line \in Nat \ {0} /\ MemSize \in Nat
  BY CacheLineAssumption, MemSizeAssumption
<1>2. mem_size = (x \div line) * line /\ mem_size < IntRange \div 2
  BY DEF Init, CLALIGN, BufferFits
<1>3. x \div line \in Nat
  <2> HIDE DEF line
  <2>1. x \in Nat
    BY <1>1
  <2> QED
    BY <1>1, <2>1
<1> QED
  BY <1>2, <1>3 DEF WholeLines

(* cl_reset finds the configured size again.                               *)
LEMMA ConfiguredAgain ==
  ASSUME LinesFit, BufferFits, NegativeTooLarge
  PROVE  /\ NewMemSize(MemSize) < IntRange \div 2
         /\ \E j \in Nat : NewMemSize(MemSize) = j * CacheLine
<1> DEFINE line == CacheLine
           x == MemSize + line - 1
           d == x \div line
<1>1. /\ line \in Nat \ {0} /\ MemSize \in Nat /\ IntRange \in Nat \ {0}
      /\ LongRange \in Nat \ {0} /\ IntRange <= LongRange
  BY CacheLineAssumption, MemSizeAssumption, IntRangeAssumption,
     LongRangeAssumption DEF NegativeTooLarge
<1>2. CLALIGN(MemSize, CacheLine) = d * line /\ d * line < IntRange \div 2
  BY DEF CLALIGN, BufferFits
<1> HIDE DEF line
<1>3. x \in Nat /\ d \in Nat /\ d * line \in Nat /\ MemSize <= d * line
  BY <1>1
<1> HIDE DEF d
<1>4. ToInt(MemSize) = MemSize
  BY <1>1, <1>2, <1>3 DEF ToInt
<1>5. Quotient(x, line) = d
  BY <1>3 DEF Quotient, d
<1>6. ToLong(d * line) = d * line
  <2> DEFINE y == d * line
  <2>1. y \in Nat /\ y < IntRange \div 2
    BY <1>2, <1>3
  <2> HIDE DEF y
  <2>2. ToLong(y) = y
    BY <1>1, <2>1 DEF ToLong
  <2> QED
    BY <2>2 DEF y
<1> QED
  BY <1>2, <1>3, <1>4, <1>5, <1>6 DEF NewMemSize, line

LEMMA ForeseenStep ==
  ASSUME LinesFit, BufferFits, NegativeTooLarge, TablesFit,
         Inv, WholeLines, [Next]_vars
  PROVE  WholeLines' /\ (~Reset => Foreseen)
<1>1. /\ ht_entries \in Nat /\ table_size \in Int /\ stat \in Stats
      /\ mem_size \in Int
      /\ stat.tot_eviction_scan <= stat.sp_evictions * ht_entries
      /\ stat.sp_evictions \in Nat /\ stat.ht_evictions \in Nat
      /\ stat.tot_eviction_scan \in Nat /\ stat.tot_eviction_sample \in Nat
  BY DEF Inv, ScansFitTable, Stats
<1>2. CASE Get
  BY <1>2 DEF Get, WholeLines, Foreseen
<1>3. CASE GetConflict
  <2>1. GetEvicting(Conflict) /\ table_size >= 4
    BY <1>3 DEF GetConflict
  <2>2. /\ Conflict \in Stats
        /\ Conflict.tot_eviction_scan = stat.tot_eviction_scan
        /\ Conflict.sp_evictions = stat.sp_evictions
    BY <1>1 DEF Conflict, Stats
  <2>3. "ht" \in Counted /\ (stat.sp_evictions > 0 => "sp" \in Counted)
    BY <2>1 DEF Counted
  <2> QED
    BY <1>1, <2>1, <2>2, <2>3, EvictingForeseen
<1>4. CASE GetNoSpace
  <2>1. PICK r \in ScanResults(ht_entries, table_size, MaxScan) :
               GetEvicting(Scanned(r[1], r[2]))
    BY <1>4 DEF GetNoSpace
  <2> DEFINE i == r[1]
             c == r[2]
             s == Scanned(i, c)
             k == stat.sp_evictions
  <2>2. i \in Nat /\ i <= ht_entries /\ c \in Nat /\ table_size > 0
    BY <1>1, <2>1 DEF ScanResults
  <2>3. /\ s \in Stats
        /\ s.sp_evictions = k + 1
        /\ s.tot_eviction_scan = stat.tot_eviction_scan + i
        /\ s.ht_evictions = stat.ht_evictions
    <3>1. s.ht_evictions = stat.ht_evictions
      BY <1>1 DEF Scanned, Stats
    <3> QED
      BY <1>1, <2>2, <3>1, ScannedCounts
  <2>4. k * ht_entries \in Int /\ (k + 1) * ht_entries = k * ht_entries + ht_entries
    BY <1>1
  <2>5. s.tot_eviction_scan <= s.sp_evictions * ht_entries
    BY <1>1, <2>2, <2>3, <2>4
  <2>6. "sp" \in Counted /\ (s.ht_evictions > 0 => "ht" \in Counted)
    BY <2>2, <2>3 DEF Counted
  <2> HIDE DEF s
  <2>7. GetEvicting(s)
    BY <2>1 DEF s
  <2> QED
    BY <2>3, <2>5, <2>6, <2>7, EvictingForeseen
<1>5. CASE Invalidate
  <2>1. process = "running" /\ Resize(ht_entries, mem_size)
    BY <1>5 DEF Invalidate
  <2>2. WholeLines'
    BY <1>1, <2>1, ResizeKeepsLines DEF WholeLines
  <2> QED
    BY <2>1, <2>2 DEF Resize, Foreseen
<1>6. CASE Reset
  <2>1. Resize(ToInt(HtSize), NewMemSize(MemSize))
    BY <1>6 DEF Reset
  <2>2. NewMemSize(MemSize) \in Int
    BY MemSizeTyped, MemSizeAssumption, LongRangeAssumption
  <2> QED
    BY <1>6, <2>1, <2>2, ConfiguredAgain, ResizeKeepsLines
<1>7. CASE UNCHANGED vars
  BY <1>7 DEF vars, WholeLines, Foreseen
<1> QED
  BY <1>2, <1>3, <1>4, <1>5, <1>6, <1>7 DEF Next

(* Every change of size cl_adapt can make, short of one that ends the      *)
(* process, is one AdaptiveWindow allows, for the widths of all machines   *)
(* on which the four hypotheses hold.                                      *)
THEOREM ChangesAlwaysForeseen ==
  ASSUME LinesFit, BufferFits, NegativeTooLarge, TablesFit
  PROVE  Spec => ChangesForeseen
<1> DEFINE A == process' = "running" /\ ~Reset
                  /\ <<ht_entries, mem_size>>' # <<ht_entries, mem_size>>
                => <<ht_entries, mem_size>>' \in
                     NewSizes(ht_entries, mem_size, CacheLine, Counted)
<1>1. Init => Inv /\ WholeLines
  BY InitInv, LinesInit
<1>2. Inv /\ WholeLines /\ [Next]_vars => Inv' /\ WholeLines'
  BY NextInv, ForeseenStep
<1>3. Inv /\ WholeLines /\ [Next]_vars => [A]_vars
  BY ForeseenStep DEF Foreseen
<1> QED
  BY <1>1, <1>2, <1>3, PTL DEF Spec, ChangesForeseen

===============================================================================
