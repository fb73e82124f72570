------------------------------- MODULE Adaptive -------------------------------
(***************************************************************************)
(* The adaptive scheme: cl_adapt and cl_reset                              *)
(* (src/src/clampi_adaptive.c), the counters CMPI_Get keeps for it         *)
(* (clampi_get.c), and the widths of the sizes they compute.               *)
(*                                                                         *)
(* Of the cache there are its two sizes and the number of entries in its   *)
(* table; which get hits, meets a conflict or lacks space is left open     *)
(* (module AdaptiveWindow has the contents).  An int, a uint64_t and what  *)
(* can be allocated are as wide as the constants say.                      *)
(***************************************************************************)
EXTENDS Resizing

CONSTANTS
  HtSize,     \* clampi.htsize: CL_HT_ENTRIES
  MemSize,    \* clampi.memsize: CL_MEM_SIZE
  CacheLine,  \* CACHE_LINE
  MaxScan,    \* CL_MAX_SCAN
  IntRange,   \* how many values an int has: 2^32
  LongRange,  \* how many values a uint64_t has: 2^64
  MaxAlloc,   \* the largest size aligned_alloc may find
  MaxHt,      \* bound: entries CL_HT_INC may ask for
  MaxGets     \* bound: gets between two resets

ASSUME IntRangeAssumption == IntRange \in Nat \ {0}
ASSUME LongRangeAssumption == LongRange \in Nat \ {0}
ASSUME MaxAllocAssumption == MaxAlloc \in Nat
ASSUME HtSizeAssumption ==
  HtSize \in Nat /\ HtSize >= 4 /\ HtSize < IntRange \div 2
ASSUME MemSizeAssumption == MemSize \in Nat
ASSUME CacheLineAssumption == CacheLine \in Nat \ {0}
ASSUME MaxScanAssumption == MaxScan \in Nat \ {0}
ASSUME MaxHtAssumption == MaxHt \in Nat

VARIABLES
  process,     \* "running", or "exited" when the library ended it
  ht_entries,  \* cache->ht_entries
  mem_size,    \* cache->mem_size
  getcount,    \* cache->getcount
  table_size,  \* cache->table_size
  stat         \* the fields of cache->stat that cl_adapt reads

vars == <<process, ht_entries, mem_size, getcount, table_size, stat>>

NoStats ==
  [ht_evictions |-> 0, sp_evictions |-> 0, last_eviction_scan |-> 0,
   tot_eviction_scan |-> 0, tot_eviction_sample |-> 0]

Init ==
  /\ process = "running"
  /\ ht_entries = HtSize
  /\ mem_size = CLALIGN(MemSize, CacheLine)
  /\ getcount = 0
  /\ table_size = 0
  /\ stat = NoStats

-----------------------------------------------------------------------------
(* A number stored in an int; a division of ints, which truncates; an int  *)
(* stored in a uint64_t.                                                   *)
ToInt(x) ==
  LET r == x % IntRange IN IF r < IntRange \div 2 THEN r ELSE r - IntRange

Quotient(x, y) == IF x >= 0 THEN x \div y ELSE -((-x) \div y)

ToLong(x) == x % LongRange

(* "cache->mem_size = CLALIGN(newval_mem)", newval_mem being an int.       *)
NewMemSize(x) ==
  ToLong(Quotient(ToInt(x) + CacheLine - 1, CacheLine) * CacheLine)

(* "newval_ht = ...", an int, from a double: what does not fit becomes any *)
(* int, which ht_entries, a uint32_t, then reads as a number of slots.     *)
NewHtEntries(x) == IF x < IntRange \div 2 THEN {x} ELSE 0 .. (IntRange - 1)

(* A slip: the counters survive.                                           *)
ResizeButCounters(n, m) ==
  /\ ht_entries' = n
  /\ mem_size' = m
  /\ process' = IF m > MaxAlloc THEN "exited" ELSE process
  /\ getcount' = 0
  /\ table_size' = 0
  /\ UNCHANGED stat

(* New table or buffer, then CMPI_Win_invalidate, which ends the process   *)
(* if there is no buffer.                                                  *)
Resize(n, m) ==
  /\ ht_entries' = n
  /\ mem_size' = m
  /\ process' = IF m > MaxAlloc THEN "exited" ELSE process
  /\ getcount' = 0
  /\ table_size' = 0
  /\ stat' = NoStats

(* The tests of cl_adapt, in their order, on counters s after g gets.      *)
HtTooSmall(g, s) == 10 * s.ht_evictions > g

(* A slip: the threshold of 0.1 is forgotten.                              *)
SparseAtAll(g, s) ==
  /\ ~HtTooSmall(g, s)
  /\ s.last_eviction_scan > 0
  /\ s.tot_eviction_sample < s.tot_eviction_scan

HtTooLarge(g, s) ==
  /\ ~HtTooSmall(g, s)
  /\ s.last_eviction_scan > 0
  /\ 10 * s.tot_eviction_sample < s.tot_eviction_scan

MemTooSmall(g, s) ==
  /\ ~HtTooSmall(g, s) /\ ~HtTooLarge(g, s)
  /\ 10 * s.sp_evictions > g

-----------------------------------------------------------------------------
(* A get that evicts nothing: it may cache an entry.                       *)
Get ==
  /\ process = "running"
  /\ getcount < MaxGets
  /\ getcount' = getcount + 1
  /\ \/ UNCHANGED table_size
     \/ table_size < ht_entries /\ table_size' = table_size + 1
  /\ UNCHANGED <<process, ht_entries, mem_size, stat>>

(* A get that is about to evict, with its eviction counted: cl_adapt may   *)
(* empty the cache and end the get (CL_FLUSHED), or an entry goes.         *)
IncreaseHt(s) ==
  /\ HtTooSmall(getcount + 1, s)
  /\ Increased(ht_entries) <= MaxHt
  /\ \E n \in NewHtEntries(Increased(ht_entries)) : Resize(n, mem_size)

(* A slip: multiplied by CL_HT_INC.                                        *)
DecreaseUp(s) ==
  /\ HtTooLarge(getcount + 1, s)
  /\ \E n \in NewHtEntries(Increased(ht_entries)) : Resize(n, mem_size)

DecreaseHt(s) ==
  /\ HtTooLarge(getcount + 1, s)
  /\ \E n \in NewHtEntries(Decreased(ht_entries)) : Resize(n, mem_size)

IncreaseMem(s) ==
  /\ MemTooSmall(getcount + 1, s)
  /\ Resize(ht_entries, NewMemSize(2 * mem_size))

Evict(s) ==
  /\ \A test \in {HtTooSmall(getcount + 1, s), HtTooLarge(getcount + 1, s),
                  MemTooSmall(getcount + 1, s)} : ~test
  /\ getcount' = getcount + 1
  /\ stat' = s
  /\ table_size' \in {table_size, table_size - 1}
  /\ UNCHANGED <<process, ht_entries, mem_size>>

GetEvicting(s) ==
  /\ process = "running"
  /\ getcount < MaxGets
  /\ IncreaseHt(s) \/ DecreaseHt(s) \/ IncreaseMem(s) \/ Evict(s)

(* A conflict in the hash table, which takes an entry in each of the four  *)
(* tables.                                                                 *)
Conflict == [stat EXCEPT !.ht_evictions = @ + 1]

GetConflict == table_size >= 4 /\ GetEvicting(Conflict)

(* A lack of space, of which a get learns if the table has a slot, with a  *)
(* scan of i slots that meets c entries.                                   *)
Scanned(i, c) ==
  [stat EXCEPT !.sp_evictions = @ + 1, !.last_eviction_scan = i,
               !.tot_eviction_scan = @ + i, !.tot_eviction_sample = @ + c]

GetNoSpace ==
  /\ table_size < ht_entries
  /\ \E r \in ScanResults(ht_entries, table_size, MaxScan) :
       GetEvicting(Scanned(r[1], r[2]))

(* CMPI_Win_invalidate.                                                    *)
Invalidate ==
  /\ process = "running"
  /\ Resize(ht_entries, mem_size)

(* cl_reset, which keeps both configured sizes in ints.                    *)
Reset ==
  /\ process = "running"
  /\ Resize(ToInt(HtSize), NewMemSize(MemSize))

Next == Get \/ GetConflict \/ GetNoSpace \/ Invalidate \/ Reset

Spec == Init /\ [][Next]_vars

-----------------------------------------------------------------------------
(* The hash divides by a quarter of ht_entries (CMPI_HASH, ht.h): however  *)
(* often the table is made smaller, it keeps four slots.                   *)
HashHasSlots == ht_entries >= 4

(* The counters speak of the table there is: no scan since it was made has *)
(* looked at more slots than it has, or met no entry.                      *)
ScansFitTable ==
  /\ stat.tot_eviction_scan <= stat.sp_evictions * ht_entries
  /\ stat.tot_eviction_sample >= stat.sp_evictions

(* The evictions counted since the last reset, and those of this get.      *)
Counted ==
  (IF stat.ht_evictions > 0 \/ table_size >= 4 THEN {"ht"} ELSE {})
    \cup (IF stat.sp_evictions > 0 \/ table_size > 0 THEN {"sp"} ELSE {})

(* Module AdaptiveWindow leaves no change of size out.                     *)
ChangesForeseen ==
  [][process' = "running" /\ ~Reset /\ <<ht_entries, mem_size>>' # <<ht_entries, mem_size>>
       => <<ht_entries, mem_size>>' \in
            NewSizes(ht_entries, mem_size, CacheLine, Counted)]_vars

(* "increasing mem size" (the message of cl_adapt): the process goes on    *)
(* with a larger buffer.                                                   *)
IncreaseIncreases ==
  [][(\E r \in ScanResults(ht_entries, table_size, MaxScan) :
        IncreaseMem(Scanned(r[1], r[2])))
       => process' = "running" /\ mem_size' > mem_size]_vars

===============================================================================
