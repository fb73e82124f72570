------------------------------ MODULE CuckooTable ------------------------------
(***************************************************************************)
(* The hash table of the cache entries, slot by slot: src/src/ht.h, with   *)
(* the order in which CMPI_Get (src/src/clampi_get.c) calls it.            *)
(*                                                                         *)
(* CL_CUCKOO_TABLES tables lie interleaved in one array.  An insertion     *)
(* first walks the path of displacements it would make without touching    *)
(* anything (ht_insert_check).  If the path does not end at an empty slot  *)
(* within CL_CUCKOO_MAX_INSERT steps, an entry on it is evicted; then the  *)
(* displacements are made (ht_insert), and nothing checks that the last    *)
(* displaced entry found a place.                                          *)
(*                                                                         *)
(* The scores are left out: any entry the walk has seen may be the one     *)
(* with the least score, and any entry the victim of a full buffer.        *)
(***************************************************************************)
EXTENDS Integers, FiniteSets, FiniteSetsExt

CONSTANTS
  Keys,       \* the keys of entries: rank, displacement, size
  Entries,    \* descriptors
  HtEntries,  \* CL_HT_ENTRIES(cache)
  MaxInsert,  \* CL_CUCKOO_MAX_INSERT
  Hash(_, _), \* CMPI_HASH of a table and a key
  Counts,     \* what getcount may be at a get: 1 for any number but 0
  None        \* no key, no descriptor, no slot

CL_CUCKOO_TABLES == 4

Tables == 0 .. (CL_CUCKOO_TABLES - 1)
Slots  == 0 .. (HtEntries - 1)

ASSUME HtEntriesAssumption == HtEntries \in Nat /\ HtEntries >= CL_CUCKOO_TABLES
ASSUME MaxInsertAssumption == MaxInsert \in Nat \ {0}
ASSUME HashAssumption ==
  \A t \in Tables, k \in Keys :
    Hash(t, k) \in 0 .. ((HtEntries \div CL_CUCKOO_TABLES) - 1)
ASSUME CountsAssumption == Counts \subseteq {0, 1}
ASSUME NoneAssumption   == None \notin Keys \cup Entries \cup Slots

VARIABLES
  slot,        \* cache->table: the descriptor of a slot, None if lasthit is 0
  htindex,     \* the slot of a descriptor
  get_info,    \* its key, None if it holds no entry
  table_size,  \* the number of entries
  answer       \* what the last lookup returned

vars == <<slot, htindex, get_info, table_size, answer>>

-----------------------------------------------------------------------------
SlotOf(t, k) == Hash(t, k) * CL_CUCKOO_TABLES + t

NextTable(t) == (t + 1) % CL_CUCKOO_TABLES

Indexed == {e \in Entries : get_info[e] # None}

(* What a slot becomes when it is given entry e and lasthit = getcount: a  *)
(* count of 0 marks it empty.                                              *)
Stamped(e, count) == IF count = 0 THEN None ELSE e

(* ht_lookup: the tables are tried in order.                               *)
TablesWith(k) ==
  {t \in Tables : /\ slot[SlotOf(t, k)] # None
                  /\ get_info[slot[SlotOf(t, k)]] = k}

(* A slip: the walk stays in one table.                                    *)
AfterInPlace(s) ==
  IF slot[s] = None THEN s ELSE SlotOf(s % CL_CUCKOO_TABLES, get_info[slot[s]])

(* The slot the entry in slot s can be displaced to: its own in the next   *)
(* table.  The walk ends at an empty slot.                                 *)
After(s) ==
  IF slot[s] = None THEN s
  ELSE SlotOf(NextTable(s % CL_CUCKOO_TABLES), get_info[slot[s]])

(* The slots ht_insert_check looks at, from slot s.                        *)
Path(s) ==
  LET p[n \in Nat] == IF n = 0 THEN s ELSE After(p[n - 1]) IN p

(* A slip: the check starts from another table than the insertion.         *)
ConflictsElsewhere(k, t) ==
  LET u == NextTable(t)
      p == Path(SlotOf(NextTable(u), k))
  IN IF slot[SlotOf(u, k)] = None \/ \E n \in 0 .. MaxInsert : slot[p[n]] = None
     THEN {}
     ELSE {slot[SlotOf(u, k)]} \cup {slot[p[n]] : n \in 0 .. (MaxInsert - 1)}

(* ht_insert_check: {} if the slot of k in table t is empty or one that is *)
(* can be reached from the slot in the next table; else the entries whose  *)
(* scores it has compared.                                                 *)
Conflicts(k, t) ==
  LET p == Path(SlotOf(NextTable(t), k)) IN
  IF slot[SlotOf(t, k)] = None \/ \E n \in 0 .. MaxInsert : slot[p[n]] = None
  THEN {}
  ELSE {slot[SlotOf(t, k)]} \cup {slot[p[n]] : n \in 0 .. (MaxInsert - 1)}

(* ht_remove, on slots sl.                                                 *)
Removed(sl, v) == IF v = None THEN sl ELSE [sl EXCEPT ![htindex[v]] = None]

(* A slip: a displaced entry does not learn where it went.                 *)
DisplaceUntold(info, p) ==
  IF p.victim = None THEN p
  ELSE LET s == SlotOf(NextTable(p.table), info[p.victim])
       IN [slot |-> [p.slot EXCEPT ![s] = p.victim], htindex |-> p.htindex,
           victim |-> p.slot[s], table |-> NextTable(p.table)]

(* A turn of ht_insert: the displaced entry, from p.table, takes its slot  *)
(* in the next table and displaces what is there.  The slots, the htindex  *)
(* fields, the entry displaced last and its table are a record.            *)
Displace(info, p) ==
  IF p.victim = None THEN p
  ELSE LET s == SlotOf(NextTable(p.table), info[p.victim])
       IN [slot    |-> [p.slot EXCEPT ![s] = p.victim],
           htindex |-> [p.htindex EXCEPT ![p.victim] = s],
           victim  |-> p.slot[s],
           table   |-> NextTable(p.table)]

Turns(info, first) ==
  LET p[n \in Nat] == IF n = 0 THEN first ELSE Displace(info, p[n - 1]) IN p

(* ht_insert, on slots sl and with keys info.                              *)
First(sl, info, t, e, getcount) ==
  LET u == IF sl[SlotOf(t, info[e])] = None THEN t ELSE NextTable(t)
      s == SlotOf(u, info[e])
  IN [slot    |-> [sl EXCEPT ![s] = Stamped(e, getcount)],
      htindex |-> [htindex EXCEPT ![e] = s],
      victim  |-> sl[s],
      table   |-> u]

Inserted(sl, info, t, e, getcount) ==
  Turns(info, First(sl, info, t, e, getcount))[MaxInsert]

-----------------------------------------------------------------------------
Init ==
  /\ slot = [s \in Slots |-> None]
  /\ htindex = [e \in Entries |-> None]
  /\ get_info = [e \in Entries |-> None]
  /\ table_size = 0
  /\ answer = None

(* CMPI_Get of a key that is found, which refreshes lasthit.               *)
Hit(k, getcount) ==
  /\ TablesWith(k) # {}
  /\ LET s == SlotOf(Min(TablesWith(k)), k)
     IN /\ answer' = slot[s]
        /\ slot' = [slot EXCEPT ![s] = Stamped(slot[s], getcount)]
  /\ UNCHANGED <<htindex, get_info, table_size>>

(* The victim: an entry of the conflict, or, without one, any entry if the *)
(* buffer has no room.                                                     *)
Victims(k, t) ==
  IF Conflicts(k, t) # {} THEN Conflicts(k, t) ELSE Indexed \cup {None}

(* CMPI_Get of a key that is not found, with an eviction, that ends        *)
(* without room for the data ...                                           *)
Evict(v) ==
  /\ slot' = Removed(slot, v)
  /\ htindex' = [htindex EXCEPT ![v] = None]
  /\ get_info' = [get_info EXCEPT ![v] = None]
  /\ table_size' = table_size - 1
  /\ answer' = None

(* ... or with room: the new entry gets the descriptor of a free region or *)
(* of the victim.                                                          *)
Cache(k, t, v, e, getcount) ==
  LET info == [f \in Entries |-> IF f = e THEN k
                                 ELSE IF f = v THEN None ELSE get_info[f]]
      p == Inserted(Removed(slot, v), info, t, e, getcount)
  IN /\ e \notin Indexed \ {v}
     /\ get_info' = info
     /\ slot' = p.slot
     /\ htindex' = [f \in Entries |-> IF f = v /\ v # e THEN None
                                      ELSE p.htindex[f]]
     /\ table_size' = IF v = None THEN table_size + 1 ELSE table_size
     /\ answer' = None

Miss(k, getcount) ==
  /\ TablesWith(k) = {}
  /\ \E t \in Tables : \E v \in Victims(k, t) :
       \/ v # None /\ Evict(v)
       \/ \E e \in Entries : Cache(k, t, v, e, getcount)

(* reset_data_structures.                                                  *)
Invalidate ==
  /\ slot' = [s \in Slots |-> None]
  /\ htindex' = [e \in Entries |-> None]
  /\ get_info' = [e \in Entries |-> None]
  /\ table_size' = 0
  /\ answer' = None

Next ==
  \/ \E k \in Keys, c \in Counts : Hit(k, c) \/ Miss(k, c)
  \/ Invalidate

Spec == Init /\ [][Next]_vars

-----------------------------------------------------------------------------
Abstract == INSTANCE EntryIndex

(* The table is the map CMPI_Get takes it for: a key is found until its    *)
(* entry is evicted, and an insertion, however many entries it displaces,  *)
(* drops none (the place ht_insert_check promised is there when ht_insert  *)
(* gets to it).                                                            *)
ImplementsIndex == Abstract!Spec

(* Every entry sits in exactly one slot, the one its htindex names, where  *)
(* ht_remove will look for it, and it is one where ht_lookup looks for its *)
(* key.                                                                    *)
EntriesInPlace ==
  \A e \in Indexed :
    /\ {s \in Slots : slot[s] = e} = {htindex[e]}
    /\ htindex[e] = SlotOf(htindex[e] % CL_CUCKOO_TABLES, get_info[e])

(* table_size, which bounds the scan for a victim, is the number of slots  *)
(* that hold an entry: the scan stops, and has seen one if there is one.   *)
SizeCountsSlots ==
  table_size = Cardinality({s \in Slots : slot[s] # None})

(* A conflict takes an entry in each table, whatever key is inserted and   *)
(* wherever the walk begins: a table of few entries evicts for space only  *)
(* (module Adaptive counts on it).                                         *)
ConflictInAllTables ==
  \A k \in Keys, t \in Tables :
    TablesWith(k) = {} /\ Conflicts(k, t) # {} =>
      \A u \in Tables :
        \E e \in Conflicts(k, t) : htindex[e] % CL_CUCKOO_TABLES = u

(* ".lasthit>0 if the entry is not empty" (clampi_get.c).                  *)
LasthitMarksEntries == \A e \in Indexed : slot[htindex[e]] = e

===============================================================================
