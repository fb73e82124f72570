---------------------------- MODULE MC_CuckooTable ----------------------------
(* Instances of CuckooTable for TLC.                                       *)
EXTENDS CuckooTable, TLC

(* CMPI_HASH.  The products of keys as small as these stay far below the   *)
(* 64 bits of the code.                                                    *)
CMPI_HASH(t, k) ==
  LET a == <<33, 5, 51, 19>>[t + 1]
  IN (((5381 * a + k.rank) * a + k.addr) * a + k.size)
       % (HtEntries \div CL_CUCKOO_TABLES)

(* Gets of one or two bytes at the first displacements of two ranks.       *)
SixKeys == {k \in [rank : {0, 1}, addr : {0, 1}, size : {1, 2}] :
              k.addr = 0 \/ k.size = 1}

(* Six keys that meet in every table but one: with CMPI_HASH and tables of *)
(* two slots all tables would agree on which keys meet (its factors are    *)
(* odd), and displacing an entry would be of little use.                   *)
NumberKeys == 0 .. 5

SkewHash(t, k) == IF k = t THEN 1 ELSE 0

EntrySymmetry == Permutations(Entries)

===============================================================================
