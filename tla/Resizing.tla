------------------------------- MODULE Resizing -------------------------------
(***************************************************************************)
(* What the modules of the adaptive scheme share: the sizes cl_adapt       *)
(* (src/src/clampi_adaptive.c) can choose, and the counts a victim scan    *)
(* (src/src/clampi_get.c) can report to it.                                *)
(***************************************************************************)
EXTENDS Integers

(* CLALIGN, for a size that is not negative.                               *)
CLALIGN(x, line) == ((x + line - 1) \div line) * line

(* CL_HT_INC and CL_HT_DEC times the number of entries, as an integer.     *)
Increased(n) == (3 * n) \div 2
Decreased(n) == (3 * n) \div 4

(* From n entries and m bytes, once evictions of these kinds have been     *)
(* counted: a larger table; a smaller one, if a victim has been searched   *)
(* for; a larger buffer, if one was evicted for lack of space.             *)
NewSizes(n, m, line, counted) ==
  (IF "ht" \in counted THEN {<<Increased(n), m>>} ELSE {})
    \cup (IF "sp" \in counted
          THEN {<<Decreased(n), m>>, <<n, CLALIGN(2 * m, line)>>} ELSE {})

(* The numbers <<i, c>> of slots and of entries seen by a scan of a table  *)
(* of n slots and t entries: it looks at maxscan slots, at fewer if it has *)
(* met all entries, at more only until it meets the first.                 *)
ScanResults(n, t, maxscan) ==
  {r \in (1 .. n) \X (1 .. t) :
     /\ r[2] <= r[1]
     /\ r[1] - r[2] <= n - t
     /\ r[1] < maxscan => r[2] = t
     /\ r[1] > maxscan => r[2] = 1}

===============================================================================
