--------------------------------- MODULE Sums ---------------------------------
(***************************************************************************)
(* Totals over a table of accounts.  Several programs keep, next to a      *)
(* table with one row per trader, market or vault, a running total that is *)
(* updated by deltas and never recomputed.  SumTo is the value such a      *)
(* total ought to have.  It is written as a recursive function, so that    *)
(* modules with proofs can use it; VaultLedgerProofs holds its lemmas.     *)
(***************************************************************************)
EXTENDS Integers

\* The sums of the first 0, 1, ..., n entries of f.
PrefixSums(f, n) ==
    LET p[i \in 0 .. n] == IF i = 0 THEN 0 ELSE p[i - 1] + f[i]
    IN  p

\* f[1] + ... + f[n]
SumTo(f, n) == PrefixSums(f, n)[n]
===============================================================================
