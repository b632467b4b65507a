-------------------------------- MODULE Totals --------------------------------
(***************************************************************************)
(* The sum of a list of numbers.                                           *)
(***************************************************************************)
EXTENDS Integers, Sequences

\* The loop of FastSumCorrection::add that sums anew.
Total(s) ==
  LET sum[n \in 0..Len(s)] == IF n = 0 THEN 0 ELSE sum[n - 1] + s[n]
  IN  sum[Len(s)]
=============================================================================
