--------------------------------- MODULE Sums ----------------------------------
(* The sum of the first n values of a function on positions.                   *)
EXTENDS Naturals

Totals(f, n) ==
  LET t[k \in 0 .. n] == IF k = 0 THEN 0 ELSE t[k - 1] + f[k]
  IN  t
Total(f, n) == Totals(f, n)[n]
================================================================================
