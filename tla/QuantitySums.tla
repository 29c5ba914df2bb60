---------------------------- MODULE QuantitySums ----------------------------
(***************************************************************************)
(* Sums of quantities indexed by 1 .. n, as the database aggregates of the *)
(* API compute them (SUM of "remainingQuantity", _sum of "quantity").      *)
(* The sum is a recursive function rather than a fold so that its          *)
(* properties can be proved; see QuantitySums_proofs.                      *)
(***************************************************************************)
EXTENDS Integers

\* PartialSums(f, n)[k] is f[1] + ... + f[k].
PartialSums(f, n) ==
  LET sum[k \in 0 .. n] == IF k = 0 THEN 0 ELSE sum[k - 1] + f[k]
  IN  sum

\* The sum of the values of f, a function on 1 .. n.
SumOf(f, n) == PartialSums(f, n)[n]
=============================================================================
