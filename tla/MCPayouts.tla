----------------------------- MODULE MCPayouts -----------------------------
(***************************************************************************)
(* Small instances of Payouts: two earnings that two batches compete for,  *)
(* and two calls in flight.                                                *)
(***************************************************************************)
EXTENDS Payouts, TLC

CONSTANTS e1, e2

\* e1 alone reaches the minimum even after a debt of e2's amount.
Amounts == [e \in Earnings |-> IF e = e1 THEN 3 ELSE 2]

PayoutSymmetry ==
  Permutations(Calls) \union Permutations(Batches) \union Permutations(Refs)
=============================================================================
