--------------------------- MODULE MCSubscriptions ---------------------------
(* A clock with two thresholds: one tick before the end of a period and two.  *)
EXTENDS Subscriptions, TLC

MCWarnings == [EXPIRY_WARNING_1D |-> 1, EXPIRY_WARNING_7D |-> 2]
Symmetry == Permutations(Keys) \cup Permutations(Requests) \cup Permutations(Subs)
=============================================================================
