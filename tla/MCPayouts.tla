----------------------------- MODULE MCPayouts -----------------------------
(* Small instances of Payouts for TLC. *)
EXTENDS Payouts

McGross == [p \in Payments |-> 100]

McSymmetry == Permutations(Calls) \cup Permutations(PayoutIds) \cup Permutations(SettlementIds)
=============================================================================
