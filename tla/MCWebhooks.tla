----------------------------- MODULE MCWebhooks -----------------------------
(* Small instances of Webhooks for TLC. *)
EXTENDS Reconciliation, TLC

McGross == [p \in Payments |-> 75]

\* Shares that are exactly a half, and a fixed fee.
McRates == {[percent |-> 3000, fee |-> 3]}

\* As JavaScript rounds them: 0.75 at 30 % and 0.03 is 0.26, at 30 % alone 0.22.
McHalfUp == {<<75, 3000, 3>>, <<75, 1000, 0>>}

McMoves == [kind : {"captured", "refunded"}, payment : Payments]

McNotices == [kind : {"captured"}, payment : Payments \cup {None}] \cup {NoNotice}

McSymmetry == Permutations(Workers) \cup Permutations(Events)
=============================================================================
