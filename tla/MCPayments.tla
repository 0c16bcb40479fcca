----------------------------- MODULE MCPayments -----------------------------
(* Small instances of Payments for TLC. *)
EXTENDS Payments, TLC

McOneSlot == {Interval(0, 1)}

McHours == [f \in Facilities |-> <<Interval(0, 3)>>]

McBlocks == [f \in Facilities |-> <<>>]

McPrice == [s \in Slots |-> s.end - s.start]
=============================================================================
