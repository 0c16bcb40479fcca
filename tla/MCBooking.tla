----------------------------- MODULE MCBooking -----------------------------
(* Small instances of Booking for TLC. *)
EXTENDS Booking, TLC

\* Open for the first three of the day's four hours; two short slots and one that overlaps both.
McSlots == {Interval(0, 1), Interval(1, 2), Interval(0, 2)}

McOneSlot == {Interval(0, 1)}

McHours == [f \in Facilities |-> <<Interval(0, 3)>>]

McBlocks == [f \in Facilities |-> <<>>]

McPrice == [s \in Slots |-> s.end - s.start]

McSymmetry == Permutations(Bookings) \cup Permutations(Requests)

McSymmetryKeys == McSymmetry \cup Permutations(Users) \cup Permutations(Keys)
=============================================================================
