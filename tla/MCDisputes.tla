----------------------------- MODULE MCDisputes -----------------------------
(* Small instances of Disputes for TLC. *)
EXTENDS Disputes, TLC

\* Points given and taken for one reason.
McAdjustments == [user : {Customer}, points : {1, -2}, reason : {"r"}]

McSymmetry == Permutations(Calls) \cup Permutations(Cases)
=============================================================================
