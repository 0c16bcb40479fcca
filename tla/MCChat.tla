------------------------------- MODULE MCChat -------------------------------
(* Small instances of Chat, and of the listeners it is composed with, for TLC. *)
EXTENDS Chat, TLC

McSymmetry == Permutations(Handlers) \cup Permutations(Sends) \cup Permutations(Screens)
              \cup Permutations(ClientIds)
=============================================================================
