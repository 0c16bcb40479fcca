------------------------------ MODULE MCSessions ------------------------------
(***************************************************************************)
(* Sessions on a small instance: calls are alike, and so are sessions.     *)
(***************************************************************************)
EXTENDS Sessions, TLC

Alike == Permutations(Apps) \cup Permutations(SessionIds)
=============================================================================
