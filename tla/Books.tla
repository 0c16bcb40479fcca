-------------------------------- MODULE Books --------------------------------
(***************************************************************************)
(* What the ledger promises about each payment: it is posted at most once, *)
(* and reversed at most once, after it was posted.                         *)
(***************************************************************************)
CONSTANT Payments

VARIABLE book      \* where the books stand with each payment

BooksInit == book = [p \in Payments |-> "unposted"]

Post(p) == book[p] = "unposted" /\ book' = [book EXCEPT ![p] = "posted"]

Reverse(p) == book[p] = "posted" /\ book' = [book EXCEPT ![p] = "reversed"]

BooksNext == \E p \in Payments : Post(p) \/ Reverse(p)

BooksSpec == BooksInit /\ [][BooksNext]_book
=============================================================================
