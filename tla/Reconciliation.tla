--------------------------- MODULE Reconciliation ---------------------------
(***************************************************************************)
(* ReconciliationService.runReconciliation, over all payments: it compares *)
(* the payments with the ledger and reports what does not match.  It only  *)
(* reads.                                                                  *)
(***************************************************************************)
EXTENDS Webhooks

\* Mutant: the refunds are not looked at.
UnrecordedRefundsIgnored == {}

UnrecordedPayments == {p \in Payments : payment[p] = "CAPTURED" /\ RowsOf(p, "PAYMENT") = {}}

UnrecordedRefunds == {p \in Payments : payment[p] = "REFUNDED" /\ RowsOf(p, "REFUND") = {}}

\* The sum of a transaction's entries.
Difference(entries) ==
  entries["PAYMENT_CLEARING"] + entries["PARTNER_PAYABLE"] + entries["PLATFORM_REVENUE"]
  + entries["PAYOUT_PENDING"] + entries["PLATFORM_ADJUSTMENT_EXPENSE"]
  + entries["PLATFORM_ADJUSTMENT_INCOME"]

Unbalanced == {i \in DOMAIN transactions : Difference(transactions[i].entries) # 0}

Mismatched == {i \in DOMAIN transactions : transactions[i].amount # Gross[transactions[i].subject]}

\* reconciliationStatus is HEALTHY.
Healthy ==
  UnrecordedPayments = {} /\ UnrecordedRefunds = {} /\ Unbalanced = {} /\ Mismatched = {}

Quiet == emitted = {} /\ \A t \in Threads : thread[t] = Idle

\* Posting and the PROCESSED mark are not atomic, so a capture can be signed off
\* without its posting; but not silently: once nothing is in flight, reconciliation
\* reports every payment of a PROCESSED capture that is not in the ledger.
LostIsReported ==
  Quiet => \A e \in Events :
    event[e] = "PROCESSED" /\ Kind(e) = "captured" =>
      \/ RowsOf(About(e), "PAYMENT") # {}
      \/ About(e) \in UnrecordedPayments \cup UnrecordedRefunds

\* Whatever the rates were and whoever posted, no row of the ledger is out of balance
\* or differs from its payment: reconciliation reports missing rows only.
RowsInOrder == Unbalanced = {} /\ Mismatched = {}
=============================================================================
