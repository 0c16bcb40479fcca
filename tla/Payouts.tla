------------------------------- MODULE Payouts -------------------------------
(***************************************************************************)
(* What happens to a partner's money after it is in the ledger: payouts,   *)
(* settlements and adjustments of one organization, and the KYC review     *)
(* that a payout waits for.  PayoutService and SettlementService check     *)
(* first and write later in READ COMMITTED transactions, for the           *)
(* controllers and for the workers of the finance and settlement queues:   *)
(* the calls of all of them are in flight together.                        *)
(*                                                                         *)
(* The postings of payments and refunds are single steps here; module      *)
(* Webhooks says how they come about.                                      *)
(***************************************************************************)
EXTENDS Ledger, SequencesExt

CONSTANTS
  PayoutIds,
  SettlementIds,
  Calls,           \* slots for calls in flight (a bound on the concurrency)
  Reviews,         \* the KYC statuses an administrator gives
  Amounts,         \* what partners and administrators ask for
  MaxRows,         \* bound on the length of the ledger
  MaxResolutions   \* bound on the completes and fails of one payout

KYCStatus == {"DRAFT", "SUBMITTED", "UNDER_REVIEW", "APPROVED", "REJECTED", "RESUBMISSION_REQUIRED"}

ASSUME PayoutsAssumption ==
  /\ Amounts \subseteq Nat \ {0}
  /\ Reviews \subseteq KYCStatus
  /\ MaxRows \in Nat /\ MaxResolutions \in Nat
  /\ None \notin Payments \cup PayoutIds \cup SettlementIds

VARIABLES
  organization,    \* its KYC status, whether its bank details are complete
  payout,          \* payouts
  settlement,      \* settlements
  call,            \* the calls in flight
  reviewed         \* history: APPROVED has been given once

vars == <<ledgerVars, organization, payout, settlement, call, reviewed>>

NoPayout == [status |-> "NONE", amount |-> 0, settlement |-> None]

PayoutRow ==
  [status : {"PROCESSING", "COMPLETED", "FAILED"}, amount : Amounts,
   settlement : SettlementIds \cup {None}]

NoSettlement == [status |-> "NONE", gross |-> 0, commission |-> 0, counted |-> {}]

Free == [step |-> "free", payout |-> None, amount |-> 0, settlement |-> None, found |-> {}]

PayoutsInit ==
  /\ LedgerInit
  /\ organization = [kyc |-> "DRAFT", bank |-> FALSE]
  /\ payout = [q \in PayoutIds |-> NoPayout]
  /\ settlement = [s \in SettlementIds |-> NoSettlement]
  /\ call = [c \in Calls |-> Free]
  /\ reviewed = FALSE

Begin(c, next) == call[c] = Free /\ call' = [call EXCEPT ![c] = next]

Then(c, step) == call' = [call EXCEPT ![c].step = step]

End(c) == call' = [call EXCEPT ![c] = Free]

-----------------------------------------------------------------------------
\* onboardPartner: the organization is SUBMITTED with the bank details of the form (its
\* business and the owner's membership are left out).
OnboardPartner ==
  /\ organization.kyc = "DRAFT"
  /\ organization' = [kyc |-> "SUBMITTED", bank |-> TRUE]
  /\ UNCHANGED <<ledgerVars, payout, settlement, call, reviewed>>

\* OrganizationsService.update: the bank details change, the KYC status does not.
UpdateOrganization ==
  /\ organization.kyc # "DRAFT"
  /\ organization' = [organization EXCEPT !.bank = ~ @]
  /\ UNCHANGED <<ledgerVars, payout, settlement, call, reviewed>>

\* AdminService.reviewPartner: any status over any other.
ReviewPartner(kyc) ==
  /\ organization.kyc # "DRAFT"
  /\ organization' = [organization EXCEPT !.kyc = kyc]
  /\ reviewed' = (reviewed \/ kyc = "APPROVED")
  /\ UNCHANGED <<ledgerVars, payout, settlement, call>>

-----------------------------------------------------------------------------
\* availableBalance of getPartnerFinancialSummary.
Balance(a) == FoldLeft(LAMBDA sum, row : sum + row.entries[a], 0, transactions)

\* Mutant: any partner who is not turned down may be paid out.
ReadOrganizationLax(c, amount, s) ==
  /\ organization.kyc # "REJECTED" /\ organization.bank
  /\ Begin(c, [Free EXCEPT !.step = "balance", !.amount = amount, !.settlement = s])
  /\ UNCHANGED <<ledgerVars, organization, payout, settlement, reviewed>>

\* initiatePayout of an APPROVED organization with complete bank details ...
ReadOrganization(c, amount, s) ==
  /\ organization.kyc = "APPROVED" /\ organization.bank
  /\ Begin(c, [Free EXCEPT !.step = "balance", !.amount = amount, !.settlement = s])
  /\ UNCHANGED <<ledgerVars, organization, payout, settlement, reviewed>>

\* ... whose balance covers the amount ...
ReadBalance(c) ==
  /\ call[c].step = "balance"
  /\ call[c].amount <= Balance("PARTNER_PAYABLE")
  /\ Then(c, "initiate")
  /\ UNCHANGED <<ledgerVars, organization, payout, settlement, reviewed>>

PayoutEntries(amount) ==
  [NoEntries EXCEPT !["PARTNER_PAYABLE"] = -amount, !["PAYOUT_PENDING"] = amount]

\* ... inserts the payout and moves the amount from the partner to PAYOUT_PENDING.  Its
\* settlement exists, and has no payout yet (Payout.settlementId is unique).
CommitPayout(c, q) ==
  LET amount == call[c].amount
      s == call[c].settlement
  IN  /\ call[c].step = "initiate" /\ payout[q] = NoPayout
      /\ s # None => settlement[s] # NoSettlement /\ \A r \in PayoutIds : payout[r].settlement # s
      /\ payout' = [payout EXCEPT ![q] = [status |-> "PROCESSING", amount |-> amount, settlement |-> s]]
      /\ transactions' = Append(transactions,
           [Row("PAYOUT", q, <<"payout", q>>, amount, 0, 0, PayoutEntries(amount))
              EXCEPT !.settlement = s])
      /\ End(c)
      /\ UNCHANGED <<rate, organization, settlement, reviewed>>

\* Mutant: a payout that is not there is not missed.
ReadPayoutAny(c, q, status) ==
  /\ payout[q].status # status
  /\ Begin(c, [Free EXCEPT !.step = status, !.payout = q])
  /\ UNCHANGED <<ledgerVars, organization, payout, settlement, reviewed>>

\* completePayout and failPayout read the payout; one that is there already is the answer.
ReadPayout(c, q, status) ==
  /\ payout[q].status \notin {"NONE", status}
  /\ Begin(c, [Free EXCEPT !.step = status, !.payout = q])
  /\ UNCHANGED <<ledgerVars, organization, payout, settlement, reviewed>>

\* The entries either one adds to the payout's transaction.
AddEntries(q, a) ==
  transactions' = [i \in DOMAIN transactions |->
    IF i \notin RowsOf(q, "PAYOUT") THEN transactions[i]
    ELSE [transactions[i] EXCEPT !.entries["PAYOUT_PENDING"] = @ - payout[q].amount,
                                 !.entries[a] = @ + payout[q].amount]]

\* Mutant: the status is left to the caller.
ResolvePayoutEntriesOnly(c) ==
  LET q == call[c].payout IN
  /\ call[c].step \in {"COMPLETED", "FAILED"}
  /\ AddEntries(q, IF call[c].step = "COMPLETED" THEN "PAYMENT_CLEARING" ELSE "PARTNER_PAYABLE")
  /\ End(c)
  /\ UNCHANGED <<rate, organization, payout, settlement, reviewed>>

\* The bound on what the two do to one payout, again and again.
MayResolve(q) == \A i \in RowsOf(q, "PAYOUT") :
  payout[q].amount - transactions[i].entries["PAYOUT_PENDING"] < MaxResolutions * payout[q].amount

\* It writes the status and clears PAYOUT_PENDING, to the bank or back to the partner,
\* whatever the status is by now.
ResolvePayout(c) ==
  LET q == call[c].payout IN
  /\ call[c].step \in {"COMPLETED", "FAILED"}
  /\ MayResolve(q)
  /\ payout' = [payout EXCEPT ![q].status = call[c].step]
  /\ AddEntries(q, IF call[c].step = "COMPLETED" THEN "PAYMENT_CLEARING" ELSE "PARTNER_PAYABLE")
  /\ End(c)
  /\ UNCHANGED <<rate, organization, settlement, reviewed>>

-----------------------------------------------------------------------------
\* createSettlement finds the unsettled rows of its window.
FindUnsettled(c, window) ==
  LET found == {i \in window \cap DOMAIN transactions : transactions[i].settlement = None}
  IN  /\ found # {}
      /\ Begin(c, [Free EXCEPT !.step = "settle", !.found = found])
      /\ UNCHANGED <<ledgerVars, organization, payout, settlement, reviewed>>

\* What a row adds to a statement.
Signed(i, amount) ==
  CASE transactions[i].type = "PAYMENT" -> amount
    [] transactions[i].type = "REFUND" -> -amount
    [] OTHER -> 0

\* Mutant: all rows of the window are linked, also those that came after the sums.
LinkedUpTo(found, i) == \E j \in found : i >= j /\ transactions[i].settlement = None

\* The rows that are linked: those that were found, by id.
Linked(found, i) == i \in found

\* It inserts the statement and links the rows to it, also if another settlement has
\* linked them meanwhile.
CommitSettlement(c, s) ==
  LET found == call[c].found IN
  /\ call[c].step = "settle" /\ settlement[s] = NoSettlement
  /\ settlement' = [settlement EXCEPT ![s] =
       [status |-> "FINALIZED", counted |-> found,
        gross |-> MapThenSumSet(LAMBDA i : Signed(i, transactions[i].amount), found),
        commission |-> MapThenSumSet(LAMBDA i : Signed(i, transactions[i].commission), found)]]
  /\ transactions' = [i \in DOMAIN transactions |->
       IF Linked(found, i) THEN [transactions[i] EXCEPT !.settlement = s] ELSE transactions[i]]
  /\ End(c)
  /\ UNCHANGED <<rate, organization, payout, reviewed>>

\* A call that goes no further.
FailCall(c) ==
  /\ call[c] # Free
  /\ End(c)
  /\ UNCHANGED <<ledgerVars, organization, payout, settlement, reviewed>>

-----------------------------------------------------------------------------
Room == Len(transactions) < MaxRows

\* FinanceService posts a captured payment, or its refund.
PostPayment(p) ==
  /\ Room /\ InsertPayment(p)
  /\ UNCHANGED <<organization, payout, settlement, call, reviewed>>

PostRefund(p) ==
  /\ Room /\ MayRefund(p) /\ InsertRefund(p, RefundedSoFar(p))
  /\ UNCHANGED <<organization, payout, settlement, call, reviewed>>

\* recordAdjustment: a bonus or a penalty, whatever the balance; its key is random.
RecordAdjustment(amount, direction) ==
  /\ Room
  /\ transactions' = Append(transactions,
       Row("ADJUSTMENT", None, <<"adj", Len(transactions) + 1>>, amount, 0, 0,
           IF direction = "CREDIT"
           THEN [NoEntries EXCEPT !["PLATFORM_ADJUSTMENT_EXPENSE"] = -amount,
                                  !["PARTNER_PAYABLE"] = amount]
           ELSE [NoEntries EXCEPT !["PARTNER_PAYABLE"] = -amount,
                                  !["PLATFORM_ADJUSTMENT_INCOME"] = amount]))
  /\ UNCHANGED <<rate, organization, payout, settlement, call, reviewed>>

PartnerStep ==
  \/ OnboardPartner \/ UpdateOrganization
  \/ \E kyc \in Reviews : ReviewPartner(kyc)

LedgerStep ==
  \/ \E p \in Payments : PostPayment(p) \/ PostRefund(p)
  \/ \E amount \in Amounts, direction \in {"CREDIT", "DEBIT"} : RecordAdjustment(amount, direction)

PayoutStep(c) ==
  \/ \E amount \in Amounts, s \in SettlementIds \cup {None} : ReadOrganization(c, amount, s)
  \/ ReadBalance(c)
  \/ Room /\ \E q \in PayoutIds : CommitPayout(c, q)
  \/ \E q \in PayoutIds, status \in {"COMPLETED", "FAILED"} : ReadPayout(c, q, status)
  \/ ResolvePayout(c)

SettlementStep(c) ==
  \/ \E first, last \in 1..MaxRows : first <= last /\ FindUnsettled(c, first..last)
  \/ \E s \in SettlementIds : CommitSettlement(c, s)

PayoutsNext ==
  \/ PartnerStep \/ LedgerStep
  \/ \E c \in Calls : PayoutStep(c) \/ SettlementStep(c) \/ FailCall(c)

PayoutsSpec == PayoutsInit /\ [][PayoutsNext]_vars
-----------------------------------------------------------------------------
PayoutsTypeOK ==
  /\ \A i \in DOMAIN transactions :
       /\ transactions[i].type \in {"PAYMENT", "REFUND", "PAYOUT", "ADJUSTMENT"}
       /\ transactions[i].settlement \in SettlementIds \cup {None}
       /\ transactions[i].entries \in [Accounts -> Int]
  /\ organization \in [kyc : KYCStatus, bank : BOOLEAN]
  /\ payout \in [PayoutIds -> PayoutRow \cup {NoPayout}]
  /\ \A s \in SettlementIds : settlement[s].counted \subseteq DOMAIN transactions
  /\ \A c \in Calls : call[c].found \subseteq DOMAIN transactions

\* Although the KYC status may change between a payout's check and its insert, no payout
\* is ever made for an organization that was never APPROVED.
PaidOutAfterApproval == (\E q \in PayoutIds : payout[q] # NoPayout) => reviewed

\* A payout that is still PROCESSING holds exactly its amount in PAYOUT_PENDING, taken
\* from the partner once: no complete or fail that went wrong has released it already.
ProcessingIsReserved ==
  \A q \in PayoutIds : payout[q].status = "PROCESSING" =>
    \E i \in RowsOf(q, "PAYOUT") :
      RowsOf(q, "PAYOUT") = {i} /\ transactions[i].entries = PayoutEntries(payout[q].amount)

\* A row of a customer's money that a settlement claims is one the settlement has
\* summed: what is posted while a settlement is made waits for the next one.
LinkedWasCounted ==
  \A i \in DOMAIN transactions :
    transactions[i].type \in {"PAYMENT", "REFUND"} /\ transactions[i].settlement # None =>
      i \in settlement[transactions[i].settlement].counted
=============================================================================
