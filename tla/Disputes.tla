------------------------------ MODULE Disputes ------------------------------
(***************************************************************************)
(* Support tickets and disputes: SupportService and DisputesService, for   *)
(* one booking, its payments and its customer.  A dispute has a ticket of  *)
(* its own.  Nothing here is a transaction: each call reads, and then      *)
(* writes one row after the other.  A decision refunds through             *)
(* PaymentsService.initiateRefund, or awards points through                *)
(* LoyaltyService.earnPoints, before it is written down.                   *)
(***************************************************************************)
EXTENDS Loyalty, FiniteSets

CONSTANTS
  Customer,
  PaymentIds,
  Cases,           \* tickets, and the disputes that belong to them
  Decisions,       \* those an administrator takes
  Roles,           \* of those who write messages (the controllers know customers only)
  Statuses,        \* those an administrator gives a ticket
  GoodwillPoints   \* those of a goodwill credit; 0 is none (the field is optional)

ASSUME DisputesAssumption ==
  LET types == {"FULL_REFUND", "PARTIAL_REFUND", "NO_REFUND", "GOODWILL_CREDIT"} IN
  /\ Customer \in Users
  /\ Decisions \subseteq types
  /\ GoodwillPoints \subseteq Nat
  /\ None \notin PaymentIds \cup Cases \cup types

VARIABLES
  payment,         \* the booking's payments: INITIATED stands for every status before CAPTURED
  refunded,        \* history: the payments that were REFUNDED at some time
  ticket,          \* support_tickets: their statuses
  dispute,         \* disputes
  desk             \* the calls in flight

deskVars == <<payment, refunded, ticket, dispute, desk>>

vars == <<loyaltyVars, deskVars>>

NoDispute == [status |-> "NONE", payment |-> None, decision |-> None, points |-> 0]

Free == [step |-> "free", case |-> None, payment |-> None, decision |-> None, points |-> 0,
         status |-> None]

DisputesInit ==
  /\ LoyaltyInit
  /\ payment = [p \in PaymentIds |-> "INITIATED"]
  /\ refunded = {}
  /\ ticket = [t \in Cases |-> "NONE"]
  /\ dispute = [t \in Cases |-> NoDispute]
  /\ desk = [c \in Calls |-> Free]

Begin(c, next) ==
  /\ desk[c] = Free /\ award[c] = NoAward
  /\ desk' = [desk EXCEPT ![c] = next]

Then(c, step) == desk' = [desk EXCEPT ![c].step = step]

End(c) == desk' = [desk EXCEPT ![c] = Free]

Captured == {p \in PaymentIds : payment[p] = "CAPTURED"}

-----------------------------------------------------------------------------
\* SupportService.createTicket.
CreateTicket(t) ==
  /\ ticket[t] = "NONE"
  /\ ticket' = [ticket EXCEPT ![t] = "OPEN"]
  /\ UNCHANGED <<loyaltyVars, payment, refunded, dispute, desk>>

\* addMessage reads the ticket, and stores the message ...
ReadTicket(c, t) ==
  /\ ticket[t] # "NONE"
  /\ Begin(c, [Free EXCEPT !.step = "message", !.case = t, !.status = ticket[t]])
  /\ UNCHANGED <<loyaltyVars, payment, refunded, ticket, dispute>>

\* ... and writes the status that follows from the one it read.
CommitMessage(c, role) ==
  /\ desk[c].step = "message"
  /\ ticket' = [ticket EXCEPT ![desk[c].case] =
       IF role = "CUSTOMER"
       THEN IF desk[c].status = "WAITING_FOR_CUSTOMER" THEN "IN_PROGRESS" ELSE desk[c].status
       ELSE "WAITING_FOR_CUSTOMER"]
  /\ End(c)
  /\ UNCHANGED <<loyaltyVars, payment, refunded, dispute>>

\* updateTicketStatus: any status over any other.
UpdateTicketStatus(t, status) ==
  /\ ticket[t] # "NONE"
  /\ ticket' = [ticket EXCEPT ![t] = status]
  /\ UNCHANGED <<loyaltyVars, payment, refunded, dispute, desk>>

-----------------------------------------------------------------------------
\* The payment a dispute is about: a captured one if there is one.
PaymentOf(p) ==
  IF PaymentIds = {} THEN p = None
  ELSE IF Captured # {} THEN p \in Captured ELSE p \in PaymentIds

\* createDispute finds no dispute of the booking that is not REJECTED or CLOSED ...
ReadDisputes(c, p) ==
  /\ \A t \in Cases : dispute[t].status \in {"NONE", "REJECTED", "CLOSED"}
  /\ PaymentOf(p)
  /\ Begin(c, [Free EXCEPT !.step = "open", !.payment = p])
  /\ UNCHANGED <<loyaltyVars, payment, refunded, ticket, dispute>>

\* ... creates a ticket ...
OpenTicket(c, t) ==
  /\ desk[c].step = "open"
  /\ ticket[t] = "NONE"
  /\ ticket' = [ticket EXCEPT ![t] = "OPEN"]
  /\ desk' = [desk EXCEPT ![c].step = "dispute", ![c].case = t]
  /\ UNCHANGED <<loyaltyVars, payment, refunded, dispute>>

\* ... and then the dispute.
OpenDispute(c) ==
  /\ desk[c].step = "dispute"
  /\ dispute' = [dispute EXCEPT ![desk[c].case] =
       [NoDispute EXCEPT !.status = "OPEN", !.payment = desk[c].payment]]
  /\ End(c)
  /\ UNCHANGED <<loyaltyVars, payment, refunded, ticket>>

\* partnerResponse, whatever the status of the dispute: UNDER_REVIEW ...
RespondDispute(c, t) ==
  /\ dispute[t] # NoDispute
  /\ dispute' = [dispute EXCEPT ![t].status = "UNDER_REVIEW"]
  /\ Begin(c, [Free EXCEPT !.step = "respond", !.case = t])
  /\ UNCHANGED <<loyaltyVars, payment, refunded, ticket>>

\* ... and its ticket IN_PROGRESS.
RespondTicket(c) ==
  /\ desk[c].step = "respond"
  /\ ticket' = [ticket EXCEPT ![desk[c].case] = "IN_PROGRESS"]
  /\ End(c)
  /\ UNCHANGED <<loyaltyVars, payment, refunded, dispute>>

-----------------------------------------------------------------------------
Terminal == {"DECIDED", "RESOLVED", "CLOSED"}

Refunding == {"FULL_REFUND", "PARTIAL_REFUND"}

\* Mutant: the decision is written before it takes effect.
FirstStepDeciding(decision, points) == "decide"

\* What a decision does first.
FirstStep(decision, points) ==
  IF decision \in Refunding THEN "refund"
  ELSE IF decision = "GOODWILL_CREDIT" /\ points > 0 THEN "goodwill" ELSE "decide"

\* resolveDispute of a dispute that is not decided, with the payment to refund (the
\* dispute's, or a captured one) and the points of a goodwill credit.
ReadResolve(c, t, decision, p, points) ==
  /\ dispute[t].status \notin Terminal \cup {"NONE"}
  /\ IF decision \notin Refunding THEN p = None
     ELSE IF dispute[t].payment # None THEN p = dispute[t].payment ELSE p \in Captured
  /\ decision # "GOODWILL_CREDIT" => points = 0
  /\ Begin(c, [Free EXCEPT !.step = FirstStep(decision, points), !.case = t,
                           !.decision = decision, !.payment = p, !.points = points])
  /\ UNCHANGED <<loyaltyVars, payment, refunded, ticket, dispute>>

\* initiateRefund reads a CAPTURED payment.
ReadRefund(c) ==
  /\ desk[c].step = "refund"
  /\ payment[desk[c].payment] = "CAPTURED"
  /\ Then(c, "commitRefund")
  /\ UNCHANGED <<loyaltyVars, payment, refunded, ticket, dispute>>

Refund(p) ==
  /\ payment' = [payment EXCEPT ![p] = "REFUNDED"]
  /\ refunded' = refunded \cup {p}

\* Its Serializable transaction has the provider refund the payment, unless another call
\* did so meanwhile, and writes REFUNDED.
CommitRefund(c) ==
  /\ desk[c].step = "commitRefund"
  /\ Refund(desk[c].payment)
  /\ Then(c, "decide")
  /\ UNCHANGED <<loyaltyVars, ticket, dispute>>

\* The idempotency key of a goodwill credit is the dispute's.
GoodwillKey(c) == <<"goodwill", desk[c].case>>

\* earnPoints for the customer: the transaction of this call.
AwardGoodwill(c) ==
  /\ desk[c].step = "goodwill"
  /\ BeginAward(c, Change(Customer, desk[c].points, GoodwillKey(c)))
  /\ Then(c, "decide")
  /\ UNCHANGED <<account, rows, payment, refunded, ticket, dispute>>

\* The decision is written, over whatever the dispute's status is by now ...
Decide(c) ==
  /\ desk[c].step = "decide" /\ award[c] = NoAward
  /\ dispute' = [dispute EXCEPT ![desk[c].case].status = "DECIDED",
                                ![desk[c].case].decision = desk[c].decision,
                                ![desk[c].case].points = desk[c].points]
  /\ Then(c, "resolveTicket")
  /\ UNCHANGED <<loyaltyVars, payment, refunded, ticket>>

\* ... and the ticket RESOLVED.
ResolveTicket(c) ==
  /\ desk[c].step = "resolveTicket"
  /\ ticket' = [ticket EXCEPT ![desk[c].case] = "RESOLVED"]
  /\ End(c)
  /\ UNCHANGED <<loyaltyVars, payment, refunded, dispute>>

\* A call fails and goes no further; so does one whose transaction is undone.
FailCall(c) ==
  /\ desk[c] # Free /\ award[c] = NoAward
  /\ End(c)
  /\ UNCHANGED <<loyaltyVars, payment, refunded, ticket, dispute>>

FailAward(c) ==
  /\ AbortAward(c)
  /\ End(c)
  /\ UNCHANGED <<payment, refunded, ticket, dispute>>

\* A verification, webhook or reconcile captures a payment, also one that was refunded.
CapturedElsewhere(p) ==
  /\ payment[p] # "CAPTURED"
  /\ payment' = [payment EXCEPT ![p] = "CAPTURED"]
  /\ UNCHANGED <<loyaltyVars, refunded, ticket, dispute, desk>>

\* A refund webhook, whatever the status of the payment.
RefundedElsewhere(p) ==
  /\ payment[p] # "REFUNDED"
  /\ Refund(p)
  /\ UNCHANGED <<loyaltyVars, ticket, dispute, desk>>

SupportStep ==
  \/ \E t \in Cases :
       \/ CreateTicket(t)
       \/ \E status \in Statuses : UpdateTicketStatus(t, status)
       \/ \E c \in Calls : ReadTicket(c, t)
  \/ \E c \in Calls, role \in Roles : CommitMessage(c, role)

DisputeStep(c) ==
  \/ \E p \in PaymentIds \cup {None} : ReadDisputes(c, p)
  \/ \E t \in Cases : OpenTicket(c, t) \/ RespondDispute(c, t)
  \/ OpenDispute(c) \/ RespondTicket(c)

ResolveStep(c) ==
  \/ \E t \in Cases, decision \in Decisions, p \in PaymentIds \cup {None},
        points \in GoodwillPoints \cup {0} : ReadResolve(c, t, decision, p, points)
  \/ ReadRefund(c) \/ CommitRefund(c) \/ AwardGoodwill(c) \/ Decide(c) \/ ResolveTicket(c)

PointsStep ==
  /\ \/ \E u \in Users : GetAccount(u)
     \/ \E c \in Calls :
          \/ desk[c] = Free /\ \E a \in Adjustments : AdjustPoints(c, a)
          \/ AwardStep(c)
  /\ UNCHANGED deskVars

DisputesNext ==
  \/ SupportStep
  \/ \E c \in Calls : DisputeStep(c) \/ ResolveStep(c) \/ FailCall(c) \/ FailAward(c)
  \/ PointsStep
  \/ \E p \in PaymentIds : CapturedElsewhere(p) \/ RefundedElsewhere(p)

DisputesSpec == DisputesInit /\ [][DisputesNext]_vars

-----------------------------------------------------------------------------
GoodwillRows(t) ==
  {i \in DOMAIN rows : rows[i].key[1] = "goodwill" /\ rows[i].key[2] = t}

\* Whatever two administrators and the partner do at once, a decision that stands in a
\* dispute has happened: a payment was refunded (a late capture may stand over it since),
\* and the points of a goodwill credit that names some are on the account.  They are there
\* once, also when the dispute is resolved again.
DecisionTookEffect ==
  \A t \in Cases :
    /\ dispute[t].decision \in Refunding => refunded # {}
    /\ dispute[t].decision = "GOODWILL_CREDIT" /\ dispute[t].points > 0 => GoodwillRows(t) # {}
    /\ Cardinality(GoodwillRows(t)) <= 1
=============================================================================
