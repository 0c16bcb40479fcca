------------------------------ MODULE Payments ------------------------------
(***************************************************************************)
(* PaymentsService on top of the bookings service: orders, verification by *)
(* the client, the webhook route payments/webhooks/:provider,              *)
(* reconciliation and refunds.  It details what module Booking leaves to   *)
(* its environment; the tables booking and payment are the same.           *)
(*                                                                         *)
(* A call reads, asks the provider, and writes in a Serializable           *)
(* transaction; the three are separate steps and other calls come between. *)
(* The provider and the customer are external: what they do is taken from  *)
(* what the service asks of them.  Payment statuses that no code writes    *)
(* (PENDING, AUTHORIZED, FAILED) are left out.                             *)
(***************************************************************************)
EXTENDS Booking

CONSTANTS
  Calls,           \* slots for calls in flight (a bound on the concurrency)
  Providers,
  EventNumbers,    \* events a provider sends about one payment and one fact (a bound)
  MaxAsked         \* bound on the refunds asked of the provider for one payment

ASSUME PaymentsAssumption == MaxAsked \in Nat

VARIABLES
  order,           \* the rest of a payment row: provider, amount, idempotency key
  paid,            \* external: payments whose order the customer has paid
  asked,           \* external: refunds the provider has made of each payment
  call,            \* the calls in flight
  recorded,        \* payment_webhook_events
  announced        \* payments for which PAYMENT_CAPTURED has been emitted

ownVars == <<order, paid, asked, call, recorded, announced>>

vars == <<bookingVars, ownVars>>

\* What a capture leaves alone.
others == <<checkIn, facilityActive, req, answered, order, paid, asked, recorded>>

Order == [provider : Providers, amount : Nat, key : Keys \cup {None}]

NoOrder == [provider |-> None, amount |-> 0, key |-> None]

WebhookEvent == [about : {"captured", "refunded"}, payment : Payments, number : EventNumbers]

\* What a call in flight does next, and what it read to do it.
Step ==
  {"order", "verify", "capture", "refunded", "record", "recordAndAnnounce", "announce",
   "reconcile", "refund", "refundAsked"}

Call ==
  [step : Step, payment : Payments \cup {None}, booking : Bookings \cup {None},
   order : Order \cup {NoOrder}, event : WebhookEvent \cup {None},
   saw : PaymentStatus \cup {"NONE"}]

Free == [step |-> "free", payment |-> None, booking |-> None, order |-> NoOrder,
         event |-> None, saw |-> "NONE"]

\* canTransition(status, CAPTURED).
MayCapture(status) == status \in {"INITIATED", "CAPTURED"}

PaymentsInit ==
  /\ Init
  /\ order = [p \in Payments |-> NoOrder]
  /\ paid = {}
  /\ asked = [p \in Payments |-> 0]
  /\ call = [c \in Calls |-> Free]
  /\ recorded = {}
  /\ announced = {}

Begin(c, next) ==
  /\ call[c] = Free
  /\ call' = [call EXCEPT ![c] = next]

End(c) == call' = [call EXCEPT ![c] = Free]

Then(c, step) == call' = [call EXCEPT ![c].step = step]

OnPayment(step, p) == [Free EXCEPT !.step = step, !.payment = p]

\* Mutant: the call forgets which event it handles.
OnEventForgotten(step, e) == [Free EXCEPT !.step = step, !.payment = e.payment]

OnEvent(step, e) == [Free EXCEPT !.step = step, !.payment = e.payment, !.event = e]

-----------------------------------------------------------------------------
\* createOrder, up to the provider's answer: the booking is not CANCELLED or
\* COMPLETED (every booking has a price), no payment has the key, no payment of the
\* booking at this provider is INITIATED (that one would be the answer) and none is
\* CAPTURED.
ReadOrder(c, b, provider, k) ==
  /\ Exists(b)
  /\ booking[b].status \notin {"CANCELLED", "COMPLETED"}
  /\ k # None => \A p \in Payments : order[p].key # k
  /\ ~ \E p \in Payments : payment[p] = [booking |-> b, status |-> "INITIATED"]
                           /\ order[p].provider = provider
  /\ ~ HasCaptured(b)
  /\ Begin(c, [Free EXCEPT !.step = "order", !.booking = b,
                           !.order = [provider |-> provider, amount |-> Price[booking[b].slot],
                                       key |-> k]])
  /\ UNCHANGED <<bookingVars, order, paid, asked, recorded, announced>>

\* It inserts the payment; the key is unique in the table.
CommitOrder(c, p) ==
  /\ call[c].step = "order"
  /\ call[c].order.key # None => \A q \in Payments : order[q].key # call[c].order.key
  /\ PaymentOpened(p, call[c].booking)
  /\ order' = [order EXCEPT ![p] = call[c].order]
  /\ End(c)
  /\ UNCHANGED <<paid, asked, recorded, announced>>

\* Mutant: the provider is not asked.
ReadVerifyTrusting(c, p) ==
  /\ MayCapture(payment[p].status)
  /\ payment[p].status # "CAPTURED"
  /\ Begin(c, OnPayment("verify", p))
  /\ UNCHANGED <<bookingVars, order, paid, asked, recorded, announced>>

\* verifyPayment: not CAPTURED yet, a transition it accepts, and the provider
\* vouches for the checkout.
ReadVerify(c, p) ==
  /\ payment[p].status \notin {"NONE", "CAPTURED"}
  /\ MayCapture(payment[p].status)
  /\ p \in paid
  /\ Begin(c, OnPayment("verify", p))
  /\ UNCHANGED <<bookingVars, order, paid, asked, recorded, announced>>

\* Its transaction looks again, but only for CAPTURED.
CommitVerify(c) ==
  LET p == call[c].payment IN
  /\ call[c].step = "verify"
  /\ IF payment[p].status = "CAPTURED"
     THEN End(c) /\ UNCHANGED <<payment, booking, visited>>
     ELSE Capture(p) /\ Then(c, "announce")
  /\ UNCHANGED <<others, announced>>

\* verifyPayment and the webhook emit PAYMENT_CAPTURED as their last step.
Announce(c) ==
  /\ call[c].step = "announce"
  /\ announced' = announced \cup {call[c].payment}
  /\ End(c)
  /\ UNCHANGED <<bookingVars, order, paid, asked, recorded>>

-----------------------------------------------------------------------------
\* Mutant: the event is recorded when it arrives, before it is acted on.
ReadWebhookRecording(c, e) ==
  LET p == e.payment IN
  /\ payment[p].status # "NONE"
  /\ IF e.about = "captured" THEN p \in paid ELSE asked[p] > 0
  /\ e \notin recorded
  /\ Begin(c, OnEvent(IF e.about = "captured" THEN "capture" ELSE "refunded", e))
  /\ recorded' = recorded \cup {e}
  /\ UNCHANGED <<bookingVars, order, paid, asked, announced>>

\* handleWebhook of an event not recorded before: a payment in the status the event
\* brings is recorded as ALREADY_PROCESSED, any other goes to the transaction.
ReadWebhook(c, e) ==
  LET p == e.payment IN
  /\ payment[p].status # "NONE"
  /\ IF e.about = "captured" THEN p \in paid ELSE asked[p] > 0
  /\ e \notin recorded
  /\ Begin(c, OnEvent(CASE e.about = "captured" /\ payment[p].status = "CAPTURED" -> "record"
                        [] e.about = "refunded" /\ payment[p].status = "REFUNDED" -> "record"
                        [] e.about = "captured" /\ payment[p].status # "CAPTURED" -> "capture"
                        [] OTHER -> "refunded",
                      e))
  /\ UNCHANGED <<bookingVars, order, paid, asked, recorded, announced>>

\* The transaction of a capture event tests the transition; whatever it did,
\* the event is recorded and PAYMENT_CAPTURED emitted.
CommitWebhookCapture(c) ==
  LET p == call[c].payment IN
  /\ call[c].step = "capture"
  /\ IF MayCapture(payment[p].status)
     THEN Capture(p)
     ELSE UNCHANGED <<payment, booking, visited>>
  /\ Then(c, "recordAndAnnounce")
  /\ UNCHANGED <<others, announced>>

\* The transaction of a refund event; a payment REFUNDED by now ends the call with
\* nothing recorded.
CommitWebhookRefund(c) ==
  LET p == call[c].payment IN
  /\ call[c].step = "refunded"
  /\ IF payment[p].status = "REFUNDED"
     THEN End(c) /\ UNCHANGED payment
     ELSE payment' = [payment EXCEPT ![p].status = "REFUNDED"] /\ Then(c, "record")
  /\ UNCHANGED <<booking, visited, others, announced>>

\* recordWebhookEvent; a second record of the same event is refused and only logged.
RecordEvent(c) ==
  /\ call[c].step \in {"record", "recordAndAnnounce"}
  /\ recorded' = recorded \cup {call[c].event}
  /\ IF call[c].step = "record" THEN End(c) ELSE Then(c, "announce")
  /\ UNCHANGED <<bookingVars, order, paid, asked, announced>>

-----------------------------------------------------------------------------
\* reconcilePayment: any payment that is not CAPTURED and that the provider calls paid.
ReadReconcile(c, p) ==
  /\ payment[p].status \notin {"NONE", "CAPTURED"}
  /\ p \in paid
  /\ Begin(c, OnPayment("reconcile", p))
  /\ UNCHANGED <<bookingVars, order, paid, asked, recorded, announced>>

\* Mutant: the booking is confirmed in whatever status it is.
CommitReconcileAny(c) ==
  LET p == call[c].payment IN
  /\ call[c].step = "reconcile"
  /\ payment' = [payment EXCEPT ![p].status = "CAPTURED"]
  /\ WriteBooking(payment[p].booking, SetStatus(payment[p].booking, "CONFIRMED"))
  /\ End(c)
  /\ UNCHANGED <<others, announced>>

\* Its transaction captures without looking again, and no event follows.
CommitReconcile(c) ==
  /\ call[c].step = "reconcile"
  /\ Capture(call[c].payment)
  /\ End(c)
  /\ UNCHANGED <<others, announced>>

\* initiateRefund of a CAPTURED payment.
ReadRefund(c, p) ==
  /\ payment[p].status = "CAPTURED"
  /\ Begin(c, OnPayment("refund", p))
  /\ UNCHANGED <<bookingVars, order, paid, asked, recorded, announced>>

\* Its transaction reads the payment again and asks the provider for the refund.
AskRefund(c) ==
  LET p == call[c].payment IN
  /\ call[c].step = "refund"
  /\ payment[p].status # "REFUNDED"
  /\ asked[p] < MaxAsked
  /\ asked' = [asked EXCEPT ![p] = @ + 1]
  /\ call' = [call EXCEPT ![c].step = "refundAsked", ![c].saw = payment[p].status]
  /\ UNCHANGED <<bookingVars, order, paid, recorded, announced>>

\* It commits unless the payment it read was changed meanwhile (not serializable).
CommitRefund(c) ==
  LET p == call[c].payment IN
  /\ call[c].step = "refundAsked"
  /\ payment[p].status = call[c].saw
  /\ payment' = [payment EXCEPT ![p].status = "REFUNDED"]
  /\ End(c)
  /\ UNCHANGED <<booking, visited, others, announced>>

\* A call that goes no further: a check fails, the provider fails, the transaction is
\* not serializable, or the server stops.  What it has written or asked for remains.
FailCall(c) ==
  /\ call[c] # Free
  /\ End(c)
  /\ UNCHANGED <<bookingVars, order, paid, asked, recorded, announced>>

-----------------------------------------------------------------------------
\* External: the customer pays the order, at any time after it was opened.
CustomerPays(p) ==
  /\ payment[p].status # "NONE"
  /\ paid' = paid \cup {p}
  /\ UNCHANGED <<bookingVars, order, asked, call, recorded, announced>>

\* External: a refund made at the provider, not through the service.
ProviderRefunds(p) ==
  /\ p \in paid
  /\ asked[p] = 0
  /\ asked' = [asked EXCEPT ![p] = @ + 1]
  /\ UNCHANGED <<bookingVars, order, paid, call, recorded, announced>>

OrderStep(c) ==
  \/ \E b \in Bookings, provider \in Providers, k \in Keys \cup {None} :
       ReadOrder(c, b, provider, k)
  \/ \E p \in Payments : CommitOrder(c, p)

CaptureStep(c) ==
  \/ \E p \in Payments : ReadVerify(c, p) \/ ReadReconcile(c, p)
  \/ CommitVerify(c) \/ CommitReconcile(c) \/ Announce(c)

WebhookStep(c) ==
  \/ \E e \in WebhookEvent : ReadWebhook(c, e)
  \/ CommitWebhookCapture(c) \/ CommitWebhookRefund(c) \/ RecordEvent(c)

RefundStep(c) ==
  \/ \E p \in Payments : ReadRefund(c, p)
  \/ AskRefund(c) \/ CommitRefund(c)

ServiceStep ==
  \E c \in Calls : OrderStep(c) \/ CaptureStep(c) \/ WebhookStep(c) \/ RefundStep(c) \/ FailCall(c)

ExternalStep == \E p \in Payments : CustomerPays(p) \/ ProviderRefunds(p)

PaymentsNext == ServiceStep \/ ExternalStep \/ (BookingStep /\ UNCHANGED ownVars)

PaymentsSpec == PaymentsInit /\ [][PaymentsNext]_vars
-----------------------------------------------------------------------------
\* The types of what this module adds.
PaymentsTypeOK ==
  /\ TypeOK
  /\ order \in [Payments -> Order \cup {NoOrder}]
  /\ paid \subseteq Payments
  /\ asked \in [Payments -> Nat]
  /\ call \in [Calls -> Call \cup {Free}]
  /\ recorded \subseteq WebhookEvent
  /\ announced \subseteq Payments

\* Orders, verifications, webhooks, reconciliations and refunds, in any order, do to
\* bookings and payments nothing but what BookingsService is specified to live with.
ImplementsBooking == Spec

\* Once a booking is paid it is out of PENDING: capture and confirmation are one step,
\* and no accept, reject, cancel or reschedule that read the booking before the
\* capture puts it back.
PaidIsConfirmed ==
  \A p \in Payments : payment[p].status = "CAPTURED" => booking[payment[p].booking].status # "PENDING"

\* Whatever races, a payment is CAPTURED only if the customer paid its order, and
\* REFUNDED only if the provider made a refund.
MoneyBehindStatus ==
  \A p \in Payments :
    /\ payment[p].status = "CAPTURED" => p \in paid
    /\ payment[p].status = "REFUNDED" => asked[p] > 0

\* The scheduling: a step of a call that can be taken keeps being retried until it
\* is (SF, because a call may fail again and again before it goes through), and the
\* provider repeats the capture event until it gets an answer, as gateways do.
Delivery(p) == \E c \in Calls, n \in EventNumbers :
  ReadWebhook(c, [about |-> "captured", payment |-> p, number |-> n])

Fairness ==
  /\ \A c \in Calls : SF_vars(CommitWebhookCapture(c)) /\ WF_vars(FailCall(c))
  /\ \A p \in Payments : SF_vars(Delivery(p))

FairSpec == PaymentsSpec /\ Fairness

\* A paid order does not stay INITIATED: if no verification gets through, the
\* webhook captures the payment, unless the booking was cancelled under it.
PaidIsSettled ==
  \A p \in Payments : p \in paid ~> payment[p].status # "INITIATED"
=============================================================================
