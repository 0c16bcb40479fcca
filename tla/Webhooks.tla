------------------------------ MODULE Webhooks ------------------------------
(***************************************************************************)
(* The webhook pipeline: WebhooksService stores an event and queues a job, *)
(* workers process the jobs, FinanceService posts to the ledger, and the   *)
(* listener of the emitted domain events posts the same money a second     *)
(* time.  BullMQ is external: a job is tried Attempts times, and once more *)
(* when the process that had it died.                                      *)
(*                                                                         *)
(* Every read, transaction and update of a handler is a step of its own;   *)
(* the other routes to a capture (module Payments) are single steps here.  *)
(***************************************************************************)
EXTENDS Ledger, FiniteSets

CONSTANTS
  Events,          \* the event ids
  Notices,         \* what an event may say, and of which payment (None: not one of ours)
  Workers,         \* slots of the webhook worker (its concurrency)
  Listeners,       \* calls of the event listener at a time (a bound)
  Attempts,        \* attempts BullMQ makes of a job
  MaxRetries,      \* bound on an administrator's retries of an event
  MaxCrashes       \* bound on the restarts of the process

ASSUME WebhooksAssumption ==
  /\ None \notin Payments \cup (Events \X Nat)
  /\ Notices \subseteq [kind : {"captured", "refunded", "other"}, payment : Payments \cup {None}]
  /\ Attempts \in Nat \ {0} /\ MaxRetries \in Nat /\ MaxCrashes \in Nat
  /\ Workers \cap Listeners = {}

VARIABLES
  gateway,         \* external: what the gateway knows of each payment
  payment,         \* payments.status
  booking,         \* bookings.status of the booking of each payment
  event,           \* payment_webhook_events.status, "NONE" before it is stored
  says,            \* the rest of that row: the event's type and payload
  job,             \* the jobs of the webhooks queue
  thread,          \* the workers' and the listener's calls
  emitted,         \* domain events emitted and not yet taken by the listener
  crashes

tableVars == <<payment, booking>>

vars == <<ledgerVars, gateway, tableVars, event, says, job, thread, emitted, crashes>>

Jobs == Events \X (0..MaxRetries)

Threads == Workers \cup Listeners

EventStatus == {"NONE", "QUEUED", "PROCESSING", "PROCESSED", "FAILED", "IGNORED"}

JobState == {"none", "waiting", "active", "completed", "failed"}

NoNotice == [kind |-> "other", payment |-> None]

Emission == {"PAYMENT_CAPTURED", "PAYMENT_REFUNDED"} \X Payments

Steps ==
  {"start", "find", "capture", "post", "postInsert", "refund", "reverse", "reverseInsert",
   "finish", "finishAndEmit", "emit", "audit", "acknowledge"}

Idle == [step |-> "idle", job |-> None, payment |-> None]

Thread == [step : Steps, job : Jobs \cup {None}, payment : Payments \cup {None}]

WebhooksInit ==
  /\ LedgerInit
  /\ gateway = [p \in Payments |-> "open"]
  /\ payment = [p \in Payments |-> "INITIATED"]
  /\ booking = [p \in Payments |-> "PENDING"]
  /\ event = [e \in Events |-> "NONE"]
  /\ says = [e \in Events |-> NoNotice]
  /\ job = [j \in Jobs |-> [state |-> "none", tries |-> 0, stalled |-> FALSE]]
  /\ thread = [t \in Threads |-> Idle]
  /\ emitted = {}
  /\ crashes = 0

Then(t, step) == thread' = [thread EXCEPT ![t].step = step]

Kind(e) == says[e].kind

About(e) == says[e].payment

EventOf(t) == thread[t].job[1]

IsWorker(t) == thread[t].job # None

SetEvent(t, status) == event' = [event EXCEPT ![EventOf(t)] = status]

Enqueue(j) == job' = [job EXCEPT ![j].state = "waiting"]

-----------------------------------------------------------------------------
\* receiveWebhook of an event with a valid signature, and with an event id not seen
\* before (a duplicate is acknowledged and changes nothing).  A failure to enqueue is
\* swallowed by addJob.
Receive(e, notice) ==
  /\ event[e] = "NONE"
  /\ notice.payment # None =>
       gateway[notice.payment] \in (IF notice.kind = "refunded" THEN {"refunded"}
                                    ELSE {"paid", "refunded"})
  /\ event' = [event EXCEPT ![e] = "QUEUED"]
  /\ says' = [says EXCEPT ![e] = notice]
  /\ Enqueue(<<e, 0>>) \/ UNCHANGED job
  /\ UNCHANGED <<ledgerVars, gateway, tableVars, thread, emitted, crashes>>

\* retryWebhookEvent, whatever the status: QUEUED again and another job.
RetryEvent(e, j) ==
  /\ event[e] # "NONE"
  /\ j[1] = e /\ j[2] > 0 /\ job[j].state = "none"
  /\ event' = [event EXCEPT ![e] = "QUEUED"]
  /\ Enqueue(j) \/ UNCHANGED job
  /\ UNCHANGED <<ledgerVars, gateway, tableVars, says, thread, emitted, crashes>>

\* retryFailedJobs of the queue's failed jobs.
RetryFailedJobs ==
  /\ \E j \in Jobs : job[j].state = "failed"
  /\ job' = [j \in Jobs |-> IF job[j].state = "failed" THEN [job[j] EXCEPT !.state = "waiting"]
                            ELSE job[j]]
  /\ UNCHANGED <<ledgerVars, gateway, tableVars, event, thread, emitted, crashes, says>>

-----------------------------------------------------------------------------
\* A worker takes a job; processWebhookEvent has nothing to do for a PROCESSED event.
TakeJob(t, j) ==
  /\ thread[t] = Idle
  /\ job[j].state = "waiting"
  /\ job' = [job EXCEPT ![j].state = "active"]
  /\ thread' = [thread EXCEPT ![t] =
       [step |-> IF event[j[1]] = "PROCESSED" THEN "acknowledge" ELSE "start",
        job |-> j, payment |-> says[j[1]].payment]]
  /\ UNCHANGED <<ledgerVars, gateway, tableVars, event, emitted, crashes, says>>

\* It marks the event PROCESSING, whatever its status is by now.
StartProcessing(t) ==
  /\ thread[t].step = "start"
  /\ SetEvent(t, "PROCESSING")
  /\ Then(t, "find")
  /\ UNCHANGED <<ledgerVars, gateway, tableVars, job, emitted, crashes, says>>

\* Mutant: an event that needs nothing done is left as it is.
DismissSilently(t) ==
  /\ thread[t].step = "find"
  /\ Kind(EventOf(t)) = "other" \/ About(EventOf(t)) = None
  /\ Then(t, "acknowledge")
  /\ UNCHANGED <<ledgerVars, gateway, tableVars, event, job, emitted, crashes, says>>

\* An event of another type is IGNORED; one about an unknown payment FAILED, without
\* an error, so that the job is over.
Dismiss(t) ==
  /\ thread[t].step = "find"
  /\ \/ Kind(EventOf(t)) = "other" /\ SetEvent(t, "IGNORED")
     \/ Kind(EventOf(t)) # "other" /\ About(EventOf(t)) = None /\ SetEvent(t, "FAILED")
  /\ Then(t, "acknowledge")
  /\ UNCHANGED <<ledgerVars, gateway, tableVars, job, emitted, crashes, says>>

\* Mutant: a payment that is no longer INITIATED needs nothing done.
FindPaymentHandled(t) ==
  LET e == EventOf(t) IN
  /\ thread[t].step = "find"
  /\ Kind(e) # "other" /\ About(e) # None
  /\ Then(t, CASE Kind(e) = "captured" /\ payment[About(e)] # "INITIATED" -> "finish"
               [] Kind(e) = "captured" /\ payment[About(e)] = "INITIATED" -> "capture"
               [] Kind(e) = "refunded" -> "refund")
  /\ UNCHANGED <<ledgerVars, gateway, tableVars, event, job, emitted, crashes, says>>

\* It finds the payment; one that already has the status the event brings is done.
FindPayment(t) ==
  LET e == EventOf(t) IN
  /\ thread[t].step = "find"
  /\ Kind(e) # "other" /\ About(e) # None
  /\ Then(t, CASE Kind(e) = "captured" /\ payment[About(e)] = "CAPTURED" -> "finish"
               [] Kind(e) = "captured" /\ payment[About(e)] # "CAPTURED" -> "capture"
               [] Kind(e) = "refunded" /\ payment[About(e)] = "REFUNDED" -> "finish"
               [] Kind(e) = "refunded" /\ payment[About(e)] # "REFUNDED" -> "refund")
  /\ UNCHANGED <<ledgerVars, gateway, tableVars, event, job, emitted, crashes, says>>

\* The Serializable transaction of a capture: over any other status, and the booking
\* is confirmed if it is PENDING.
SetCaptured(p) ==
  /\ payment' = [payment EXCEPT ![p] = "CAPTURED"]
  /\ booking' = [booking EXCEPT ![p] = IF @ = "PENDING" THEN "CONFIRMED" ELSE @]

CommitCapture(t) ==
  LET p == thread[t].payment IN
  /\ thread[t].step = "capture"
  /\ IF payment[p] = "CAPTURED" THEN UNCHANGED tableVars ELSE SetCaptured(p)
  /\ Then(t, "post")
  /\ UNCHANGED <<ledgerVars, gateway, event, job, emitted, crashes, says>>

\* The plain update of a refund.
UpdateRefunded(t) ==
  /\ thread[t].step = "refund"
  /\ payment' = [payment EXCEPT ![thread[t].payment] = "REFUNDED"]
  /\ Then(t, "reverse")
  /\ UNCHANGED <<ledgerVars, gateway, booking, event, job, emitted, crashes, says>>

\* A call of FinanceService returns to the worker or ends the listener's call.
Posted(t) ==
  thread' = [thread EXCEPT ![t] = IF IsWorker(t) THEN [@ EXCEPT !.step = "finishAndEmit"] ELSE Idle]

\* recordPayment looks for its key, and inserts.
ReadPosted(t) ==
  /\ thread[t].step = "post"
  /\ IF KeyFree(<<"pay", thread[t].payment>>) THEN Then(t, "postInsert") ELSE Posted(t)
  /\ UNCHANGED <<ledgerVars, gateway, tableVars, event, job, emitted, crashes, says>>

CommitPosted(t) ==
  /\ thread[t].step = "postInsert"
  /\ InsertPayment(thread[t].payment)
  /\ Posted(t)
  /\ UNCHANGED <<gateway, tableVars, event, job, emitted, crashes, says>>

\* recordRefund reads what was posted and refunded, and inserts.
ReadReversed(t) ==
  /\ thread[t].step = "reverse"
  /\ MayRefund(thread[t].payment)
  /\ Then(t, "reverseInsert")
  /\ UNCHANGED <<ledgerVars, gateway, tableVars, event, job, emitted, crashes, says>>

CommitReversed(t) ==
  /\ thread[t].step = "reverseInsert"
  /\ InsertRefund(thread[t].payment, 0)
  /\ Posted(t)
  /\ UNCHANGED <<gateway, tableVars, event, job, emitted, crashes, says>>

\* The event is PROCESSED; what changed the payment is emitted after that.
FinishEvent(t) ==
  /\ thread[t].step \in {"finish", "finishAndEmit"}
  /\ SetEvent(t, "PROCESSED")
  /\ Then(t, IF thread[t].step = "finish" THEN "acknowledge" ELSE "emit")
  /\ UNCHANGED <<ledgerVars, gateway, tableVars, job, emitted, crashes, says>>

Emit(t) ==
  /\ thread[t].step = "emit"
  /\ emitted' = emitted \cup
       {<<IF Kind(EventOf(t)) = "captured" THEN "PAYMENT_CAPTURED" ELSE "PAYMENT_REFUNDED",
          thread[t].payment>>}
  /\ Then(t, IF Kind(EventOf(t)) = "captured" THEN "audit" ELSE "acknowledge")
  /\ UNCHANGED <<ledgerVars, gateway, tableVars, event, job, crashes, says>>

\* The handler returns and BullMQ completes the job.
Acknowledge(t) ==
  /\ thread[t].step \in {"audit", "acknowledge"}
  /\ job' = [job EXCEPT ![thread[t].job].state = "completed"]
  /\ thread' = [thread EXCEPT ![t] = Idle]
  /\ UNCHANGED <<ledgerVars, gateway, tableVars, event, emitted, crashes, says>>

\* Mutant: the queue has no limit of attempts.
TriedForever(j) == [j EXCEPT !.state = "waiting"]

\* What BullMQ does with a job whose handler threw: another attempt, or none.
Tried(j) == [j EXCEPT !.tries = IF @ < Attempts THEN @ + 1 ELSE @,
                      !.state = IF j.tries + 1 < Attempts THEN "waiting" ELSE "failed"]

GiveBack(t) ==
  /\ job' = [job EXCEPT ![thread[t].job] = Tried(@)]
  /\ thread' = [thread EXCEPT ![t] = Idle]

\* Any of the steps may throw (the database, a refused insert or refund, the audit
\* log after the emission): the event is FAILED and the job is tried again.
FailEvent(t) ==
  /\ thread[t].step \in Steps \ {"start", "acknowledge"} /\ IsWorker(t)
  /\ SetEvent(t, "FAILED")
  /\ GiveBack(t)
  /\ UNCHANGED <<ledgerVars, gateway, tableVars, emitted, crashes, says>>

\* An error before the try block leaves the event as it is.
FailStart(t) ==
  /\ thread[t].step = "start"
  /\ GiveBack(t)
  /\ UNCHANGED <<ledgerVars, gateway, tableVars, event, emitted, crashes, says>>

-----------------------------------------------------------------------------
\* Mutant: the handler looks for the payment under another name in the payload.
HearNoPayment(t) == \E m \in emitted :
  /\ thread[t] = Idle
  /\ emitted' = emitted \ {m}
  /\ thread' = [thread EXCEPT ![t] =
       [Idle EXCEPT !.step = IF m[1] = "PAYMENT_CAPTURED" THEN "post" ELSE "reverse"]]
  /\ UNCHANGED <<ledgerVars, gateway, tableVars, event, job, crashes, says>>

\* The listener takes an emitted event.  An error in its call is logged and forgotten.
Hear(t) == \E m \in emitted :
  /\ thread[t] = Idle
  /\ emitted' = emitted \ {m}
  /\ thread' = [thread EXCEPT ![t] =
       [Idle EXCEPT !.step = IF m[1] = "PAYMENT_CAPTURED" THEN "post" ELSE "reverse",
                    !.payment = m[2]]]
  /\ UNCHANGED <<ledgerVars, gateway, tableVars, event, job, crashes, says>>

FailListener(t) ==
  /\ thread[t] # Idle /\ ~ IsWorker(t)
  /\ thread' = [thread EXCEPT ![t] = Idle]
  /\ UNCHANGED <<ledgerVars, gateway, tableVars, event, job, emitted, crashes, says>>

\* The process stops: calls in flight and emissions not yet heard are gone.  BullMQ
\* finds its jobs stalled and gives each one a second run, once.
Crash ==
  /\ crashes < MaxCrashes
  /\ crashes' = crashes + 1
  /\ thread' = [t \in Threads |-> Idle]
  /\ emitted' = {}
  /\ job' = [j \in Jobs |->
               IF job[j].state # "active" THEN job[j]
               ELSE [job[j] EXCEPT !.state = IF job[j].stalled THEN "failed" ELSE "waiting",
                                   !.stalled = TRUE]]
  /\ UNCHANGED <<ledgerVars, gateway, tableVars, event, says>>

-----------------------------------------------------------------------------
\* External: the customer pays, the gateway refunds.
GatewayMoves(p) ==
  /\ \/ gateway[p] = "open" /\ gateway' = [gateway EXCEPT ![p] = "paid"]
     \/ gateway[p] = "paid" /\ gateway' = [gateway EXCEPT ![p] = "refunded"]
  /\ UNCHANGED <<ledgerVars, tableVars, event, job, thread, emitted, crashes, says>>

\* The emission of a route in PaymentsService, or none (reconcilePayment, a crash).
MayEmit(m) == emitted' = emitted \cup {m} \/ UNCHANGED emitted

\* PaymentsService captures a paid payment on another route.
CapturedElsewhere(p) ==
  /\ gateway[p] # "open"
  /\ payment[p] # "CAPTURED"
  /\ SetCaptured(p)
  /\ MayEmit(<<"PAYMENT_CAPTURED", p>>)
  /\ UNCHANGED <<ledgerVars, gateway, event, job, thread, crashes, says>>

\* initiateRefund has the gateway refund a CAPTURED payment.
RefundedElsewhere(p) ==
  /\ payment[p] = "CAPTURED"
  /\ payment' = [payment EXCEPT ![p] = "REFUNDED"]
  /\ gateway' = [gateway EXCEPT ![p] = "refunded"]
  /\ MayEmit(<<"PAYMENT_REFUNDED", p>>)
  /\ UNCHANGED <<ledgerVars, booking, event, job, thread, crashes, says>>

\* BookingsService cancels the booking and its open payments.
CancelledElsewhere(p) ==
  /\ booking[p] \in {"PENDING", "CONFIRMED"}
  /\ booking' = [booking EXCEPT ![p] = "CANCELLED"]
  /\ payment' = [payment EXCEPT ![p] = IF @ = "INITIATED" THEN "CANCELLED" ELSE @]
  /\ UNCHANGED <<ledgerVars, gateway, event, job, thread, emitted, crashes, says>>

WorkerStep(t) ==
  \/ StartProcessing(t) \/ Dismiss(t) \/ FindPayment(t) \/ CommitCapture(t)
  \/ UpdateRefunded(t) \/ FinishEvent(t) \/ Emit(t) \/ Acknowledge(t)

FinanceStep(t) == ReadPosted(t) \/ CommitPosted(t) \/ ReadReversed(t) \/ CommitReversed(t)

RequestStep ==
  \/ \E e \in Events : (\E notice \in Notices : Receive(e, notice)) \/ \E j \in Jobs : RetryEvent(e, j)
  \/ RetryFailedJobs

EnvironmentStep == \E p \in Payments :
  GatewayMoves(p) \/ CapturedElsewhere(p) \/ RefundedElsewhere(p) \/ CancelledElsewhere(p)

WebhooksNext ==
  \/ RequestStep
  \/ \E t \in Workers : WorkerStep(t) \/ FailEvent(t) \/ FailStart(t)
                       \/ \E j \in Jobs : TakeJob(t, j)
  \/ \E t \in Listeners : Hear(t) \/ FailListener(t)
  \/ \E t \in Threads : FinanceStep(t)
  \/ SetRate /\ UNCHANGED <<gateway, tableVars, event, job, thread, emitted, crashes, says>>
  \/ Crash
  \/ EnvironmentStep

WebhooksSpec == WebhooksInit /\ [][WebhooksNext]_vars

-----------------------------------------------------------------------------
PostedRow ==
  [type : {"PAYMENT", "REFUND"}, subject : Payments,
   key : ({"pay"} \X Payments) \cup ({"refund"} \X Payments \X Nat), amount : Nat,
   percent : Nat, commission : Nat, entries : [Accounts -> Int], settlement : {None}]

FinanceSteps == {"post", "postInsert", "reverse", "reverseInsert"}

\* The types of the tables, the queue and the calls: a call that posts names the payment
\* it posts, and the listeners do nothing else.
WebhooksTypeOK ==
  /\ transactions \in Seq(PostedRow) /\ rate \in Rate
  /\ gateway \in [Payments -> {"open", "paid", "refunded"}]
  /\ payment \in [Payments -> {"INITIATED", "CAPTURED", "REFUNDED", "CANCELLED"}]
  /\ booking \in [Payments -> {"PENDING", "CONFIRMED", "CANCELLED"}]
  /\ event \in [Events -> EventStatus]
  /\ says \in [Events -> Notices \cup {NoNotice}]
  /\ job \in [Jobs -> [state : JobState, tries : 0..Attempts, stalled : BOOLEAN]]
  /\ thread \in [Threads -> Thread \cup {Idle}]
  /\ \A t \in Threads :
       /\ thread[t].step \in FinanceSteps => thread[t].payment # None
       /\ thread[t] # Idle /\ ~ IsWorker(t) => thread[t].step \in FinanceSteps
  /\ emitted \subseteq Emission
  /\ crashes \in 0..MaxCrashes

\* How the books stand with a payment, from its rows.
Book(p) ==
  CASE RowsOf(p, "PAYMENT") = {} /\ RowsOf(p, "REFUND") = {} -> "unposted"
    [] IsSingle(RowsOf(p, "PAYMENT")) /\ RowsOf(p, "REFUND") = {} -> "posted"
    [] IsSingle(RowsOf(p, "PAYMENT")) /\ IsSingle(RowsOf(p, "REFUND")) -> "reversed"
    [] OTHER -> "wrong"

B == INSTANCE Books WITH book <- [p \in Payments |-> Book(p)]

\* Whatever workers, listeners, retries and restarts do, each payment is posted at most
\* once and reversed at most once, after it was posted.
ImplementsBooks == B!BooksSpec

\* A reversal takes back the commission that was posted, all but the fixed fee, also
\* when the rate was changed in between.  The two are rounded apart, so what the platform
\* keeps may differ from the fee by one minor unit; without a fee it keeps nothing.
ReversalKeepsFee ==
  \A p \in Payments : \A i \in RowsOf(p, "PAYMENT"), j \in RowsOf(p, "REFUND") :
    \E r \in Rates \cup {DefaultRate} :
      LET kept == transactions[i].commission - transactions[j].commission
      IN  IF r.fee = 0 THEN kept = 0 ELSE kept \in r.fee - 1 .. r.fee + 1

\* A capture event that is PROCESSED has its payment captured, or refunded since, and
\* its booking out of PENDING: an event is not signed off before it has taken effect.
ProcessedTookEffect ==
  \A e \in Events :
    event[e] = "PROCESSED" /\ Kind(e) = "captured" =>
      payment[About(e)] \in {"CAPTURED", "REFUNDED"} /\ booking[About(e)] # "PENDING"

\* No event stays PROCESSING when its jobs are over, although two jobs of one event may
\* run at the same time and overwrite each other's status.
NothingLeftProcessing ==
  \A e \in Events : event[e] = "PROCESSING" =>
    \E j \in Jobs : j[1] = e /\ job[j].state \in {"waiting", "active", "failed"}

\* A worker gets on with what it has, and the queue hands out its jobs in turn.
Fairness ==
  /\ \A t \in Workers : WF_vars(WorkerStep(t) \/ FinanceStep(t) \/ FailEvent(t) \/ FailStart(t))
  /\ \A j \in Jobs : SF_vars(\E t \in Workers : TakeJob(t, j))

FairSpec == WebhooksSpec /\ Fairness

\* Every job that is in the queue is processed to an end, whatever fails on the way.
JobsEnd == \A j \in Jobs : job[j].state = "waiting" ~> job[j].state \in {"completed", "failed"}
=============================================================================
