--------------------------- MODULE WebhooksProofs ---------------------------
(***************************************************************************)
(* Proofs about Webhooks for every number of events, payments, workers,    *)
(* listeners, attempts, retries and restarts: the types, and that the      *)
(* ledger keeps what module Books promises.                                *)
(***************************************************************************)
EXTENDS Reconciliation, TLAPS

\* The steps of a call that has found its payment.
PaymentSteps == FinanceSteps \cup {"capture", "refund", "finish", "finishAndEmit", "emit"}

\* What a call knows: a worker has the job of a stored event, and its payment.
Knows(x, stored, said) ==
  /\ x.step \in PaymentSteps => x.payment # None
  /\ x # Idle /\ x.job = None => x.step \in FinanceSteps
  /\ x.job # None => stored[x.job[1]] # "NONE" /\ x.payment = said[x.job[1]].payment

JobsStored == \A j \in Jobs : job[j].state # "none" => event[j[1]] # "NONE"

Typed == WebhooksTypeOK /\ JobsStored /\ \A t \in Threads : Knows(thread[t], event, says)

-----------------------------------------------------------------------------
\* Arithmetic of the ledger's rows.
LEMMA ShareTyped ==
  ASSUME NEW amount \in Nat, NEW percent \in Nat, NEW fee
  PROVE  Share(amount, percent, fee) \in Nat
<1> DEFINE exact == amount * percent
<1>1. exact \in Nat
  OBVIOUS
<1>2. Share(amount, percent, fee) \in {exact \div 10000, exact \div 10000 + 1}
  BY <1>1 DEF Share
<1> HIDE DEF exact
<1>3. exact \div 10000 \in Nat
  BY <1>1
<1>4. QED
  BY <1>2, <1>3

\* Rounded with a fee or without, a share is the same but for one minor unit.
LEMMA SharesNear ==
  ASSUME NEW amount \in Nat, NEW percent \in Nat, NEW fee
  PROVE  Share(amount, percent, fee) - Share(amount, percent, 0) \in -1 .. 1
<1> DEFINE exact == amount * percent
           whole == exact \div 10000
<1>1. whole \in Nat
  <2>1. exact \in Nat
    OBVIOUS
  <2> HIDE DEF exact
  <2>2. QED
    BY <2>1
<1>2. Share(amount, percent, fee) \in {whole, whole + 1} /\ Share(amount, percent, 0) \in {whole, whole + 1}
  BY <1>1 DEF Share
<1> HIDE DEF whole
<1>3. QED
  BY <1>1, <1>2

LEMMA CommissionTyped ==
  ASSUME NEW p \in Payments, rate \in Rate
  PROVE  Gross[p] \in Nat /\ rate.percent \in Nat /\ Commission(Gross[p], rate) \in Nat
<1>1. Gross[p] \in Nat /\ rate.percent \in Nat /\ rate.fee \in Nat
  BY LedgerAssumption DEF Rate
<1>2. Share(Gross[p], rate.percent, rate.fee) \in Nat
  BY <1>1, ShareTyped
<1>3. QED
  BY <1>1, <1>2 DEF Commission

LEMMA EntriesTyped ==
  ASSUME NEW x \in Int, NEW y \in Int, NEW z \in Int, NEW a, NEW b, NEW c
  PROVE  [NoEntries EXCEPT ![a] = x, ![b] = y, ![c] = z] \in [Accounts -> Int]
<1>1. NoEntries \in [Accounts -> Int]
  BY DEF NoEntries
<1>2. QED
  BY <1>1

\* The row each insert appends.
Appended(row) == transactions' = Append(transactions, row)

LEMMA PaymentRow ==
  ASSUME NEW p \in Payments, rate \in Rate, InsertPayment(p)
  PROVE  \E row \in PostedRow :
           /\ row.type = "PAYMENT" /\ row.subject = p /\ row.key = <<"pay", p>>
           /\ KeyFree(row.key) /\ Appended(row)
<1> DEFINE commission == Commission(Gross[p], rate)
           entries == [NoEntries EXCEPT !["PAYMENT_CLEARING"] = -Gross[p],
                                        !["PARTNER_PAYABLE"] = Gross[p] - commission,
                                        !["PLATFORM_REVENUE"] = commission]
           row == Row("PAYMENT", p, <<"pay", p>>, Gross[p], rate.percent, commission, entries)
<1>1. Gross[p] \in Nat /\ rate.percent \in Nat /\ commission \in Nat
  BY CommissionTyped
<1> HIDE DEF commission
<1>2. entries \in [Accounts -> Int]
  <2>1. -Gross[p] \in Int /\ Gross[p] - commission \in Int /\ commission \in Int
    BY <1>1
  <2>2. QED
    BY <2>1, EntriesTyped, Zenon
<1>3. KeyFree(<<"pay", p>>) /\ Appended(row)
  BY DEF InsertPayment, Appended, commission
<1> HIDE DEF entries
<1>4. row \in PostedRow /\ row.type = "PAYMENT" /\ row.subject = p /\ row.key = <<"pay", p>>
  BY <1>1, <1>2 DEF Row, PostedRow
<1>5. QED
  BY <1>3, <1>4

LEMMA SnapshotTyped ==
  ASSUME NEW p \in Payments, transactions \in Seq(PostedRow)
  PROVE  Snapshot(p) \in Nat
<1>1. CASE RowsOf(p, "PAYMENT") = {}
  BY <1>1 DEF Snapshot
<1>2. CASE RowsOf(p, "PAYMENT") # {}
  <2>1. PICK i \in RowsOf(p, "PAYMENT") : Snapshot(p) = transactions[i].percent
    BY <1>2 DEF Snapshot
  <2>2. transactions[i] \in PostedRow
    BY DEF RowsOf
  <2>3. QED
    BY <2>1, <2>2 DEF PostedRow
<1>3. QED
  BY <1>1, <1>2

LEMMA RefundRow ==
  ASSUME NEW p \in Payments, transactions \in Seq(PostedRow), InsertRefund(p, 0)
  PROVE  \E row \in PostedRow :
           /\ row.type = "REFUND" /\ row.subject = p /\ row.key = <<"refund", p, Gross[p]>>
           /\ KeyFree(row.key) /\ Appended(row)
<1> DEFINE percent == Snapshot(p)
           reversed == Share(Gross[p], percent, 0)
           entries == [NoEntries EXCEPT !["PARTNER_PAYABLE"] = reversed - Gross[p],
                                        !["PLATFORM_REVENUE"] = -reversed,
                                        !["PAYMENT_CLEARING"] = Gross[p]]
           row == Row("REFUND", p, <<"refund", p, Gross[p]>>, Gross[p], percent, reversed, entries)
<1>1. Gross[p] \in Nat /\ 0 + Gross[p] = Gross[p]
  BY LedgerAssumption
<1>2. percent \in Nat
  BY SnapshotTyped
<1>3. KeyFree(<<"refund", p, Gross[p]>>) /\ Appended(row)
  BY <1>1 DEF InsertRefund, Appended
<1> HIDE DEF percent
<1>4. reversed \in Nat
  BY <1>1, <1>2, ShareTyped
<1> HIDE DEF reversed
<1>5. entries \in [Accounts -> Int]
  <2>1. reversed - Gross[p] \in Int /\ -reversed \in Int /\ Gross[p] \in Int
    BY <1>1, <1>4
  <2>2. QED
    BY <2>1, EntriesTyped, Zenon
<1> HIDE DEF entries
<1>6. row \in PostedRow /\ row.type = "REFUND" /\ row.subject = p /\ row.key = <<"refund", p, Gross[p]>>
  BY <1>1, <1>2, <1>4, <1>5 DEF Row, PostedRow
<1>7. QED
  BY <1>3, <1>6

-----------------------------------------------------------------------------
\* Types and what the calls know.

LEMMA ThreadFacts ==
  ASSUME Typed, NEW t \in Threads, thread[t].step \in Steps
  PROVE  /\ thread[t] \in Thread /\ thread[t] # Idle
         /\ thread[t].step \in PaymentSteps => thread[t].payment \in Payments
         /\ IsWorker(t) =>
              /\ thread[t].job \in Jobs /\ EventOf(t) \in Events
              /\ event[EventOf(t)] # "NONE" /\ thread[t].payment = About(EventOf(t))
         /\ ~ IsWorker(t) => thread[t].step \in FinanceSteps
<1>1. thread[t] \in Thread /\ thread[t] # Idle
  BY DEF Typed, WebhooksTypeOK, Idle, Steps
<1>2. Knows(thread[t], event, says)
  BY DEF Typed
<1>3. QED
  BY <1>1, <1>2 DEF Knows, Thread, IsWorker, Jobs, EventOf, About

\* Events that are stored stay stored, and keep what they say.
EventsKept == \A e \in Events : event[e] # "NONE" => event'[e] # "NONE" /\ says'[e] = says[e]

LEMMA KnowsKept ==
  ASSUME EventsKept, NEW x \in Thread \cup {Idle}, Knows(x, event, says)
  PROVE  Knows(x, event', says')
<1>1. x.job # None => x.job[1] \in Events
  BY DEF Thread, Idle, Jobs
<1>2. QED
  BY <1>1 DEF Knows, EventsKept

\* A call goes on.
LEMMA MoveTyped ==
  ASSUME Typed, NEW t \in Threads, NEW next \in Thread \cup {Idle},
         thread' = [thread EXCEPT ![t] = next], Knows(next, event', says'), EventsKept,
         next.step \in FinanceSteps => next.payment # None
  PROVE  /\ thread' \in [Threads -> Thread \cup {Idle}]
         /\ \A u \in Threads :
              /\ Knows(thread'[u], event', says')
              /\ thread'[u].step \in FinanceSteps => thread'[u].payment # None
              /\ thread'[u] # Idle /\ thread'[u].job = None => thread'[u].step \in FinanceSteps
<1>1. thread \in [Threads -> Thread \cup {Idle}] /\ \A u \in Threads : Knows(thread[u], event, says)
  BY DEF Typed, WebhooksTypeOK
<1>2. thread'[t] = next /\ \A u \in Threads \ {t} : thread'[u] = thread[u]
  BY <1>1
<1>3. ASSUME NEW u \in Threads
      PROVE  /\ Knows(thread'[u], event', says')
             /\ thread'[u].step \in FinanceSteps => thread'[u].payment # None
             /\ thread'[u] # Idle /\ thread'[u].job = None => thread'[u].step \in FinanceSteps
  <2>1. Knows(thread'[u], event', says')
    <3>1. CASE u = t
      BY <1>2, <3>1
    <3>2. CASE u # t
      <4>1. Knows(thread[u], event', says')
        BY <1>1, KnowsKept
      <4>2. QED
        BY <1>2, <3>2, <4>1
    <3>3. QED
      BY <3>1, <3>2
  <2>2. QED
    BY <2>1 DEF Knows, PaymentSteps
<1>4. QED
  BY <1>1, <1>3

\* The types of everything but the calls.
TablesTyped ==
  /\ transactions \in Seq(PostedRow) /\ rate \in Rate
  /\ gateway \in [Payments -> {"open", "paid", "refunded"}]
  /\ payment \in [Payments -> {"INITIATED", "CAPTURED", "REFUNDED", "CANCELLED"}]
  /\ booking \in [Payments -> {"PENDING", "CONFIRMED", "CANCELLED"}]
  /\ event \in [Events -> EventStatus]
  /\ says \in [Events -> Notices \cup {NoNotice}]
  /\ job \in [Jobs -> [state : JobState, tries : 0..Attempts, stalled : BOOLEAN]]
  /\ emitted \subseteq Emission
  /\ crashes \in 0..MaxCrashes

LEMMA TypedTables == Typed => TablesTyped
  BY DEF Typed, WebhooksTypeOK, TablesTyped

LEMMA StepTyped ==
  ASSUME Typed, NEW t \in Threads, NEW next \in Thread \cup {Idle},
         thread' = [thread EXCEPT ![t] = next], Knows(next, event', says'), EventsKept,
         TablesTyped', JobsStored'
  PROVE  Typed'
<1>1. next.step \in FinanceSteps => next.payment # None
  BY DEF Knows, PaymentSteps
<1>2. /\ thread' \in [Threads -> Thread \cup {Idle}]
      /\ \A u \in Threads :
           /\ Knows(thread'[u], event', says')
           /\ thread'[u].step \in FinanceSteps => thread'[u].payment # None
           /\ thread'[u] # Idle /\ thread'[u].job = None => thread'[u].step \in FinanceSteps
  BY <1>1, MoveTyped
<1>3. WebhooksTypeOK'
  BY <1>2 DEF TablesTyped, WebhooksTypeOK, IsWorker
<1>4. QED
  BY <1>2, <1>3 DEF Typed

\* The call has another step, and what it knew.
LEMMA ThenTyped ==
  ASSUME Typed, NEW t \in Threads, thread[t].step \in Steps, NEW step \in Steps, Then(t, step),
         step \in PaymentSteps => thread[t].payment # None,
         ~ IsWorker(t) => step \in FinanceSteps,
         EventsKept, TablesTyped', JobsStored'
  PROVE  Typed'
<1> DEFINE next == [thread[t] EXCEPT !.step = step]
<1>1. thread[t] \in Thread /\ Knows(thread[t], event', says')
  BY ThreadFacts, KnowsKept DEF Typed
<1>2. next \in Thread /\ next.step = step /\ next.job = thread[t].job /\ next.payment = thread[t].payment
  BY <1>1 DEF Thread
<1>3. thread' = [thread EXCEPT ![t] = next]
  BY DEF Then
<1> HIDE DEF next
<1>4. Knows(next, event', says')
  BY <1>1, <1>2 DEF Knows, IsWorker
<1>5. QED
  BY <1>2, <1>3, <1>4, StepTyped

\* The call is over.
LEMMA IdleTyped ==
  ASSUME Typed, NEW t \in Threads, thread' = [thread EXCEPT ![t] = Idle],
         EventsKept, TablesTyped', JobsStored'
  PROVE  Typed'
<1>1. Knows(Idle, event', says')
  BY DEF Knows, Idle, PaymentSteps, FinanceSteps
<1>2. QED
  BY <1>1, StepTyped

LEMMA PostedTyped ==
  ASSUME Typed, NEW t \in Threads, thread[t].step \in FinanceSteps, Posted(t),
         EventsKept, TablesTyped', JobsStored'
  PROVE  Typed'
<1>1. thread[t].step \in Steps /\ "finishAndEmit" \in Steps
  BY DEF FinanceSteps, Steps
<1>2. thread[t].payment # None
  BY <1>1, ThreadFacts, WebhooksAssumption DEF PaymentSteps
<1>3. CASE IsWorker(t)
  <2>1. Then(t, "finishAndEmit")
    BY <1>3 DEF Posted, Then
  <2>2. QED
    BY <1>1, <1>2, <1>3, <2>1, ThenTyped
<1>4. CASE ~ IsWorker(t)
  BY <1>4, IdleTyped DEF Posted
<1>5. QED
  BY <1>3, <1>4

\* An event gets another status than NONE.
LEMMA SetEventTyped ==
  ASSUME Typed, NEW t \in Threads, thread[t].step \in Steps, IsWorker(t),
         NEW status \in EventStatus \ {"NONE"}, SetEvent(t, status), says' = says
  PROVE  EventsKept /\ event' \in [Events -> EventStatus]
<1>1. EventOf(t) \in Events /\ event \in [Events -> EventStatus]
  BY ThreadFacts DEF Typed, WebhooksTypeOK
<1>2. QED
  BY <1>1 DEF SetEvent, EventsKept

LEMMA JobsKept ==
  ASSUME Typed, EventsKept,
         \A j \in Jobs : job'[j].state # "none" => job[j].state # "none"
  PROVE  JobsStored'
  BY DEF Typed, JobsStored, EventsKept, Jobs

-----------------------------------------------------------------------------
LEMMA FinanceTyped ==
  ASSUME Typed, NEW t \in Threads, FinanceStep(t)
  PROVE  Typed'
<1>1. thread[t].step \in FinanceSteps /\ thread[t].step \in Steps
  BY DEF FinanceStep, ReadPosted, CommitPosted, ReadReversed, CommitReversed, FinanceSteps, Steps
<1>2. thread[t].payment \in Payments /\ TablesTyped /\ thread[t].payment # None
  BY <1>1, ThreadFacts, TypedTables, WebhooksAssumption DEF PaymentSteps
<1>3. EventsKept /\ JobsStored'
  BY DEF FinanceStep, ReadPosted, CommitPosted, ReadReversed, CommitReversed,
         EventsKept, JobsStored, Typed
<1>4. CASE ReadPosted(t) \/ ReadReversed(t)
  <2>1. TablesTyped'
    BY <1>2, <1>4 DEF ReadPosted, ReadReversed, ledgerVars, tableVars, TablesTyped
  <2>2. "postInsert" \in Steps \cap FinanceSteps /\ "reverseInsert" \in Steps \cap FinanceSteps
    BY DEF Steps, FinanceSteps
  <2>3. QED
    BY <1>1, <1>2, <1>3, <1>4, <2>1, <2>2, ThenTyped, PostedTyped DEF ReadPosted, ReadReversed
<1>5. CASE CommitPosted(t) \/ CommitReversed(t)
  <2>1. PICK row \in PostedRow : Appended(row)
    BY <1>2, <1>5, PaymentRow, RefundRow DEF CommitPosted, CommitReversed, TablesTyped
  <2>2. transactions' \in Seq(PostedRow) /\ rate' = rate
    BY <1>2, <1>5, <2>1
       DEF Appended, TablesTyped, CommitPosted, CommitReversed, InsertPayment, InsertRefund
  <2>3. TablesTyped'
    BY <1>2, <1>5, <2>2 DEF CommitPosted, CommitReversed, tableVars, TablesTyped
  <2>4. QED
    BY <1>1, <1>3, <1>5, <2>3, PostedTyped DEF CommitPosted, CommitReversed
<1>6. QED
  BY <1>4, <1>5 DEF FinanceStep

LEMMA WorkerTyped ==
  ASSUME Typed, NEW t \in Workers, WorkerStep(t)
  PROVE  Typed'
<1> USE DEF tableVars, ledgerVars
<1>1. t \in Threads /\ thread[t].step \in Steps /\ thread[t].step \notin FinanceSteps
  BY DEF WorkerStep, StartProcessing, Dismiss, FindPayment, CommitCapture, UpdateRefunded,
         FinishEvent, Emit, Acknowledge, Steps, FinanceSteps, Threads
<1>2. /\ thread[t] # Idle /\ IsWorker(t) /\ TablesTyped /\ JobsStored
      /\ thread[t].job \in Jobs /\ EventOf(t) \in Events
      /\ thread[t].payment = About(EventOf(t))
      /\ thread[t].step \in PaymentSteps => thread[t].payment \in Payments
  BY <1>1, ThreadFacts, TypedTables DEF Typed
<1>3. None \notin Payments
  BY WebhooksAssumption
<1>4. ASSUME UNCHANGED <<event, says, job>> PROVE EventsKept /\ JobsStored'
  BY <1>2, <1>4 DEF EventsKept, JobsStored
<1>5. ASSUME NEW status \in EventStatus \ {"NONE"}, SetEvent(t, status), UNCHANGED <<says, job>>
      PROVE  EventsKept /\ JobsStored' /\ event' \in [Events -> EventStatus]
  BY <1>1, <1>2, <1>5, SetEventTyped, JobsKept
<1>6. CASE StartProcessing(t)
  <2>1. EventsKept /\ JobsStored' /\ event' \in [Events -> EventStatus]
    BY <1>5, <1>6 DEF StartProcessing, EventStatus
  <2>2. TablesTyped'
    BY <1>2, <1>6, <2>1 DEF StartProcessing, TablesTyped
  <2>3. "find" \in Steps \ PaymentSteps
    BY DEF Steps, PaymentSteps, FinanceSteps
  <2>4. QED
    BY <1>1, <1>2, <1>6, <2>1, <2>2, <2>3, ThenTyped DEF StartProcessing
<1>7. CASE Dismiss(t)
  <2>1. EventsKept /\ JobsStored' /\ event' \in [Events -> EventStatus]
    BY <1>5, <1>7 DEF Dismiss, EventStatus
  <2>2. TablesTyped'
    BY <1>2, <1>7, <2>1 DEF Dismiss, TablesTyped
  <2>3. "acknowledge" \in Steps \ PaymentSteps
    BY DEF Steps, PaymentSteps, FinanceSteps
  <2>4. QED
    BY <1>1, <1>2, <1>7, <2>1, <2>2, <2>3, ThenTyped DEF Dismiss
<1>8. CASE FindPayment(t)
  <2>1. EventsKept /\ JobsStored'
    BY <1>4, <1>8 DEF FindPayment
  <2>2. TablesTyped'
    BY <1>2, <1>8 DEF FindPayment, TablesTyped
  <2>3. /\ thread[t].payment # None
        /\ Kind(EventOf(t)) \in {"captured", "refunded"}
    <3>1. says[EventOf(t)] \in Notices \cup {NoNotice}
      BY <1>2 DEF TablesTyped
    <3>2. QED
      BY <1>2, <1>8, <3>1, WebhooksAssumption DEF FindPayment, Kind, NoNotice
  <2>4. PICK step \in {"finish", "capture", "refund"} : Then(t, step)
    <3>1. CASE Kind(EventOf(t)) = "captured" /\ payment[About(EventOf(t))] = "CAPTURED"
      BY <1>8, <3>1 DEF FindPayment
    <3>2. CASE Kind(EventOf(t)) = "captured" /\ payment[About(EventOf(t))] # "CAPTURED"
      BY <1>8, <3>2 DEF FindPayment
    <3>3. CASE Kind(EventOf(t)) = "refunded" /\ payment[About(EventOf(t))] = "REFUNDED"
      BY <1>8, <3>3 DEF FindPayment
    <3>4. CASE Kind(EventOf(t)) = "refunded" /\ payment[About(EventOf(t))] # "REFUNDED"
      BY <1>8, <3>4 DEF FindPayment
    <3>5. QED
      BY <2>3, <3>1, <3>2, <3>3, <3>4
  <2>5. step \in Steps
    BY DEF Steps
  <2>6. QED
    BY <1>1, <1>2, <2>1, <2>2, <2>3, <2>4, <2>5, ThenTyped
<1>9. CASE CommitCapture(t)
  <2>1. EventsKept /\ JobsStored'
    BY <1>4, <1>9 DEF CommitCapture, SetCaptured, Then
  <2>2. thread[t].payment \in Payments /\ "post" \in Steps
    BY <1>2, <1>9 DEF CommitCapture, PaymentSteps, Steps
  <2> DEFINE p == thread[t].payment
  <2> HIDE DEF p
  <2>3. TablesTyped'
    <3>1. p \in Payments /\ (UNCHANGED tableVars \/ SetCaptured(p))
      BY <1>9, <2>2 DEF CommitCapture, p
    <3>2. /\ payment' \in [Payments -> {"INITIATED", "CAPTURED", "REFUNDED", "CANCELLED"}]
          /\ booking' \in [Payments -> {"PENDING", "CONFIRMED", "CANCELLED"}]
      BY <1>2, <3>1 DEF SetCaptured, TablesTyped
    <3>3. UNCHANGED <<transactions, rate, gateway, event, says, job, emitted, crashes>>
      BY <1>9 DEF CommitCapture
    <3>4. QED
      BY <1>2, <3>2, <3>3 DEF TablesTyped
  <2>4. QED
    BY <1>1, <1>2, <1>3, <1>9, <2>1, <2>2, <2>3, ThenTyped DEF CommitCapture
<1>10. CASE UpdateRefunded(t)
  <2>1. EventsKept /\ JobsStored'
    BY <1>4, <1>10 DEF UpdateRefunded
  <2>2. thread[t].payment \in Payments /\ "reverse" \in Steps
    BY <1>2, <1>10 DEF UpdateRefunded, PaymentSteps, Steps
  <2>3. TablesTyped'
    BY <1>2, <1>10, <2>2 DEF UpdateRefunded, TablesTyped
  <2>4. QED
    BY <1>1, <1>2, <1>3, <1>10, <2>1, <2>2, <2>3, ThenTyped DEF UpdateRefunded
<1>11. CASE FinishEvent(t)
  <2>1. EventsKept /\ JobsStored' /\ event' \in [Events -> EventStatus]
    BY <1>5, <1>11 DEF FinishEvent, EventStatus
  <2>2. TablesTyped'
    BY <1>2, <1>11, <2>1 DEF FinishEvent, TablesTyped
  <2>3. PICK step \in {"acknowledge", "emit"} :
          Then(t, step) /\ (step = "emit" => thread[t].step = "finishAndEmit")
    BY <1>11 DEF FinishEvent
  <2>4. step \in Steps /\ (step \in PaymentSteps => thread[t].payment # None)
    BY <1>2, <1>3, <2>3 DEF Steps, PaymentSteps, FinanceSteps
  <2>5. QED
    BY <1>1, <1>2, <2>1, <2>2, <2>3, <2>4, ThenTyped
<1>12. CASE Emit(t)
  <2>1. EventsKept /\ JobsStored'
    BY <1>4, <1>12 DEF Emit
  <2>2. thread[t].payment \in Payments
    BY <1>2, <1>12 DEF Emit, PaymentSteps
  <2>3. emitted' \subseteq Emission
    BY <1>2, <1>12, <2>2 DEF Emit, Emission, TablesTyped
  <2>4. TablesTyped'
    BY <1>2, <1>12, <2>3 DEF Emit, TablesTyped
  <2>5. PICK step \in {"audit", "acknowledge"} : Then(t, step)
    BY <1>12 DEF Emit
  <2>6. step \in Steps \ PaymentSteps
    BY DEF Steps, PaymentSteps, FinanceSteps
  <2>7. QED
    BY <1>1, <1>2, <2>1, <2>4, <2>5, <2>6, ThenTyped
<1>13. CASE Acknowledge(t)
  <2>1. EventsKept
    BY <1>13 DEF Acknowledge, EventsKept
  <2>3. job' = [job EXCEPT ![thread[t].job].state = "completed"]
    BY <1>13 DEF Acknowledge
  <2>4. job' \in [Jobs -> [state : JobState, tries : 0..Attempts, stalled : BOOLEAN]]
    BY <1>2, <2>3 DEF TablesTyped, JobState
  <2>5. JobsStored'
    <3>1. event[EventOf(t)] # "NONE" /\ event' = event
      BY <1>1, <1>2, <1>13, ThreadFacts DEF Acknowledge
    <3>2. \A j \in Jobs \ {thread[t].job} : job'[j] = job[j]
      BY <1>2, <2>3 DEF TablesTyped
    <3>3. QED
      BY <1>2, <3>1, <3>2 DEF JobsStored, EventOf
  <2>6. TablesTyped'
    BY <1>2, <1>13, <2>4 DEF Acknowledge, TablesTyped
  <2>7. QED
    BY <1>1, <1>13, <2>1, <2>5, <2>6, IdleTyped DEF Acknowledge
<1>14. QED
  BY <1>6, <1>7, <1>8, <1>9, <1>10, <1>11, <1>12, <1>13 DEF WorkerStep

LEMMA TriedTyped ==
  ASSUME NEW j \in [state : JobState, tries : 0..Attempts, stalled : BOOLEAN]
  PROVE  Tried(j) \in [state : JobState, tries : 0..Attempts, stalled : BOOLEAN]
<1>1. Attempts \in Nat \ {0} /\ j.tries \in 0..Attempts
  BY WebhooksAssumption
<1>2. (IF j.tries < Attempts THEN j.tries + 1 ELSE j.tries) \in 0..Attempts
  BY <1>1
<1>3. QED
  BY <1>2 DEF Tried, JobState

\* A call that failed, and its job.
LEMMA FailTyped ==
  ASSUME Typed, NEW t \in Workers, FailEvent(t) \/ FailStart(t)
  PROVE  Typed'
<1> USE DEF tableVars, ledgerVars
<1>1. t \in Threads /\ thread[t].step \in Steps
  BY DEF FailEvent, FailStart, Steps, Threads
<1>2. IsWorker(t)
  <2>1. CASE FailEvent(t)
    BY <2>1 DEF FailEvent
  <2>2. CASE FailStart(t)
    <3>1. thread[t].step \notin FinanceSteps
      BY <2>2 DEF FailStart, FinanceSteps
    <3>2. QED
      BY <1>1, <3>1, ThreadFacts
  <2>3. QED
    BY <2>1, <2>2
<1>3. /\ TablesTyped /\ JobsStored /\ thread[t].job \in Jobs
      /\ EventOf(t) \in Events /\ event[EventOf(t)] # "NONE"
  BY <1>1, <1>2, ThreadFacts, TypedTables DEF Typed
<1>4. job' = [job EXCEPT ![thread[t].job] = Tried(job[thread[t].job])]
  BY <1>3 DEF FailEvent, FailStart, GiveBack, TablesTyped
<1>5. /\ job' \in [Jobs -> [state : JobState, tries : 0..Attempts, stalled : BOOLEAN]]
      /\ \A j \in Jobs \ {thread[t].job} : job'[j] = job[j]
  BY <1>3, <1>4, TriedTyped DEF TablesTyped
<1>6. EventsKept /\ event' \in [Events -> EventStatus]
  <2>1. CASE FailEvent(t)
    BY <1>1, <1>2, <2>1, SetEventTyped DEF FailEvent, EventStatus
  <2>2. CASE FailStart(t)
    BY <1>3, <2>2 DEF FailStart, EventsKept, TablesTyped
  <2>3. QED
    BY <2>1, <2>2
<1>7. JobsStored'
  <2>1. event'[EventOf(t)] # "NONE"
    BY <1>3, <1>6 DEF EventsKept
  <2>2. \A j \in Jobs : j[1] \in Events
    BY DEF Jobs
  <2>3. QED
    BY <1>3, <1>5, <1>6, <2>1, <2>2 DEF JobsStored, EventsKept, EventOf
<1>8. TablesTyped'
  BY <1>3, <1>5, <1>6 DEF FailEvent, FailStart, TablesTyped
<1>9. QED
  BY <1>1, <1>6, <1>7, <1>8, IdleTyped DEF FailEvent, FailStart, GiveBack

LEMMA TakeTyped ==
  ASSUME Typed, NEW t \in Workers, NEW j \in Jobs, TakeJob(t, j)
  PROVE  Typed'
<1> USE DEF tableVars, ledgerVars
<1> DEFINE next == [step |-> IF event[j[1]] = "PROCESSED" THEN "acknowledge" ELSE "start",
                    job |-> j, payment |-> says[j[1]].payment]
<1>1. t \in Threads /\ TablesTyped /\ JobsStored /\ j[1] \in Events /\ j # None
  BY TypedTables, WebhooksAssumption DEF Threads, Typed, Jobs
<1>2. event[j[1]] # "NONE"
  BY <1>1 DEF TakeJob, JobsStored
<1>3. says[j[1]].payment \in Payments \cup {None}
  <2>1. says[j[1]] \in Notices \cup {NoNotice}
    BY <1>1 DEF TablesTyped
  <2>2. QED
    BY <2>1, WebhooksAssumption DEF NoNotice
<1>4. next \in Thread /\ next.step \in {"acknowledge", "start"} /\ next.job = j
      /\ next.payment = says[j[1]].payment
  BY <1>3 DEF Thread, Steps
<1>5. thread' = [thread EXCEPT ![t] = next] /\ UNCHANGED <<event, says>>
  BY DEF TakeJob
<1> HIDE DEF next
<1>6. EventsKept
  BY <1>5 DEF EventsKept
<1>7. Knows(next, event', says')
  BY <1>1, <1>2, <1>4, <1>5 DEF Knows, PaymentSteps, FinanceSteps
<1>8. job' \in [Jobs -> [state : JobState, tries : 0..Attempts, stalled : BOOLEAN]]
  BY <1>1 DEF TakeJob, TablesTyped, JobState
<1>9. JobsStored'
  BY <1>1, <1>2, <1>5 DEF TakeJob, JobsStored, TablesTyped
<1>10. TablesTyped'
  BY <1>1, <1>8 DEF TakeJob, TablesTyped
<1>11. QED
  BY <1>1, <1>4, <1>5, <1>6, <1>7, <1>9, <1>10, StepTyped

LEMMA HearTyped ==
  ASSUME Typed, NEW t \in Listeners, Hear(t) \/ FailListener(t)
  PROVE  Typed'
<1> USE DEF tableVars, ledgerVars
<1>1. t \in Threads /\ TablesTyped /\ JobsStored
  BY TypedTables DEF Threads, Typed
<1>2. EventsKept /\ JobsStored'
  BY <1>1 DEF Hear, FailListener, EventsKept, JobsStored
<1>3. TablesTyped'
  BY <1>1 DEF Hear, FailListener, TablesTyped
<1>4. CASE FailListener(t)
  BY <1>1, <1>2, <1>3, <1>4, IdleTyped DEF FailListener
<1>5. CASE Hear(t)
  <2>1. PICK m \in emitted :
          thread' = [thread EXCEPT ![t] =
            [Idle EXCEPT !.step = IF m[1] = "PAYMENT_CAPTURED" THEN "post" ELSE "reverse",
                         !.payment = m[2]]]
    BY <1>5 DEF Hear
  <2> DEFINE next == [Idle EXCEPT !.step = IF m[1] = "PAYMENT_CAPTURED" THEN "post" ELSE "reverse",
                                  !.payment = m[2]]
  <2>2. m[2] \in Payments /\ m[2] # None
    BY <1>1, WebhooksAssumption DEF TablesTyped, Emission
  <2>3. next \in Thread /\ next.step \in {"post", "reverse"} /\ next.job = None /\ next.payment = m[2]
    BY <2>2 DEF Thread, Steps, Idle
  <2>4. thread' = [thread EXCEPT ![t] = next]
    BY <2>1
  <2> HIDE DEF next
  <2>5. Knows(next, event', says')
    BY <2>2, <2>3 DEF Knows, FinanceSteps
  <2>6. QED
    BY <1>1, <1>2, <1>3, <2>3, <2>4, <2>5, StepTyped
<1>6. QED
  BY <1>4, <1>5

\* Steps that no call makes.
LEMMA OthersTyped ==
  ASSUME Typed, EventsKept, TablesTyped', JobsStored', thread' = thread
  PROVE  Typed'
<1>1. \A t \in Threads : Knows(thread[t], event', says')
  BY KnowsKept DEF Typed, WebhooksTypeOK
<1>2. QED
  BY <1>1 DEF Typed, TablesTyped, WebhooksTypeOK, IsWorker

LEMMA RequestTyped ==
  ASSUME Typed, RequestStep
  PROVE  Typed'
<1> USE DEF tableVars, ledgerVars
<1>1. TablesTyped /\ JobsStored /\ \A j \in Jobs : j[1] \in Events
  BY TypedTables DEF Typed, Jobs
<1>2. ASSUME NEW j \in Jobs, Enqueue(j) \/ UNCHANGED job
      PROVE  /\ job' \in [Jobs -> [state : JobState, tries : 0..Attempts, stalled : BOOLEAN]]
             /\ \A i \in Jobs \ {j} : job'[i] = job[i]
  <2> DEFINE Job == [state : JobState, tries : 0..Attempts, stalled : BOOLEAN]
  <2>1. job \in [Jobs -> Job]
    BY <1>1 DEF TablesTyped
  <2>2. CASE UNCHANGED job
    BY <2>1, <2>2
  <2>3. CASE Enqueue(j)
    <3> DEFINE x == [job[j] EXCEPT !.state = "waiting"]
    <3>1. x \in Job
      BY <2>1 DEF JobState
    <3>2. job' = [job EXCEPT ![j] = x]
      BY <2>3 DEF Enqueue
    <3> HIDE DEF Job, x
    <3>3. job' \in [Jobs -> Job] /\ \A i \in Jobs \ {j} : job'[i] = job[i]
      BY <2>1, <3>1, <3>2
    <3>4. QED
      BY <3>3 DEF Job
  <2>4. QED
    BY <1>2, <2>2, <2>3
<1>3. ASSUME NEW e \in Events, NEW notice \in Notices, Receive(e, notice) PROVE Typed'
  <2>1. <<e, 0>> \in Jobs
    BY WebhooksAssumption DEF Jobs
  <2>2. EventsKept /\ event'[e] = "QUEUED"
    BY <1>1, <1>3 DEF Receive, EventsKept, TablesTyped
  <2>3. JobsStored'
    BY <1>1, <1>2, <1>3, <2>1, <2>2 DEF Receive, JobsStored, EventsKept
  <2>4. TablesTyped'
    BY <1>1, <1>2, <1>3, <2>1 DEF Receive, TablesTyped, EventStatus
  <2>5. QED
    BY <1>3, <2>2, <2>3, <2>4, OthersTyped DEF Receive
<1>4. ASSUME NEW e \in Events, NEW j \in Jobs, RetryEvent(e, j) PROVE Typed'
  <2>1. EventsKept /\ event'[e] = "QUEUED"
    BY <1>1, <1>4 DEF RetryEvent, EventsKept, TablesTyped
  <2>2. JobsStored'
    BY <1>1, <1>2, <1>4, <2>1 DEF RetryEvent, JobsStored, EventsKept
  <2>3. TablesTyped'
    BY <1>1, <1>2, <1>4 DEF RetryEvent, TablesTyped, EventStatus
  <2>4. QED
    BY <1>4, <2>1, <2>2, <2>3, OthersTyped DEF RetryEvent
<1>5. CASE RetryFailedJobs
  <2>1. EventsKept
    BY <1>5 DEF RetryFailedJobs, EventsKept
  <2>2. job' \in [Jobs -> [state : JobState, tries : 0..Attempts, stalled : BOOLEAN]]
        /\ \A j \in Jobs : job'[j].state # "none" => job[j].state # "none"
    <3> DEFINE Job == [state : JobState, tries : 0..Attempts, stalled : BOOLEAN]
    <3>1. job \in [Jobs -> Job]
      BY <1>1 DEF TablesTyped
    <3>2. job' = [j \in Jobs |-> IF job[j].state = "failed" THEN [job[j] EXCEPT !.state = "waiting"]
                                 ELSE job[j]]
      BY <1>5 DEF RetryFailedJobs
    <3>3. \A j \in Jobs : [job[j] EXCEPT !.state = "waiting"] \in Job
      BY <3>1 DEF JobState
    <3> HIDE DEF Job
    <3>4. job' \in [Jobs -> Job]
      BY <3>1, <3>2, <3>3
    <3>5. \A j \in Jobs : job'[j].state # "none" => job[j].state # "none"
      BY <3>2
    <3>6. QED
      BY <3>4, <3>5 DEF Job
  <2>3. TablesTyped'
    BY <1>1, <1>5, <2>2 DEF RetryFailedJobs, TablesTyped
  <2>4. QED
    BY <1>5, <2>1, <2>2, <2>3, JobsKept, OthersTyped DEF RetryFailedJobs
<1>6. QED
  BY <1>3, <1>4, <1>5 DEF RequestStep

LEMMA EnvironmentTyped ==
  ASSUME Typed,
         \/ EnvironmentStep
         \/ SetRate /\ UNCHANGED <<gateway, tableVars, event, job, thread, emitted, crashes, says>>
         \/ UNCHANGED vars
  PROVE  Typed'
<1> USE DEF tableVars, ledgerVars
<1>1. TablesTyped /\ JobsStored
  BY TypedTables DEF Typed
<1>2. UNCHANGED <<event, says, job, thread, crashes>>
  BY DEF EnvironmentStep, GatewayMoves, CapturedElsewhere, RefundedElsewhere, CancelledElsewhere,
         vars, SetCaptured
<1>3. EventsKept /\ JobsStored'
  BY <1>1, <1>2 DEF EventsKept, JobsStored
<1>4. CASE EnvironmentStep
  <2>1. PICK p \in Payments :
          GatewayMoves(p) \/ CapturedElsewhere(p) \/ RefundedElsewhere(p) \/ CancelledElsewhere(p)
    BY <1>4 DEF EnvironmentStep
  <2>2. <<"PAYMENT_CAPTURED", p>> \in Emission /\ <<"PAYMENT_REFUNDED", p>> \in Emission
    BY DEF Emission
  <2>3. ASSUME GatewayMoves(p) PROVE TablesTyped'
    BY <1>1, <1>2, <2>3 DEF GatewayMoves, TablesTyped
  <2>4. ASSUME CapturedElsewhere(p) PROVE TablesTyped'
    BY <1>1, <1>2, <2>2, <2>4 DEF CapturedElsewhere, SetCaptured, MayEmit, TablesTyped
  <2>5. ASSUME RefundedElsewhere(p) PROVE TablesTyped'
    BY <1>1, <1>2, <2>2, <2>5 DEF RefundedElsewhere, MayEmit, TablesTyped
  <2>6. ASSUME CancelledElsewhere(p) PROVE TablesTyped'
    BY <1>1, <1>2, <2>6 DEF CancelledElsewhere, TablesTyped
  <2>7. TablesTyped'
    BY <2>1, <2>3, <2>4, <2>5, <2>6
  <2>8. QED
    BY <1>2, <1>3, <2>7, OthersTyped
<1>5. CASE SetRate /\ UNCHANGED <<gateway, tableVars, event, job, thread, emitted, crashes, says>>
  BY <1>1, <1>2, <1>3, <1>5, LedgerAssumption, OthersTyped DEF SetRate, TablesTyped
<1>6. CASE UNCHANGED vars
  BY <1>1, <1>2, <1>3, <1>6, OthersTyped DEF vars, TablesTyped
<1>7. QED
  BY <1>4, <1>5, <1>6

LEMMA CrashTyped ==
  ASSUME Typed, Crash
  PROVE  Typed'
<1> USE DEF tableVars, ledgerVars
<1>1. TablesTyped /\ JobsStored
  BY TypedTables DEF Typed
<1>2. /\ job' \in [Jobs -> [state : JobState, tries : 0..Attempts, stalled : BOOLEAN]]
      /\ \A j \in Jobs : job'[j].state # "none" => job[j].state # "none"
  BY <1>1 DEF Crash, TablesTyped, JobState
<1>3. crashes' \in 0..MaxCrashes
  <2>1. crashes < MaxCrashes /\ crashes' = crashes + 1
    BY DEF Crash
  <2>2. crashes \in 0..MaxCrashes /\ MaxCrashes \in Nat
    BY <1>1, WebhooksAssumption DEF TablesTyped
  <2>3. QED
    BY <2>1, <2>2
<1>4. TablesTyped' /\ JobsStored'
  BY <1>1, <1>2, <1>3 DEF Crash, TablesTyped, JobsStored
<1>5. \A t \in Threads : thread'[t] = Idle /\ Knows(Idle, event', says')
  BY DEF Crash, Knows, Idle, PaymentSteps, FinanceSteps
<1>6. thread' \in [Threads -> Thread \cup {Idle}]
  BY DEF Crash
<1>7. QED
  BY <1>4, <1>5, <1>6 DEF Typed, TablesTyped, WebhooksTypeOK, Idle, FinanceSteps, IsWorker

LEMMA InitTyped == WebhooksInit => Typed
<1> SUFFICES ASSUME WebhooksInit PROVE Typed
  OBVIOUS
<1>1. rate \in Rate /\ transactions \in Seq(PostedRow)
  BY DEF WebhooksInit, LedgerInit, DefaultRate, Rate
<1>2. crashes \in 0..MaxCrashes /\ 0 \in 0..Attempts
  BY WebhooksAssumption DEF WebhooksInit
<1>3. TablesTyped
  BY <1>1, <1>2 DEF WebhooksInit, TablesTyped, EventStatus, JobState
<1>4. \A t \in Threads : thread[t] = Idle /\ Knows(Idle, event, says)
  BY DEF WebhooksInit, Knows, Idle, PaymentSteps, FinanceSteps
<1>5. JobsStored /\ thread \in [Threads -> Thread \cup {Idle}]
  BY DEF WebhooksInit, JobsStored
<1>6. QED
  BY <1>3, <1>4, <1>5 DEF Typed, TablesTyped, WebhooksTypeOK, Idle, FinanceSteps, IsWorker

LEMMA NextTyped == Typed /\ [WebhooksNext]_vars => Typed'
  BY WorkerTyped, FinanceTyped, FailTyped, TakeTyped, HearTyped, RequestTyped, EnvironmentTyped,
     CrashTyped
     DEF WebhooksNext

\* The tables, the queue and the calls keep their types, and a call that posts to the
\* ledger always names a payment, however many workers, listeners, retries and restarts.
THEOREM WebhooksTypeCorrect == WebhooksSpec => []WebhooksTypeOK
<1>1. Typed => WebhooksTypeOK
  BY DEF Typed
<1>2. QED
  BY <1>1, InitTyped, NextTyped, PTL DEF WebhooksSpec

-----------------------------------------------------------------------------
\* The books.

\* What the unique key and recordRefund's reads keep: keys tell rows apart, a row's key
\* is that of its type and payment, and what was reversed was posted.
RowsKept ==
  /\ \A i, j \in DOMAIN transactions : transactions[i].key = transactions[j].key => i = j
  /\ \A i \in DOMAIN transactions :
       LET row == transactions[i] IN
       row.key = IF row.type = "PAYMENT" THEN <<"pay", row.subject>>
                 ELSE <<"refund", row.subject, Gross[row.subject]>>
  /\ \A p \in Payments : RowsOf(p, "REFUND") # {} => RowsOf(p, "PAYMENT") # {}
  /\ \A t \in Threads : thread[t].step = "reverseInsert" => RowsOf(thread[t].payment, "PAYMENT") # {}

LEMMA OneRow ==
  ASSUME TablesTyped, RowsKept, NEW p \in Payments, NEW type \in {"PAYMENT", "REFUND"}
  PROVE  \A i, j \in RowsOf(p, type) : i = j
<1>1. ASSUME NEW i \in RowsOf(p, type)
      PROVE  /\ i \in DOMAIN transactions
             /\ transactions[i].key = IF type = "PAYMENT" THEN <<"pay", p>>
                                      ELSE <<"refund", p, Gross[p]>>
  <2>1. i \in DOMAIN transactions /\ transactions[i].subject = p /\ transactions[i].type = type
    BY DEF RowsOf
  <2>2. QED
    BY <2>1 DEF RowsKept
<1>2. \A i, j \in RowsOf(p, type) : transactions[i].key = transactions[j].key
  BY <1>1
<1>3. QED
  BY <1>1, <1>2 DEF RowsKept

BooksAsRows ==
  \A p \in Payments :
    Book(p) = IF RowsOf(p, "PAYMENT") = {} THEN "unposted"
              ELSE IF RowsOf(p, "REFUND") = {} THEN "posted" ELSE "reversed"

LEMMA BookOf == TablesTyped /\ RowsKept => BooksAsRows
<1> SUFFICES ASSUME TablesTyped, RowsKept, NEW p \in Payments
             PROVE  Book(p) = IF RowsOf(p, "PAYMENT") = {} THEN "unposted"
                              ELSE IF RowsOf(p, "REFUND") = {} THEN "posted" ELSE "reversed"
  BY DEF BooksAsRows
<1>1. \A type \in {"PAYMENT", "REFUND"} : RowsOf(p, type) # {} => IsSingle(RowsOf(p, type))
  <2> SUFFICES ASSUME NEW type \in {"PAYMENT", "REFUND"}, NEW i \in RowsOf(p, type)
               PROVE  IsSingle(RowsOf(p, type))
    OBVIOUS
  <2>1. RowsOf(p, type) = {i}
    BY OneRow
  <2>2. QED
    BY <2>1 DEF IsSingle
<1>2. ~ IsSingle({})
  BY DEF IsSingle
<1>3. RowsOf(p, "REFUND") # {} => RowsOf(p, "PAYMENT") # {}
  BY DEF RowsKept
<1>4. /\ IsSingle(RowsOf(p, "PAYMENT")) <=> RowsOf(p, "PAYMENT") # {}
      /\ IsSingle(RowsOf(p, "REFUND")) <=> RowsOf(p, "REFUND") # {}
  BY <1>1, <1>2
<1>5. QED
  BY <1>3, <1>4, Zenon DEF Book

LEMMA BookOfNext == TablesTyped' /\ RowsKept' => BooksAsRows'
  BY BookOf, PTL

\* The insert of a row changes the rows of its payment and type, and no others.
LEMMA RowsAfter ==
  ASSUME transactions \in Seq(PostedRow), NEW row \in PostedRow, Appended(row)
  PROVE  /\ \A p, type : row.subject = p /\ row.type = type =>
              RowsOf(p, type)' = RowsOf(p, type) \cup {Len(transactions) + 1}
         /\ \A p, type : ~ (row.subject = p /\ row.type = type) =>
              RowsOf(p, type)' = RowsOf(p, type)
<1> DEFINE n == Len(transactions) + 1
<1>1. /\ DOMAIN transactions' = DOMAIN transactions \cup {n} /\ n \notin DOMAIN transactions
      /\ transactions'[n] = row
      /\ \A i \in DOMAIN transactions : transactions'[i] = transactions[i]
  BY DEF Appended
<1> HIDE DEF n
<1>2. ASSUME NEW p, NEW type
      PROVE  RowsOf(p, type)' = {i \in DOMAIN transactions' :
                                   transactions'[i].subject = p /\ transactions'[i].type = type}
  BY DEF RowsOf
<1>3. ASSUME NEW p, NEW type, row.subject = p, row.type = type
      PROVE  RowsOf(p, type)' = RowsOf(p, type) \cup {n}
  BY <1>1, <1>2, <1>3 DEF RowsOf
<1>4. ASSUME NEW p, NEW type, ~ (row.subject = p /\ row.type = type)
      PROVE  RowsOf(p, type)' = RowsOf(p, type)
  BY <1>1, <1>2, <1>4 DEF RowsOf
<1>5. QED
  BY <1>3, <1>4 DEF n

LEMMA RowsInserted ==
  ASSUME transactions \in Seq(PostedRow), NEW row \in PostedRow, Appended(row),
         NEW p, NEW type, row.subject = p, row.type = type
  PROVE  RowsOf(p, type)' = RowsOf(p, type) \cup {Len(transactions) + 1}
  BY RowsAfter

LEMMA RowsGrow ==
  ASSUME transactions \in Seq(PostedRow), NEW row \in PostedRow, Appended(row), NEW p, NEW type
  PROVE  RowsOf(p, type) \subseteq RowsOf(p, type)'
<1>1. CASE row.subject = p /\ row.type = type
  <2>1. RowsOf(p, type)' = RowsOf(p, type) \cup {Len(transactions) + 1}
    BY <1>1, RowsAfter
  <2>2. QED
    BY <2>1
<1>2. CASE ~ (row.subject = p /\ row.type = type)
  <2>1. RowsOf(p, type)' = RowsOf(p, type)
    BY <1>2, RowsAfter
  <2>2. QED
    BY <2>1
<1>3. QED
  BY <1>1, <1>2

\* The rows, without the calls.
RowsAlone ==
  /\ \A i, j \in DOMAIN transactions : transactions[i].key = transactions[j].key => i = j
  /\ \A i \in DOMAIN transactions :
       LET row == transactions[i] IN
       row.key = IF row.type = "PAYMENT" THEN <<"pay", row.subject>>
                 ELSE <<"refund", row.subject, Gross[row.subject]>>
  /\ \A p \in Payments : RowsOf(p, "REFUND") # {} => RowsOf(p, "PAYMENT") # {}

KeyOf(row) ==
  IF row.type = "PAYMENT" THEN <<"pay", row.subject>> ELSE <<"refund", row.subject, Gross[row.subject]>>

LEMMA AppendKeeps ==
  ASSUME TablesTyped, RowsKept, NEW row \in PostedRow, Appended(row), KeyFree(row.key),
         row.key = KeyOf(row),
         row.type = "REFUND" => RowsOf(row.subject, "PAYMENT") # {}
  PROVE  RowsAlone' /\ RowsOf(row.subject, row.type) = {}
<1> DEFINE n == Len(transactions) + 1
<1>1. /\ DOMAIN transactions' = DOMAIN transactions \cup {n} /\ n \notin DOMAIN transactions
      /\ transactions'[n] = row
      /\ \A i \in DOMAIN transactions : transactions'[i] = transactions[i]
  BY DEF Appended, TablesTyped
<1> HIDE DEF n
<1>2. \A i, j \in DOMAIN transactions' : transactions'[i].key = transactions'[j].key => i = j
  BY <1>1 DEF KeyFree, RowsKept
<1>3. ASSUME NEW i \in DOMAIN transactions'
      PROVE  transactions'[i].key = KeyOf(transactions'[i])
  <2>1. CASE i = n
    BY <1>1, <2>1
  <2>2. CASE i \in DOMAIN transactions
    BY <1>1, <2>2 DEF RowsKept, KeyOf
  <2>3. QED
    BY <1>1, <2>1, <2>2
<1>4. \A p \in Payments : RowsOf(p, "REFUND")' # {} => RowsOf(p, "PAYMENT")' # {}
  <2> SUFFICES ASSUME NEW p \in Payments, RowsOf(p, "REFUND")' # {}
               PROVE  RowsOf(p, "PAYMENT")' # {}
    OBVIOUS
  <2>1. RowsOf(p, "PAYMENT") \subseteq RowsOf(p, "PAYMENT")'
    BY RowsGrow DEF TablesTyped
  <2>2. RowsOf(p, "PAYMENT") # {}
    <3>1. CASE row.subject = p /\ row.type = "REFUND"
      BY <3>1
    <3>2. CASE ~ (row.subject = p /\ row.type = "REFUND")
      <4>1. RowsOf(p, "REFUND")' = RowsOf(p, "REFUND")
        BY <3>2, RowsAfter DEF TablesTyped
      <4>2. QED
        BY <4>1 DEF RowsKept
    <3>3. QED
      BY <3>1, <3>2
  <2>3. QED
    BY <2>1, <2>2
<1>5. ASSUME NEW i \in RowsOf(row.subject, row.type) PROVE FALSE
  <2>1. i \in DOMAIN transactions /\ transactions[i].subject = row.subject /\ transactions[i].type = row.type
    BY <1>5 DEF RowsOf
  <2>2. transactions[i].key = KeyOf(row)
    BY <2>1 DEF RowsKept, KeyOf
  <2>3. QED
    BY <2>1, <2>2 DEF KeyFree
<1>6. RowsAlone'
  BY <1>2, <1>3, <1>4 DEF RowsAlone, KeyOf
<1>7. QED
  BY <1>5, <1>6

\* A call that is about to reverse found the payment posted; rows never go away.
ReversingPosted ==
  \A t \in Threads : thread[t].step = "reverseInsert" => RowsOf(thread[t].payment, "PAYMENT") # {}

LEMMA KeptInParts == RowsKept <=> RowsAlone /\ ReversingPosted
  BY DEF RowsKept, RowsAlone, ReversingPosted

LEMMA ReversingKept ==
  ASSUME Typed, ReversingPosted,
         \A u \in Threads : thread'[u].step = "reverseInsert" =>
           /\ thread'[u].payment = thread[u].payment
           /\ thread[u].step = "reverseInsert" \/ RowsOf(thread[u].payment, "PAYMENT") # {},
         \A p : RowsOf(p, "PAYMENT") \subseteq RowsOf(p, "PAYMENT")'
  PROVE  ReversingPosted'
<1> SUFFICES ASSUME NEW u \in Threads, thread'[u].step = "reverseInsert"
             PROVE  RowsOf(thread[u].payment, "PAYMENT")' # {}
  BY DEF ReversingPosted
<1>1. thread'[u].payment = thread[u].payment
  OBVIOUS
<1>2. PICK i : i \in RowsOf(thread[u].payment, "PAYMENT")
  BY DEF ReversingPosted
<1> DEFINE q == thread[u].payment
<1>3. \A p : p = q => RowsOf(p, "PAYMENT") \subseteq RowsOf(p, "PAYMENT")'
  OBVIOUS
<1>4. QED
  BY <1>1, <1>2, <1>3 DEF RowsOf

\* A step that leaves the ledger alone, and lets no call go to the insert of a refund.
LEMMA BystanderKeeps ==
  ASSUME Typed, RowsKept, UNCHANGED transactions,
         \A u \in Threads : thread'[u].step = "reverseInsert" => thread'[u] = thread[u]
  PROVE  RowsKept'
<1>1. \A p, type : RowsOf(p, type)' = RowsOf(p, type)
  BY DEF RowsOf
<1>2. ReversingPosted'
  <2>1. \A p : RowsOf(p, "PAYMENT") \subseteq RowsOf(p, "PAYMENT")'
    BY <1>1
  <2>2. ReversingPosted
    BY KeptInParts
  <2>3. QED
    BY <2>1, <2>2, ReversingKept
<1>3. RowsAlone'
  BY <1>1, KeptInParts DEF RowsAlone
<1>4. QED
  BY <1>2, <1>3 DEF RowsKept, RowsAlone, ReversingPosted

BookView ==
  \/ \A p \in Payments : Book(p)' = Book(p)
  \/ \E p \in Payments :
       /\ \/ Book(p) = "unposted" /\ Book(p)' = "posted"
          \/ Book(p) = "posted" /\ Book(p)' = "reversed"
       /\ \A q \in Payments \ {p} : Book(q)' = Book(q)

LEMMA InsertView ==
  ASSUME TablesTyped, RowsKept, TablesTyped', RowsKept', NEW row \in PostedRow, Appended(row),
         NEW p, p = row.subject, RowsOf(p, row.type) = {},
         row.type = "REFUND" => RowsOf(p, "PAYMENT") # {}
  PROVE  BookView
<1>1. p \in Payments /\ row.type \in {"PAYMENT", "REFUND"}
  BY DEF PostedRow
<1>2. transactions \in Seq(PostedRow) /\ row.subject = p
  BY DEF TablesTyped
<1>3. BooksAsRows /\ BooksAsRows'
  BY BookOf, BookOfNext
<1>4. ASSUME NEW q \in Payments, q # p PROVE Book(q)' = Book(q)
  <2>1. \A type : RowsOf(q, type)' = RowsOf(q, type)
    BY <1>4, RowsAfter DEF TablesTyped
  <2>2. QED
    BY <1>3, <2>1 DEF BooksAsRows
<1>5. CASE row.type = "PAYMENT"
  <2>1. RowsOf(p, "PAYMENT") = {} /\ RowsOf(p, "REFUND") = {}
    BY <1>1, <1>5 DEF RowsKept
  <2>2. RowsOf(p, "PAYMENT")' # {} /\ RowsOf(p, "REFUND")' = {}
    <3>1. RowsOf(p, "PAYMENT")' = RowsOf(p, "PAYMENT") \cup {Len(transactions) + 1}
      BY <1>5, <1>2, RowsInserted
    <3>2. RowsOf(p, "REFUND")' = RowsOf(p, "REFUND")
      BY <1>5, RowsAfter DEF TablesTyped
    <3>3. QED
      BY <2>1, <3>1, <3>2
  <2>3. Book(p) = "unposted" /\ Book(p)' = "posted"
    BY <1>1, <1>3, <2>1, <2>2 DEF BooksAsRows
  <2>4. QED
    BY <1>1, <1>4, <2>3 DEF BookView
<1>6. CASE row.type = "REFUND"
  <2>1. RowsOf(p, "PAYMENT") # {} /\ RowsOf(p, "REFUND") = {}
    BY <1>6
  <2>2. RowsOf(p, "PAYMENT")' # {} /\ RowsOf(p, "REFUND")' # {}
    <3>1. RowsOf(p, "REFUND")' = RowsOf(p, "REFUND") \cup {Len(transactions) + 1}
      BY <1>6, <1>2, RowsInserted
    <3>2. RowsOf(p, "PAYMENT")' = RowsOf(p, "PAYMENT")
      BY <1>6, RowsAfter DEF TablesTyped
    <3>3. QED
      BY <2>1, <3>1, <3>2
  <2>3. Book(p) = "posted" /\ Book(p)' = "reversed"
    BY <1>1, <1>3, <2>1, <2>2 DEF BooksAsRows
  <2>4. QED
    BY <1>1, <1>4, <2>3 DEF BookView
<1>7. QED
  BY <1>1, <1>5, <1>6

LEMMA StillView == UNCHANGED transactions => BookView
  BY DEF BookView, Book, RowsOf

\* The inserts of recordPayment and recordRefund.
LEMMA CommitKeeps ==
  ASSUME Typed, RowsKept, NEW t \in Threads, CommitPosted(t) \/ CommitReversed(t)
  PROVE  RowsKept' /\ \E row \in PostedRow :
           /\ Appended(row) /\ RowsOf(row.subject, row.type) = {}
           /\ row.type = "REFUND" => RowsOf(row.subject, "PAYMENT") # {}
<1> DEFINE p == thread[t].payment
<1>1. thread[t].step \in FinanceSteps /\ thread[t].step \in Steps /\ TablesTyped
  BY TypedTables DEF CommitPosted, CommitReversed, FinanceSteps, Steps
<1>2. p \in Payments
  BY <1>1, ThreadFacts DEF PaymentSteps
<1>3. PICK row \in PostedRow :
        /\ Appended(row) /\ KeyFree(row.key) /\ row.key = KeyOf(row)
        /\ row.type = "REFUND" => RowsOf(row.subject, "PAYMENT") # {}
  <2>1. CASE CommitPosted(t)
    <3>1. PICK row \in PostedRow :
            /\ row.type = "PAYMENT" /\ row.subject = p /\ row.key = <<"pay", p>>
            /\ KeyFree(row.key) /\ Appended(row)
      BY <1>1, <1>2, <2>1, PaymentRow DEF CommitPosted, TablesTyped
    <3>2. QED
      BY <3>1 DEF KeyOf
  <2>2. CASE CommitReversed(t)
    <3>1. PICK row \in PostedRow :
            /\ row.type = "REFUND" /\ row.subject = p /\ row.key = <<"refund", p, Gross[p]>>
            /\ KeyFree(row.key) /\ Appended(row)
      BY <1>1, <1>2, <2>2, RefundRow DEF CommitReversed, TablesTyped
    <3>2. RowsOf(p, "PAYMENT") # {}
      BY <2>2 DEF CommitReversed, RowsKept
    <3>3. row.type # "PAYMENT" /\ row.key = KeyOf(row)
      BY <3>1 DEF KeyOf
    <3>4. QED
      BY <3>1, <3>2, <3>3
  <2>3. QED
    BY <2>1, <2>2
<1>4. RowsAlone' /\ RowsOf(row.subject, row.type) = {}
  BY <1>1, <1>3, AppendKeeps
<1>5. \A q : RowsOf(q, "PAYMENT") \subseteq RowsOf(q, "PAYMENT")'
  BY <1>1, <1>3, RowsGrow DEF TablesTyped
<1>6. \A u \in Threads : thread'[u].step = "reverseInsert" => thread'[u] = thread[u]
  BY DEF CommitPosted, CommitReversed, Posted, Idle, Typed, WebhooksTypeOK, Thread
<1>7. ReversingPosted'
  <2>1. ReversingPosted
    BY KeptInParts
  <2>2. QED
    BY <1>5, <1>6, <2>1, ReversingKept
<1>8. RowsKept'
  BY <1>4, <1>7 DEF RowsKept, RowsAlone, ReversingPosted
<1>9. QED
  BY <1>3, <1>4, <1>8

\* The other steps: the ledger stays, and a call that is sent to the insert of a refund
\* has seen that the payment was posted.
LEMMA OtherStepsKeep ==
  ASSUME Typed, RowsKept, [WebhooksNext]_vars,
         \A t \in Threads : ~ (CommitPosted(t) \/ CommitReversed(t))
  PROVE  RowsKept' /\ UNCHANGED transactions
<1> USE DEF ledgerVars, tableVars
<1>1. ASSUME NEW t \in Threads, NEW step, Then(t, step), step # "reverseInsert"
      PROVE  \A u \in Threads : thread'[u].step = "reverseInsert" => thread'[u] = thread[u]
  <2>1. thread \in [Threads -> Thread \cup {Idle}]
    BY DEF Typed, WebhooksTypeOK
  <2>2. \A u \in Threads \ {t} : thread'[u] = thread[u]
    BY <1>1, <2>1 DEF Then
  <2>3. thread'[t].step = step
    BY <1>1, <2>1 DEF Then, Thread, Idle
  <2>4. QED
    BY <1>1, <2>2, <2>3
<1>2. ASSUME NEW t \in Threads, NEW next, thread' = [thread EXCEPT ![t] = next], next.step # "reverseInsert"
      PROVE  \A u \in Threads : thread'[u].step = "reverseInsert" => thread'[u] = thread[u]
  BY <1>2 DEF Typed, WebhooksTypeOK
<1>3. Idle.step # "reverseInsert"
  BY DEF Idle
<1>4. ASSUME NEW t \in Workers, WorkerStep(t) PROVE RowsKept' /\ UNCHANGED transactions
  <2>1. t \in Threads /\ UNCHANGED transactions
    BY <1>4 DEF Threads, WorkerStep, StartProcessing, Dismiss, FindPayment, CommitCapture,
                UpdateRefunded, FinishEvent, Emit, Acknowledge
  <2>2. \/ \E step : Then(t, step) /\ step # "reverseInsert"
        \/ thread' = [thread EXCEPT ![t] = Idle]
    <3>1. CASE FindPayment(t)
      <4>1. says[EventOf(t)] \in Notices \cup {NoNotice}
        <5>1. thread[t].step \in Steps /\ thread[t].step \notin FinanceSteps
          BY <3>1 DEF FindPayment, Steps, FinanceSteps
        <5>2. EventOf(t) \in Events
          BY <2>1, <5>1, ThreadFacts
        <5>3. QED
          BY <5>2 DEF Typed, WebhooksTypeOK
      <4>2. Kind(EventOf(t)) \in {"captured", "refunded"}
        BY <3>1, <4>1, WebhooksAssumption DEF FindPayment, Kind, NoNotice
      <4>3. CASE Kind(EventOf(t)) = "captured" /\ payment[About(EventOf(t))] = "CAPTURED"
        BY <3>1, <4>3 DEF FindPayment
      <4>4. CASE Kind(EventOf(t)) = "captured" /\ payment[About(EventOf(t))] # "CAPTURED"
        BY <3>1, <4>4 DEF FindPayment
      <4>5. CASE Kind(EventOf(t)) = "refunded" /\ payment[About(EventOf(t))] = "REFUNDED"
        BY <3>1, <4>5 DEF FindPayment
      <4>6. CASE Kind(EventOf(t)) = "refunded" /\ payment[About(EventOf(t))] # "REFUNDED"
        BY <3>1, <4>6 DEF FindPayment
      <4>7. QED
        BY <4>2, <4>3, <4>4, <4>5, <4>6
    <3>2. CASE StartProcessing(t) \/ Dismiss(t)
      BY <3>2 DEF StartProcessing, Dismiss
    <3>3. CASE CommitCapture(t) \/ UpdateRefunded(t)
      BY <3>3 DEF CommitCapture, UpdateRefunded
    <3>4. CASE FinishEvent(t) \/ Emit(t) \/ Acknowledge(t)
      BY <3>4 DEF FinishEvent, Emit, Acknowledge
    <3>5. QED
      BY <1>4, <3>1, <3>2, <3>3, <3>4 DEF WorkerStep
  <2>3. QED
    BY <1>1, <1>2, <1>3, <2>1, <2>2, BystanderKeeps
<1>5. ASSUME NEW t \in Workers, FailEvent(t) \/ FailStart(t) PROVE RowsKept' /\ UNCHANGED transactions
  <2>1. /\ t \in Threads /\ UNCHANGED transactions
        /\ thread' = [thread EXCEPT ![t] = Idle]
    BY <1>5 DEF Threads, FailEvent, FailStart, GiveBack
  <2>2. QED
    BY <1>2, <1>3, <2>1, BystanderKeeps
<1>6. ASSUME NEW t \in Workers, NEW j \in Jobs, TakeJob(t, j) PROVE RowsKept' /\ UNCHANGED transactions
  <2> DEFINE next == [step |-> IF event[j[1]] = "PROCESSED" THEN "acknowledge" ELSE "start",
                      job |-> j, payment |-> says[j[1]].payment]
  <2>1. thread' = [thread EXCEPT ![t] = next]
    BY <1>6 DEF TakeJob
  <2>2. next.step # "reverseInsert"
    OBVIOUS
  <2>3. t \in Threads /\ UNCHANGED transactions
    BY <1>6 DEF Threads, TakeJob
  <2> HIDE DEF next
  <2>4. QED
    BY <1>2, <2>1, <2>2, <2>3, BystanderKeeps
<1>7. ASSUME NEW t \in Listeners, Hear(t) \/ FailListener(t) PROVE RowsKept' /\ UNCHANGED transactions
  <2>1. PICK next : thread' = [thread EXCEPT ![t] = next] /\ next.step # "reverseInsert"
    <3>1. CASE FailListener(t)
      <4>1. Idle.step # "reverseInsert"
        BY DEF Idle
      <4>2. QED
        BY <3>1, <4>1 DEF FailListener
    <3>2. CASE Hear(t)
      <4>1. PICK m \in emitted :
              thread' = [thread EXCEPT ![t] =
                [Idle EXCEPT !.step = IF m[1] = "PAYMENT_CAPTURED" THEN "post" ELSE "reverse",
                             !.payment = m[2]]]
        BY <3>2 DEF Hear
      <4> DEFINE next == [Idle EXCEPT !.step = IF m[1] = "PAYMENT_CAPTURED" THEN "post" ELSE "reverse",
                                      !.payment = m[2]]
      <4>2. next.step # "reverseInsert"
        BY DEF Idle
      <4> HIDE DEF next
      <4>3. thread' = [thread EXCEPT ![t] = next]
        BY <4>1 DEF next
      <4>4. QED
        BY <4>2, <4>3
    <3>3. QED
      BY <1>7, <3>1, <3>2
  <2>2. t \in Threads /\ UNCHANGED transactions
    BY <1>7 DEF Threads, Hear, FailListener
  <2>3. QED
    BY <1>2, <2>1, <2>2, BystanderKeeps
<1>8. ASSUME NEW t \in Threads, ReadPosted(t) PROVE RowsKept' /\ UNCHANGED transactions
  <2>1. UNCHANGED transactions
    BY <1>8 DEF ReadPosted
  <2>2. CASE Then(t, "postInsert")
    BY <1>1, <2>1, <2>2, BystanderKeeps
  <2>3. CASE Posted(t)
    <3>1. PICK next : thread' = [thread EXCEPT ![t] = next] /\ next.step # "reverseInsert"
      <4>1. thread[t] \in Thread
        BY <1>8, ThreadFacts DEF ReadPosted, Steps
      <4>2. CASE IsWorker(t)
        <5>1. Then(t, "finishAndEmit")
          BY <2>3, <4>2 DEF Posted, Then
        <5>2. [thread[t] EXCEPT !.step = "finishAndEmit"].step = "finishAndEmit"
          BY <4>1 DEF Thread
        <5>3. QED
          BY <5>1, <5>2 DEF Then
      <4>3. CASE ~ IsWorker(t)
        BY <1>3, <2>3, <4>3 DEF Posted
      <4>4. QED
        BY <4>2, <4>3
    <3>2. QED
      BY <1>2, <2>1, <3>1, BystanderKeeps
  <2>4. QED
    BY <1>8, <2>2, <2>3 DEF ReadPosted
<1>9. ASSUME NEW t \in Threads, ReadReversed(t) PROVE RowsKept' /\ UNCHANGED transactions
  <2>1. UNCHANGED transactions /\ Then(t, "reverseInsert") /\ RowsOf(thread[t].payment, "PAYMENT") # {}
    BY <1>9 DEF ReadReversed, MayRefund
  <2>2. thread'[t].payment = thread[t].payment /\ \A u \in Threads \ {t} : thread'[u] = thread[u]
    BY <2>1 DEF Then, Typed, WebhooksTypeOK, Thread, Idle
  <2>3. \A p, type : RowsOf(p, type)' = RowsOf(p, type)
    BY <2>1 DEF RowsOf
  <2>4. ReversingPosted'
    <3>1. ReversingPosted /\ \A p : RowsOf(p, "PAYMENT") \subseteq RowsOf(p, "PAYMENT")'
      BY <2>3, KeptInParts
    <3>2. \A u \in Threads : thread'[u].step = "reverseInsert" =>
            /\ thread'[u].payment = thread[u].payment
            /\ thread[u].step = "reverseInsert" \/ RowsOf(thread[u].payment, "PAYMENT") # {}
      BY <2>1, <2>2
    <3>3. QED
      BY <3>1, <3>2, ReversingKept
  <2>5. RowsAlone'
    BY <2>1, <2>3, KeptInParts DEF RowsAlone
  <2>6. QED
    BY <2>1, <2>4, <2>5 DEF RowsKept, RowsAlone, ReversingPosted
<1>10. CASE Crash
  <2>1. UNCHANGED transactions /\ \A u \in Threads : thread'[u] = Idle
    BY <1>10 DEF Crash
  <2>2. QED
    BY <1>3, <2>1, BystanderKeeps
<1>11. CASE \/ RequestStep \/ EnvironmentStep \/ UNCHANGED vars
            \/ SetRate /\ UNCHANGED <<gateway, tableVars, event, job, thread, emitted, crashes, says>>
  <2>1. UNCHANGED <<transactions, thread>>
    BY <1>11 DEF RequestStep, Receive, RetryEvent, RetryFailedJobs, EnvironmentStep, GatewayMoves,
                 CapturedElsewhere, RefundedElsewhere, CancelledElsewhere, SetRate, vars
  <2>2. QED
    BY <2>1, BystanderKeeps
<1>12. QED
  BY <1>4, <1>5, <1>6, <1>7, <1>8, <1>9, <1>10, <1>11 DEF WebhooksNext, FinanceStep

LEMMA BooksStep ==
  ASSUME Typed, RowsKept, [WebhooksNext]_vars
  PROVE  RowsKept' /\ BookView
<1>1. Typed' /\ TablesTyped
  BY NextTyped, TypedTables
<1>2. TablesTyped'
  BY <1>1 DEF Typed, WebhooksTypeOK, TablesTyped
<1>3. CASE \E t \in Threads : CommitPosted(t) \/ CommitReversed(t)
  BY <1>1, <1>2, <1>3, CommitKeeps, InsertView
<1>4. CASE ~ \E t \in Threads : CommitPosted(t) \/ CommitReversed(t)
  BY <1>4, OtherStepsKeep, StillView
<1>5. QED
  BY <1>3, <1>4

\* Whatever workers, listeners, retries and restarts do, each payment is posted at most
\* once and reversed at most once, after it was posted (FinanceService).
THEOREM BooksImplemented == WebhooksSpec => ImplementsBooks
<1>1. WebhooksInit => RowsKept /\ B!BooksInit
  <2> SUFFICES ASSUME WebhooksInit PROVE RowsKept /\ B!BooksInit
    OBVIOUS
  <2>1. transactions = <<>> /\ \A t \in Threads : thread[t].step = "idle"
    BY DEF WebhooksInit, LedgerInit, Idle
  <2>2. \A p, type : RowsOf(p, type) = {}
    BY <2>1 DEF RowsOf
  <2>3. RowsKept
    BY <2>1, <2>2 DEF RowsKept
  <2>4. TablesTyped
    BY InitTyped, TypedTables
  <2>5. \A p \in Payments : Book(p) = "unposted"
    BY <2>2, <2>3, <2>4, BookOf DEF BooksAsRows
  <2>6. QED
    BY <2>3, <2>5 DEF B!BooksInit
<1>2. Typed /\ RowsKept /\ [WebhooksNext]_vars => RowsKept' /\ BookView
  BY BooksStep
<1>3. BookView => [B!BooksNext]_([p \in Payments |-> Book(p)])
  <2> SUFFICES ASSUME BookView PROVE [B!BooksNext]_([p \in Payments |-> Book(p)])
    OBVIOUS
  <2>1. CASE \A p \in Payments : Book(p)' = Book(p)
    BY <2>1
  <2>2. ASSUME NEW p \in Payments, Book(p) = "unposted" \/ Book(p) = "posted",
               Book(p) = "unposted" => Book(p)' = "posted",
               Book(p) = "posted" => Book(p)' = "reversed",
               \A q \in Payments \ {p} : Book(q)' = Book(q)
        PROVE  B!BooksNext
    BY <2>2 DEF B!BooksNext, B!Post, B!Reverse
  <2>3. QED
    BY <2>1, <2>2 DEF BookView
<1>4. QED
  BY <1>1, <1>2, <1>3, InitTyped, NextTyped, PTL DEF WebhooksSpec, ImplementsBooks, B!BooksSpec

-----------------------------------------------------------------------------
\* What a processed capture has done.

TookEffect(p) == payment[p] \in {"CAPTURED", "REFUNDED"} /\ booking[p] # "PENDING"

CapturedIsConfirmed == \A p \in Payments : payment[p] = "CAPTURED" => booking[p] # "PENDING"

\* A worker on its way from a capture to PROCESSED.
OnCapture(x, said) == x.job # None /\ said[x.job[1]].kind = "captured"

CaptureSeen ==
  \A t \in Threads : OnCapture(thread[t], says) =>
    /\ thread[t].step \notin {"refund", "reverse", "reverseInsert"}
    /\ thread[t].step \in {"post", "postInsert", "finish", "finishAndEmit"} =>
         TookEffect(thread[t].payment)

\* A processed capture is about one of our payments.
ProcessedKnown ==
  \A e \in Events : event[e] = "PROCESSED" /\ Kind(e) = "captured" => About(e) \in Payments

EffectInv == CapturedIsConfirmed /\ CaptureSeen /\ ProcessedKnown /\ ProcessedTookEffect

\* What has taken effect stays so: no route moves a captured or refunded payment to
\* another status, or a booking back to PENDING.
LEMMA EffectStays ==
  ASSUME Typed, CapturedIsConfirmed, [WebhooksNext]_vars
  PROVE  /\ CapturedIsConfirmed'
         /\ \A p \in Payments : TookEffect(p) => TookEffect(p)'
<1> USE DEF tableVars, ledgerVars, TookEffect, CapturedIsConfirmed
<1> DEFINE Stays == CapturedIsConfirmed' /\ \A p \in Payments : TookEffect(p) => TookEffect(p)'
<1>1. TablesTyped
  BY TypedTables
<1>2. CASE UNCHANGED tableVars
  BY <1>2
<1>3. ASSUME NEW p \in Payments, SetCaptured(p) PROVE Stays
  BY <1>1, <1>3 DEF SetCaptured, TablesTyped
<1>4. ASSUME NEW p \in Payments, payment' = [payment EXCEPT ![p] = "REFUNDED"], booking' = booking
      PROVE  Stays
  BY <1>1, <1>4 DEF TablesTyped
<1>5. ASSUME NEW p \in Payments, CancelledElsewhere(p) PROVE Stays
  BY <1>1, <1>5 DEF CancelledElsewhere, TablesTyped
<1>6. ASSUME NEW t \in Workers, CommitCapture(t) \/ UpdateRefunded(t) PROVE Stays
  <2>1. thread[t].payment \in Payments
    BY <1>6, ThreadFacts DEF CommitCapture, UpdateRefunded, Steps, PaymentSteps, Threads
  <2>2. CASE CommitCapture(t)
    BY <1>2, <1>3, <2>1, <2>2 DEF CommitCapture
  <2>3. CASE UpdateRefunded(t)
    BY <1>4, <2>1, <2>3 DEF UpdateRefunded
  <2>4. QED
    BY <1>6, <2>2, <2>3
<1>7. CASE EnvironmentStep
  BY <1>2, <1>3, <1>4, <1>5, <1>7
     DEF EnvironmentStep, GatewayMoves, CapturedElsewhere, RefundedElsewhere
<1>8. ASSUME NEW t \in Workers, WorkerStep(t) PROVE Stays
  BY <1>2, <1>6, <1>8
     DEF WorkerStep, StartProcessing, Dismiss, FindPayment, FinishEvent, Emit, Acknowledge
<1>9. ASSUME NEW t \in Threads, FinanceStep(t) PROVE Stays
  BY <1>2, <1>9 DEF FinanceStep, ReadPosted, CommitPosted, ReadReversed, CommitReversed
<1>10. ASSUME NEW t \in Threads, NEW j \in Jobs,
              FailEvent(t) \/ FailStart(t) \/ TakeJob(t, j) \/ Hear(t) \/ FailListener(t)
       PROVE  Stays
  BY <1>2, <1>10 DEF FailEvent, FailStart, TakeJob, Hear, FailListener
<1>11. ASSUME NEW t \in Threads, FailEvent(t) \/ FailStart(t) \/ Hear(t) \/ FailListener(t)
       PROVE  Stays
  BY <1>2, <1>11 DEF FailEvent, FailStart, Hear, FailListener
<1>12. CASE \/ RequestStep \/ Crash \/ UNCHANGED vars
            \/ SetRate /\ UNCHANGED <<gateway, tableVars, event, job, thread, emitted, crashes, says>>
  BY <1>2, <1>12 DEF RequestStep, Receive, RetryEvent, RetryFailedJobs, Crash, vars
<1>13. QED
  BY <1>7, <1>8, <1>9, <1>10, <1>11, <1>12 DEF WebhooksNext, Threads

LEMMA EventsStay ==
  ASSUME Typed, [WebhooksNext]_vars
  PROVE  EventsKept
<1>1. TablesTyped
  BY TypedTables
<1>2. CASE UNCHANGED <<event, says>>
  BY <1>2 DEF EventsKept
<1>3. ASSUME NEW e \in Events, NEW j \in Jobs, RetryEvent(e, j) PROVE EventsKept
  BY <1>1, <1>3 DEF RetryEvent, EventsKept, TablesTyped
<1>4. ASSUME NEW e \in Events, NEW notice \in Notices, Receive(e, notice)
      PROVE  EventsKept
  BY <1>1, <1>4 DEF Receive, EventsKept, TablesTyped
<1>5. ASSUME NEW t \in Workers, StartProcessing(t) \/ Dismiss(t) \/ FinishEvent(t) \/ FailEvent(t)
      PROVE  EventsKept
  <2>1. PICK status \in EventStatus \ {"NONE"} : SetEvent(t, status) /\ says' = says
    BY <1>5 DEF StartProcessing, Dismiss, FinishEvent, FailEvent, EventStatus
  <2>2. (t \in Threads /\ thread[t].step \in Steps /\ thread[t].step \notin FinanceSteps) \/ FailEvent(t)
    BY <1>5 DEF StartProcessing, Dismiss, FinishEvent, Steps, FinanceSteps, Threads
  <2>3. t \in Threads /\ thread[t].step \in Steps /\ IsWorker(t)
    BY <2>2, ThreadFacts DEF FailEvent, Threads
  <2>4. QED
    BY <2>1, <2>3, SetEventTyped
<1>6. ASSUME NEW t \in Workers, WorkerStep(t) PROVE EventsKept
  BY <1>2, <1>5, <1>6
     DEF WorkerStep, FindPayment, CommitCapture, UpdateRefunded, Emit, Acknowledge
<1>7. ASSUME NEW t \in Threads, FinanceStep(t) \/ FailStart(t) \/ Hear(t) \/ FailListener(t)
      PROVE  EventsKept
  BY <1>2, <1>7
     DEF FinanceStep, ReadPosted, CommitPosted, ReadReversed, CommitReversed, FailStart, Hear, FailListener
<1>8. ASSUME NEW t \in Workers, NEW j \in Jobs, TakeJob(t, j) PROVE EventsKept
  BY <1>2, <1>8 DEF TakeJob
<1>9. CASE \/ RetryFailedJobs \/ Crash \/ UNCHANGED vars \/ EnvironmentStep
           \/ SetRate /\ UNCHANGED <<gateway, tableVars, event, job, thread, emitted, crashes, says>>
  BY <1>2, <1>9
     DEF RetryFailedJobs, Crash, vars, EnvironmentStep, GatewayMoves, CapturedElsewhere,
         RefundedElsewhere, CancelledElsewhere
<1>10. QED
  BY <1>3, <1>4, <1>5, <1>6, <1>7, <1>8, <1>9 DEF WebhooksNext, RequestStep, Threads

\* A call is still on a capture if it was: its event says what it said.
LEMMA OnCaptureKept ==
  ASSUME Typed, EventsKept, NEW u \in Threads, OnCapture(thread[u], says')
  PROVE  OnCapture(thread[u], says)
<1>1. Knows(thread[u], event, says) /\ thread[u].job \in Jobs
  BY DEF Typed, WebhooksTypeOK, OnCapture, Thread, Idle
<1>2. thread[u].job[1] \in Events /\ event[thread[u].job[1]] # "NONE"
  BY <1>1 DEF Knows, OnCapture, Jobs
<1>3. QED
  BY <1>2 DEF OnCapture, EventsKept

\* A worker's own steps from the start of the event to PROCESSED.
LEMMA CaptureMoves ==
  ASSUME Typed, EffectInv, NEW t \in Workers, WorkerStep(t), OnCapture(thread[t], says)
  PROVE  \/ thread'[t] = Idle
         \/ /\ thread'[t].payment = thread[t].payment /\ thread[t].payment \in Payments \cup {None}
            /\ \/ thread'[t].step \notin {"refund", "reverse", "reverseInsert",
                                          "post", "postInsert", "finish", "finishAndEmit"}
               \/ /\ thread'[t].step \in {"post", "finish"} /\ thread[t].payment \in Payments
                  /\ TookEffect(thread[t].payment) \/ CommitCapture(t)
<1>1. /\ t \in Threads /\ thread[t] \in Thread /\ IsWorker(t) /\ EventOf(t) \in Events
      /\ thread[t].payment = About(EventOf(t)) /\ Kind(EventOf(t)) = "captured"
      /\ thread[t].step \in PaymentSteps => thread[t].payment \in Payments
  <2>1. t \in Threads /\ thread[t].step \in Steps
    BY DEF WorkerStep, StartProcessing, Dismiss, FindPayment, CommitCapture, UpdateRefunded,
           FinishEvent, Emit, Acknowledge, Steps, Threads
  <2>2. IsWorker(t) /\ Kind(EventOf(t)) = "captured"
    BY DEF OnCapture, IsWorker, EventOf, Kind
  <2>3. QED
    BY <2>1, <2>2, ThreadFacts
<1>2. ASSUME NEW step, Then(t, step)
      PROVE  thread'[t].step = step /\ thread'[t].payment = thread[t].payment
  BY <1>1, <1>2 DEF Then, Typed, WebhooksTypeOK, Thread
<1>3. thread[t].payment \in Payments \cup {None}
  BY <1>1 DEF Thread
<1>4. thread[t].step \notin {"refund", "reverse", "reverseInsert"}
  BY <1>1 DEF EffectInv, CaptureSeen
<1>5. CASE StartProcessing(t) \/ Dismiss(t)
  BY <1>2, <1>3, <1>5 DEF StartProcessing, Dismiss
<1>6. CASE FindPayment(t)
  <2>1. thread[t].payment \in Payments
    BY <1>1, <1>3, <1>6 DEF FindPayment
  <2>2. CASE payment[About(EventOf(t))] = "CAPTURED"
    <3>1. Then(t, "finish")
      BY <1>1, <1>6, <2>2 DEF FindPayment
    <3>2. TookEffect(thread[t].payment)
      BY <1>1, <2>1, <2>2 DEF EffectInv, CapturedIsConfirmed, TookEffect
    <3>3. QED
      BY <1>2, <2>1, <3>1, <3>2
  <2>3. CASE payment[About(EventOf(t))] # "CAPTURED"
    <3>1. Then(t, "capture")
      BY <1>1, <1>6, <2>3 DEF FindPayment
    <3>2. QED
      BY <1>2, <1>3, <3>1
  <2>4. QED
    BY <2>2, <2>3
<1>7. CASE CommitCapture(t)
  BY <1>1, <1>2, <1>3, <1>7 DEF CommitCapture, PaymentSteps
<1>8. CASE FinishEvent(t) \/ Emit(t)
  <2>1. PICK step \in {"acknowledge", "emit", "audit"} : Then(t, step)
    BY <1>8 DEF FinishEvent, Emit
  <2>2. QED
    BY <1>2, <1>3, <2>1
<1>9. CASE Acknowledge(t)
  BY <1>1, <1>9 DEF Acknowledge, Typed, WebhooksTypeOK
<1>10. QED
  BY <1>4, <1>5, <1>6, <1>7, <1>8, <1>9 DEF WorkerStep, UpdateRefunded

LEMMA EffectStep ==
  ASSUME Typed, EffectInv, [WebhooksNext]_vars
  PROVE  EffectInv'
<1> DEFINE After == {"post", "postInsert", "finish", "finishAndEmit"}
           Sound(u) == OnCapture(thread'[u], says') =>
             /\ thread'[u].step \notin {"refund", "reverse", "reverseInsert"}
             /\ thread'[u].step \in After => \E p \in Payments :
                  /\ thread'[u].payment = p
                  /\ payment'[p] \in {"CAPTURED", "REFUNDED"} /\ booking'[p] # "PENDING"
<1>1. EventsKept /\ CapturedIsConfirmed' /\ TablesTyped
      /\ \A p \in Payments : TookEffect(p) => TookEffect(p)'
  BY EventsStay, EffectStays, TypedTables DEF EffectInv
<1>2. ASSUME NEW u \in Threads, OnCapture(thread[u], says), thread[u].step \in After
      PROVE  thread[u].payment \in Payments /\ TookEffect(thread[u].payment)
  <2>1. thread[u].job # None /\ thread[u].step \in Steps
    BY <1>2 DEF OnCapture, Steps
  <2>2. thread[u].payment \in Payments
    BY <1>2, <2>1, ThreadFacts DEF PaymentSteps, FinanceSteps
  <2>3. QED
    BY <1>2, <2>2 DEF EffectInv, CaptureSeen
<1>3. ASSUME NEW u \in Threads, thread'[u] = thread[u] PROVE Sound(u)
  <2> SUFFICES ASSUME OnCapture(thread[u], says') PROVE Sound(u)
    BY <1>3
  <2>1. OnCapture(thread[u], says)
    BY <1>1, OnCaptureKept
  <2>2. thread[u].step \notin {"refund", "reverse", "reverseInsert"}
    BY <2>1 DEF EffectInv, CaptureSeen
  <2>3. thread[u].step \in After =>
          thread[u].payment \in Payments /\ TookEffect(thread[u].payment)
    BY <1>2, <2>1
  <2>4. \A p \in Payments : TookEffect(p) =>
          payment'[p] \in {"CAPTURED", "REFUNDED"} /\ booking'[p] # "PENDING"
    BY <1>1 DEF TookEffect
  <2>5. QED
    BY <1>3, <2>2, <2>3, <2>4
<1>4. ASSUME NEW u \in Threads, thread'[u] = Idle \/ thread'[u].job = None PROVE Sound(u)
  BY <1>4 DEF OnCapture, Idle
<1>5. ASSUME NEW t \in Workers, WorkerStep(t), OnCapture(thread[t], says) PROVE Sound(t)
  <2>1. CASE thread'[t] = Idle
    BY <1>4, <2>1 DEF Threads
  <2>2. CASE /\ thread'[t].payment = thread[t].payment
             /\ thread'[t].step \notin {"refund", "reverse", "reverseInsert",
                                        "post", "postInsert", "finish", "finishAndEmit"}
    BY <2>2
  <2>3. CASE /\ thread'[t].payment = thread[t].payment
             /\ thread'[t].step \in {"post", "finish"} /\ thread[t].payment \in Payments
             /\ TookEffect(thread[t].payment) \/ CommitCapture(t)
    <3>1. payment'[thread[t].payment] \in {"CAPTURED", "REFUNDED"} /\ booking'[thread[t].payment] # "PENDING"
      <4>1. CASE TookEffect(thread[t].payment)
        <5>1. \A p \in Payments : TookEffect(p) =>
                payment'[p] \in {"CAPTURED", "REFUNDED"} /\ booking'[p] # "PENDING"
          BY <1>1 DEF TookEffect
        <5>2. QED
          BY <2>3, <4>1, <5>1
      <4>2. CASE CommitCapture(t)
        BY <1>1, <2>3, <4>2
           DEF CommitCapture, SetCaptured, EffectInv, CapturedIsConfirmed, TablesTyped, tableVars
      <4>3. QED
        BY <2>3, <4>1, <4>2
    <3>2. QED
      BY <2>3, <3>1
  <2>4. QED
    BY <1>5, <2>1, <2>2, <2>3, CaptureMoves
\* A worker on another event than a capture stays on it.
<1>6. ASSUME NEW t \in Workers, WorkerStep(t), ~ OnCapture(thread[t], says) PROVE Sound(t)
  <2>1. t \in Threads /\ thread[t] \in Thread /\ says' = says
    <3>1. t \in Threads /\ thread[t].step \in Steps
      BY <1>6 DEF WorkerStep, StartProcessing, Dismiss, FindPayment, CommitCapture, UpdateRefunded,
                  FinishEvent, Emit, Acknowledge, Steps, Threads
    <3>2. QED
      BY <1>6, <3>1, ThreadFacts
         DEF WorkerStep, StartProcessing, Dismiss, FindPayment, CommitCapture, UpdateRefunded,
             FinishEvent, Emit, Acknowledge
  <2>2. thread'[t] = Idle \/ thread'[t].job = thread[t].job
    BY <1>6, <2>1
       DEF WorkerStep, StartProcessing, Dismiss, FindPayment, CommitCapture, UpdateRefunded,
           FinishEvent, Emit, Acknowledge, Then, Thread, Typed, WebhooksTypeOK
  <2>3. QED
    BY <1>4, <1>6, <2>1, <2>2 DEF OnCapture
<1>7. ASSUME NEW t \in Threads, FinanceStep(t) PROVE Sound(t)
  <2>1. thread[t].step \in Steps /\ thread[t] \in Thread /\ says' = says
    BY <1>7, ThreadFacts
       DEF FinanceStep, ReadPosted, CommitPosted, ReadReversed, CommitReversed, Steps
  <2>2. /\ thread'[t] = Idle \/ thread'[t].job = thread[t].job
        /\ thread'[t] # Idle => thread'[t].payment = thread[t].payment
    BY <1>7, <2>1
       DEF FinanceStep, ReadPosted, CommitPosted, ReadReversed, CommitReversed, Posted, Then, Thread,
           Typed, WebhooksTypeOK
  <2>3. CASE ~ OnCapture(thread[t], says)
    BY <1>4, <2>1, <2>2, <2>3 DEF OnCapture
  <2>4. CASE OnCapture(thread[t], says)
    <3>1. ReadPosted(t) \/ CommitPosted(t)
      BY <1>7, <2>4 DEF FinanceStep, EffectInv, CaptureSeen, ReadReversed, CommitReversed
    <3>2. /\ thread[t].step \in After
          /\ thread'[t] = Idle \/ thread'[t].step \in {"postInsert", "finishAndEmit"}
      BY <2>1, <3>1 DEF ReadPosted, CommitPosted, Posted, Then, Thread, Typed, WebhooksTypeOK
    <3>3. thread[t].payment \in Payments /\ TookEffect(thread[t].payment)
      BY <1>2, <2>4, <3>2
    <3>4. \A p \in Payments : TookEffect(p) =>
            payment'[p] \in {"CAPTURED", "REFUNDED"} /\ booking'[p] # "PENDING"
      BY <1>1 DEF TookEffect
    <3>5. QED
      BY <1>4, <2>2, <3>2, <3>3, <3>4
  <2>5. QED
    BY <2>3, <2>4
<1>8. ASSUME NEW t \in Workers, NEW j \in Jobs, TakeJob(t, j) PROVE Sound(t)
  <2>1. thread'[t].step \in {"acknowledge", "start"}
    BY <1>8 DEF TakeJob, Typed, WebhooksTypeOK, Threads
  <2>2. QED
    BY <2>1
<1>9. ASSUME NEW t \in Threads, FailEvent(t) \/ FailStart(t) \/ Hear(t) \/ FailListener(t)
      PROVE  Sound(t)
  <2>1. CASE FailEvent(t) \/ FailStart(t) \/ FailListener(t)
    <3>1. thread'[t] = Idle
      BY <2>1 DEF FailEvent, FailStart, GiveBack, FailListener, Typed, WebhooksTypeOK
    <3>2. QED
      BY <1>4, <3>1
  <2>2. CASE Hear(t)
    <3>1. PICK m \in emitted :
            thread' = [thread EXCEPT ![t] =
              [Idle EXCEPT !.step = IF m[1] = "PAYMENT_CAPTURED" THEN "post" ELSE "reverse",
                           !.payment = m[2]]]
      BY <2>2 DEF Hear
    <3>2. thread'[t].job = None
      BY <3>1 DEF Idle, Typed, WebhooksTypeOK
    <3>3. QED
      BY <1>4, <3>2
  <2>3. QED
    BY <1>9, <2>1, <2>2
<1>10. \A u \in Threads : Sound(u)
  <2> SUFFICES ASSUME NEW u \in Threads PROVE Sound(u)
    OBVIOUS
  <2>1. ASSUME NEW t \in Threads, \E next : thread' = [thread EXCEPT ![t] = next] PROVE u # t => Sound(u)
    <3>1. u # t => thread'[u] = thread[u]
      BY <2>1 DEF Typed, WebhooksTypeOK
    <3>2. QED
      BY <1>3, <3>1
  <2>2. ASSUME UNCHANGED thread PROVE Sound(u)
    BY <1>3, <2>2
  <2>3. ASSUME NEW t \in Workers, WorkerStep(t) PROVE Sound(u)
    <3>1. t \in Threads /\ \E next : thread' = [thread EXCEPT ![t] = next]
      BY <2>3 DEF WorkerStep, StartProcessing, Dismiss, FindPayment, CommitCapture, UpdateRefunded,
                  FinishEvent, Emit, Acknowledge, Then, Threads
    <3>2. QED
      BY <1>5, <1>6, <2>1, <2>3, <3>1
  <2>4. ASSUME NEW t \in Threads, FinanceStep(t) PROVE Sound(u)
    <3>1. \E next : thread' = [thread EXCEPT ![t] = next]
      BY <2>4 DEF FinanceStep, ReadPosted, CommitPosted, ReadReversed, CommitReversed, Posted, Then
    <3>2. QED
      BY <1>7, <2>1, <2>4, <3>1
  <2>5. ASSUME NEW t \in Workers, NEW j \in Jobs, TakeJob(t, j) PROVE Sound(u)
    <3>1. t \in Threads /\ \E next : thread' = [thread EXCEPT ![t] = next]
      BY <2>5 DEF TakeJob, Threads
    <3>2. QED
      BY <1>8, <2>1, <2>5, <3>1
  <2>6. ASSUME NEW t \in Threads, FailEvent(t) \/ FailStart(t) \/ Hear(t) \/ FailListener(t) PROVE Sound(u)
    <3>1. \E next : thread' = [thread EXCEPT ![t] = next]
      BY <2>6 DEF FailEvent, FailStart, GiveBack, Hear, FailListener
    <3>2. QED
      BY <1>9, <2>1, <2>6, <3>1
  <2>7. CASE Crash
    BY <1>4, <2>7 DEF Crash
  <2>8. CASE \/ RequestStep \/ EnvironmentStep \/ UNCHANGED vars
             \/ SetRate /\ UNCHANGED <<gateway, tableVars, event, job, thread, emitted, crashes, says>>
    BY <2>2, <2>8
       DEF RequestStep, Receive, RetryEvent, RetryFailedJobs, EnvironmentStep, GatewayMoves,
           CapturedElsewhere, RefundedElsewhere, CancelledElsewhere, vars
  <2>9. QED
    BY <2>3, <2>4, <2>5, <2>6, <2>7, <2>8 DEF WebhooksNext, Threads
<1>11. CaptureSeen'
  BY <1>10 DEF CaptureSeen, TookEffect
<1>12. ASSUME NEW e \in Events, event'[e] = "PROCESSED"
       PROVE  event[e] = "PROCESSED" \/ \E t \in Workers : FinishEvent(t) /\ e = EventOf(t)
  <2> DEFINE Known == event[e] = "PROCESSED" \/ \E t \in Workers : FinishEvent(t) /\ e = EventOf(t)
  <2>1. ASSUME NEW f, NEW status \in EventStatus \ {"PROCESSED"}, event' = [event EXCEPT ![f] = status]
        PROVE  Known
    BY <1>1, <1>12, <2>1 DEF TablesTyped
  <2>2. CASE UNCHANGED event
    BY <1>12, <2>2
  <2>3. ASSUME NEW t \in Workers, FinishEvent(t) PROVE Known
    <3>1. e = EventOf(t) \/ event'[e] = event[e]
      BY <1>1, <2>3 DEF FinishEvent, SetEvent, TablesTyped
    <3>2. QED
      BY <1>12, <2>3, <3>1
  <2>4. ASSUME NEW t \in Workers, StartProcessing(t) \/ Dismiss(t) \/ FailEvent(t) PROVE Known
    BY <2>1, <2>4 DEF StartProcessing, Dismiss, FailEvent, SetEvent, EventStatus
  <2>5. ASSUME NEW t \in Workers, WorkerStep(t) PROVE Known
    BY <2>2, <2>3, <2>4, <2>5
       DEF WorkerStep, FindPayment, CommitCapture, UpdateRefunded, Emit, Acknowledge
  <2>6. ASSUME NEW t \in Threads, FinanceStep(t) \/ FailStart(t) \/ Hear(t) \/ FailListener(t)
        PROVE  Known
    BY <2>2, <2>6
       DEF FinanceStep, ReadPosted, CommitPosted, ReadReversed, CommitReversed, FailStart, Hear,
           FailListener
  <2>7. ASSUME NEW t \in Workers, NEW j \in Jobs, TakeJob(t, j) PROVE Known
    BY <2>2, <2>7 DEF TakeJob
  <2>8. CASE RequestStep
    BY <2>1, <2>2, <2>8 DEF RequestStep, Receive, RetryEvent, RetryFailedJobs, EventStatus
  <2>9. CASE \/ Crash \/ UNCHANGED vars \/ EnvironmentStep
             \/ SetRate /\ UNCHANGED <<gateway, tableVars, event, job, thread, emitted, crashes, says>>
    BY <2>2, <2>9
       DEF Crash, vars, EnvironmentStep, GatewayMoves, CapturedElsewhere, RefundedElsewhere,
           CancelledElsewhere
  <2>10. QED
    BY <2>4, <2>5, <2>6, <2>7, <2>8, <2>9 DEF WebhooksNext, Threads
<1>13. ASSUME NEW e \in Events, event'[e] = "PROCESSED", says'[e].kind = "captured"
       PROVE  says'[e].payment \in Payments /\ payment'[says'[e].payment] \in {"CAPTURED", "REFUNDED"}
              /\ booking'[says'[e].payment] # "PENDING"
  <2>1. \A p \in Payments : TookEffect(p) =>
          payment'[p] \in {"CAPTURED", "REFUNDED"} /\ booking'[p] # "PENDING"
    BY <1>1 DEF TookEffect
  <2>2. CASE event[e] = "PROCESSED"
    <3>1. says'[e] = says[e]
      BY <1>1, <2>2 DEF EventsKept
    <3>2. says[e].payment \in Payments /\ TookEffect(says[e].payment)
      BY <1>13, <2>2, <3>1
         DEF EffectInv, ProcessedKnown, ProcessedTookEffect, TookEffect, Kind, About
    <3>3. QED
      BY <2>1, <3>1, <3>2
  <2>3. ASSUME NEW t \in Workers, FinishEvent(t), e = EventOf(t)
        PROVE  says[e].payment \in Payments /\ TookEffect(says[e].payment) /\ says' = says
    <3>1. t \in Threads /\ thread[t].step \in After /\ thread[t].step \in Steps \ FinanceSteps
          /\ says' = says
      BY <2>3 DEF FinishEvent, Threads, Steps, FinanceSteps
    <3>2. IsWorker(t) /\ thread[t].payment = About(e)
      BY <2>3, <3>1, ThreadFacts
    <3>3. OnCapture(thread[t], says)
      BY <1>13, <2>3, <3>1, <3>2 DEF OnCapture, IsWorker, EventOf
    <3>4. QED
      BY <1>2, <3>1, <3>2, <3>3 DEF About
  <2>4. QED
    BY <1>12, <1>13, <2>1, <2>2, <2>3
<1>14. QED
  BY <1>1, <1>11, <1>13
     DEF EffectInv, ProcessedKnown, ProcessedTookEffect, Kind, About

LEMMA EffectBegins == WebhooksInit => EffectInv
  BY DEF WebhooksInit, EffectInv, CapturedIsConfirmed, CaptureSeen, ProcessedKnown,
         ProcessedTookEffect, OnCapture, Idle

\* A capture event is PROCESSED only once its payment is captured and its booking out of
\* PENDING, whatever else happens to the event, the payment and the booking, and stays so
\* (processPaymentCaptured and the routes of the payments service, with any number of
\* workers, retries and restarts).
THEOREM ProcessedTookEffectHolds == WebhooksSpec => []ProcessedTookEffect
<1>1. WebhooksInit => EffectInv
  BY EffectBegins
<1>2. Typed /\ EffectInv /\ [WebhooksNext]_vars => EffectInv'
  BY EffectStep
<1>3. EffectInv => ProcessedTookEffect
  BY DEF EffectInv
<1>4. QED
  BY <1>1, <1>2, <1>3, InitTyped, NextTyped, PTL DEF WebhooksSpec

-----------------------------------------------------------------------------
\* What the rows say of the money.

RateKnown == rate \in Rates \cup {DefaultRate}

\* A row is of its payment's amount and balanced; a posting's commission follows from a
\* rate that was in force, a reversal's from the percentage it took over.
InOrder(row) ==
  /\ row.amount = Gross[row.subject] /\ Difference(row.entries) = 0
  /\ row.type = "PAYMENT" => \E r \in Rates \cup {DefaultRate} :
       row.percent = r.percent /\ row.commission = Share(row.amount, r.percent, r.fee) + r.fee
  /\ row.type = "REFUND" => row.commission = Share(row.amount, row.percent, 0)

\* A reversal took over the percentage of the posting.
SamePercent ==
  \A p \in Payments : \A i \in RowsOf(p, "PAYMENT"), j \in RowsOf(p, "REFUND") :
    transactions[j].percent = transactions[i].percent

MoneyInv ==
  RateKnown /\ (\A i \in DOMAIN transactions : InOrder(transactions[i])) /\ SamePercent

LEMMA EntriesBalance ==
  ASSUME NEW x \in Int, NEW y \in Int, NEW z \in Int, x + y + z = 0
  PROVE  Difference([NoEntries EXCEPT !["PAYMENT_CLEARING"] = x, !["PARTNER_PAYABLE"] = y,
                                      !["PLATFORM_REVENUE"] = z]) = 0
  BY DEF Difference, NoEntries, Accounts

LEMMA PaymentInOrder ==
  ASSUME NEW p \in Payments, rate \in Rate, RateKnown, InsertPayment(p)
  PROVE  \E row : Appended(row) /\ InOrder(row) /\ row.type = "PAYMENT" /\ row.subject = p
<1> DEFINE commission == Commission(Gross[p], rate)
           entries == [NoEntries EXCEPT !["PAYMENT_CLEARING"] = -Gross[p],
                                        !["PARTNER_PAYABLE"] = Gross[p] - commission,
                                        !["PLATFORM_REVENUE"] = commission]
           row == Row("PAYMENT", p, <<"pay", p>>, Gross[p], rate.percent, commission, entries)
<1>1. Gross[p] \in Nat /\ commission \in Nat
  BY CommissionTyped
<1>2. Appended(row)
  BY DEF InsertPayment, Appended
<1>3. commission = Share(Gross[p], rate.percent, rate.fee) + rate.fee
  BY DEF Commission
<1> HIDE DEF commission
<1>4. Difference(entries) = 0
  BY <1>1, EntriesBalance
<1> HIDE DEF entries
<1>5. InOrder(row) /\ row.type = "PAYMENT" /\ row.subject = p
  BY <1>3, <1>4 DEF Row, InOrder, RateKnown
<1>6. QED
  BY <1>2, <1>5

LEMMA RefundInOrder ==
  ASSUME NEW p \in Payments, transactions \in Seq(PostedRow), InsertRefund(p, 0)
  PROVE  \E row : /\ Appended(row) /\ InOrder(row) /\ row.type = "REFUND" /\ row.subject = p
                  /\ row.percent = Snapshot(p)
<1> DEFINE percent == Snapshot(p)
           reversed == Share(Gross[p], percent, 0)
           entries == [NoEntries EXCEPT !["PARTNER_PAYABLE"] = reversed - Gross[p],
                                        !["PLATFORM_REVENUE"] = -reversed,
                                        !["PAYMENT_CLEARING"] = Gross[p]]
           row == Row("REFUND", p, <<"refund", p, Gross[p]>>, Gross[p], percent, reversed, entries)
<1>1. Gross[p] \in Nat /\ 0 + Gross[p] = Gross[p]
  BY LedgerAssumption
<1>2. percent \in Nat
  BY SnapshotTyped
<1>3. Appended(row)
  BY <1>1 DEF InsertRefund, Appended
<1> HIDE DEF percent
<1>4. reversed \in Nat
  BY <1>1, <1>2, ShareTyped
<1>5. reversed = Share(Gross[p], percent, 0)
  OBVIOUS
<1> HIDE DEF reversed
<1>6. Difference(entries) = 0
  BY <1>1, <1>4 DEF Difference, NoEntries, Accounts
<1> HIDE DEF entries
<1>7. InOrder(row) /\ row.type = "REFUND" /\ row.subject = p /\ row.percent = percent
  BY <1>5, <1>6 DEF Row, InOrder
<1>8. QED
  BY <1>3, <1>7 DEF percent

LEMMA RateStays ==
  ASSUME [WebhooksNext]_vars
  PROVE  rate' = rate \/ rate' \in Rates
<1>1. CASE RequestStep \/ Crash \/ EnvironmentStep \/ UNCHANGED vars
  BY <1>1 DEF RequestStep, Receive, RetryEvent, RetryFailedJobs, Crash, EnvironmentStep, GatewayMoves,
              CapturedElsewhere, RefundedElsewhere, CancelledElsewhere, vars, ledgerVars
<1>2. ASSUME NEW t \in Threads, NEW j \in Jobs,
             WorkerStep(t) \/ FailEvent(t) \/ FailStart(t) \/ TakeJob(t, j) \/ Hear(t) \/ FailListener(t)
      PROVE  rate' = rate
  BY <1>2 DEF WorkerStep, StartProcessing, Dismiss, FindPayment, CommitCapture, UpdateRefunded,
              FinishEvent, Emit, Acknowledge, FailEvent, FailStart, TakeJob, Hear, FailListener,
              ledgerVars
<1>3. ASSUME NEW t \in Threads,
             WorkerStep(t) \/ FailEvent(t) \/ FailStart(t) \/ Hear(t) \/ FailListener(t)
      PROVE  rate' = rate
  BY <1>3 DEF WorkerStep, StartProcessing, Dismiss, FindPayment, CommitCapture, UpdateRefunded,
              FinishEvent, Emit, Acknowledge, FailEvent, FailStart, Hear, FailListener, ledgerVars
<1>4. ASSUME NEW t \in Threads, FinanceStep(t) PROVE rate' = rate
  BY <1>4 DEF FinanceStep, ReadPosted, CommitPosted, ReadReversed, CommitReversed, InsertPayment,
              InsertRefund, ledgerVars
<1>5. QED
  BY <1>1, <1>2, <1>3, <1>4 DEF WebhooksNext, SetRate, Threads

\* The snapshot a reversal takes is that of the one posting.
LEMMA SnapshotIs ==
  ASSUME TablesTyped, RowsKept, NEW p \in Payments, NEW i \in RowsOf(p, "PAYMENT")
  PROVE  Snapshot(p) = transactions[i].percent
<1> DEFINE k == CHOOSE n \in RowsOf(p, "PAYMENT") : TRUE
<1>0. k \in RowsOf(p, "PAYMENT")
  OBVIOUS
<1>1. Snapshot(p) = transactions[k].percent
  BY DEF Snapshot
<1> HIDE DEF k
<1>2. k = i
  BY <1>0, OneRow
<1>3. QED
  BY <1>1, <1>2

LEMMA LastRow ==
  ASSUME NEW S, transactions \in Seq(S), NEW row \in S, Appended(row)
  PROVE  transactions'[Len(transactions) + 1] = row
  BY DEF Appended

LEMMA MoneyStep ==
  ASSUME Typed, RowsKept, MoneyInv, [WebhooksNext]_vars
  PROVE  MoneyInv'
<1>1. TablesTyped /\ transactions \in Seq(PostedRow) /\ rate \in Rate
  BY TypedTables DEF TablesTyped
<1>2. RateKnown'
  BY RateStays DEF MoneyInv, RateKnown
<1>3. CASE UNCHANGED transactions
  <2>1. \A p, type : RowsOf(p, type)' = RowsOf(p, type)
    BY <1>3 DEF RowsOf
  <2>2. SamePercent'
    BY <1>3, <2>1 DEF MoneyInv, SamePercent
  <2>3. QED
    BY <1>2, <1>3, <2>2 DEF MoneyInv
<1>4. ASSUME NEW t \in Threads, CommitPosted(t) \/ CommitReversed(t) PROVE MoneyInv'
  <2> DEFINE p == thread[t].payment
  <2>1. p \in Payments
    <3>1. thread[t].step \in FinanceSteps /\ thread[t].step \in Steps
      BY <1>4 DEF CommitPosted, CommitReversed, FinanceSteps, Steps
    <3>2. QED
      BY <3>1, ThreadFacts DEF PaymentSteps
  <2>2. PICK kept \in PostedRow :
          /\ Appended(kept) /\ RowsOf(kept.subject, kept.type) = {}
          /\ kept.type = "REFUND" => RowsOf(kept.subject, "PAYMENT") # {}
    BY <1>4, CommitKeeps
  <2>3. PICK row : /\ Appended(row) /\ InOrder(row) /\ row.subject = p
                   /\ row.type \in {"PAYMENT", "REFUND"}
                   /\ row.type = "REFUND" => row.percent = Snapshot(p)
    <3>1. CASE CommitPosted(t)
      <4>1. InsertPayment(p) /\ RateKnown
        BY <3>1 DEF CommitPosted, MoneyInv
      <4>2. QED
        BY <1>1, <2>1, <4>1, PaymentInOrder
    <3>2. CASE CommitReversed(t)
      <4>1. InsertRefund(p, 0)
        BY <3>2 DEF CommitReversed
      <4>2. QED
        BY <1>1, <2>1, <4>1, RefundInOrder
    <3>3. QED
      BY <1>4, <3>1, <3>2
  <2> DEFINE n == Len(transactions) + 1
  <2>4. kept = row
    <3>1. transactions \in Seq(PostedRow \cup {row})
      BY <1>1
    <3>2. transactions'[n] = kept /\ transactions'[n] = row
      BY <1>1, <3>1, <2>2, <2>3, LastRow
    <3>3. QED
      BY <3>2
  <2>5. /\ DOMAIN transactions' = DOMAIN transactions \cup {n} /\ n \notin DOMAIN transactions
        /\ transactions'[n] = row
        /\ \A i \in DOMAIN transactions : transactions'[i] = transactions[i]
    BY <1>1, <2>2, <2>4 DEF Appended
  <2> HIDE DEF n
  <2>6. \A i \in DOMAIN transactions' : InOrder(transactions'[i])
    BY <2>3, <2>5 DEF MoneyInv
  <2>7. ASSUME NEW q \in Payments, NEW i \in RowsOf(q, "PAYMENT")', NEW j \in RowsOf(q, "REFUND")'
        PROVE  transactions'[j].percent = transactions'[i].percent
    <3>1. /\ i \in DOMAIN transactions' /\ transactions'[i].subject = q /\ transactions'[i].type = "PAYMENT"
          /\ j \in DOMAIN transactions' /\ transactions'[j].subject = q /\ transactions'[j].type = "REFUND"
      BY <2>7 DEF RowsOf
    <3>2. CASE i = n
      <4>1. p = q /\ row.type = "PAYMENT" /\ j \in DOMAIN transactions
        BY <2>3, <2>5, <3>1, <3>2
      <4>2. j \in RowsOf(q, "REFUND")
        BY <2>5, <3>1, <4>1 DEF RowsOf
      <4>3. RowsOf(q, "PAYMENT") = {}
        BY <2>2, <2>3, <2>4, <4>1
      <4>4. QED
        BY <4>2, <4>3 DEF RowsKept
    <3>3. CASE j = n
      <4>1. p = q /\ row.type = "REFUND" /\ i \in DOMAIN transactions
        BY <2>3, <2>5, <3>1, <3>3
      <4>2. i \in RowsOf(q, "PAYMENT")
        BY <2>5, <3>1, <4>1 DEF RowsOf
      <4>3. QED
        BY <1>1, <2>1, <2>3, <2>5, <3>3, <4>1, <4>2, SnapshotIs
    <3>4. CASE i # n /\ j # n
      <4>1. i \in RowsOf(q, "PAYMENT") /\ j \in RowsOf(q, "REFUND")
        BY <2>5, <3>1, <3>4 DEF RowsOf
      <4>2. transactions'[i] = transactions[i] /\ transactions'[j] = transactions[j]
        BY <2>5, <3>1, <3>4
      <4>3. QED
        BY <4>1, <4>2 DEF MoneyInv, SamePercent
    <3>5. QED
      BY <3>2, <3>3, <3>4
  <2>8. SamePercent'
    BY <2>7 DEF SamePercent
  <2>9. QED
    BY <1>2, <2>6, <2>8 DEF MoneyInv
<1>5. QED
  BY <1>3, <1>4, OtherStepsKeep

LEMMA MoneyBegins == WebhooksInit => RowsKept /\ MoneyInv
<1> SUFFICES ASSUME WebhooksInit PROVE RowsKept /\ MoneyInv
  OBVIOUS
<1>1. transactions = <<>> /\ rate = DefaultRate /\ \A t \in Threads : thread[t].step = "idle"
  BY DEF WebhooksInit, LedgerInit, Idle
<1>2. \A p, type : RowsOf(p, type) = {}
  BY <1>1 DEF RowsOf
<1>3. QED
  BY <1>1, <1>2 DEF RowsKept, MoneyInv, RateKnown, SamePercent

\* Whatever the rates were and whoever posted, no row of the ledger is out of balance or
\* differs from its payment (recordPayment, recordRefund).
THEOREM RowsInOrderHolds == WebhooksSpec => []RowsInOrder
<1>1. Typed /\ RowsKept /\ [WebhooksNext]_vars => RowsKept'
  BY BooksStep
<1>2. Typed /\ RowsKept /\ MoneyInv /\ [WebhooksNext]_vars => MoneyInv'
  BY MoneyStep
<1>3. MoneyInv => RowsInOrder
  BY DEF MoneyInv, InOrder, RowsInOrder, Unbalanced, Mismatched
<1>4. QED
  BY <1>1, <1>2, <1>3, MoneyBegins, InitTyped, NextTyped, PTL DEF WebhooksSpec

\* A reversal takes back the commission that was posted, all but the fixed fee and what the
\* two roundings differ by, also when the rate was changed in between (recordRefund takes
\* the percentage of the posting).
THEOREM ReversalKeepsFeeHolds == WebhooksSpec => []ReversalKeepsFee
<1>1. Typed /\ RowsKept /\ [WebhooksNext]_vars => RowsKept'
  BY BooksStep
<1>2. Typed /\ RowsKept /\ MoneyInv /\ [WebhooksNext]_vars => MoneyInv'
  BY MoneyStep
<1>3. Typed /\ MoneyInv => ReversalKeepsFee
  <2> SUFFICES ASSUME Typed, MoneyInv, NEW p \in Payments, NEW i \in RowsOf(p, "PAYMENT"),
                      NEW j \in RowsOf(p, "REFUND")
               PROVE  \E r \in Rates \cup {DefaultRate} :
                        LET kept == transactions[i].commission - transactions[j].commission
                        IN  IF r.fee = 0 THEN kept = 0 ELSE kept \in r.fee - 1 .. r.fee + 1
    BY DEF ReversalKeepsFee
  <2>1. /\ i \in DOMAIN transactions /\ transactions[i].subject = p /\ transactions[i].type = "PAYMENT"
        /\ j \in DOMAIN transactions /\ transactions[j].subject = p /\ transactions[j].type = "REFUND"
    BY DEF RowsOf
  <2>2. PICK r \in Rates \cup {DefaultRate} :
          /\ transactions[i].percent = r.percent
          /\ transactions[i].commission = Share(transactions[i].amount, r.percent, r.fee) + r.fee
    BY <2>1 DEF MoneyInv, InOrder
  <2>3. /\ transactions[j].commission = Share(transactions[j].amount, transactions[j].percent, 0)
        /\ transactions[j].percent = transactions[i].percent
        /\ transactions[i].amount = Gross[p] /\ transactions[j].amount = Gross[p]
    BY <2>1 DEF MoneyInv, InOrder, SamePercent
  <2>4. Gross[p] \in Nat /\ r.percent \in Nat /\ r.fee \in Nat
    BY LedgerAssumption DEF Rate, DefaultRate
  <2> DEFINE posted == Share(Gross[p], r.percent, r.fee)
             taken == Share(Gross[p], r.percent, 0)
  <2>5. posted \in Nat /\ taken \in Nat /\ posted - taken \in -1 .. 1
    BY <2>4, ShareTyped, SharesNear
  <2>6. r.fee = 0 => posted = taken
    OBVIOUS
  <2>7. transactions[i].commission = posted + r.fee /\ transactions[j].commission = taken
    BY <2>2, <2>3
  <2> HIDE DEF posted, taken
  <2>8. QED
    BY <2>4, <2>5, <2>6, <2>7
<1>4. QED
  BY <1>1, <1>2, <1>3, MoneyBegins, InitTyped, NextTyped, PTL DEF WebhooksSpec

\* A capture that was signed off without its posting is reported by reconciliation once
\* nothing is in flight (runReconciliation, against processPaymentCaptured, which posts
\* and signs off in two steps).
THEOREM LostIsReportedHolds == WebhooksSpec => []LostIsReported
<1>1. Typed /\ RowsKept /\ [WebhooksNext]_vars => RowsKept'
  BY BooksStep
<1>2. EffectInv /\ RowsKept => LostIsReported
  BY DEF EffectInv, ProcessedTookEffect, ProcessedKnown, RowsKept, LostIsReported,
         UnrecordedPayments, UnrecordedRefunds
<1>3. QED
  BY <1>1, <1>2, MoneyBegins, EffectBegins, EffectStep, InitTyped, NextTyped, PTL DEF WebhooksSpec
-----------------------------------------------------------------------------
\* Nothing is left processing.

\* The steps of a call that has written the last status of its event.
Over == {"emit", "audit", "acknowledge"}

\* A call has an active job, of its own.
JobsApart ==
  /\ \A t \in Threads : thread[t].job # None => job[thread[t].job].state = "active"
  /\ \A t, u \in Threads : thread[t].job # None /\ thread[t].job = thread[u].job => t = u

\* The event will be taken up again, or a call has yet to write its status.
StillDue(e) ==
  \E j \in Jobs :
    /\ j[1] = e
    /\ \/ job[j].state \in {"waiting", "failed"}
       \/ \E t \in Threads : thread[t].job = j /\ thread[t].step \notin Over

QueueInv == JobsApart /\ \A e \in Events : event[e] = "PROCESSING" => StillDue(e)

\* A call goes on with its job.
LEMMA MoveDue ==
  ASSUME Typed, QueueInv, NEW t \in Threads, NEW next, thread' = [thread EXCEPT ![t] = next],
         next.job = thread[t].job, UNCHANGED job,
         \A e \in Events : event'[e] = "PROCESSING" =>
           \/ /\ event[e] = "PROCESSING"
              /\ thread[t].job # None /\ EventOf(t) = e /\ next.step \in Over => thread[t].step \in Over
           \/ thread[t].job \in Jobs /\ EventOf(t) = e /\ next.step \notin Over
  PROVE  QueueInv'
<1>1. thread'[t] = next /\ (\A u \in Threads \ {t} : thread'[u] = thread[u])
      /\ \A u \in Threads : thread'[u].job = thread[u].job
  BY DEF Typed, WebhooksTypeOK
<1>2. JobsApart'
  BY <1>1 DEF QueueInv, JobsApart
<1>3. ASSUME NEW e \in Events, event'[e] = "PROCESSING" PROVE StillDue(e)'
  <2>1. CASE thread[t].job \in Jobs /\ EventOf(t) = e /\ next.step \notin Over
    BY <1>1, <2>1 DEF StillDue, EventOf
  <2>2. CASE /\ event[e] = "PROCESSING"
             /\ thread[t].job # None /\ EventOf(t) = e /\ next.step \in Over => thread[t].step \in Over
    <3>1. PICK j \in Jobs :
            /\ j[1] = e
            /\ \/ job[j].state \in {"waiting", "failed"}
               \/ \E u \in Threads : thread[u].job = j /\ thread[u].step \notin Over
      BY <2>2 DEF QueueInv, StillDue
    <3>2. CASE job[j].state \in {"waiting", "failed"}
      BY <3>1, <3>2 DEF StillDue
    <3>3. ASSUME NEW u \in Threads, thread[u].job = j, thread[u].step \notin Over
          PROVE  StillDue(e)'
      <4>1. j # None
        BY WebhooksAssumption DEF Jobs
      <4>2. thread'[u].step \notin Over
        BY <1>1, <2>2, <3>1, <3>3, <4>1 DEF EventOf
      <4>3. QED
        BY <1>1, <3>1, <3>3, <4>2 DEF StillDue
    <3>4. QED
      BY <3>1, <3>2, <3>3
  <2>3. QED
    BY <1>3, <2>1, <2>2
<1>4. QED
  BY <1>2, <1>3 DEF QueueInv

\* A call's job is over: it failed, or its event has its last status.
LEMMA ReleaseDue ==
  ASSUME Typed, QueueInv, NEW t \in Threads, thread[t].job \in Jobs,
         thread' = [thread EXCEPT ![t] = Idle],
         NEW x, job' = [job EXCEPT ![thread[t].job] = x],
         x.state \in {"waiting", "failed"} \/ thread[t].step \in Over,
         \A e \in Events : event'[e] = "PROCESSING" => event[e] = "PROCESSING"
  PROVE  QueueInv'
<1> DEFINE k == thread[t].job
<1>1. /\ thread'[t] = Idle /\ (\A u \in Threads \ {t} : thread'[u] = thread[u])
      /\ job'[k] = x /\ (\A j \in Jobs \ {k} : job'[j] = job[j])
  BY DEF Typed, WebhooksTypeOK
<1>2. k # None /\ Idle.job = None
  BY WebhooksAssumption DEF Jobs, Idle
<1>3. \A u \in Threads : thread[u].job # None => thread[u].job \in Jobs
  BY DEF Typed, WebhooksTypeOK, Thread, Idle
<1>4. JobsApart'
  BY <1>1, <1>2, <1>3 DEF QueueInv, JobsApart
<1>5. ASSUME NEW e \in Events, event'[e] = "PROCESSING" PROVE StillDue(e)'
  <2>1. PICK j \in Jobs :
          /\ j[1] = e
          /\ \/ job[j].state \in {"waiting", "failed"}
             \/ \E u \in Threads : thread[u].job = j /\ thread[u].step \notin Over
    BY <1>5 DEF QueueInv, StillDue
  <2>2. CASE j # k
    <3>1. \A u \in Threads : thread[u].job = j => thread'[u] = thread[u]
      BY <1>1, <2>2
    <3>2. QED
      BY <1>1, <2>1, <2>2, <3>1 DEF StillDue
  <2>3. CASE j = k
    <3>1. job[j].state = "active"
      BY <1>2, <2>3 DEF QueueInv, JobsApart
    <3>2. thread[t].step \notin Over
      BY <1>2, <2>1, <2>3, <3>1 DEF QueueInv, JobsApart
    <3>3. QED
      BY <1>1, <2>1, <2>3, <3>2 DEF StillDue
  <2>4. QED
    BY <2>2, <2>3
<1>6. QED
  BY <1>4, <1>5 DEF QueueInv

LEMMA TakeDue ==
  ASSUME Typed, QueueInv, NEW t \in Threads, NEW j \in Jobs, TakeJob(t, j)
  PROVE  QueueInv'
<1> DEFINE next == [step |-> IF event[j[1]] = "PROCESSED" THEN "acknowledge" ELSE "start",
                    job |-> j, payment |-> says[j[1]].payment]
<1>1. /\ thread[t].job = None /\ job[j].state = "waiting" /\ UNCHANGED event
      /\ thread'[t] = next /\ (\A u \in Threads \ {t} : thread'[u] = thread[u])
      /\ job'[j].state = "active" /\ \A k \in Jobs \ {j} : job'[k] = job[k]
  BY DEF TakeJob, Typed, WebhooksTypeOK, Idle
<1>2. j # None /\ next.job = j /\ (next.step \in Over => event[j[1]] = "PROCESSED")
  BY WebhooksAssumption DEF Jobs, Over
<1>3. \A u \in Threads : thread[u].job # None => thread[u].job \in Jobs \ {j}
  BY <1>1 DEF Typed, WebhooksTypeOK, Thread, Idle, QueueInv, JobsApart
<1> HIDE DEF next
<1>4. JobsApart'
  BY <1>1, <1>2, <1>3 DEF QueueInv, JobsApart
<1>5. ASSUME NEW e \in Events, event'[e] = "PROCESSING" PROVE StillDue(e)'
  <2>1. PICK k \in Jobs :
          /\ k[1] = e
          /\ \/ job[k].state \in {"waiting", "failed"}
             \/ \E u \in Threads : thread[u].job = k /\ thread[u].step \notin Over
    BY <1>1, <1>5 DEF QueueInv, StillDue
  <2>2. CASE k = j
    <3>1. event[e] = "PROCESSING" /\ next.step \notin Over
      BY <1>1, <1>2, <1>5, <2>1, <2>2
    <3>2. QED
      BY <1>1, <1>2, <2>1, <2>2, <3>1 DEF StillDue
  <2>3. CASE k # j
    <3>1. \A u \in Threads : thread[u].job = k => thread'[u] = thread[u]
      BY <1>1, <2>1, WebhooksAssumption DEF Jobs
    <3>2. QED
      BY <1>1, <2>1, <2>3, <3>1 DEF StillDue
  <2>4. QED
    BY <2>2, <2>3
<1>6. QED
  BY <1>4, <1>5 DEF QueueInv

\* Jobs that wait or have failed are put in the queue; the calls are as they were.
LEMMA EnqueueDue ==
  ASSUME Typed, QueueInv, UNCHANGED thread,
         \A j \in Jobs : \/ job'[j] = job[j]
                         \/ job[j].state \in {"none", "failed"} /\ job'[j].state = "waiting",
         \A e \in Events : event'[e] = "PROCESSING" => event[e] = "PROCESSING"
  PROVE  QueueInv'
<1>1. \A u \in Threads : thread[u].job # None => thread[u].job \in Jobs
  BY DEF Typed, WebhooksTypeOK, Thread, Idle
<1>2. JobsApart'
  BY <1>1 DEF QueueInv, JobsApart
<1>3. ASSUME NEW e \in Events, StillDue(e) PROVE StillDue(e)'
  BY <1>3 DEF StillDue
<1>4. QED
  BY <1>2, <1>3 DEF QueueInv

LEMMA CrashDue ==
  ASSUME Typed, QueueInv, Crash
  PROVE  QueueInv'
<1>1. /\ UNCHANGED event /\ \A t \in Threads : thread'[t].job = None
      /\ \A j \in Jobs :
           /\ job[j].state = "active" => job'[j].state \in {"waiting", "failed"}
           /\ job[j].state # "active" => job'[j] = job[j]
  BY DEF Crash, Idle, Typed, WebhooksTypeOK
<1>2. JobsApart'
  BY <1>1 DEF JobsApart
<1>3. ASSUME NEW e \in Events, event[e] = "PROCESSING" PROVE StillDue(e)'
  <2>1. PICK j \in Jobs : j[1] = e /\ job[j].state \in {"waiting", "failed", "active"}
    BY <1>3, WebhooksAssumption DEF QueueInv, JobsApart, StillDue, Jobs
  <2>2. QED
    BY <1>1, <2>1 DEF StillDue
<1>4. QED
  BY <1>1, <1>2, <1>3 DEF QueueInv

\* The steps of a worker.
LEMMA WorkerDue ==
  ASSUME Typed, QueueInv, NEW t \in Workers, WorkerStep(t)
  PROVE  QueueInv'
<1>1. t \in Threads /\ thread[t].step \in Steps /\ thread[t].step \notin FinanceSteps
  BY DEF WorkerStep, StartProcessing, Dismiss, FindPayment, CommitCapture, UpdateRefunded,
         FinishEvent, Emit, Acknowledge, Steps, FinanceSteps, Threads
<1>2. thread[t] \in Thread /\ thread[t].job \in Jobs /\ EventOf(t) \in Events
      /\ event \in [Events -> EventStatus] /\ thread[t].job # None
  BY <1>1, ThreadFacts, WebhooksAssumption DEF Typed, WebhooksTypeOK, Jobs
<1>3. ASSUME NEW step, Then(t, step), UNCHANGED job,
             \/ UNCHANGED event /\ (step \in Over => thread[t].step \in Over)
             \/ step \notin Over /\ SetEvent(t, "PROCESSING")
             \/ \E status \in EventStatus \ {"PROCESSING"} : SetEvent(t, status)
      PROVE  QueueInv'
  <2> DEFINE next == [thread[t] EXCEPT !.step = step]
  <2>1. thread' = [thread EXCEPT ![t] = next] /\ next.step = step /\ next.job = thread[t].job
    BY <1>2, <1>3 DEF Then, Thread
  <2> HIDE DEF next
  <2>2. \A e \in Events : event'[e] = "PROCESSING" =>
          \/ /\ event[e] = "PROCESSING"
             /\ thread[t].job # None /\ EventOf(t) = e /\ next.step \in Over => thread[t].step \in Over
          \/ thread[t].job \in Jobs /\ EventOf(t) = e /\ next.step \notin Over
    BY <1>2, <1>3, <2>1 DEF SetEvent
  <2>3. QED
    BY <1>1, <1>3, <2>1, <2>2, MoveDue
<1>4. CASE StartProcessing(t)
  BY <1>3, <1>4 DEF StartProcessing, Over
<1>5. CASE Dismiss(t)
  BY <1>3, <1>5 DEF Dismiss, EventStatus
<1>6. CASE FindPayment(t)
  <2>1. PICK step \in {"finish", "capture", "refund"} : Then(t, step)
    <3>1. says[EventOf(t)] \in Notices \cup {NoNotice}
      BY <1>2 DEF Typed, WebhooksTypeOK
    <3>2. Kind(EventOf(t)) \in {"captured", "refunded"}
      BY <1>6, <3>1, WebhooksAssumption DEF FindPayment, Kind, NoNotice
    <3>3. CASE Kind(EventOf(t)) = "captured" /\ payment[About(EventOf(t))] = "CAPTURED"
      BY <1>6, <3>3 DEF FindPayment
    <3>4. CASE Kind(EventOf(t)) = "captured" /\ payment[About(EventOf(t))] # "CAPTURED"
      BY <1>6, <3>4 DEF FindPayment
    <3>5. CASE Kind(EventOf(t)) = "refunded" /\ payment[About(EventOf(t))] = "REFUNDED"
      BY <1>6, <3>5 DEF FindPayment
    <3>6. CASE Kind(EventOf(t)) = "refunded" /\ payment[About(EventOf(t))] # "REFUNDED"
      BY <1>6, <3>6 DEF FindPayment
    <3>7. QED
      BY <3>2, <3>3, <3>4, <3>5, <3>6
  <2>2. step \notin Over /\ UNCHANGED <<event, job>>
    BY <1>6 DEF FindPayment, Over
  <2>3. QED
    BY <1>3, <2>1, <2>2
<1>7. CASE CommitCapture(t) \/ UpdateRefunded(t)
  BY <1>3, <1>7 DEF CommitCapture, UpdateRefunded, Over
<1>8. CASE FinishEvent(t)
  BY <1>3, <1>8 DEF FinishEvent, EventStatus
<1>9. CASE Emit(t)
  BY <1>3, <1>9 DEF Emit, Over
<1>10. CASE Acknowledge(t)
  <2>1. job' = [job EXCEPT ![thread[t].job] = [job[thread[t].job] EXCEPT !.state = "completed"]]
    BY <1>10 DEF Acknowledge
  <2>2. thread[t].step \in Over /\ UNCHANGED event /\ thread' = [thread EXCEPT ![t] = Idle]
    BY <1>10 DEF Acknowledge, Over
  <2>3. QED
    BY <1>1, <1>2, <2>1, <2>2, ReleaseDue
<1>11. QED
  BY <1>4, <1>5, <1>6, <1>7, <1>8, <1>9, <1>10 DEF WorkerStep

LEMMA FailDue ==
  ASSUME Typed, QueueInv, NEW t \in Workers, FailEvent(t) \/ FailStart(t)
  PROVE  QueueInv'
<1>1. t \in Threads /\ thread[t].step \in Steps /\ (FailStart(t) => thread[t].step \notin FinanceSteps)
  BY DEF FailEvent, FailStart, Steps, FinanceSteps, Threads
<1>2. IsWorker(t)
  BY <1>1, ThreadFacts DEF FailEvent
<1>3. thread[t].job \in Jobs /\ EventOf(t) \in Events /\ event \in [Events -> EventStatus]
  BY <1>1, <1>2, ThreadFacts DEF Typed, WebhooksTypeOK
<1>4. job' = [job EXCEPT ![thread[t].job] = Tried(job[thread[t].job])]
      /\ thread' = [thread EXCEPT ![t] = Idle]
  BY <1>3 DEF FailEvent, FailStart, GiveBack, Typed, WebhooksTypeOK
<1>5. Tried(job[thread[t].job]).state \in {"waiting", "failed"}
  <2>1. job[thread[t].job] \in [state : JobState, tries : 0..Attempts, stalled : BOOLEAN]
    BY <1>3 DEF Typed, WebhooksTypeOK
  <2>2. QED
    BY <2>1 DEF Tried
<1>6. \A e \in Events : event'[e] = "PROCESSING" => event[e] = "PROCESSING"
  BY <1>3 DEF FailEvent, FailStart, SetEvent
<1>7. QED
  BY <1>1, <1>3, <1>4, <1>5, <1>6, ReleaseDue

LEMMA FinanceDue ==
  ASSUME Typed, QueueInv, NEW t \in Threads, FinanceStep(t)
  PROVE  QueueInv'
<1>1. thread[t].step \in Steps /\ UNCHANGED <<event, job>>
  BY DEF FinanceStep, ReadPosted, CommitPosted, ReadReversed, CommitReversed, Steps
<1>2. thread[t] \in Thread
  BY <1>1, ThreadFacts
<1>3. ASSUME NEW next, thread' = [thread EXCEPT ![t] = next], next.job = thread[t].job,
             next.step \notin Over
      PROVE  QueueInv'
  BY <1>1, <1>3, MoveDue
<1>4. ASSUME NEW step, step \notin Over, Then(t, step) PROVE QueueInv'
  <2> DEFINE next == [thread[t] EXCEPT !.step = step]
  <2>1. next.job = thread[t].job /\ next.step = step
    BY <1>2 DEF Thread
  <2>2. thread' = [thread EXCEPT ![t] = next]
    BY <1>4 DEF Then
  <2> HIDE DEF next
  <2>3. QED
    BY <1>3, <1>4, <2>1, <2>2
<1>5. CASE Posted(t)
  <2>1. CASE IsWorker(t)
    <3>1. Then(t, "finishAndEmit")
      BY <1>5, <2>1 DEF Posted, Then
    <3>2. QED
      BY <1>4, <3>1 DEF Over
  <2>2. CASE ~ IsWorker(t)
    BY <1>3, <1>5, <2>2 DEF Posted, IsWorker, Idle, Over
  <2>3. QED
    BY <2>1, <2>2
<1>6. CASE Then(t, "postInsert") \/ Then(t, "reverseInsert")
  BY <1>4, <1>6 DEF Over
<1>7. Posted(t) \/ Then(t, "postInsert") \/ Then(t, "reverseInsert")
  BY DEF FinanceStep, ReadPosted, CommitPosted, ReadReversed, CommitReversed
<1>8. QED
  BY <1>5, <1>6, <1>7

LEMMA ListenerDue ==
  ASSUME Typed, QueueInv, NEW t \in Listeners, Hear(t) \/ FailListener(t)
  PROVE  QueueInv'
<1>1. t \in Threads /\ UNCHANGED <<event, job>>
  BY DEF Hear, FailListener, Threads
<1>2. ASSUME NEW next, thread' = [thread EXCEPT ![t] = next], thread[t].job = None,
             next.job = None, next.step \notin Over
      PROVE  QueueInv'
  BY <1>1, <1>2, MoveDue
<1>3. CASE FailListener(t)
  <2>1. thread[t].job = None /\ thread' = [thread EXCEPT ![t] = Idle]
    BY <1>3 DEF FailListener, IsWorker
  <2>2. Idle.job = None /\ Idle.step \notin Over
    BY DEF Idle, Over
  <2>3. QED
    BY <1>2, <2>1, <2>2
<1>4. CASE Hear(t)
  <2>1. PICK m \in emitted :
          thread' = [thread EXCEPT ![t] =
            [Idle EXCEPT !.step = IF m[1] = "PAYMENT_CAPTURED" THEN "post" ELSE "reverse",
                         !.payment = m[2]]]
    BY <1>4 DEF Hear
  <2> DEFINE next == [Idle EXCEPT !.step = IF m[1] = "PAYMENT_CAPTURED" THEN "post" ELSE "reverse",
                                  !.payment = m[2]]
  <2>2. next.job = None /\ next.step \notin Over
    BY DEF Idle, Over
  <2>3. thread[t] = Idle
    BY <1>4 DEF Hear
  <2>4. thread[t].job = None
    BY <2>3 DEF Idle
  <2>5. thread' = [thread EXCEPT ![t] = next]
    BY <2>1
  <2> HIDE DEF next
  <2>6. QED
    BY <1>2, <2>2, <2>4, <2>5
<1>5. QED
  BY <1>3, <1>4

LEMMA RequestDue ==
  ASSUME Typed, QueueInv, RequestStep
  PROVE  QueueInv'
<1>1. event \in [Events -> EventStatus] /\ UNCHANGED thread
      /\ job \in [Jobs -> [state : JobState, tries : 0..Attempts, stalled : BOOLEAN]]
  BY DEF Typed, WebhooksTypeOK, RequestStep, Receive, RetryEvent, RetryFailedJobs
<1>2. ASSUME NEW j \in Jobs, job[j].state = "none", Enqueue(j) \/ UNCHANGED job,
             \A e \in Events : event'[e] = "PROCESSING" => event[e] = "PROCESSING"
      PROVE  QueueInv'
  BY <1>1, <1>2, EnqueueDue DEF Enqueue
<1>3. ASSUME NEW e \in Events, NEW notice \in Notices, Receive(e, notice) PROVE QueueInv'
  <2>1. <<e, 0>> \in Jobs /\ job[<<e, 0>>].state = "none"
    <3>1. <<e, 0>> \in Jobs
      BY WebhooksAssumption DEF Jobs
    <3>2. event[e] = "NONE"
      BY <1>3 DEF Receive
    <3>3. QED
      BY <3>1, <3>2 DEF Typed, JobsStored
  <2>2. QED
    BY <1>1, <1>2, <1>3, <2>1 DEF Receive
<1>4. ASSUME NEW e \in Events, NEW j \in Jobs, RetryEvent(e, j) PROVE QueueInv'
  BY <1>1, <1>2, <1>4 DEF RetryEvent
<1>5. CASE RetryFailedJobs
  BY <1>1, <1>5, EnqueueDue DEF RetryFailedJobs
<1>6. QED
  BY <1>3, <1>4, <1>5 DEF RequestStep

LEMMA QueueStep ==
  ASSUME Typed, QueueInv, [WebhooksNext]_vars
  PROVE  QueueInv'
<1>1. CASE \/ EnvironmentStep \/ UNCHANGED vars
           \/ SetRate /\ UNCHANGED <<gateway, tableVars, event, job, thread, emitted, crashes, says>>
  <2>1. UNCHANGED <<event, job, thread>>
    BY <1>1 DEF EnvironmentStep, GatewayMoves, CapturedElsewhere, RefundedElsewhere,
                CancelledElsewhere, vars
  <2>2. QED
    BY <2>1, EnqueueDue
<1>2. QED
  BY <1>1, WorkerDue, FailDue, FinanceDue, ListenerDue, RequestDue, CrashDue, TakeDue
     DEF WebhooksNext, Threads

\* No event stays PROCESSING when its jobs are over: a job that waits, runs or has failed
\* is left of it, although two jobs of one event overwrite each other's status
\* (processWebhookEvent, retryWebhookEvent, BullMQ's stalled jobs).
THEOREM NothingLeftHolds == WebhooksSpec => []NothingLeftProcessing
<1>1. WebhooksInit => QueueInv
  BY DEF WebhooksInit, QueueInv, JobsApart, Idle
<1>2. QueueInv => NothingLeftProcessing
  BY WebhooksAssumption DEF QueueInv, JobsApart, StillDue, NothingLeftProcessing, Jobs
<1>3. QED
  BY <1>1, <1>2, QueueStep, InitTyped, NextTyped, PTL DEF WebhooksSpec
=============================================================================
