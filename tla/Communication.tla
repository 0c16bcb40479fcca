---------------------------- MODULE Communication ----------------------------
(***************************************************************************)
(* What happens to a customer when something happens to a booking: the     *)
(* listeners of CommunicationService write a log row and send a message    *)
(* over each channel, those of NotificationsService put rows into the      *)
(* in-app inbox.  An emission starts one handler per listener; the         *)
(* handlers run side by side, and nothing runs them again after an error   *)
(* or a restart.  Events may be emitted more than once.                    *)
(*                                                                         *)
(* One customer, one booking with its payment, so that a kind of event     *)
(* stands for its idempotency key.                                         *)
(***************************************************************************)
EXTENDS Integers, FiniteSets

CONSTANTS
  None,
  Kinds,           \* the events that happen
  Channels,        \* EMAIL and PUSH: what a TRANSACTIONAL message uses beside IN_APP
  Members,         \* of the organization
  Handlers,        \* slots for handlers at work (a bound on the concurrency)
  MaxEmitted       \* bound on the emissions of each kind

CommunicationKinds == {"BOOKING_CONFIRMED", "BOOKING_CANCELLED", "PAYMENT_CAPTURED"}

NotificationKinds ==
  {"BOOKING_CREATED", "BOOKING_ACCEPTED", "BOOKING_CONFIRMED", "BOOKING_REJECTED", "BOOKING_ARRIVED"}

ASSUME CommunicationAssumption ==
  /\ Kinds \subseteq CommunicationKinds \cup NotificationKinds
  /\ Channels \subseteq {"EMAIL", "PUSH"}
  /\ MaxEmitted \in Nat
  /\ None \notin Kinds

VARIABLES
  emitted,         \* how often each kind was emitted
  due,             \* the handlers that an emission started and that have done nothing yet
  log,             \* communication_logs, by idempotency key and channel (unique)
  sent,            \* how many messages left
  muted,           \* the channels the customer has switched off
  device,          \* the customer has an active device
  inbox,           \* notifications that are not read, by kind
  handler          \* the handlers at work

communicationVars == <<emitted, due, log, sent, muted, device, inbox, handler>>

Listeners == {"communication", "notifications"}

Idle == [kind |-> None, at |-> [ch \in Channels |-> "done"]]

CommunicationInit ==
  /\ emitted = [k \in Kinds |-> 0]
  /\ due = [x \in Listeners \X Kinds |-> 0]
  /\ log = [x \in Kinds \X Channels |-> "NONE"]
  /\ sent = [x \in Kinds \X Channels |-> 0]
  /\ muted = {}
  /\ device = FALSE
  /\ inbox = [k \in Kinds |-> 0]
  /\ handler = [h \in Handlers |-> Idle]

ListensTo(x) ==
  x[2] \in (IF x[1] = "communication" THEN CommunicationKinds ELSE NotificationKinds)

-----------------------------------------------------------------------------
\* A service emits an event: the handlers of all who listen to it start.
Emit(k) ==
  /\ emitted[k] < MaxEmitted
  /\ emitted' = [emitted EXCEPT ![k] = @ + 1]
  /\ due' = [x \in DOMAIN due |-> IF x[2] = k /\ ListensTo(x) THEN due[x] + 1 ELSE due[x]]
  /\ UNCHANGED <<log, sent, muted, device, inbox, handler>>

Take(x) == due[x] > 0 /\ due' = [due EXCEPT ![x] = @ - 1]

Go(h, ch, step) == handler' = [handler EXCEPT ![h].at[ch] = step]

Key(h, ch) == <<handler[h].kind, ch>>

\* sendNotification reads the preferences of the customer once, for all channels.
HearCommunication(h, k) ==
  /\ handler[h] = Idle
  /\ Take(<<"communication", k>>)
  /\ handler' = [handler EXCEPT ![h] = [Idle EXCEPT !.kind = k,
       !.at = [ch \in Channels |-> IF ch \in muted THEN "skip" ELSE "insert"]]]
  /\ UNCHANGED <<emitted, log, sent, muted, device, inbox>>

\* logSkipped: the row is there once.
LogSkipped(h, ch) ==
  /\ handler[h].at[ch] = "skip"
  /\ log' = [log EXCEPT ![Key(h, ch)] = IF @ = "NONE" THEN "SKIPPED" ELSE @]
  /\ Go(h, ch, "done")
  /\ UNCHANGED <<emitted, due, sent, muted, device, inbox>>

\* Mutant: only a message that has been SENT is not sent again.
MayDispatchUnsent(status) == status # "SENT"

\* The unique key (user, channel, idempotency key) lets one row in.
MayDispatch(status) == status = "NONE"

\* dispatch inserts a PENDING row; the message of a row that is there is somebody else's.
InsertLog(h, ch) ==
  /\ handler[h].at[ch] = "insert"
  /\ IF MayDispatch(log[Key(h, ch)])
     THEN /\ log' = [log EXCEPT ![Key(h, ch)] = "PENDING"]
          /\ Go(h, ch, "send")
     ELSE Go(h, ch, "done") /\ UNCHANGED log
  /\ UNCHANGED <<emitted, due, sent, muted, device, inbox>>

\* The provider takes the message, or does not, or its answer is lost; a push needs a
\* device.  The step is named for the status to write.
Send(h, ch) ==
  /\ handler[h].at[ch] = "send"
  /\ IF ch = "PUSH" /\ ~ device
     THEN Go(h, ch, "SKIPPED") /\ UNCHANGED sent
     ELSE \/ Go(h, ch, "FAILED") /\ UNCHANGED sent
          \/ /\ Go(h, ch, "SENT") \/ Go(h, ch, "FAILED")
             /\ sent' = [sent EXCEPT ![Key(h, ch)] = @ + 1]
  /\ UNCHANGED <<emitted, due, log, muted, device, inbox>>

UpdateLog(h, ch) ==
  /\ handler[h].at[ch] \in {"SENT", "SKIPPED", "FAILED"}
  /\ log' = [log EXCEPT ![Key(h, ch)] = handler[h].at[ch]]
  /\ Go(h, ch, "done")
  /\ UNCHANGED <<emitted, due, sent, muted, device, inbox>>

\* A step fails: the update is caught and FAILED is to be written, or the row stays as it is.
FailChannel(h, ch) ==
  /\ handler[h].at[ch] \in {"skip", "insert", "SENT", "SKIPPED", "FAILED"}
  /\ Go(h, ch, IF handler[h].at[ch] \in {"SENT", "SKIPPED"} THEN "FAILED" ELSE "done")
  /\ UNCHANGED <<emitted, due, log, sent, muted, device, inbox>>

EndHandler(h) ==
  /\ handler[h] # Idle
  /\ \A ch \in Channels : handler[h].at[ch] = "done"
  /\ handler' = [handler EXCEPT ![h] = Idle]
  /\ UNCHANGED <<emitted, due, log, sent, muted, device, inbox>>

-----------------------------------------------------------------------------
\* registerDevice and unregisterDevice, updatePreference.
SetDevice ==
  /\ device' = ~ device
  /\ UNCHANGED <<emitted, due, log, sent, muted, inbox, handler>>

UpdatePreference(ch) ==
  /\ muted' = IF ch \in muted THEN muted \ {ch} ELSE muted \cup {ch}
  /\ UNCHANGED <<emitted, due, log, sent, device, inbox, handler>>

-----------------------------------------------------------------------------
\* The handlers of BookingEventsListener put a row in the customer's inbox; a new
\* booking also tells the members, one after the other, until one row fails.
HearNotification(k) ==
  /\ Take(<<"notifications", k>>)
  /\ \/ UNCHANGED inbox
     \/ \E told \in 0..Cardinality(Members) :
          /\ k # "BOOKING_CREATED" => told = 0
          /\ inbox' = [inbox EXCEPT ![k] = @ + 1 + told]
  /\ UNCHANGED <<emitted, log, sent, muted, device, handler>>

\* markAsRead (again, too), and markAllAsRead.
MarkAsRead(k) ==
  /\ inbox[k] > 0
  /\ inbox' = [inbox EXCEPT ![k] = @ - 1]
  /\ UNCHANGED <<emitted, due, log, sent, muted, device, handler>>

MarkAllAsRead ==
  /\ inbox' = [k \in Kinds |-> 0]
  /\ UNCHANGED <<emitted, due, log, sent, muted, device, handler>>

\* The process stops, and with it the handlers.
HandlersStop ==
  /\ due' = [x \in DOMAIN due |-> 0]
  /\ handler' = [h \in Handlers |-> Idle]
  /\ UNCHANGED <<emitted, log, sent, muted, device, inbox>>

DispatchStep(h) ==
  \/ EndHandler(h)
  \/ \E ch \in Channels :
       LogSkipped(h, ch) \/ InsertLog(h, ch) \/ Send(h, ch) \/ UpdateLog(h, ch) \/ FailChannel(h, ch)

CommunicationStep ==
  \/ \E k \in Kinds :
       \/ k # "BOOKING_ARRIVED" /\ Emit(k)
       \/ \E h \in Handlers : HearCommunication(h, k)
       \/ HearNotification(k) \/ MarkAsRead(k)
  \/ \E h \in Handlers : DispatchStep(h)
  \/ SetDevice \/ MarkAllAsRead
  \/ \E ch \in Channels : UpdatePreference(ch)

-----------------------------------------------------------------------------
\* However often an event is emitted, and whatever fails or restarts, a message leaves at
\* most once over each channel, and the log does not say less or more than what happened.
SentAsLogged ==
  \A x \in Kinds \X Channels :
    /\ sent[x] <= 1
    /\ log[x] = "SENT" => sent[x] = 1
    /\ log[x] \in {"NONE", "SKIPPED"} => sent[x] = 0
=============================================================================
