----------------------------- MODULE ChatProofs -----------------------------
(***************************************************************************)
(* Proofs about Communication and Chat for every set of events, channels,  *)
(* screens, client ids and calls at work: what the log says of a message,  *)
(* and what a screen shows.                                                *)
(***************************************************************************)
EXTENDS Chat, TLAPS

Keys == Kinds \X Channels

HandlerStep == {"done", "skip", "insert", "send", "SENT", "SKIPPED", "FAILED"}

Tables ==
  /\ log \in [Keys -> {"NONE", "PENDING", "SENT", "SKIPPED", "FAILED"}]
  /\ sent \in [Keys -> Nat]
  /\ handler \in [Handlers -> [kind : Kinds \cup {None}, at : [Channels -> HandlerStep]]]

\* A handler with something to do over a channel has an event.
HasKind ==
  \A h \in Handlers, ch \in Channels : handler[h].at[ch] # "done" => handler[h].kind \in Kinds

\* The handler's insert let it in: the row of its key is its own.
Sending(h, ch) == handler[h].at[ch] \in {"send", "SENT", "SKIPPED", "FAILED"}

\* What a handler that is sending knows: the row is PENDING, nobody else sends for it, and
\* the message has left or not as far as the handler got.
OwnsRow ==
  \A h \in Handlers, ch \in Channels : Sending(h, ch) =>
    /\ log[Key(h, ch)] = "PENDING"
    /\ \A g \in Handlers \ {h} : Sending(g, ch) => handler[g].kind # handler[h].kind
    /\ handler[h].at[ch] \in {"send", "SKIPPED"} => sent[Key(h, ch)] = 0
    /\ handler[h].at[ch] = "SENT" => sent[Key(h, ch)] = 1

SentInv == Tables /\ HasKind /\ OwnsRow /\ SentAsLogged

LEMMA KeyTyped ==
  ASSUME Tables, HasKind, NEW h \in Handlers, NEW ch \in Channels, handler[h].at[ch] # "done"
  PROVE  Key(h, ch) \in Keys
  BY DEF Key, Keys, HasKind

\* One channel of one handler moves on.
LEMMA GoTyped ==
  ASSUME Tables, NEW h \in Handlers, NEW ch \in Channels, NEW step \in HandlerStep, Go(h, ch, step)
  PROVE  /\ handler' \in [Handlers -> [kind : Kinds \cup {None}, at : [Channels -> HandlerStep]]]
         /\ handler'[h].at[ch] = step
         /\ \A g \in Handlers : handler'[g].kind = handler[g].kind
         /\ \A g \in Handlers, c \in Channels :
              <<g, c>> # <<h, ch>> => handler'[g].at[c] = handler[g].at[c]
<1> DEFINE next == [handler[h] EXCEPT !.at[ch] = step]
<1>1. next \in [kind : Kinds \cup {None}, at : [Channels -> HandlerStep]]
      /\ next.kind = handler[h].kind /\ next.at = [handler[h].at EXCEPT ![ch] = step]
  BY DEF Tables
<1>2. handler' = [handler EXCEPT ![h] = next]
  BY DEF Go, Tables
<1> HIDE DEF next
<1>3. handler'[h] = next /\ \A g \in Handlers \ {h} : handler'[g] = handler[g]
  BY <1>2 DEF Tables
<1>4. QED
  BY <1>1, <1>2, <1>3 DEF Tables

Alone(h, ch) == \A g \in Handlers \ {h} : ~ (Sending(g, ch) /\ handler[g].kind = handler[h].kind)

\* A step of one handler over one channel, which writes at most the row of its key.
LEMMA GoHolds ==
  ASSUME SentInv, NEW h \in Handlers, NEW ch \in Channels, NEW step \in HandlerStep,
         handler[h].at[ch] # "done", Go(h, ch, step),
         log' \in [Keys -> {"NONE", "PENDING", "SENT", "SKIPPED", "FAILED"}],
         sent' \in [Keys -> Nat],
         \A x \in Keys : x # Key(h, ch) => log'[x] = log[x] /\ sent'[x] = sent[x],
         log'[Key(h, ch)] # log[Key(h, ch)] \/ sent'[Key(h, ch)] # sent[Key(h, ch)] => Alone(h, ch),
         step \in {"send", "SENT", "SKIPPED", "FAILED"} =>
           /\ log'[Key(h, ch)] = "PENDING" /\ Alone(h, ch)
           /\ step \in {"send", "SKIPPED"} => sent'[Key(h, ch)] = 0
           /\ step = "SENT" => sent'[Key(h, ch)] = 1,
         sent'[Key(h, ch)] <= 1,
         log'[Key(h, ch)] = "SENT" => sent'[Key(h, ch)] = 1,
         log'[Key(h, ch)] \in {"NONE", "SKIPPED"} => sent'[Key(h, ch)] = 0
  PROVE  SentInv'
<1> DEFINE K == Key(h, ch)
<1>1. K \in Keys /\ K = <<handler[h].kind, ch>>
  BY KeyTyped DEF SentInv, Key
<1>2. /\ handler' \in [Handlers -> [kind : Kinds \cup {None}, at : [Channels -> HandlerStep]]]
      /\ handler'[h].at[ch] = step
      /\ \A g \in Handlers : handler'[g].kind = handler[g].kind
      /\ \A g \in Handlers, c \in Channels :
           <<g, c>> # <<h, ch>> => handler'[g].at[c] = handler[g].at[c]
  BY GoTyped DEF SentInv
<1>3. \A g \in Handlers, c \in Channels : Key(g, c)' = Key(g, c) /\ Key(g, c) = <<handler[g].kind, c>>
  BY <1>2 DEF Key
<1>4. Tables' /\ HasKind'
  BY <1>1, <1>2 DEF SentInv, Tables, HasKind
<1>5. SentAsLogged'
  <2> SUFFICES ASSUME NEW x \in Keys
               PROVE  /\ sent'[x] <= 1
                      /\ log'[x] = "SENT" => sent'[x] = 1
                      /\ log'[x] \in {"NONE", "SKIPPED"} => sent'[x] = 0
    BY DEF SentAsLogged, Keys
  <2>1. CASE x = K
    BY <2>1
  <2>2. CASE x # K
    BY <2>2 DEF SentInv, SentAsLogged, Keys
  <2>3. QED
    BY <2>1, <2>2
<1>6. ASSUME NEW g \in Handlers, NEW c \in Channels, Sending(g, c)'
      PROVE  /\ log'[Key(g, c)] = "PENDING"
             /\ \A f \in Handlers \ {g} : Sending(f, c)' => handler[f].kind # handler[g].kind
             /\ handler'[g].at[c] \in {"send", "SKIPPED"} => sent'[Key(g, c)] = 0
             /\ handler'[g].at[c] = "SENT" => sent'[Key(g, c)] = 1
  <2>1. CASE g = h /\ c = ch
    <3>1. step \in {"send", "SENT", "SKIPPED", "FAILED"}
      BY <1>2, <1>6, <2>1 DEF Sending
    <3>2. \A f \in Handlers \ {g} : Sending(f, c)' => handler[f].kind # handler[g].kind
      BY <1>2, <2>1, <3>1 DEF Alone, Sending
    <3>3. QED
      BY <1>2, <2>1, <3>1, <3>2
  <2>2. CASE <<g, c>> # <<h, ch>>
    <3>1. Sending(g, c) /\ handler'[g].at[c] = handler[g].at[c]
      BY <1>2, <1>6, <2>2 DEF Sending
    <3>2. Key(g, c) \in Keys
      BY <3>1, KeyTyped DEF SentInv, Sending
    <3>3. log'[Key(g, c)] = log[Key(g, c)] /\ sent'[Key(g, c)] = sent[Key(g, c)]
      <4>1. CASE Key(g, c) = K
        <5>1. c = ch /\ g # h /\ handler[g].kind = handler[h].kind
          BY <1>1, <1>3, <2>2, <4>1
        <5>2. ~ Alone(h, ch)
          BY <3>1, <5>1 DEF Alone
        <5>3. QED
          BY <4>1, <5>2
      <4>2. CASE Key(g, c) # K
        BY <3>2, <4>2
      <4>3. QED
        BY <4>1, <4>2
    <3>4. \A f \in Handlers \ {g} : Sending(f, c)' => handler[f].kind # handler[g].kind
      <4> SUFFICES ASSUME NEW f \in Handlers \ {g}, Sending(f, c)', handler[f].kind = handler[g].kind
                   PROVE  FALSE
        OBVIOUS
      <4>1. CASE f = h /\ c = ch
        <5>1. step \in {"send", "SENT", "SKIPPED", "FAILED"}
          BY <1>2, <4>1 DEF Sending
        <5>2. QED
          BY <3>1, <4>1, <5>1 DEF Alone
      <4>2. CASE <<f, c>> # <<h, ch>>
        <5>1. Sending(f, c)
          BY <1>2, <4>2 DEF Sending
        <5>2. QED
          BY <3>1, <5>1 DEF SentInv, OwnsRow
      <4>3. QED
        BY <4>1, <4>2
    <3>5. QED
      BY <3>1, <3>3, <3>4 DEF SentInv, OwnsRow
  <2>3. QED
    BY <2>1, <2>2
<1>7. OwnsRow'
  BY <1>2, <1>3, <1>6 DEF OwnsRow
<1>8. QED
  BY <1>4, <1>5, <1>7 DEF SentInv

\* The handler that is sending for a key is alone with it.
LEMMA SendingAlone ==
  ASSUME SentInv, NEW h \in Handlers, NEW ch \in Channels, Sending(h, ch)
  PROVE  Alone(h, ch)
  BY DEF SentInv, OwnsRow, Alone

\* Nobody sends for a key whose row is not PENDING.
LEMMA NotPendingAlone ==
  ASSUME SentInv, NEW h \in Handlers, NEW ch \in Channels, log[Key(h, ch)] # "PENDING"
  PROVE  Alone(h, ch)
  BY DEF SentInv, OwnsRow, Alone, Key

\* What a handler knows of the row of its key.
LEMMA RowOf ==
  ASSUME SentInv, NEW h \in Handlers, NEW ch \in Channels, handler[h].at[ch] # "done"
  PROVE  LET K == Key(h, ch) IN
         /\ K \in Keys /\ sent[K] \in Nat /\ sent[K] <= 1
         /\ log[K] = "SENT" => sent[K] = 1
         /\ log[K] \in {"NONE", "SKIPPED"} => sent[K] = 0
  BY KeyTyped DEF SentInv, Tables, SentAsLogged, Keys

LEMMA DispatchHolds ==
  ASSUME SentInv, NEW h \in Handlers, NEW ch \in Channels,
         \/ LogSkipped(h, ch) \/ InsertLog(h, ch) \/ Send(h, ch)
         \/ UpdateLog(h, ch) \/ FailChannel(h, ch)
  PROVE  SentInv'
<1> DEFINE K == Key(h, ch)
<1>1. handler[h].at[ch] # "done"
  BY DEF LogSkipped, InsertLog, Send, UpdateLog, FailChannel
<1>2. /\ K \in Keys /\ sent[K] \in Nat /\ sent[K] <= 1
      /\ log[K] = "SENT" => sent[K] = 1
      /\ log[K] \in {"NONE", "SKIPPED"} => sent[K] = 0
  BY <1>1, RowOf
<1>3. /\ log \in [Keys -> {"NONE", "PENDING", "SENT", "SKIPPED", "FAILED"}]
      /\ sent \in [Keys -> Nat]
  BY DEF SentInv, Tables
<1>4. Sending(h, ch) =>
        /\ log[K] = "PENDING" /\ Alone(h, ch)
        /\ handler[h].at[ch] \in {"send", "SKIPPED"} => sent[K] = 0
        /\ handler[h].at[ch] = "SENT" => sent[K] = 1
  BY SendingAlone DEF SentInv, OwnsRow
<1>5. log[K] # "PENDING" => Alone(h, ch)
  BY NotPendingAlone
<1> HIDE DEF K
<1>6. CASE LogSkipped(h, ch)
  <2>1. Go(h, ch, "done") /\ sent' = sent /\ log' = [log EXCEPT ![K] = IF @ = "NONE" THEN "SKIPPED" ELSE @]
    BY <1>6 DEF LogSkipped, K
  <2>2. \A x \in Keys : x # K => log'[x] = log[x]
    BY <1>3, <2>1
  <2>3. log'[K] = IF log[K] = "NONE" THEN "SKIPPED" ELSE log[K]
    BY <1>2, <1>3, <2>1
  <2>4. QED
    BY <1>1, <1>2, <1>3, <1>5, <2>1, <2>2, <2>3, GoHolds DEF HandlerStep, K
<1>7. CASE InsertLog(h, ch)
  <2>1. CASE log[K] = "NONE"
    <3>1. Go(h, ch, "send") /\ sent' = sent /\ log' = [log EXCEPT ![K] = "PENDING"]
      BY <1>7, <2>1 DEF InsertLog, MayDispatch, K
    <3>2. log'[K] = "PENDING" /\ \A x \in Keys : x # K => log'[x] = log[x]
      BY <1>2, <1>3, <3>1
    <3>3. QED
      BY <1>1, <1>2, <1>3, <1>5, <2>1, <3>1, <3>2, GoHolds DEF HandlerStep, K
  <2>2. CASE log[K] # "NONE"
    <3>1. Go(h, ch, "done") /\ sent' = sent /\ log' = log
      BY <1>7, <2>2 DEF InsertLog, MayDispatch, K
    <3>2. QED
      BY <1>1, <1>2, <1>3, <3>1, GoHolds DEF HandlerStep, K
  <2>3. QED
    BY <2>1, <2>2
<1>8. CASE Send(h, ch)
  <2>1. handler[h].at[ch] = "send" /\ log' = log /\ Sending(h, ch)
    BY <1>8 DEF Send, Sending
  <2>2. PICK step \in {"SKIPPED", "FAILED", "SENT"} :
          /\ Go(h, ch, step)
          /\ \/ sent' = sent /\ step # "SENT"
             \/ sent' = [sent EXCEPT ![K] = @ + 1] /\ step # "SKIPPED"
    BY <1>8 DEF Send, K
  <2>3. CASE sent' = sent /\ step # "SENT"
    BY <1>1, <1>2, <1>3, <1>4, <2>1, <2>2, <2>3, GoHolds DEF HandlerStep, K
  <2>4. CASE sent' = [sent EXCEPT ![K] = @ + 1] /\ step # "SKIPPED"
    <3>1. sent'[K] = 1 /\ \A x \in Keys : x # K => sent'[x] = sent[x]
      BY <1>2, <1>3, <1>4, <2>1, <2>4
    <3>2. sent' \in [Keys -> Nat]
      BY <1>2, <1>3, <2>4
    <3>3. QED
      BY <1>1, <1>2, <1>3, <1>4, <2>1, <2>2, <2>4, <3>1, <3>2, GoHolds DEF HandlerStep, K
  <2>5. QED
    BY <2>2, <2>3, <2>4
<1>9. CASE UpdateLog(h, ch)
  <2>1. /\ handler[h].at[ch] \in {"SENT", "SKIPPED", "FAILED"} /\ Sending(h, ch)
        /\ Go(h, ch, "done") /\ sent' = sent /\ log' = [log EXCEPT ![K] = handler[h].at[ch]]
    BY <1>9 DEF UpdateLog, Sending, K
  <2>2. log'[K] = handler[h].at[ch] /\ \A x \in Keys : x # K => log'[x] = log[x]
    BY <1>2, <1>3, <2>1
  <2>3. log' \in [Keys -> {"NONE", "PENDING", "SENT", "SKIPPED", "FAILED"}]
    BY <1>2, <1>3, <2>1
  <2>4. QED
    BY <1>1, <1>2, <1>3, <1>4, <2>1, <2>2, <2>3, GoHolds DEF HandlerStep, K
<1>10. CASE FailChannel(h, ch)
  <2>1. PICK step \in {"FAILED", "done"} :
          /\ Go(h, ch, step) /\ sent' = sent /\ log' = log
          /\ step = "FAILED" => Sending(h, ch)
    BY <1>10 DEF FailChannel, Sending
  <2>2. QED
    BY <1>1, <1>2, <1>3, <1>4, <2>1, GoHolds DEF HandlerStep, K
<1>11. QED
  BY <1>6, <1>7, <1>8, <1>9, <1>10

\* A handler that starts, or ends, sends nothing.
LEMMA StartHolds ==
  ASSUME SentInv, NEW h \in Handlers,
         NEW next \in [kind : Kinds \cup {None}, at : [Channels -> {"done", "skip", "insert"}]],
         \A ch \in Channels : next.at[ch] # "done" => next.kind \in Kinds,
         handler' = [handler EXCEPT ![h] = next],
         UNCHANGED <<log, sent>>
  PROVE  SentInv'
<1>1. handler'[h] = next /\ \A g \in Handlers \ {h} : handler'[g] = handler[g]
  BY DEF SentInv, Tables
<1>2. \A g \in Handlers, c \in Channels : Sending(g, c)' => g # h /\ Sending(g, c)
  BY <1>1 DEF Sending
<1>3. Tables' /\ HasKind'
  BY <1>1 DEF SentInv, Tables, HasKind, HandlerStep
<1>4. OwnsRow'
  BY <1>1, <1>2 DEF SentInv, OwnsRow, Key
<1>5. QED
  BY <1>3, <1>4 DEF SentInv, SentAsLogged

LEMMA HandlersHold ==
  ASSUME SentInv, CommunicationStep
  PROVE  SentInv'
<1>1. ASSUME UNCHANGED <<log, sent, handler>> PROVE SentInv'
  BY <1>1 DEF SentInv, Tables, HasKind, OwnsRow, SentAsLogged, Sending, Key
<1>2. ASSUME NEW h \in Handlers, NEW k \in Kinds, HearCommunication(h, k) PROVE SentInv'
  <2> DEFINE next == [Idle EXCEPT !.kind = k,
                        !.at = [ch \in Channels |-> IF ch \in muted THEN "skip" ELSE "insert"]]
  <2>1. /\ next \in [kind : Kinds \cup {None}, at : [Channels -> {"done", "skip", "insert"}]]
        /\ next.kind = k
    BY DEF Idle
  <2>2. handler' = [handler EXCEPT ![h] = next] /\ UNCHANGED <<log, sent>>
    BY <1>2 DEF HearCommunication
  <2> HIDE DEF next
  <2>3. QED
    BY <2>1, <2>2, StartHolds
<1>3. ASSUME NEW h \in Handlers, EndHandler(h) PROVE SentInv'
  <2>1. Idle \in [kind : Kinds \cup {None}, at : [Channels -> {"done", "skip", "insert"}]]
        /\ \A ch \in Channels : Idle.at[ch] = "done"
    BY DEF Idle
  <2>2. QED
    BY <1>3, <2>1, StartHolds DEF EndHandler
<1>4. QED
  BY <1>1, <1>2, <1>3, DispatchHolds
     DEF CommunicationStep, DispatchStep, Emit, HearNotification, MarkAsRead, SetDevice,
         MarkAllAsRead, UpdatePreference

LEMMA HandlersStopHolds ==
  ASSUME SentInv, HandlersStop
  PROVE  SentInv'
<1>1. \A h \in Handlers : handler'[h] = Idle /\ \A ch \in Channels : Idle.at[ch] = "done"
  BY DEF HandlersStop, Idle
<1>2. Idle \in [kind : Kinds \cup {None}, at : [Channels -> HandlerStep]]
  BY DEF Idle, HandlerStep
<1>3. Tables' /\ HasKind'
  BY <1>1, <1>2 DEF HandlersStop, SentInv, Tables, HasKind
<1>4. OwnsRow' /\ SentAsLogged'
  BY <1>1 DEF HandlersStop, SentInv, OwnsRow, SentAsLogged, Sending
<1>5. QED
  BY <1>3, <1>4 DEF SentInv

LEMMA InitHolds == ChatInit => SentInv
<1> SUFFICES ASSUME ChatInit PROVE SentInv
  OBVIOUS
<1>1. \A h \in Handlers : handler[h] = Idle /\ \A ch \in Channels : Idle.at[ch] = "done"
  BY DEF ChatInit, CommunicationInit, Idle
<1>2. Idle \in [kind : Kinds \cup {None}, at : [Channels -> HandlerStep]]
  BY DEF Idle, HandlerStep
<1>3. Tables /\ HasKind
  BY <1>1, <1>2 DEF ChatInit, CommunicationInit, Tables, HasKind, Keys
<1>4. OwnsRow /\ SentAsLogged
  BY <1>1 DEF ChatInit, CommunicationInit, OwnsRow, SentAsLogged, Sending
<1>5. QED
  BY <1>3, <1>4 DEF SentInv

-----------------------------------------------------------------------------
\* However often an event is emitted, and whatever fails or restarts, a message leaves at
\* most once over each channel, and the log says what happened (CommunicationService).
THEOREM SentAsLoggedHolds == ChatSpec => []SentAsLogged
<1>1. ASSUME SentInv, [ChatNext]_vars PROVE SentInv'
  <2>1. ASSUME UNCHANGED communicationVars PROVE SentInv'
    BY <1>1, <2>1 DEF communicationVars, SentInv, Tables, HasKind, OwnsRow, SentAsLogged, Sending, Key
  <2>2. CASE CommunicationStep
    BY <1>1, <2>2, HandlersHold
  <2>3. CASE Crash
    BY <1>1, <2>3, HandlersStopHolds DEF Crash
  <2>4. ASSUME NEW c \in Sends, EmitArrival(c) PROVE SentInv'
    BY <1>1, <2>4
       DEF EmitArrival, Emit, SentInv, Tables, HasKind, OwnsRow, SentAsLogged, Sending, Key
  <2>5. CASE ChatStep
    BY <1>1, <2>1, <2>3, <2>4, <2>5
       DEF ChatStep, ScreenStep, OpenScreen, JoinMatchRoom, LeaveMatchRoom, LoadHistory, BeginSend,
           SendStep, FindConversation, CreateConversation, FindMessage, CreateMessage, Broadcast, FailSend
  <2>6. QED
    BY <1>1, <2>1, <2>2, <2>5 DEF ChatNext, vars
<1>2. SentInv => SentAsLogged
  BY DEF SentInv
<1>3. QED
  BY <1>1, <1>2, InitHolds, PTL DEF ChatSpec

-----------------------------------------------------------------------------
\* What a screen shows.

SendStepName == {"idle", "conversation", "createConversation", "find", "create", "emit", "broadcast"}

SendRecord ==
  [step : SendStepName, screen : Screens \cup {None}, id : ClientIds \cup {None}, via : Vias]

\* The message of a call that has stored it.
HasStored(c) == send[c].step \in {"emit", "broadcast"}

\* A row that will reach the room.
OnItsWay(i) == \E c \in Sends : HasStored(c) /\ send[c].via # "rest" /\ send[c].id = i

SyncTyped ==
  /\ rows \in Seq(ClientIds)
  /\ history \in [Screens -> SUBSET ClientIds]
  /\ live \in [Screens -> SUBSET ClientIds]
  /\ loaded \in [Screens -> Nat]
  /\ send \in [Sends -> SendRecord]
  /\ synced \subseteq room /\ room \subseteq Screens
  /\ \A s \in Screens : loaded[s] <= Len(rows)

CallsStored ==
  \A c \in Sends :
    /\ send[c].step # "idle" => send[c].id \in ClientIds /\ send[c].screen \in Screens
    /\ HasStored(c) => send[c].id \in Stored
    /\ send[c].step = "broadcast" => send[c].via # "rest"

\* A row that a screen does not show, and might have, will reach the room.
Awaited ==
  \A s \in synced : \A n \in 1..Len(rows) :
    rows[n] \in Shown(s) \/ Missable(s, n) \/ OnItsWay(rows[n])

SyncInv == SyncTyped /\ CallsStored /\ Awaited

\* Nothing that a screen misses or awaits depends on a call before it has stored its message.
LEMMA SameRows ==
  ASSUME SyncInv, UNCHANGED <<rows, quiet, history, live, loaded, room, synced>>,
         send' \in [Sends -> SendRecord], CallsStored',
         \A i : OnItsWay(i) => OnItsWay(i)'
  PROVE  SyncInv'
<1>1. SyncTyped'
  BY DEF SyncInv, SyncTyped
<1>2. Awaited'
  BY DEF SyncInv, Awaited, Shown, Missable
<1>3. QED
  BY <1>1, <1>2 DEF SyncInv

\* A call moves on before it has stored its message, or after it has.
LEMMA SendMoves ==
  ASSUME SyncInv, NEW c \in Sends, NEW next \in SendRecord, send' = [send EXCEPT ![c] = next],
         next.step # "idle" => next.id \in ClientIds /\ next.screen \in Screens,
         next.step \in {"emit", "broadcast"} => next.id \in Stored,
         next.step = "broadcast" => next.via # "rest",
         HasStored(c) /\ send[c].via # "rest" =>
           next.step \in {"emit", "broadcast"} /\ next.via # "rest" /\ next.id = send[c].id,
         UNCHANGED <<rows, quiet, history, live, loaded, room, synced>>
  PROVE  SyncInv'
<1>1. send'[c] = next /\ \A d \in Sends \ {c} : send'[d] = send[d]
  BY DEF SyncInv, SyncTyped
<1>2. Stored' = Stored
  BY DEF Stored
<1>3. \A i : OnItsWay(i) => OnItsWay(i)'
  BY <1>1 DEF OnItsWay, HasStored
<1>4. CallsStored'
  BY <1>1, <1>2 DEF SyncInv, CallsStored, HasStored
<1>5. send' \in [Sends -> SendRecord]
  BY DEF SyncInv, SyncTyped
<1>6. QED
  BY <1>3, <1>4, <1>5, SameRows

LEMMA ThenMoves ==
  ASSUME SyncInv, NEW c \in Sends, NEW step \in SendStepName \ {"idle"}, Then(c, step),
         send[c].step # "idle",
         step \in {"emit", "broadcast"} => send[c].id \in Stored,
         step = "broadcast" => send[c].via # "rest",
         HasStored(c) => step \in {"emit", "broadcast"},
         UNCHANGED <<rows, quiet, history, live, loaded, room, synced>>
  PROVE  SyncInv'
<1> DEFINE next == [send[c] EXCEPT !.step = step]
<1>1. /\ next \in SendRecord /\ next.step = step
      /\ next.id = send[c].id /\ next.screen = send[c].screen /\ next.via = send[c].via
  BY DEF SyncInv, SyncTyped, SendRecord
<1>2. send' = [send EXCEPT ![c] = next]
  BY DEF Then
<1>3. next.step # "idle" => next.id \in ClientIds /\ next.screen \in Screens
  BY <1>1 DEF SyncInv, CallsStored
<1> HIDE DEF next
<1>4. QED
  BY <1>1, <1>2, <1>3, SendMoves

LEMMA IdleTyped == NoSend \in SendRecord /\ NoSend.step = "idle" /\ NoSend.via # "rest"
  BY DEF NoSend, SendRecord, SendStepName, Vias

\* The call of a message over REST ends without a broadcast; no other stored message does.
LEMMA SendEnds ==
  ASSUME SyncInv, NEW c \in Sends, send' = [send EXCEPT ![c] = NoSend],
         HasStored(c) => send[c].via = "rest",
         UNCHANGED <<rows, quiet, history, live, loaded, room, synced>>
  PROVE  SyncInv'
  BY IdleTyped, SendMoves

LEMMA ScreenHolds ==
  ASSUME SyncInv, NEW s \in Screens, ScreenStep(s)
  PROVE  SyncInv'
<1>1. /\ UNCHANGED <<rows, quiet, send>> /\ synced' \subseteq synced \cup {s}
      /\ \A t \in Screens \ {s} :
           history'[t] = history[t] /\ live'[t] = live[t] /\ loaded'[t] = loaded[t]
  BY DEF SyncInv, SyncTyped, ScreenStep, OpenScreen, JoinMatchRoom, LeaveMatchRoom, LoadHistory,
         rowVars
<1>2. {rows[n] : n \in {k \in 1..Len(rows) : k <= Page}} \subseteq ClientIds /\ Len(rows) \in Nat
  BY DEF SyncInv, SyncTyped
<1>3. SyncTyped'
  <2>1. /\ history' \in [Screens -> SUBSET ClientIds]
        /\ live' \in [Screens -> SUBSET ClientIds]
        /\ synced' \subseteq room' /\ room' \subseteq Screens
    BY <1>2 DEF SyncInv, SyncTyped, ScreenStep, OpenScreen, JoinMatchRoom, LeaveMatchRoom, LoadHistory
  <2>2. loaded' = loaded \/ \E k \in {0, Len(rows)} : loaded' = [loaded EXCEPT ![s] = k]
    BY DEF ScreenStep, OpenScreen, JoinMatchRoom, LeaveMatchRoom, LoadHistory
  <2>3. loaded' \in [Screens -> Nat] /\ \A t \in Screens : loaded'[t] <= Len(rows)
    BY <1>2, <2>2 DEF SyncInv, SyncTyped
  <2>4. QED
    BY <1>1, <2>1, <2>3 DEF SyncInv, SyncTyped
<1>4. CallsStored'
  BY <1>1 DEF SyncInv, CallsStored, HasStored, Stored
<1>5. ASSUME NEW t \in synced', NEW n \in 1..Len(rows)
      PROVE  rows[n] \in Shown(t)' \/ Missable(t, n)' \/ OnItsWay(rows[n])
  <2>1. CASE t # s
    BY <1>1, <1>5, <2>1 DEF SyncInv, SyncTyped, Awaited, Shown, Missable
  <2>2. CASE t = s /\ LoadHistory(s)
    <3>1. s \in synced => s \in room
      BY DEF SyncInv, SyncTyped
    <3>2. s \in room
      BY <1>5, <2>2, <3>1 DEF LoadHistory
    <3>3. loaded'[s] = Len(rows) /\ history'[s] = {rows[k] : k \in {k \in 1..Len(rows) : k <= Page}}
      BY <2>2, <3>2 DEF LoadHistory, SyncInv, SyncTyped
    <3>4. CASE n <= Page
      BY <2>2, <3>3, <3>4 DEF Shown
    <3>5. CASE ~ (n <= Page)
      BY <1>5, <2>2, <3>3, <3>5, <1>2, ChatAssumption DEF Missable
    <3>6. QED
      BY <3>4, <3>5
  <2>3. CASE t = s /\ ~ LoadHistory(s)
    <3>1. t \in synced /\ UNCHANGED <<history, live, loaded>>
      BY <1>5, <2>3 DEF ScreenStep, OpenScreen, JoinMatchRoom, LeaveMatchRoom
    <3>2. QED
      BY <1>1, <3>1 DEF SyncInv, Awaited, Shown, Missable
  <2>4. QED
    BY <2>1, <2>2, <2>3
<1>6. Awaited'
  BY <1>1, <1>5 DEF Awaited, OnItsWay, HasStored
<1>7. QED
  BY <1>3, <1>4, <1>6 DEF SyncInv

\* The row that a call has stored is new, or some other call's; the room hears of it unless
\* it is over REST.
LEMMA StoreHolds ==
  ASSUME SyncInv, NEW c \in Sends, CreateMessage(c)
  PROVE  SyncInv'
<1> DEFINE step == AfterStored(c)
           next == [send[c] EXCEPT !.step = step]
           i == send[c].id
<1>1. send[c].step = "create" /\ i \in ClientIds /\ send[c].screen \in Screens
  BY DEF CreateMessage, SyncInv, CallsStored
<1>2. next \in SendRecord /\ next.step \in {"emit", "broadcast"} /\ next.id = i
      /\ next.screen = send[c].screen /\ next.via = send[c].via
      /\ (next.step = "broadcast" => next.via # "rest")
  BY DEF SyncInv, SyncTyped, SendRecord, SendStepName, AfterStored
<1>3. send' = [send EXCEPT ![c] = next] /\ UNCHANGED <<room, synced, history, live, loaded>>
  BY DEF CreateMessage, Then, screenVars
<1>4. ~ HasStored(c)
  BY <1>1 DEF HasStored
<1> HIDE DEF next, step
<1>5. CASE i \in Stored
  <2>1. UNCHANGED <<rows, quiet>>
    BY <1>5 DEF CreateMessage
  <2>2. QED
    BY <1>1, <1>2, <1>3, <1>4, <1>5, <2>1, SendMoves
<1>6. CASE i \notin Stored
  <2>1. rows' = Append(rows, i) /\ quiet' = IF send[c].via = "rest" THEN quiet \cup {i} ELSE quiet
    BY <1>6 DEF CreateMessage
  <2>2. /\ rows' \in Seq(ClientIds) /\ Len(rows') = Len(rows) + 1 /\ rows'[Len(rows) + 1] = i
        /\ \A n \in 1..Len(rows) : rows'[n] = rows[n]
        /\ Len(rows) \in Nat
    BY <1>1, <2>1 DEF SyncInv, SyncTyped
  <2>3. Stored \subseteq Stored' /\ i \in Stored'
    BY <2>2 DEF Stored
  <2>4. send'[c] = next /\ \A d \in Sends \ {c} : send'[d] = send[d]
    BY <1>3 DEF SyncInv, SyncTyped
  <2>5. SyncTyped'
    BY <1>2, <1>3, <2>2 DEF SyncInv, SyncTyped
  <2>6. CallsStored'
    BY <1>1, <1>2, <2>3, <2>4 DEF SyncInv, CallsStored, HasStored
  <2>7. \A j : OnItsWay(j) => OnItsWay(j)'
    BY <1>4, <2>4 DEF OnItsWay, HasStored
  <2>8. send[c].via # "rest" => \A j : j = i => OnItsWay(j)'
    BY <1>2, <2>4 DEF OnItsWay, HasStored
  <2>9. ASSUME NEW s \in synced, NEW n \in 1..Len(rows')
        PROVE  rows'[n] \in Shown(s)' \/ Missable(s, n)' \/ OnItsWay(rows[n])'
    <3>1. Shown(s)' = Shown(s) /\ loaded'[s] = loaded[s]
      BY <1>3 DEF Shown
    <3>2. CASE n \in 1..Len(rows)
      <4>1. rows'[n] = rows[n] /\ quiet \subseteq quiet'
        BY <2>1, <2>2, <3>2
      <4>2. Missable(s, n) => Missable(s, n)'
        BY <3>1, <4>1 DEF Missable
      <4>3. rows[n] \in Shown(s) \/ Missable(s, n) \/ OnItsWay(rows[n])
        BY <3>2 DEF SyncInv, Awaited
      <4>4. QED
        BY <2>7, <3>1, <4>1, <4>2, <4>3
    <3>3. CASE n = Len(rows) + 1
      <4>1. rows'[n] = i
        BY <2>2, <3>3
      <4>2. loaded[s] \in Nat /\ n \in Nat
        BY <2>2, <3>3 DEF SyncInv, SyncTyped
      <4>3. loaded[s] <= Len(rows)
        BY DEF SyncInv, SyncTyped
      <4>4. loaded[s] < n
        BY <2>2, <3>3, <4>2, <4>3
      <4>5. CASE send[c].via = "rest"
        BY <2>1, <3>1, <4>1, <4>4, <4>5 DEF Missable
      <4>6. QED
        BY <2>8, <4>1, <4>5
    <3>4. QED
      BY <2>2, <2>9, <3>2, <3>3
  <2>10. Awaited'
    BY <1>3, <2>9 DEF Awaited
  <2>11. QED
    BY <2>5, <2>6, <2>10 DEF SyncInv
<1>7. QED
  BY <1>5, <1>6

LEMMA BroadcastHolds ==
  ASSUME SyncInv, NEW c \in Sends, Broadcast(c)
  PROVE  SyncInv'
<1> DEFINE i == send[c].id
<1>1. send[c].step = "broadcast" /\ i \in ClientIds
  BY DEF Broadcast, SyncInv, CallsStored
<1>2. send' = [send EXCEPT ![c] = NoSend]
      /\ UNCHANGED <<rows, quiet, room, synced, history, loaded>>
  BY DEF Broadcast, rowVars
<1>3. send'[c] = NoSend /\ \A d \in Sends \ {c} : send'[d] = send[d]
  BY <1>2 DEF SyncInv, SyncTyped
<1>4. /\ live' \in [Screens -> SUBSET ClientIds]
      /\ \A s \in Screens : live[s] \subseteq live'[s]
      /\ \A s \in room : i \in live'[s]
  BY <1>1 DEF Broadcast, Reached, SyncInv, SyncTyped
<1>5. \A j : OnItsWay(j) /\ j # i => OnItsWay(j)'
  BY <1>3 DEF OnItsWay, HasStored
<1>6. SyncTyped'
  BY <1>2, <1>4, IdleTyped DEF SyncInv, SyncTyped
<1>7. CallsStored'
  BY <1>2, <1>3, IdleTyped DEF SyncInv, CallsStored, HasStored, Stored
<1>8. ASSUME NEW s \in synced, NEW n \in 1..Len(rows)
      PROVE  rows[n] \in Shown(s)' \/ Missable(s, n)' \/ OnItsWay(rows[n])'
  <2>1. s \in room /\ s \in Screens
    BY DEF SyncInv, SyncTyped
  <2>2. Shown(s) \cup {i} \subseteq Shown(s)'
    BY <1>2, <1>4, <2>1 DEF Shown
  <2>3. Missable(s, n) => Missable(s, n)'
    BY <1>2 DEF Missable
  <2>4. rows[n] \in Shown(s) \/ Missable(s, n) \/ OnItsWay(rows[n])
    BY DEF SyncInv, Awaited
  <2>5. QED
    BY <1>2, <1>5, <2>2, <2>3, <2>4
<1>9. Awaited'
  BY <1>2, <1>8 DEF Awaited
<1>10. QED
  BY <1>6, <1>7, <1>9 DEF SyncInv

\* A screen that joined the room and loaded the history after that shows every message but
\* those past its page and those over REST since (ChatGateway, ChatService, MatchChatScreen).
THEOREM SyncedLosesNoneHolds == ChatSpec => []SyncedLosesNone
<1>1. ChatInit => SyncInv
  BY IdleTyped DEF ChatInit, SyncInv, SyncTyped, CallsStored, Awaited, HasStored
<1>2. ASSUME SyncInv, [ChatNext]_vars PROVE SyncInv'
  <2>1. CASE UNCHANGED chatVars
    <3>1. UNCHANGED <<rows, quiet, history, live, loaded, room, synced, send>>
      BY <2>1 DEF chatVars, rowVars, screenVars
    <3>2. CallsStored' /\ \A i : OnItsWay(i) => OnItsWay(i)'
      BY <1>2, <3>1 DEF SyncInv, CallsStored, HasStored, Stored, OnItsWay
    <3>3. QED
      BY <1>2, <3>1, <3>2, SameRows DEF SyncInv, SyncTyped
  <2>2. ASSUME NEW s \in Screens, NEW c \in Sends, NEW i \in ClientIds, NEW via \in Vias,
               BeginSend(c, s, i, via)
        PROVE  SyncInv'
    <3> DEFINE next == [step |-> "conversation", screen |-> s, id |-> i, via |-> via]
    <3>1. next \in SendRecord /\ next.step = "conversation" /\ next.id = i /\ next.screen = s
      BY DEF SendRecord, SendStepName
    <3>2. /\ send' = [send EXCEPT ![c] = next] /\ send[c].step = "idle"
          /\ UNCHANGED <<rows, quiet, history, live, loaded, room, synced>>
      BY <2>2 DEF BeginSend, NoSend, rowVars, screenVars
    <3> HIDE DEF next
    <3>3. QED
      BY <1>2, <3>1, <3>2, SendMoves DEF HasStored
  <2>3. ASSUME NEW c \in Sends, FindConversation(c) \/ CreateConversation(c) \/ FindMessage(c)
        PROVE  SyncInv'
    BY <1>2, <2>3, ThenMoves
       DEF FindConversation, CreateConversation, FindMessage, AfterStored, SendStepName, HasStored,
           rowVars, screenVars
  <2>4. ASSUME NEW c \in Sends, EmitArrival(c) PROVE SyncInv'
    <3>1. send[c].step = "emit" /\ UNCHANGED <<rows, quiet, history, live, loaded, room, synced>>
      BY <2>4 DEF EmitArrival, rowVars, screenVars
    <3>2. CASE send[c].via = "rest"
      BY <1>2, <2>4, <3>1, <3>2, SendEnds DEF EmitArrival
    <3>3. CASE send[c].via # "rest"
      <4>1. Then(c, "broadcast") /\ send[c].id \in Stored
        BY <1>2, <2>4, <3>1, <3>3 DEF EmitArrival, SyncInv, CallsStored, HasStored
      <4>2. QED
        BY <1>2, <3>1, <3>3, <4>1, ThenMoves DEF SendStepName
    <3>4. QED
      BY <3>2, <3>3
  <2>5. ASSUME NEW c \in Sends, FailSend(c) PROVE SyncInv'
    BY <1>2, <2>5, SendEnds DEF FailSend, HasStored, rowVars, screenVars
  <2>6. CASE Crash
    <3>1. /\ \A c \in Sends : send'[c] = NoSend
          /\ synced' = {} /\ room' = {}
          /\ loaded' = [s \in Screens |-> 0] /\ UNCHANGED <<rows, history, live>>
          /\ send' \in [Sends -> SendRecord]
      BY <2>6, IdleTyped DEF Crash, rowVars
    <3>2. SyncTyped'
      <4>1. Len(rows) \in Nat /\ rows' = rows
        BY <1>2, <3>1 DEF SyncInv, SyncTyped
      <4>2. loaded' \in [Screens -> Nat] /\ \A s \in Screens : loaded'[s] <= Len(rows)
        BY <3>1, <4>1
      <4>3. QED
        BY <1>2, <3>1, <4>1, <4>2 DEF SyncInv, SyncTyped
    <3>3. CallsStored' /\ Awaited'
      BY <3>1, IdleTyped DEF CallsStored, Awaited, HasStored
    <3>4. QED
      BY <3>2, <3>3 DEF SyncInv
  <2>7. CASE ChatStep
    BY <1>2, <2>2, <2>3, <2>4, <2>5, <2>6, <2>7, ScreenHolds, StoreHolds, BroadcastHolds
       DEF ChatStep, SendStep
  <2>8. QED
    BY <1>2, <2>1, <2>7 DEF ChatNext, vars
<1>3. SyncInv => SyncedLosesNone
  BY DEF SyncInv, SyncedLosesNone, Awaited, RoomQuiet, OnItsWay, HasStored
<1>4. QED
  BY <1>1, <1>2, <1>3, PTL DEF ChatSpec
=============================================================================
