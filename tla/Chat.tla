-------------------------------- MODULE Chat --------------------------------
(***************************************************************************)
(* The chat of one match: ChatGateway and ChatService, composed with the   *)
(* listeners that hear of an arrival.  Messages are rows with a unique     *)
(* client id; they are stored, then broadcast to the sockets that are in   *)
(* the match's room.  A screen shows the history it has loaded and what    *)
(* was broadcast to it.                                                    *)
(***************************************************************************)
EXTENDS Communication, Sequences

CONSTANTS
  Screens,         \* the clients, a screen each
  ClientIds,       \* what the clients call their messages
  Page,            \* how many messages a page of the history has (50)
  Sends,           \* slots for messages being handled (a bound on the concurrency)
  MaxCrashes       \* bound on the restarts of the process

ASSUME ChatAssumption == None \notin Screens /\ Page \in Nat \ {0}

VARIABLES
  conversation,    \* the match has one
  rows,            \* the client ids of chat_messages, in the order of createdAt
  quiet,           \* those of the rows that came over REST
  room,            \* the screens whose socket is in the room
  synced,          \* those that loaded the history since they joined
  history,         \* the page that each screen has loaded
  loaded,          \* how many rows there were when a synced screen did
  live,            \* what was broadcast to it since it was opened
  send,            \* the messages being handled
  crashes

screenVars == <<room, synced, history, loaded, live>>

rowVars == <<conversation, rows, quiet>>

chatVars == <<rowVars, screenVars, send, crashes>>

vars == <<communicationVars, chatVars>>

\* A message over the socket, a court arrival over it, or one over REST.
Vias == {"message", "arrival", "rest"}

NoSend == [step |-> "idle", screen |-> None, id |-> None, via |-> "message"]

ChatInit ==
  /\ CommunicationInit
  /\ conversation = FALSE
  /\ rows = <<>> /\ quiet = {}
  /\ room = {} /\ synced = {}
  /\ history = [s \in Screens |-> {}]
  /\ loaded = [s \in Screens |-> 0]
  /\ live = [s \in Screens |-> {}]
  /\ send = [c \in Sends |-> NoSend]
  /\ crashes = 0

Stored == {rows[n] : n \in 1..Len(rows)}

Shown(s) == history[s] \cup live[s]

Then(c, step) == send' = [send EXCEPT ![c].step = step]

-----------------------------------------------------------------------------
\* A screen is opened, and shows nothing yet; the socket, and its room, outlive screens.
OpenScreen(s) ==
  /\ history' = [history EXCEPT ![s] = {}]
  /\ loaded' = [loaded EXCEPT ![s] = 0]
  /\ live' = [live EXCEPT ![s] = {}]
  /\ synced' = synced \ {s}
  /\ UNCHANGED <<communicationVars, rowVars, room, send, crashes>>

\* joinMatchRoom and leaveMatchRoom, or a lost connection.
JoinMatchRoom(s) ==
  /\ room' = room \cup {s}
  /\ UNCHANGED <<communicationVars, rowVars, synced, history, loaded, live, send, crashes>>

LeaveMatchRoom(s) ==
  /\ room' = room \ {s}
  /\ synced' = synced \ {s}
  /\ loaded' = [loaded EXCEPT ![s] = 0]
  /\ UNCHANGED <<communicationVars, rowVars, history, live, send, crashes>>

\* getConversationMessages, which makes the conversation if there is none.  The screen asks
\* for no page, and gets the first, the oldest messages; what was broadcast to it stays.
LoadHistory(s) ==
  /\ conversation' = TRUE
  /\ history' = [history EXCEPT ![s] = {rows[n] : n \in {k \in 1..Len(rows) : k <= Page}}]
  /\ synced' = IF s \in room THEN synced \cup {s} ELSE synced
  /\ loaded' = IF s \in room THEN [loaded EXCEPT ![s] = Len(rows)] ELSE loaded
  /\ UNCHANGED <<communicationVars, rows, quiet, room, live, send, crashes>>

\* sendMessage, or registerCourtArrival, where the server makes up the client id.
BeginSend(c, s, i, via) ==
  /\ send[c] = NoSend
  /\ via # "message" => i \notin Stored /\ \A d \in Sends : send[d].id # i
  /\ send' = [send EXCEPT ![c] = [step |-> "conversation", screen |-> s, id |-> i, via |-> via]]
  /\ UNCHANGED <<communicationVars, rowVars, screenVars, crashes>>

\* getOrCreateConversation, and a message with this client id that is there already.
FindConversation(c) ==
  /\ send[c].step = "conversation"
  /\ Then(c, IF conversation THEN "find" ELSE "createConversation")
  /\ UNCHANGED <<communicationVars, rowVars, screenVars, crashes>>

\* A conversation made meanwhile fails the insert, and with it the call.
CreateConversation(c) ==
  /\ send[c].step = "createConversation" /\ ~ conversation
  /\ conversation' = TRUE
  /\ Then(c, "find")
  /\ UNCHANGED <<communicationVars, rows, quiet, screenVars, crashes>>

\* What follows once the message is stored: registerCourtArrival first emits an event.
AfterStored(c) == IF send[c].via = "message" THEN "broadcast" ELSE "emit"

FindMessage(c) ==
  /\ send[c].step = "find"
  /\ Then(c, IF send[c].id \in Stored THEN AfterStored(c) ELSE "create")
  /\ UNCHANGED <<communicationVars, rowVars, screenVars, crashes>>

\* The insert; if the client id is taken by now, the row that has it is the answer.
CreateMessage(c) ==
  /\ send[c].step = "create"
  /\ \/ /\ send[c].id \in Stored
        /\ UNCHANGED <<rows, quiet>>
     \/ /\ send[c].id \notin Stored
        /\ rows' = Append(rows, send[c].id)
        /\ quiet' = IF send[c].via = "rest" THEN quiet \cup {send[c].id} ELSE quiet
  /\ Then(c, AfterStored(c))
  /\ UNCHANGED <<communicationVars, conversation, screenVars, crashes>>

\* registerCourtArrival emits BOOKING_ARRIVED, with which a call over REST is over.
EmitArrival(c) ==
  /\ send[c].step = "emit"
  /\ Emit("BOOKING_ARRIVED")
  /\ IF send[c].via = "rest" THEN send' = [send EXCEPT ![c] = NoSend] ELSE Then(c, "broadcast")
  /\ UNCHANGED <<rowVars, screenVars, crashes>>

\* Mutant: the sender's socket is left out of the broadcast.
ReachedOthers(c) == room \ {send[c].screen}

\* Those who get a broadcast: all who are in the room now.
Reached(c) == room

\* The gateway broadcasts, and acknowledges: the row of the client id, whoever sent it.
Broadcast(c) ==
  /\ send[c].step = "broadcast"
  /\ live' = [s \in Screens |-> IF s \in Reached(c) THEN live[s] \cup {send[c].id} ELSE live[s]]
  /\ send' = [send EXCEPT ![c] = NoSend]
  /\ UNCHANGED <<communicationVars, rowVars, room, synced, history, loaded, crashes>>

\* The call fails before it has stored anything.
FailSend(c) ==
  /\ send[c].step \in {"conversation", "createConversation", "find", "create"}
  /\ send' = [send EXCEPT ![c] = NoSend]
  /\ UNCHANGED <<communicationVars, rowVars, screenVars, crashes>>

\* The process stops: calls, handlers and sockets are gone.
Crash ==
  /\ crashes < MaxCrashes
  /\ crashes' = crashes + 1
  /\ room' = {} /\ synced' = {}
  /\ loaded' = [s \in Screens |-> 0]
  /\ send' = [c \in Sends |-> NoSend]
  /\ HandlersStop
  /\ UNCHANGED <<rowVars, history, live>>

SendStep(c) ==
  \/ FindConversation(c) \/ CreateConversation(c) \/ FindMessage(c) \/ CreateMessage(c)
  \/ EmitArrival(c) \/ Broadcast(c) \/ FailSend(c)

ScreenStep(s) == OpenScreen(s) \/ JoinMatchRoom(s) \/ LeaveMatchRoom(s) \/ LoadHistory(s)

ChatStep ==
  \/ \E s \in Screens :
       \/ ScreenStep(s)
       \/ \E c \in Sends, i \in ClientIds, via \in Vias : BeginSend(c, s, i, via)
  \/ \E c \in Sends : SendStep(c)
  \/ Crash

ChatNext == ChatStep \/ (CommunicationStep /\ UNCHANGED chatVars)

ChatSpec == ChatInit /\ [][ChatNext]_vars

-----------------------------------------------------------------------------
\* No stored message is still to be broadcast.
RoomQuiet == \A c \in Sends : send[c].step \notin {"emit", "broadcast"}

\* What a screen misses by design of the client: the rows past its page when it loaded the
\* history, and the arrivals that came over REST since.
Missable(s, n) ==
  \/ Page < n /\ n <= loaded[s]
  \/ loaded[s] < n /\ rows[n] \in quiet

\* A screen that joined the room and loaded the history after that misses nothing else: it
\* shows every other message, its own included, as soon as none is on its way to the room.
SyncedLosesNone ==
  RoomQuiet => \A s \in synced : \A n \in 1..Len(rows) : rows[n] \in Shown(s) \/ Missable(s, n)
=============================================================================
