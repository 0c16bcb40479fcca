------------------------------ MODULE Sessions ------------------------------
(***************************************************************************)
(* Sign-in and the rotation of refresh tokens: AuthService and, on the     *)
(* other side, the client's AuthRepositoryImpl and AuthInterceptor with    *)
(* their token storage.  What the client does at one time, an instance's   *)
(* requests or the tabs of the web build, shares the storage; each call    *)
(* refreshes on its own.                                                   *)
(*                                                                         *)
(* A token is its payload: two tokens signed for one session in the same   *)
(* second are the same string, and tokenHash is unique.  Passwords,        *)
(* signatures and hashing are left out.                                    *)
(***************************************************************************)
EXTENDS Integers, FiniteSets

CONSTANTS
  None,
  Apps,            \* what the client does at one time
  SessionIds,
  MaxClock,        \* bound on the seconds that pass
  Lifetime         \* of a session

Token == [session : SessionIds, second : 0..MaxClock]

ASSUME SessionsAssumption ==
  /\ None \notin Apps \cup SessionIds \cup Token
  /\ MaxClock \in Nat /\ Lifetime \in Nat

VARIABLES
  clock,
  registered,      \* the user's row exists
  session,         \* sessions
  tokens,          \* refresh_tokens: the rows that exist
  used,            \* those with isUsed
  revoked,         \* those with isRevoked
  call,            \* what each of them is doing, and the server for it
  stored,          \* the refresh token in the client's storage
  left             \* history: what is stored was left there by a write that failed or a
                   \* client that stopped, or put back after it was exchanged

serverVars == <<registered, session, tokens, used, revoked>>

vars == <<clock, serverVars, call, stored, left>>

NoSession == [active |-> FALSE, expires |-> -1]

Session == [active : BOOLEAN, expires : 0..(MaxClock + Lifetime)]

Step ==
  {"register", "login", "firstToken", "signedIn", "sent", "find", "mark", "issue",
   "answered", "refused", "logout"}

\* "gone": the client has given the call up, and the server still works on it.
Kind == {"signIn", "request", "logout", "gone"}

Free ==
  [step |-> "free", kind |-> "request", clears |-> FALSE, session |-> None, token |-> None,
   signed |-> None, revoking |-> {}]

Call ==
  [step : Step, kind : Kind,
   clears : BOOLEAN,                    \* an error of the request clears the storage
   session : SessionIds \cup {None}, token : Token \cup {None},
   signed : Token \cup {None},          \* what a sign-in was answered
   revoking : SUBSET Token]

SessionsInit ==
  /\ clock = 0
  /\ registered = FALSE
  /\ session = [s \in SessionIds |-> NoSession]
  /\ tokens = {} /\ used = {} /\ revoked = {}
  /\ call = [a \in Apps |-> Free]
  /\ stored = None
  /\ left = FALSE

Begin(a, step, kind, clears) ==
  /\ call[a] = Free
  /\ call' = [call EXCEPT ![a] = [Free EXCEPT !.step = step, !.kind = kind, !.clears = clears]]

Then(a, step) == call' = [call EXCEPT ![a].step = step]

Ends(a) == call' = [call EXCEPT ![a] = Free]

Gone(a) == call[a].kind = "gone"

Refuse(a) ==
  \/ call' = [call EXCEPT ![a] = [Free EXCEPT !.step = "refused"]]
  \/ (Gone(a) /\ Ends(a))

Answer(a, step, t) == call' = [call EXCEPT ![a].step = step, ![a].token = t]

Signed(s) == [session |-> s, second |-> clock]

-----------------------------------------------------------------------------
\* register: the email is free; the insert is refused if it no longer is.  It logs in.
ReadRegister(a) ==
  /\ ~ registered
  /\ Begin(a, "register", "signIn", FALSE)
  /\ UNCHANGED <<clock, serverVars, stored, left>>

CommitRegister(a) ==
  /\ call[a].step = "register"
  /\ registered' = TRUE
  /\ IF registered THEN Ends(a) ELSE Then(a, "login")
  /\ UNCHANGED <<clock, session, tokens, used, revoked, stored, left>>

Login(a) ==
  /\ registered
  /\ Begin(a, "login", "signIn", FALSE)
  /\ UNCHANGED <<clock, serverVars, stored, left>>

\* login makes a session and, outside any transaction, its first token.
CreateSession(a, s) ==
  /\ call[a].step = "login"
  /\ session[s] = NoSession
  /\ session' = [session EXCEPT ![s] = [active |-> TRUE, expires |-> clock + Lifetime]]
  /\ call' = [call EXCEPT ![a].step = "firstToken", ![a].session = s]
  /\ UNCHANGED <<clock, registered, tokens, used, revoked, stored, left>>

IssueFirst(a) ==
  LET t == Signed(call[a].session) IN
  /\ call[a].step = "firstToken"
  /\ tokens' = tokens \cup {t}
  /\ Answer(a, "signedIn", t)
  /\ UNCHANGED <<clock, registered, session, used, revoked, stored, left>>

-----------------------------------------------------------------------------
\* refresh finds the token.  When it is used, revoked or of an ended session the writes
\* that end the session are part of the transaction that the exception then undoes.
FindToken(a) ==
  LET t == call[a].token
      s == session[t.session]
  IN  /\ call[a].step = "find"
      /\ IF t \in tokens \ (used \cup revoked) /\ s.active /\ s.expires >= clock
         THEN Then(a, "mark")
         ELSE Refuse(a)
      /\ UNCHANGED <<clock, serverVars, stored, left>>

\* Mutant: the update does not test isUsed and isRevoked again.
MayMarkAny(t) == TRUE

MayMark(t) == t \notin used \cup revoked

Locked(t) == \E b \in Apps : call[b].step = "issue" /\ call[b].token = t

\* The conditional update waits for the row and tests isUsed and isRevoked again.
MarkUsed(a) ==
  LET t == call[a].token IN
  /\ call[a].step = "mark"
  /\ ~ Locked(t)
  /\ IF MayMark(t) THEN Then(a, "issue") ELSE Refuse(a)
  /\ UNCHANGED <<clock, serverVars, stored, left>>

\* generateTokens inserts the next token and the transaction commits; a token signed in
\* the same second is there already and everything is undone.
IssueNext(a) ==
  LET t == Signed(call[a].session) IN
  /\ call[a].step = "issue"
  /\ IF t \in tokens
     THEN Refuse(a) /\ UNCHANGED <<tokens, used>>
     ELSE /\ tokens' = tokens \cup {t}
          /\ used' = used \cup {call[a].token}
          /\ Answer(a, "answered", t)
  /\ UNCHANGED <<clock, registered, session, revoked, stored, left>>

-----------------------------------------------------------------------------
\* logout gets past the guard with the access token of any session there has been, which
\* is stored apart from the refresh token; its second statement sees the tokens there are
\* when it starts ...
BeginLogout(a, s) ==
  /\ call[a].step = "sent" /\ call[a].kind = "logout"
  /\ \E t \in tokens : t.session = s
  /\ call' = [call EXCEPT ![a].step = "logout", ![a].session = s,
                         ![a].revoking = {t \in tokens : t.session = s}]
  /\ UNCHANGED <<clock, serverVars, stored, left>>

\* Mutant: the tokens are revoked, and the session stays active.
CommitLogoutOfTokens(a) ==
  /\ call[a].step = "logout"
  /\ \A t \in call[a].revoking : ~ Locked(t)
  /\ revoked' = revoked \cup call[a].revoking
  /\ Refuse(a)
  /\ UNCHANGED <<clock, registered, session, tokens, used, stored, left>>

\* ... and waits for those that are being updated.
CommitLogout(a) ==
  /\ call[a].step = "logout"
  /\ \A t \in call[a].revoking : ~ Locked(t)
  /\ session' = [session EXCEPT ![call[a].session].active = FALSE]
  /\ revoked' = revoked \cup call[a].revoking
  /\ Refuse(a)
  /\ UNCHANGED <<clock, registered, tokens, used, stored, left>>

-----------------------------------------------------------------------------
\* The client begins a request; it clears the storage if it cannot get the profile when
\* it starts, and after a logout in any case.
Send(a, kind, clears) ==
  /\ kind = "request" \/ (kind = "logout" /\ clears)
  /\ Begin(a, "sent", kind, clears)
  /\ UNCHANGED <<clock, serverVars, stored, left>>

\* A sign-in stores what it was answered and asks for the profile.
StoreSignIn(a) ==
  LET t == call[a].token IN
  /\ call[a].step = "signedIn"
  /\ stored' \in {t, stored}
  /\ left' = (left /\ stored' # t)
  /\ call' = [call EXCEPT ![a].step = "sent", ![a].token = None, ![a].session = None,
                         ![a].signed = t]
  /\ UNCHANGED <<clock, serverVars>>

\* A call that was given up still exchanges the token.
Abandoned(t) ==
  \E b \in Apps : Gone(b) /\ call[b].step \in {"find", "mark", "issue"} /\ call[b].token = t

\* With the profile a sign-in stores its token once more, whatever is stored by now.
Succeed(a) ==
  LET t == call[a].signed IN
  /\ call[a].step = "sent" /\ call[a].kind # "logout"
  /\ IF call[a].kind = "signIn"
     THEN /\ stored' \in {t, stored}
          /\ left' = IF stored' = t THEN t \in used \/ Abandoned(t) ELSE left
     ELSE UNCHANGED <<stored, left>>
  /\ Ends(a)
  /\ UNCHANGED <<clock, serverVars>>

\* onError of a 401, also that of a request sent again: there is a token to refresh with.
Unauthorized(a) ==
  /\ call[a].step = "sent" /\ stored # None
  /\ call' = [call EXCEPT ![a].step = "find", ![a].clears = TRUE,
                         ![a].session = stored.session, ![a].token = stored]
  /\ UNCHANGED <<clock, serverVars, stored, left>>

\* Another error, or nothing to refresh with: the onError around a request that is sent
\* again takes it for a failed refresh.
Reject(a) ==
  /\ call[a].step = "sent"
  /\ IF call[a].clears THEN Refuse(a) ELSE Ends(a)
  /\ UNCHANGED <<clock, serverVars, stored, left>>

\* A refresh is stored, and the request sent again with it.
Store(a) ==
  LET t == call[a].token IN
  /\ call[a].step = "answered" /\ ~ Gone(a)
  /\ stored' \in {t, stored}
  /\ left' = (stored' # t)
  /\ call' = [call EXCEPT ![a].step = "sent", ![a].token = None, ![a].session = None]
  /\ UNCHANGED <<clock, serverVars>>

\* Mutant: an error leaves the storage as it is.
GiveUp(a) ==
  /\ call[a].step = "refused"
  /\ Ends(a)
  /\ UNCHANGED <<clock, serverVars, stored, left>>

\* After an error the client clears its storage: the onError that refreshed, those around
\* it, and who hears of the expired session, one after the other.
SignOut(a) ==
  /\ call[a].step = "refused"
  /\ stored' \in {None, stored}
  /\ left' = (stored' # None)
  /\ Ends(a) \/ Refuse(a)
  /\ UNCHANGED <<clock, serverVars>>

\* The client waits no longer and clears its storage, and the server works on.
TimeOut(a) ==
  /\ call[a].step \in {"find", "mark", "issue", "logout"}
  /\ stored' \in {None, stored}
  /\ left' = (stored' # None)
  /\ call' = [call EXCEPT ![a].kind = "gone", ![a].clears = FALSE, ![a].signed = None]
  /\ UNCHANGED <<clock, serverVars>>

\* A call fails on the server, or its answer is lost on the way.
Fail(a) ==
  /\ call[a].step \in Step \ {"sent", "refused"}
  /\ IF call[a].step \in {"register", "login", "firstToken", "signedIn"}
     THEN Ends(a)
     ELSE Refuse(a)
  /\ UNCHANGED <<clock, serverVars, stored, left>>

\* The client stops; it may have had something to store or to clear.
Stop(a) ==
  /\ call[a].step \in {"sent", "signedIn", "answered", "refused"}
  /\ Ends(a)
  /\ left' = (left \/ (~ Gone(a) /\ call[a].step \in {"answered", "refused"}))
  /\ UNCHANGED <<clock, serverVars, stored>>

Tick ==
  /\ clock < MaxClock
  /\ clock' = clock + 1
  /\ UNCHANGED <<serverVars, call, stored, left>>

RefreshStep(a) == FindToken(a) \/ MarkUsed(a) \/ IssueNext(a)

SignInStep(a) ==
  CommitRegister(a) \/ (\E s \in SessionIds : CreateSession(a, s)) \/ IssueFirst(a)

ClientStep(a) ==
  \/ \E kind \in Kind, clears \in BOOLEAN : Send(a, kind, clears)
  \/ StoreSignIn(a) \/ Succeed(a) \/ Unauthorized(a) \/ Reject(a) \/ Store(a) \/ SignOut(a)
  \/ TimeOut(a) \/ Fail(a) \/ Stop(a)

SessionsNext ==
  \/ \E a \in Apps :
       \/ ReadRegister(a) \/ Login(a) \/ SignInStep(a) \/ RefreshStep(a)
       \/ (\E s \in SessionIds : BeginLogout(a, s)) \/ CommitLogout(a)
       \/ ClientStep(a)
  \/ Tick

SessionsSpec == SessionsInit /\ [][SessionsNext]_vars
-----------------------------------------------------------------------------
\* The types; what the client stores is a token the server knows.
SessionsTypeOK ==
  /\ clock \in 0..MaxClock
  /\ registered \in BOOLEAN /\ left \in BOOLEAN
  /\ session \in [SessionIds -> Session \cup {NoSession}]
  /\ tokens \subseteq Token /\ used \subseteq tokens /\ revoked \subseteq tokens
  /\ call \in [Apps -> Call \cup {Free}]
  /\ stored \in tokens \cup {None}

Live(t) == t \in tokens \ (used \cup revoked)

\* However many instances refresh at once, and whatever fails, a session has at most one
\* token that still counts: a token that was exchanged cannot be exchanged again.
OneLiveToken ==
  \A t, u \in tokens : Live(t) /\ Live(u) /\ t.session = u.session => t = u

\* The tokens as a family: what a session is at, and which tokens it still exchanges
\* (until it expires, of which the family knows nothing).
Phase(s) ==
  CASE session[s] = NoSession -> "none"
    [] session[s] # NoSession /\ ~ session[s].active -> "over"
    [] session[s].active /\ (\A t \in tokens : t.session # s) -> "first"
    [] OTHER -> "open"

Accepted == {t \in tokens : Live(t) /\ session[t.session].active}

SessionOf(t) == t.session

Family ==
  INSTANCE TokenFamily WITH
    Families <- SessionIds, Tokens <- Token, FamilyOf <- SessionOf,
    phase <- [s \in SessionIds |-> Phase(s)], accepted <- Accepted, issued <- tokens

\* However refreshes, sign-ins, logouts, failures and restarts interleave, each token is
\* exchanged at most once, for one that was never issued before, and a session that a
\* logout ended accepts nothing any more, also not what a late exchange still issues.
ImplementsFamily == Family!FamilySpec

\* Once nothing is under way, what the client keeps is good for the next refresh, or
\* nothing: no race of refreshes, sign-ins and logouts, no lost answer and no refresh
\* inside another leaves the storage with a token that has been exchanged.  The
\* exceptions are a write or clearing of the storage that fails, a client that stops
\* before it, and the second write of a sign-in, which can put an exchanged token back.
StoredIsLive ==
  ~ left /\ stored # None /\ (\A a \in Apps : call[a] = Free) =>
    Live(stored) \/ ~ session[stored.session].active
=============================================================================
