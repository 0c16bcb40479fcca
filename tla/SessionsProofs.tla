--------------------------- MODULE SessionsProofs ---------------------------
(***************************************************************************)
(* Proofs about Sessions for every number of client instances, sessions    *)
(* and seconds: types, and that a session has one token that counts.       *)
(***************************************************************************)
EXTENDS Sessions, TLAPS

\* What a call holds at each of its steps.
Holds(c) ==
  /\ c.step \in {"find", "mark", "issue", "answered", "signedIn"} => c.token \in tokens
  /\ c.step \in {"firstToken", "logout"} =>
       c.session \in SessionIds /\ session[c.session] # NoSession
  /\ c.step \in {"find", "mark", "issue"} => c.session = c.token.session
  /\ c.revoking \subseteq tokens
  /\ c.signed # None => c.signed \in tokens
  /\ c.kind = "gone" => c.step \in {"find", "mark", "issue", "answered", "logout"}
  /\ c.kind = "signIn" =>
       c.signed # None \/ c.step \in {"register", "login", "firstToken", "signedIn"}
  /\ c.step = "firstToken" => \A t \in tokens : t.session # c.session

\* The row an exchange is updating is locked: it counts until the exchange is over.
ExchangedIsLive == \A a \in Apps : call[a].step = "issue" => Live(call[a].token)

\* One row, one lock.
LockedOnce ==
  \A a, b \in Apps :
    call[a].step = "issue" /\ call[b].step = "issue" /\ call[a].token = call[b].token => a = b

\* A session is made by one sign-in, which alone inserts its first token.
FirstTokenOnce ==
  \A a, b \in Apps :
    call[a].step = "firstToken" /\ call[b].step = "firstToken"
      /\ call[a].session = call[b].session => a = b

\* A token belongs to a session that was made.
TokensHaveSession == \A t \in tokens : session[t.session] # NoSession

\* What the calls in flight keep of one another.
CallsApart == ExchangedIsLive /\ LockedOnce /\ FirstTokenOnce

Inv ==
  /\ SessionsTypeOK /\ OneLiveToken /\ TokensHaveSession
  /\ \A a \in Apps : Holds(call[a])
  /\ CallsApart

LEMMA SignedTyped ==
  ASSUME SessionsTypeOK, NEW s \in SessionIds
  PROVE  Signed(s) \in Token /\ Signed(s).session = s
  BY DEF Signed, Token, SessionsTypeOK

LEMMA CallTyped ==
  ASSUME SessionsTypeOK, NEW a \in Apps, call[a].step \in Step
  PROVE  call[a] \in Call
  BY DEF SessionsTypeOK, Free, Step

\* A token a call has found is a token, and so is its session.
LEMMA TokenTyped ==
  ASSUME Inv, NEW a \in Apps, call[a].step \in {"find", "mark", "issue"}
  PROVE  /\ call[a].token \in tokens /\ call[a].token \in Token
         /\ call[a].session = call[a].token.session
         /\ call[a].session \in SessionIds
  BY DEF Inv, Holds, SessionsTypeOK, Token

LEMMA InitHolds == SessionsInit => Inv
<1> SUFFICES ASSUME SessionsInit PROVE Inv
  OBVIOUS
<1>1. SessionsTypeOK
  <2>1. clock \in 0..MaxClock
    BY SessionsAssumption DEF SessionsInit
  <2>2. session \in [SessionIds -> Session \cup {NoSession}] /\ call \in [Apps -> Call \cup {Free}]
    BY DEF SessionsInit
  <2>3. QED
    BY <2>1, <2>2 DEF SessionsInit, SessionsTypeOK
<1>2. \A a \in Apps : call[a] = Free /\ Holds(call[a])
  BY DEF SessionsInit, Holds, Free
<1>3. OneLiveToken /\ TokensHaveSession
  BY DEF SessionsInit, OneLiveToken, TokensHaveSession
<1>4. CallsApart
  BY <1>2 DEF CallsApart, ExchangedIsLive, LockedOnce, FirstTokenOnce, Free
<1>5. QED
  BY <1>1, <1>2, <1>3, <1>4 DEF Inv

-----------------------------------------------------------------------------
\* A call that moves on without a new session or token, and what it has then: a token to
\* exchange is the stored one or the one it had, and so are the tokens it revokes and the
\* one a sign-in writes again.
Exchanging == {"find", "mark", "issue"}

Fresh == {"answered", "signedIn"}

Goes(a, next) ==
  /\ call' = [call EXCEPT ![a] = next]
  /\ next \in Call \cup {Free} /\ Holds(next)
  /\ next.step \notin Fresh \cup {"firstToken"}
  /\ next.step = "issue" =>
       /\ Live(next.token)
       /\ \A b \in Apps \ {a} : ~ (call[b].step = "issue" /\ call[b].token = next.token)
  /\ next.step \in Exchanging =>
       \/ stored # None /\ next.token = stored
       \/ call[a].step \in Exchanging /\ next.token = call[a].token
  /\ next.signed # None =>
       \/ next.signed = call[a].signed
       \/ call[a].step = "signedIn" /\ next.signed = call[a].token
  /\ next.step = "logout" =>
       \/ call[a].step = "logout" /\ next.session = call[a].session
            /\ next.revoking = call[a].revoking
       \/ /\ \A t \in next.revoking : t.session = next.session
          /\ \E t \in tokens : t.session = next.session

\* The client's storage is as it was, and whoever had it on its list still has.
Rests(a, next) ==
  /\ UNCHANGED <<stored, left>>
  /\ call[a].step = "refused" \/ (call[a].step = "answered" /\ ~ Gone(a)) => next.step = "refused"
  /\ next.kind = "gone" /\ next.step \in Exchanging =>
       Gone(a) /\ call[a].step \in Exchanging /\ next.token = call[a].token

Refused == [Free EXCEPT !.step = "refused"]

LEMMA EndIsFree ==
  ASSUME NEW a \in Apps, NEW next \in {Free, Refused}, call' = [call EXCEPT ![a] = next]
  PROVE  Goes(a, next) /\ next.kind = "request"
<1>1. /\ Free.step = "free" /\ Free.kind = "request" /\ Free.signed = None /\ Free.revoking = {}
      /\ Refused.step = "refused" /\ Refused.kind = "request" /\ Refused.signed = None
      /\ Refused.revoking = {}
  BY DEF Free, Refused
<1>2. Refused \in Call
  BY DEF Free, Refused, Call, Step, Kind
<1>3. Holds(next)
  BY <1>1 DEF Holds
<1>4. QED
  BY <1>1, <1>2, <1>3 DEF Goes, Fresh, Exchanging

\* A refused call is refused, or over when nobody waits for it.
LEMMA RefuseGoes ==
  ASSUME NEW a \in Apps, Refuse(a)
  PROVE  \E next \in {Free, Refused} :
           Goes(a, next) /\ next.kind = "request" /\ (next = Refused \/ Gone(a))
<1>1. PICK next \in {Free, Refused} :
        call' = [call EXCEPT ![a] = next] /\ (next = Refused \/ Gone(a))
  BY DEF Refuse, Ends, Refused
<1>2. QED
  BY <1>1, EndIsFree

\* The steps that leave the tables and the storage alone.
Quiet(a) ==
  \/ ReadRegister(a) \/ Login(a) \/ CommitRegister(a) \/ FindToken(a) \/ MarkUsed(a)
  \/ IssueNext(a) /\ Signed(call[a].session) \in tokens
  \/ \E s \in SessionIds : BeginLogout(a, s)
  \/ \E kind \in Kind, clears \in BOOLEAN : Send(a, kind, clears)
  \/ Unauthorized(a) \/ Reject(a) \/ Fail(a)

\* Ending a call, or having it refused, rests unless there was something to clear.
LEMMA RefuseRests ==
  ASSUME NEW a \in Apps,
         Refuse(a) \/ (Ends(a) /\ call[a].step # "answered"),
         call[a].step # "refused", UNCHANGED <<stored, left>>
  PROVE  \E next : Goes(a, next) /\ Rests(a, next)
<1>1. CASE Ends(a) /\ call[a].step # "answered"
  <2>1. Goes(a, Free) /\ Free.kind = "request"
    BY <1>1, EndIsFree DEF Ends
  <2>2. QED
    BY <1>1, <2>1 DEF Rests
<1>2. CASE Refuse(a)
  <2>1. PICK next \in {Free, Refused} :
          Goes(a, next) /\ next.kind = "request" /\ (next = Refused \/ Gone(a))
    BY <1>2, RefuseGoes
  <2>2. Refused.step = "refused"
    BY DEF Refused, Free
  <2>3. QED
    BY <2>1, <2>2 DEF Rests
<1>3. QED
  BY <1>1, <1>2

LEMMA BeginGoes ==
  ASSUME Inv, NEW a \in Apps,
         \/ ReadRegister(a) \/ Login(a)
         \/ \E kind \in Kind, clears \in BOOLEAN : Send(a, kind, clears)
  PROVE  \E next : Goes(a, next) /\ Rests(a, next)
<1>1. ASSUME NEW step \in {"register", "login", "sent"}, NEW kind \in Kind \ {"gone"}, NEW clears \in BOOLEAN,
             step = "sent" => kind # "signIn",
             Begin(a, step, kind, clears),
             UNCHANGED <<stored, left>>
      PROVE  \E next : Goes(a, next) /\ Rests(a, next)
  <2> DEFINE next == [Free EXCEPT !.step = step, !.kind = kind, !.clears = clears]
  <2>1. /\ next \in Call /\ next.step = step /\ next.kind = kind /\ next.signed = None
        /\ next.revoking = {}
    BY DEF Free, Call, Step
  <2>2. call' = [call EXCEPT ![a] = next] /\ call[a].step = "free"
    BY <1>1 DEF Begin, Free
  <2> HIDE DEF next
  <2>3. Holds(next)
    BY <1>1, <2>1 DEF Holds
  <2>4. Goes(a, next)
    BY <2>1, <2>2, <2>3 DEF Goes, Fresh, Exchanging
  <2>5. Rests(a, next)
    BY <1>1, <2>1, <2>2 DEF Rests, Exchanging
  <2>6. QED
    BY <2>4, <2>5
<1>2. CASE ReadRegister(a) \/ Login(a)
  BY <1>1, <1>2 DEF ReadRegister, Login, Kind
<1>3. CASE \E kind \in Kind, clears \in BOOLEAN : Send(a, kind, clears)
  BY <1>1, <1>3 DEF Send
<1>4. QED
  BY <1>2, <1>3

\* A call goes on to its next step with what it has.
LEMMA ThenGoes ==
  ASSUME Inv, NEW a \in Apps, NEW step \in {"login", "mark", "issue"}, Then(a, step),
         call[a].step = (IF step = "login" THEN "register" ELSE IF step = "mark" THEN "find" ELSE "mark"),
         step = "issue" => MayMark(call[a].token) /\ ~ Locked(call[a].token),
         UNCHANGED <<stored, left>>
  PROVE  \E next : Goes(a, next) /\ Rests(a, next)
<1> DEFINE next == [call[a] EXCEPT !.step = step]
<1>1. call[a] \in Call /\ Holds(call[a])
  BY CallTyped DEF Inv, Step
<1>2. /\ next \in Call /\ next.step = step /\ next.token = call[a].token
      /\ next.session = call[a].session /\ next.signed = call[a].signed
      /\ next.revoking = call[a].revoking /\ next.kind = call[a].kind
  BY <1>1 DEF Call, Step
<1>3. call' = [call EXCEPT ![a] = next]
  BY DEF Then, Inv, SessionsTypeOK
<1> HIDE DEF next
<1>4. Holds(next)
  BY <1>1, <1>2 DEF Holds
<1>5. step = "issue" => Live(next.token)
  BY <1>1, <1>2 DEF Holds, Live, MayMark
<1>6. step = "issue" => \A b \in Apps : ~ (call[b].step = "issue" /\ call[b].token = next.token)
  BY <1>2 DEF Locked
<1>7. Goes(a, next)
  BY <1>2, <1>3, <1>4, <1>5, <1>6 DEF Goes, Fresh, Exchanging
<1>8. Rests(a, next)
  BY <1>2 DEF Rests, Exchanging, Gone
<1>9. QED
  BY <1>7, <1>8

LEMMA BeginLogoutGoes ==
  ASSUME Inv, NEW a \in Apps, NEW s \in SessionIds, BeginLogout(a, s)
  PROVE  \E next : Goes(a, next) /\ Rests(a, next)
<1> DEFINE own == {t \in tokens : t.session = s}
           next == [call[a] EXCEPT !.step = "logout", !.session = s, !.revoking = own]
<1>1. call[a] \in Call /\ Holds(call[a]) /\ call[a].step = "sent" /\ \E t \in tokens : t.session = s
  BY CallTyped DEF Inv, BeginLogout, Step
<1>2. /\ next \in Call /\ next.step = "logout" /\ next.session = s /\ next.revoking = own
      /\ next.signed = call[a].signed /\ next.kind = call[a].kind
  BY <1>1 DEF Call, Step, Inv, SessionsTypeOK
<1>3. call' = [call EXCEPT ![a] = next] /\ UNCHANGED <<stored, left>>
  BY DEF BeginLogout, Inv, SessionsTypeOK
<1>4. session[s] # NoSession
  BY <1>1 DEF Inv, TokensHaveSession
<1> HIDE DEF next
<1>5. Holds(next)
  BY <1>1, <1>2, <1>4 DEF Holds
<1>6. Goes(a, next)
  <2>1. \A t \in next.revoking : t.session = next.session
    BY <1>2
  <2>2. QED
    BY <1>1, <1>2, <1>3, <1>5, <2>1 DEF Goes, Fresh, Exchanging
<1>7. Rests(a, next)
  BY <1>1, <1>2, <1>3 DEF Rests, Exchanging
<1>8. QED
  BY <1>6, <1>7

LEMMA UnauthorizedGoes ==
  ASSUME Inv, NEW a \in Apps, Unauthorized(a)
  PROVE  \E next : Goes(a, next) /\ Rests(a, next)
<1> DEFINE next == [call[a] EXCEPT !.step = "find", !.clears = TRUE,
                                   !.session = stored.session, !.token = stored]
<1>1. call[a] \in Call /\ Holds(call[a]) /\ call[a].step = "sent" /\ stored # None
  BY CallTyped DEF Inv, Unauthorized, Step
<1>2. stored \in tokens /\ stored \in Token /\ stored.session \in SessionIds
  BY <1>1 DEF Inv, SessionsTypeOK, Token
<1>3. /\ next \in Call /\ next.step = "find" /\ next.session = stored.session
      /\ next.token = stored /\ next.signed = call[a].signed /\ next.revoking = call[a].revoking
      /\ next.kind = call[a].kind
  BY <1>1, <1>2 DEF Call, Step
<1>4. call' = [call EXCEPT ![a] = next] /\ UNCHANGED <<stored, left>>
  BY DEF Unauthorized, Inv, SessionsTypeOK
<1>5. ~ Gone(a)
  BY <1>1 DEF Holds, Gone
<1> HIDE DEF next
<1>6. Holds(next)
  BY <1>1, <1>2, <1>3 DEF Holds
<1>7. Goes(a, next) /\ Rests(a, next)
  BY <1>1, <1>3, <1>4, <1>5, <1>6 DEF Goes, Rests, Fresh, Exchanging, Gone
<1>8. QED
  BY <1>7

LEMMA QuietGoes ==
  ASSUME Inv, NEW a \in Apps, Quiet(a)
  PROVE  \E next : Goes(a, next) /\ Rests(a, next)
<1>1. CASE CommitRegister(a)
  <2>1. call[a].step = "register" /\ UNCHANGED <<stored, left>>
    BY <1>1 DEF CommitRegister
  <2>2. Ends(a) \/ Then(a, "login")
    BY <1>1 DEF CommitRegister
  <2>3. CASE Ends(a)
    BY <2>1, <2>3, RefuseRests
  <2>4. CASE Then(a, "login")
    BY <2>1, <2>4, ThenGoes
  <2>5. QED
    BY <2>2, <2>3, <2>4
<1>2. CASE FindToken(a)
  <2>1. call[a].step = "find" /\ UNCHANGED <<stored, left>>
    BY <1>2 DEF FindToken
  <2>2. Refuse(a) \/ Then(a, "mark")
    BY <1>2 DEF FindToken
  <2>3. CASE Refuse(a)
    BY <2>1, <2>3, RefuseRests
  <2>4. CASE Then(a, "mark")
    BY <2>1, <2>4, ThenGoes
  <2>5. QED
    BY <2>2, <2>3, <2>4
<1>3. CASE MarkUsed(a)
  <2>1. call[a].step = "mark" /\ ~ Locked(call[a].token) /\ UNCHANGED <<stored, left>>
    BY <1>3 DEF MarkUsed
  <2>2. Refuse(a) \/ (Then(a, "issue") /\ MayMark(call[a].token))
    BY <1>3 DEF MarkUsed
  <2>3. CASE Refuse(a)
    BY <2>1, <2>3, RefuseRests
  <2>4. CASE Then(a, "issue") /\ MayMark(call[a].token)
    BY <2>1, <2>4, ThenGoes
  <2>5. QED
    BY <2>2, <2>3, <2>4
<1>4. CASE IssueNext(a) /\ Signed(call[a].session) \in tokens
  BY <1>4, RefuseRests DEF IssueNext
<1>5. CASE Reject(a)
  BY <1>5, RefuseRests DEF Reject
<1>6. CASE Fail(a)
  BY <1>6, RefuseRests DEF Fail
<1>7. QED
  BY <1>1, <1>2, <1>3, <1>4, <1>5, <1>6, BeginGoes, BeginLogoutGoes, UnauthorizedGoes DEF Quiet

\* The steps of the client that write its storage.
Writing(a) == StoreSignIn(a) \/ Succeed(a) \/ Store(a) \/ SignOut(a) \/ TimeOut(a) \/ Stop(a)

LEMMA SentGoes ==
  ASSUME Inv, NEW a \in Apps, NEW t \in tokens \cup {None},
         call[a].step \in Fresh, ~ Gone(a),
         \/ t = call[a].signed /\ call[a].step = "answered"
         \/ t = call[a].token /\ call[a].step = "signedIn",
         call' = [call EXCEPT ![a] = [call[a] EXCEPT !.step = "sent", !.token = None,
                                                     !.session = None, !.signed = t]]
  PROVE  \E next : Goes(a, next) /\ next.step = "sent"
<1> DEFINE next == [call[a] EXCEPT !.step = "sent", !.token = None, !.session = None, !.signed = t]
<1>1. call[a] \in Call /\ Holds(call[a]) /\ tokens \subseteq Token
  BY CallTyped DEF Inv, Fresh, Step, SessionsTypeOK
<1>2. /\ next \in Call /\ next.step = "sent" /\ next.signed = t /\ next.kind = call[a].kind
      /\ next.revoking = call[a].revoking
  BY <1>1 DEF Call, Step
<1>3. call' = [call EXCEPT ![a] = next]
  OBVIOUS
<1>4. call[a].kind = "signIn" => t # None
  BY <1>1, SessionsAssumption DEF Holds
<1>5. call[a].step = "signedIn" => t = call[a].token
  OBVIOUS
<1> HIDE DEF next
<1>6. Holds(next)
  BY <1>1, <1>2, <1>4 DEF Holds, Gone
<1>7. Goes(a, next)
  BY <1>2, <1>3, <1>6 DEF Goes, Fresh, Exchanging
<1>8. QED
  BY <1>2, <1>7

LEMMA StoreGoes ==
  ASSUME Inv, NEW a \in Apps, StoreSignIn(a) \/ Store(a)
  PROVE  \E next : Goes(a, next) /\ next.step = "sent"
<1>1. call[a] \in Call /\ Holds(call[a]) /\ call[a].step \in Fresh
  BY CallTyped DEF Inv, StoreSignIn, Store, Step, Fresh
<1>2. CASE StoreSignIn(a)
  <2>1. call' = [call EXCEPT ![a] = [call[a] EXCEPT !.step = "sent", !.token = None,
                                                   !.session = None, !.signed = call[a].token]]
    BY <1>2 DEF StoreSignIn, Inv, SessionsTypeOK
  <2>2. call[a].step = "signedIn" /\ call[a].token \in tokens /\ ~ Gone(a)
    BY <1>1, <1>2 DEF StoreSignIn, Holds, Gone
  <2>3. QED
    BY <1>1, <2>1, <2>2, SentGoes
<1>3. CASE Store(a)
  <2>1. call' = [call EXCEPT ![a] = [call[a] EXCEPT !.step = "sent", !.token = None,
                                                   !.session = None]]
    BY <1>3 DEF Store, Inv, SessionsTypeOK
  <2>2. [call[a] EXCEPT !.step = "sent", !.token = None, !.session = None]
          = [call[a] EXCEPT !.step = "sent", !.token = None, !.session = None,
                            !.signed = call[a].signed]
    BY <1>1 DEF Call
  <2>3. call[a].step = "answered" /\ ~ Gone(a) /\ call[a].signed \in tokens \cup {None}
    BY <1>1, <1>3 DEF Store, Holds
  <2>4. QED
    BY <1>1, <2>1, <2>2, <2>3, SentGoes
<1>4. QED
  BY <1>2, <1>3

\* The client gives a call up that is still at the server.
LEMMA TimeOutGoes ==
  ASSUME Inv, NEW a \in Apps, TimeOut(a)
  PROVE  \E next : Goes(a, next)
<1> DEFINE next == [call[a] EXCEPT !.kind = "gone", !.clears = FALSE, !.signed = None]
<1>1. call[a] \in Call /\ Holds(call[a]) /\ call[a].step \in Exchanging \cup {"logout"}
  BY CallTyped DEF Inv, TimeOut, Step, Exchanging
<1>2. /\ next \in Call /\ next.step = call[a].step /\ next.token = call[a].token
      /\ next.session = call[a].session /\ next.signed = None
      /\ next.revoking = call[a].revoking /\ next.kind = "gone"
  BY <1>1 DEF Call, Kind
<1>3. call' = [call EXCEPT ![a] = next]
  BY DEF TimeOut, Inv, SessionsTypeOK
<1> HIDE DEF next
<1>4. Holds(next)
  BY <1>1, <1>2 DEF Holds, Exchanging
<1>5. call[a].step = "issue" =>
        /\ Live(call[a].token)
        /\ \A b \in Apps \ {a} : ~ (call[b].step = "issue" /\ call[b].token = call[a].token)
  BY DEF Inv, CallsApart, ExchangedIsLive, LockedOnce
<1>6. Goes(a, next)
  BY <1>1, <1>2, <1>3, <1>4, <1>5 DEF Goes, Fresh, Exchanging
<1>7. QED
  BY <1>6

LEMMA WritingGoes ==
  ASSUME Inv, NEW a \in Apps, Writing(a)
  PROVE  \E next : Goes(a, next)
<1>1. CASE Succeed(a) \/ Stop(a)
  BY <1>1, EndIsFree DEF Succeed, Stop, Ends
<1>2. CASE SignOut(a)
  BY <1>2, EndIsFree, RefuseGoes DEF SignOut, Ends
<1>3. QED
  BY <1>1, <1>2, StoreGoes, TimeOutGoes DEF Writing

\* What any of these steps keeps of the tables and the calls.
LEMMA GoesHolds ==
  ASSUME Inv, NEW a \in Apps, NEW next, Goes(a, next),
         registered' \in BOOLEAN, left' \in BOOLEAN, stored' \in tokens \cup {None},
         UNCHANGED <<clock, session, tokens, used, revoked>>
  PROVE  Inv'
<1>1. call'[a] = next /\ \A b \in Apps \ {a} : call'[b] = call[b]
  BY DEF Goes, Inv, SessionsTypeOK
<1>2. SessionsTypeOK'
  BY DEF Goes, Inv, SessionsTypeOK
<1>3. OneLiveToken' /\ TokensHaveSession'
  BY DEF Inv, OneLiveToken, TokensHaveSession, Live
<1>4. \A b \in Apps : Holds(call[b])'
  BY <1>1 DEF Goes, Inv, Holds
<1>5. CallsApart'
  BY <1>1 DEF Goes, Fresh, Inv, CallsApart, ExchangedIsLive, LockedOnce, FirstTokenOnce, Live
<1>6. QED
  BY <1>2, <1>3, <1>4, <1>5 DEF Inv

LEMMA QuietHolds == ASSUME Inv, NEW a \in Apps, Quiet(a) PROVE Inv'
<1>1. /\ registered \in BOOLEAN /\ left \in BOOLEAN /\ stored \in tokens \cup {None}
  BY DEF Inv, SessionsTypeOK
<1>2. /\ UNCHANGED <<clock, session, tokens, used, revoked, stored, left>>
      /\ registered' \in {registered, TRUE}
  BY DEF Quiet, ReadRegister, Login, CommitRegister, FindToken, MarkUsed, IssueNext, BeginLogout,
         Send, Unauthorized, Reject, Fail, serverVars
<1>3. QED
  BY <1>1, <1>2, QuietGoes, GoesHolds

LEMMA WritingHolds == ASSUME Inv, NEW a \in Apps, Writing(a) PROVE Inv'
<1>1. registered \in BOOLEAN /\ left \in BOOLEAN /\ stored \in tokens \cup {None}
  BY DEF Inv, SessionsTypeOK
<1>2. UNCHANGED <<clock, registered, session, tokens, used, revoked>> /\ left' \in BOOLEAN
  BY <1>1 DEF Writing, StoreSignIn, Succeed, Store, SignOut, TimeOut, Stop, serverVars
<1>3. stored' \in tokens \cup {None}
  <2>1. CASE StoreSignIn(a) \/ Store(a)
    BY <1>1, <2>1 DEF StoreSignIn, Store, Inv, Holds
  <2>2. CASE Succeed(a)
    BY <1>1, <2>2 DEF Succeed, Inv, Holds
  <2>3. QED
    BY <1>1, <2>1, <2>2 DEF Writing, SignOut, TimeOut, Stop
<1>4. QED
  BY <1>1, <1>2, <1>3, WritingGoes, GoesHolds

-----------------------------------------------------------------------------
\* The steps that write sessions and tokens.
LEMMA CreateSessionHolds ==
  ASSUME Inv, NEW a \in Apps, NEW s \in SessionIds, CreateSession(a, s)
  PROVE  Inv'
<1> DEFINE next == [call[a] EXCEPT !.step = "firstToken", !.session = s]
           row == [active |-> TRUE, expires |-> clock + Lifetime]
<1>1. row \in Session /\ row # NoSession
  BY SessionsAssumption DEF Inv, SessionsTypeOK, Session, NoSession
<1>2. /\ session' = [session EXCEPT ![s] = row] /\ session[s] = NoSession
      /\ UNCHANGED <<clock, registered, tokens, used, revoked, stored, left>>
  BY DEF CreateSession
<1>3. call[a] \in Call /\ call[a].step = "login" /\ Holds(call[a])
  BY CallTyped DEF Inv, Holds, CreateSession, Step
<1>4. /\ next \in Call /\ next.step = "firstToken" /\ next.session = s
      /\ next.revoking = call[a].revoking /\ next.signed = call[a].signed /\ next.kind = call[a].kind
  BY <1>3 DEF Call, Step
<1>5. call' = [call EXCEPT ![a] = next]
  BY <1>3 DEF CreateSession, Inv, SessionsTypeOK
<1> HIDE DEF next, row
<1>6. call'[a] = next /\ \A b \in Apps \ {a} : call'[b] = call[b]
  BY <1>5 DEF Inv, SessionsTypeOK
<1>7. SessionsTypeOK'
  BY <1>1, <1>2, <1>4, <1>5 DEF Inv, SessionsTypeOK
<1>8. \A t \in tokens : t.session # s /\ t.session \in SessionIds
  BY <1>2 DEF Inv, TokensHaveSession, SessionsTypeOK, Token
<1>9. session'[s] # NoSession /\ \A r \in SessionIds \ {s} : session'[r] = session[r]
  BY <1>1, <1>2 DEF Inv, SessionsTypeOK
<1>10. OneLiveToken' /\ TokensHaveSession'
  BY <1>2, <1>8, <1>9 DEF Inv, OneLiveToken, TokensHaveSession, Live
<1>11. \A b \in Apps \ {a} : Holds(call[b]) /\ (call[b].step = "firstToken" => call[b].session # s)
  BY <1>2 DEF Inv, Holds
<1>12. ASSUME NEW b \in Apps PROVE Holds(call[b])'
  <2>1. CASE b = a
    BY <1>2, <1>3, <1>4, <1>6, <1>8, <1>9, <2>1 DEF Holds
  <2>2. CASE b # a
    BY <1>2, <1>6, <1>9, <1>11, <2>2 DEF Holds
  <2>3. QED
    BY <2>1, <2>2
<1>13. CallsApart'
  BY <1>2, <1>4, <1>6, <1>11 DEF Inv, CallsApart, ExchangedIsLive, LockedOnce, FirstTokenOnce, Live
<1>14. QED
  BY <1>7, <1>10, <1>12, <1>13 DEF Inv

LEMMA IssueFirstHolds ==
  ASSUME Inv, NEW a \in Apps, IssueFirst(a)
  PROVE  Inv'
<1> DEFINE s == call[a].session
           t == Signed(s)
           next == [call[a] EXCEPT !.step = "signedIn", !.token = t]
<1>1. call[a] \in Call /\ call[a].step = "firstToken" /\ Holds(call[a]) /\ s \in SessionIds
  BY CallTyped DEF Inv, Holds, IssueFirst, Step
<1>2. t \in Token /\ t.session = s
  BY <1>1, SignedTyped DEF Inv
<1>3. session[s] # NoSession /\ (\A u \in tokens : u.session # s) /\ call[a].revoking \subseteq tokens
  BY <1>1 DEF Holds
<1>4. /\ tokens' = tokens \cup {t}
      /\ UNCHANGED <<clock, registered, session, used, revoked, stored, left>>
  BY DEF IssueFirst
<1> HIDE DEF t
<1>5. /\ next \in Call /\ next.step = "signedIn" /\ next.token = t
      /\ next.revoking = call[a].revoking /\ next.signed = call[a].signed /\ next.kind = call[a].kind
  BY <1>1, <1>2 DEF Call, Step
<1>6. call' = [call EXCEPT ![a] = next]
  BY <1>1 DEF IssueFirst, Answer, Inv, SessionsTypeOK, t
<1> HIDE DEF next
<1>7. call'[a] = next /\ \A b \in Apps \ {a} : call'[b] = call[b]
  BY <1>6 DEF Inv, SessionsTypeOK
<1>8. SessionsTypeOK'
  BY <1>2, <1>4, <1>5, <1>6 DEF Inv, SessionsTypeOK
<1>9. OneLiveToken' /\ TokensHaveSession'
  BY <1>2, <1>3, <1>4 DEF Inv, OneLiveToken, TokensHaveSession, Live
<1>10. ASSUME NEW b \in Apps PROVE Holds(call[b])'
  <2>1. CASE b = a
    BY <1>1, <1>3, <1>4, <1>5, <1>7, <2>1 DEF Holds
  <2>2. CASE b # a
    <3>1. call[b].step = "firstToken" => call[b].session # s
      BY <1>1, <2>2 DEF Inv, CallsApart, FirstTokenOnce
    <3>2. Holds(call[b])
      BY DEF Inv
    <3>3. QED
      BY <1>2, <1>4, <1>7, <2>2, <3>1, <3>2 DEF Holds
  <2>3. QED
    BY <2>1, <2>2
<1>11. CallsApart'
  BY <1>4, <1>5, <1>7 DEF Inv, CallsApart, ExchangedIsLive, LockedOnce, FirstTokenOnce, Live
<1>12. QED
  BY <1>8, <1>9, <1>10, <1>11 DEF Inv

\* The exchange: the token that is taken was the only one of its session that counted.
LEMMA IssueNextHolds ==
  ASSUME Inv, NEW a \in Apps, IssueNext(a)
  PROVE  Inv'
<1> DEFINE old == call[a].token
           t == Signed(call[a].session)
           next == [call[a] EXCEPT !.step = "answered", !.token = t]
<1>1. call[a] \in Call /\ call[a].step = "issue" /\ Live(old) /\ Holds(call[a])
  BY CallTyped DEF Inv, Holds, IssueNext, Step, CallsApart, ExchangedIsLive
<1>2. /\ old \in tokens /\ old \in Token /\ t \in Token /\ t.session = old.session
      /\ call[a].session \in SessionIds
  BY <1>1, TokenTyped, SignedTyped DEF Inv
<1>4. CASE t \in tokens
  BY <1>4, QuietHolds DEF Quiet
<1>5. CASE t \notin tokens
  <2>1. /\ tokens' = tokens \cup {t} /\ used' = used \cup {old}
        /\ UNCHANGED <<clock, registered, session, revoked, stored, left>>
        /\ Answer(a, "answered", t)
    BY <1>5 DEF IssueNext
  <2> HIDE DEF t
  <2>2. /\ next \in Call /\ next.step = "answered" /\ next.token = t
        /\ next.revoking = call[a].revoking /\ next.signed = call[a].signed /\ next.kind = call[a].kind
    BY <1>1, <1>2 DEF Call, Step
  <2>3. call' = [call EXCEPT ![a] = next]
    BY <1>1, <2>1 DEF Answer, Inv, SessionsTypeOK
  <2> HIDE DEF next
  <2>4. call'[a] = next /\ \A b \in Apps \ {a} : call'[b] = call[b]
    BY <2>3 DEF Inv, SessionsTypeOK
  <2>5. SessionsTypeOK'
    BY <1>2, <2>1, <2>2, <2>3 DEF Inv, SessionsTypeOK
  <2>6. OneLiveToken'
    BY <1>1, <1>2, <1>5, <2>1 DEF Inv, OneLiveToken, Live
  <2>7. TokensHaveSession'
    BY <1>2, <2>1 DEF Inv, TokensHaveSession
  <2>8. ASSUME NEW b \in Apps PROVE Holds(call[b])'
    <3>1. CASE b = a
      BY <1>1, <2>1, <2>2, <2>4, <3>1 DEF Holds
    <3>2. CASE b # a
      <4>1. Holds(call[b])
        BY DEF Inv
      <4>2. call[b].step = "firstToken" => t.session # call[b].session
        BY <1>2, <4>1 DEF Holds
      <4>3. QED
        BY <2>1, <2>4, <3>2, <4>1, <4>2 DEF Holds
    <3>3. QED
      BY <3>1, <3>2
  <2>9. \A b \in Apps \ {a} : call[b].step = "issue" => call[b].token # old
    BY <1>1 DEF Inv, CallsApart, LockedOnce
  <2>10. CallsApart'
    BY <2>1, <2>2, <2>4, <2>9
       DEF Inv, CallsApart, ExchangedIsLive, LockedOnce, FirstTokenOnce, Live
  <2>11. QED
    BY <2>5, <2>6, <2>7, <2>8, <2>10 DEF Inv
<1>6. QED
  BY <1>4, <1>5

LEMMA CommitLogoutHolds ==
  ASSUME Inv, NEW a \in Apps, CommitLogout(a)
  PROVE  Inv'
<1> DEFINE s == call[a].session
<1>1. call[a] \in Call /\ call[a].step = "logout" /\ call[a].revoking \subseteq tokens /\ s \in SessionIds
  BY CallTyped DEF Inv, Holds, CommitLogout, Step
<1>2. /\ session' = [session EXCEPT ![s].active = FALSE]
      /\ revoked' = revoked \cup call[a].revoking
      /\ UNCHANGED <<clock, registered, tokens, used, stored, left>>
      /\ \A t \in call[a].revoking : ~ Locked(t)
  BY DEF CommitLogout
<1>3. PICK next \in {Free, Refused} : Goes(a, next)
  BY RefuseGoes DEF CommitLogout
<1>4. /\ call' = [call EXCEPT ![a] = next] /\ next \in Call \cup {Free}
      /\ next.step \in {"free", "refused"} /\ next.revoking = {} /\ next.signed = None
      /\ next.kind = "request"
  BY <1>3 DEF Goes, Free, Refused
<1>5. call'[a] = next /\ \A b \in Apps \ {a} : call'[b] = call[b]
  BY <1>4 DEF Inv, SessionsTypeOK
<1>6. /\ session' \in [SessionIds -> Session \cup {NoSession}]
      /\ \A r \in SessionIds : session[r] # NoSession => session'[r] # NoSession
  <2> DEFINE ended == [session[s] EXCEPT !.active = FALSE]
  <2>1. session[s] \in Session
    BY <1>1 DEF Inv, Holds, SessionsTypeOK
  <2>2. ended \in Session /\ ended.expires = session[s].expires
    BY <2>1 DEF Session
  <2>3. ended # NoSession
    BY <2>2, SessionsAssumption DEF Session, NoSession
  <2> HIDE DEF ended
  <2>4. session' = [session EXCEPT ![s] = ended]
    BY <1>2 DEF ended
  <2>5. QED
    BY <1>1, <2>2, <2>3, <2>4 DEF Inv, SessionsTypeOK
<1>7. SessionsTypeOK'
  BY <1>1, <1>2, <1>4, <1>6 DEF Inv, SessionsTypeOK
<1>8. OneLiveToken' /\ TokensHaveSession'
  BY <1>2, <1>6 DEF Inv, OneLiveToken, TokensHaveSession, Live, SessionsTypeOK, Token
<1>9. ASSUME NEW b \in Apps PROVE Holds(call[b])'
  <2>1. Holds(call[b])
    BY DEF Inv
  <2>2. QED
    BY <1>1, <1>2, <1>4, <1>5, <1>6, <2>1 DEF Holds
<1>10. CallsApart'
  BY <1>2, <1>4, <1>5
     DEF Inv, CallsApart, ExchangedIsLive, LockedOnce, FirstTokenOnce, Live, Locked
<1>11. QED
  BY <1>7, <1>8, <1>9, <1>10 DEF Inv

LEMMA TickHolds == ASSUME Inv, Tick \/ UNCHANGED vars PROVE Inv'
<1>1. clock' \in 0..MaxClock /\ UNCHANGED <<session, tokens, used, revoked, call, registered, stored, left>>
  BY SessionsAssumption DEF Inv, SessionsTypeOK, Tick, vars, serverVars
<1>2. QED
  BY <1>1 DEF Inv, SessionsTypeOK, OneLiveToken, TokensHaveSession, Live, Holds,
              CallsApart, ExchangedIsLive, LockedOnce, FirstTokenOnce

LEMMA IssueGoes == ASSUME NEW a \in Apps, IssueNext(a)
                   PROVE  Quiet(a) \/ Signed(call[a].session) \notin tokens
  BY DEF Quiet

\* Every step is one that moves a call, writes the storage or writes the tables.
LEMMA NextIs ==
  ASSUME [SessionsNext]_vars
  PROVE  \/ \E a \in Apps :
              \/ Quiet(a) \/ Writing(a) \/ (\E s \in SessionIds : CreateSession(a, s))
              \/ IssueFirst(a) \/ IssueNext(a) \/ CommitLogout(a)
         \/ Tick \/ UNCHANGED vars
  BY DEF SessionsNext, ClientStep, SignInStep, RefreshStep, Quiet, Writing

LEMMA NextHolds == ASSUME Inv, [SessionsNext]_vars PROVE Inv'
  BY NextIs, QuietHolds, WritingHolds, CreateSessionHolds, IssueFirstHolds, IssueNextHolds,
     CommitLogoutHolds, TickHolds

\* The rows and the calls keep their types, and what the client stores is a token the
\* server knows, through every race of sign-ins, refreshes and logouts (AuthService,
\* AuthInterceptor).
THEOREM SessionsTypeCorrect == SessionsSpec => []SessionsTypeOK
<1>1. Inv => SessionsTypeOK
  BY DEF Inv
<1>2. QED
  BY <1>1, InitHolds, NextHolds, PTL DEF SessionsSpec

\* However many instances of the client refresh, sign in and log out, and whatever
\* fails, a session has at most one token that can still be exchanged.
THEOREM SessionsSafe == SessionsSpec => []OneLiveToken
<1>1. Inv => OneLiveToken
  BY DEF Inv
<1>2. QED
  BY <1>1, InitHolds, NextHolds, PTL DEF SessionsSpec

-----------------------------------------------------------------------------
\* What the client stores.

Ended(t) == ~ session[t.session].active

\* A logout revokes tokens of the session it ends, and a revoked token's session is over.
RevokesOwn ==
  /\ \A a \in Apps : call[a].step = "logout" =>
       \A t \in call[a].revoking : t.session = call[a].session
  /\ \A t \in revoked : Ended(t)

\* A call has a token to exchange, to store, or to store again.
Knows(c, t) == (c.step \in Exchanging \cup Fresh /\ c.token = t) \/ c.signed = t

\* Until it is stored, a new token is known to the call that got it and to no other.
AnswersApart ==
  \A a \in Apps : call[a].step \in Fresh =>
    /\ stored # call[a].token /\ call[a].signed # call[a].token
    /\ \A b \in Apps \ {a} : ~ Knows(call[b], call[a].token)

\* So it counts until its session ends.
AnsweredIsLive ==
  \A a \in Apps : call[a].step \in Fresh => Live(call[a].token) \/ Ended(call[a].token)

\* A stored token that was exchanged is about to be replaced or cleared, by the call that
\* exchanged it.
Noticed ==
  \E a \in Apps : call[a].step = "refused" \/ (call[a].step = "answered" /\ ~ Gone(a))

\* Nobody who was given up is about to exchange it either; only a failed write, a client
\* that stops or the second write of a sign-in brings that about.
StaleIsNoticed ==
  ~ left /\ stored # None =>
    /\ Live(stored) \/ Ended(stored) \/ Noticed
    /\ ~ Abandoned(stored)

StorageInv == RevokesOwn /\ AnswersApart /\ AnsweredIsLive /\ StaleIsNoticed

\* What a step that leaves the tables alone keeps of this, whatever of what the call had
\* it stores.
LEMMA GoesStored ==
  ASSUME Inv, StorageInv, NEW a \in Apps, NEW next, Goes(a, next),
         \/ stored' \in {stored, None}
         \/ call[a].step \in Fresh /\ stored' = call[a].token
         \/ stored' = call[a].signed,
         UNCHANGED <<session, tokens, used, revoked>>
  PROVE  (RevokesOwn /\ AnswersApart /\ AnsweredIsLive)'
<1>1. call'[a] = next /\ \A b \in Apps \ {a} : call'[b] = call[b]
  BY DEF Goes, Inv, SessionsTypeOK
<1>2. RevokesOwn'
  BY <1>1 DEF Goes, StorageInv, RevokesOwn, Ended
<1>3. ASSUME NEW b \in Apps, call'[b].step \in Fresh
      PROVE  /\ stored' # call'[b].token /\ call'[b].signed # call'[b].token
             /\ \A c \in Apps \ {b} : ~ Knows(call[c], call[b].token)'
  <2>1. b # a /\ call'[b] = call[b]
    BY <1>1, <1>3 DEF Goes
  <2>2. /\ stored # call[b].token /\ call[b].signed # call[b].token
        /\ \A c \in Apps \ {b} : ~ Knows(call[c], call[b].token)
    BY <1>3, <2>1 DEF StorageInv, AnswersApart
  <2>3. call[b].token # None
    BY <1>3, <2>1, SessionsAssumption DEF Inv, Holds, Fresh, SessionsTypeOK
  <2>4. ~ Knows(call[a], call[b].token)
    BY <2>1, <2>2
  <2>5. ~ Knows(next, call[b].token)
    BY <2>2, <2>3, <2>4 DEF Goes, Knows, Fresh, Exchanging
  <2>6. stored' # call[b].token
    BY <2>2, <2>3, <2>4 DEF Knows
  <2>7. QED
    BY <1>1, <2>1, <2>2, <2>5, <2>6 DEF Knows
<1>4. AnswersApart'
  BY <1>3 DEF AnswersApart
<1>5. AnsweredIsLive'
  BY <1>1 DEF Goes, StorageInv, AnsweredIsLive, Live, Ended
<1>6. QED
  BY <1>2, <1>4, <1>5

\* Nothing happens to the storage, and who was about to see to it still is.
LEMMA RestsStored ==
  ASSUME Inv, StorageInv, NEW a \in Apps, NEW next, Goes(a, next), Rests(a, next),
         UNCHANGED <<session, tokens, used, revoked>>
  PROVE  StorageInv'
<1>1. call'[a] = next /\ \A b \in Apps \ {a} : call'[b] = call[b]
  BY DEF Goes, Inv, SessionsTypeOK
<1>2. UNCHANGED <<stored, left>>
  BY DEF Rests
<1>3. Noticed => Noticed'
  BY <1>1 DEF Rests, Noticed, Gone
<1>4. Abandoned(stored)' => Abandoned(stored)
  BY <1>1, <1>2 DEF Rests, Abandoned, Gone, Exchanging
<1>5. StaleIsNoticed'
  BY <1>2, <1>3, <1>4 DEF StorageInv, StaleIsNoticed, Live, Ended
<1>6. QED
  BY <1>2, <1>5, GoesStored DEF StorageInv

LEMMA QuietStored == ASSUME Inv, StorageInv, NEW a \in Apps, Quiet(a) PROVE StorageInv'
<1>1. UNCHANGED <<session, tokens, used, revoked>>
  BY DEF Quiet, ReadRegister, Login, CommitRegister, FindToken, MarkUsed, IssueNext, BeginLogout,
         Send, Unauthorized, Reject, Fail, serverVars
<1>2. QED
  BY <1>1, QuietGoes, RestsStored

\* A token that is stored counts, or its session has ended; nobody else exchanges it, or it
\* is known to be put back.
LEMMA TokenStored ==
  ASSUME Inv, StorageInv, NEW a \in Apps, NEW next, Goes(a, next), next.step \in {"sent", "free"},
         NEW t \in tokens, stored' = t,
         \/ call[a].step \in Fresh /\ t = call[a].token
         \/ t = call[a].signed /\ (~ left' => t \notin used /\ ~ Abandoned(t)),
         UNCHANGED <<session, tokens, used, revoked>>
  PROVE  StorageInv'
<1>1. call'[a] = next /\ \A b \in Apps \ {a} : call'[b] = call[b]
  BY DEF Goes, Inv, SessionsTypeOK
<1>2. ~ left' => Live(t) \/ Ended(t)
  BY DEF StorageInv, AnsweredIsLive, RevokesOwn, Live
<1>3. ~ left' => \A b \in Apps \ {a} : ~ (Gone(b) /\ call[b].step \in Exchanging /\ call[b].token = t)
  BY DEF StorageInv, AnswersApart, Knows, Abandoned, Exchanging
<1>4. ~ left' => ~ Abandoned(stored)'
  BY <1>1, <1>3 DEF Abandoned, Gone, Exchanging
<1>5. StaleIsNoticed'
  BY <1>2, <1>4 DEF StaleIsNoticed, Live, Ended
<1>6. QED
  BY <1>5, GoesStored DEF StorageInv

\* The storage is as it was, cleared, or known to be left.
LEMMA KeptStored ==
  ASSUME Inv, StorageInv, NEW a \in Apps, NEW next, Goes(a, next),
         \/ stored' \in {stored, None} /\ (left' \/ stored' = None)
         \/ UNCHANGED <<stored, left>> /\ Rests(a, next),
         UNCHANGED <<session, tokens, used, revoked>>
  PROVE  StorageInv'
<1>1. CASE Rests(a, next)
  BY <1>1, RestsStored
<1>2. CASE stored' \in {stored, None} /\ (left' \/ stored' = None)
  BY <1>2, GoesStored DEF StorageInv, StaleIsNoticed
<1>3. QED
  BY <1>1, <1>2

LEMMA WritingStored == ASSUME Inv, StorageInv, NEW a \in Apps, Writing(a) PROVE StorageInv'
<1>1. UNCHANGED <<session, tokens, used, revoked>>
  BY DEF Writing, StoreSignIn, Succeed, Store, SignOut, TimeOut, Stop, serverVars
<1>2. CASE StoreSignIn(a) \/ Store(a)
  <2>1. PICK next : Goes(a, next) /\ next.step = "sent"
    BY <1>2, StoreGoes
  <2>2. call[a].step \in Fresh /\ call[a].token \in tokens
    BY <1>2 DEF StoreSignIn, Store, Fresh, Inv, Holds
  <2>3. CASE stored' = call[a].token
    BY <1>1, <2>1, <2>2, <2>3, TokenStored
  <2>4. CASE stored' # call[a].token
    <3>1. UNCHANGED <<stored, left>> \/ (stored' = stored /\ left')
      BY <1>2, <2>4 DEF StoreSignIn, Store, Inv, SessionsTypeOK
    <3>2. StoreSignIn(a) => call[a].step = "signedIn" /\ UNCHANGED <<stored, left>>
      BY <2>4 DEF StoreSignIn, Inv, SessionsTypeOK
    <3>3. StoreSignIn(a) => Rests(a, next)
      BY <2>1, <3>2 DEF Rests, Exchanging
    <3>4. Store(a) => stored' = stored /\ left'
      BY <2>4 DEF Store
    <3>5. QED
      BY <1>1, <1>2, <2>1, <3>2, <3>3, <3>4, KeptStored
  <2>5. QED
    BY <2>3, <2>4
<1>3. CASE Succeed(a)
  <2>1. Goes(a, Free) /\ Free.step = "free"
    BY <1>3, EndIsFree DEF Succeed, Ends, Free
  <2>2. call[a].step = "sent" /\ call[a].kind = "signIn" => call[a].signed \in tokens
    BY DEF Inv, Holds
  <2>3. CASE call[a].kind = "signIn" /\ stored' = call[a].signed
    <3>1. ~ left' => call[a].signed \notin used /\ ~ Abandoned(call[a].signed)
      BY <1>3, <2>3 DEF Succeed
    <3>2. call[a].signed \in tokens
      BY <1>3, <2>2, <2>3 DEF Succeed
    <3>3. QED
      BY <1>1, <2>1, <2>3, <3>1, <3>2, TokenStored
  <2>4. CASE ~ (call[a].kind = "signIn" /\ stored' = call[a].signed)
    <3>1. UNCHANGED <<stored, left>> /\ call[a].step = "sent"
      BY <1>3, <2>4 DEF Succeed
    <3>2. Rests(a, Free)
      BY <2>1, <3>1 DEF Rests, Exchanging
    <3>3. QED
      BY <1>1, <2>1, <3>2, RestsStored
  <2>5. QED
    BY <2>3, <2>4
<1>4. CASE SignOut(a) \/ TimeOut(a)
  <2>1. stored' \in {stored, None} /\ (left' \/ stored' = None)
    BY <1>4 DEF SignOut, TimeOut
  <2>2. QED
    BY <1>1, <1>4, <2>1, WritingGoes, KeptStored DEF Writing
<1>5. CASE Stop(a)
  <2>1. Goes(a, Free) /\ Free.step = "free"
    BY <1>5, EndIsFree DEF Stop, Ends, Free
  <2>2. CASE left'
    BY <1>1, <1>5, <2>1, <2>2, KeptStored DEF Stop
  <2>3. CASE ~ left'
    <3>1. UNCHANGED <<stored, left>>
      BY <1>5, <2>3 DEF Stop, Inv, SessionsTypeOK
    <3>2. ~ (call[a].step = "refused") /\ (call[a].step = "answered" => Gone(a))
      BY <1>5, <2>3 DEF Stop, Inv, Holds, Gone
    <3>3. Rests(a, Free)
      BY <2>1, <3>1, <3>2 DEF Rests, Exchanging
    <3>4. QED
      BY <1>1, <2>1, <3>3, RestsStored
  <2>4. QED
    BY <2>2, <2>3
<1>6. QED
  BY <1>2, <1>3, <1>4, <1>5 DEF Writing

LEMMA CreateStored ==
  ASSUME Inv, StorageInv, NEW a \in Apps, NEW s \in SessionIds, CreateSession(a, s)
  PROVE  StorageInv'
<1> DEFINE next == [call[a] EXCEPT !.step = "firstToken", !.session = s]
<1>1. call[a].step = "login" /\ session[s] = NoSession /\ UNCHANGED <<tokens, used, revoked, stored, left>>
      /\ \A r \in SessionIds \ {s} : session'[r] = session[r]
  BY DEF CreateSession, Inv, SessionsTypeOK
<1>2. next.step = "firstToken" /\ next.signed = call[a].signed /\ next.kind = call[a].kind
  BY <1>1, CallTyped DEF Inv, Call, Step
<1>3. call' = [call EXCEPT ![a] = next]
  BY DEF CreateSession
<1> HIDE DEF next
<1>4. call'[a] = next /\ \A b \in Apps \ {a} : call'[b] = call[b]
  BY <1>3 DEF Inv, SessionsTypeOK
<1>5. \A t \in tokens : Ended(t)' = Ended(t) /\ Live(t)' = Live(t)
  BY <1>1 DEF Inv, TokensHaveSession, SessionsTypeOK, Token, Ended, Live
<1>6. /\ stored \in tokens \cup {None} /\ revoked \subseteq tokens
      /\ \A b \in Apps : call[b].step \in Fresh => call[b].token \in tokens
  BY DEF Inv, SessionsTypeOK, Holds, Fresh
<1>7. RevokesOwn'
  BY <1>1, <1>2, <1>4, <1>5, <1>6 DEF StorageInv, RevokesOwn
<1>8. AnswersApart'
  BY <1>1, <1>2, <1>4 DEF StorageInv, AnswersApart, Knows, Exchanging, Fresh
<1>9. AnsweredIsLive'
  BY <1>2, <1>4, <1>5, <1>6 DEF StorageInv, AnsweredIsLive, Fresh
<1>10. (Noticed => Noticed') /\ (Abandoned(stored)' => Abandoned(stored))
  BY <1>1, <1>2, <1>4 DEF Noticed, Abandoned, Gone
<1>11. StaleIsNoticed'
  BY <1>1, <1>5, <1>6, <1>10 DEF StorageInv, StaleIsNoticed
<1>12. QED
  BY <1>7, <1>8, <1>9, <1>11 DEF StorageInv

\* A token nobody knows is inserted and answered, in exchange for another or for none.
LEMMA AnswerStored ==
  ASSUME Inv, StorageInv, NEW a \in Apps, NEW t \in Token, t \notin tokens,
         NEW step \in Fresh, Answer(a, step, t), tokens' = tokens \cup {t},
         \/ call[a].step = "issue" /\ step = "answered" /\ used' = used \cup {call[a].token}
         \/ call[a].step = "firstToken" /\ used' = used,
         UNCHANGED <<session, revoked, stored, left>>
  PROVE  StorageInv'
<1> DEFINE next == [call[a] EXCEPT !.step = step, !.token = t]
<1>1. call[a] \in Call /\ Holds(call[a])
  BY CallTyped DEF Inv, Step
<1>2. /\ next.step = step /\ next.token = t /\ next.signed = call[a].signed
      /\ next.kind = call[a].kind
  BY <1>1 DEF Call
<1>3. call' = [call EXCEPT ![a] = next]
  BY DEF Answer
<1> HIDE DEF next
<1>4. call'[a] = next /\ \A b \in Apps \ {a} : call'[b] = call[b]
  BY <1>3 DEF Inv, SessionsTypeOK
<1>5. /\ stored \in tokens \cup {None} /\ used \subseteq tokens /\ revoked \subseteq tokens
      /\ t # None
      /\ \A b \in Apps :
           /\ call[b].step \in Exchanging \cup Fresh => call[b].token \in tokens
           /\ call[b].signed \in tokens \cup {None}
  BY SessionsAssumption DEF Inv, SessionsTypeOK, Holds, Exchanging, Fresh
<1>6. Live(t)'
  BY <1>5 DEF Live, Exchanging
<1>7. RevokesOwn'
  BY <1>2, <1>4 DEF StorageInv, RevokesOwn, Fresh, Ended
<1>8. ASSUME NEW b \in Apps, call'[b].step \in Fresh
      PROVE  /\ stored' # call'[b].token /\ call'[b].signed # call'[b].token
             /\ \A c \in Apps \ {b} : ~ Knows(call[c], call[b].token)'
  <2>1. CASE b = a
    BY <1>2, <1>4, <1>5, <2>1 DEF Knows
  <2>2. CASE b # a
    <3>1. /\ call'[b] = call[b] /\ stored # call[b].token /\ call[b].signed # call[b].token
          /\ \A c \in Apps \ {b} : ~ Knows(call[c], call[b].token)
      BY <1>4, <1>8, <2>2 DEF StorageInv, AnswersApart
    <3>2. call[b].token # t
      BY <1>5, <1>8, <3>1
    <3>3. ~ Knows(next, call[b].token)
      BY <1>2, <2>2, <3>1, <3>2 DEF Knows
    <3>4. QED
      BY <1>4, <2>2, <3>1, <3>3 DEF Knows
  <2>3. QED
    BY <2>1, <2>2
<1>9. AnswersApart'
  BY <1>8 DEF AnswersApart
<1>10. ASSUME NEW b \in Apps, call'[b].step \in Fresh
       PROVE  (Live(call[b].token) \/ Ended(call[b].token))'
  <2>1. CASE b = a
    <3>1. call'[b].token = t
      BY <1>2, <1>4, <2>1
    <3>2. QED
      BY <1>6, <3>1 DEF Live
  <2>2. CASE b # a
    <3>1. call[b].step \in Fresh /\ call'[b] = call[b]
      BY <1>4, <1>10, <2>2
    <3>2. call[a].step = "issue" => call[a].token # call[b].token
      BY <2>2, <3>1 DEF StorageInv, AnswersApart, Knows, Exchanging
    <3>3. Live(call[b].token) => Live(call[b].token)'
      BY <3>1, <3>2 DEF Live
    <3>4. Ended(call[b].token) => Ended(call[b].token)'
      BY <3>1 DEF Ended
    <3>5. QED
      BY <3>1, <3>3, <3>4 DEF StorageInv, AnsweredIsLive
  <2>3. QED
    BY <2>1, <2>2
<1>11. AnsweredIsLive'
  BY <1>10 DEF AnsweredIsLive
<1>12. Noticed => Noticed'
  BY <1>4 DEF Noticed, Gone
<1>13. Abandoned(stored)' => Abandoned(stored)
  BY <1>2, <1>4 DEF Abandoned, Gone, Fresh
<1>14. ASSUME ~ left, stored # None, ~ Noticed'
       PROVE  Live(stored)' \/ Ended(stored)'
  <2>1. Live(stored) \/ Ended(stored)
    BY <1>12, <1>14 DEF StorageInv, StaleIsNoticed
  <2>2. call[a].step = "issue" => Gone(a)
    BY <1>2, <1>4, <1>14 DEF Noticed, Gone
  <2>3. call[a].step = "issue" => call[a].token # stored
    BY <1>14, <2>2 DEF StorageInv, StaleIsNoticed, Abandoned
  <2>4. QED
    BY <2>1, <2>3 DEF Live, Ended
<1>15. StaleIsNoticed'
  BY <1>13, <1>14 DEF StorageInv, StaleIsNoticed
<1>16. QED
  BY <1>7, <1>9, <1>11, <1>15 DEF StorageInv

LEMMA IssueStored ==
  ASSUME Inv, StorageInv, NEW a \in Apps, IssueFirst(a) \/ IssueNext(a)
  PROVE  StorageInv'
<1>1. CASE IssueFirst(a)
  <2>1. call[a].session \in SessionIds /\ \A u \in tokens : u.session # call[a].session
    BY <1>1 DEF IssueFirst, Inv, Holds
  <2>2. Signed(call[a].session) \in Token /\ Signed(call[a].session) \notin tokens
    BY <2>1, SignedTyped DEF Inv
  <2>3. QED
    BY <1>1, <2>2, AnswerStored DEF IssueFirst, Fresh
<1>2. CASE IssueNext(a) /\ Signed(call[a].session) \notin tokens
  <2>1. Signed(call[a].session) \in Token
    BY <1>2, TokenTyped, SignedTyped DEF IssueNext, Inv
  <2>2. QED
    BY <1>2, <2>1, AnswerStored DEF IssueNext, Fresh
<1>3. QED
  BY <1>1, <1>2, IssueGoes, QuietStored

\* A logout ends the session of every token it revokes.
LEMMA LogoutStored ==
  ASSUME Inv, StorageInv, NEW a \in Apps, CommitLogout(a)
  PROVE  StorageInv'
<1>1. /\ call[a].step = "logout" /\ call[a].session \in SessionIds
      /\ session' = [session EXCEPT ![call[a].session].active = FALSE]
      /\ revoked' = revoked \cup call[a].revoking /\ UNCHANGED <<tokens, used, stored, left>>
      /\ call[a].revoking \subseteq tokens /\ revoked \subseteq tokens
  BY DEF CommitLogout, Inv, Holds, SessionsTypeOK
<1>2. PICK next \in {Free, Refused} : Goes(a, next) /\ next.kind = "request"
  BY RefuseGoes DEF CommitLogout
<1>3. next.step \in {"free", "refused"} /\ next.signed = None
  BY DEF Free, Refused
<1>4. call'[a] = next /\ \A b \in Apps \ {a} : call'[b] = call[b]
  BY <1>2 DEF Goes, Inv, SessionsTypeOK
<1>5. \A r \in SessionIds :
        /\ ~ session[r].active => ~ session'[r].active
        /\ r = call[a].session => ~ session'[r].active
  BY <1>1 DEF Inv, SessionsTypeOK, Session, NoSession
<1>6. \A t \in call[a].revoking : t.session = call[a].session
  BY <1>1 DEF StorageInv, RevokesOwn
<1>7. \A t \in tokens : t.session \in SessionIds
  BY DEF Inv, SessionsTypeOK, Token
<1>8. \A t \in tokens : Live(t) \/ Ended(t) => Live(t)' \/ Ended(t)'
  BY <1>1, <1>5, <1>6, <1>7 DEF Live, Ended
<1>9. \A b \in Apps : call[b].step \in Fresh => call[b].token \in tokens /\ call[b].token # None
  BY SessionsAssumption DEF Inv, Holds, Fresh, SessionsTypeOK
<1>10. RevokesOwn'
  BY <1>1, <1>3, <1>4, <1>5, <1>6, <1>7 DEF StorageInv, RevokesOwn, Ended
<1>11. AnswersApart'
  BY <1>1, <1>3, <1>4, <1>9 DEF StorageInv, AnswersApart, Knows, Exchanging, Fresh
<1>12. AnsweredIsLive'
  BY <1>3, <1>4, <1>8, <1>9 DEF StorageInv, AnsweredIsLive, Fresh
<1>13. (Noticed => Noticed') /\ (Abandoned(stored)' => Abandoned(stored))
  BY <1>1, <1>2, <1>3, <1>4 DEF Noticed, Abandoned, Gone
<1>14. StaleIsNoticed'
  BY <1>1, <1>8, <1>13 DEF StorageInv, StaleIsNoticed, Inv, SessionsTypeOK
<1>15. QED
  BY <1>10, <1>11, <1>12, <1>14 DEF StorageInv

LEMMA StorageStarts == SessionsInit => StorageInv
  BY DEF SessionsInit, StorageInv, RevokesOwn, AnswersApart, AnsweredIsLive, StaleIsNoticed,
         Free, Fresh

LEMMA NextStored == ASSUME Inv, StorageInv, [SessionsNext]_vars PROVE StorageInv'
<1>1. CASE Tick \/ UNCHANGED vars
  BY <1>1 DEF Tick, vars, serverVars, StorageInv, RevokesOwn, AnswersApart, AnsweredIsLive,
              StaleIsNoticed, Noticed, Abandoned, Gone, Knows, Live, Ended
<1>2. QED
  BY <1>1, NextIs, QuietStored, WritingStored, CreateStored, IssueStored, LogoutStored

\* No race of refreshes, sign-ins and logouts, no lost answer and no refresh inside another
\* leaves a token in the client's storage that has been exchanged, once nothing is under
\* way, except by a write that fails, a client that stops before it and the second write of
\* a sign-in (AuthInterceptor.onError, AuthRepositoryImpl.login, AuthService.refresh).
THEOREM StoredIsLiveHolds == SessionsSpec => []StoredIsLive
<1>1. StorageInv => StoredIsLive
  BY DEF StorageInv, StaleIsNoticed, StoredIsLive, Noticed, Free, Ended
<1>2. QED
  BY <1>1, StorageStarts, InitHolds, NextHolds, NextStored, PTL DEF SessionsSpec
-----------------------------------------------------------------------------
\* The sessions as a family of tokens.

\* A session waits for its first token while it is active, and only one that has tokens is
\* ended: a logout cannot come before the sign-in is done.
EndsOpened ==
  \A a \in Apps :
    /\ call[a].step = "firstToken" => session[call[a].session].active
    /\ call[a].step = "logout" => \E t \in tokens : t.session = call[a].session

\* Steps that leave the tables alone start no sign-in, and a logout only of such a session.
LEMMA GoesEnds ==
  ASSUME Inv, EndsOpened, NEW a \in Apps, NEW next, Goes(a, next),
         UNCHANGED <<session, tokens>>
  PROVE  EndsOpened'
<1>1. call'[a] = next /\ \A b \in Apps \ {a} : call'[b] = call[b]
  BY DEF Goes, Inv, SessionsTypeOK
<1>2. next.step # "firstToken" /\ (next.step = "logout" => \E t \in tokens : t.session = next.session)
  BY DEF Goes, EndsOpened
<1>3. QED
  BY <1>1, <1>2 DEF EndsOpened

LEMMA ClientEnds ==
  ASSUME Inv, EndsOpened, NEW a \in Apps, Quiet(a) \/ Writing(a)
  PROVE  EndsOpened'
<1>1. UNCHANGED <<session, tokens>>
  BY DEF Quiet, ReadRegister, Login, CommitRegister, FindToken, MarkUsed, IssueNext, BeginLogout,
         Send, Unauthorized, Reject, Fail, Writing, StoreSignIn, Succeed, Store, SignOut, TimeOut,
         Stop, serverVars
<1>2. QED
  BY <1>1, QuietGoes, WritingGoes, GoesEnds

LEMMA AnswerEnds ==
  ASSUME Inv, EndsOpened, NEW a \in Apps, NEW t, NEW step \in Fresh, Answer(a, step, t),
         call[a].step \in Step, UNCHANGED session, tokens \subseteq tokens'
  PROVE  EndsOpened'
<1> DEFINE next == [call[a] EXCEPT !.step = step, !.token = t]
<1>1. next.step = step
  BY CallTyped DEF Inv, Call
<1>2. call' = [call EXCEPT ![a] = next]
  BY DEF Answer
<1> HIDE DEF next
<1>3. call'[a] = next /\ \A b \in Apps \ {a} : call'[b] = call[b]
  BY <1>2 DEF Inv, SessionsTypeOK
<1>4. QED
  BY <1>1, <1>3 DEF EndsOpened, Fresh

LEMMA CreateEnds ==
  ASSUME Inv, EndsOpened, NEW a \in Apps, NEW s \in SessionIds, CreateSession(a, s)
  PROVE  EndsOpened'
<1> DEFINE next == [call[a] EXCEPT !.step = "firstToken", !.session = s]
<1>1. /\ call[a].step = "login" /\ session[s] = NoSession /\ UNCHANGED tokens
      /\ session'[s].active /\ \A r \in SessionIds \ {s} : session'[r] = session[r]
  BY DEF CreateSession, Inv, SessionsTypeOK
<1>2. next.step = "firstToken" /\ next.session = s
  BY <1>1, CallTyped DEF Inv, Call, Step
<1>3. call' = [call EXCEPT ![a] = next]
  BY DEF CreateSession
<1> HIDE DEF next
<1>4. call'[a] = next /\ \A b \in Apps \ {a} : call'[b] = call[b]
  BY <1>3 DEF Inv, SessionsTypeOK
<1>5. ASSUME NEW b \in Apps
      PROVE  /\ call'[b].step = "firstToken" => session'[call'[b].session].active
             /\ call'[b].step = "logout" => \E t \in tokens' : t.session = call'[b].session
  <2>1. CASE b = a
    BY <1>1, <1>2, <1>4, <2>1
  <2>2. CASE b # a
    <3>1. call'[b] = call[b] /\ (call[b].step = "firstToken" => call[b].session \in SessionIds \ {s})
      BY <1>1, <1>4, <2>2 DEF Inv, Holds
    <3>2. QED
      BY <1>1, <3>1 DEF EndsOpened
  <2>3. QED
    BY <2>1, <2>2
<1>6. QED
  BY <1>5 DEF EndsOpened

\* The session a logout ends has a token, so no call still waits for its first.
LEMMA LogoutEnds ==
  ASSUME Inv, EndsOpened, NEW a \in Apps, CommitLogout(a)
  PROVE  EndsOpened'
<1> DEFINE s == call[a].session
<1>1. /\ call[a].step = "logout" /\ s \in SessionIds
      /\ session' = [session EXCEPT ![s].active = FALSE] /\ UNCHANGED tokens
  BY DEF CommitLogout, Inv, Holds
<1>2. PICK next \in {Free, Refused} : Goes(a, next)
  BY RefuseGoes DEF CommitLogout
<1>3. next.step \in {"free", "refused"}
  BY DEF Free, Refused
<1>4. call'[a] = next /\ \A b \in Apps \ {a} : call'[b] = call[b]
  BY <1>2 DEF Goes, Inv, SessionsTypeOK
<1>5. \A r \in SessionIds \ {s} : session'[r] = session[r]
  BY <1>1 DEF Inv, SessionsTypeOK
<1>6. \E t \in tokens : t.session = s
  BY <1>1 DEF EndsOpened
<1>7. ASSUME NEW b \in Apps, call[b].step = "firstToken"
      PROVE  call[b].session \in SessionIds \ {s}
  BY <1>6, <1>7 DEF Inv, Holds
<1>8. QED
  BY <1>1, <1>3, <1>4, <1>5, <1>7 DEF EndsOpened

LEMMA NextEnds == ASSUME Inv, EndsOpened, [SessionsNext]_vars PROVE EndsOpened'
<1>1. ASSUME NEW a \in Apps, IssueFirst(a) \/ (IssueNext(a) /\ Signed(call[a].session) \notin tokens)
      PROVE  EndsOpened'
  <2>1. call[a].step \in Step /\ UNCHANGED session /\ tokens \subseteq tokens'
    BY <1>1 DEF IssueFirst, IssueNext, Step
  <2>2. PICK step \in Fresh : Answer(a, step, Signed(call[a].session))
    BY <1>1 DEF IssueFirst, IssueNext, Fresh
  <2>3. QED
    BY <2>1, <2>2, AnswerEnds
<1>2. CASE Tick \/ UNCHANGED vars
  BY <1>2 DEF Tick, vars, serverVars, EndsOpened
<1>3. QED
  BY <1>1, <1>2, NextIs, IssueGoes, ClientEnds, CreateEnds, LogoutEnds

-----------------------------------------------------------------------------
Phases == [s \in SessionIds |-> Phase(s)]

\* A step that writes none of these tables is no step of the family.
LEMMA FamilyRests == ASSUME UNCHANGED <<session, tokens, used, revoked>>
                     PROVE  UNCHANGED Family!family
  BY DEF Family!family, Phase, Accepted, Live

LEMMA OpenStep ==
  ASSUME Inv, NEW a \in Apps, NEW s \in SessionIds, CreateSession(a, s)
  PROVE  Family!Open(s)
<1>1. /\ session[s] = NoSession /\ UNCHANGED <<tokens, used, revoked>>
      /\ session'[s].active /\ \A r \in SessionIds \ {s} : session'[r] = session[r]
  BY DEF CreateSession, Inv, SessionsTypeOK
<1>2. \A t \in tokens : t.session \in SessionIds \ {s}
  BY <1>1 DEF Inv, TokensHaveSession, SessionsTypeOK, Token
<1>3. Phase(s) = "none"
  BY <1>1 DEF Phase, NoSession
<1>4. Phase(s)' = "first"
  BY <1>1, <1>2 DEF Phase, NoSession
<1>5. \A r \in SessionIds \ {s} : Phase(r)' = Phase(r)
  BY <1>1 DEF Phase
<1>6. Phases' = [Phases EXCEPT ![s] = "first"]
  BY <1>4, <1>5 DEF Phases
<1>7. Accepted' = Accepted
  BY <1>1, <1>2 DEF Accepted, Live
<1>8. QED
  BY <1>1, <1>3, <1>6, <1>7 DEF Family!Open, Phases

LEMMA FirstStep ==
  ASSUME Inv, EndsOpened, NEW a \in Apps, IssueFirst(a)
  PROVE  \E s \in SessionIds : \E t \in {u \in Token \ tokens : u.session = s} : Family!First(s, t)
<1>0. PICK s \in SessionIds : s = call[a].session
  BY DEF IssueFirst, Inv, Holds
<1>1. session[s] # NoSession /\ session[s].active /\ \A u \in tokens : u.session # s
  BY <1>0 DEF IssueFirst, Inv, Holds, EndsOpened
<1>2. PICK t \in Token : t = Signed(s) /\ t.session = s
  BY SignedTyped DEF Inv
<1>3. tokens' = tokens \cup {t} /\ UNCHANGED <<session, used, revoked>>
  BY <1>0, <1>2 DEF IssueFirst
<1>4. t \notin tokens /\ used \subseteq tokens /\ revoked \subseteq tokens
  BY <1>1, <1>2 DEF Inv, SessionsTypeOK
<1>5. Phase(s) = "first"
  BY <1>1 DEF Phase
<1>6. Phase(s)' = "open"
  BY <1>1, <1>2, <1>3 DEF Phase
<1>7. \A r \in SessionIds \ {s} : Phase(r)' = Phase(r)
  BY <1>2, <1>3 DEF Phase
<1>8. Phases' = [Phases EXCEPT ![s] = "open"]
  BY <1>6, <1>7 DEF Phases
<1>9. Accepted' = Accepted \cup {t}
  BY <1>1, <1>2, <1>3, <1>4 DEF Accepted, Live
<1>10. Family!First(s, t)
  BY <1>1, <1>3, <1>4, <1>5, <1>8, <1>9 DEF Family!First, Family!Issue, Phases
<1>11. QED
  BY <1>1, <1>2, <1>10

\* An exchange is of a token that is accepted, or its session ended meanwhile.
LEMMA ExchangeStep ==
  ASSUME Inv, NEW a \in Apps, IssueNext(a)
  PROVE  \/ UNCHANGED Family!family
         \/ \E s \in SessionIds : \E t \in {u \in Token \ tokens : u.session = s} :
              Family!Late(s, t) \/ \E old \in Accepted : Family!Exchange(s, old, t)
<1> DEFINE s == call[a].session
           t == Signed(s)
           old == call[a].token
<1>1. /\ s \in SessionIds /\ old \in tokens /\ old \in Token /\ old.session = s /\ Live(old)
      /\ session[s] # NoSession
  BY TokenTyped DEF IssueNext, Inv, TokensHaveSession, CallsApart, ExchangedIsLive
<1>2. t \in Token /\ t.session = s
  BY <1>1, SignedTyped DEF Inv
<1>3. CASE t \in tokens
  BY <1>3, FamilyRests DEF IssueNext
<1>4. CASE t \notin tokens
  <2>1. tokens' = tokens \cup {t} /\ used' = used \cup {old} /\ UNCHANGED <<session, revoked>>
    BY <1>4 DEF IssueNext
  <2> HIDE DEF s, t, old
  <2>2. used \subseteq tokens /\ revoked \subseteq tokens
    BY DEF Inv, SessionsTypeOK
  <2>3. ASSUME NEW r \in SessionIds PROVE Phase(r)' = Phase(r)
    <3>1. (\A u \in tokens' : u.session # r) <=> (\A u \in tokens : u.session # r)
      BY <1>1, <1>2, <2>1
    <3>2. QED
      BY <2>1, <3>1 DEF Phase
  <2>4. Phases' = Phases
    BY <2>3 DEF Phases
  <2>5. CASE session[s].active
    <3>1. old \in Accepted
      BY <1>1, <2>5 DEF Accepted
    <3>2. Accepted' = (Accepted \ {old}) \cup {t}
      BY <1>1, <1>2, <1>4, <2>1, <2>2, <2>5 DEF Accepted, Live
    <3>3. Family!Exchange(s, old, t)
      BY <1>1, <1>4, <2>1, <2>4, <3>1, <3>2 DEF Family!Exchange, Family!Issue, Phases, SessionOf
    <3>4. QED
      BY <1>1, <1>2, <1>4, <3>1, <3>3
  <2>6. CASE ~ session[s].active
    <3>1. Phase(s) = "over"
      BY <1>1, <2>6 DEF Phase
    <3>2. Accepted' = Accepted
      BY <1>1, <1>2, <1>4, <2>1, <2>2, <2>6 DEF Accepted, Live
    <3>3. Family!Late(s, t)
      BY <1>1, <1>4, <2>1, <2>4, <3>1, <3>2 DEF Family!Late, Family!Issue, Phases
    <3>4. QED
      BY <1>1, <1>2, <1>4, <3>3
  <2>7. QED
    BY <2>5, <2>6
<1>5. QED
  BY <1>3, <1>4

LEMMA CloseStep ==
  ASSUME Inv, RevokesOwn, EndsOpened, NEW a \in Apps, CommitLogout(a)
  PROVE  UNCHANGED Family!family \/ \E s \in SessionIds : Family!Close(s)
<1>0. PICK s \in SessionIds : s = call[a].session
  BY DEF CommitLogout, Inv, Holds
<1>1. /\ call[a].step = "logout" /\ session[s] # NoSession
      /\ session' = [session EXCEPT ![s].active = FALSE]
      /\ revoked' = revoked \cup call[a].revoking /\ UNCHANGED <<tokens, used>>
  BY <1>0 DEF CommitLogout, Inv, Holds
<1>2. \A t \in call[a].revoking : t.session = s
  BY <1>0, <1>1 DEF RevokesOwn
<1>3. \E t \in tokens : t.session = s
  BY <1>0, <1>1 DEF EndsOpened
<1>4. /\ \A r \in SessionIds \ {s} : session'[r] = session[r]
      /\ session[s] \in Session
      /\ session'[s] = [session[s] EXCEPT !.active = FALSE]
  BY <1>1 DEF Inv, SessionsTypeOK
<1>5. session'[s] # NoSession /\ ~ session'[s].active
  BY <1>4, SessionsAssumption DEF Session, NoSession
<1>6. \A t \in tokens : t.session \in SessionIds
  BY DEF Inv, SessionsTypeOK, Token
<1>7. \A r \in SessionIds \ {s} : Phase(r)' = Phase(r)
  BY <1>1, <1>4 DEF Phase
<1>8. Phase(s)' = "over"
  BY <1>5 DEF Phase
<1>9. Phases' = [Phases EXCEPT ![s] = "over"]
  BY <1>1, <1>7, <1>8 DEF Phases
<1>10. Accepted' = {t \in Accepted : t.session # s}
  BY <1>1, <1>2, <1>4, <1>5, <1>6 DEF Accepted, Live
<1>11. CASE session[s].active
  <2>1. Phase(s) = "open"
    BY <1>1, <1>3, <1>11 DEF Phase
  <2>2. Family!Close(s)
    BY <1>1, <1>9, <1>10, <2>1 DEF Family!Close, Phases, SessionOf
  <2>3. QED
    BY <1>1, <2>2
<1>12. CASE ~ session[s].active
  <2>1. Phase(s) = "over"
    BY <1>1, <1>12 DEF Phase
  <2>2. Phases' = Phases
    BY <1>1, <1>7, <1>8, <2>1 DEF Phases
  <2>3. Accepted' = Accepted
    BY <1>10, <1>12 DEF Accepted
  <2>4. QED
    BY <1>1, <2>2, <2>3 DEF Family!family, Phases
<1>13. QED
  BY <1>11, <1>12

LEMMA FamilyStep ==
  ASSUME Inv, RevokesOwn, EndsOpened, [SessionsNext]_vars
  PROVE  [Family!FamilyNext]_(Family!family)
<1>1. ASSUME NEW a \in Apps, Quiet(a) \/ Writing(a)
      PROVE  UNCHANGED Family!family
  <2>1. UNCHANGED <<session, tokens, used, revoked>>
    BY <1>1 DEF Quiet, ReadRegister, Login, CommitRegister, FindToken, MarkUsed, IssueNext,
                BeginLogout, Send, Unauthorized, Reject, Fail, Writing, StoreSignIn, Succeed,
                Store, SignOut, TimeOut, Stop, serverVars
  <2>2. QED
    BY <2>1, FamilyRests
<1>2. CASE Tick \/ UNCHANGED vars
  BY <1>2, FamilyRests DEF Tick, vars, serverVars
<1>3. ASSUME NEW a \in Apps, NEW s \in SessionIds, CreateSession(a, s)
      PROVE  Family!FamilyNext
  BY <1>3, OpenStep DEF Family!FamilyNext
<1>4. ASSUME NEW a \in Apps, IssueFirst(a)
      PROVE  Family!FamilyNext
  BY <1>4, FirstStep DEF Family!FamilyNext, SessionOf
<1>5. ASSUME NEW a \in Apps, IssueNext(a)
      PROVE  [Family!FamilyNext]_(Family!family)
  BY <1>5, ExchangeStep DEF Family!FamilyNext, SessionOf
<1>6. ASSUME NEW a \in Apps, CommitLogout(a)
      PROVE  [Family!FamilyNext]_(Family!family)
  BY <1>6, CloseStep DEF Family!FamilyNext
<1>7. QED
  BY <1>1, <1>2, <1>3, <1>4, <1>5, <1>6, NextIs

LEMMA FamilyStarts == SessionsInit => Family!FamilyInit /\ EndsOpened
<1> SUFFICES ASSUME SessionsInit PROVE Family!FamilyInit /\ EndsOpened
  OBVIOUS
<1>1. \A s \in SessionIds : Phase(s) = "none"
  BY DEF SessionsInit, Phase, NoSession
<1>2. Accepted = {} /\ tokens = {}
  BY DEF SessionsInit, Accepted
<1>3. EndsOpened
  BY DEF SessionsInit, EndsOpened, Free
<1>4. QED
  BY <1>1, <1>2, <1>3 DEF Family!FamilyInit

\* AuthService implements a family of tokens: every step of a sign-in, a refresh or a
\* logout, however they interleave, opens a session, exchanges one accepted token for a
\* new one, ends a session with all it accepts, or changes nothing of these.
THEOREM FamilyImplemented == SessionsSpec => ImplementsFamily
<1>1. StorageInv => RevokesOwn
  BY DEF StorageInv
<1>2. QED
  BY <1>1, InitHolds, NextHolds, StorageStarts, NextStored, NextEnds, FamilyStarts, FamilyStep, PTL
     DEF SessionsSpec, ImplementsFamily, Family!FamilySpec

\* What the family is for: a session accepts one token at a time, and none before its
\* first token is answered or after a logout.
THEOREM OneAcceptedHolds == SessionsSpec => []Family!OneAccepted
<1>1. ASSUME Inv PROVE Family!OneAccepted
  <2>1. \A t, u \in Accepted : t.session = u.session => t = u
    BY <1>1 DEF Inv, OneLiveToken, Accepted
  <2>2. ASSUME NEW t \in Accepted
        PROVE  t.session \in SessionIds /\ Phase(t.session) = "open"
    <3>1. t \in tokens /\ t.session \in SessionIds /\ session[t.session].active
      BY <1>1 DEF Accepted, Inv, SessionsTypeOK, Token
    <3>2. session[t.session] # NoSession
      BY <3>1 DEF NoSession
    <3>3. QED
      BY <3>1, <3>2 DEF Phase
  <2>3. QED
    BY <2>1, <2>2 DEF Family!OneAccepted, SessionOf
<1>2. QED
  BY <1>1, InitHolds, NextHolds, PTL DEF SessionsSpec
=============================================================================
