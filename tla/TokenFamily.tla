----------------------------- MODULE TokenFamily -----------------------------
(***************************************************************************)
(* What signing in promises, whatever instances of the client, refreshes   *)
(* and logouts do at once: a session accepts one token at a time, each     *)
(* token is exchanged once, and for one never issued before, and a session *)
(* that is over accepts nothing any more.                                  *)
(***************************************************************************)
CONSTANTS
  Families,           \* the sessions
  Tokens,
  FamilyOf(_)         \* the session of a token

VARIABLES
  phase,              \* of each session
  accepted,           \* the tokens that can be exchanged
  issued              \* all there have been

family == <<phase, accepted, issued>>

FamilyInit ==
  /\ phase = [s \in Families |-> "none"]
  /\ accepted = {}
  /\ issued = {}

Open(s) ==
  /\ phase[s] = "none"
  /\ phase' = [phase EXCEPT ![s] = "first"]
  /\ UNCHANGED <<accepted, issued>>

\* A token is issued that was never there.
Issue(t) == t \notin issued /\ issued' = issued \cup {t}

First(s, t) ==
  /\ phase[s] = "first"
  /\ phase' = [phase EXCEPT ![s] = "open"]
  /\ Issue(t)
  /\ accepted' = accepted \cup {t}

Exchange(s, old, t) ==
  /\ old \in accepted /\ FamilyOf(old) = s
  /\ Issue(t)
  /\ accepted' = (accepted \ {old}) \cup {t}
  /\ UNCHANGED phase

Close(s) ==
  /\ phase[s] = "open"
  /\ phase' = [phase EXCEPT ![s] = "over"]
  /\ accepted' = {t \in accepted : FamilyOf(t) # s}
  /\ UNCHANGED issued

\* An exchange that comes too late issues a token nobody accepts.
Late(s, t) ==
  /\ phase[s] = "over"
  /\ Issue(t)
  /\ UNCHANGED <<phase, accepted>>

FamilyNext ==
  \E s \in Families :
    \/ Open(s)
    \/ Close(s)
    \/ \E t \in {u \in Tokens \ issued : FamilyOf(u) = s} :
         First(s, t) \/ Late(s, t) \/ \E old \in accepted : Exchange(s, old, t)

FamilySpec == FamilyInit /\ [][FamilyNext]_family

\* One token at a time, and none before the sign-in is done or after the end: the promise
\* of refresh and logout.
OneAccepted ==
  /\ \A t, u \in accepted : FamilyOf(t) = FamilyOf(u) => t = u
  /\ \A t \in accepted : phase[FamilyOf(t)] = "open"
=============================================================================
