--------------------------- MODULE DisputesProofs ---------------------------
(***************************************************************************)
(* Proofs about Loyalty and Disputes, for every set of users, calls,       *)
(* cases, payments and adjustments: a decision that stands has taken       *)
(* effect, once, and points stay within what was earned.  Both rest on one *)
(* fact about keys: a key says whose account it is for, so that two calls  *)
(* with one key wait for each other at that account.                       *)
(***************************************************************************)
EXTENDS Disputes, FiniteSetTheorems, WellFoundedInduction, TLAPS

-----------------------------------------------------------------------------
\* Rows, changes and transactions.

Account == [balance : Int, lifetime : Int]

Reasons == {a.reason : a \in Adjustments}

Key == ({"earn", "redeem"} \X Users \X Reasons) \cup ({"goodwill"} \X Cases)

\* Whose account a key is for.
Owner(key) == IF key[1] = "goodwill" THEN Customer ELSE key[2]

\* A change, which becomes a row.
Rows == {row \in [user : Users, points : Int, key : Key] : row.user = Owner(row.key)}

Award == [step : {"none", "read", "write", "commit"}, change : Rows \cup {None},
          before : Account \cup {None}]

LoyaltyTyped ==
  /\ account \in [Users -> Account]
  /\ rows \in Seq(Rows)
  /\ award \in [Calls -> Award]

\* A transaction knows its change, and the account once it has read it.
Shaped(a) ==
  /\ a.step # "none" => a.change \in Rows
  /\ a.step \in {"write", "commit"} => a.before \in Account

AwardsShaped == \A c \in Calls : Shaped(award[c])

\* Two calls never hold one account.
LocksHeld ==
  \A b, c \in Calls :
    b # c /\ award[b].step = "commit" /\ award[c].step = "commit"
      => award[b].change.user # award[c].change.user

\* A key is in one row, or on its way into one.
KeysUnique ==
  /\ \A i, j \in DOMAIN rows : rows[i].key = rows[j].key => i = j
  /\ \A c \in Calls : award[c].step = "commit" => KeyFree(award[c].change.key)

\* The inductive invariant of the transactions.
LoyaltyInv ==
  /\ LoyaltyTyped
  /\ AwardsShaped
  /\ LocksHeld
  /\ KeysUnique

-----------------------------------------------------------------------------
\* The transactions keep their invariant.

LEMMA GoodwillKeys ==
  \A key \in Key : key[1] = "goodwill" => key[2] \in Cases /\ key = <<"goodwill", key[2]>>
  BY DEF Key

LEMMA NoAwardTyped == NoAward \in Award /\ NoAward.step = "none" /\ Shaped(NoAward)
  BY DEF NoAward, Award, Shaped

\* A call goes from one transaction to another, without a new row.
LEMMA AwardKeeps ==
  ASSUME LoyaltyInv, NEW c \in Calls, NEW next \in Award, Shaped(next),
         award' = [award EXCEPT ![c] = next], UNCHANGED <<account, rows>>,
         next.step = "commit" =>
           KeyFree(next.change.key) /\ ~ Locked(c, next.change.user)
  PROVE  LoyaltyInv'
<1>1. award \in [Calls -> Award] /\ LoyaltyTyped /\ AwardsShaped /\ LocksHeld /\ KeysUnique
  BY DEF LoyaltyInv, LoyaltyTyped
<1>2. award'[c] = next /\ \A b \in Calls \ {c} : award'[b] = award[b]
  BY <1>1
<1>3. LoyaltyTyped'
  BY <1>1 DEF LoyaltyTyped
<1>4. AwardsShaped'
  BY <1>1, <1>2 DEF AwardsShaped, Shaped
<1>5. LocksHeld'
  BY <1>1, <1>2 DEF LocksHeld, Locked
<1>6. KeysUnique'
  <2>1. ASSUME NEW b \in Calls, award'[b].step = "commit"
        PROVE  KeyFree(award'[b].change.key)
    BY <1>1, <1>2, <2>1 DEF KeysUnique
  <2>2. \A b \in Calls : award'[b].step = "commit" =>
          \A i \in DOMAIN rows' : rows'[i].key # award'[b].change.key
    BY <2>1 DEF KeyFree
  <2>3. QED
    BY <1>1, <2>2 DEF KeysUnique, KeyFree
<1>7. QED
  BY <1>3, <1>4, <1>5, <1>6 DEF LoyaltyInv

LEMMA BeginAwardKeeps ==
  ASSUME LoyaltyInv, NEW c \in Calls, NEW change \in Rows, BeginAward(c, change),
         UNCHANGED <<account, rows>>
  PROVE  LoyaltyInv'
<1> DEFINE next == [step |-> "read", change |-> change, before |-> None]
<1>1. award' = [award EXCEPT ![c] = next]
  BY DEF BeginAward
<1>2. next \in Award /\ Shaped(next) /\ next.step = "read"
  BY DEF Award, Shaped
<1> HIDE DEF next
<1>3. QED
  BY <1>1, <1>2, AwardKeeps

LEMMA AdjustPointsKeeps ==
  ASSUME LoyaltyInv, NEW c \in Calls, NEW a \in Adjustments, AdjustPoints(c, a)
  PROVE  LoyaltyInv'
<1> DEFINE key == <<IF a.points > 0 THEN "earn" ELSE "redeem", a.user, a.reason>>
<1>1. a.user \in Users /\ a.points \in Int
  BY LoyaltyAssumption
<1>2. key \in Key /\ Owner(key) = a.user
  BY <1>1 DEF Key, Reasons, Owner
<1>3. BeginAward(c, Change(a.user, a.points, key)) /\ UNCHANGED <<account, rows>>
  BY DEF AdjustPoints
<1> HIDE DEF key
<1>4. Change(a.user, a.points, key) \in Rows
  BY <1>1, <1>2 DEF Change, Rows
<1>5. QED
  BY <1>3, <1>4, BeginAwardKeeps

LEMMA AbortAwardKeeps ==
  ASSUME LoyaltyInv, NEW c \in Calls, AbortAward(c)
  PROVE  LoyaltyInv'
  BY NoAwardTyped, AwardKeeps DEF AbortAward

LEMMA ReadAccountKeeps ==
  ASSUME LoyaltyInv, NEW c \in Calls, ReadAccount(c)
  PROVE  LoyaltyInv'
<1> DEFINE u == award[c].change.user
           next == [award[c] EXCEPT !.step = "write", !.before = account[u]]
<1>1. award[c] \in Award /\ award[c].change \in Rows /\ account \in [Users -> Account]
  BY DEF LoyaltyInv, LoyaltyTyped, AwardsShaped, Shaped, ReadAccount
<1>2. account[u] \in Account
  BY <1>1 DEF Rows
<1>3. next \in Award /\ Shaped(next) /\ next.step = "write"
  BY <1>1, <1>2 DEF Award, Shaped
<1>4. award' = [award EXCEPT ![c] = next] \/ award' = [award EXCEPT ![c] = NoAward]
  <2>1. award \in [Calls -> Award]
    BY DEF LoyaltyInv, LoyaltyTyped
  <2>2. QED
    BY <2>1 DEF ReadAccount
<1> HIDE DEF next
<1>5. UNCHANGED <<account, rows>>
  BY DEF ReadAccount
<1>6. QED
  BY <1>3, <1>4, <1>5, NoAwardTyped, AwardKeeps

LEMMA WriteAccountKeeps ==
  ASSUME LoyaltyInv, NEW c \in Calls, WriteAccount(c)
  PROVE  LoyaltyInv'
<1> DEFINE next == [award[c] EXCEPT !.step = "commit"]
<1>1. award[c] \in Award /\ Shaped(award[c]) /\ award \in [Calls -> Award]
  BY DEF LoyaltyInv, LoyaltyTyped, AwardsShaped
<1>2. next.step = "commit" /\ next.change = award[c].change /\ next.before = award[c].before
  BY <1>1 DEF Award
<1>3. next \in Award
  BY <1>1 DEF Award
<1>4. award' = [award EXCEPT ![c] = next]
  BY <1>1 DEF WriteAccount
<1> HIDE DEF next
<1>5. Shaped(next)
  BY <1>1, <1>2 DEF Shaped, WriteAccount
<1>6. QED
  BY <1>2, <1>3, <1>4, <1>5, AwardKeeps DEF WriteAccount

\* What a commit does: one row, and the account it is for.
LEMMA Committed ==
  ASSUME LoyaltyInv, NEW c \in Calls, CommitAward(c)
  PROVE  LET a == award[c] IN
         /\ a.step = "commit" /\ a.change \in Rows /\ a.before \in Account
         /\ KeyFree(a.change.key)
         /\ rows \in Seq(Rows) /\ rows' \in Seq(Rows) /\ rows' = Append(rows, a.change)
         /\ Len(rows) \in Nat /\ DOMAIN rows = 1 .. Len(rows) /\ DOMAIN rows' = 1 .. Len(rows) + 1
         /\ \A i \in DOMAIN rows : rows'[i] = rows[i]
         /\ rows'[Len(rows) + 1] = a.change
         /\ account' = [account EXCEPT ![a.change.user] = After(a.before, a.change.points)]
         /\ award'[c] = NoAward /\ \A b \in Calls \ {c} : award'[b] = award[b]
<1> DEFINE a == award[c]
<1>1. a.step = "commit" /\ a.change \in Rows /\ a.before \in Account /\ KeyFree(a.change.key)
      /\ rows \in Seq(Rows) /\ award \in [Calls -> Award]
  BY DEF LoyaltyInv, LoyaltyTyped, AwardsShaped, Shaped, KeysUnique, CommitAward
<1>2. rows' = Append(rows, a.change) /\ award' = [award EXCEPT ![c] = NoAward]
      /\ account' = [account EXCEPT ![a.change.user] = After(a.before, a.change.points)]
  BY DEF CommitAward
<1> HIDE DEF a
<1>3. /\ rows' \in Seq(Rows)
      /\ Len(rows) \in Nat /\ DOMAIN rows = 1 .. Len(rows) /\ DOMAIN rows' = 1 .. Len(rows) + 1
      /\ \A i \in DOMAIN rows : rows'[i] = rows[i]
      /\ rows'[Len(rows) + 1] = a.change
  BY <1>1, <1>2
<1>4. award'[c] = NoAward /\ \A b \in Calls \ {c} : award'[b] = award[b]
  BY <1>1, <1>2
<1>5. QED
  BY <1>1, <1>2, <1>3, <1>4 DEF a

LEMMA CommitKeeps ==
  ASSUME LoyaltyInv, NEW c \in Calls, CommitAward(c)
  PROVE  LoyaltyInv'
<1>1. award \in [Calls -> Award] /\ account \in [Users -> Account]
      /\ AwardsShaped /\ LocksHeld /\ KeysUnique
  BY DEF LoyaltyInv, LoyaltyTyped
<1>2. PICK a : a = award[c]
  OBVIOUS
<1>3. /\ a.step = "commit" /\ a.change \in Rows /\ a.before \in Account
      /\ KeyFree(a.change.key)
      /\ rows \in Seq(Rows) /\ rows' \in Seq(Rows)
      /\ Len(rows) \in Nat /\ DOMAIN rows = 1 .. Len(rows) /\ DOMAIN rows' = 1 .. Len(rows) + 1
      /\ \A i \in DOMAIN rows : rows'[i] = rows[i]
      /\ rows'[Len(rows) + 1] = a.change
      /\ account' = [account EXCEPT ![a.change.user] = After(a.before, a.change.points)]
      /\ award'[c] = NoAward /\ \A b \in Calls \ {c} : award'[b] = award[b]
  BY <1>2, Committed
<1>4. LoyaltyTyped'
  <2>1. a.change.points \in Int
    BY <1>3 DEF Rows
  <2>2. After(a.before, a.change.points) \in Account
    BY <1>3, <2>1 DEF After, Account
  <2>3. account' \in [Users -> Account]
    BY <1>1, <1>3, <2>2
  <2>4. award' \in [Calls -> Award]
    BY <1>1, NoAwardTyped DEF CommitAward
  <2>5. QED
    BY <1>3, <2>3, <2>4 DEF LoyaltyTyped
<1>5. AwardsShaped'
  BY <1>1, <1>3, NoAwardTyped DEF AwardsShaped, Shaped
<1>6. LocksHeld'
  BY <1>1, <1>3, NoAwardTyped DEF LocksHeld
<1>7. KeysUnique'
  <2>1. \A i \in DOMAIN rows : rows[i].key # a.change.key
    BY <1>3 DEF KeyFree
  <2>2. \A i \in DOMAIN rows' : i \in DOMAIN rows \/ i = Len(rows) + 1
    BY <1>3
  <2>3. ASSUME NEW i \in DOMAIN rows', NEW j \in DOMAIN rows', rows'[i].key = rows'[j].key
        PROVE  i = j
    BY <1>1, <1>3, <2>1, <2>2, <2>3 DEF KeysUnique
  <2>4. ASSUME NEW b \in Calls, award'[b].step = "commit", NEW i \in DOMAIN rows'
        PROVE  rows'[i].key # award'[b].change.key
    <3>1. b # c /\ award'[b] = award[b]
      BY <1>3, <2>4, NoAwardTyped
    <3>2. award[b].change \in Rows /\ KeyFree(award[b].change.key)
          /\ award[b].change.user # a.change.user
      BY <1>1, <1>2, <1>3, <2>4, <3>1 DEF AwardsShaped, Shaped, KeysUnique, LocksHeld
    <3>3. award[b].change.key # a.change.key
      BY <1>3, <3>2 DEF Rows
    <3>4. QED
      BY <1>3, <2>2, <3>1, <3>2, <3>3 DEF KeyFree
  <2>5. QED
    BY <2>3, <2>4 DEF KeysUnique, KeyFree
<1>8. QED
  BY <1>4, <1>5, <1>6, <1>7 DEF LoyaltyInv

LEMMA LoyaltyStill == ASSUME LoyaltyInv, UNCHANGED loyaltyVars PROVE LoyaltyInv'
  BY DEF LoyaltyInv, LoyaltyTyped, AwardsShaped, Shaped, LocksHeld, KeysUnique, KeyFree, loyaltyVars

LEMMA GetAccountKeeps == ASSUME LoyaltyInv, NEW u \in Users, GetAccount(u) PROVE LoyaltyInv'
<1>1. account' = [account EXCEPT ![u] = [balance |-> 0, lifetime |-> 0]] /\ UNCHANGED <<rows, award>>
  BY DEF GetAccount
<1>2. [balance |-> 0, lifetime |-> 0] \in Account
  BY DEF Account
<1>3. LoyaltyTyped'
  BY <1>1, <1>2 DEF LoyaltyInv, LoyaltyTyped
<1>4. QED
  BY <1>1, <1>3 DEF LoyaltyInv, AwardsShaped, Shaped, LocksHeld, KeysUnique, KeyFree

LEMMA LoyaltyStarts == LoyaltyInit => LoyaltyInv
<1> SUFFICES ASSUME LoyaltyInit PROVE LoyaltyInv
  OBVIOUS
<1>1. account = [u \in Users |-> NoAccount] /\ rows = <<>> /\ award = [c \in Calls |-> NoAward]
  BY DEF LoyaltyInit
<1>2. NoAccount \in Account
  BY DEF NoAccount, Account
<1>3. LoyaltyTyped
  BY <1>1, <1>2, NoAwardTyped DEF LoyaltyTyped
<1>4. AwardsShaped /\ LocksHeld /\ KeysUnique
  BY <1>1, NoAwardTyped DEF AwardsShaped, LocksHeld, KeysUnique
<1>5. QED
  BY <1>3, <1>4 DEF LoyaltyInv

-----------------------------------------------------------------------------
\* The desk: what a call in flight is about.

TicketStatus ==
  {"NONE", "OPEN", "IN_PROGRESS", "WAITING_FOR_CUSTOMER", "RESOLVED"} \cup Statuses

DeskStep == {"free", "message", "open", "dispute", "respond", "refund", "commitRefund",
             "goodwill", "decide", "resolveTicket"}

Dispute == [status : {"NONE", "OPEN", "UNDER_REVIEW", "DECIDED"},
            payment : PaymentIds \cup {None}, decision : Decisions \cup {None}, points : Nat]

Desk == [step : DeskStep, case : Cases \cup {None}, payment : PaymentIds \cup {None},
         decision : Decisions \cup {None}, points : Nat, status : TicketStatus \cup {None}]

DeskTyped ==
  /\ payment \in [PaymentIds -> {"INITIATED", "CAPTURED", "REFUNDED"}]
  /\ ticket \in [Cases -> TicketStatus]
  /\ dispute \in [Cases -> Dispute]
  /\ desk \in [Calls -> Desk]

\* A call names its case, a refund its payment, a decision itself.
Named(d) ==
  /\ d.step \notin {"free", "open"} => d.case \in Cases
  /\ d.step = "message" => d.status \in TicketStatus
  /\ d.step \in {"refund", "commitRefund"} => d.payment \in PaymentIds
  /\ d.step \in {"refund", "commitRefund"} => d.decision \in Refunding \cap Decisions
  /\ d.step = "goodwill" => d.decision = "GOODWILL_CREDIT" /\ d.decision \in Decisions
  /\ d.step = "decide" => d.decision \in Decisions

DeskNamed == \A c \in Calls : Named(desk[c])

DeskInv == DeskTyped /\ DeskNamed

LEMMA DeskStill == ASSUME DeskInv, UNCHANGED deskVars PROVE DeskInv'
  BY DEF DeskInv, DeskTyped, DeskNamed, deskVars

\* A call that goes to another step.
LEMMA DeskKeeps ==
  ASSUME DeskInv, NEW c \in Calls, NEW next \in Desk, Named(next),
         desk' = [desk EXCEPT ![c] = next],
         payment' \in [PaymentIds -> {"INITIATED", "CAPTURED", "REFUNDED"}],
         ticket' \in [Cases -> TicketStatus],
         dispute' \in [Cases -> Dispute]
  PROVE  DeskInv'
<1>1. desk \in [Calls -> Desk] /\ DeskNamed
  BY DEF DeskInv, DeskTyped
<1>2. desk' \in [Calls -> Desk] /\ desk'[c] = next
      /\ \A b \in Calls \ {c} : desk'[b] = desk[b]
  BY <1>1
<1>3. DeskNamed'
  <2>1. \A b \in Calls : Named(desk'[b])
    BY <1>1, <1>2 DEF DeskNamed
  <2>2. QED
    BY <2>1 DEF DeskNamed, Named
<1>4. QED
  BY <1>2, <1>3 DEF DeskInv, DeskTyped

LEMMA FreeTyped == Free \in Desk /\ Named(Free)
  BY DEF Free, Desk, DeskStep, Named

\* A call of a step of its own moves on, with the same case, payment and decision.
LEMMA ThenTyped ==
  ASSUME NEW d \in Desk, Named(d), NEW step \in DeskStep
  PROVE  LET next == [d EXCEPT !.step = step] IN
         /\ next \in Desk /\ next.step = step /\ next.case = d.case
         /\ next.payment = d.payment /\ next.decision = d.decision
  BY DEF Desk

LEMMA StatusTyped ==
  ASSUME NEW d \in Dispute, NEW status \in {"NONE", "OPEN", "UNDER_REVIEW", "DECIDED"},
         NEW decision \in Decisions \cup {None}, NEW points \in Nat
  PROVE  /\ [d EXCEPT !.status = status] \in Dispute
         /\ [d EXCEPT !.status = status, !.decision = decision, !.points = points] \in Dispute
  BY DEF Dispute

LEMMA SupportDesk == ASSUME DeskInv, SupportStep PROVE DeskInv'
<1>1. /\ ticket \in [Cases -> TicketStatus] /\ desk \in [Calls -> Desk] /\ DeskNamed
      /\ payment \in [PaymentIds -> {"INITIATED", "CAPTURED", "REFUNDED"}]
      /\ dispute \in [Cases -> Dispute]
  BY DEF DeskInv, DeskTyped
<1>2. ASSUME NEW t \in Cases, CreateTicket(t)
      PROVE  DeskInv'
  BY <1>1, <1>2 DEF CreateTicket, DeskInv, DeskTyped, DeskNamed, TicketStatus
<1>3. ASSUME NEW t \in Cases, NEW status \in Statuses, UpdateTicketStatus(t, status)
      PROVE  DeskInv'
  BY <1>1, <1>3 DEF UpdateTicketStatus, DeskInv, DeskTyped, DeskNamed, TicketStatus
<1>4. ASSUME NEW t \in Cases, NEW c \in Calls, ReadTicket(c, t)
      PROVE  DeskInv'
  <2> DEFINE next == [Free EXCEPT !.step = "message", !.case = t, !.status = ticket[t]]
  <2>1. desk' = [desk EXCEPT ![c] = next] /\ UNCHANGED <<payment, ticket, dispute>>
    BY <1>4 DEF ReadTicket, Begin
  <2>2. next \in Desk /\ Named(next)
    BY <1>1 DEF Free, Desk, DeskStep, Named
  <2> HIDE DEF next
  <2>3. QED
    BY <1>1, <2>1, <2>2, DeskKeeps
<1>5. ASSUME NEW c \in Calls, NEW role \in Roles, CommitMessage(c, role)
      PROVE  DeskInv'
  <2> DEFINE status ==
        IF role = "CUSTOMER"
        THEN IF desk[c].status = "WAITING_FOR_CUSTOMER" THEN "IN_PROGRESS" ELSE desk[c].status
        ELSE "WAITING_FOR_CUSTOMER"
  <2>1. /\ desk[c].step = "message" /\ ticket' = [ticket EXCEPT ![desk[c].case] = status]
        /\ desk' = [desk EXCEPT ![c] = Free] /\ UNCHANGED <<payment, dispute>>
    BY <1>5 DEF CommitMessage, End
  <2>2. status \in TicketStatus
    BY <1>1, <2>1 DEF DeskNamed, Named, TicketStatus
  <2> HIDE DEF status
  <2>3. ticket' \in [Cases -> TicketStatus]
    BY <1>1, <2>1, <2>2
  <2>4. QED
    BY <1>1, <2>1, <2>3, FreeTyped, DeskKeeps
<1>6. QED
  BY <1>2, <1>3, <1>4, <1>5 DEF SupportStep

LEMMA DisputeDesk == ASSUME DeskInv, NEW c \in Calls, DisputeStep(c) PROVE DeskInv'
<1>1. /\ ticket \in [Cases -> TicketStatus] /\ desk \in [Calls -> Desk]
      /\ payment \in [PaymentIds -> {"INITIATED", "CAPTURED", "REFUNDED"}]
      /\ dispute \in [Cases -> Dispute]
  BY DEF DeskInv, DeskTyped
<1>2. desk[c] \in Desk /\ Named(desk[c])
  BY <1>1 DEF DeskInv, DeskNamed
<1>3. ASSUME NEW p \in PaymentIds \cup {None}, ReadDisputes(c, p)
      PROVE  DeskInv'
  <2> DEFINE next == [Free EXCEPT !.step = "open", !.payment = p]
  <2>1. desk' = [desk EXCEPT ![c] = next] /\ UNCHANGED <<payment, ticket, dispute>>
    BY <1>3 DEF ReadDisputes, Begin
  <2>2. next \in Desk /\ Named(next)
    BY <1>3 DEF Free, Desk, DeskStep, Named
  <2> HIDE DEF next
  <2>3. QED
    BY <1>1, <2>1, <2>2, DeskKeeps
<1>4. ASSUME NEW t \in Cases, OpenTicket(c, t)
      PROVE  DeskInv'
  <2> DEFINE next == [desk[c] EXCEPT !.step = "dispute", !.case = t]
  <2>1. /\ desk' = [desk EXCEPT ![c] = next] /\ UNCHANGED <<payment, dispute>>
        /\ ticket' = [ticket EXCEPT ![t] = "OPEN"]
    BY <1>1, <1>4 DEF OpenTicket, Desk
  <2>2. next \in Desk /\ Named(next)
    BY <1>2 DEF Desk, DeskStep, Named
  <2> HIDE DEF next
  <2>3. ticket' \in [Cases -> TicketStatus]
    BY <1>1, <2>1 DEF TicketStatus
  <2>4. QED
    BY <1>1, <2>1, <2>2, <2>3, DeskKeeps
<1>5. ASSUME NEW t \in Cases, RespondDispute(c, t)
      PROVE  DeskInv'
  <2> DEFINE next == [Free EXCEPT !.step = "respond", !.case = t]
             after == [dispute[t] EXCEPT !.status = "UNDER_REVIEW"]
  <2>1. /\ desk' = [desk EXCEPT ![c] = next] /\ UNCHANGED <<payment, ticket>>
        /\ dispute' = [dispute EXCEPT ![t] = after]
    BY <1>5 DEF RespondDispute, Begin
  <2>2. next \in Desk /\ Named(next)
    BY DEF Free, Desk, DeskStep, Named
  <2>3. dispute[t] \in Dispute
    BY <1>1, <1>5
  <2>4. after \in Dispute
    BY <2>3 DEF Dispute
  <2> HIDE DEF next, after
  <2>5. dispute' \in [Cases -> Dispute]
    BY <1>1, <2>1, <2>4
  <2>6. QED
    BY <1>1, <2>1, <2>2, <2>5, DeskKeeps
<1>6. CASE OpenDispute(c)
  <2> DEFINE after == [NoDispute EXCEPT !.status = "OPEN", !.payment = desk[c].payment]
  <2>1. /\ desk' = [desk EXCEPT ![c] = Free] /\ UNCHANGED <<payment, ticket>>
        /\ dispute' = [dispute EXCEPT ![desk[c].case] = after]
    BY <1>6 DEF OpenDispute, End
  <2>2. after \in Dispute
    BY <1>2 DEF Dispute, Desk, NoDispute
  <2> HIDE DEF after
  <2>3. dispute' \in [Cases -> Dispute]
    BY <1>1, <2>1, <2>2
  <2>4. QED
    BY <1>1, <2>1, <2>3, FreeTyped, DeskKeeps
<1>7. CASE RespondTicket(c)
  <2>1. /\ desk' = [desk EXCEPT ![c] = Free] /\ UNCHANGED <<payment, dispute>>
        /\ ticket' = [ticket EXCEPT ![desk[c].case] = "IN_PROGRESS"]
    BY <1>7 DEF RespondTicket, End
  <2>2. ticket' \in [Cases -> TicketStatus]
    BY <1>1, <2>1 DEF TicketStatus
  <2>3. QED
    BY <1>1, <2>1, <2>2, FreeTyped, DeskKeeps
<1>8. QED
  BY <1>3, <1>4, <1>5, <1>6, <1>7 DEF DisputeStep

LEMMA ResolveDesk == ASSUME DeskInv, NEW c \in Calls, ResolveStep(c) PROVE DeskInv'
<1>1. /\ ticket \in [Cases -> TicketStatus] /\ desk \in [Calls -> Desk]
      /\ payment \in [PaymentIds -> {"INITIATED", "CAPTURED", "REFUNDED"}]
      /\ dispute \in [Cases -> Dispute]
  BY DEF DeskInv, DeskTyped
<1>2. desk[c] \in Desk /\ Named(desk[c])
  BY <1>1 DEF DeskInv, DeskNamed
<1>3. ASSUME NEW t \in Cases, NEW decision \in Decisions, NEW p \in PaymentIds \cup {None},
             NEW points \in GoodwillPoints \cup {0}, ReadResolve(c, t, decision, p, points)
      PROVE  DeskInv'
  <2> DEFINE next == [Free EXCEPT !.step = FirstStep(decision, points), !.case = t,
                                  !.decision = decision, !.payment = p, !.points = points]
  <2>1. desk' = [desk EXCEPT ![c] = next] /\ UNCHANGED <<payment, ticket, dispute>>
    BY <1>3 DEF ReadResolve, Begin
  <2>2. decision \in Refunding => p \in PaymentIds
    <3>1. dispute[t].payment \in PaymentIds \cup {None}
      BY <1>1, <1>3 DEF Dispute
    <3>2. QED
      BY <1>3, <3>1 DEF ReadResolve, Captured
  <2>3. /\ next.step = FirstStep(decision, points) /\ next.case = t /\ next.decision = decision
        /\ next.payment = p /\ next.status = None /\ next.points = points
        /\ FirstStep(decision, points) \in {"refund", "goodwill", "decide"}
    BY DEF Free, FirstStep
  <2>4. next \in Desk
    <3>1. points \in Nat
      BY <1>3, DisputesAssumption
    <3>2. FirstStep(decision, points) \in DeskStep
      BY <2>3 DEF DeskStep
    <3>3. QED
      BY <1>3, <3>1, <3>2 DEF Free, Desk
  <2> HIDE DEF next
  <2>5. Named(next)
    BY <1>3, <2>2, <2>3 DEF Named, FirstStep, Refunding
  <2>6. QED
    BY <1>1, <2>1, <2>4, <2>5, DeskKeeps
<1>4. ASSUME NEW step \in DeskStep, Then(c, step),
             Named([desk[c] EXCEPT !.step = step]),
             payment' \in [PaymentIds -> {"INITIATED", "CAPTURED", "REFUNDED"}],
             UNCHANGED ticket, dispute' \in [Cases -> Dispute]
      PROVE  DeskInv'
  <2> DEFINE next == [desk[c] EXCEPT !.step = step]
  <2>1. desk' = [desk EXCEPT ![c] = next] /\ Named(next)
    BY <1>4 DEF Then
  <2>2. next \in Desk
    BY <1>2, <1>4, ThenTyped
  <2> HIDE DEF next
  <2>3. QED
    BY <1>1, <1>4, <2>1, <2>2, DeskKeeps
<1>5. /\ desk[c].step = "refund" => Named([desk[c] EXCEPT !.step = "commitRefund"])
      /\ desk[c].step \in {"commitRefund", "goodwill"} => Named([desk[c] EXCEPT !.step = "decide"])
      /\ desk[c].step = "decide" => Named([desk[c] EXCEPT !.step = "resolveTicket"])
  <2>1. \A step \in DeskStep :
          LET next == [desk[c] EXCEPT !.step = step] IN
          /\ next.step = step /\ next.case = desk[c].case
          /\ next.payment = desk[c].payment /\ next.decision = desk[c].decision
    BY <1>2, ThenTyped
  <2>2. desk[c].decision \in Decisions \cup {None} /\ None \notin Decisions
    BY <1>2, DisputesAssumption DEF Desk
  <2>3. CASE desk[c].step = "refund"
    <3>1. "commitRefund" \in DeskStep
      BY DEF DeskStep
    <3>2. QED
      BY <1>2, <2>1, <2>3, <3>1 DEF Named
  <2>4. CASE desk[c].step \in {"commitRefund", "goodwill"}
    <3>1. "decide" \in DeskStep
      BY DEF DeskStep
    <3>2. QED
      BY <1>2, <2>1, <2>2, <2>4, <3>1 DEF Named
  <2>5. CASE desk[c].step = "decide"
    <3>1. "resolveTicket" \in DeskStep
      BY DEF DeskStep
    <3>2. QED
      BY <1>2, <2>1, <2>5, <3>1 DEF Named
  <2>6. QED
    BY <2>3, <2>4, <2>5
<1>6. CASE ReadRefund(c)
  BY <1>1, <1>4, <1>5, <1>6 DEF ReadRefund, DeskStep
<1>7. CASE CommitRefund(c)
  <2>1. desk[c].step = "commitRefund" /\ Then(c, "decide") /\ UNCHANGED <<ticket, dispute>>
        /\ payment' = [payment EXCEPT ![desk[c].payment] = "REFUNDED"]
    BY <1>7 DEF CommitRefund, Refund
  <2>2. payment' \in [PaymentIds -> {"INITIATED", "CAPTURED", "REFUNDED"}]
    BY <1>1, <2>1
  <2>3. QED
    BY <1>1, <1>4, <1>5, <2>1, <2>2 DEF DeskStep
<1>8. CASE AwardGoodwill(c)
  BY <1>1, <1>4, <1>5, <1>8 DEF AwardGoodwill, DeskStep
<1>9. CASE Decide(c)
  <2> DEFINE t == desk[c].case
             after == [dispute[t] EXCEPT !.status = "DECIDED", !.decision = desk[c].decision,
                                         !.points = desk[c].points]
  <2>1. /\ desk[c].step = "decide" /\ Then(c, "resolveTicket") /\ UNCHANGED <<payment, ticket>>
        /\ dispute' = [dispute EXCEPT ![t].status = "DECIDED", ![t].decision = desk[c].decision,
                                      ![t].points = desk[c].points]
    BY <1>9 DEF Decide
  <2>2. t \in Cases /\ desk[c].decision \in Decisions /\ desk[c].points \in Nat
    BY <1>2, <2>1 DEF Named, Desk
  <2>3. dispute[t] \in Dispute
    BY <1>1, <2>2
  <2>4. after \in Dispute
    BY <2>2, <2>3, StatusTyped
  <2>5. dispute' = [dispute EXCEPT ![t] = after]
    BY <1>1, <2>1, <2>2, <2>3 DEF Dispute
  <2> HIDE DEF after, t
  <2>6. dispute' \in [Cases -> Dispute]
    BY <1>1, <2>4, <2>5
  <2>7. QED
    BY <1>1, <1>4, <1>5, <2>1, <2>6 DEF DeskStep
<1>10. CASE ResolveTicket(c)
  <2>1. /\ desk' = [desk EXCEPT ![c] = Free] /\ UNCHANGED <<payment, dispute>>
        /\ ticket' = [ticket EXCEPT ![desk[c].case] = "RESOLVED"]
    BY <1>10 DEF ResolveTicket, End
  <2>2. ticket' \in [Cases -> TicketStatus]
    BY <1>1, <2>1 DEF TicketStatus
  <2>3. QED
    BY <1>1, <2>1, <2>2, FreeTyped, DeskKeeps
<1>11. QED
  BY <1>3, <1>6, <1>7, <1>8, <1>9, <1>10 DEF ResolveStep

LEMMA OtherDesk ==
  ASSUME DeskInv,
         \/ \E c \in Calls : FailCall(c) \/ FailAward(c)
         \/ PointsStep
         \/ \E p \in PaymentIds : CapturedElsewhere(p) \/ RefundedElsewhere(p)
  PROVE  DeskInv'
<1>1. /\ ticket \in [Cases -> TicketStatus] /\ desk \in [Calls -> Desk] /\ DeskNamed
      /\ payment \in [PaymentIds -> {"INITIATED", "CAPTURED", "REFUNDED"}]
      /\ dispute \in [Cases -> Dispute]
  BY DEF DeskInv, DeskTyped
<1>2. ASSUME NEW c \in Calls, FailCall(c) \/ FailAward(c)
      PROVE  DeskInv'
  <2>1. desk' = [desk EXCEPT ![c] = Free] /\ UNCHANGED <<payment, ticket, dispute>>
    BY <1>2 DEF FailCall, FailAward, End
  <2>2. QED
    BY <1>1, <2>1, FreeTyped, DeskKeeps
<1>3. CASE PointsStep
  BY <1>3, DeskStill DEF PointsStep
<1>4. ASSUME NEW p \in PaymentIds, CapturedElsewhere(p) \/ RefundedElsewhere(p)
      PROVE  DeskInv'
  BY <1>1, <1>4 DEF CapturedElsewhere, RefundedElsewhere, Refund, DeskInv, DeskTyped, DeskNamed
<1>5. QED
  BY <1>2, <1>3, <1>4

LEMMA DeskNext == ASSUME DeskInv, [DisputesNext]_vars PROVE DeskInv'
<1>1. CASE UNCHANGED vars
  BY <1>1, DeskStill DEF vars
<1>2. QED
  BY <1>1, SupportDesk, DisputeDesk, ResolveDesk, OtherDesk DEF DisputesNext

\* What a step does to the points: nothing, or one step of a transaction.
LEMMA LoyaltyNext == ASSUME LoyaltyInv, DeskInv, [DisputesNext]_vars PROVE LoyaltyInv'
<1>1. CASE UNCHANGED vars
  BY <1>1, LoyaltyStill DEF vars
<1>2. CASE SupportStep
  BY <1>2, LoyaltyStill
     DEF SupportStep, CreateTicket, UpdateTicketStatus, ReadTicket, CommitMessage
<1>3. ASSUME NEW c \in Calls, DisputeStep(c)
      PROVE  LoyaltyInv'
  BY <1>3, LoyaltyStill
     DEF DisputeStep, ReadDisputes, OpenTicket, RespondDispute, OpenDispute, RespondTicket
<1>4. ASSUME NEW c \in Calls, ResolveStep(c)
      PROVE  LoyaltyInv'
  <2>1. CASE AwardGoodwill(c)
    <3>1. /\ desk[c].step = "goodwill" /\ UNCHANGED <<account, rows>>
          /\ BeginAward(c, Change(Customer, desk[c].points, GoodwillKey(c)))
      BY <2>1 DEF AwardGoodwill
    <3>2. desk[c].case \in Cases /\ desk[c].points \in Nat
      BY <3>1 DEF DeskInv, DeskTyped, DeskNamed, Named, Desk
    <3>3. GoodwillKey(c) \in Key /\ Owner(GoodwillKey(c)) = Customer
      BY <3>2 DEF GoodwillKey, Key, Owner
    <3>4. Change(Customer, desk[c].points, GoodwillKey(c)) \in Rows
      BY <3>2, <3>3, DisputesAssumption DEF Change, Rows
    <3>5. QED
      BY <3>1, <3>4, BeginAwardKeeps
  <2>2. CASE UNCHANGED loyaltyVars
    BY <2>2, LoyaltyStill
  <2>3. QED
    BY <1>4, <2>1, <2>2
       DEF ResolveStep, ReadResolve, ReadRefund, CommitRefund, Decide, ResolveTicket
<1>5. ASSUME NEW c \in Calls, FailCall(c) \/ FailAward(c)
      PROVE  LoyaltyInv'
  BY <1>5, LoyaltyStill, AbortAwardKeeps DEF FailCall, FailAward
<1>6. CASE PointsStep
  <2>1. ASSUME NEW u \in Users, GetAccount(u)
        PROVE  LoyaltyInv'
    BY <2>1, GetAccountKeeps
  <2>2. ASSUME NEW c \in Calls, NEW a \in Adjustments, AdjustPoints(c, a)
        PROVE  LoyaltyInv'
    BY <2>2, AdjustPointsKeeps
  <2>3. ASSUME NEW c \in Calls, AwardStep(c)
        PROVE  LoyaltyInv'
    BY <2>3, ReadAccountKeeps, WriteAccountKeeps, CommitKeeps DEF AwardStep
  <2>4. QED
    BY <1>6, <2>1, <2>2, <2>3 DEF PointsStep
<1>7. ASSUME NEW p \in PaymentIds, CapturedElsewhere(p) \/ RefundedElsewhere(p)
      PROVE  LoyaltyInv'
  BY <1>7, LoyaltyStill DEF CapturedElsewhere, RefundedElsewhere
<1>8. QED
  BY <1>1, <1>2, <1>3, <1>4, <1>5, <1>6, <1>7 DEF DisputesNext

LEMMA Starts == DisputesInit => LoyaltyInv /\ DeskInv
<1> SUFFICES ASSUME DisputesInit PROVE LoyaltyInv /\ DeskInv
  OBVIOUS
<1>1. LoyaltyInv
  BY LoyaltyStarts DEF DisputesInit
<1>2. /\ payment = [p \in PaymentIds |-> "INITIATED"] /\ ticket = [t \in Cases |-> "NONE"]
      /\ dispute = [t \in Cases |-> NoDispute] /\ desk = [c \in Calls |-> Free]
  BY DEF DisputesInit
<1>3. NoDispute \in Dispute
  BY DEF NoDispute, Dispute
<1>4. DeskTyped
  BY <1>2, <1>3, FreeTyped DEF DeskTyped, TicketStatus
<1>5. DeskNamed
  BY <1>2, FreeTyped DEF DeskNamed
<1>6. QED
  BY <1>1, <1>4, <1>5 DEF DeskInv

\* Transactions and calls have their types, hold what they write, and know what they are
\* about, in every state.
THEOREM CasesInvariant == DisputesSpec => [](LoyaltyInv /\ DeskInv)
<1>1. (LoyaltyInv /\ DeskInv) /\ [DisputesNext]_vars => (LoyaltyInv /\ DeskInv)'
  BY LoyaltyNext, DeskNext
<1>2. QED
  BY <1>1, Starts, PTL DEF DisputesSpec

-----------------------------------------------------------------------------
\* A decision that stands has happened.

\* The goodwill row a call has yet to write or commit.
GoodwillDue(c) == award[c].step # "none" /\ award[c].change.key = GoodwillKey(c)

\* A call about to write its decision down: it took effect, or does so first.
Effective(c) ==
  /\ desk[c].decision \in Refunding => refunded # {}
  /\ desk[c].decision = "GOODWILL_CREDIT" /\ desk[c].points > 0 =>
       GoodwillRows(desk[c].case) # {} \/ GoodwillDue(c)

Decided(t) ==
  /\ dispute[t].decision \in Refunding => refunded # {}
  /\ dispute[t].decision = "GOODWILL_CREDIT" /\ dispute[t].points > 0 => GoodwillRows(t) # {}

TookEffect ==
  /\ \A t \in Cases : Decided(t)
  /\ \A c \in Calls : desk[c].step = "decide" => Effective(c)

CaseInv == LoyaltyInv /\ DeskInv /\ TookEffect

LEMMA NoneDecides == None \notin Refunding /\ None # "GOODWILL_CREDIT"
  BY DisputesAssumption DEF Refunding

\* What no step takes back: what was refunded, and the rows.
LEMMA NothingTakenBack ==
  ASSUME LoyaltyInv, [DisputesNext]_vars
  PROVE  /\ refunded # {} => refunded' # {}
         /\ \A t : GoodwillRows(t) # {} => GoodwillRows(t)' # {}
<1>1. refunded' = refunded \/ \E p : refunded' = refunded \cup {p}
  <2>1. ASSUME NEW c \in Calls, DisputeStep(c) \/ FailCall(c) \/ FailAward(c)
        PROVE  refunded' = refunded
    BY <2>1 DEF DisputeStep, ReadDisputes, OpenTicket, RespondDispute, OpenDispute, RespondTicket,
                FailCall, FailAward
  <2>2. ASSUME NEW c \in Calls, ResolveStep(c)
        PROVE  refunded' = refunded \/ \E p : refunded' = refunded \cup {p}
    BY <2>2 DEF ResolveStep, ReadResolve, ReadRefund, CommitRefund, Refund, AwardGoodwill, Decide,
                ResolveTicket
  <2>3. CASE SupportStep \/ PointsStep \/ UNCHANGED vars
    BY <2>3 DEF SupportStep, CreateTicket, UpdateTicketStatus, ReadTicket, CommitMessage,
                PointsStep, deskVars, vars
  <2>4. ASSUME NEW p \in PaymentIds, CapturedElsewhere(p) \/ RefundedElsewhere(p)
        PROVE  refunded' = refunded \/ refunded' = refunded \cup {p}
    BY <2>4 DEF CapturedElsewhere, RefundedElsewhere, Refund
  <2>5. QED
    BY <2>1, <2>2, <2>3, <2>4 DEF DisputesNext
<1>2. \A i \in DOMAIN rows : i \in DOMAIN rows' /\ rows'[i] = rows[i]
  <2>1. ASSUME NEW c \in Calls, AwardStep(c)
        PROVE  \A i \in DOMAIN rows : i \in DOMAIN rows' /\ rows'[i] = rows[i]
    <3>1. CASE CommitAward(c)
      <4>1. /\ Len(rows) \in Nat /\ DOMAIN rows = 1 .. Len(rows) /\ DOMAIN rows' = 1 .. Len(rows) + 1
            /\ \A i \in DOMAIN rows : rows'[i] = rows[i]
        BY <3>1, Committed
      <4>2. QED
        BY <4>1
    <3>2. QED
      BY <2>1, <3>1 DEF AwardStep, ReadAccount, WriteAccount
  <2>2. ASSUME NEW c \in Calls, DisputeStep(c) \/ FailCall(c) \/ FailAward(c) \/ ResolveStep(c)
        PROVE  rows' = rows
    BY <2>2 DEF DisputeStep, ReadDisputes, OpenTicket, RespondDispute, OpenDispute, RespondTicket,
                FailCall, FailAward, AbortAward, ResolveStep, ReadResolve, ReadRefund,
                CommitRefund, AwardGoodwill, Decide, ResolveTicket, loyaltyVars
  <2>3. CASE SupportStep \/ UNCHANGED vars
    BY <2>3 DEF SupportStep, CreateTicket, UpdateTicketStatus, ReadTicket, CommitMessage, vars,
                loyaltyVars
  <2>4. CASE PointsStep
    BY <2>1, <2>4 DEF PointsStep, GetAccount, AdjustPoints
  <2>5. ASSUME NEW p \in PaymentIds, CapturedElsewhere(p) \/ RefundedElsewhere(p)
        PROVE  rows' = rows
    BY <2>5 DEF CapturedElsewhere, RefundedElsewhere, loyaltyVars
  <2>6. QED
    BY <2>2, <2>3, <2>4, <2>5 DEF DisputesNext
<1>3. \A t : GoodwillRows(t) # {} => GoodwillRows(t)' # {}
  BY <1>2 DEF GoodwillRows
<1>4. QED
  BY <1>1, <1>3

\* What a step has to show: the decisions it writes, and the calls it moves.
LEMMA EffectKeeps ==
  ASSUME CaseInv, [DisputesNext]_vars,
         \A t \in Cases : \/ Decided(t)'
                          \/ dispute'[t].decision = None
                          \/ /\ dispute'[t].decision = dispute[t].decision
                             /\ dispute'[t].points = dispute[t].points,
         \A c \in Calls : desk'[c].step = "decide" =>
           \/ Effective(c)'
           \/ desk'[c] = desk[c] /\ award'[c] = award[c]
  PROVE  TookEffect'
<1>1. LoyaltyInv /\ DeskInv /\ TookEffect
  BY DEF CaseInv
<1>2. /\ refunded # {} => refunded' # {}
      /\ \A t : GoodwillRows(t) # {} => GoodwillRows(t)' # {}
  BY <1>1, NothingTakenBack
<1>3. ASSUME NEW t \in Cases
      PROVE  Decided(t)'
  <2>1. Decided(t)
    BY <1>1 DEF TookEffect
  <2>2. CASE dispute'[t].decision = dispute[t].decision /\ dispute'[t].points = dispute[t].points
    BY <1>2, <2>1, <2>2 DEF Decided
  <2>3. CASE dispute'[t].decision = None
    BY <2>3, NoneDecides DEF Decided
  <2>4. QED
    BY <2>2, <2>3
<1>4. ASSUME NEW c \in Calls, desk'[c].step = "decide"
      PROVE  Effective(c)'
  <2> SUFFICES ASSUME desk'[c] = desk[c], award'[c] = award[c] PROVE Effective(c)'
    BY <1>4
  <2>1. Effective(c)
    BY <1>1, <1>4 DEF TookEffect
  <2>2. GoodwillDue(c)' <=> GoodwillDue(c)
    BY DEF GoodwillDue, GoodwillKey
  <2>3. ASSUME NEW t, t = desk[c].case, desk[c].decision = "GOODWILL_CREDIT", desk[c].points > 0
        PROVE  GoodwillRows(t)' # {} \/ GoodwillDue(c)'
    BY <1>2, <2>1, <2>2, <2>3 DEF Effective
  <2>4. desk[c].decision = "GOODWILL_CREDIT" /\ desk[c].points > 0 =>
          GoodwillRows(desk[c].case)' # {} \/ GoodwillDue(c)'
    BY <2>3 DEF GoodwillRows
  <2>5. desk[c].decision \in Refunding => refunded' # {}
    BY <1>2, <2>1 DEF Effective
  <2>6. QED
    BY <2>4, <2>5 DEF Effective
<1>5. QED
  BY <1>3, <1>4 DEF TookEffect

LEMMA ResolveEffect ==
  ASSUME CaseInv, NEW c \in Calls, ResolveStep(c)
  PROVE  TookEffect'
<1>1. LoyaltyInv /\ DeskInv /\ TookEffect
  BY DEF CaseInv
<1>2. [DisputesNext]_vars
  BY DEF DisputesNext
<1>3. /\ desk \in [Calls -> Desk] /\ award \in [Calls -> Award] /\ dispute \in [Cases -> Dispute]
  BY <1>1 DEF DeskInv, DeskTyped, LoyaltyInv, LoyaltyTyped
<1>4. desk[c] \in Desk /\ Named(desk[c])
  BY <1>1, <1>3 DEF DeskInv, DeskNamed
<1>5. ASSUME NEW t \in Cases, NEW decision \in Decisions, NEW p \in PaymentIds \cup {None},
             NEW points \in GoodwillPoints \cup {0}, ReadResolve(c, t, decision, p, points)
      PROVE  TookEffect'
  <2> DEFINE next == [Free EXCEPT !.step = FirstStep(decision, points), !.case = t,
                                  !.decision = decision, !.payment = p, !.points = points]
  <2>1. desk' = [desk EXCEPT ![c] = next] /\ UNCHANGED <<refunded, dispute, rows, award>>
    BY <1>5 DEF ReadResolve, Begin, loyaltyVars
  <2>2. next.step = FirstStep(decision, points) /\ next.decision = decision /\ next.points = points
    BY DEF Free
  <2> HIDE DEF next
  <2>3. desk'[c] = next /\ \A b \in Calls \ {c} : desk'[b] = desk[b]
    BY <1>3, <2>1
  <2>4. desk'[c].step = "decide" => Effective(c)'
    BY <2>2, <2>3 DEF FirstStep, Effective
  <2>5. QED
    BY <1>2, <2>1, <2>3, <2>4, EffectKeeps
<1>6. CASE ReadRefund(c)
  <2>1. /\ desk' = [desk EXCEPT ![c].step = "commitRefund"]
        /\ UNCHANGED <<refunded, dispute, rows, award>>
    BY <1>6 DEF ReadRefund, Then, loyaltyVars
  <2>2. desk'[c].step = "commitRefund" /\ \A b \in Calls \ {c} : desk'[b] = desk[b]
    BY <1>3, <2>1 DEF Desk
  <2>3. QED
    BY <1>2, <2>1, <2>2, EffectKeeps
<1>7. CASE CommitRefund(c)
  <2>1. /\ desk[c].step = "commitRefund" /\ desk' = [desk EXCEPT ![c].step = "decide"]
        /\ refunded' = refunded \cup {desk[c].payment} /\ UNCHANGED <<dispute, rows, award>>
    BY <1>7 DEF CommitRefund, Refund, Then, loyaltyVars
  <2>2. desk[c].decision \in Refunding
    BY <1>4, <2>1 DEF Named
  <2>3. desk'[c].decision = desk[c].decision /\ \A b \in Calls \ {c} : desk'[b] = desk[b]
    BY <1>3, <2>1 DEF Desk
  <2>4. Effective(c)'
    BY <2>1, <2>2, <2>3 DEF Effective, Refunding
  <2>5. QED
    BY <1>2, <2>1, <2>3, <2>4, EffectKeeps
<1>8. CASE AwardGoodwill(c)
  <2> DEFINE change == Change(Customer, desk[c].points, GoodwillKey(c))
             next == [step |-> "read", change |-> change, before |-> None]
  <2>1. /\ desk[c].step = "goodwill" /\ desk' = [desk EXCEPT ![c].step = "decide"]
        /\ award' = [award EXCEPT ![c] = next]
        /\ UNCHANGED <<refunded, dispute, rows>>
    BY <1>8 DEF AwardGoodwill, BeginAward, Then
  <2>2. desk[c].decision = "GOODWILL_CREDIT"
    BY <1>4, <2>1 DEF Named
  <2>3. next.step = "read" /\ next.change.key = <<"goodwill", desk[c].case>>
    BY DEF Change, GoodwillKey
  <2> HIDE DEF next
  <2>4. /\ desk'[c].decision = desk[c].decision /\ desk'[c].case = desk[c].case
        /\ \A b \in Calls \ {c} : desk'[b] = desk[b] /\ award'[b] = award[b]
        /\ award'[c] = next
    BY <1>3, <2>1 DEF Desk
  <2>5. GoodwillDue(c)'
    BY <2>3, <2>4 DEF GoodwillDue, GoodwillKey
  <2>6. Effective(c)'
    BY <2>2, <2>4, <2>5 DEF Effective, Refunding
  <2>7. QED
    BY <1>2, <2>1, <2>4, <2>6, EffectKeeps
<1>9. CASE Decide(c)
  <2> DEFINE t == desk[c].case
  <2>1. /\ desk[c].step = "decide" /\ award[c] = NoAward
        /\ desk' = [desk EXCEPT ![c].step = "resolveTicket"]
        /\ dispute' = [dispute EXCEPT ![t].status = "DECIDED", ![t].decision = desk[c].decision,
                                      ![t].points = desk[c].points]
        /\ UNCHANGED <<refunded, rows, award>>
    BY <1>9 DEF Decide, Then, loyaltyVars
  <2>2. t \in Cases
    BY <1>4, <2>1 DEF Named
  <2>3. /\ dispute'[t].decision = desk[c].decision /\ dispute'[t].points = desk[c].points
        /\ \A u \in Cases \ {t} : dispute'[u] = dispute[u]
    BY <1>3, <2>1, <2>2 DEF Dispute
  <2>4. desk'[c].step = "resolveTicket" /\ \A b \in Calls \ {c} : desk'[b] = desk[b]
    BY <1>3, <2>1 DEF Desk
  <2>5. ~ GoodwillDue(c)
    BY <2>1, NoAwardTyped DEF GoodwillDue
  <2>6. Effective(c)
    BY <1>1, <2>1 DEF TookEffect
  <2>7. /\ desk[c].decision \in Refunding => refunded' # {}
        /\ desk[c].decision = "GOODWILL_CREDIT" /\ desk[c].points > 0 => GoodwillRows(t) # {}
    BY <2>1, <2>5, <2>6 DEF Effective
  <2>8. ASSUME NEW u \in Cases
        PROVE  \/ Decided(u)'
               \/ dispute'[u].decision = dispute[u].decision /\ dispute'[u].points = dispute[u].points
    <3>1. CASE u = t
      BY <2>1, <2>3, <2>7, <3>1 DEF Decided, GoodwillRows
    <3>2. CASE u # t
      BY <2>3, <3>2
    <3>3. QED
      BY <3>1, <3>2
  <2>9. QED
    BY <1>2, <2>1, <2>4, <2>8, EffectKeeps
<1>10. CASE ResolveTicket(c)
  <2>1. desk' = [desk EXCEPT ![c] = Free] /\ UNCHANGED <<refunded, dispute, rows, award>>
    BY <1>10 DEF ResolveTicket, End, loyaltyVars
  <2>2. desk'[c].step = "free" /\ \A b \in Calls \ {c} : desk'[b] = desk[b]
    BY <1>3, <2>1 DEF Free
  <2>3. QED
    BY <1>2, <2>1, <2>2, EffectKeeps
<1>11. QED
  BY <1>5, <1>6, <1>7, <1>8, <1>9, <1>10 DEF ResolveStep

LEMMA PointsEffect ==
  ASSUME CaseInv, PointsStep
  PROVE  TookEffect'
<1>1. LoyaltyInv /\ DeskInv /\ TookEffect
  BY DEF CaseInv
<1>2. [DisputesNext]_vars /\ UNCHANGED <<refunded, dispute, desk>>
  BY DEF DisputesNext, PointsStep, deskVars
<1>3. award \in [Calls -> Award]
  BY <1>1 DEF LoyaltyInv, LoyaltyTyped
<1>4. ASSUME NEW u \in Users, GetAccount(u)
      PROVE  TookEffect'
  BY <1>2, <1>4, EffectKeeps DEF GetAccount
<1>5. ASSUME NEW c \in Calls, desk[c] = Free, NEW a \in Adjustments, AdjustPoints(c, a)
      PROVE  TookEffect'
  <2>1. \A b \in Calls \ {c} : award'[b] = award[b]
    BY <1>3, <1>5 DEF AdjustPoints, BeginAward
  <2>2. desk'[c].step = "free"
    BY <1>2, <1>5 DEF Free
  <2>3. QED
    BY <1>2, <2>1, <2>2, EffectKeeps
<1>6. ASSUME NEW c \in Calls, AwardStep(c)
      PROVE  TookEffect'
  <2> DEFINE t == desk[c].case
  <2>0. PICK key : key = <<"goodwill", t>>
    OBVIOUS
  <2>1. \A b \in Calls \ {c} : award'[b] = award[b]
    BY <1>3, <1>6 DEF AwardStep, ReadAccount, WriteAccount, CommitAward
  <2>2. GoodwillKey(c) = key /\ GoodwillKey(c)' = key
    BY <1>2, <2>0 DEF GoodwillKey
  <2>3. KeyFree(key) \/ GoodwillRows(t) # {}
    BY <2>0 DEF KeyFree, GoodwillRows
  <2>4. /\ refunded # {} => refunded' # {}
        /\ \A u : GoodwillRows(u) # {} => GoodwillRows(u)' # {}
    BY <1>1, <1>2, NothingTakenBack
  <2>5. ASSUME NEW u, u = t, GoodwillRows(u) = {}, GoodwillDue(c)
        PROVE  GoodwillRows(u)' # {} \/ GoodwillDue(c)'
    <3>1. award[c] \in Award /\ award[c].change.key = key /\ KeyFree(key)
      BY <1>3, <2>2, <2>3, <2>5 DEF GoodwillDue
    <3>2. CASE ReadAccount(c) \/ WriteAccount(c)
      <4>1. \/ award' = [award EXCEPT ![c] = [award[c] EXCEPT !.step = "write",
                                       !.before = account[award[c].change.user]]]
            \/ award' = [award EXCEPT ![c] = [award[c] EXCEPT !.step = "commit"]]
        BY <1>3, <3>1, <3>2 DEF ReadAccount, WriteAccount
      <4>2. award'[c].change = award[c].change /\ award'[c].step \in {"write", "commit"}
        <5>1. PICK a \in Award : a = award[c]
          BY <3>1
        <5>2. PICK before : before = account[a.change.user]
          OBVIOUS
        <5>3. \/ award'[c] = [a EXCEPT !.step = "write", !.before = before]
              \/ award'[c] = [a EXCEPT !.step = "commit"]
          BY <1>3, <4>1, <5>1, <5>2
        <5>4. /\ [a EXCEPT !.step = "write", !.before = before].change = a.change
              /\ [a EXCEPT !.step = "commit"].change = a.change
              /\ [a EXCEPT !.step = "write", !.before = before].step = "write"
              /\ [a EXCEPT !.step = "commit"].step = "commit"
          BY DEF Award
        <5>5. QED
          BY <5>1, <5>3, <5>4
      <4>3. award'[c].step # "none" /\ award'[c].change.key = <<"goodwill", desk'[c].case>>
        BY <1>2, <2>0, <3>1, <4>2
      <4>4. QED
        BY <4>3 DEF GoodwillDue, GoodwillKey
    <3>3. CASE CommitAward(c)
      <4>1. /\ Len(rows) \in Nat /\ DOMAIN rows' = 1 .. Len(rows) + 1
            /\ rows'[Len(rows) + 1] = award[c].change
        BY <1>1, <3>3, Committed
      <4>2. Len(rows) + 1 \in DOMAIN rows'
        BY <4>1
      <4>3. QED
        BY <2>0, <2>5, <3>1, <4>1, <4>2 DEF GoodwillRows
    <3>4. QED
      BY <1>6, <3>2, <3>3 DEF AwardStep
  <2>6. ASSUME desk[c].step = "decide"
        PROVE  Effective(c)'
    <3>1. Effective(c)
      BY <1>1, <2>6 DEF TookEffect
    <3>2. ASSUME NEW u, u = t, desk[c].decision = "GOODWILL_CREDIT", desk[c].points > 0
          PROVE  GoodwillRows(u)' # {} \/ GoodwillDue(c)'
      BY <2>4, <2>5, <3>1, <3>2 DEF Effective
    <3>3. QED
      BY <1>2, <2>4, <3>1, <3>2 DEF Effective, GoodwillRows
  <2>7. QED
    BY <1>2, <2>1, <2>6, EffectKeeps
<1>7. QED
  BY <1>4, <1>5, <1>6 DEF PointsStep

LEMMA EffectNext == ASSUME CaseInv, [DisputesNext]_vars PROVE TookEffect'
<1>1. desk \in [Calls -> Desk] /\ dispute \in [Cases -> Dispute]
  BY DEF CaseInv, DeskInv, DeskTyped
<1>2. CASE UNCHANGED vars
  BY <1>2, EffectKeeps DEF vars, deskVars, loyaltyVars
<1>3. ASSUME NEW c \in Calls, NEW next, next.step \notin {"decide"},
             desk' = [desk EXCEPT ![c] = next], UNCHANGED <<refunded, rows, award>>,
             \A t \in Cases :
               \/ dispute'[t].decision = None
               \/ dispute'[t].decision = dispute[t].decision /\ dispute'[t].points = dispute[t].points
      PROVE  TookEffect'
  <2>1. desk'[c].step # "decide" /\ \A b \in Calls \ {c} : desk'[b] = desk[b]
    BY <1>1, <1>3
  <2>2. QED
    BY <1>3, <2>1, EffectKeeps
<1>4. CASE SupportStep
  <2>1. ASSUME NEW t \in Cases, CreateTicket(t) \/ \E status \in Statuses : UpdateTicketStatus(t, status)
        PROVE  TookEffect'
    BY <2>1, EffectKeeps DEF CreateTicket, UpdateTicketStatus, loyaltyVars
  <2>2. ASSUME NEW t \in Cases, NEW c \in Calls, ReadTicket(c, t)
        PROVE  TookEffect'
    <3> DEFINE next == [Free EXCEPT !.step = "message", !.case = t, !.status = ticket[t]]
    <3>1. desk' = [desk EXCEPT ![c] = next] /\ UNCHANGED <<refunded, rows, award, dispute>>
      BY <2>2 DEF ReadTicket, Begin, loyaltyVars
    <3>2. next.step = "message"
      BY DEF Free
    <3> HIDE DEF next
    <3>3. QED
      BY <1>3, <3>1, <3>2
  <2>3. ASSUME NEW c \in Calls, NEW role \in Roles, CommitMessage(c, role)
        PROVE  TookEffect'
    <3>1. desk' = [desk EXCEPT ![c] = Free] /\ UNCHANGED <<refunded, rows, award, dispute>>
      BY <2>3 DEF CommitMessage, End, loyaltyVars
    <3>2. QED
      BY <1>3, <3>1 DEF Free
  <2>4. QED
    BY <1>4, <2>1, <2>2, <2>3 DEF SupportStep
<1>5. ASSUME NEW c \in Calls, DisputeStep(c)
      PROVE  TookEffect'
  <2>1. ASSUME NEW p \in PaymentIds \cup {None}, ReadDisputes(c, p)
        PROVE  TookEffect'
    <3> DEFINE next == [Free EXCEPT !.step = "open", !.payment = p]
    <3>1. desk' = [desk EXCEPT ![c] = next] /\ UNCHANGED <<refunded, rows, award, dispute>>
      BY <2>1 DEF ReadDisputes, Begin, loyaltyVars
    <3>2. next.step = "open"
      BY DEF Free
    <3> HIDE DEF next
    <3>3. QED
      BY <1>3, <3>1, <3>2
  <2>2. ASSUME NEW t \in Cases, OpenTicket(c, t)
        PROVE  TookEffect'
    <3> DEFINE next == [desk[c] EXCEPT !.step = "dispute", !.case = t]
    <3>1. desk' = [desk EXCEPT ![c] = next] /\ UNCHANGED <<refunded, rows, award, dispute>>
      BY <1>1, <2>2 DEF OpenTicket, loyaltyVars, Desk
    <3>2. next.step = "dispute"
      BY <1>1 DEF Desk
    <3> HIDE DEF next
    <3>3. QED
      BY <1>3, <3>1, <3>2
  <2>3. ASSUME NEW t \in Cases, RespondDispute(c, t)
        PROVE  TookEffect'
    <3> DEFINE next == [Free EXCEPT !.step = "respond", !.case = t]
    <3>1. /\ desk' = [desk EXCEPT ![c] = next] /\ UNCHANGED <<refunded, rows, award>>
          /\ dispute' = [dispute EXCEPT ![t].status = "UNDER_REVIEW"]
      BY <2>3 DEF RespondDispute, Begin, loyaltyVars
    <3>2. next.step = "respond"
      BY DEF Free
    <3>3. \A u \in Cases : /\ dispute'[u].decision = dispute[u].decision
                          /\ dispute'[u].points = dispute[u].points
      BY <1>1, <3>1 DEF Dispute
    <3> HIDE DEF next
    <3>4. QED
      BY <1>3, <3>1, <3>2, <3>3
  <2>4. CASE OpenDispute(c)
    <3>1. /\ desk' = [desk EXCEPT ![c] = Free] /\ UNCHANGED <<refunded, rows, award>>
          /\ dispute' = [dispute EXCEPT ![desk[c].case] =
               [NoDispute EXCEPT !.status = "OPEN", !.payment = desk[c].payment]]
      BY <2>4 DEF OpenDispute, End, loyaltyVars
    <3>2. \A u \in Cases : dispute'[u].decision = None \/ dispute'[u] = dispute[u]
      BY <1>1, <3>1 DEF NoDispute
    <3>3. QED
      BY <1>3, <3>1, <3>2 DEF Free
  <2>5. CASE RespondTicket(c)
    <3>1. desk' = [desk EXCEPT ![c] = Free] /\ UNCHANGED <<refunded, rows, award, dispute>>
      BY <2>5 DEF RespondTicket, End, loyaltyVars
    <3>2. QED
      BY <1>3, <3>1 DEF Free
  <2>6. QED
    BY <1>5, <2>1, <2>2, <2>3, <2>4, <2>5 DEF DisputeStep
<1>6. ASSUME NEW c \in Calls, FailCall(c)
      PROVE  TookEffect'
  <2>1. desk' = [desk EXCEPT ![c] = Free] /\ UNCHANGED <<refunded, rows, award, dispute>>
    BY <1>6 DEF FailCall, End, loyaltyVars
  <2>2. QED
    BY <1>3, <2>1 DEF Free
<1>7. ASSUME NEW c \in Calls, FailAward(c)
      PROVE  TookEffect'
  <2>1. /\ desk' = [desk EXCEPT ![c] = Free] /\ award' = [award EXCEPT ![c] = NoAward]
        /\ UNCHANGED <<refunded, rows, dispute>>
    BY <1>7 DEF FailAward, AbortAward, End
  <2>2. award \in [Calls -> Award]
    BY DEF CaseInv, LoyaltyInv, LoyaltyTyped
  <2>3. desk'[c].step = "free" /\ \A b \in Calls \ {c} : desk'[b] = desk[b] /\ award'[b] = award[b]
    BY <1>1, <2>1, <2>2 DEF Free
  <2>4. QED
    BY <2>1, <2>3, EffectKeeps DEF DisputesNext
<1>8. ASSUME NEW p \in PaymentIds, CapturedElsewhere(p) \/ RefundedElsewhere(p)
      PROVE  TookEffect'
  <2>1. UNCHANGED <<dispute, desk, award>> /\ [DisputesNext]_vars
    BY <1>8 DEF CapturedElsewhere, RefundedElsewhere, loyaltyVars, DisputesNext
  <2>2. QED
    BY <2>1, EffectKeeps
<1>9. QED
  BY <1>2, <1>4, <1>5, <1>6, <1>7, <1>8, ResolveEffect, PointsEffect DEF DisputesNext

\* One key, one row: the points of a dispute are given once.
LEMMA GoodwillOnce == ASSUME LoyaltyInv, NEW t PROVE Cardinality(GoodwillRows(t)) <= 1
<1>1. KeysUnique /\ rows \in Seq(Rows)
  BY DEF LoyaltyInv, LoyaltyTyped
<1>2. ASSUME NEW i \in GoodwillRows(t), NEW j \in GoodwillRows(t)
      PROVE  i = j
  <2>1. rows[i].key \in Key /\ rows[j].key \in Key
    BY <1>1 DEF GoodwillRows, Rows
  <2>2. rows[i].key = <<"goodwill", t>> /\ rows[j].key = <<"goodwill", t>>
    <3>1. rows[i].key[1] = "goodwill" /\ rows[i].key[2] = t
          /\ rows[j].key[1] = "goodwill" /\ rows[j].key[2] = t
      BY DEF GoodwillRows
    <3>2. \A key \in Key : key[1] = "goodwill" => key = <<"goodwill", key[2]>>
      BY GoodwillKeys
    <3>3. QED
      BY <2>1, <3>1, <3>2
  <2>3. QED
    BY <1>1, <2>2 DEF KeysUnique, GoodwillRows
<1>3. CASE GoodwillRows(t) = {}
  BY <1>3, FS_EmptySet
<1>4. CASE GoodwillRows(t) # {}
  <2>1. PICK i : i \in GoodwillRows(t)
    BY <1>4
  <2>2. GoodwillRows(t) = {i}
    BY <1>2, <2>1
  <2>3. Cardinality({i}) = 1
    BY FS_Singleton
  <2>4. QED
    BY <2>2, <2>3
<1>5. QED
  BY <1>3, <1>4

\* A decision that stands in a dispute has happened, and its points are given once, however
\* the calls of administrators, partners and customers interleave and wherever they fail.
THEOREM DecisionHolds == DisputesSpec => []DecisionTookEffect
<1>1. DisputesInit => CaseInv
  <2> SUFFICES ASSUME DisputesInit PROVE CaseInv
    OBVIOUS
  <2>1. \A t \in Cases : dispute[t].decision = None
    BY DEF DisputesInit, NoDispute
  <2>2. \A c \in Calls : desk[c].step = "free"
    BY DEF DisputesInit, Free
  <2>3. TookEffect
    BY <2>1, <2>2, NoneDecides DEF TookEffect, Decided
  <2>4. QED
    BY <2>3, Starts DEF CaseInv
<1>2. CaseInv /\ [DisputesNext]_vars => CaseInv'
  BY LoyaltyNext, DeskNext, EffectNext DEF CaseInv
<1>3. CaseInv => DecisionTookEffect
  BY GoodwillOnce DEF CaseInv, TookEffect, Decided, DecisionTookEffect
<1>4. QED
  BY <1>1, <1>2, <1>3, PTL DEF DisputesSpec

-----------------------------------------------------------------------------
\* Sums over rows.  Induction over data is by the least number that breaks it.

LEMMA Least == ASSUME NEW T \in SUBSET Nat, T # {} PROVE \E m \in T : \A n \in T : m <= n
<1> DEFINE R == {ss \in Nat \X Nat : ss[1] < ss[2]}
<1>0. R = OpToRel(<, Nat)
  BY DEF OpToRel
<1>1. IsWellFoundedOn(OpToRel(<, Nat), Nat)
  BY NatLessThanWellFounded
<1>2. IsWellFoundedOn(R, Nat)
  BY <1>0, <1>1
<1>3. \E x \in T : \A y \in T : ~ (<<y, x>> \in R)
  <2> HIDE DEF R
  <2> QED BY <1>2, WFMin
<1>4. PICK m \in T : \A n \in T : ~ (<<n, m>> \in R)
  BY <1>3
<1>5. ASSUME NEW n \in T PROVE m <= n
  <2>1. ~ (<<n, m>> \in R) /\ m \in Nat /\ n \in Nat
    BY <1>4, <1>5
  <2>2. <<n, m>> \in R <=> n < m
    BY <2>1
  <2>3. QED
    BY <2>1, <2>2
<1>6. QED
  BY <1>5

LEMMA SumExists ==
  ASSUME NEW N \in Nat, NEW g \in [1 .. N -> Int]
  PROVE  \E f \in [0 .. N -> Int] : f[0] = 0 /\ \A n \in 1 .. N : f[n] = f[n - 1] + g[n]
<1> DEFINE Sum(m) == \E f \in [0 .. m -> Int] : f[0] = 0 /\ \A n \in 1 .. m : f[n] = f[n - 1] + g[n]
           bad == {m \in 0 .. N : ~ Sum(m)}
<1>1. bad = {}
  <2> SUFFICES ASSUME bad # {} PROVE FALSE
    OBVIOUS
  <2>1. bad \in SUBSET Nat
    OBVIOUS
  <2>2. PICK m \in bad : \A n \in bad : m <= n
    <3>1. \E m \in bad : \A n \in bad : m <= n
      <4> HIDE DEF bad
      <4>1. QED
        BY <2>1, Least
    <3>2. QED
      BY <3>1
  <2>3. m \in 0 .. N /\ ~ Sum(m)
    BY <2>2
  <2>4. m # 0
    <3> DEFINE zero == [x \in 0 .. 0 |-> 0]
    <3>1. zero \in [0 .. 0 -> Int] /\ zero[0] = 0 /\ 1 .. 0 = {}
      OBVIOUS
    <3>2. Sum(0)
      <4> HIDE DEF zero
      <4>1. QED
        BY <3>1
    <3>3. QED
      BY <2>3, <3>2
  <2>5. Sum(m - 1)
    <3>1. m - 1 \in 0 .. N /\ ~ (m <= m - 1)
      BY <2>3, <2>4
    <3>2. m - 1 \notin bad
      BY <2>2, <3>1
    <3>3. QED
      BY <3>1, <3>2
  <2>6. PICK f \in [0 .. m - 1 -> Int] :
          f[0] = 0 /\ \A n \in 1 .. m - 1 : f[n] = f[n - 1] + g[n]
    BY <2>5
  <2> DEFINE h == [x \in 0 .. m |-> IF x = m THEN f[m - 1] + g[m] ELSE f[x]]
  <2>7. h \in [0 .. m -> Int] /\ h[0] = 0 /\ h[m] = f[m - 1] + g[m]
        /\ \A x \in 0 .. m - 1 : h[x] = f[x]
    BY <2>3, <2>4, <2>6
  <2>8. \A n \in 1 .. m : h[n] = h[n - 1] + g[n]
    <3> SUFFICES ASSUME NEW n \in 1 .. m PROVE h[n] = h[n - 1] + g[n]
      OBVIOUS
    <3> HIDE DEF h
    <3>1. CASE n = m
      BY <2>3, <2>4, <2>7, <3>1
    <3>2. CASE n # m
      <4>1. n \in 1 .. m - 1 /\ n \in 0 .. m - 1 /\ n - 1 \in 0 .. m - 1
        BY <2>3, <3>2
      <4>2. QED
        BY <2>6, <2>7, <4>1
    <3>3. QED
      BY <3>1, <3>2
  <2>9. Sum(m)
    <3> HIDE DEF h
    <3>1. QED
      BY <2>7, <2>8
  <2>10. QED
    BY <2>3, <2>9
<1>2. N \in 0 .. N
  OBVIOUS
<1>3. Sum(N)
  <2> HIDE DEF Sum
  <2>1. QED
    BY <1>1, <1>2
<1>4. QED
  BY <1>3

Sums(f, list, u) ==
  /\ f \in [0 .. Len(list) -> Int]
  /\ f[0] = 0
  /\ \A n \in 1 .. Len(list) : f[n] = f[n - 1] + Gain(list[n], u)

LEMMA EarnedSums ==
  ASSUME NEW list \in Seq(Rows), NEW u,
         \A n \in 1 .. Len(list) : Gain(list[n], u) \in Int
  PROVE  \E f : Sums(f, list, u) /\ EarnedIn(list, u) = f[Len(list)]
<1> DEFINE N == Len(list)
           g == [n \in 1 .. N |-> Gain(list[n], u)]
           next(f) == [n \in 0 .. N |-> IF n = 0 THEN 0 ELSE f[n - 1] + Gain(list[n], u)]
           sum == CHOOSE f : f = next(f)
<1>1. N \in Nat /\ g \in [1 .. N -> Int] /\ \A n \in 1 .. N : g[n] = Gain(list[n], u)
  OBVIOUS
<1>2. PICK f \in [0 .. N -> Int] : f[0] = 0 /\ \A n \in 1 .. N : f[n] = f[n - 1] + g[n]
  <2> HIDE DEF N, g
  <2>1. QED
    BY <1>1, SumExists
<1>3. Sums(f, list, u)
  BY <1>1, <1>2 DEF Sums
<1>4. f = next(f)
  <2>1. \A n \in 0 .. N : f[n] = next(f)[n]
    <3> HIDE DEF g, N
    <3>1. QED
      BY <1>1, <1>2
  <2>2. QED
    BY <1>2, <2>1
<1>5. sum = next(sum)
  <2> HIDE DEF next
  <2>1. QED
    BY <1>4
<1>6. EarnedIn(list, u) = sum[N]
  BY DEF EarnedIn
<1>7. /\ sum[0] = 0
      /\ \A n \in 1 .. N : sum[n] = sum[n - 1] + Gain(list[n], u)
  <2> HIDE DEF sum, N
  <2>1. \A n \in 0 .. N : sum[n] = IF n = 0 THEN 0 ELSE sum[n - 1] + Gain(list[n], u)
    BY <1>5
  <2>2. QED
    BY <1>1, <2>1
<1> HIDE DEF sum, N, next
<1>8. \A n \in 0 .. N : sum[n] = f[n]
  <2> DEFINE bad == {n \in 0 .. N : sum[n] # f[n]}
  <2>1. SUFFICES ASSUME bad # {} PROVE FALSE
    OBVIOUS
  <2>2. bad \in SUBSET Nat
    BY <1>1
  <2>3. PICK m \in bad : \A n \in bad : m <= n
    <3>1. \E m \in bad : \A n \in bad : m <= n
      <4> HIDE DEF bad
      <4>1. QED
        BY <2>1, <2>2, Least
    <3>2. QED
      BY <3>1
  <2>4. m \in 0 .. N /\ sum[m] # f[m] /\ m # 0
    BY <1>2, <1>7, <2>3
  <2>5. m \in 1 .. N /\ m - 1 \in 0 .. N /\ ~ (m <= m - 1)
    BY <1>1, <2>4
  <2>6. sum[m - 1] = f[m - 1]
    BY <2>3, <2>5
  <2>7. sum[m] = f[m]
    BY <1>1, <1>2, <1>7, <2>5, <2>6
  <2>8. QED
    BY <2>4, <2>7
<1>9. EarnedIn(list, u) = f[N]
  BY <1>1, <1>6, <1>8
<1>10. QED
  BY <1>3, <1>9 DEF N

\* More rows: nothing less is earned, and whatever each new row gives.
LEMMA EarnedGrows ==
  ASSUME NEW r \in Seq(Rows), NEW w \in Seq(Rows), NEW u,
         \A n \in 1 .. Len(r) : Gain(r[n], u) \in Nat,
         \A n \in 1 .. Len(w) : Gain(w[n], u) \in Nat
  PROVE  /\ EarnedIn(r, u) \in Int /\ EarnedIn(r \o w, u) \in Int
         /\ EarnedIn(r, u) <= EarnedIn(r \o w, u)
         /\ \A j \in 1 .. Len(w) : EarnedIn(r, u) + Gain(w[j], u) <= EarnedIn(r \o w, u)
<1> DEFINE R == Len(r)
           N == Len(r \o w)
           all == r \o w
<1>1. /\ R \in Nat /\ Len(w) \in Nat /\ N = R + Len(w) /\ N \in Nat /\ all \in Seq(Rows)
      /\ N = Len(all)
      /\ \A n \in 1 .. R : all[n] = r[n]
      /\ \A j \in 1 .. Len(w) : all[R + j] = w[j]
  OBVIOUS
<1>2. \A n \in 1 .. N : n \in 1 .. R \/ (n - R \in 1 .. Len(w) /\ n = R + (n - R))
  <2> HIDE DEF R, N
  <2>1. QED
    BY <1>1
<1>3. \A n \in 1 .. N : Gain(all[n], u) \in Nat
  <2> SUFFICES ASSUME NEW n \in 1 .. N PROVE Gain(all[n], u) \in Nat
    OBVIOUS
  <2>1. CASE n \in 1 .. R
    BY <1>1, <2>1
  <2>2. CASE n - R \in 1 .. Len(w) /\ n = R + (n - R)
    <3>1. all[n] = w[n - R]
      BY <1>1, <2>2
    <3>2. QED
      BY <2>2, <3>1
  <2>3. QED
    BY <1>2, <2>1, <2>2
<1> HIDE DEF all, N
<1>4. PICK f : Sums(f, r, u) /\ EarnedIn(r, u) = f[R]
  <2>1. \A n \in 1 .. Len(r) : Gain(r[n], u) \in Int
    OBVIOUS
  <2>2. QED
    BY <2>1, EarnedSums
<1>5. PICK h : Sums(h, all, u) /\ EarnedIn(all, u) = h[N]
  <2>1. \A n \in 1 .. Len(all) : Gain(all[n], u) \in Int
    BY <1>1, <1>3
  <2>2. all \in Seq(Rows) /\ N = Len(all)
    BY <1>1
  <2>3. QED
    BY <2>1, <2>2, EarnedSums
<1> HIDE DEF R
<1>6. /\ f \in [0 .. R -> Int] /\ f[0] = 0 /\ \A n \in 1 .. R : f[n] = f[n - 1] + Gain(r[n], u)
      /\ h \in [0 .. N -> Int] /\ h[0] = 0 /\ \A n \in 1 .. N : h[n] = h[n - 1] + Gain(all[n], u)
  BY <1>1, <1>4, <1>5 DEF Sums, R
<1>7. \A n \in 0 .. R : h[n] = f[n]
  <2> DEFINE bad == {n \in 0 .. R : h[n] # f[n]}
  <2>1. SUFFICES ASSUME bad # {} PROVE FALSE
    OBVIOUS
  <2>2. bad \in SUBSET Nat
    BY <1>1
  <2>3. PICK m \in bad : \A n \in bad : m <= n
    <3>1. \E m \in bad : \A n \in bad : m <= n
      <4> HIDE DEF bad
      <4>1. QED
        BY <2>1, <2>2, Least
    <3>2. QED
      BY <3>1
  <2>4. m \in 0 .. R /\ h[m] # f[m] /\ m # 0
    BY <1>6, <2>3
  <2>5. m \in 1 .. R /\ m \in 1 .. N /\ m - 1 \in 0 .. R /\ ~ (m <= m - 1)
    BY <1>1, <2>4
  <2>6. h[m - 1] = f[m - 1]
    BY <2>3, <2>5
  <2>7. h[m] = f[m]
    BY <1>1, <1>6, <2>5, <2>6
  <2>8. QED
    BY <2>4, <2>7
<1>8. \A k \in 0 .. N : \A n \in k .. N : h[k] <= h[n]
  <2> SUFFICES ASSUME NEW k \in 0 .. N PROVE \A n \in k .. N : h[k] <= h[n]
    OBVIOUS
  <2> DEFINE bad == {n \in k .. N : ~ (h[k] <= h[n])}
  <2>1. SUFFICES ASSUME bad # {} PROVE FALSE
    OBVIOUS
  <2>2. bad \in SUBSET Nat
    BY <1>1
  <2>3. PICK m \in bad : \A n \in bad : m <= n
    <3>1. \E m \in bad : \A n \in bad : m <= n
      <4> HIDE DEF bad
      <4>1. QED
        BY <2>1, <2>2, Least
    <3>2. QED
      BY <3>1
  <2>4. m \in k .. N /\ ~ (h[k] <= h[m])
    BY <2>3
  <2>5. m # k
    <3>1. h[k] \in Int
      BY <1>6
    <3>2. h[k] <= h[k]
      BY <3>1
    <3>3. QED
      BY <2>4, <3>2
  <2>6. m \in 1 .. N /\ m - 1 \in k .. N /\ m - 1 \in 0 .. N /\ ~ (m <= m - 1)
    BY <1>1, <2>4, <2>5
  <2>7. h[k] <= h[m - 1]
    BY <2>3, <2>6
  <2>8. h[m] = h[m - 1] + Gain(all[m], u) /\ Gain(all[m], u) \in Nat
    BY <1>3, <1>6, <2>6
  <2>9. h[k] \in Int /\ h[m - 1] \in Int
    BY <1>6, <2>6
  <2>10. h[k] <= h[m]
    BY <2>7, <2>8, <2>9
  <2>11. QED
    BY <2>4, <2>10
<1>9. R \in 0 .. N /\ N \in R .. N /\ h[R] = f[R] /\ f[R] \in Int /\ h[N] \in Int
  BY <1>1, <1>6, <1>7
<1>10. h[R] <= h[N]
  BY <1>8, <1>9
<1>11. ASSUME NEW j \in 1 .. Len(w)
       PROVE  f[R] + Gain(w[j], u) <= h[N]
  <2> DEFINE p == R + j
  <2>1. p \in 1 .. N /\ p - 1 \in R .. N /\ p - 1 \in 0 .. N /\ p \in 0 .. N /\ N \in p .. N
    BY <1>1
  <2>2. all[p] = w[j] /\ Gain(w[j], u) \in Nat
    BY <1>1
  <2> HIDE DEF p
  <2>3. h[R] <= h[p - 1] /\ h[p] <= h[N] /\ h[p] = h[p - 1] + Gain(all[p], u)
    BY <1>6, <1>8, <1>9, <2>1
  <2>4. h[p - 1] \in Int /\ h[p] \in Int
    BY <1>6, <2>1
  <2>5. QED
    BY <1>9, <2>2, <2>3, <2>4
<1>12. EarnedIn(r, u) = f[R] /\ EarnedIn(r \o w, u) = h[N]
  BY <1>4, <1>5 DEF all
<1>13. QED
  BY <1>9, <1>10, <1>11, <1>12

LEMMA EarnedNothing == ASSUME NEW u PROVE EarnedIn(<<>>, u) = 0
<1>1. <<>> \in Seq(Rows) /\ Len(<<>>) = 0 /\ \A n \in 1 .. Len(<<>>) : Gain(<<>>[n], u) \in Int
  OBVIOUS
<1>2. PICK f : Sums(f, <<>>, u) /\ EarnedIn(<<>>, u) = f[Len(<<>>)]
  BY <1>1, EarnedSums
<1>3. QED
  BY <1>1, <1>2 DEF Sums

LEMMA GainTyped ==
  ASSUME NEW row \in Rows, NEW u PROVE Gain(row, u) \in Nat /\ (row.points < 0 => Gain(row, u) = 0)
  BY DEF Gain, Rows

LEMMA EarnedTyped == ASSUME rows \in Seq(Rows), NEW u PROVE Earned(u) \in Nat
<1>1. \A list \in Seq(Rows) : \A n \in 1 .. Len(list) : Gain(list[n], u) \in Nat
  BY GainTyped
<1>2. <<>> \in Seq(Rows) /\ <<>> \o rows = rows
  OBVIOUS
<1>3. EarnedIn(rows, u) \in Int /\ EarnedIn(<<>>, u) <= EarnedIn(<<>> \o rows, u)
  BY <1>1, <1>2, EarnedGrows
<1>4. QED
  BY <1>2, <1>3, EarnedNothing DEF Earned

LEMMA EarnedBounds ==
  ASSUME rows \in Seq(Rows), NEW row \in Rows, NEW u
  PROVE  /\ Earned(u) \in Nat /\ EarnedIn(Append(rows, row), u) \in Int
         /\ Earned(u) + Gain(row, u) <= EarnedIn(Append(rows, row), u)
<1>1. \A list \in Seq(Rows) : \A n \in 1 .. Len(list) : Gain(list[n], u) \in Nat
  BY GainTyped
<1>2. <<row>> \in Seq(Rows) /\ Append(rows, row) = rows \o <<row>> /\ 1 \in 1 .. Len(<<row>>)
      /\ <<row>>[1] = row
  OBVIOUS
<1>3. /\ EarnedIn(rows \o <<row>>, u) \in Int
      /\ \A j \in 1 .. Len(<<row>>) :
           EarnedIn(rows, u) + Gain(<<row>>[j], u) <= EarnedIn(rows \o <<row>>, u)
  BY <1>1, <1>2, EarnedGrows
<1>4. QED
  BY <1>2, <1>3, EarnedTyped DEF Earned

-----------------------------------------------------------------------------
\* Points: what a transaction read is bounded like the account itself, since the points
\* ever earned only grow.

Within(acc, bound) == 0 <= acc.balance /\ acc.balance <= bound /\ acc.lifetime <= bound

\* What a transaction read covers its change.
Backed(a) ==
  a.step \in {"write", "commit"} =>
    Within(a.before, Earned(a.change.user)) /\ Covers(a.before.balance, a.change.points)

PointsInv ==
  /\ \A u \in Users : Within(account[u], Earned(u))
  /\ \A c \in Calls : Backed(award[c])

LEMMA PointsStill == ASSUME PointsInv, UNCHANGED <<account, rows, award>> PROVE PointsInv'
  BY DEF PointsInv, Backed, Earned

\* A call goes to another transaction.
LEMMA PointsKeep ==
  ASSUME LoyaltyInv, PointsInv, UNCHANGED <<account, rows>>, NEW c \in Calls, NEW next,
         Backed(next), award' = [award EXCEPT ![c] = next]
  PROVE  PointsInv'
<1>1. award \in [Calls -> Award]
  BY DEF LoyaltyInv, LoyaltyTyped
<1>2. \A b \in Calls : Backed(award'[b])
  BY <1>1 DEF PointsInv
<1>3. QED
  BY <1>2 DEF PointsInv, Backed, Earned

LEMMA BeginPoints ==
  ASSUME LoyaltyInv, PointsInv, NEW c \in Calls, NEW change, BeginAward(c, change),
         UNCHANGED <<account, rows>>
  PROVE  PointsInv'
<1> DEFINE next == [step |-> "read", change |-> change, before |-> None]
<1>1. award' = [award EXCEPT ![c] = next] /\ Backed(next)
  BY DEF BeginAward, Backed
<1> HIDE DEF next
<1>2. QED
  BY <1>1, PointsKeep

LEMMA AbortPoints ==
  ASSUME LoyaltyInv, PointsInv, NEW c \in Calls, AbortAward(c)
  PROVE  PointsInv'
<1>1. Backed(NoAward)
  BY NoAwardTyped DEF Backed
<1>2. QED
  BY <1>1, PointsKeep DEF AbortAward

LEMMA ReadAccountPoints ==
  ASSUME LoyaltyInv, PointsInv, NEW c \in Calls, ReadAccount(c)
  PROVE  PointsInv'
<1>1. PICK a : a = award[c]
  OBVIOUS
<1>2. award \in [Calls -> Award] /\ a \in Award /\ a.change \in Rows
  BY <1>1 DEF LoyaltyInv, LoyaltyTyped, AwardsShaped, Shaped, ReadAccount
<1>3. a.change.user \in Users
  BY <1>2 DEF Rows
<1>4. PICK before : before = account[a.change.user]
  OBVIOUS
<1>5. Within(before, Earned(a.change.user)) /\ Covers(before.balance, a.change.points)
  BY <1>1, <1>3, <1>4 DEF PointsInv, ReadAccount
<1> DEFINE next == [a EXCEPT !.step = "write", !.before = before]
<1>6. next.change = a.change /\ next.before = before
  BY <1>2 DEF Award
<1>7. Backed(next)
  BY <1>5, <1>6 DEF Backed
<1>8. award' = [award EXCEPT ![c] = next] \/ AbortAward(c)
  <2>1. award[c] # NoAward /\ UNCHANGED <<account, rows>>
    BY NoAwardTyped DEF ReadAccount
  <2>2. QED
    BY <1>1, <1>2, <1>4, <2>1 DEF ReadAccount, AbortAward
<1>9. UNCHANGED <<account, rows>>
  BY DEF ReadAccount
<1> HIDE DEF next
<1>10. QED
  BY <1>7, <1>8, <1>9, PointsKeep, AbortPoints

LEMMA WriteAccountPoints ==
  ASSUME LoyaltyInv, PointsInv, NEW c \in Calls, WriteAccount(c)
  PROVE  PointsInv'
<1>1. PICK a : a = award[c]
  OBVIOUS
<1>2. award \in [Calls -> Award] /\ a \in Award /\ Backed(a) /\ a.step = "write"
  BY <1>1 DEF LoyaltyInv, LoyaltyTyped, PointsInv, WriteAccount
<1> DEFINE next == [a EXCEPT !.step = "commit"]
<1>3. next.change = a.change /\ next.before = a.before
  BY <1>2 DEF Award
<1>4. Backed(next)
  BY <1>2, <1>3 DEF Backed
<1>5. award' = [award EXCEPT ![c] = next] /\ UNCHANGED <<account, rows>>
  BY <1>1, <1>2 DEF WriteAccount
<1> HIDE DEF next
<1>6. QED
  BY <1>4, <1>5, PointsKeep

\* What is written over an account: its change, and what was read before it.
LEMMA AfterWithin ==
  ASSUME NEW before \in Account, NEW points \in Int, NEW earned \in Nat, NEW gain \in Nat,
         Within(before, earned), Covers(before.balance, points),
         gain = IF points > 0 THEN points ELSE 0
  PROVE  Within(After(before, points), earned + gain)
<1> DEFINE after == After(before, points)
<1>1. before.balance \in Int /\ before.lifetime \in Int
  BY DEF Account
<1>2. /\ after.balance = before.balance + points
      /\ after.lifetime \in {before.lifetime, points, before.lifetime + points}
      /\ points < 0 => after.lifetime = before.lifetime
  BY <1>1 DEF After
<1> HIDE DEF after
<1>3. 0 <= after.balance /\ after.balance <= earned + gain
  BY <1>1, <1>2 DEF Within, Covers
<1>4. after.lifetime <= earned + gain
  BY <1>1, <1>2 DEF Within
<1>5. QED
  BY <1>3, <1>4 DEF Within, after

\* More is earned: what was within bounds stays within them.
LEMMA WithinMore ==
  ASSUME NEW acc \in Account, NEW low \in Int, NEW high \in Int, low <= high, Within(acc, low)
  PROVE  Within(acc, high)
  BY DEF Account, Within

LEMMA CommitPoints ==
  ASSUME LoyaltyInv, PointsInv, NEW c \in Calls, CommitAward(c)
  PROVE  PointsInv'
<1>1. PICK a : a = award[c]
  OBVIOUS
<1>2. /\ a.step = "commit" /\ a.change \in Rows /\ a.before \in Account
      /\ rows \in Seq(Rows) /\ rows' = Append(rows, a.change)
      /\ account' = [account EXCEPT ![a.change.user] = After(a.before, a.change.points)]
      /\ award'[c] = NoAward /\ \A b \in Calls \ {c} : award'[b] = award[b]
  BY <1>1, Committed
<1>3. account \in [Users -> Account] /\ AwardsShaped
      /\ Within(a.before, Earned(a.change.user)) /\ Covers(a.before.balance, a.change.points)
  BY <1>1, <1>2 DEF LoyaltyInv, LoyaltyTyped, PointsInv, Backed
<1>4. \A u : /\ Earned(u) \in Nat /\ Earned(u)' \in Int /\ Gain(a.change, u) \in Nat
             /\ Earned(u) <= Earned(u)' /\ Earned(u) + Gain(a.change, u) <= Earned(u)'
  <2> SUFFICES ASSUME NEW u
               PROVE  /\ Earned(u) \in Nat /\ Earned(u)' \in Int /\ Gain(a.change, u) \in Nat
                      /\ Earned(u) <= Earned(u)' /\ Earned(u) + Gain(a.change, u) <= Earned(u)'
    OBVIOUS
  <2>1. Earned(u)' = EarnedIn(Append(rows, a.change), u)
    BY <1>2 DEF Earned
  <2>2. /\ Earned(u) \in Nat /\ EarnedIn(Append(rows, a.change), u) \in Int
        /\ Earned(u) + Gain(a.change, u) <= EarnedIn(Append(rows, a.change), u)
    BY <1>2, EarnedBounds
  <2>3. Gain(a.change, u) \in Nat
    BY <1>2, GainTyped
  <2>4. QED
    BY <2>1, <2>2, <2>3
<1>5. ASSUME NEW u \in Users PROVE Within(account'[u], Earned(u)')
  <2>1. CASE u = a.change.user
    <3>1. Gain(a.change, u) = IF a.change.points > 0 THEN a.change.points ELSE 0
      BY <2>1 DEF Gain
    <3>2. a.change.points \in Int
      BY <1>2 DEF Rows
    <3>3. Within(After(a.before, a.change.points), Earned(u) + Gain(a.change, u))
      BY <1>2, <1>3, <1>4, <2>1, <3>1, <3>2, AfterWithin
    <3>4. After(a.before, a.change.points) \in Account
      BY <1>2, <3>2 DEF After, Account
    <3>5. account'[u] = After(a.before, a.change.points)
      BY <1>2, <1>3, <2>1
    <3>6. Earned(u) + Gain(a.change, u) \in Int /\ Earned(u)' \in Int
          /\ Earned(u) + Gain(a.change, u) <= Earned(u)'
      BY <1>4
    <3>7. QED
      BY <3>3, <3>4, <3>5, <3>6, WithinMore
  <2>2. CASE u # a.change.user
    <3>1. account'[u] = account[u] /\ account[u] \in Account /\ Within(account[u], Earned(u))
      BY <1>2, <1>3, <2>2 DEF PointsInv
    <3>2. QED
      BY <1>4, <3>1, WithinMore
  <2>3. QED
    BY <2>1, <2>2
<1>6. ASSUME NEW b \in Calls PROVE Backed(award[b])'
  <2>1. PICK d : d = award'[b]
    OBVIOUS
  <2>2. SUFFICES ASSUME d.step \in {"write", "commit"}
                 PROVE  /\ Within(d.before, Earned(d.change.user)')
                        /\ Covers(d.before.balance, d.change.points)
    BY <2>1 DEF Backed
  <2>3. b # c /\ d = award[b]
    BY <1>2, <2>1, <2>2, NoAwardTyped
  <2>4. d.before \in Account /\ Within(d.before, Earned(d.change.user))
        /\ Covers(d.before.balance, d.change.points)
    BY <1>3, <2>2, <2>3 DEF AwardsShaped, Shaped, PointsInv, Backed
  <2>5. PICK u : u = d.change.user
    OBVIOUS
  <2>6. Earned(u) \in Int /\ Earned(u)' \in Int /\ Earned(u) <= Earned(u)'
    BY <1>4
  <2>7. Within(d.before, Earned(u)')
    BY <2>4, <2>5, <2>6, WithinMore
  <2>8. QED
    BY <2>4, <2>5, <2>7
<1>7. QED
  BY <1>5, <1>6 DEF PointsInv

LEMMA GetAccountPoints ==
  ASSUME LoyaltyInv, PointsInv, NEW u \in Users, GetAccount(u)
  PROVE  PointsInv'
<1>1. account \in [Users -> Account] /\ rows \in Seq(Rows)
  BY DEF LoyaltyInv, LoyaltyTyped
<1>2. account' = [account EXCEPT ![u] = [balance |-> 0, lifetime |-> 0]] /\ UNCHANGED <<rows, award>>
  BY DEF GetAccount
<1>3. Within([balance |-> 0, lifetime |-> 0], Earned(u))
  BY <1>1, EarnedTyped DEF Within
<1>4. \A v \in Users : Within(account'[v], Earned(v))
  BY <1>1, <1>2, <1>3 DEF PointsInv
<1>5. QED
  BY <1>2, <1>4 DEF PointsInv, Backed, Earned

LEMMA PointsNext == ASSUME LoyaltyInv, PointsInv, [DisputesNext]_vars PROVE PointsInv'
<1>1. CASE SupportStep \/ UNCHANGED vars
  BY <1>1, PointsStill DEF SupportStep, CreateTicket, UpdateTicketStatus, ReadTicket, CommitMessage,
                           vars, loyaltyVars
<1>2. ASSUME NEW c \in Calls, DisputeStep(c) \/ FailCall(c)
      PROVE  PointsInv'
  BY <1>2, PointsStill DEF DisputeStep, ReadDisputes, OpenTicket, RespondDispute, OpenDispute,
                           RespondTicket, FailCall, loyaltyVars
<1>3. ASSUME NEW c \in Calls, ResolveStep(c)
      PROVE  PointsInv'
  <2>1. CASE AwardGoodwill(c)
    BY <2>1, BeginPoints DEF AwardGoodwill
  <2>2. CASE UNCHANGED loyaltyVars
    BY <2>2, PointsStill DEF loyaltyVars
  <2>3. QED
    BY <1>3, <2>1, <2>2
       DEF ResolveStep, ReadResolve, ReadRefund, CommitRefund, Decide, ResolveTicket
<1>4. ASSUME NEW c \in Calls, FailAward(c)
      PROVE  PointsInv'
  BY <1>4, AbortPoints DEF FailAward
<1>5. CASE PointsStep
  <2>1. ASSUME NEW u \in Users, GetAccount(u)
        PROVE  PointsInv'
    BY <2>1, GetAccountPoints
  <2>2. ASSUME NEW c \in Calls, NEW a \in Adjustments, AdjustPoints(c, a)
        PROVE  PointsInv'
    BY <2>2, BeginPoints DEF AdjustPoints
  <2>3. ASSUME NEW c \in Calls, AwardStep(c)
        PROVE  PointsInv'
    BY <2>3, ReadAccountPoints, WriteAccountPoints, CommitPoints DEF AwardStep
  <2>4. QED
    BY <1>5, <2>1, <2>2, <2>3 DEF PointsStep
<1>6. ASSUME NEW p \in PaymentIds, CapturedElsewhere(p) \/ RefundedElsewhere(p)
      PROVE  PointsInv'
  BY <1>6, PointsStill DEF CapturedElsewhere, RefundedElsewhere, loyaltyVars
<1>7. QED
  BY <1>1, <1>2, <1>3, <1>4, <1>5, <1>6 DEF DisputesNext

\* Although transactions write back balances that are no longer current, nobody owes points
\* and nobody has more than was ever earned, whatever is added, redeemed and undone.
THEOREM PointsHold == DisputesSpec => []PointsBounded
<1>1. DisputesInit => PointsInv
  <2> SUFFICES ASSUME DisputesInit PROVE PointsInv
    OBVIOUS
  <2>1. /\ account = [u \in Users |-> NoAccount] /\ rows = <<>>
        /\ award = [c \in Calls |-> NoAward]
    BY DEF DisputesInit, LoyaltyInit
  <2>2. \A u : Earned(u) = 0
    BY <2>1, EarnedNothing DEF Earned
  <2>3. Within(NoAccount, 0)
    BY DEF Within, NoAccount
  <2>4. QED
    BY <2>1, <2>2, <2>3, NoAwardTyped DEF PointsInv, Backed
<1>2. (LoyaltyInv /\ DeskInv /\ PointsInv) /\ [DisputesNext]_vars
        => (LoyaltyInv /\ DeskInv /\ PointsInv)'
  BY LoyaltyNext, DeskNext, PointsNext
<1>3. PointsInv => PointsBounded
  BY DEF PointsInv, PointsBounded, Within
<1>4. QED
  BY <1>1, <1>2, <1>3, Starts, PTL DEF DisputesSpec
=============================================================================
