------------------------------- MODULE Loyalty -------------------------------
(***************************************************************************)
(* The points of LoyaltyService: accounts, and the transactions that add   *)
(* or redeem points.  Each is READ COMMITTED: it reads an account, writes  *)
(* the balance that follows, which locks the row until the end, inserts    *)
(* its row under an idempotency key, and commits.                          *)
(***************************************************************************)
EXTENDS Integers, Sequences

CONSTANTS
  None,
  Users,
  Calls,           \* slots for calls in flight (a bound on the concurrency)
  Adjustments,     \* what an administrator asks for: user, points, reason
  MaxRows          \* bound: an adjustment starts only below this many rows

ASSUME LoyaltyAssumption ==
  /\ \A a \in Adjustments : a.user \in Users /\ a.points \in Int \ {0}
  /\ MaxRows \in Nat

VARIABLES
  account,         \* loyalty_accounts
  rows,            \* loyalty_transactions
  award            \* the transaction of each call

loyaltyVars == <<account, rows, award>>

NoAccount == [balance |-> 0, lifetime |-> -1]

NoAward == [step |-> "none", change |-> None, before |-> None]

LoyaltyInit ==
  /\ account = [u \in Users |-> NoAccount]
  /\ rows = <<>>
  /\ award = [c \in Calls |-> NoAward]

Change(user, points, key) == [user |-> user, points |-> points, key |-> key]

KeyFree(key) == \A i \in DOMAIN rows : rows[i].key # key

\* getOrCreateAccount (a second create of a user fails).
GetAccount(u) ==
  /\ account[u] = NoAccount
  /\ account' = [account EXCEPT ![u] = [balance |-> 0, lifetime |-> 0]]
  /\ UNCHANGED <<rows, award>>

BeginAward(c, change) ==
  /\ award[c] = NoAward
  /\ award' = [award EXCEPT ![c] = [step |-> "read", change |-> change, before |-> None]]

\* adminAdjustPoints: earnPoints or redeemPoints, with their default keys.
AdjustPoints(c, a) ==
  /\ Len(rows) < MaxRows
  /\ BeginAward(c, Change(a.user, a.points,
                          <<IF a.points > 0 THEN "earn" ELSE "redeem", a.user, a.reason>>))
  /\ UNCHANGED <<account, rows>>

\* Mutant: a redemption needs some points.
CoversSome(balance, points) == balance > 0 \/ points > 0

\* A redemption needs the balance.
Covers(balance, points) == points > 0 \/ balance + points >= 0

\* The account is read, and then the key looked up: one that is there already needs
\* nothing.
ReadAccount(c) ==
  LET change == award[c].change IN
  /\ award[c].step = "read"
  /\ Covers(account[change.user].balance, change.points)
  /\ award' = [award EXCEPT ![c] =
       IF KeyFree(change.key) THEN [@ EXCEPT !.step = "write", !.before = account[change.user]]
                              ELSE NoAward]
  /\ UNCHANGED <<account, rows>>

\* A transaction of another call holds the account.
Locked(c, u) == \E b \in Calls \ {c} : award[b].step = "commit" /\ award[b].change.user = u

\* The account is written and the row inserted: it waits for a lock, and fails for an
\* account or a key that appeared since.
WriteAccount(c) ==
  LET change == award[c].change IN
  /\ award[c].step = "write"
  /\ ~ Locked(c, change.user)
  /\ KeyFree(change.key)
  /\ award[c].before = NoAccount => account[change.user] = NoAccount
  /\ award' = [award EXCEPT ![c].step = "commit"]
  /\ UNCHANGED <<account, rows>>

\* The account after a change of the balance that was read.
After(before, points) ==
  [balance |-> before.balance + points,
   lifetime |-> IF points < 0 THEN before.lifetime
                ELSE IF before = NoAccount THEN points ELSE before.lifetime + points]

\* The transaction commits.
CommitAward(c) ==
  LET change == award[c].change IN
  /\ award[c].step = "commit"
  /\ account' = [account EXCEPT ![change.user] = After(award[c].before, change.points)]
  /\ rows' = Append(rows, change)
  /\ award' = [award EXCEPT ![c] = NoAward]

\* An error undoes it: a failed check or insert, a deadlock, the database.
AbortAward(c) ==
  /\ award[c] # NoAward
  /\ award' = [award EXCEPT ![c] = NoAward]
  /\ UNCHANGED <<account, rows>>

AwardStep(c) == ReadAccount(c) \/ WriteAccount(c) \/ CommitAward(c)

-----------------------------------------------------------------------------
\* What a row adds to what a user ever earned.
Gain(row, u) == IF row.user = u /\ row.points > 0 THEN row.points ELSE 0

EarnedIn(list, u) ==
  LET sum[n \in 0 .. Len(list)] == IF n = 0 THEN 0 ELSE sum[n - 1] + Gain(list[n], u)
  IN  sum[Len(list)]

Earned(u) == EarnedIn(rows, u)

\* Although transactions write back balances that are no longer current, nobody owes
\* points and nobody has more than was ever earned.
PointsBounded ==
  \A u \in Users :
    /\ 0 <= account[u].balance /\ account[u].balance <= Earned(u)
    /\ account[u].lifetime <= Earned(u)
=============================================================================
