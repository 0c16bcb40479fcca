------------------------------- MODULE Ledger -------------------------------
(***************************************************************************)
(* The double-entry ledger of one organization: its financial transactions *)
(* with their ledger entries.  FinanceService writes a transaction and its *)
(* entries in one READ COMMITTED transaction: what it read before the      *)
(* insert may be stale, only the unique idempotency key stands between two *)
(* writers.  Money is in minor units, as decimals of two places.           *)
(***************************************************************************)
EXTENDS Integers, Sequences

CONSTANTS
  None,
  Payments,
  Gross,           \* what each payment is for
  Rates,           \* the commission rates an administrator may configure
  HalfUp           \* where the code's doubles round a half up: <<amount, percent, fee>>

\* A percentage has two decimals: 1000 is 10 %.
Rate == [percent : Nat, fee : Nat]

ASSUME LedgerAssumption ==
  /\ Gross \in [Payments -> Nat \ {0, 1}]   \* one minor unit is within recordRefund's tolerance
  /\ Rates \subseteq Rate

VARIABLES
  transactions,    \* financial_transactions, in the order they were inserted
  rate             \* what resolveCommissionConfig answers

ledgerVars == <<transactions, rate>>

Accounts ==
  {"PAYMENT_CLEARING", "PARTNER_PAYABLE", "PLATFORM_REVENUE", "PAYOUT_PENDING",
   "PLATFORM_ADJUSTMENT_EXPENSE", "PLATFORM_ADJUSTMENT_INCOME"}

NoEntries == [a \in Accounts |-> 0]

\* resolveCommissionConfig without any rule.
DefaultRate == [percent |-> 1000, fee |-> 0]

\* Math.round, in minor units, of a percentage to which a fee was added.  The code
\* multiplies doubles: what is exactly a half may come out just below it, which depends on
\* all three numbers.  Anything else is too far from a half for that.
Share(amount, percent, fee) ==
  LET exact == amount * percent
      rest == exact % 10000
      up == rest > 5000 \/ (rest = 5000 /\ <<amount, percent, fee>> \in HalfUp)
  IN  exact \div 10000 + (IF up THEN 1 ELSE 0)

Commission(amount, r) == Share(amount, r.percent, r.fee) + r.fee

\* The rows of a payment, or payout, by type.
RowsOf(x, type) ==
  {i \in DOMAIN transactions : transactions[i].subject = x /\ transactions[i].type = type}

IsSingle(S) == \E i \in S : S = {i}

LedgerInit ==
  /\ transactions = <<>>
  /\ rate = DefaultRate

\* createCommissionConfig and updateCommissionConfig: another rule wins from now on.
SetRate ==
  /\ rate' \in Rates
  /\ UNCHANGED transactions

\* Mutant: the column has no unique index.
KeyAnything(key) == TRUE

\* The insert of a key that exists fails (P2002).
KeyFree(key) == \A i \in DOMAIN transactions : transactions[i].key # key

\* A row with its entries (per account, credits minus debits), not settled yet.
Row(type, subject, key, amount, r, commission, entries) ==
  [type |-> type, subject |-> subject, key |-> key, amount |-> amount, percent |-> r,
   commission |-> commission, entries |-> entries, settlement |-> None]

\* Mutant: the partner's net is computed without the fixed fee.
InsertPaymentFeeless(p) ==
  LET commission == Commission(Gross[p], rate)
      key == <<"pay", p>>
  IN  /\ KeyFree(key)
      /\ transactions' = Append(transactions,
           Row("PAYMENT", p, key, Gross[p], rate.percent, commission,
               [NoEntries EXCEPT !["PAYMENT_CLEARING"] = -Gross[p],
                                 !["PARTNER_PAYABLE"] = Gross[p] - Share(Gross[p], rate.percent, rate.fee),
                                 !["PLATFORM_REVENUE"] = commission]))
      /\ UNCHANGED rate

\* The insert of recordPayment: the customer's money comes in, the partner is owed
\* what the commission leaves.  The commission is kept in the row.
InsertPayment(p) ==
  LET commission == Commission(Gross[p], rate)
      key == <<"pay", p>>
  IN  /\ KeyFree(key)
      /\ transactions' = Append(transactions,
           Row("PAYMENT", p, key, Gross[p], rate.percent, commission,
               [NoEntries EXCEPT !["PAYMENT_CLEARING"] = -Gross[p],
                                 !["PARTNER_PAYABLE"] = Gross[p] - commission,
                                 !["PLATFORM_REVENUE"] = commission]))
      /\ UNCHANGED rate

\* The cumulative sum recordRefund finds.
RefundedSoFar(p) == IF RowsOf(p, "REFUND") = {} THEN 0 ELSE Gross[p]

\* recordRefund of the whole payment goes on only if it was posted and no refund was.
\* The comparison tolerates one minor unit.
MayRefund(p) == RowsOf(p, "PAYMENT") # {} /\ RefundedSoFar(p) + Gross[p] <= Gross[p] + 1

\* Mutant: the reversal takes the percentage of today.
SnapshotOfToday(p) == rate.percent

\* The percentage kept when the payment was posted, ten for a row without one.
Snapshot(p) ==
  IF RowsOf(p, "PAYMENT") = {} THEN 1000
  ELSE transactions[CHOOSE i \in RowsOf(p, "PAYMENT") : TRUE].percent

\* The insert of recordRefund, after it read the sum refunded so far.
InsertRefund(p, soFar) ==
  LET reversed == Share(Gross[p], Snapshot(p), 0)
      key == <<"refund", p, soFar + Gross[p]>>
  IN  /\ KeyFree(key)
      /\ transactions' = Append(transactions,
           Row("REFUND", p, key, Gross[p], Snapshot(p), reversed,
               [NoEntries EXCEPT !["PARTNER_PAYABLE"] = reversed - Gross[p],
                                 !["PLATFORM_REVENUE"] = -reversed,
                                 !["PAYMENT_CLEARING"] = Gross[p]]))
      /\ UNCHANGED rate
=============================================================================
