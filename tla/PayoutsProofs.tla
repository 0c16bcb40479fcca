---------------------------- MODULE PayoutsProofs ----------------------------
(***************************************************************************)
(* What holds of payouts and settlements for any numbers of calls,         *)
(* payouts, settlements and ledger rows, although the calls read first     *)
(* and write later.                                                        *)
(***************************************************************************)
EXTENDS Payouts, TLAPS

RowFields == {"type", "subject", "key", "amount", "percent", "commission", "entries", "settlement"}

\* The ledger is a sequence of rows; nothing is said of their amounts.
LedgerRows ==
  /\ \E S : transactions \in Seq(S)
  /\ \A i \in DOMAIN transactions : DOMAIN transactions[i] = RowFields

CallRow ==
  [step : {"free", "balance", "initiate", "COMPLETED", "FAILED", "settle"},
   payout : PayoutIds \cup {None}, amount : Amounts \cup {0},
   settlement : SettlementIds \cup {None}, found : SUBSET Nat]

\* The calls in flight, and what those about to write know.
CallsKnow ==
  /\ call \in [Calls -> CallRow]
  /\ \A c \in Calls :
       /\ call[c].step \in {"balance", "initiate"} => call[c].amount \in Amounts
       /\ call[c].step \in {"COMPLETED", "FAILED"} =>
            call[c].payout \in PayoutIds /\ payout[call[c].payout] # NoPayout

Tables ==
  /\ organization \in [kyc : KYCStatus, bank : BOOLEAN]
  /\ payout \in [PayoutIds -> PayoutRow \cup {NoPayout}]
  /\ DOMAIN settlement = SettlementIds

\* APPROVED was given before a payout was as much as begun.
ApprovedFirst ==
  /\ organization.kyc = "APPROVED" => reviewed
  /\ \A c \in Calls : call[c].step \in {"balance", "initiate"} => reviewed
  /\ PaidOutAfterApproval

\* A payout that was not made has no row.
NoRowYet == \A q \in PayoutIds : payout[q] = NoPayout => RowsOf(q, "PAYOUT") = {}

\* A row of a customer's money is linked to a settlement that is there.
LinkedToRows ==
  \A i \in DOMAIN transactions :
    transactions[i].type \in {"PAYMENT", "REFUND"} =>
      transactions[i].settlement \in SettlementIds \cup {None}

Shape == LedgerRows /\ CallsKnow /\ Tables

Reserved == NoRowYet /\ ProcessingIsReserved

LinkedSoundly == LinkedToRows /\ LinkedWasCounted

-----------------------------------------------------------------------------
\* The ledger after a row was added, and after its rows were written over.
LEMMA Appended ==
  ASSUME LedgerRows, NEW row, DOMAIN row = RowFields, transactions' = Append(transactions, row)
  PROVE  /\ LedgerRows'
         /\ DOMAIN transactions' = DOMAIN transactions \cup {Len(transactions) + 1}
         /\ Len(transactions) + 1 \notin DOMAIN transactions
         /\ transactions'[Len(transactions) + 1] = row
         /\ \A i \in DOMAIN transactions : transactions'[i] = transactions[i]
<1>1. PICK S : transactions \in Seq(S)
  BY DEF LedgerRows
<1> DEFINE T == S \cup {row}
<1>2. transactions \in Seq(T) /\ row \in T
  BY <1>1
<1> HIDE DEF T
<1>3. /\ transactions' \in Seq(T) /\ Len(transactions) \in Nat
      /\ DOMAIN transactions = 1..Len(transactions)
      /\ DOMAIN transactions' = 1..(Len(transactions) + 1)
      /\ transactions'[Len(transactions) + 1] = row
      /\ \A i \in 1..Len(transactions) : transactions'[i] = transactions[i]
  BY <1>2
<1>4. QED
  BY <1>3 DEF LedgerRows

LEMMA Rewritten ==
  ASSUME LedgerRows, NEW f, f = [i \in DOMAIN transactions |-> f[i]], transactions' = f,
         \A i \in DOMAIN transactions : DOMAIN f[i] = RowFields
  PROVE  LedgerRows' /\ DOMAIN transactions' = DOMAIN transactions
<1>1. PICK n \in Nat : DOMAIN transactions = 1..n
  BY DEF LedgerRows
<1> DEFINE S == {f[i] : i \in 1..n}
<1>2. f \in [1..n -> S]
  BY <1>1
<1>3. f \in Seq(S)
  BY <1>2
<1>4. QED
  BY <1>3, <1>1 DEF LedgerRows

\* What a step may do to the ledger: nothing; add the row of a payout; add another row;
\* release what a payout holds; link the rows that were found.
PayoutAdded(c, q) ==
  \E row : /\ DOMAIN row = RowFields /\ row.type = "PAYOUT" /\ row.subject = q
           /\ row.entries = PayoutEntries(call[c].amount)
           /\ transactions' = Append(transactions, row)

OtherAdded ==
  \E row : /\ DOMAIN row = RowFields /\ row.type # "PAYOUT" /\ row.settlement = None
           /\ transactions' = Append(transactions, row)

LEMMA RowMade ==
  ASSUME NEW type, NEW subject, NEW key, NEW amount, NEW percent, NEW commission, NEW entries
  PROVE  LET row == Row(type, subject, key, amount, percent, commission, entries) IN
         /\ DOMAIN row = RowFields /\ row.type = type /\ row.subject = subject
         /\ row.entries = entries /\ row.settlement = None
BY DEF Row, RowFields

LEMMA OtherRow ==
  ASSUME LedgerStep
  PROVE  OtherAdded /\ UNCHANGED <<organization, payout, settlement, call, reviewed>>
<1>1. UNCHANGED <<organization, payout, settlement, call, reviewed>>
  BY DEF LedgerStep, PostPayment, PostRefund, RecordAdjustment
<1>2. ASSUME NEW p \in Payments, PostPayment(p) PROVE OtherAdded
  <2>1. \E key, amount, percent, commission, entries :
          transactions' = Append(transactions,
                                 Row("PAYMENT", p, key, amount, percent, commission, entries))
    BY <1>2 DEF PostPayment, InsertPayment
  <2>2. QED
    BY <2>1, RowMade DEF OtherAdded
<1>3. ASSUME NEW p \in Payments, PostRefund(p) PROVE OtherAdded
  <2>1. \E key, amount, percent, commission, entries :
          transactions' = Append(transactions,
                                 Row("REFUND", p, key, amount, percent, commission, entries))
    BY <1>3 DEF PostRefund, InsertRefund
  <2>2. QED
    BY <2>1, RowMade DEF OtherAdded
<1>4. ASSUME NEW amount \in Amounts, NEW direction \in {"CREDIT", "DEBIT"},
             RecordAdjustment(amount, direction)
      PROVE  OtherAdded
  <2>1. \E key, percent, commission, entries :
          transactions' = Append(transactions,
                                 Row("ADJUSTMENT", None, key, amount, percent, commission, entries))
    BY <1>4 DEF RecordAdjustment
  <2>2. QED
    BY <2>1, RowMade DEF OtherAdded
<1>5. QED
  BY <1>1, <1>2, <1>3, <1>4 DEF LedgerStep

\* The rows of payouts that writes of entries and links leave: only those fields change.
LEMMA ReleaseRows ==
  ASSUME LedgerRows, NEW q, NEW a, AddEntries(q, a)
  PROVE  /\ LedgerRows' /\ DOMAIN transactions' = DOMAIN transactions
         /\ \A i \in DOMAIN transactions :
              /\ transactions'[i].type = transactions[i].type
              /\ transactions'[i].subject = transactions[i].subject
              /\ transactions'[i].settlement = transactions[i].settlement
              /\ i \notin RowsOf(q, "PAYOUT") => transactions'[i] = transactions[i]
<1> DEFINE f == [i \in DOMAIN transactions |->
                   IF i \notin RowsOf(q, "PAYOUT") THEN transactions[i]
                   ELSE [transactions[i] EXCEPT !.entries["PAYOUT_PENDING"] = @ - payout[q].amount,
                                                !.entries[a] = @ + payout[q].amount]]
<1>1. transactions' = f
  BY DEF AddEntries
<1>2. \A i \in DOMAIN transactions : DOMAIN transactions[i] = RowFields
  BY DEF LedgerRows
<1>3. ASSUME NEW i \in DOMAIN transactions
      PROVE  /\ DOMAIN f[i] = RowFields
             /\ f[i].type = transactions[i].type /\ f[i].subject = transactions[i].subject
             /\ f[i].settlement = transactions[i].settlement
             /\ i \notin RowsOf(q, "PAYOUT") => f[i] = transactions[i]
  BY <1>2 DEF RowFields
<1>4. f = [i \in DOMAIN transactions |-> f[i]]
  OBVIOUS
<1> HIDE DEF f
<1>5. LedgerRows' /\ DOMAIN transactions' = DOMAIN transactions
  BY <1>1, <1>3, <1>4, Rewritten
<1>6. QED
  BY <1>1, <1>3, <1>5

LEMMA LinkRows ==
  ASSUME LedgerRows, NEW c, NEW s, CommitSettlement(c, s)
  PROVE  /\ LedgerRows' /\ DOMAIN transactions' = DOMAIN transactions
         /\ \A i \in DOMAIN transactions :
              /\ transactions'[i].type = transactions[i].type
              /\ transactions'[i].subject = transactions[i].subject
              /\ transactions'[i].entries = transactions[i].entries
              /\ transactions'[i].settlement =
                   IF i \in call[c].found THEN s ELSE transactions[i].settlement
<1> DEFINE f == [i \in DOMAIN transactions |->
                   IF i \in call[c].found THEN [transactions[i] EXCEPT !.settlement = s]
                   ELSE transactions[i]]
<1>1. transactions' = f
  BY DEF CommitSettlement, Linked
<1>2. \A i \in DOMAIN transactions : DOMAIN transactions[i] = RowFields
  BY DEF LedgerRows
<1>3. ASSUME NEW i \in DOMAIN transactions
      PROVE  /\ DOMAIN f[i] = RowFields
             /\ f[i].type = transactions[i].type /\ f[i].subject = transactions[i].subject
             /\ f[i].entries = transactions[i].entries
             /\ f[i].settlement = IF i \in call[c].found THEN s ELSE transactions[i].settlement
  BY <1>2 DEF RowFields
<1>4. f = [i \in DOMAIN transactions |-> f[i]]
  OBVIOUS
<1> HIDE DEF f
<1>5. LedgerRows' /\ DOMAIN transactions' = DOMAIN transactions
  BY <1>1, <1>3, <1>4, Rewritten
<1>6. QED
  BY <1>1, <1>3, <1>5

-----------------------------------------------------------------------------
\* Rows and calls keep their shape.
LEMMA CallWritten ==
  ASSUME Shape, NEW c \in Calls, NEW next \in CallRow, call' = [call EXCEPT ![c] = next],
         next.step \in {"balance", "initiate"} => next.amount \in Amounts,
         next.step \in {"COMPLETED", "FAILED"} =>
           next.payout \in PayoutIds /\ payout[next.payout] # NoPayout,
         \A q \in PayoutIds : payout[q] # NoPayout => payout'[q] # NoPayout
  PROVE  CallsKnow'
BY DEF Shape, CallsKnow

LEMMA FreeTyped == Free \in CallRow
BY DEF Free, CallRow

LEMMA OrganizationShape ==
  ASSUME Shape, PartnerStep
  PROVE  Shape' /\ UNCHANGED <<transactions, payout, settlement, call>>
<1>1. UNCHANGED <<transactions, payout, settlement, call>>
  BY DEF PartnerStep, OnboardPartner, UpdateOrganization, ReviewPartner, ledgerVars
<1>2. organization' \in [kyc : KYCStatus, bank : BOOLEAN]
  <2>1. CASE OnboardPartner
    BY <2>1 DEF OnboardPartner, KYCStatus
  <2>2. CASE UpdateOrganization
    BY <2>2 DEF UpdateOrganization, Shape, Tables
  <2>3. ASSUME NEW kyc \in Reviews, ReviewPartner(kyc)
        PROVE  organization' \in [kyc : KYCStatus, bank : BOOLEAN]
    BY <2>3, PayoutsAssumption DEF ReviewPartner, Shape, Tables
  <2>4. QED
    BY <2>1, <2>2, <2>3 DEF PartnerStep
<1>3. QED
  BY <1>1, <1>2 DEF Shape, Tables, LedgerRows, CallsKnow

\* The steps that only read.
ReadStep(c) ==
  \/ \E amount \in Amounts, s \in SettlementIds \cup {None} : ReadOrganization(c, amount, s)
  \/ ReadBalance(c)
  \/ \E q \in PayoutIds, status \in {"COMPLETED", "FAILED"} : ReadPayout(c, q, status)
  \/ \E first, last \in 1..MaxRows : first <= last /\ FindUnsettled(c, first..last)
  \/ FailCall(c)

LEMMA ReadShape ==
  ASSUME Shape, NEW c \in Calls, ReadStep(c)
  PROVE  Shape' /\ UNCHANGED <<ledgerVars, organization, payout, settlement, reviewed>>
<1>1. UNCHANGED <<ledgerVars, organization, payout, settlement, reviewed>>
  BY DEF ReadStep, ReadOrganization, ReadBalance, ReadPayout, FindUnsettled, FailCall
<1> SUFFICES CallsKnow'
  BY <1>1 DEF Shape, Tables, LedgerRows, ledgerVars
<1> USE <1>1
<1>2. ASSUME NEW amount \in Amounts, NEW s \in SettlementIds \cup {None},
             ReadOrganization(c, amount, s)
      PROVE  CallsKnow'
  <2> DEFINE next == [Free EXCEPT !.step = "balance", !.amount = amount, !.settlement = s]
  <2>1. call' = [call EXCEPT ![c] = next]
    BY <1>2 DEF ReadOrganization, Begin
  <2>2. next \in CallRow /\ next.step = "balance" /\ next.amount = amount
    BY DEF Free, CallRow
  <2> HIDE DEF next
  <2>3. QED
    BY <2>1, <2>2, CallWritten
<1>3. CASE ReadBalance(c)
  <2> DEFINE next == [call[c] EXCEPT !.step = "initiate"]
  <2>1. call' = [call EXCEPT ![c] = next] /\ call[c] \in CallRow /\ call[c].amount \in Amounts
    BY <1>3 DEF ReadBalance, Then, Shape, CallsKnow
  <2>2. next \in CallRow /\ next.step = "initiate" /\ next.amount \in Amounts
    BY <2>1 DEF CallRow
  <2> HIDE DEF next
  <2>3. QED
    BY <2>1, <2>2, CallWritten
<1>4. ASSUME NEW q \in PayoutIds, NEW status \in {"COMPLETED", "FAILED"}, ReadPayout(c, q, status)
      PROVE  CallsKnow'
  <2> DEFINE next == [Free EXCEPT !.step = status, !.payout = q]
  <2>1. call' = [call EXCEPT ![c] = next] /\ payout[q] # NoPayout
    BY <1>4 DEF ReadPayout, Begin, NoPayout
  <2>2. next \in CallRow /\ next.step = status /\ next.payout = q
    BY DEF Free, CallRow
  <2> HIDE DEF next
  <2>3. QED
    BY <2>1, <2>2, CallWritten
<1>5. ASSUME NEW first \in 1..MaxRows, NEW last \in 1..MaxRows, FindUnsettled(c, first..last)
      PROVE  CallsKnow'
  <2> DEFINE found == {i \in (first..last) \cap DOMAIN transactions : transactions[i].settlement = None}
             next == [Free EXCEPT !.step = "settle", !.found = found]
  <2>1. call' = [call EXCEPT ![c] = next]
    BY <1>5 DEF FindUnsettled, Begin
  <2>2. found \in SUBSET Nat
    BY PayoutsAssumption
  <2> HIDE DEF found
  <2>3. next \in CallRow /\ next.step = "settle"
    BY <2>2 DEF Free, CallRow
  <2> HIDE DEF next
  <2>4. QED
    BY <2>1, <2>3, CallWritten
<1>6. CASE FailCall(c)
  BY <1>6, FreeTyped, CallWritten DEF FailCall, End, Free
<1>7. QED
  BY <1>2, <1>3, <1>4, <1>5, <1>6 DEF ReadStep

\* initiatePayout's insert.
LEMMA CommitPayoutShape ==
  ASSUME Shape, NEW c \in Calls, NEW q \in PayoutIds, CommitPayout(c, q)
  PROVE  /\ Shape' /\ UNCHANGED <<organization, settlement, reviewed>> /\ PayoutAdded(c, q)
         /\ call[c].step = "initiate" /\ payout[q] = NoPayout /\ call' = [call EXCEPT ![c] = Free]
         /\ payout' = [payout EXCEPT ![q] = [status |-> "PROCESSING", amount |-> call[c].amount,
                                             settlement |-> call[c].settlement]]
<1>1. /\ UNCHANGED <<organization, settlement, reviewed>>
      /\ call[c].step = "initiate" /\ payout[q] = NoPayout /\ call' = [call EXCEPT ![c] = Free]
      /\ payout' = [payout EXCEPT ![q] = [status |-> "PROCESSING", amount |-> call[c].amount,
                                          settlement |-> call[c].settlement]]
  BY DEF CommitPayout, End
<1>2. call[c].amount \in Amounts /\ call[c].settlement \in SettlementIds \cup {None}
  BY <1>1 DEF Shape, CallsKnow, CallRow
<1>3. Tables'
  BY <1>1, <1>2 DEF Shape, Tables, PayoutRow
<1>4. CallsKnow'
  <2>1. \A r \in PayoutIds : payout[r] # NoPayout => payout'[r] # NoPayout
    BY <1>1 DEF Shape, Tables, NoPayout
  <2>2. Free.step = "free"
    BY DEF Free
  <2>3. QED
    BY <1>1, <2>1, <2>2, FreeTyped, CallWritten
<1>5. PICK row : /\ row = [Row("PAYOUT", q, <<"payout", q>>, call[c].amount, 0, 0,
                               PayoutEntries(call[c].amount)) EXCEPT !.settlement = call[c].settlement]
                 /\ transactions' = Append(transactions, row)
  BY DEF CommitPayout
<1>6. /\ DOMAIN row = RowFields /\ row.type = "PAYOUT" /\ row.subject = q
      /\ row.entries = PayoutEntries(call[c].amount)
  <2> HIDE DEF PayoutEntries
  <2>1. QED
    BY <1>5, RowMade DEF RowFields
<1>7. LedgerRows'
  BY <1>5, <1>6, Appended DEF Shape
<1>8. PayoutAdded(c, q)
  BY <1>5, <1>6 DEF PayoutAdded
<1>9. QED
  BY <1>1, <1>3, <1>4, <1>7, <1>8 DEF Shape

\* The write of completePayout or failPayout.
LEMMA ResolveShape ==
  ASSUME Shape, NEW c \in Calls, ResolvePayout(c)
  PROVE  /\ Shape' /\ UNCHANGED <<organization, settlement, reviewed>>
         /\ \E a : AddEntries(call[c].payout, a)
         /\ call[c].payout \in PayoutIds /\ payout[call[c].payout] # NoPayout
         /\ payout'[call[c].payout].status # "PROCESSING" /\ payout'[call[c].payout] # NoPayout
         /\ \A q \in PayoutIds \ {call[c].payout} : payout'[q] = payout[q]
         /\ call' = [call EXCEPT ![c] = Free]
<1> DEFINE q == call[c].payout
<1>1. /\ UNCHANGED <<organization, settlement, reviewed>> /\ call' = [call EXCEPT ![c] = Free]
      /\ call[c].step \in {"COMPLETED", "FAILED"}
      /\ payout' = [payout EXCEPT ![q].status = call[c].step]
      /\ \E a : AddEntries(q, a)
  BY DEF ResolvePayout, End
<1>2. q \in PayoutIds /\ payout[q] # NoPayout /\ payout[q] \in PayoutRow
  BY <1>1 DEF Shape, CallsKnow, Tables
<1>3. payout'[q] = [payout[q] EXCEPT !.status = call[c].step]
  BY <1>1, <1>2 DEF Shape, Tables
<1>4. payout'[q] \in PayoutRow /\ payout'[q].status # "PROCESSING" /\ payout'[q] # NoPayout
  BY <1>1, <1>2, <1>3 DEF PayoutRow, NoPayout
<1>5. \A r \in PayoutIds \ {q} : payout'[r] = payout[r]
  BY <1>1 DEF Shape, Tables
<1>6. Tables'
  <2>1. payout' \in [PayoutIds -> PayoutRow \cup {NoPayout}]
    BY <1>1, <1>4, <1>5 DEF Shape, Tables
  <2>2. QED
    BY <1>1, <2>1 DEF Shape, Tables
<1>7. CallsKnow'
  <2>1. Free.step = "free"
    BY DEF Free
  <2>2. \A r \in PayoutIds : payout[r] # NoPayout => payout'[r] # NoPayout
    BY <1>4, <1>5
  <2>3. QED
    BY <1>1, <2>1, <2>2, FreeTyped, CallWritten
<1>8. LedgerRows'
  BY <1>1, ReleaseRows DEF Shape
<1>9. QED
  BY <1>1, <1>2, <1>4, <1>5, <1>6, <1>7, <1>8 DEF Shape

\* createSettlement's write.
LEMMA SettlementShape ==
  ASSUME Shape, NEW c \in Calls, NEW s \in SettlementIds, CommitSettlement(c, s)
  PROVE  /\ Shape' /\ UNCHANGED <<organization, payout, reviewed>>
         /\ settlement[s] = NoSettlement /\ settlement'[s].counted = call[c].found
         /\ \A r \in SettlementIds \ {s} : settlement'[r] = settlement[r]
         /\ call' = [call EXCEPT ![c] = Free]
<1>1. /\ UNCHANGED <<organization, payout, reviewed>> /\ call' = [call EXCEPT ![c] = Free]
      /\ settlement[s] = NoSettlement
      /\ \E gross, commission : settlement' = [settlement EXCEPT ![s] =
           [status |-> "FINALIZED", counted |-> call[c].found, gross |-> gross,
            commission |-> commission]]
  BY DEF CommitSettlement, End
<1>2. /\ DOMAIN settlement' = SettlementIds /\ settlement'[s].counted = call[c].found
      /\ \A r \in SettlementIds \ {s} : settlement'[r] = settlement[r]
  BY <1>1 DEF Shape, Tables
<1>3. Tables'
  BY <1>1, <1>2 DEF Shape, Tables
<1>4. CallsKnow'
  <2>1. Free.step = "free"
    BY DEF Free
  <2>2. QED
    BY <1>1, <2>1, FreeTyped, CallWritten
<1>5. LedgerRows'
  BY LinkRows DEF Shape
<1>6. QED
  BY <1>1, <1>2, <1>3, <1>4, <1>5 DEF Shape

LEMMA LedgerShape ==
  ASSUME Shape, LedgerStep
  PROVE  Shape'
<1>1. OtherAdded /\ UNCHANGED <<organization, payout, settlement, call, reviewed>>
  BY OtherRow
<1>2. LedgerRows'
  BY <1>1, Appended DEF OtherAdded, Shape
<1>3. QED
  BY <1>1, <1>2 DEF Shape, CallsKnow, Tables

-----------------------------------------------------------------------------
\* Approval comes first.
LEMMA ApprovedKept ==
  ASSUME Shape, ApprovedFirst, [PayoutsNext]_vars
  PROVE  ApprovedFirst'
<1>1. CASE PartnerStep
  <2>1. UNCHANGED <<payout, call>> /\ (reviewed => reviewed')
    <3>1. ASSUME NEW kyc \in Reviews, ReviewPartner(kyc) PROVE reviewed => reviewed'
      <4>1. reviewed' = (reviewed \/ kyc = "APPROVED")
        BY <3>1 DEF ReviewPartner
      <4>2. QED
        BY <4>1, Zenon
    <3>2. ASSUME OnboardPartner \/ UpdateOrganization PROVE reviewed => reviewed'
      BY <3>2 DEF OnboardPartner, UpdateOrganization
    <3>3. QED
      BY <1>1, <3>1, <3>2, OrganizationShape DEF PartnerStep
  <2>2. organization'.kyc = "APPROVED" => organization.kyc = "APPROVED" \/ reviewed'
    <3>1. CASE OnboardPartner
      BY <3>1 DEF OnboardPartner
    <3>2. CASE UpdateOrganization
      BY <3>2 DEF UpdateOrganization, Shape, Tables
    <3>3. ASSUME NEW kyc \in Reviews, ReviewPartner(kyc)
          PROVE  organization'.kyc = "APPROVED" => reviewed'
      BY <3>3 DEF ReviewPartner, Shape, Tables
    <3>4. QED
      BY <1>1, <3>1, <3>2, <3>3 DEF PartnerStep
  <2>3. QED
    BY <2>1, <2>2 DEF ApprovedFirst, PaidOutAfterApproval
<1>2. CASE LedgerStep \/ UNCHANGED vars
  BY <1>2, OtherRow DEF vars, ApprovedFirst, PaidOutAfterApproval
<1>3. ASSUME NEW c \in Calls, ReadStep(c) PROVE ApprovedFirst'
  <2>1. UNCHANGED <<organization, payout, reviewed>>
    BY <1>3, ReadShape
  <2>2. \A d \in Calls \ {c} : call'[d] = call[d]
    BY <1>3 DEF ReadStep, ReadOrganization, ReadBalance, ReadPayout, FindUnsettled, FailCall,
                Begin, Then, End, Shape, CallsKnow
  <2>3. call'[c].step \in {"balance", "initiate"} => reviewed
    <3>1. ASSUME NEW amount, NEW s, ReadOrganization(c, amount, s) PROVE reviewed
      BY <3>1 DEF ReadOrganization, ApprovedFirst
    <3>2. CASE ReadBalance(c)
      BY <3>2 DEF ReadBalance, ApprovedFirst
    <3>3. ASSUME NEW next \in {"COMPLETED", "FAILED", "settle", "free"}, call'[c].step = next
          PROVE  call'[c].step \notin {"balance", "initiate"}
      BY <3>3
    <3>4. ASSUME NEW q, NEW status \in {"COMPLETED", "FAILED"}, ReadPayout(c, q, status)
          PROVE  call'[c].step = status
      BY <3>4 DEF ReadPayout, Begin, Free, Shape, CallsKnow
    <3>5. ASSUME NEW window, FindUnsettled(c, window) PROVE call'[c].step = "settle"
      BY <3>5 DEF FindUnsettled, Begin, Free, Shape, CallsKnow
    <3>6. CASE FailCall(c)
      BY <3>6 DEF FailCall, End, Free, Shape, CallsKnow
    <3>7. QED
      BY <1>3, <3>1, <3>2, <3>3, <3>4, <3>5, <3>6 DEF ReadStep
  <2>4. QED
    BY <2>1, <2>2, <2>3 DEF ApprovedFirst, PaidOutAfterApproval
<1>4. ASSUME NEW c \in Calls, NEW q \in PayoutIds, CommitPayout(c, q) PROVE ApprovedFirst'
  <2>1. reviewed /\ reviewed' = reviewed
    BY <1>4, CommitPayoutShape DEF ApprovedFirst
  <2>2. QED
    BY <2>1 DEF ApprovedFirst, PaidOutAfterApproval
<1>5. ASSUME NEW c \in Calls, call' = [call EXCEPT ![c] = Free]
      PROVE  \A d \in Calls : call'[d].step \in {"balance", "initiate"} =>
                                call[d].step \in {"balance", "initiate"}
  BY <1>5 DEF Free, Shape, CallsKnow
<1>6. ASSUME NEW c \in Calls, ResolvePayout(c) PROVE ApprovedFirst'
  BY <1>5, <1>6, ResolveShape DEF ApprovedFirst, PaidOutAfterApproval
<1>7. ASSUME NEW c \in Calls, NEW s \in SettlementIds, CommitSettlement(c, s) PROVE ApprovedFirst'
  BY <1>5, <1>7, SettlementShape DEF ApprovedFirst, PaidOutAfterApproval
<1>8. QED
  BY <1>1, <1>2, <1>3, <1>4, <1>6, <1>7 DEF PayoutsNext, PayoutStep, SettlementStep, ReadStep

\* What a payout holds is its own row's.
LEMMA ReservedKept ==
  ASSUME Shape, Reserved, [PayoutsNext]_vars
  PROVE  Reserved'
<1>1. ASSUME UNCHANGED payout, DOMAIN transactions \subseteq DOMAIN transactions',
             \A i \in DOMAIN transactions :
               /\ transactions'[i].type = transactions[i].type
               /\ transactions'[i].subject = transactions[i].subject
               /\ transactions'[i].entries = transactions[i].entries,
             \A i \in DOMAIN transactions' \ DOMAIN transactions : transactions'[i].type # "PAYOUT"
      PROVE  Reserved'
  BY <1>1 DEF Reserved, NoRowYet, ProcessingIsReserved, RowsOf
<1>2. CASE UNCHANGED <<transactions, payout>>
  BY <1>1, <1>2
<1>3. CASE LedgerStep
  <2>1. UNCHANGED payout /\ OtherAdded
    BY <1>3, OtherRow
  <2>2. PICK row : /\ DOMAIN row = RowFields /\ row.type # "PAYOUT"
                   /\ transactions' = Append(transactions, row)
    BY <2>1 DEF OtherAdded
  <2>3. /\ DOMAIN transactions' = DOMAIN transactions \cup {Len(transactions) + 1}
        /\ transactions'[Len(transactions) + 1] = row
        /\ \A i \in DOMAIN transactions : transactions'[i] = transactions[i]
    BY <2>2, Appended DEF Shape
  <2>4. QED
    BY <1>1, <2>1, <2>2, <2>3
<1>4. ASSUME NEW c \in Calls, NEW q \in PayoutIds, CommitPayout(c, q) PROVE Reserved'
  <2>1. /\ PayoutAdded(c, q) /\ payout[q] = NoPayout
        /\ payout' = [payout EXCEPT ![q] = [status |-> "PROCESSING", amount |-> call[c].amount,
                                            settlement |-> call[c].settlement]]
    BY <1>4, CommitPayoutShape
  <2>2. PICK row : /\ DOMAIN row = RowFields /\ row.type = "PAYOUT" /\ row.subject = q
                   /\ row.entries = PayoutEntries(call[c].amount)
                   /\ transactions' = Append(transactions, row)
    BY <2>1 DEF PayoutAdded
  <2> DEFINE n == Len(transactions) + 1
  <2>3. /\ DOMAIN transactions' = DOMAIN transactions \cup {n} /\ n \notin DOMAIN transactions
        /\ transactions'[n] = row
        /\ \A i \in DOMAIN transactions : transactions'[i] = transactions[i]
    BY <2>2, Appended DEF Shape
  <2> HIDE DEF n
  <2>4. /\ payout'[q] = [status |-> "PROCESSING", amount |-> call[c].amount,
                         settlement |-> call[c].settlement]
        /\ \A r \in PayoutIds \ {q} : payout'[r] = payout[r]
    BY <2>1 DEF Shape, Tables
  <2>5. RowsOf(q, "PAYOUT")' = {n}
    <3>1. RowsOf(q, "PAYOUT") = {}
      BY <2>1 DEF Reserved, NoRowYet
    <3>2. QED
      BY <2>2, <2>3, <3>1 DEF RowsOf
  <2>6. \A r \in PayoutIds \ {q} : RowsOf(r, "PAYOUT")' = RowsOf(r, "PAYOUT")
    BY <2>2, <2>3 DEF RowsOf
  <2>7. \A r \in PayoutIds : RowsOf(r, "PAYOUT") \subseteq DOMAIN transactions
    BY DEF RowsOf
  <2>8. NoRowYet'
    BY <2>4, <2>6 DEF NoRowYet, Reserved, NoPayout
  <2>9. ProcessingIsReserved'
    <3>1. transactions'[n].entries = PayoutEntries(payout'[q].amount)
      BY <2>2, <2>3, <2>4
    <3>2. ASSUME NEW r \in PayoutIds \ {q}, payout'[r].status = "PROCESSING"
          PROVE  \E i \in RowsOf(r, "PAYOUT")' :
                   /\ RowsOf(r, "PAYOUT")' = {i}
                   /\ transactions'[i].entries = PayoutEntries(payout'[r].amount)
      BY <2>3, <2>4, <2>6, <2>7, <3>2 DEF Reserved, ProcessingIsReserved
    <3>3. QED
      BY <2>5, <3>1, <3>2 DEF ProcessingIsReserved
  <2>10. QED
    BY <2>8, <2>9 DEF Reserved
<1>5. ASSUME NEW c \in Calls, ResolvePayout(c) PROVE Reserved'
  <2> DEFINE q == call[c].payout
  <2>1. PICK a : AddEntries(q, a)
    BY <1>5, ResolveShape
  <2>2. /\ payout'[q].status # "PROCESSING" /\ payout'[q] # NoPayout
        /\ \A r \in PayoutIds \ {q} : payout'[r] = payout[r]
    BY <1>5, ResolveShape
  <2>3. /\ DOMAIN transactions' = DOMAIN transactions
        /\ \A i \in DOMAIN transactions :
             /\ transactions'[i].type = transactions[i].type
             /\ transactions'[i].subject = transactions[i].subject
             /\ i \notin RowsOf(q, "PAYOUT") => transactions'[i] = transactions[i]
    BY <2>1, ReleaseRows DEF Shape
  <2> HIDE DEF q
  <2>4. \A r \in PayoutIds : RowsOf(r, "PAYOUT")' = RowsOf(r, "PAYOUT")
    BY <2>3 DEF RowsOf
  <2>5. \A r \in PayoutIds \ {q} : \A i \in RowsOf(r, "PAYOUT") : transactions'[i] = transactions[i]
    BY <2>3 DEF RowsOf
  <2>6. NoRowYet'
    BY <2>2, <2>4 DEF NoRowYet, Reserved
  <2>7. ProcessingIsReserved'
    BY <2>2, <2>4, <2>5 DEF ProcessingIsReserved, Reserved
  <2>8. QED
    BY <2>6, <2>7 DEF Reserved
<1>6. ASSUME NEW c \in Calls, NEW s \in SettlementIds, CommitSettlement(c, s) PROVE Reserved'
  <2>1. UNCHANGED payout
    BY <1>6, SettlementShape
  <2>2. /\ DOMAIN transactions' = DOMAIN transactions
        /\ \A i \in DOMAIN transactions :
             /\ transactions'[i].type = transactions[i].type
             /\ transactions'[i].subject = transactions[i].subject
             /\ transactions'[i].entries = transactions[i].entries
    BY <1>6, LinkRows DEF Shape
  <2>3. QED
    BY <1>1, <2>1, <2>2
<1>7. CASE PartnerStep
  BY <1>2, <1>7, OrganizationShape
<1>8. ASSUME NEW c \in Calls, ReadStep(c) PROVE Reserved'
  BY <1>2, <1>8, ReadShape DEF ledgerVars
<1>9. QED
  BY <1>2, <1>3, <1>4, <1>5, <1>6, <1>7, <1>8
     DEF PayoutsNext, PayoutStep, SettlementStep, ReadStep, vars, ledgerVars

\* A link is to a settlement that has counted the row.
LEMMA LinkedKept ==
  ASSUME Shape, LinkedSoundly, [PayoutsNext]_vars
  PROVE  LinkedSoundly'
<1> USE PayoutsAssumption
<1>1. ASSUME UNCHANGED settlement, DOMAIN transactions \subseteq DOMAIN transactions',
             \A i \in DOMAIN transactions :
               /\ transactions'[i].type = transactions[i].type
               /\ transactions'[i].settlement = transactions[i].settlement,
             \A i \in DOMAIN transactions' \ DOMAIN transactions :
               transactions'[i].type = "PAYOUT" \/ transactions'[i].settlement = None
      PROVE  LinkedSoundly'
  BY <1>1 DEF LinkedSoundly, LinkedToRows, LinkedWasCounted
<1>2. CASE UNCHANGED <<transactions, settlement>>
  BY <1>1, <1>2
<1>3. ASSUME NEW row, DOMAIN row = RowFields, row.type = "PAYOUT" \/ row.settlement = None,
             transactions' = Append(transactions, row), UNCHANGED settlement
      PROVE  LinkedSoundly'
  <2>1. /\ DOMAIN transactions' = DOMAIN transactions \cup {Len(transactions) + 1}
        /\ transactions'[Len(transactions) + 1] = row
        /\ \A i \in DOMAIN transactions : transactions'[i] = transactions[i]
    BY <1>3, Appended DEF Shape
  <2>2. QED
    BY <1>1, <1>3, <2>1
<1>4. CASE LedgerStep
  <2>1. OtherAdded /\ UNCHANGED settlement
    BY <1>4, OtherRow
  <2>2. QED
    BY <1>3, <2>1 DEF OtherAdded
<1>5. ASSUME NEW c \in Calls, NEW q \in PayoutIds, CommitPayout(c, q) PROVE LinkedSoundly'
  <2>1. PayoutAdded(c, q) /\ UNCHANGED settlement
    BY <1>5, CommitPayoutShape
  <2>2. QED
    BY <1>3, <2>1 DEF PayoutAdded
<1>6. ASSUME NEW c \in Calls, ResolvePayout(c) PROVE LinkedSoundly'
  <2>1. PICK a : AddEntries(call[c].payout, a)
    BY <1>6, ResolveShape
  <2>2. UNCHANGED settlement
    BY <1>6, ResolveShape
  <2>3. /\ DOMAIN transactions' = DOMAIN transactions
        /\ \A i \in DOMAIN transactions :
             /\ transactions'[i].type = transactions[i].type
             /\ transactions'[i].settlement = transactions[i].settlement
    BY <2>1, ReleaseRows DEF Shape
  <2>4. QED
    BY <1>1, <2>2, <2>3
<1>7. ASSUME NEW c \in Calls, NEW s \in SettlementIds, CommitSettlement(c, s) PROVE LinkedSoundly'
  <2>1. /\ settlement[s] = NoSettlement /\ settlement'[s].counted = call[c].found
        /\ \A r \in SettlementIds \ {s} : settlement'[r] = settlement[r]
    BY <1>7, SettlementShape
  <2>2. /\ DOMAIN transactions' = DOMAIN transactions
        /\ \A i \in DOMAIN transactions :
             /\ transactions'[i].type = transactions[i].type
             /\ transactions'[i].settlement =
                  IF i \in call[c].found THEN s ELSE transactions[i].settlement
    BY <1>7, LinkRows DEF Shape
  <2>3. LinkedToRows'
    BY <2>2 DEF LinkedSoundly, LinkedToRows
  <2>4. ASSUME NEW i \in DOMAIN transactions, transactions[i].type \in {"PAYMENT", "REFUND"},
               transactions'[i].settlement # None
        PROVE  i \in settlement'[transactions'[i].settlement].counted
    <3>1. CASE i \in call[c].found
      BY <2>1, <2>2, <3>1
    <3>2. CASE i \notin call[c].found
      <4>1. /\ transactions'[i].settlement = transactions[i].settlement
            /\ transactions[i].settlement \in SettlementIds
            /\ i \in settlement[transactions[i].settlement].counted
        BY <2>2, <2>4, <3>2 DEF LinkedSoundly, LinkedToRows, LinkedWasCounted
      <4>2. transactions[i].settlement # s
        BY <2>1, <4>1 DEF NoSettlement
      <4>3. QED
        BY <2>1, <4>1, <4>2
    <3>3. QED
      BY <3>1, <3>2
  <2>5. LinkedWasCounted'
    BY <2>2, <2>4 DEF LinkedWasCounted
  <2>6. QED
    BY <2>3, <2>5 DEF LinkedSoundly
<1>8. CASE PartnerStep
  BY <1>2, <1>8, OrganizationShape
     DEF PartnerStep, OnboardPartner, UpdateOrganization, ReviewPartner
<1>9. ASSUME NEW c \in Calls, ReadStep(c) PROVE LinkedSoundly'
  BY <1>2, <1>9, ReadShape DEF ledgerVars
<1>10. QED
  BY <1>2, <1>4, <1>5, <1>6, <1>7, <1>8, <1>9
     DEF PayoutsNext, PayoutStep, SettlementStep, ReadStep, vars, ledgerVars

LEMMA ShapeKept == Shape /\ [PayoutsNext]_vars => Shape'
<1> SUFFICES ASSUME Shape, [PayoutsNext]_vars PROVE Shape'
  OBVIOUS
<1>1. CASE UNCHANGED vars
  BY <1>1 DEF vars, ledgerVars, Shape, LedgerRows, CallsKnow, Tables
<1>2. QED
  BY <1>1, OrganizationShape, LedgerShape, ReadShape, CommitPayoutShape, ResolveShape, SettlementShape
     DEF PayoutsNext, PayoutStep, SettlementStep, ReadStep

LEMMA PayoutsBegin == PayoutsInit => Shape /\ ApprovedFirst /\ Reserved /\ LinkedSoundly
<1> SUFFICES ASSUME PayoutsInit PROVE Shape /\ ApprovedFirst /\ Reserved /\ LinkedSoundly
  OBVIOUS
<1>1. transactions = <<>> /\ DOMAIN transactions = {}
  BY DEF PayoutsInit, LedgerInit
<1>2. LedgerRows
  <2>1. transactions \in Seq({})
    BY <1>1
  <2>2. QED
    BY <1>1, <2>1 DEF LedgerRows
<1>3. Shape
  BY <1>2, FreeTyped DEF PayoutsInit, Shape, CallsKnow, Tables, KYCStatus, Free
<1>4. ApprovedFirst
  BY DEF PayoutsInit, ApprovedFirst, PaidOutAfterApproval, Free
<1>5. Reserved
  BY <1>1 DEF PayoutsInit, Reserved, NoRowYet, ProcessingIsReserved, NoPayout, RowsOf
<1>6. LinkedSoundly
  BY <1>1 DEF LinkedSoundly, LinkedToRows, LinkedWasCounted
<1>7. QED
  BY <1>3, <1>4, <1>5, <1>6

\* No payout is made for an organization that was never APPROVED (initiatePayout checks
\* before it inserts, reviewPartner may run in between).
THEOREM ApprovalHolds == PayoutsSpec => []PaidOutAfterApproval
<1>1. ApprovedFirst => PaidOutAfterApproval
  BY DEF ApprovedFirst
<1>2. Shape /\ ApprovedFirst /\ [PayoutsNext]_vars => ApprovedFirst'
  BY ApprovedKept
<1>3. QED
  BY <1>1, <1>2, PayoutsBegin, ShapeKept, PTL DEF PayoutsSpec

\* A payout that is PROCESSING holds its amount, in one row, although completePayout and
\* failPayout write over what they have not read again.
THEOREM ReservationHolds == PayoutsSpec => []ProcessingIsReserved
<1>1. Reserved => ProcessingIsReserved
  BY DEF Reserved
<1>2. Shape /\ Reserved /\ [PayoutsNext]_vars => Reserved'
  BY ReservedKept
<1>3. QED
  BY <1>1, <1>2, PayoutsBegin, ShapeKept, PTL DEF PayoutsSpec

\* A settlement claims rows of customers' money only if it has summed them, whatever is
\* posted and settled meanwhile (createSettlement).
THEOREM LinkedHolds == PayoutsSpec => []LinkedWasCounted
<1>1. LinkedSoundly => LinkedWasCounted
  BY DEF LinkedSoundly
<1>2. Shape /\ LinkedSoundly /\ [PayoutsNext]_vars => LinkedSoundly'
  BY LinkedKept
<1>3. QED
  BY <1>1, <1>2, PayoutsBegin, ShapeKept, PTL DEF PayoutsSpec

-----------------------------------------------------------------------------
\* The types of the ledger's rows, and that they balance.

\* A transaction's entries, credits minus debits, over all accounts.
EntriesSum(entries) ==
  entries["PAYMENT_CLEARING"] + entries["PARTNER_PAYABLE"] + entries["PLATFORM_REVENUE"]
  + entries["PAYOUT_PENDING"] + entries["PLATFORM_ADJUSTMENT_EXPENSE"]
  + entries["PLATFORM_ADJUSTMENT_INCOME"]

Sound(row) ==
  /\ row.type \in {"PAYMENT", "REFUND", "PAYOUT", "ADJUSTMENT"}
  /\ row.percent \in Nat
  /\ row.settlement \in SettlementIds \cup {None}
  /\ row.entries \in [Accounts -> Int] /\ EntriesSum(row.entries) = 0

\* Money is neither made nor lost: the entries of each row of the ledger add up to nothing,
\* also after completes and fails have added theirs, twice or both.
RowsBalance == \A i \in DOMAIN transactions : EntriesSum(transactions[i].entries) = 0

Money == rate \in Rate /\ \A i \in DOMAIN transactions : Sound(transactions[i])

\* A call knows rows that are there, and so does a settlement: no row is ever deleted.
RowsExist ==
  /\ \A s \in SettlementIds : settlement[s].counted \subseteq DOMAIN transactions
  /\ \A c \in Calls : call[c].found \subseteq DOMAIN transactions

LEMMA ShareTyped ==
  ASSUME NEW amount \in Nat, NEW percent \in Nat, NEW fee
  PROVE  Share(amount, percent, fee) \in Nat
<1> DEFINE exact == amount * percent
<1>1. exact \in Nat
  OBVIOUS
<1>2. Share(amount, percent, fee) \in {exact \div 10000, exact \div 10000 + 1}
  BY <1>1 DEF Share
<1> HIDE DEF exact
<1>3. exact \div 10000 \in Nat
  BY <1>1
<1>4. QED
  BY <1>2, <1>3

\* Entries that add up to nothing make a sound row.
LEMMA SoundRow ==
  ASSUME NEW type \in {"PAYMENT", "REFUND", "PAYOUT", "ADJUSTMENT"}, NEW percent \in Nat,
         NEW entries \in [Accounts -> Int], EntriesSum(entries) = 0,
         NEW subject, NEW key, NEW amount, NEW commission
  PROVE  Sound(Row(type, subject, key, amount, percent, commission, entries))
BY DEF Row, Sound

LEMMA PaymentSound ==
  ASSUME rate \in Rate, NEW p \in Payments, InsertPayment(p)
  PROVE  \E row : /\ DOMAIN row = RowFields /\ Sound(row)
                  /\ transactions' = Append(transactions, row)
<1> DEFINE commission == Commission(Gross[p], rate)
           entries == [NoEntries EXCEPT !["PAYMENT_CLEARING"] = -Gross[p],
                                        !["PARTNER_PAYABLE"] = Gross[p] - commission,
                                        !["PLATFORM_REVENUE"] = commission]
           row == Row("PAYMENT", p, <<"pay", p>>, Gross[p], rate.percent, commission, entries)
<1>1. Gross[p] \in Nat /\ rate.percent \in Nat /\ rate.fee \in Nat
  BY LedgerAssumption DEF Rate
<1>2. commission \in Nat
  <2>1. Share(Gross[p], rate.percent, rate.fee) \in Nat
    BY <1>1, ShareTyped
  <2>2. QED
    BY <1>1, <2>1 DEF Commission
<1>3. transactions' = Append(transactions, row)
  BY DEF InsertPayment
<1> HIDE DEF commission
<1>4. entries \in [Accounts -> Int] /\ EntriesSum(entries) = 0
  BY <1>1, <1>2 DEF EntriesSum, NoEntries, Accounts
<1> HIDE DEF entries
<1>5. Sound(row) /\ DOMAIN row = RowFields
  <2>1. Sound(row)
    BY <1>1, <1>4, SoundRow
  <2>2. QED
    BY <2>1, RowMade
<1>6. QED
  BY <1>3, <1>5

LEMMA RefundSound ==
  ASSUME Money, NEW p \in Payments, InsertRefund(p, RefundedSoFar(p))
  PROVE  \E row : /\ DOMAIN row = RowFields /\ Sound(row)
                  /\ transactions' = Append(transactions, row)
<1> DEFINE percent == Snapshot(p)
           reversed == Share(Gross[p], percent, 0)
           entries == [NoEntries EXCEPT !["PARTNER_PAYABLE"] = reversed - Gross[p],
                                        !["PLATFORM_REVENUE"] = -reversed,
                                        !["PAYMENT_CLEARING"] = Gross[p]]
           row == Row("REFUND", p, <<"refund", p, RefundedSoFar(p) + Gross[p]>>, Gross[p], percent,
                      reversed, entries)
<1>1. Gross[p] \in Nat
  BY LedgerAssumption
<1>2. percent \in Nat
  BY DEF Snapshot, RowsOf, Money, Sound
<1>3. transactions' = Append(transactions, row)
  BY DEF InsertRefund
<1> HIDE DEF percent
<1>4. reversed \in Nat
  BY <1>1, <1>2, ShareTyped
<1> HIDE DEF reversed
<1>5. entries \in [Accounts -> Int] /\ EntriesSum(entries) = 0
  BY <1>1, <1>4 DEF EntriesSum, NoEntries, Accounts
<1> HIDE DEF entries
<1>6. Sound(row) /\ DOMAIN row = RowFields
  <2>1. Sound(row)
    BY <1>2, <1>5, SoundRow
  <2>2. QED
    BY <2>1, RowMade
<1>7. QED
  BY <1>3, <1>6

LEMMA AdjustmentSound ==
  ASSUME NEW amount \in Amounts, NEW direction \in {"CREDIT", "DEBIT"},
         RecordAdjustment(amount, direction)
  PROVE  \E row : /\ DOMAIN row = RowFields /\ Sound(row)
                  /\ transactions' = Append(transactions, row)
<1> DEFINE entries ==
             IF direction = "CREDIT"
             THEN [NoEntries EXCEPT !["PLATFORM_ADJUSTMENT_EXPENSE"] = -amount,
                                    !["PARTNER_PAYABLE"] = amount]
             ELSE [NoEntries EXCEPT !["PARTNER_PAYABLE"] = -amount,
                                    !["PLATFORM_ADJUSTMENT_INCOME"] = amount]
           row == Row("ADJUSTMENT", None, <<"adj", Len(transactions) + 1>>, amount, 0, 0, entries)
<1>1. amount \in Nat
  BY PayoutsAssumption
<1>2. transactions' = Append(transactions, row)
  BY DEF RecordAdjustment
<1>3. entries \in [Accounts -> Int] /\ EntriesSum(entries) = 0
  BY <1>1 DEF EntriesSum, NoEntries, Accounts
<1> HIDE DEF entries
<1>4. Sound(row) /\ DOMAIN row = RowFields
  <2>1. Sound(row)
    BY <1>3, SoundRow
  <2>2. QED
    BY <2>1, RowMade
<1>5. QED
  BY <1>2, <1>4

LEMMA PayoutSound ==
  ASSUME Shape, NEW c \in Calls, NEW q \in PayoutIds, CommitPayout(c, q)
  PROVE  \E row : /\ DOMAIN row = RowFields /\ Sound(row)
                  /\ transactions' = Append(transactions, row)
<1> DEFINE amount == call[c].amount
           entries == PayoutEntries(amount)
           row == [Row("PAYOUT", q, <<"payout", q>>, amount, 0, 0, entries)
                     EXCEPT !.settlement = call[c].settlement]
<1>1. transactions' = Append(transactions, row)
  BY DEF CommitPayout
<1>2. call[c].step = "initiate"
  BY DEF CommitPayout
<1>3. amount \in Nat /\ call[c].settlement \in SettlementIds \cup {None}
  BY <1>2, PayoutsAssumption DEF Shape, CallsKnow, CallRow
<1> HIDE DEF amount
<1>4. entries \in [Accounts -> Int] /\ EntriesSum(entries) = 0
  BY <1>3 DEF EntriesSum, PayoutEntries, NoEntries, Accounts
<1> HIDE DEF entries
<1>5. Sound(row) /\ DOMAIN row = RowFields
  <2> DEFINE made == Row("PAYOUT", q, <<"payout", q>>, amount, 0, 0, entries)
  <2>1. Sound(made)
    BY <1>4, SoundRow
  <2>2. DOMAIN made = RowFields
    BY RowMade
  <2> HIDE DEF made
  <2>3. QED
    BY <1>3, <2>1, <2>2 DEF made, Sound, RowFields
<1>6. QED
  BY <1>1, <1>5

LEMMA EntriesMoved ==
  ASSUME NEW e \in [Accounts -> Int], NEW x \in Int, NEW a \in {"PAYMENT_CLEARING", "PARTNER_PAYABLE"}
  PROVE  LET f == [e EXCEPT !["PAYOUT_PENDING"] = @ - x, ![a] = @ + x] IN
         f \in [Accounts -> Int] /\ EntriesSum(f) = EntriesSum(e)
<1>1. CASE a = "PAYMENT_CLEARING"
  BY <1>1 DEF EntriesSum, Accounts
<1>2. CASE a = "PARTNER_PAYABLE"
  BY <1>2 DEF EntriesSum, Accounts
<1>3. QED
  BY <1>1, <1>2

LEMMA ResolveSound ==
  ASSUME Shape, Money, NEW c \in Calls, ResolvePayout(c)
  PROVE  Money' /\ DOMAIN transactions' = DOMAIN transactions
<1> DEFINE q == call[c].payout
           x == payout[q].amount
           a == IF call[c].step = "COMPLETED" THEN "PAYMENT_CLEARING" ELSE "PARTNER_PAYABLE"
<1>1. AddEntries(q, a) /\ rate' = rate
  BY DEF ResolvePayout
<1>2. x \in Int
  <2>1. q \in PayoutIds /\ payout[q] # NoPayout
    BY ResolveShape
  <2>2. payout[q] \in PayoutRow
    BY <2>1 DEF Shape, Tables
  <2>3. x \in Amounts
    BY <2>2 DEF PayoutRow
  <2> HIDE DEF x
  <2>4. QED
    BY <2>3, PayoutsAssumption
<1>3. a \in {"PAYMENT_CLEARING", "PARTNER_PAYABLE"}
  OBVIOUS
<1>4. LedgerRows /\ \A i \in DOMAIN transactions : DOMAIN transactions[i] = RowFields
  BY DEF Shape, LedgerRows
<1>5. transactions' = [i \in DOMAIN transactions |->
        IF i \notin RowsOf(q, "PAYOUT") THEN transactions[i]
        ELSE [transactions[i] EXCEPT !.entries["PAYOUT_PENDING"] = @ - x, !.entries[a] = @ + x]]
  BY <1>1 DEF AddEntries
<1> HIDE DEF q, x, a
<1>6. ASSUME NEW i \in DOMAIN transactions PROVE Sound(transactions'[i])
  <2>1. Sound(transactions[i]) /\ DOMAIN transactions[i] = RowFields
    BY <1>4 DEF Money
  <2>2. CASE i \notin RowsOf(q, "PAYOUT")
    BY <1>5, <2>1, <2>2
  <2>3. CASE i \in RowsOf(q, "PAYOUT")
    <3> DEFINE row == transactions[i]
               f == [row.entries EXCEPT !["PAYOUT_PENDING"] = @ - x, ![a] = @ + x]
    <3>1. transactions'[i] = [row EXCEPT !.entries["PAYOUT_PENDING"] = @ - x, !.entries[a] = @ + x]
      BY <1>5, <2>3
    <3>2. transactions'[i] = [row EXCEPT !.entries = f]
      BY <2>1, <3>1 DEF RowFields
    <3>3. f \in [Accounts -> Int] /\ EntriesSum(f) = EntriesSum(row.entries)
      BY <1>2, <1>3, <2>1, EntriesMoved DEF Sound
    <3> HIDE DEF f
    <3>4. QED
      BY <2>1, <3>2, <3>3 DEF Sound, RowFields
  <2>4. QED
    BY <2>2, <2>3
<1>7. QED
  BY <1>1, <1>5, <1>6 DEF Money

LEMMA SettleSound ==
  ASSUME Shape, Money, NEW c \in Calls, NEW s \in SettlementIds, CommitSettlement(c, s)
  PROVE  Money' /\ DOMAIN transactions' = DOMAIN transactions
<1>1. rate' = rate /\ transactions' = [i \in DOMAIN transactions |->
        IF i \in call[c].found THEN [transactions[i] EXCEPT !.settlement = s] ELSE transactions[i]]
  BY DEF CommitSettlement, Linked
<1>2. \A i \in DOMAIN transactions : DOMAIN transactions[i] = RowFields /\ Sound(transactions[i])
  BY DEF Shape, LedgerRows, Money
<1>3. \A i \in DOMAIN transactions : Sound(transactions'[i])
  BY <1>1, <1>2 DEF Sound, RowFields
<1>4. QED
  BY <1>1, <1>3 DEF Money

\* Another row, or none.
LEMMA GrowSound ==
  ASSUME Shape, Money, rate' = rate,
         \/ UNCHANGED transactions
         \/ \E row : /\ DOMAIN row = RowFields /\ Sound(row)
                     /\ transactions' = Append(transactions, row)
  PROVE  Money' /\ DOMAIN transactions \subseteq DOMAIN transactions'
<1>1. CASE UNCHANGED transactions
  BY <1>1 DEF Money
<1>2. ASSUME NEW row, DOMAIN row = RowFields, Sound(row), transactions' = Append(transactions, row)
      PROVE  Money' /\ DOMAIN transactions \subseteq DOMAIN transactions'
  <2>1. /\ DOMAIN transactions' = DOMAIN transactions \cup {Len(transactions) + 1}
        /\ transactions'[Len(transactions) + 1] = row
        /\ \A i \in DOMAIN transactions : transactions'[i] = transactions[i]
    BY <1>2, Appended DEF Shape
  <2>2. QED
    BY <1>2, <2>1 DEF Money
<1>3. QED
  BY <1>1, <1>2

LEMMA MoneyKept ==
  ASSUME Shape, Money, [PayoutsNext]_vars
  PROVE  Money' /\ DOMAIN transactions \subseteq DOMAIN transactions'
<1>1. ASSUME NEW p \in Payments, PostPayment(p) \/ PostRefund(p)
      PROVE  Money' /\ DOMAIN transactions \subseteq DOMAIN transactions'
  <2>1. InsertPayment(p) \/ InsertRefund(p, RefundedSoFar(p))
    BY <1>1 DEF PostPayment, PostRefund
  <2>2. rate' = rate
    BY <2>1 DEF InsertPayment, InsertRefund
  <2>3. QED
    BY <2>1, <2>2, PaymentSound, RefundSound, GrowSound DEF Money
<1>2. ASSUME NEW amount \in Amounts, NEW direction \in {"CREDIT", "DEBIT"},
             RecordAdjustment(amount, direction)
      PROVE  Money' /\ DOMAIN transactions \subseteq DOMAIN transactions'
  BY <1>2, AdjustmentSound, GrowSound DEF RecordAdjustment
<1>3. ASSUME NEW c \in Calls, NEW q \in PayoutIds, CommitPayout(c, q)
      PROVE  Money' /\ DOMAIN transactions \subseteq DOMAIN transactions'
  BY <1>3, PayoutSound, GrowSound DEF CommitPayout
<1>4. ASSUME NEW c \in Calls, ReadStep(c)
      PROVE  Money' /\ DOMAIN transactions \subseteq DOMAIN transactions'
  BY <1>4, ReadShape, GrowSound DEF ledgerVars
<1>5. CASE PartnerStep \/ UNCHANGED vars
  BY <1>5, GrowSound
     DEF PartnerStep, OnboardPartner, UpdateOrganization, ReviewPartner, vars, ledgerVars
<1>6. QED
  BY <1>1, <1>2, <1>3, <1>4, <1>5, ResolveSound, SettleSound
     DEF PayoutsNext, LedgerStep, PayoutStep, SettlementStep, ReadStep

\* The rows a call has found stay where they are.
LEMMA RowsExistKept ==
  ASSUME Shape, Money, RowsExist, [PayoutsNext]_vars
  PROVE  RowsExist'
<1>1. DOMAIN transactions \subseteq DOMAIN transactions'
  BY MoneyKept
<1>2. ASSUME NEW c \in Calls, NEW next, call' = [call EXCEPT ![c] = next],
             next.found \subseteq DOMAIN transactions, UNCHANGED settlement
      PROVE  RowsExist'
  BY <1>1, <1>2 DEF RowsExist, Shape, CallsKnow
<1>3. Free.found = {}
  BY DEF Free
<1>4. ASSUME UNCHANGED <<call, settlement>> PROVE RowsExist'
  BY <1>1, <1>4 DEF RowsExist
<1>5. CASE PartnerStep \/ LedgerStep \/ UNCHANGED vars
  BY <1>4, <1>5
     DEF PartnerStep, OnboardPartner, UpdateOrganization, ReviewPartner, LedgerStep, PostPayment,
         PostRefund, RecordAdjustment, vars
<1>6. ASSUME NEW c \in Calls, (\E q \in PayoutIds : CommitPayout(c, q)) \/ ResolvePayout(c) \/ FailCall(c)
      PROVE  RowsExist'
  <2>1. call' = [call EXCEPT ![c] = Free] /\ UNCHANGED settlement
    BY <1>6 DEF CommitPayout, ResolvePayout, FailCall, End
  <2>2. QED
    BY <1>2, <1>3, <2>1
<1>7. ASSUME NEW c \in Calls, NEW amount, NEW s, ReadOrganization(c, amount, s) PROVE RowsExist'
  <2> DEFINE next == [Free EXCEPT !.step = "balance", !.amount = amount, !.settlement = s]
  <2>1. call' = [call EXCEPT ![c] = next] /\ UNCHANGED settlement
    BY <1>7 DEF ReadOrganization, Begin
  <2>2. next.found = {}
    BY DEF Free
  <2> HIDE DEF next
  <2>3. QED
    BY <1>2, <2>1, <2>2
<1>8. ASSUME NEW c \in Calls, ReadBalance(c) PROVE RowsExist'
  <2> DEFINE next == [call[c] EXCEPT !.step = "initiate"]
  <2>1. call' = [call EXCEPT ![c] = next] /\ UNCHANGED settlement
    BY <1>8 DEF ReadBalance, Then
  <2>2. next.found = call[c].found
    BY DEF Shape, CallsKnow, CallRow
  <2> HIDE DEF next
  <2>3. QED
    BY <1>2, <2>1, <2>2 DEF RowsExist
<1>9. ASSUME NEW c \in Calls, NEW q, NEW status, ReadPayout(c, q, status) PROVE RowsExist'
  <2> DEFINE next == [Free EXCEPT !.step = status, !.payout = q]
  <2>1. call' = [call EXCEPT ![c] = next] /\ UNCHANGED settlement
    BY <1>9 DEF ReadPayout, Begin
  <2>2. next.found = {}
    BY DEF Free
  <2> HIDE DEF next
  <2>3. QED
    BY <1>2, <2>1, <2>2
<1>10. ASSUME NEW c \in Calls, NEW window, FindUnsettled(c, window) PROVE RowsExist'
  <2> DEFINE found == {i \in window \cap DOMAIN transactions : transactions[i].settlement = None}
             next == [Free EXCEPT !.step = "settle", !.found = found]
  <2>1. call' = [call EXCEPT ![c] = next] /\ UNCHANGED settlement
    BY <1>10 DEF FindUnsettled, Begin
  <2>2. next.found = found
    BY DEF Free
  <2>3. found \subseteq DOMAIN transactions
    OBVIOUS
  <2> HIDE DEF next, found
  <2>4. QED
    BY <1>2, <2>1, <2>2, <2>3
<1>11. ASSUME NEW c \in Calls, NEW s \in SettlementIds, CommitSettlement(c, s) PROVE RowsExist'
  <2>1. /\ settlement'[s].counted = call[c].found
        /\ \A r \in SettlementIds \ {s} : settlement'[r] = settlement[r]
        /\ call' = [call EXCEPT ![c] = Free]
    BY <1>11, SettlementShape
  <2>2. QED
    BY <1>1, <1>3, <2>1 DEF RowsExist, Shape, CallsKnow
<1>12. QED
  BY <1>5, <1>6, <1>7, <1>8, <1>9, <1>10, <1>11
     DEF PayoutsNext, PayoutStep, SettlementStep

LEMMA MoneyBegins == PayoutsInit => Money /\ RowsExist
<1> SUFFICES ASSUME PayoutsInit PROVE Money /\ RowsExist
  OBVIOUS
<1>1. transactions = <<>> /\ DOMAIN transactions = {} /\ rate = DefaultRate
  BY DEF PayoutsInit, LedgerInit
<1>2. Money
  BY <1>1 DEF Money, DefaultRate, Rate
<1>3. RowsExist
  BY DEF PayoutsInit, RowsExist, NoSettlement, Free
<1>4. QED
  BY <1>2, <1>3

\* The tables keep their types, and no call and no settlement names a row that is not in
\* the ledger, although calls keep the rows they have found while others write.
THEOREM PayoutsTypeCorrect == PayoutsSpec => []PayoutsTypeOK
<1>1. Shape /\ Money /\ RowsExist => PayoutsTypeOK
  BY DEF Shape, Tables, Money, Sound, RowsExist, PayoutsTypeOK
<1>2. Shape /\ Money /\ [PayoutsNext]_vars => Money'
  BY MoneyKept
<1>3. Shape /\ Money /\ RowsExist /\ [PayoutsNext]_vars => RowsExist'
  BY RowsExistKept
<1>4. QED
  BY <1>1, <1>2, <1>3, PayoutsBegin, MoneyBegins, ShapeKept, PTL DEF PayoutsSpec

\* Every row of the ledger balances: payments, refunds, payouts and adjustments, and what
\* completePayout and failPayout add to a payout's row, however often they run.
THEOREM RowsBalanceHolds == PayoutsSpec => []RowsBalance
<1>1. Money => RowsBalance
  BY DEF Money, Sound, RowsBalance
<1>2. Shape /\ Money /\ [PayoutsNext]_vars => Money'
  BY MoneyKept
<1>3. QED
  BY <1>1, <1>2, PayoutsBegin, MoneyBegins, ShapeKept, PTL DEF PayoutsSpec
=============================================================================
