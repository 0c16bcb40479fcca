# Formal models of PlayHub

PlayHub is a booking platform for sports venues: a NestJS backend over PostgreSQL
(Prisma), Redis and BullMQ, and a Flutter client. Customers find venues, book slots of
their facilities, pay through Razorpay or Stripe, check in with a QR pass and chat about
their match; partners manage venues, accept bookings and are paid out; administrators
review partners, decide disputes and retry what failed.

This directory holds TLA+ models of the parts in which mistakes are hardest to find by
testing. TLC checks them on small instances, and TLAPS proves the main safety properties
of bookings, availability, prices, payments, webhooks, the ledger, payouts, the search cache, sessions, disputes, points, chat
and communication for all instances.

Paths below are relative to `src/backend/src/` unless they start with `docs/` or `lib/`.

## 1. Inventory

Every backend component runs in a stateless Node process; several instances may run. A
request is interleaved with all others at every `await`. The shared state is the
database; only what one transaction, one conditional update or a table constraint
protects is atomic. Domain events (`EventEmitter2`) are in-process, fire and forget.

| Component | State it keeps | Operations | Interacts with | What makes it correct |
|---|---|---|---|---|
| Bookings (`bookings/`) | `bookings`, `check_ins` | create, cancel, reschedule, accept, reject, checkIn, noShow, complete | availability, pricing, payments (same tables), events | no two holders of one slot; statuses follow their life cycle; a repeated create yields one booking; completed means checked in |
| Availability (`availability/`, `common/utils/time-interval.util.ts`) | none; reads `operating_hours`, `availability_blocks`, `bookings` | getAvailability | venues, facilities, bookings | offered time is exactly the open time that nothing takes, whatever the order and extent of the rows |
| Pricing (`availability/pricing.service.ts`) | none; reads `pricing_rules` | calculatePrice | availability, bookings, search | a booking costs what its parts cost |
| Venues, facilities (`venues/`, `facilities/`) | `venues`, `operating_hours`, `facilities`, `availability_blocks`, `pricing_rules` | create, update, geocoding, updateOperatingHours, blocks, rules, findNearby | availability, cache | hours stay usable; searches are right in the end |
| Cache (`redis/`) | keys with expiry | get, set, delPattern, getOrSet | search | an invalidation reaches what was cached before it |
| Payments (`payments/`) | `payments`, `payment_webhook_events`, booking status | createOrder, verifyPayment, handleWebhook, reconcilePayment, initiateRefund | gateway, bookings, events | captured only if paid; refunded only if refunded; paid bookings confirmed; orders settled in the end |
| Webhook pipeline (`webhooks/`, `queues/`) | `payment_webhook_events`, BullMQ jobs | receiveWebhook, processWebhookEvent, retryWebhookEvent, retryFailedJobs | payments, bookings, ledger, listener | an event signed off has taken effect; a job ends; nothing is posted twice |
| Ledger (`finance/finance.service.ts`, its listener) | `financial_transactions`, entries, commission configurations | recordPayment, recordRefund, recordAdjustment, commission rules | webhooks, payment events | entries balance; one posting and one reversal a payment |
| Reconciliation (`finance/`) | a report | runReconciliation | ledger, payments | reports what is missing |
| Settlement, payouts (`finance/`), KYC (`organizations/`, `admin/`) | `settlements`, `payouts`, organizations | createSettlement, initiatePayout, completePayout, failPayout, onboarding, review | ledger, workers | a payout in progress holds its amount; a settlement claims what it has summed |
| Auth (`auth/`) and the client's repository, interceptor and storage | `sessions`, `refresh_tokens`, the client's storage | register, login, refresh, logout | each other | one live token a session; no race leaves an exchanged token in the storage |
| Support, disputes (`support/`) | `support_tickets`, `disputes` | tickets, messages, createDispute, partnerResponse, resolveDispute | payments, loyalty | a decision has happened, once |
| Loyalty (`loyalty/`) | accounts, transactions | earn, redeem, adjust | disputes | points come from awards, each once; nobody has more than was earned |
| Communication, notifications | logs, devices, preferences, inbox | sendNotification, listeners, mark as read | events | a message leaves once, and the log tells |
| Match chat (`chat/`) and its screen | conversations, messages, rooms | history, send, arrival, join, leave | communication | who joined and then loaded misses only what is past its page and what came over REST |
| Coupons, memberships, media, reports, search scoring, plain records, plumbing | rows written one at a time | create, read, update | - | see section 6 |

What is hard about it: stale reads (almost every operation validates first and writes
later), racing requests, repeated requests, webhooks, jobs and events, gateway calls made
inside transactions, stops of a server between two writes, caches, and rules enforced at
two places with different scope (the conflict query and the exclusion constraint). The
hazards are listed, each at its line, in `PROJECT.json`.

## 2. Modules

```
Intervals --+-- Availability --+-- Schedule
            |                  +-- Booking ------ Payments
            |                         |
            |                    SlotCalendar (abstract; Booking refines it)
            +-- Pricing -------- Places

Ledger --+-- Webhooks ------ Reconciliation      Books (abstract; Webhooks refines it)
         +-- Payouts

Loyalty ---- Disputes        Communication ---- Chat

Sessions ---- TokenFamily (abstract; Sessions refines it)
```

| Module | Models | State |
|---|---|---|
| `Intervals`, `Availability`, `Pricing` | `TimeInterval`, `getAvailability` of one day, `calculatePrice` | none (operators) |
| `Schedule` | the tables availability is computed from, and the requests that write them | `hours`, `saving`, `blocks`, `bookings` |
| `SlotCalendar` | what the booking engine promises: a calendar in which nobody shares a slot | `hold` |
| `Booking` | `BookingsService` over `bookings`, `check_ins`, `payments` | the tables, `req`, two history variables |
| `Payments` | `PaymentsService` composed with `Booking` | `order`, `paid`, `asked`, `call`, `recorded`, `announced` |
| `Places` | venues, facilities, rules, the cached radius search | the tables, `invalidation`, `cache`, `search` |
| `Ledger` | `FinanceService`: transactions with their entries, commission rates | `transactions`, `rate` |
| `Webhooks` | `WebhooksService`, the queue, its workers, the finance listener | the tables, `event`, `says`, `job`, `thread`, `emitted` |
| `Books` | what the ledger promises of a payment: unposted, posted, reversed | `book` |
| `Reconciliation` | the checks of `ReconciliationService` | none (operators over `Webhooks`) |
| `Payouts` | `PayoutService`, `SettlementService`, KYC | `organization`, `payout`, `settlement`, `call` |
| `Sessions` | `AuthService` with the client's `AuthRepositoryImpl`, `AuthInterceptor` and `SecureStorage` | `session`, `tokens`, `used`, `revoked`, `call`, `stored`, `left` |
| `TokenFamily` | what signing in promises: each token exchanged once, and none after the end | `phase`, `accepted`, `issued` |
| `Loyalty`, `Disputes` | points; tickets and disputes that refund or award them | `account`, `rows`, `award`; `payment`, `refunded`, `ticket`, `dispute`, `desk` |
| `Communication`, `Chat` | listeners with their log and channels; the chat that emits to them | `log`, `sent`, `handler`, ...; `rows`, `room`, `history`, `live`, `send` |
| `*Proofs` | theorems: `Payments` (with `Booking`), `Schedule`, `Webhooks` (with `Ledger`, `Reconciliation`), `Payouts`, `Places`, `Sessions`, `Disputes` (with `Loyalty`), `Chat` | - |
| `MC*` | values of the constants for TLC | - |

All modules share one way of writing the code down. A request, job or handler in flight
is a record in a slot (`req`, `call`, `thread`, `desk`, `send`, ...): which step comes next and what it
has read. Each read, each transaction and each single write is an action; what happens
between two of them is what everyone else does. A Serializable transaction is one step, because
PostgreSQL aborts what no serial order explains. A READ COMMITTED one is split where
another can come in between: its early reads are a step, its writes, with the row locks
and the unique keys, another. A `Fail` action ends a call anywhere, with what it has
committed left in place; `Crash` ends all of them.

### Booking

The first action (`ReadCreate`, `ReadCancel`, `ReadReschedule`, `ReadStatusOp`) is everything the
operation does before its write: reading, the early returns and
`validateStatusTransition`. The second (`CommitCreate`, `ReplayCreate`, `CommitCancel`,
`CommitReschedule`, `CommitCheckIn`, `CommitStatusOp`) is the transaction or the single
update, with exactly the conditions the code tests again there: `cancel` and `reschedule`
name the statuses they expect, `accept`, `reject`, `noShow` and `complete` name only the
id. The exclusion constraint of migration `20260817120000` is part of every write
(`WriteBooking`): it covers every row that is not CANCELLED, a wider set than the conflict query
(PENDING and CONFIRMED). `checkIn` runs at the default isolation, but each row it writes is
protected by the row lock or a unique key, so one step loses nothing. `visited` and `answered` are history.
Ownership checks decide who may send a request, not what it does, and are left out.

### Payments

`order` is the rest of a payment row, `paid` and `asked` are facts at the gateway, `call` the calls
in flight: read, gateway, transaction and the trailing event or `payment_webhook_events` row
are separate steps. Payment statuses no code writes (PENDING, AUTHORIZED, FAILED) are left
out. The refund transaction makes its gateway call in the middle, so it is two steps, and
commits only if the payment it read did not change.

### Schedule, Availability, Pricing, Places

Instants are integers. Opening hours are saved as texts, as nothing validates the elements of the array the route takes:
`BeginSave` compares them as JavaScript compares strings (`TextBefore`), the engine parses them (`Parsed`), and a row that
closes no later than it opens runs into the next day. Hours are whole, so a text is its first two characters: "9:" or "09".
Other unchecked elements (a text that is no time, a day that is none) are left out. Blocks and
bookings are those that meet the calendar day. Time zone conversion is left out: the code does that in Luxon before
it compares. In `Pricing` a rule has days, a window of times of day, instants between which it is in
force, a priority and a price; `Fetched` keeps every order the database may return equals in, and sums are exact (the code's are
floating point). `Places` counts
writes as versions: an invalidation is KEYS, then DEL of what KEYS found, and may get lost; a search is a
miss, a read and a store, and the store is not awaited. A facility, rule or geocoding write starts no invalidation, as in the
code.

### Webhooks, Ledger, Books, Reconciliation

`thread[t]` is a worker with its job or a call of the finance listener. A worker goes through the
handler read by read and write by write: mark PROCESSING, find the payment, capture (or refund), look for
the ledger key, insert, mark PROCESSED, emit, audit, acknowledge. Any step may throw; then the event is
FAILED and BullMQ tries the job again until `Attempts`. A restart loses calls and emissions; BullMQ
hands stalled jobs out once more. The other routes to a payment are single steps
(`CapturedElsewhere`, `RefundedElsewhere`, `CancelledElsewhere`); module `Payments` says how they
come about. `Ledger` keeps the entries of a row per account, credits minus debits, the commission kept in the row, and the percentage
a refund reads back. Percentages have two decimals, as their columns do. The code multiplies doubles, adds the fixed fee and then rounds
(`Share`): a product that is exactly half a minor unit comes out above or below it depending on the amount, the percentage and the fee,
so which halves go up is a constant (`HalfUp`), and the theorems hold for all of them. `Books`
is the abstract promise, and `Book(p)` the refinement mapping: how many rows of each type a payment has.

### Payouts

`initiatePayout` is three steps (KYC and bank, balance, insert), `completePayout` and `failPayout` are
a read and a transaction that writes over whatever the status is by then, `createSettlement` is a read and
a transaction. A settlement has one payout (`Payout.settlementId` is unique; `CommitPayout`). Reviews, bank details, postings
and adjustments happen in between.

### Sessions

A token is its payload, session and second of issue: two tokens signed in the same second are the
same string, and `tokenHash` is unique. The refresh transaction is find, conditional update, insert; the row
lock between the last two is `Locked`.

`Apps` are what the client does at one time: sign-ins, requests and logouts, also those of other tabs, over one storage. A sign-in stores its
token, asks for the profile and, with it, stores the token again (`StoreSignIn`, `Succeed`). A 401 starts a refresh
(`Unauthorized`); its answer is stored and the request sent again (`Store`), which may meet a 401 once more: the flag is cleared by then, and another refresh
starts inside the first, as often as that happens. A refusal clears the storage, once for each refresh it ends (`SignOut`). Ten seconds without
an answer clear it too, while the server works on (`TimeOut`); a write or clearing of the storage may fail unnoticed. `left`
remembers what no design of the calls can mend: that what is stored was left there by a failed write or a client that stopped, or put back by the second write of a sign-in
after it had been exchanged.

`TokenFamily` is what the server promises with this: a session is opened, gets a first token, exchanges the one it
accepts for one never issued, and is over for good at logout. `Phase` and `Accepted` read that from the tables. A logout revokes
the rows its `updateMany` saw; the token of an exchange that commits later stays unrevoked, and is harmless because the session is
inactive (`Late`). Expiry only refuses more and is left out of the family.

### Loyalty, Disputes

An award reads the account, writes the balance that follows and inserts its row, under the row lock from the
write to the commit; a balance is written back as it was read, so awards can overwrite each other, as in the code. What a referral would add is left out: nothing calls `qualifyReferral`.
`Disputes` has no transactions of its own: a decision refunds (`initiateRefund`) or awards (`earnPoints`, if it names points at all), is
written, and the ticket is resolved, each a step that may be the last. A payment may be refunded and, by a late capture or a reconcile, be captured again at any
time; `refunded` is history.

### Communication, Chat

An emission starts one handler per listener. A message over a channel is a log row (unique by user, channel and
key), the provider's call, and the update of the row. `Chat` is composed with it through `EmitArrival`:
a message over the socket is stored, then broadcast to the sockets in the room at that moment; an arrival over REST is stored and
emitted, and not broadcast (`via`). A screen shows the page of the history it has loaded, which is the first
(`Page`, fifty in the code), and what reached it since it was opened; it may be opened anew while its socket is in the room (`OpenScreen`).

## 3. Runs

| Run | Question | Result |
|---|---|---|
| `Booking_races` | do interleaved requests keep slots, statuses and check-ins consistent, and is every write a step of `SlotCalendar`? | holds |
| `Booking_claims` | is a key answered with one booking of one customer, is captured money never written off, is the invariant of the proofs an invariant? | holds |
| `Schedule_free` | is free time of the day asked for exact, disjoint and independent of row order in every reachable state of the tables? | holds |
| `Places_search` | does an invalidation reach what was cached before it, are searches right once writes stop, do prices add up? | holds |
| `Payments_races` | do payments confirm, have money behind their status and settle in the end; is `PaymentsService` the environment `Booking` assumes? | holds |
| `Webhooks_books` | is every payment posted and reversed at most once and in order (`Books`); has a PROCESSED capture taken effect; does reconciliation report what is lost; do the entries balance and reversals keep the fee, to the rounding of its share? | holds |
| `Webhooks_jobs` | does every job end, and does no event stay PROCESSING without one? | holds |
| `Payouts_money` | does a payout in progress hold its amount, once; does a settlement claim only what it summed; was the partner approved? | holds |
| `Sessions_tokens` | is every step one of `TokenFamily`, is there one live token a session, is the client left with a live token or none? | holds |
| `Support_cases` | has a standing decision happened, its points once; are points bounded by what was earned? | holds |
| `Messages_events` | does a message leave at most once, and does the log tell? | holds |
| `Messages_chat` | does a screen that joined and then loaded miss only what is past its page and what came over REST? | holds |

**Bounds.** Two actors of each kind that can race are the least in which a write meets a
stale read, and every property speaks of at most two rows; where a property is also proved,
the bound is gone. In particular:

- `Booking_*`: two bookings, two requests; three slots, two inside the third (`races`), give every
  relation two slots may have; two customers share one key (`claims`).
- `Payments_races`: one payment, two calls, one bookings request; one event number, so that the
  gateway repeats an event while its first delivery is in flight; `MaxAsked` bounds refunds.
- `Schedule_free`: a day of thirteen hours (hours of one digit and of two are the least in which text order and time differ), two racing saves of up to two
  rows, two blocks, two bookings, some across either midnight.
- `Places_search`: two writes and one search in flight (a stale store needs one of each), two
  queries, four rules: overnight, beginning in mid-segment, of equal priority, of one day.
- `Webhooks_books`: two events of any kind of one payment, a worker, the listener, one restart, one
  change of the rate (30 % with a fee of 3 on 75, whose shares are halves that doubles round apart). Attempts are one: what a
  second attempt adds (two workers, two attempts, an administrator's retry) is `Webhooks_jobs`.
- `Payouts_money`: one payout, two settlements, two calls, three ledger rows: a payment and its
  refund, an adjustment, or a payout among them; `MaxResolutions` bounds repeated completes and fails.
- `Sessions_tokens`: two calls of the client, two sessions, three seconds with a lifetime of one: tokens of the same
  second and ended sessions occur.
- `Support_cases`: three calls, one ticket with its dispute, one payment, a goodwill credit of no point or one, an adjustment up and one
  down for the same reason, two rows.
- `Messages_*`: two handlers, two emissions of each kind, both channels, a restart; one screen (screens do not act on one another: what one
  stores reaches the others through the room), two sends, three client ids (shared or not), pages of one message, a restart.

**Deadlock** is checked except where the system really may have nothing left to do: when everything
is processed (`Webhooks_*`), settled or paid out (`Payouts_money`), decided (`Support_cases`), or when the bounded
writes are used up and nothing is cached or asked (`Places_search`).

**Symmetry** is used for interchangeable ids only, and never in a run with a liveness property.

**Fairness.**

- `Payments.FairSpec`: gateways repeat a webhook until it is answered (strong fairness of `Delivery`, which
  may be impossible at times, as when every handler is busy), a delivery whose transaction aborts is tried again
  and cannot abort for ever (strong fairness of `CommitWebhookCapture`), and no call stays in flight for ever:
  exceptions and timeouts end it (weak fairness of `FailCall`). Nothing is assumed of customers, of the client's
  verification or of reconciliation.
- `Webhooks.FairSpec`: a worker that has a job takes its next step or throws (weak fairness: BullMQ
  awaits the handler, and handlers have no wait of their own); a job that waits is handed out (strong fairness:
  slots are busy from time to time). Nothing is assumed of outcomes: every attempt may fail.
- `PlacesSpec`: Redis drops a key when its five minutes are over (weak fairness of `Expire`).

Every property is tried against a mutant of the code it is about (`PROJECT.json`): a lost guard, a missing reset, a
wrong scope; TLC finds each violated.

## 4. What is proved

For all values of the constants, under the modules' `ASSUME`s only: slots are valid intervals, rules' dates and prices integers, amounts natural numbers (of payouts, above zero), payments
of at least two minor units (below that `recordRefund`'s tolerance lets two refunds through), `None` is none of the ids, opening hours are texts of whole hours of the day, a page of the chat has a message,
`Notices` are of the kinds the handler knows, `Workers` and `Listeners` are different slots.

`PaymentsProofs`, of `Booking`:

- `TypeCorrect`, `InductiveHolds`: the types and the whole inductive invariant (`Inductive`, also checked by a run); a request in flight names a booking
  that exists (`RequestOK`); rows are never deleted.
- `ConstraintKept`, `NoDoubleBookingHolds`: `SlotsApart`, the exclusion constraint, is inductive because every action
  either leaves `booking` alone or writes one row through `WriteBooking` (lemma `OneRowWritten`).
- `CalendarImplemented`: with `hold[b]` = the row's facility and slot if it is not CANCELLED, every step is a `Take`, a
  `Release` or a stutter of `SlotCalendar`; `CalendarKept`: its `NoCollision` holds of the rows.
- `CompletionHolds`: `complete` writes on a stale read; `CompletesSawCheckIn` makes the invariant inductive.
- `LifecycleHolds`: needs `PathsTracked`: what a request in flight saw is among the statuses visited.
- `IdempotencyHolds`: from `KeysOwned`: a key belongs to one row for ever. `CapturedMoneyHolds`: from the types alone.

`PaymentsProofs`, of `Payments`: `PaymentsTypeCorrect`, `PaidIsConfirmedHolds` (invariant `Confirmed`; each step of a call is summed up by
`CallView`), `BookingImplemented` (`PaymentsSpec => Spec`, the identity mapping, so that all of the above holds with
payments; `PaidBookingsApart` says so of `NoDoubleBooking`), `MoneyHolds` (with `CallMoney`: a call about to write CAPTURED saw
a paid order).

`ScheduleProofs`: `ScheduleTypeCorrect`: types, every saved row opens before it closes as texts are compared (`RowsCompared`), which says nothing of
the times they stand for, and active bookings do not overlap (`BookingsApart`). From the types, and from
`TablesFinite`:

- `FreeTimeHolds`, `FreeApartHolds`, `OrderHolds`: for any tables, with hours that run past midnight among them, the engine offers each free instant of the day
  asked for, of that day only free ones, none twice, and the same list in whatever order the rows come. The operators are translated loop by loop as recursive functions, so each loop has an invariant
  (lemma `Reaches`: of the iterations after which it fails there is a least one): what `Subtract` leaves covers the difference
  (`SubtractManyExact`), the sort keeps what is covered (`SortExact`), and `merge` returns disjoint intervals that do not touch, in order,
  covering what its input did (`MergeExact`). Such a list is determined by what it covers (`CanonicalUnique`), hence the independence of the order.

`SessionsProofs`: `SessionsSafe`: `OneLiveToken` is not inductive, because a first token and a next token are inserted
without a look at the others. The invariant adds that a call which is about to insert owns the session's only live token (the row
lock) or a session without tokens. `SessionsTypeCorrect` (the types, which no run repeats) comes from the same invariant. `StoredIsLiveHolds` needs `StorageInv`: a
new token is known to its call alone until it is stored (`AnswersApart`), it is live or its session is over
(`AnsweredIsLive`), and a stored token that was exchanged is about to be replaced or cleared by the call that exchanged
it, unless `left` says otherwise (`StaleIsNoticed`). `FamilyImplemented` maps every step to one of `TokenFamily` or a stutter: a first
token to `First`, an exchange to `Exchange`, or to `Late` when its session ended meanwhile, a logout to `Close`. It needs
`EndsOpened`: a session that waits for its first token is active, and one that a logout is about to end has a token, so a logout never
closes what a sign-in has not opened. `OneAcceptedHolds` is the family's promise, of the tables.

`ChatProofs`: `SentAsLoggedHolds`, from `OwnsRow`: the handler between its insert and its update is the only one of its log
row, and nothing has left before it sends. `SyncedLosesNoneHolds`, from `SyncInv`: a row that a synced screen
neither shows nor misses by its page or by REST is in a send that will still broadcast it (`Awaited`), and a send that is to broadcast has
stored its message (`CallsStored`).

`WebhooksProofs`:

- `WebhooksTypeCorrect`: the types with `Typed`: a worker's call knows the event of its job, names its payment, and the jobs
  of events never received do not exist.
- `BooksImplemented`: every step of the pipeline is a `Post`, a `Reverse` or a stutter of `Books`. `RowsKept` makes it
  inductive: rows of one type and payment are alone (the unique key), and a refund row, or a call about to insert one, has a payment row to reverse.
- `ProcessedTookEffectHolds`: with `EffectInv`: no route brings a captured or refunded payment, or a confirmed booking, back
  (`EffectStays`), and a worker past the capture of its event has seen the effect (`CaptureSeen`), although it wrote
  nothing under a lock since.
- `RowsInOrderHolds`, `ReversalKeepsFeeHolds`: with `MoneyInv`: each row follows from a rate that was in force when it was
  inserted, and a reversal has the percentage of its posting (`SamePercent`); both
  round the same exact product, each to either side of a half, so what is kept is the fee to within one minor unit.
- `LostIsReportedHolds`: from `RowsInOrder` and `ProcessedTookEffect`, the two halves of what reconciliation compares.
- `NothingLeftHolds`: with `QueueInv`: no two calls run one job (`JobsApart`), and an event that is PROCESSING has a job that waits
  or has failed, or a call that has not written the event's last status yet (`StillDue`).

`PlacesProofs`: `InvalidationReachesHolds`, with the invariant `Reached`: while an invalidation is between KEYS and DEL, an
answer that KEYS did not find was stored after the write (`FoundOrLater`), so after DEL only later ones are left
(`LaterStored`). `PricesAddUpHolds`: leaving out the rules that only the other part needs changes no answer of `findBestRule`, as a rule that applies
at an instant is in force then (`PartKeepsBest`); the segments of the whole are those of the parts (`StartsOfParts`), each at the same
price (`SegmentsOfFirst`, `SegmentsOfRest`), and so are the sums (`TotalsAddUp`). A cut between two segments is needed: elsewhere a segment is split and its
second half priced anew. There are always finitely many rules (`RulesFinite`).

`PayoutsProofs`: the calls read first and write later, and so the invariants say what a call still knows when it writes
(`Shape`: a payout it has read exists).

- `ApprovalHolds`: with `ApprovedFirst`, a call past the read of the organization has seen an approval.
- `ReservationHolds`: with `NoRowYet`: a payout that was not made has no row, so that its insert adds the only one.
- `LinkedHolds`: with `LinkedToRows`: a settlement about to be inserted has no rows yet.
- `PayoutsTypeCorrect`: with `RowsExist`: what a call has found and a settlement has counted are rows of the ledger, which
  nothing deletes. `RowsBalanceHolds`: every row's entries add up to nothing, also those a second complete or fail adds to.

`DisputesProofs`, of `Loyalty` and `Disputes`:

- `CasesInvariant`: `LoyaltyInv` and `DeskInv`. A key says whose account it is for (`Owner`), so two transactions with one key
  meet at one account and its row lock keeps them apart (`LocksHeld`): a key is in one row, or on its way into one (`KeysUnique`).
- `DecisionHolds`: with `TookEffect`: a call about to write its decision down has refunded, or awards no points, or has the goodwill row in the
  ledger of points or in its own transaction, which `Decide` waits for.
- `PointsHold`: with `PointsInv`: what a transaction has read or will write is bounded by the points ever earned plus its own
  gain (`Backed`). Only `Earned` grows, so that a stale balance stays within the bound. That it grows is a fact
  about a sum over rows, proved without the library's induction rules: of the numbers that break a statement there is a
  least one (lemma `Least`, from the well-foundedness of `<`), and its predecessor does not.

Every invariant and action property of the runs is stated by a theorem. Only model-checked: liveness (`PaidIsSettled`, `JobsEnd`,
`StaleEnds`), which rests on fairness and ENABLED and is out of the prover's reach.

## 5. Where the code and its documents part

Met while modelling. The models do what the code does; no property claims the contrary.

Bookings and schedule

- "Invalid transitions ... are rejected" (`docs/PHASE_56_...:10`): accept, reject, noShow and complete validate a read that may be
  stale when they write (`bookings.service.ts:435`), so a booking cancelled in between becomes, say, CONFIRMED. `LifecyclePath` says what is left: each
  status follows from one the booking had before.
- "Prevents overlapping PENDING or CONFIRMED bookings" (migration, line 5): the constraint also covers REJECTED, CHECKED_IN, COMPLETED and
  NO_SHOW rows; a rejected slot cannot be booked again.
- "Verify that the requested interval is fully covered" (`bookings.service.ts:137`): the result is not used at line 153; a booking
  outside the opening hours or on a block is accepted.
- `reschedule` reads the captured payments before its transaction (line 352): a capture in between leaves a paid booking on a dearer
  slot. Its availability counts the booking's own slot as taken (line 383). An order open at that time keeps its amount.
- Two racing saves of operating hours leave the rows of both (`venues.service.ts:345`). No request creates the recurring blocks the engine reads.
- Hours are compared as strings (`venues.service.ts:340`), and their format is checked by a class that validates no elements of an array
  (`venues.controller.ts:76`): "10:00" to "9:00" is saved and runs past midnight, where the engine offers time although bookings of the next day, which it does not
  fetch (`availability.service.ts:85`), have taken it.
- A pricing rule that starts and ends at the same time of day never applies; a rule that begins inside a segment applies from the
  next one; rules of equal priority come in any order.

Search

- An answer read before a write and stored after its invalidation stays for its 300 s; facility, rule and geocoding writes invalidate
  nothing. `lock.service.ts` has no caller.

Payments, webhooks, money

- "Double-Payment Protection" (`docs/architecture/payment-system.md:17`) looks at captured payments when an order is opened; two racing
  `createOrder` calls open two orders, and both may be paid. `accept` confirms without a payment (line 18 of the same file says only payment does).
- reconcile captures CANCELLED and REFUNDED payments again and does not announce it (`docs/PHASE_47_1_...:32`, `docs/PHASE_57_...:13`).
- `initiateRefund` passes the amount in major units, `createOrder` in minor units. Its refund is made at the provider inside the
  transaction (`payments.service.ts:449`): one that aborts leaves the row CAPTURED and the money returned.
- Commission is rounded as a double, with the fee in the sum for a posting and without it for a reversal (`finance.service.ts:87`, `:198`): of 0.75 at
  30 % and 0.03, a full refund leaves 0.04 with the platform.
- `docs/PHASE_63_WEBHOOK_RESILIENCE.md:23-28` shows the posting and the PROCESSED mark inside the Serializable transaction; they come after
  it (`webhooks.service.ts:265`), and a restart in between leaves a captured payment unposted: the repetition sees CAPTURED and signs off (line 220).
  `LostIsReported` shows that reconciliation finds it. A capture processed after the refund sets CAPTURED again.
- A failed enqueue is swallowed (`webhooks.service.ts:105`): the event stays QUEUED without a job, and the gateway's repetition is answered as a duplicate; only an administrator's retry helps.
- Two payouts may overdraw the balance (`payout.service.ts:47`); complete and fail of one payout may both post (line 125); two settlements
  may sum the same rows, and the later one is linked to them.

Sessions

- Reuse of a refresh token is to revoke the session; those writes are in the transaction that the exception then undoes.
- Two refreshes of one token, by two instances of the client, make the one that is refused clear the storage both share.
- A sign-in stores its token before and after it asks for the profile (`lib/core/security/auth_repository_impl.dart:60`, `:65`): a refresh in between exchanges it,
  and the second write puts the exchanged one back.
- A 401 on the request that is sent again starts another refresh inside the first (`lib/core/networking/auth_interceptor.dart:60`, `:74`); nothing
  bounds how often.
- A write of the storage that fails is swallowed (`lib/core/security/secure_storage.dart:20`), and the exchanged token stays.

Support, loyalty, messages

- PARTIAL_REFUND validates its amount and then refunds the whole payment (`disputes.service.ts:188`, against `docs/PHASE_69_...:33`).
- A partner's response moves a DECIDED dispute back to UNDER_REVIEW, so it can be decided again; two racing `createDispute` both succeed;
  `addMessage` writes a ticket status that follows from a stale one.
- A goodwill credit without points is decided, and nothing is awarded (`disputes.service.ts:196`). A late capture or reconcile over a REFUNDED payment makes it
  CAPTURED, and another dispute can have it refunded again.
- "`pointsBalance` and `lifetimeEarned` updated atomically" (`docs/PHASE_66_...:26`): two awards to one account may overwrite each other's balance; a
  second adjustment with the same reason is ignored.
- A message whose process stops after the PENDING log row is never sent; one that is FAILED may have been sent.
- The chat screen's client ids are milliseconds (`lib/features/chat/presentation/screens/match_chat_screen.dart:88`) and unique across
  all users (`chat.service.ts:97`): a message whose id is taken is acknowledged with the other one and not stored. Arrivals by REST
  are not broadcast, and a screen joins its room only if it is connected when it opens, and does not join again after a reconnection.
- "Paginated chat history for initial loading and reconnect recovery" (`docs/PHASE_67_...:31`): the page is the oldest fifty messages
  (`chat.service.ts:48`, `:64`), and the client asks for no other, so a longer chat is not recovered.

## 6. Not modelled

- Coupons: `recordRedemption` has no caller and no booking takes a coupon. Memberships: a purchase nobody reads. Redis locks: no caller.
- Media (object storage), reports, analytics, search scoring and suggestions: rows written one at a time, read-only queries, floating point and text.
- Businesses, users, cities, categories, activities, audit, guards, filters, health, metrics: one request, one row.
- Queues: notification, media, report and payout jobs have no producer among the requests; the webhook queue and the calls of the payout
  and settlement workers are modelled.
- Referral codes: `qualifyReferral` has no caller.
- Of the Flutter client, sign-in, the interceptor with the storage, and the chat screen; the rest calls the API and
  shows answers (the repository's own `refreshSession` has no caller).
- Time zones, QR tokens, templates, wording, signatures and hashing.

What could follow: the discovery queries as readers of the same cache; the gateway's partial refunds, should a caller ask for
them.
