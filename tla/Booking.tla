------------------------------ MODULE Booking ------------------------------
(***************************************************************************)
(* BookingsService over the bookings, check_ins and payments tables.       *)
(*                                                                         *)
(* A request runs in two steps, as every operation of the service does:    *)
(* it first reads and validates outside any transaction, then writes, in a *)
(* Serializable transaction (create, cancel, reschedule), a plain          *)
(* transaction (checkIn) or a single update (accept, reject, noShow,       *)
(* complete).  Steps of other requests interleave between the two, so      *)
(* what the first step validated may no longer hold at the second.         *)
(*                                                                         *)
(* The tables' constraints belong to the model: the exclusion constraint   *)
(* no_overlapping_bookings, the unique idempotency key and the unique      *)
(* check-in per booking.  A write they refuse has no effect (FailRequest). *)
(*                                                                         *)
(* The payments are driven by PaymentsService; here its effect on these    *)
(* tables is the environment (PaymentOpened, PaymentCaptured,              *)
(* PaymentRefunded), which module Payments implements in detail.           *)
(***************************************************************************)
EXTENDS Availability, FiniteSets

CONSTANTS
  Bookings,        \* ids a booking row can get (a bound on the rows)
  Payments,        \* ids a payment row can get (a bound on the rows)
  Requests,        \* slots for requests in flight (a bound on the concurrency)
  Users, Keys,     \* customers, idempotency keys of create requests
  Facilities,
  Slots,           \* intervals requests ask for
  Hours, Blocks,   \* opening hours and fixed blocks of each facility
  Price,           \* what pricing.service computes for a slot
  None

ASSUME BookingAssumption ==
  /\ None \notin Bookings \cup Keys \cup Users \cup Facilities \cup Slots
  /\ \A s \in Slots : s.start \in Int /\ s.end \in Int /\ ValidInterval(s)
  /\ Price \in [Slots -> Nat]

ASSUME HoldAssumption ==      \* a hold is a record, None is not
  \A f \in Facilities, s \in Slots : [facility |-> f, slot |-> s] # None

VARIABLES
  booking,         \* the bookings table
  checkIn,         \* bookings that have a row in check_ins
  payment,         \* the payments table: booking and status of each payment
  facilityActive,  \* facility and venue status = ACTIVE
  req,             \* the requests in flight
  answered,        \* history: answers to create requests that carried a key
  visited          \* history: the statuses each booking has had

bookingVars == <<booking, checkIn, payment, facilityActive, req, answered, visited>>

Status == {"PENDING", "CONFIRMED", "CHECKED_IN", "COMPLETED", "CANCELLED", "REJECTED", "NO_SHOW"}

PaymentStatus == {"INITIATED", "CAPTURED", "CANCELLED", "REFUNDED"}

BookingRow ==
  [status : Status, facility : Facilities, slot : Slots, user : Users,
   key : Keys \cup {None}, stamped : BOOLEAN]     \* stamped: cancelledAt is set

NoBooking ==
  [status |-> "NONE", facility |-> None, slot |-> None, user |-> None,
   key |-> None, stamped |-> FALSE]

PaymentRow == [booking : Bookings, status : PaymentStatus]

NoPayment == [booking |-> None, status |-> "NONE"]

\* The status a request moves a booking to.
Target ==
  [accept |-> "CONFIRMED", reject |-> "REJECTED", noShow |-> "NO_SHOW",
   complete |-> "COMPLETED", checkIn |-> "CHECKED_IN", cancel |-> "CANCELLED"]

StatusOps == {"accept", "reject", "noShow", "complete"}

Op == StatusOps \cup {"checkIn", "cancel", "reschedule", "create"}

Idle ==
  [op |-> "idle", booking |-> None, facility |-> None, slot |-> None, user |-> None, key |-> None]

Request ==
  [op : Op, booking : Bookings \cup {None}, facility : Facilities \cup {None},
   slot : Slots \cup {None}, user : Users \cup {None}, key : Keys \cup {None}]

-----------------------------------------------------------------------------
\* Mutant: a booking completes without a check-in.
AllowedNextEarly ==
  [PENDING    |-> {"CONFIRMED", "CANCELLED", "REJECTED"},
   CONFIRMED  |-> {"CHECKED_IN", "CANCELLED", "NO_SHOW", "COMPLETED"},
   CHECKED_IN |-> {"COMPLETED"},
   COMPLETED  |-> {},
   CANCELLED  |-> {},
   REJECTED   |-> {},
   NO_SHOW    |-> {}]

\* The transition table of validateStatusTransition.
AllowedNext ==
  [PENDING    |-> {"CONFIRMED", "CANCELLED", "REJECTED"},
   CONFIRMED  |-> {"CHECKED_IN", "CANCELLED", "NO_SHOW"},
   CHECKED_IN |-> {"COMPLETED"},
   COMPLETED  |-> {},
   CANCELLED  |-> {},
   REJECTED   |-> {},
   NO_SHOW    |-> {}]

CanMove(current, next) == current = next \/ next \in AllowedNext[current]

Exists(b) == booking[b].status # "NONE"

\* The statuses the service counts as holding a slot.
Active(b) == booking[b].status \in {"PENDING", "CONFIRMED"}

\* Active bookings of f that overlap the slot: the service's conflict query.
Conflicts(f, slot) ==
  {b \in Bookings : Active(b) /\ booking[b].facility = f /\ Overlaps(booking[b].slot, slot)}

ActiveSlots(f) ==
  SetToSeq({booking[b].slot : b \in {c \in Bookings : Active(c) /\ booking[c].facility = f}})

\* The slot is one that getAvailability offers for its own duration; a booking that
\* is to be moved there counts as taken like every other.
Offered(f, slot) ==
  slot \in OfferedSlots(Hours[f], <<>>, Blocks[f], ActiveSlots(f), slot.end - slot.start)

HasCaptured(b) == \E p \in Payments : payment[p] = [booking |-> b, status |-> "CAPTURED"]

-----------------------------------------------------------------------------
\* Mutant: the constraint covers PENDING and CONFIRMED rows only.
IndexedActive(row) == row.status \in {"PENDING", "CONFIRMED"}

\* The rows the exclusion constraint covers: status != 'CANCELLED'.
Indexed(row) == row.status \notin {"NONE", "CANCELLED"}

\* Mutant: the constraint compares whole slots, as a unique index would.
ExcludesEqual(row, other) ==
  /\ Indexed(row) /\ Indexed(other)
  /\ row.facility = other.facility
  /\ row.slot = other.slot

Excludes(row, other) ==
  /\ Indexed(row) /\ Indexed(other)
  /\ row.facility = other.facility
  /\ Overlaps(row.slot, other.slot)

\* Write one row of bookings; the database refuses a row that collides.
WriteBooking(b, row) ==
  /\ \A c \in Bookings \ {b} : ~ Excludes(row, booking[c])
  /\ booking' = [booking EXCEPT ![b] = row]
  /\ visited' = [visited EXCEPT ![b] = @ \cup {row.status}]

SetStatus(b, status) == [booking[b] EXCEPT !.status = status]

Finish(r) == req' = [req EXCEPT ![r] = Idle]

-----------------------------------------------------------------------------
Init ==
  /\ booking = [b \in Bookings |-> NoBooking]
  /\ checkIn = {}
  /\ payment = [p \in Payments |-> NoPayment]
  /\ facilityActive = [f \in Facilities |-> TRUE]
  /\ req = [r \in Requests |-> Idle]
  /\ answered = {}
  /\ visited = [b \in Bookings |-> {}]

\* The first step of a request: it passed its checks and goes on to write.
Accepted(r, request) ==
  /\ req[r] = Idle
  /\ req' = [req EXCEPT ![r] = request]
  /\ UNCHANGED <<booking, checkIn, payment, facilityActive, answered, visited>>

\* create, up to its transaction: the facility and its venue are active.
ReadCreate(r, f, slot, u, k) ==
  /\ facilityActive[f]
  /\ Accepted(r, [op |-> "create", booking |-> None, facility |-> f, slot |-> slot,
                  user |-> u, key |-> k])

\* Mutant: no validateStatusTransition.
ReadStatusOpUnchecked(r, op, b) ==
  /\ Exists(b)
  /\ op = "checkIn" => booking[b].status # "CHECKED_IN"
  /\ Accepted(r, [Idle EXCEPT !.op = op, !.booking = b])

\* accept, reject, noShow, complete and checkIn, up to the write.  checkIn of a
\* booking that is already CHECKED_IN answers at once and writes nothing.
ReadStatusOp(r, op, b) ==
  /\ Exists(b)
  /\ CanMove(booking[b].status, Target[op])
  /\ op = "checkIn" => booking[b].status # "CHECKED_IN"
  /\ Accepted(r, [Idle EXCEPT !.op = op, !.booking = b])

\* cancel of a booking that is already CANCELLED answers at once.
ReadCancel(r, b) ==
  /\ Exists(b)
  /\ booking[b].status # "CANCELLED"
  /\ CanMove(booking[b].status, "CANCELLED")
  /\ Accepted(r, [Idle EXCEPT !.op = "cancel", !.booking = b])

\* reschedule, up to its transaction: an active booking of an active facility,
\* a paid one not to a dearer slot, and a slot other than the present one.
ReadReschedule(r, b, slot) ==
  /\ Active(b)
  /\ facilityActive[booking[b].facility]
  /\ HasCaptured(b) => Price[slot] <= Price[booking[b].slot]
  /\ slot # booking[b].slot
  /\ Accepted(r, [Idle EXCEPT !.op = "reschedule", !.booking = b, !.slot = slot])

-----------------------------------------------------------------------------
Answer(q, b) ==
  answered' = IF q.key = None THEN answered
              ELSE answered \cup {[key |-> q.key, user |-> q.user, booking |-> b]}

\* Mutants: create drops the idempotency key, or the customer.
NewBookingKeyless(q) ==
  [status |-> "PENDING", facility |-> q.facility, slot |-> q.slot, user |-> q.user,
   key |-> None, stamped |-> FALSE]

NewBookingOfNobody(q) ==
  [status |-> "PENDING", facility |-> q.facility, slot |-> q.slot, user |-> None,
   key |-> q.key, stamped |-> FALSE]

\* The row create inserts.
NewBooking(q) ==
  [status |-> "PENDING", facility |-> q.facility, slot |-> q.slot, user |-> q.user,
   key |-> q.key, stamped |-> FALSE]

\* Mutant: any customer gets the booking of the key.
ReplayCreateToAnyone(r) ==
  LET q == req[r] IN
  /\ q.op = "create" /\ q.key # None
  /\ \E b \in Bookings : booking[b].key = q.key /\ Answer(q, b)
  /\ Finish(r)
  /\ UNCHANGED <<booking, checkIn, payment, facilityActive, visited>>

\* create's transaction finds the key: the customer it belongs to gets that booking.
ReplayCreate(r) ==
  LET q == req[r] IN
  /\ q.op = "create" /\ q.key # None
  /\ \E b \in Bookings :
       /\ booking[b].key = q.key
       /\ booking[b].user = q.user
       /\ Answer(q, b)
  /\ Finish(r)
  /\ UNCHANGED <<booking, checkIn, payment, facilityActive, visited>>

\* create's transaction inserts a PENDING booking.  It computes the availability
\* too, but does nothing with the outcome.
CommitCreate(r) ==
  LET q == req[r] IN
  /\ q.op = "create"
  /\ q.key # None => \A b \in Bookings : booking[b].key # q.key
  /\ Conflicts(q.facility, q.slot) = {}
  /\ \E b \in Bookings :
       /\ ~ Exists(b)
       /\ WriteBooking(b, NewBooking(q))
       /\ Answer(q, b)
  /\ Finish(r)
  /\ UNCHANGED <<checkIn, payment, facilityActive>>

\* The one update of accept, reject, noShow and complete: whatever the status is by now.
CommitStatusOp(r) ==
  LET q == req[r] IN
  /\ q.op \in StatusOps
  /\ WriteBooking(q.booking, SetStatus(q.booking, Target[q.op]))
  /\ Finish(r)
  /\ UNCHANGED <<checkIn, payment, facilityActive, answered>>

\* checkIn's transaction: the status and the check_ins row, or neither.
CommitCheckIn(r) ==
  LET b == req[r].booking IN
  /\ req[r].op = "checkIn"
  /\ b \notin checkIn
  /\ WriteBooking(b, SetStatus(b, "CHECKED_IN"))
  /\ checkIn' = checkIn \cup {b}
  /\ Finish(r)
  /\ UNCHANGED <<payment, facilityActive, answered>>

\* Mutant: captured payments are cancelled too.
CancelAllPayments(b) ==
  [p \in Payments |->
     IF payment[p].booking = b /\ payment[p].status # "REFUNDED"
     THEN [payment[p] EXCEPT !.status = "CANCELLED"]
     ELSE payment[p]]

\* The booking's payments that were neither captured nor refunded are cancelled with it.
CancelPayments(b) ==
  [p \in Payments |->
     IF payment[p].booking = b /\ payment[p].status \notin {"CAPTURED", "REFUNDED"}
     THEN [payment[p] EXCEPT !.status = "CANCELLED"]
     ELSE payment[p]]

\* cancel's transaction re-checks the status in its update.
CommitCancel(r) ==
  LET b == req[r].booking IN
  /\ req[r].op = "cancel"
  /\ Active(b)
  /\ WriteBooking(b, [SetStatus(b, "CANCELLED") EXCEPT !.stamped = TRUE])
  /\ payment' = CancelPayments(b)
  /\ Finish(r)
  /\ UNCHANGED <<checkIn, facilityActive, answered>>

\* reschedule's transaction: conflicts and availability again, the status in the update.
CommitReschedule(r) ==
  LET b == req[r].booking
      slot == req[r].slot IN
  /\ req[r].op = "reschedule"
  /\ Active(b)
  /\ Conflicts(booking[b].facility, slot) \subseteq {b}
  /\ Offered(booking[b].facility, slot)
  /\ WriteBooking(b, [booking[b] EXCEPT !.slot = slot])
  /\ Finish(r)
  /\ UNCHANGED <<checkIn, payment, facilityActive, answered>>

\* A request that does not reach its write, or whose write is rolled back: a check
\* inside the transaction failed, a constraint refused the write, the transaction
\* was not serializable, or the server stopped.
FailRequest(r) ==
  /\ req[r] # Idle
  /\ Finish(r)
  /\ UNCHANGED <<booking, checkIn, payment, facilityActive, answered, visited>>

-----------------------------------------------------------------------------
\* PaymentsService inserts a payment for a booking.
PaymentOpened(p, b) ==
  /\ payment[p] = NoPayment
  /\ Exists(b)
  /\ payment' = [payment EXCEPT ![p] = [booking |-> b, status |-> "INITIATED"]]
  /\ UNCHANGED <<booking, checkIn, facilityActive, req, answered, visited>>

\* Mutant: the booking is left to be confirmed by someone else.
CaptureOnly(p) ==
  /\ payment' = [payment EXCEPT ![p].status = "CAPTURED"]
  /\ UNCHANGED <<booking, visited>>

\* One transaction captures the payment and confirms its booking if that is PENDING.
Capture(p) ==
  LET b == payment[p].booking IN
  /\ payment' = [payment EXCEPT ![p].status = "CAPTURED"]
  /\ IF booking[b].status = "PENDING"
     THEN WriteBooking(b, SetStatus(b, "CONFIRMED"))
     ELSE UNCHANGED <<booking, visited>>

PaymentCaptured(p) ==
  /\ payment[p].status \notin {"NONE", "CAPTURED"}
  /\ Capture(p)
  /\ UNCHANGED <<checkIn, facilityActive, req, answered>>

PaymentRefunded(p) ==
  /\ payment[p].status \notin {"NONE", "REFUNDED"}
  /\ payment' = [payment EXCEPT ![p].status = "REFUNDED"]
  /\ UNCHANGED <<booking, checkIn, facilityActive, req, answered, visited>>

\* A partner or an admin activates or deactivates the facility or its venue.
SetFacilityActive(f) ==
  /\ facilityActive' = [facilityActive EXCEPT ![f] = ~ @]
  /\ UNCHANGED <<booking, checkIn, payment, req, answered, visited>>

ServerStep(r) ==
  \/ ReplayCreate(r)
  \/ CommitCreate(r)
  \/ CommitStatusOp(r)
  \/ CommitCheckIn(r)
  \/ CommitCancel(r)
  \/ CommitReschedule(r)
  \/ FailRequest(r)

RequestStep(r) ==
  \/ \E f \in Facilities, slot \in Slots, u \in Users, k \in Keys \cup {None} :
       ReadCreate(r, f, slot, u, k)
  \/ \E b \in Bookings :
       \/ \E op \in StatusOps \cup {"checkIn"} : ReadStatusOp(r, op, b)
       \/ ReadCancel(r, b)
       \/ \E slot \in Slots : ReadReschedule(r, b, slot)

PaymentStep ==
  \E p \in Payments :
    \/ \E b \in Bookings : PaymentOpened(p, b)
    \/ PaymentCaptured(p)
    \/ PaymentRefunded(p)

\* What the bookings service and the partners do, whatever drives the payments.
BookingStep ==
  \/ \E r \in Requests : RequestStep(r) \/ ServerStep(r)
  \/ \E f \in Facilities : SetFacilityActive(f)

Next == BookingStep \/ PaymentStep

Spec == Init /\ [][Next]_bookingVars

-----------------------------------------------------------------------------
\* The types of the tables, the requests and the history.
TypeOK ==
  /\ booking \in [Bookings -> BookingRow \cup {NoBooking}]
  /\ checkIn \subseteq Bookings
  /\ payment \in [Payments -> PaymentRow \cup {NoPayment}]
  /\ facilityActive \in [Facilities -> BOOLEAN]
  /\ req \in [Requests -> Request \cup {Idle}]
  /\ answered \subseteq [key : Keys, user : Users, booking : Bookings]
  /\ visited \in [Bookings -> SUBSET Status]

\* The statuses in which the customer may use the slot.
HoldsSlot(b) == booking[b].status \in {"PENDING", "CONFIRMED", "CHECKED_IN"}

\* No two customers are entitled to overlapping slots of one facility, however
\* creates, reschedules and stale accepts of cancelled bookings interleave (the
\* conflict query alone misses CHECKED_IN bookings and brought-back ones).
NoDoubleBooking ==
  \A b, c \in Bookings :
    /\ b # c
    /\ HoldsSlot(b) /\ HoldsSlot(c)
    /\ booking[b].facility = booking[c].facility
    => ~ Overlaps(booking[b].slot, booking[c].slot)

\* Whoever is recorded as having played was checked in: checkIn writes status and
\* record together, and a complete that validated long ago cannot run ahead of it.
CompletionNeedsCheckIn ==
  \A b \in Bookings : booking[b].status \in {"CHECKED_IN", "COMPLETED"} => b \in checkIn

\* Even with writes that act on a stale read, a booking reaches no status without
\* having been, at some time, in one the transition table allows it from.
LifecyclePath ==
  \A b \in Bookings : \A s \in visited[b] \ {"PENDING"} :
    \E p \in visited[b] : s \in AllowedNext[p]

\* Create requests that repeat an idempotency key are all answered with the one
\* booking the first of them made, also when its slot was moved or cancelled since.
IdempotentCreate ==
  \A x, y \in answered : x.key = y.key => x = y

\* A captured payment stays captured until it is refunded: a cancel that races
\* with the capture never writes the money off.
CapturedMoneyKept ==
  [][\A p \in Payments : payment[p].status = "CAPTURED"
        => payment'[p].status \in {"CAPTURED", "REFUNDED"}]_bookingVars

\* The calendar the booking rows amount to: what the database keeps apart.
CalendarHold ==
  [b \in Bookings |->
     IF Indexed(booking[b]) THEN [facility |-> booking[b].facility, slot |-> booking[b].slot]
     ELSE None]

HoldsCollide(g, h) == g.facility = h.facility /\ Overlaps(g.slot, h.slot)

Calendar ==
  INSTANCE SlotCalendar WITH
    Holds <- [facility : Facilities, slot : Slots], Collide <- HoldsCollide,
    Nothing <- None, hold <- CalendarHold

\* The service implements the calendar: every write of every request takes,
\* moves or releases one slot, or changes nothing the calendar sees.
ImplementsCalendar == Calendar!CalendarSpec

-----------------------------------------------------------------------------
\* The inductive invariant behind these properties (module PaymentsProofs).

\* A request in flight names what its write needs; a booking it read still exists.
RequestOK ==
  \A r \in Requests :
    LET q == req[r] IN
    /\ q.op = "create" => q.facility \in Facilities /\ q.slot \in Slots /\ q.user \in Users
    /\ q.op = "reschedule" => q.slot \in Slots
    /\ q.op \notin {"create", "idle"} => q.booking \in Bookings /\ Exists(q.booking)

\* The exclusion constraint, as a fact about the table.
SlotsApart ==
  \A b, c \in Bookings : b # c => ~ Excludes(booking[b], booking[c])

\* Stale or not, a complete in flight saw a CHECKED_IN or COMPLETED booking.
CompletesSawCheckIn ==
  \A r \in Requests : req[r].op = "complete" => req[r].booking \in checkIn

\* visited holds the present status, and the status each request in flight saw.
PathsTracked ==
  /\ \A b \in Bookings : Exists(b) => booking[b].status \in visited[b]
  /\ \A r \in Requests :
       req[r].op \in DOMAIN Target =>
         \E p \in visited[req[r].booking] : CanMove(p, Target[req[r].op])

\* A key belongs to one booking, and every answer names the booking of its key.
KeysOwned ==
  /\ \A b, c \in Bookings : booking[b].key = booking[c].key /\ b # c => booking[b].key = None
  /\ \A a \in answered :
       booking[a.booking].key = a.key /\ booking[a.booking].user = a.user

Inductive ==
  RequestOK /\ SlotsApart /\ CompletesSawCheckIn /\ PathsTracked /\ KeysOwned
=============================================================================
