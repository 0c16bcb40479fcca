--------------------------- MODULE PaymentsProofs ---------------------------
(***************************************************************************)
(* Proofs about Booking, for every set of bookings, payments, requests,    *)
(* users, keys, facilities and slots, and then about Payments: the         *)
(* composition implements Booking, so whatever the first part proves holds *)
(* of it too, and what payments say of bookings and of money is true       *)
(* however the calls interleave.  The theorems about Booking each have an  *)
(* inductive invariant of their own, over the types and RequestOK.         *)
(***************************************************************************)
EXTENDS Payments, TLAPS

\* What the proofs assume of every state they start from.
Typed == TypeOK /\ RequestOK

-----------------------------------------------------------------------------
\* Rows and requests: the records the actions build have their types.

LEMMA RowExists == ASSUME TypeOK, NEW b \in Bookings
                   PROVE  Exists(b) <=> booking[b] \in BookingRow
  BY DEF TypeOK, Exists, BookingRow, NoBooking, Status

LEMMA WriteTyped ==
  ASSUME TypeOK, NEW b \in Bookings, NEW row \in BookingRow, WriteBooking(b, row)
  PROVE  /\ booking' \in [Bookings -> BookingRow \cup {NoBooking}]
         /\ visited' \in [Bookings -> SUBSET Status]
         /\ booking'[b] = row
         /\ \A c \in Bookings \ {b} : booking'[c] = booking[c]
         /\ \A c \in Bookings : Exists(c) => Exists(c)'
<1>1. row.status \in Status /\ row.status # "NONE"
  BY DEF BookingRow, Status
<1>2. booking' = [booking EXCEPT ![b] = row] /\ visited' = [visited EXCEPT ![b] = @ \cup {row.status}]
  BY DEF WriteBooking
<1>3. QED
  BY <1>1, <1>2 DEF TypeOK, Exists

LEMMA StatusRow ==
  ASSUME TypeOK, NEW b \in Bookings, Exists(b), NEW s \in Status
  PROVE  /\ SetStatus(b, s) \in BookingRow
         /\ SetStatus(b, s).status = s
         /\ [SetStatus(b, s) EXCEPT !.stamped = TRUE] \in BookingRow
  BY RowExists DEF SetStatus, BookingRow

LEMMA SlotRow ==
  ASSUME TypeOK, NEW b \in Bookings, Exists(b), NEW slot \in Slots
  PROVE  [booking[b] EXCEPT !.slot = slot] \in BookingRow
  BY RowExists DEF BookingRow

LEMMA CreatedRow ==
  ASSUME TypeOK, RequestOK, NEW r \in Requests, req[r].op = "create"
  PROVE  NewBooking(req[r]) \in BookingRow
<1>1. req[r] \in Request
  BY DEF TypeOK, Idle
<1>2. req[r].key \in Keys \cup {None}
  BY <1>1 DEF Request
<1>3. QED
  BY <1>2 DEF RequestOK, NewBooking, BookingRow, Status

LEMMA FinishTyped ==
  ASSUME TypeOK, NEW r \in Requests, Finish(r)
  PROVE  /\ req' \in [Requests -> Request \cup {Idle}]
         /\ req'[r] = Idle
         /\ \A s \in Requests \ {r} : req'[s] = req[s]
  BY DEF TypeOK, Finish

\* A request that keeps its record keeps what RequestOK says of it.
LEMMA FinishKeeps ==
  ASSUME Typed, NEW r \in Requests, Finish(r), \A b \in Bookings : Exists(b) => Exists(b)'
  PROVE  RequestOK'
  BY FinishTyped DEF Typed, RequestOK, Idle

LEMMA TargetTyped == \A op \in DOMAIN Target : Target[op] \in Status
  BY DEF Target, Status

-----------------------------------------------------------------------------
\* Type correctness: one step per action of Next.

LEMMA InitTyped == Init => Typed
  BY DEF Init, Typed, TypeOK, RequestOK, Idle

\* The first steps only fill the record of an idle request.
LEMMA AcceptedTyped ==
  ASSUME Typed, NEW r \in Requests, NEW q \in Request, Accepted(r, q),
         q.op = "create" => q.facility \in Facilities /\ q.slot \in Slots /\ q.user \in Users,
         q.op = "reschedule" => q.slot \in Slots,
         q.op \notin {"create", "idle"} => q.booking \in Bookings /\ Exists(q.booking)
  PROVE  Typed'
<1>1. TypeOK'
  BY DEF Typed, TypeOK, Accepted
<1>2. req' = [req EXCEPT ![r] = q] /\ booking' = booking
  BY DEF Accepted
<1>3. RequestOK'
  BY <1>2 DEF Typed, TypeOK, RequestOK, Exists
<1>4. QED
  BY <1>1, <1>3 DEF Typed

LEMMA RequestStepTyped ==
  ASSUME Typed, NEW r \in Requests, RequestStep(r)
  PROVE  Typed'
<1>1. CASE \E f \in Facilities, slot \in Slots, u \in Users, k \in Keys \cup {None} :
              ReadCreate(r, f, slot, u, k)
  <2>1. PICK f \in Facilities, slot \in Slots, u \in Users, k \in Keys \cup {None} :
               ReadCreate(r, f, slot, u, k)
    BY <1>1
  <2> DEFINE q == [op |-> "create", booking |-> None, facility |-> f, slot |-> slot,
                   user |-> u, key |-> k]
  <2>2. q \in Request /\ Accepted(r, q)
    BY <2>1 DEF ReadCreate, Request, Op
  <2>3. QED
    BY <2>2, AcceptedTyped
<1>2. ASSUME NEW b \in Bookings, NEW op \in StatusOps \cup {"checkIn"}, ReadStatusOp(r, op, b)
      PROVE  Typed'
  <2> DEFINE q == [Idle EXCEPT !.op = op, !.booking = b]
  <2>1. q \in Request /\ q.op = op /\ q.booking = b
    BY DEF Request, Op, Idle
  <2>2. Accepted(r, q) /\ Exists(b) /\ op \notin {"create", "reschedule"}
    BY <1>2 DEF ReadStatusOp, StatusOps
  <2>3. QED
    BY <2>1, <2>2, AcceptedTyped
<1>3. ASSUME NEW b \in Bookings, ReadCancel(r, b)
      PROVE  Typed'
  <2> DEFINE q == [Idle EXCEPT !.op = "cancel", !.booking = b]
  <2>1. q \in Request /\ q.op = "cancel" /\ q.booking = b
    BY DEF Request, Op, Idle
  <2>2. Accepted(r, q) /\ Exists(b)
    BY <1>3 DEF ReadCancel
  <2>3. QED
    BY <2>1, <2>2, AcceptedTyped
<1>4. ASSUME NEW b \in Bookings, NEW slot \in Slots, ReadReschedule(r, b, slot)
      PROVE  Typed'
  <2> DEFINE q == [Idle EXCEPT !.op = "reschedule", !.booking = b, !.slot = slot]
  <2>1. q \in Request /\ q.op = "reschedule" /\ q.booking = b /\ q.slot = slot
    BY DEF Request, Op, Idle
  <2>2. Accepted(r, q) /\ Exists(b)
    BY <1>4 DEF ReadReschedule, Active, Exists
  <2>3. QED
    BY <2>1, <2>2, AcceptedTyped
<1>5. QED
  BY <1>1, <1>2, <1>3, <1>4 DEF RequestStep

\* A commit that writes a well-typed row and finishes its request.
LEMMA CommitTyped ==
  ASSUME Typed, NEW r \in Requests, NEW b \in Bookings, NEW row \in BookingRow,
         WriteBooking(b, row), Finish(r),
         checkIn' \subseteq Bookings,
         payment' \in [Payments -> PaymentRow \cup {NoPayment}],
         facilityActive' = facilityActive,
         answered' \subseteq [key : Keys, user : Users, booking : Bookings]
  PROVE  Typed'
<1> USE DEF Typed
<1>1. \A c \in Bookings : Exists(c) => Exists(c)'
  BY WriteTyped
<1>2. RequestOK'
  BY <1>1, FinishKeeps
<1>3. TypeOK'
  BY WriteTyped, FinishTyped DEF TypeOK
<1>4. QED
  BY <1>2, <1>3

LEMMA AnswerTyped ==
  ASSUME Typed, NEW r \in Requests, req[r].op = "create", NEW b \in Bookings, Answer(req[r], b)
  PROVE  answered' \subseteq [key : Keys, user : Users, booking : Bookings]
<1>1. req[r] \in Request /\ req[r].user \in Users
  BY DEF Typed, TypeOK, RequestOK, Idle
<1>2. req[r].key \in Keys \cup {None}
  BY <1>1 DEF Request
<1>3. QED
  BY <1>1, <1>2 DEF Answer, Typed, TypeOK

LEMMA CancelPaymentsTyped ==
  ASSUME TypeOK, NEW b \in Bookings
  PROVE  CancelPayments(b) \in [Payments -> PaymentRow \cup {NoPayment}]
<1> SUFFICES ASSUME NEW p \in Payments
             PROVE  CancelPayments(b)[p] \in PaymentRow \cup {NoPayment}
  BY DEF CancelPayments
<1>1. payment[p] \in PaymentRow \cup {NoPayment}
  BY DEF TypeOK
<1>2. CASE payment[p].booking = b
  <2>1. payment[p] \in PaymentRow
    BY <1>1, <1>2, BookingAssumption DEF NoPayment
  <2>2. QED
    BY <2>1 DEF CancelPayments, PaymentRow, PaymentStatus
<1>3. QED
  BY <1>1, <1>2 DEF CancelPayments

LEMMA RequestNames ==
  ASSUME Typed, NEW r \in Requests, req[r].op \in Op \ {"create"}
  PROVE  req[r].booking \in Bookings /\ Exists(req[r].booking)
  BY DEF Typed, RequestOK, Op, StatusOps

LEMMA ServerStepTyped ==
  ASSUME Typed, NEW r \in Requests, ServerStep(r)
  PROVE  Typed'
<1> USE DEF Typed
<1> DEFINE b == req[r].booking
<1>1. CASE ReplayCreate(r)
  <2>1. PICK c \in Bookings : Answer(req[r], c)
    BY <1>1 DEF ReplayCreate
  <2>2. answered' \subseteq [key : Keys, user : Users, booking : Bookings]
    BY <1>1, <2>1, AnswerTyped DEF ReplayCreate
  <2>3. Finish(r) /\ UNCHANGED <<booking, checkIn, payment, facilityActive, visited>>
    BY <1>1 DEF ReplayCreate
  <2>4. RequestOK'
    BY <2>3, FinishKeeps DEF Exists
  <2>5. QED
    BY <2>2, <2>3, <2>4, FinishTyped DEF TypeOK
<1>2. CASE CommitCreate(r)
  <2>1. PICK c \in Bookings : WriteBooking(c, NewBooking(req[r])) /\ Answer(req[r], c)
    BY <1>2 DEF CommitCreate
  <2>2. req[r].op = "create" /\ Finish(r) /\ UNCHANGED <<checkIn, payment, facilityActive>>
    BY <1>2 DEF CommitCreate
  <2>3. answered' \subseteq [key : Keys, user : Users, booking : Bookings]
    BY <2>1, <2>2, AnswerTyped
  <2>4. NewBooking(req[r]) \in BookingRow
    BY <2>2, CreatedRow
  <2>5. QED
    BY <2>1, <2>2, <2>3, <2>4, CommitTyped DEF TypeOK
<1>3. CASE CommitStatusOp(r)
  <2>1. /\ req[r].op \in StatusOps
        /\ WriteBooking(b, SetStatus(b, Target[req[r].op]))
        /\ Finish(r) /\ UNCHANGED <<checkIn, payment, facilityActive, answered>>
    BY <1>3 DEF CommitStatusOp
  <2>2. b \in Bookings /\ Exists(b) /\ Target[req[r].op] \in Status
    BY <2>1, RequestNames DEF Op, StatusOps, Target, Status
  <2>3. QED
    BY <2>1, <2>2, StatusRow, CommitTyped DEF TypeOK
<1>4. CASE CommitCheckIn(r)
  <2>1. /\ req[r].op = "checkIn"
        /\ WriteBooking(b, SetStatus(b, "CHECKED_IN"))
        /\ checkIn' = checkIn \cup {b}
        /\ Finish(r) /\ UNCHANGED <<payment, facilityActive, answered>>
    BY <1>4 DEF CommitCheckIn
  <2>2. b \in Bookings /\ Exists(b) /\ "CHECKED_IN" \in Status
    BY <2>1, RequestNames DEF Op, Status
  <2>3. QED
    BY <2>1, <2>2, StatusRow, CommitTyped DEF TypeOK
<1>5. CASE CommitCancel(r)
  <2>1. /\ req[r].op = "cancel"
        /\ WriteBooking(b, [SetStatus(b, "CANCELLED") EXCEPT !.stamped = TRUE])
        /\ payment' = CancelPayments(b)
        /\ Finish(r) /\ UNCHANGED <<checkIn, facilityActive, answered>>
    BY <1>5 DEF CommitCancel
  <2>2. b \in Bookings /\ Exists(b) /\ "CANCELLED" \in Status
    BY <2>1, RequestNames DEF Op, Status
  <2>3. QED
    BY <2>1, <2>2, StatusRow, CancelPaymentsTyped, CommitTyped DEF TypeOK
<1>6. CASE CommitReschedule(r)
  <2>1. /\ req[r].op = "reschedule"
        /\ WriteBooking(b, [booking[b] EXCEPT !.slot = req[r].slot])
        /\ Finish(r) /\ UNCHANGED <<checkIn, payment, facilityActive, answered>>
    BY <1>6 DEF CommitReschedule
  <2>2. b \in Bookings /\ Exists(b) /\ req[r].slot \in Slots
    BY <2>1, RequestNames DEF Op, RequestOK
  <2>3. QED
    BY <2>1, <2>2, SlotRow, CommitTyped DEF TypeOK
<1>7. CASE FailRequest(r)
  <2>1. Finish(r) /\ UNCHANGED <<booking, checkIn, payment, facilityActive, answered, visited>>
    BY <1>7 DEF FailRequest
  <2>2. RequestOK'
    BY <2>1, FinishKeeps DEF Exists
  <2>3. QED
    BY <2>1, <2>2, FinishTyped DEF TypeOK
<1>8. QED
  BY <1>1, <1>2, <1>3, <1>4, <1>5, <1>6, <1>7 DEF ServerStep
LEMMA PaymentRowExists ==
  ASSUME TypeOK, NEW p \in Payments, payment[p].status # "NONE"
  PROVE  payment[p] \in PaymentRow /\ payment[p].booking \in Bookings
  BY DEF TypeOK, NoPayment, PaymentRow

LEMMA PaymentStepTyped ==
  ASSUME Typed, PaymentStep
  PROVE  Typed'
<1> USE DEF Typed
<1>1. ASSUME NEW p \in Payments, NEW b \in Bookings, PaymentOpened(p, b)
      PROVE  Typed'
  <2>1. TypeOK'
    BY <1>1 DEF PaymentOpened, TypeOK, PaymentRow, PaymentStatus
  <2>2. RequestOK'
    BY <1>1 DEF PaymentOpened, RequestOK, Exists
  <2>3. QED
    BY <2>1, <2>2
<1>2. ASSUME NEW p \in Payments, PaymentCaptured(p)
      PROVE  Typed'
  <2> DEFINE b == payment[p].booking
  <2>1. payment[p] \in PaymentRow /\ b \in Bookings
    BY <1>2, PaymentRowExists DEF PaymentCaptured, Capture
  <2>2. payment' \in [Payments -> PaymentRow \cup {NoPayment}]
    BY <1>2, <2>1 DEF PaymentCaptured, Capture, TypeOK, PaymentRow, PaymentStatus
  <2>3. UNCHANGED <<checkIn, facilityActive, req, answered>>
    BY <1>2 DEF PaymentCaptured, Capture
  <2>4. CASE booking[b].status = "PENDING"
    <3>1. Exists(b) /\ "CONFIRMED" \in Status /\ WriteBooking(b, SetStatus(b, "CONFIRMED"))
      BY <1>2, <2>4 DEF PaymentCaptured, Capture, Exists, Status
    <3>2. SetStatus(b, "CONFIRMED") \in BookingRow
      BY <2>1, <3>1, StatusRow
    <3>3. /\ booking' \in [Bookings -> BookingRow \cup {NoBooking}]
          /\ visited' \in [Bookings -> SUBSET Status]
          /\ \A c \in Bookings : Exists(c) => Exists(c)'
      BY <2>1, <3>1, <3>2, WriteTyped
    <3>4. QED
      BY <2>2, <2>3, <3>3 DEF TypeOK, RequestOK
  <2>5. CASE booking[b].status # "PENDING"
    <3>1. UNCHANGED <<booking, visited>>
      BY <1>2, <2>5 DEF PaymentCaptured, Capture
    <3>2. QED
      BY <2>2, <2>3, <3>1 DEF TypeOK, RequestOK, Exists
  <2>6. QED
    BY <2>4, <2>5
<1>3. ASSUME NEW p \in Payments, PaymentRefunded(p)
      PROVE  Typed'
  <2>1. payment[p] \in PaymentRow
    BY <1>3, PaymentRowExists DEF PaymentRefunded
  <2>2. TypeOK'
    BY <1>3, <2>1 DEF PaymentRefunded, TypeOK, PaymentRow, PaymentStatus
  <2>3. RequestOK'
    BY <1>3 DEF PaymentRefunded, RequestOK, Exists
  <2>4. QED
    BY <2>2, <2>3
<1>4. QED
  BY <1>1, <1>2, <1>3 DEF PaymentStep

LEMMA SetFacilityTyped ==
  ASSUME Typed, NEW f \in Facilities, SetFacilityActive(f)
  PROVE  Typed'
  BY DEF SetFacilityActive, Typed, TypeOK, RequestOK, Exists

LEMMA BookingStepTyped == ASSUME Typed, BookingStep PROVE Typed'
  BY RequestStepTyped, ServerStepTyped, SetFacilityTyped DEF BookingStep

LEMMA StutterTyped == ASSUME Typed, UNCHANGED bookingVars PROVE Typed'
  BY DEF bookingVars, Typed, TypeOK, RequestOK, Exists

\* The tables, the requests and the history keep their types, and a request in
\* flight always names an existing booking: no operation deletes a booking row.
THEOREM TypeCorrect == Spec => [](TypeOK /\ RequestOK)
<1>1. Init => Typed
  BY InitTyped
<1>2. Typed /\ [Next]_bookingVars => Typed'
  BY BookingStepTyped, PaymentStepTyped, StutterTyped DEF Next
<1>3. Typed <=> TypeOK /\ RequestOK
  BY DEF Typed
<1>4. QED
  BY <1>1, <1>2, <1>3, PTL DEF Spec
-----------------------------------------------------------------------------
\* The bookings table: every step writes at most one row, and through the constraint.

LEMMA OneRowWritten ==
  ASSUME Typed, [Next]_bookingVars
  PROVE  \/ UNCHANGED <<booking, visited>>
         \/ \E b \in Bookings, row \in BookingRow : WriteBooking(b, row)
<1> USE DEF Typed
<1> DEFINE Goal == \/ UNCHANGED <<booking, visited>>
                   \/ \E b \in Bookings, row \in BookingRow : WriteBooking(b, row)
<1>1. ASSUME NEW r \in Requests, RequestStep(r) PROVE Goal
  BY <1>1 DEF RequestStep, ReadCreate, ReadStatusOp, ReadCancel, ReadReschedule, Accepted
<1>2. ASSUME NEW r \in Requests, ServerStep(r) PROVE Goal
  <2> DEFINE b == req[r].booking
  <2>1. CASE ReplayCreate(r) \/ FailRequest(r)
    BY <2>1 DEF ReplayCreate, FailRequest
  <2>2. CASE CommitCreate(r)
    BY <2>2, CreatedRow DEF CommitCreate
  <2>3. CASE CommitStatusOp(r)
    <3>1. b \in Bookings /\ Exists(b) /\ Target[req[r].op] \in Status
      BY <2>3, RequestNames DEF CommitStatusOp, Op, StatusOps, Target, Status
    <3>2. QED
      BY <2>3, <3>1, StatusRow DEF CommitStatusOp
  <2>4. CASE CommitCheckIn(r)
    <3>1. b \in Bookings /\ Exists(b) /\ "CHECKED_IN" \in Status
      BY <2>4, RequestNames DEF CommitCheckIn, Op, Status
    <3>2. QED
      BY <2>4, <3>1, StatusRow DEF CommitCheckIn
  <2>5. CASE CommitCancel(r)
    <3>1. b \in Bookings /\ Exists(b) /\ "CANCELLED" \in Status
      BY <2>5, RequestNames DEF CommitCancel, Op, Status
    <3>2. QED
      BY <2>5, <3>1, StatusRow DEF CommitCancel
  <2>6. CASE CommitReschedule(r)
    <3>1. b \in Bookings /\ Exists(b) /\ req[r].slot \in Slots
      BY <2>6, RequestNames DEF CommitReschedule, Op, RequestOK
    <3>2. QED
      BY <2>6, <3>1, SlotRow DEF CommitReschedule
  <2>7. QED
    BY <1>2, <2>1, <2>2, <2>3, <2>4, <2>5, <2>6 DEF ServerStep
<1>3. ASSUME NEW p \in Payments, NEW b \in Bookings, PaymentOpened(p, b) PROVE Goal
  BY <1>3 DEF PaymentOpened
<1>4. ASSUME NEW p \in Payments, PaymentCaptured(p) PROVE Goal
  <2> DEFINE b == payment[p].booking
  <2>1. b \in Bookings
    BY <1>4, PaymentRowExists DEF PaymentCaptured, Capture
  <2>2. CASE booking[b].status = "PENDING"
    BY <1>4, <2>1, <2>2, StatusRow DEF PaymentCaptured, Capture, Exists, Status
  <2>3. QED
    BY <1>4, <2>2 DEF PaymentCaptured, Capture
<1>5. ASSUME NEW p \in Payments, PaymentRefunded(p) PROVE Goal
  BY <1>5 DEF PaymentRefunded
<1>6. ASSUME NEW f \in Facilities, SetFacilityActive(f) PROVE Goal
  BY <1>6 DEF SetFacilityActive
<1>7. CASE UNCHANGED bookingVars
  BY <1>7 DEF bookingVars
<1>8. QED
  BY <1>1, <1>2, <1>3, <1>4, <1>5, <1>6, <1>7 DEF Next, BookingStep, PaymentStep

LEMMA ExcludesSymmetric == \A x, y : Excludes(x, y) <=> Excludes(y, x)
  BY DEF Excludes, Overlaps

\* What the exclusion constraint keeps: no two rows that are not CANCELLED overlap.
THEOREM ConstraintKept == Spec => []SlotsApart
<1>1. Init => SlotsApart
  BY DEF Init, SlotsApart, Excludes, Indexed, NoBooking
<1>2. ASSUME Typed, SlotsApart, [Next]_bookingVars PROVE SlotsApart'
  <2>1. CASE UNCHANGED <<booking, visited>>
    BY <1>2, <2>1 DEF SlotsApart
  <2>2. CASE \E b \in Bookings, row \in BookingRow : WriteBooking(b, row)
    <3>1. PICK b \in Bookings, row \in BookingRow : WriteBooking(b, row)
      BY <2>2
    <3>2. booking'[b] = row /\ \A c \in Bookings \ {b} : booking'[c] = booking[c]
      BY <1>2, <3>1, WriteTyped DEF Typed
    <3>3. \A c \in Bookings \ {b} : ~ Excludes(booking'[b], booking'[c])
      BY <3>1, <3>2 DEF WriteBooking
    <3>4. \A c \in Bookings \ {b} : ~ Excludes(booking'[c], booking'[b])
      BY <3>3, ExcludesSymmetric
    <3>5. \A c, d \in Bookings \ {b} : c # d => ~ Excludes(booking'[c], booking'[d])
      BY <1>2, <3>2 DEF SlotsApart
    <3>6. \A c, d \in Bookings : c # d => ~ Excludes(booking'[c], booking'[d])
      BY <3>3, <3>4, <3>5
    <3>7. QED
      BY <3>6 DEF SlotsApart, Excludes, Indexed, Overlaps
  <2>3. QED
    BY <1>2, <2>1, <2>2, OneRowWritten
<1>3. Typed <=> TypeOK /\ RequestOK
  BY DEF Typed
<1>4. QED
  BY <1>1, <1>2, <1>3, TypeCorrect, PTL DEF Spec

\* The headline of the booking engine: no two entitled customers share a court,
\* whatever the number of bookings and of concurrent requests.
THEOREM NoDoubleBookingHolds == Spec => []NoDoubleBooking
<1>1. SlotsApart => NoDoubleBooking
  BY DEF SlotsApart, NoDoubleBooking, HoldsSlot, Excludes, Indexed
<1>2. QED
  BY <1>1, ConstraintKept, PTL
-----------------------------------------------------------------------------
\* The service implements the calendar.

LEMMA HoldTyped ==
  ASSUME TypeOK, NEW b \in Bookings
  PROVE  CalendarHold[b] # None <=> Indexed(booking[b])
<1>1. Indexed(booking[b]) => booking[b] \in BookingRow
  BY DEF TypeOK, Indexed, NoBooking
<1>2. Indexed(booking[b]) => [facility |-> booking[b].facility, slot |-> booking[b].slot] # None
  BY <1>1, HoldAssumption DEF BookingRow
<1>3. QED
  BY <1>1, <1>2 DEF CalendarHold

\* Every step takes, moves or releases one hold, or leaves the calendar alone.
THEOREM CalendarImplemented == Spec => ImplementsCalendar
<1>1. Init => Calendar!CalendarInit
  BY DEF Init, Calendar!CalendarInit, CalendarHold, Indexed, NoBooking
<1>2. ASSUME Typed, [Next]_bookingVars PROVE [Calendar!CalendarNext]_CalendarHold
  <2>1. CASE UNCHANGED <<booking, visited>>
    BY <2>1 DEF CalendarHold
  <2>2. CASE \E b \in Bookings, row \in BookingRow : WriteBooking(b, row)
    <3>1. PICK b \in Bookings, row \in BookingRow : WriteBooking(b, row)
      BY <2>2
    <3>2. booking'[b] = row /\ \A c \in Bookings \ {b} : booking'[c] = booking[c]
      BY <1>2, <3>1, WriteTyped DEF Typed
    <3> DEFINE h == [facility |-> row.facility, slot |-> row.slot]
    <3>3. CASE ~ Indexed(row)
      <4>1. CalendarHold' = [CalendarHold EXCEPT ![b] = None]
        BY <3>2, <3>3 DEF CalendarHold
      <4>2. QED
        BY <4>1 DEF Calendar!CalendarNext, Calendar!Release
    <3>4. CASE Indexed(row)
      <4>1. CalendarHold' = [CalendarHold EXCEPT ![b] = h]
        BY <3>2, <3>4 DEF CalendarHold
      <4>2. \A c \in Bookings \ {b} : CalendarHold[c] # None => ~ HoldsCollide(h, CalendarHold[c])
        BY <1>2, <3>1, <3>4, HoldTyped
        DEF Typed, WriteBooking, Excludes, CalendarHold, HoldsCollide
      <4>3. h \in [facility : Facilities, slot : Slots]
        BY DEF BookingRow
      <4>4. QED
        BY <4>1, <4>2, <4>3 DEF Calendar!CalendarNext, Calendar!Take, Calendar!Compatible
    <3>5. QED
      BY <3>3, <3>4
  <2>3. QED
    BY <1>2, <2>1, <2>2, OneRowWritten
<1>3. Typed <=> TypeOK /\ RequestOK
  BY DEF Typed
<1>4. QED
  BY <1>1, <1>2, <1>3, TypeCorrect, PTL DEF Spec, ImplementsCalendar, Calendar!CalendarSpec

\* What the calendar promises, of the rows: a hold is held alone, whether its booking is
\* still pending or already over, as long as it is not cancelled.
THEOREM CalendarKept == Spec => []Calendar!NoCollision
<1>1. ASSUME TypeOK, SlotsApart PROVE Calendar!NoCollision
  <2>1. ASSUME NEW b \in Bookings, NEW c \in Bookings, b # c,
               CalendarHold[b] # None, CalendarHold[c] # None
        PROVE  ~ HoldsCollide(CalendarHold[b], CalendarHold[c])
    <3>1. Indexed(booking[b]) /\ Indexed(booking[c])
      BY <1>1, <2>1, HoldTyped
    <3>2. ~ Excludes(booking[b], booking[c])
      BY <1>1, <2>1 DEF SlotsApart
    <3>3. QED
      BY <3>1, <3>2 DEF Excludes, HoldsCollide, CalendarHold
  <2>2. QED
    BY <2>1 DEF Calendar!NoCollision
<1>2. QED
  BY <1>1, TypeCorrect, ConstraintKept, PTL
-----------------------------------------------------------------------------
\* Two views of a step, for the invariants about stale requests.

\* What a request in flight saw of its booking when it was accepted.
SawAllowed(q) ==
  q.op \in DOMAIN Target =>
    /\ q.booking \in Bookings /\ Exists(q.booking)
    /\ CanMove(booking[q.booking].status, Target[q.op])

\* Each request stays, ends, or is accepted in a step that writes no booking.
RequestView ==
  \A r \in Requests :
    \/ req'[r] \in {req[r], Idle}
    \/ UNCHANGED <<booking, visited, checkIn>> /\ SawAllowed(req'[r])

\* A status is written by create, by a request in flight towards it, or by a capture.
StatusWritten(b) ==
  LET s == booking'[b].status IN
  \/ booking[b].status = s
  \/ ~ Exists(b) /\ s = "PENDING"
  \/ \E r \in Requests :
       /\ req[r].op \in DOMAIN Target /\ req[r].booking = b /\ s = Target[req[r].op]
       /\ s = "CHECKED_IN" => b \in checkIn'
  \/ booking[b].status = "PENDING" /\ s = "CONFIRMED"

\* Each booking keeps its row, or is written one status, which visited records.
StatusView ==
  /\ checkIn \subseteq checkIn'
  /\ \A b \in Bookings :
       \/ booking'[b] = booking[b] /\ visited'[b] = visited[b]
       \/ /\ visited'[b] = visited[b] \cup {booking'[b].status}
          /\ StatusWritten(b)

LEMMA FinishView == ASSUME Typed, NEW r \in Requests, Finish(r) PROVE RequestView
  BY FinishTyped DEF RequestView, Typed

LEMMA AcceptView ==
  ASSUME Typed, NEW r \in Requests, NEW q, Accepted(r, q), SawAllowed(q)
  PROVE  RequestView /\ StatusView
<1>1. req' = [req EXCEPT ![r] = q] /\ UNCHANGED <<booking, visited, checkIn>>
  BY DEF Accepted
<1>2. req \in [Requests -> Request \cup {Idle}]
  BY DEF Typed, TypeOK
<1>3. RequestView
  BY <1>1, <1>2 DEF RequestView
<1>4. StatusView
  BY <1>1 DEF StatusView
<1>5. QED
  BY <1>3, <1>4

LEMMA WriteView ==
  ASSUME Typed, NEW b \in Bookings, NEW row \in BookingRow, WriteBooking(b, row),
         checkIn \subseteq checkIn', booking'[b] = row => StatusWritten(b)
  PROVE  StatusView
<1>1. booking'[b] = row /\ \A c \in Bookings \ {b} : booking'[c] = booking[c]
  BY WriteTyped DEF Typed
<1>2. visited' = [visited EXCEPT ![b] = @ \cup {row.status}] /\ visited \in [Bookings -> SUBSET Status]
  BY DEF WriteBooking, Typed, TypeOK
<1>3. \A c \in Bookings \ {b} : visited'[c] = visited[c]
  BY <1>2
<1>4. visited'[b] = visited[b] \cup {booking'[b].status}
  BY <1>1, <1>2
<1>5. QED
  BY <1>1, <1>3, <1>4 DEF StatusView

LEMMA RequestStepViews ==
  ASSUME Typed, NEW r \in Requests, RequestStep(r)
  PROVE  RequestView /\ StatusView
<1>1. ASSUME NEW f \in Facilities, NEW slot \in Slots, NEW u \in Users,
             NEW k \in Keys \cup {None}, ReadCreate(r, f, slot, u, k)
      PROVE  RequestView /\ StatusView
  <2> DEFINE q == [op |-> "create", booking |-> None, facility |-> f, slot |-> slot,
                   user |-> u, key |-> k]
  <2>1. Accepted(r, q) /\ SawAllowed(q)
    BY <1>1 DEF ReadCreate, SawAllowed, Target
  <2>2. QED
    BY <2>1, AcceptView
<1>2. ASSUME NEW b \in Bookings, NEW op \in StatusOps \cup {"checkIn"}, ReadStatusOp(r, op, b)
      PROVE  RequestView /\ StatusView
  <2> DEFINE q == [Idle EXCEPT !.op = op, !.booking = b]
  <2>1. Accepted(r, q) /\ q.op = op /\ q.booking = b
    BY <1>2 DEF ReadStatusOp, Idle
  <2>2. SawAllowed(q)
    BY <1>2, <2>1 DEF ReadStatusOp, SawAllowed
  <2>3. QED
    BY <2>1, <2>2, AcceptView
<1>3. ASSUME NEW b \in Bookings, ReadCancel(r, b)
      PROVE  RequestView /\ StatusView
  <2> DEFINE q == [Idle EXCEPT !.op = "cancel", !.booking = b]
  <2>1. Accepted(r, q) /\ q.op = "cancel" /\ q.booking = b
    BY <1>3 DEF ReadCancel, Idle
  <2>2. SawAllowed(q)
    BY <1>3, <2>1 DEF ReadCancel, SawAllowed, Target
  <2>3. QED
    BY <2>1, <2>2, AcceptView
<1>4. ASSUME NEW b \in Bookings, NEW slot \in Slots, ReadReschedule(r, b, slot)
      PROVE  RequestView /\ StatusView
  <2> DEFINE q == [Idle EXCEPT !.op = "reschedule", !.booking = b, !.slot = slot]
  <2>1. Accepted(r, q) /\ q.op = "reschedule"
    BY <1>4 DEF ReadReschedule, Idle
  <2>2. SawAllowed(q)
    BY <2>1 DEF SawAllowed, Target
  <2>3. QED
    BY <2>1, <2>2, AcceptView
<1>5. QED
  BY <1>1, <1>2, <1>3, <1>4 DEF RequestStep

LEMMA ServerStepViews ==
  ASSUME Typed, NEW r \in Requests, ServerStep(r)
  PROVE  RequestView /\ StatusView
<1> USE DEF Typed
<1> DEFINE b == req[r].booking
<1>1. Finish(r)
  BY DEF ServerStep, ReplayCreate, CommitCreate, CommitStatusOp, CommitCheckIn, CommitCancel,
         CommitReschedule, FailRequest
<1>2. RequestView
  BY <1>1, FinishView
<1>3. CASE ReplayCreate(r) \/ FailRequest(r)
  BY <1>2, <1>3 DEF ReplayCreate, FailRequest, StatusView
<1>4. CASE CommitCreate(r)
  <2>1. PICK c \in Bookings : ~ Exists(c) /\ WriteBooking(c, NewBooking(req[r]))
    BY <1>4 DEF CommitCreate
  <2>2. NewBooking(req[r]) \in BookingRow /\ NewBooking(req[r]).status = "PENDING"
    BY <1>4, CreatedRow DEF CommitCreate, NewBooking
  <2>3. StatusView
    BY <1>4, <2>1, <2>2, WriteView DEF StatusWritten, CommitCreate
  <2>4. QED
    BY <1>2, <2>3
<1>5. CASE CommitStatusOp(r)
  <2> DEFINE s == Target[req[r].op]
  <2>1. /\ b \in Bookings /\ Exists(b) /\ s \in Status /\ s # "CHECKED_IN"
        /\ req[r].op \in DOMAIN Target
    BY <1>5, RequestNames DEF CommitStatusOp, Op, StatusOps, Target, Status
  <2>2. SetStatus(b, s) \in BookingRow /\ SetStatus(b, s).status = s
    BY <2>1, StatusRow
  <2>3. StatusView
    BY <1>5, <2>1, <2>2, WriteView DEF StatusWritten, CommitStatusOp
  <2>4. QED
    BY <1>2, <2>3
<1>6. CASE CommitCheckIn(r)
  <2>1. /\ b \in Bookings /\ Exists(b) /\ "CHECKED_IN" \in Status
        /\ req[r].op \in DOMAIN Target /\ Target[req[r].op] = "CHECKED_IN"
    BY <1>6, RequestNames DEF CommitCheckIn, Op, Target, Status
  <2>2. SetStatus(b, "CHECKED_IN") \in BookingRow /\ SetStatus(b, "CHECKED_IN").status = "CHECKED_IN"
    BY <2>1, StatusRow
  <2>3. StatusView
    BY <1>6, <2>1, <2>2, WriteView DEF StatusWritten, CommitCheckIn
  <2>4. QED
    BY <1>2, <2>3
<1>7. CASE CommitCancel(r)
  <2> DEFINE row == [SetStatus(b, "CANCELLED") EXCEPT !.stamped = TRUE]
  <2>1. /\ b \in Bookings /\ Exists(b) /\ "CANCELLED" \in Status
        /\ req[r].op \in DOMAIN Target /\ Target[req[r].op] = "CANCELLED"
    BY <1>7, RequestNames DEF CommitCancel, Op, Target, Status
  <2>2. row \in BookingRow /\ SetStatus(b, "CANCELLED") \in BookingRow /\ SetStatus(b, "CANCELLED").status = "CANCELLED"
    BY <2>1, StatusRow
  <2>3. row.status = "CANCELLED"
    BY <2>2 DEF BookingRow
  <2>4. StatusView
    BY <1>7, <2>1, <2>2, <2>3, WriteView DEF StatusWritten, CommitCancel
  <2>5. QED
    BY <1>2, <2>4
<1>8. CASE CommitReschedule(r)
  <2> DEFINE row == [booking[b] EXCEPT !.slot = req[r].slot]
  <2>1. b \in Bookings /\ Exists(b) /\ req[r].slot \in Slots
    BY <1>8, RequestNames DEF CommitReschedule, Op, RequestOK
  <2>2. row \in BookingRow /\ booking[b] \in BookingRow
    BY <2>1, SlotRow, RowExists
  <2>3. row.status = booking[b].status
    BY <2>2 DEF BookingRow
  <2>4. StatusView
    BY <1>8, <2>1, <2>2, <2>3, WriteView DEF StatusWritten, CommitReschedule
  <2>5. QED
    BY <1>2, <2>4
<1>9. QED
  BY <1>2, <1>3, <1>4, <1>5, <1>6, <1>7, <1>8 DEF ServerStep

LEMMA Views ==
  ASSUME Typed, [Next]_bookingVars
  PROVE  RequestView /\ StatusView
<1>1. ASSUME UNCHANGED <<req, booking, visited, checkIn>> PROVE RequestView /\ StatusView
  BY <1>1 DEF RequestView, StatusView
<1>2. ASSUME NEW p \in Payments, PaymentCaptured(p) PROVE RequestView /\ StatusView
  <2> DEFINE b == payment[p].booking
  <2>1. b \in Bookings /\ UNCHANGED <<req, checkIn>>
    BY <1>2, PaymentRowExists DEF PaymentCaptured, Capture, Typed
  <2>2. CASE booking[b].status = "PENDING"
    <3>1. Exists(b) /\ "CONFIRMED" \in Status /\ WriteBooking(b, SetStatus(b, "CONFIRMED"))
      BY <1>2, <2>2 DEF PaymentCaptured, Capture, Exists, Status
    <3>2. SetStatus(b, "CONFIRMED") \in BookingRow /\ SetStatus(b, "CONFIRMED").status = "CONFIRMED"
      BY <2>1, <3>1, StatusRow DEF Typed
    <3>3. StatusView
      BY <2>1, <2>2, <3>1, <3>2, WriteView DEF StatusWritten
    <3>4. QED
      BY <2>1, <3>3 DEF RequestView
  <2>3. QED
    BY <1>2, <1>1, <2>1, <2>2 DEF PaymentCaptured, Capture
<1>3. CASE PaymentStep
  BY <1>1, <1>2, <1>3 DEF PaymentStep, PaymentOpened, PaymentRefunded
<1>4. CASE BookingStep
  BY <1>1, <1>4, RequestStepViews, ServerStepViews DEF BookingStep, SetFacilityActive
<1>5. QED
  BY <1>1, <1>3, <1>4 DEF Next, bookingVars
-----------------------------------------------------------------------------
\* What stale requests cannot break.

Completion == CompletesSawCheckIn /\ CompletionNeedsCheckIn

LEMMA CompletionStep ==
  ASSUME Typed, Completion, RequestView, StatusView
  PROVE  Completion'
<1>1. CompletesSawCheckIn'
  <2> SUFFICES ASSUME NEW r \in Requests, req'[r].op = "complete"
               PROVE  req'[r].booking \in checkIn'
    BY DEF CompletesSawCheckIn
  <2>1. CASE req'[r] \in {req[r], Idle}
    BY <2>1 DEF Completion, CompletesSawCheckIn, StatusView, Idle
  <2>2. CASE SawAllowed(req'[r])
    <3> DEFINE b == req'[r].booking
    <3>1. b \in Bookings /\ Exists(b) /\ CanMove(booking[b].status, "COMPLETED")
      BY <2>2 DEF SawAllowed, Target
    <3>2. booking[b].status \in Status
      BY <3>1, RowExists DEF Typed, BookingRow
    <3>3. booking[b].status \in {"CHECKED_IN", "COMPLETED"}
      BY <3>1, <3>2 DEF CanMove, AllowedNext, Status
    <3>4. QED
      BY <3>1, <3>3 DEF Completion, CompletionNeedsCheckIn, StatusView
  <2>3. QED
    BY <2>1, <2>2 DEF RequestView
<1>2. CompletionNeedsCheckIn'
  <2> SUFFICES ASSUME NEW b \in Bookings, booking'[b].status \in {"CHECKED_IN", "COMPLETED"}
               PROVE  b \in checkIn'
    BY DEF CompletionNeedsCheckIn
  <2>1. CASE booking[b].status = booking'[b].status
    BY <2>1 DEF Completion, CompletionNeedsCheckIn, StatusView
  <2>2. CASE \E r \in Requests :
               /\ req[r].op \in DOMAIN Target /\ req[r].booking = b
               /\ booking'[b].status = Target[req[r].op]
               /\ booking'[b].status = "CHECKED_IN" => b \in checkIn'
    <3>1. PICK r \in Requests :
               /\ req[r].op \in DOMAIN Target /\ req[r].booking = b
               /\ booking'[b].status = Target[req[r].op]
               /\ booking'[b].status = "CHECKED_IN" => b \in checkIn'
      BY <2>2
    <3>2. CASE booking'[b].status = "COMPLETED"
      <4>1. req[r].op = "complete"
        BY <3>1, <3>2 DEF Target
      <4>2. QED
        BY <3>1, <4>1 DEF Completion, CompletesSawCheckIn, StatusView
    <3>3. QED
      BY <3>1, <3>2
  <2>3. QED
    BY <2>1, <2>2 DEF StatusView, StatusWritten
<1>3. QED
  BY <1>1, <1>2 DEF Completion

\* CHECKED_IN and COMPLETED bookings have a check-in record, in spite of the
\* completes that write whatever the status has become.
THEOREM CompletionHolds == Spec => []CompletionNeedsCheckIn
<1>1. Init => Completion
  BY DEF Init, Completion, CompletesSawCheckIn, CompletionNeedsCheckIn, Idle, NoBooking
<1>2. Typed /\ Completion /\ [Next]_bookingVars => Completion'
  BY Views, CompletionStep
<1>3. Typed <=> TypeOK /\ RequestOK
  BY DEF Typed
<1>4. Completion => CompletionNeedsCheckIn
  BY DEF Completion
<1>5. QED
  BY <1>1, <1>2, <1>3, <1>4, TypeCorrect, PTL DEF Spec

Paths == PathsTracked /\ LifecyclePath

LEMMA VisitedGrows ==
  ASSUME Typed, StatusView, NEW b \in Bookings
  PROVE  visited[b] \subseteq visited'[b]
  BY DEF StatusView

LEMMA PathsStep ==
  ASSUME Typed, TypeOK', Paths, RequestView, StatusView
  PROVE  Paths'
<1>1. ASSUME NEW b \in Bookings, Exists(b)' PROVE booking'[b].status \in visited'[b]
  BY <1>1 DEF StatusView, Paths, PathsTracked, Exists
<1>2. ASSUME NEW r \in Requests, req'[r].op \in DOMAIN Target
      PROVE  \E p \in visited'[req'[r].booking] : CanMove(p, Target[req'[r].op])
  <2>1. CASE req'[r] = req[r]
    <3>1. req[r].op \in Op \ {"create"}
      BY <1>2, <2>1 DEF Target, Op, StatusOps
    <3>2. req[r].booking \in Bookings
      BY <3>1, RequestNames
    <3>3. QED
      BY <1>2, <2>1, <3>2, VisitedGrows DEF Paths, PathsTracked
  <2>2. CASE req'[r] = Idle
    BY <1>2, <2>2 DEF Idle, Target
  <2>3. CASE UNCHANGED <<booking, visited, checkIn>> /\ SawAllowed(req'[r])
    BY <1>2, <2>3 DEF SawAllowed, Paths, PathsTracked
  <2>4. QED
    BY <2>1, <2>2, <2>3 DEF RequestView
<1>3. ASSUME NEW b \in Bookings, NEW s \in visited'[b] \ {"PENDING"}
      PROVE  \E p \in visited'[b] : s \in AllowedNext[p]
  <2>1. CASE s \in visited[b]
    BY <2>1, VisitedGrows DEF Paths, LifecyclePath
  <2>2. CASE s \notin visited[b]
    <3>1. s = booking'[b].status /\ StatusWritten(b)
      BY <2>2 DEF StatusView
    <3>2. CASE booking[b].status = s
      <4>1. s \in Status
        BY DEF TypeOK
      <4>2. Exists(b)
        BY <3>2, <4>1 DEF Exists, Status
      <4>3. QED
        BY <2>2, <3>2, <4>2 DEF Paths, PathsTracked
    <3>3. CASE booking[b].status = "PENDING" /\ s = "CONFIRMED"
      <4>1. "PENDING" \in visited[b]
        BY <3>3 DEF Paths, PathsTracked, Exists
      <4>2. QED
        BY <3>3, <4>1, VisitedGrows DEF AllowedNext
    <3>4. CASE \E r \in Requests : req[r].op \in DOMAIN Target /\ req[r].booking = b /\ s = Target[req[r].op]
      <4>1. PICK r \in Requests : req[r].op \in DOMAIN Target /\ req[r].booking = b /\ s = Target[req[r].op]
        BY <3>4
      <4>2. PICK p \in visited[b] : CanMove(p, s)
        BY <4>1 DEF Paths, PathsTracked
      <4>3. QED
        BY <2>2, <4>2, VisitedGrows DEF CanMove
    <3>5. QED
      BY <3>1, <3>2, <3>3, <3>4 DEF StatusWritten
  <2>3. QED
    BY <2>1, <2>2
<1>4. QED
  BY <1>1, <1>2, <1>3 DEF Paths, PathsTracked, LifecyclePath
\* No booking has a status without having been in one that the transition table
\* allows it from: the table bounds the statuses a booking collects, stale or not.
THEOREM LifecycleHolds == Spec => []LifecyclePath
<1>1. Init => Paths
  BY DEF Init, Paths, PathsTracked, LifecyclePath, Exists, NoBooking, Idle, Target
<1>2. Typed /\ Typed' /\ Paths /\ [Next]_bookingVars => Paths'
  BY Views, PathsStep DEF Typed
<1>3. Typed <=> TypeOK /\ RequestOK
  BY DEF Typed
<1>4. Paths => LifecyclePath
  BY DEF Paths
<1>5. QED
  BY <1>1, <1>2, <1>3, <1>4, TypeCorrect, PTL DEF Spec

-----------------------------------------------------------------------------
\* Idempotency keys.

\* What a step does to the keys: rows keep key and customer, except one that is
\* created; answers are given for an existing booking or for the created one.
KeyView ==
  \/ /\ \A b \in Bookings : booking'[b].key = booking[b].key /\ booking'[b].user = booking[b].user
     /\ \A a \in answered' \ answered :
          a.booking \in Bookings /\ booking[a.booking].key = a.key /\ booking[a.booking].user = a.user
  \/ \E b \in Bookings :
       /\ booking[b].key = None
       /\ \A c \in Bookings \ {b} : booking'[c] = booking[c]
       /\ booking'[b].key # None => \A c \in Bookings : booking[c].key # booking'[b].key
       /\ \A a \in answered' \ answered :
            a.booking = b /\ booking'[b].key = a.key /\ booking'[b].user = a.user

LEMMA AnswerKey ==
  ASSUME Typed, NEW r \in Requests, NEW b \in Bookings, Answer(req[r], b),
         NEW a \in answered' \ answered
  PROVE  a.booking = b /\ a.key = req[r].key /\ a.user = req[r].user /\ a.key # None
  BY DEF Answer

LEMMA WriteKeepsKeys ==
  ASSUME Typed, NEW b \in Bookings, NEW row \in BookingRow, WriteBooking(b, row),
         row.key = booking[b].key, row.user = booking[b].user, answered' = answered
  PROVE  KeyView
<1>1. booking'[b] = row /\ \A c \in Bookings \ {b} : booking'[c] = booking[c]
  BY WriteTyped DEF Typed
<1>2. QED
  BY <1>1 DEF KeyView

LEMMA StatusRowKeys ==
  ASSUME TypeOK, NEW b \in Bookings, Exists(b), NEW s \in Status
  PROVE  /\ SetStatus(b, s).key = booking[b].key
         /\ SetStatus(b, s).user = booking[b].user
         /\ [SetStatus(b, s) EXCEPT !.stamped = TRUE].key = booking[b].key
         /\ [SetStatus(b, s) EXCEPT !.stamped = TRUE].user = booking[b].user
  BY RowExists DEF SetStatus, BookingRow

LEMMA KeyStep ==
  ASSUME Typed, [Next]_bookingVars
  PROVE  KeyView
<1> USE DEF Typed
<1>1. ASSUME UNCHANGED <<booking, answered>> PROVE KeyView
  BY <1>1 DEF KeyView
<1>2. ASSUME NEW r \in Requests, ServerStep(r) PROVE KeyView
  <2> DEFINE b == req[r].booking
  <2>1. CASE ReplayCreate(r)
    <3>1. PICK c \in Bookings :
            booking[c].key = req[r].key /\ booking[c].user = req[r].user /\ Answer(req[r], c)
      BY <2>1 DEF ReplayCreate
    <3>2. \A a \in answered' \ answered :
            a.booking \in Bookings /\ booking[a.booking].key = a.key /\ booking[a.booking].user = a.user
      BY <3>1, AnswerKey
    <3>3. QED
      BY <2>1, <3>2 DEF ReplayCreate, KeyView
  <2>2. CASE CommitCreate(r)
    <3>1. PICK c \in Bookings :
            ~ Exists(c) /\ WriteBooking(c, NewBooking(req[r])) /\ Answer(req[r], c)
      BY <2>2 DEF CommitCreate
    <3>2. NewBooking(req[r]) \in BookingRow
      BY <2>2, CreatedRow DEF CommitCreate
    <3>3. /\ booking'[c] = NewBooking(req[r])
          /\ \A d \in Bookings \ {c} : booking'[d] = booking[d]
      BY <3>1, <3>2, WriteTyped
    <3>4. booking'[c].key = req[r].key /\ booking'[c].user = req[r].user
      BY <3>3 DEF NewBooking
    <3>5. booking[c].key = None
      BY <3>1, RowExists DEF TypeOK, NoBooking
    <3>6. req[r].key # None => \A d \in Bookings : booking[d].key # req[r].key
      BY <2>2 DEF CommitCreate
    <3>7. \A a \in answered' \ answered :
            a.booking = c /\ booking'[c].key = a.key /\ booking'[c].user = a.user
      BY <3>1, <3>4, AnswerKey
    <3>8. QED
      BY <3>3, <3>4, <3>5, <3>6, <3>7 DEF KeyView
  <2>3. CASE CommitStatusOp(r)
    <3>1. b \in Bookings /\ Exists(b) /\ Target[req[r].op] \in Status
      BY <2>3, RequestNames DEF CommitStatusOp, Op, StatusOps, Target, Status
    <3>2. QED
      BY <2>3, <3>1, StatusRow, StatusRowKeys, WriteKeepsKeys DEF CommitStatusOp
  <2>4. CASE CommitCheckIn(r)
    <3>1. b \in Bookings /\ Exists(b) /\ "CHECKED_IN" \in Status
      BY <2>4, RequestNames DEF CommitCheckIn, Op, Status
    <3>2. QED
      BY <2>4, <3>1, StatusRow, StatusRowKeys, WriteKeepsKeys DEF CommitCheckIn
  <2>5. CASE CommitCancel(r)
    <3>1. b \in Bookings /\ Exists(b) /\ "CANCELLED" \in Status
      BY <2>5, RequestNames DEF CommitCancel, Op, Status
    <3>2. QED
      BY <2>5, <3>1, StatusRow, StatusRowKeys, WriteKeepsKeys DEF CommitCancel
  <2>6. CASE CommitReschedule(r)
    <3> DEFINE row == [booking[b] EXCEPT !.slot = req[r].slot]
    <3>1. b \in Bookings /\ Exists(b) /\ req[r].slot \in Slots
      BY <2>6, RequestNames DEF CommitReschedule, Op, RequestOK
    <3>2. row \in BookingRow /\ row.key = booking[b].key /\ row.user = booking[b].user
      BY <3>1, SlotRow, RowExists DEF BookingRow
    <3>3. QED
      BY <2>6, <3>1, <3>2, WriteKeepsKeys DEF CommitReschedule
  <2>7. CASE FailRequest(r)
    BY <1>1, <2>7 DEF FailRequest
  <2>8. QED
    BY <1>2, <2>1, <2>2, <2>3, <2>4, <2>5, <2>6, <2>7 DEF ServerStep
<1>3. ASSUME NEW p \in Payments, PaymentCaptured(p) PROVE KeyView
  <2> DEFINE b == payment[p].booking
  <2>1. b \in Bookings /\ answered' = answered
    BY <1>3, PaymentRowExists DEF PaymentCaptured, Capture
  <2>2. CASE booking[b].status = "PENDING"
    <3>1. Exists(b) /\ "CONFIRMED" \in Status /\ WriteBooking(b, SetStatus(b, "CONFIRMED"))
      BY <1>3, <2>2 DEF PaymentCaptured, Capture, Exists, Status
    <3>2. QED
      BY <2>1, <3>1, StatusRow, StatusRowKeys, WriteKeepsKeys
  <2>3. QED
    BY <1>1, <1>3, <2>1, <2>2 DEF PaymentCaptured, Capture
<1>4. CASE PaymentStep
  BY <1>1, <1>3, <1>4 DEF PaymentStep, PaymentOpened, PaymentRefunded
<1>5. ASSUME NEW r \in Requests, RequestStep(r) PROVE KeyView
  BY <1>1, <1>5 DEF RequestStep, ReadCreate, ReadStatusOp, ReadCancel, ReadReschedule, Accepted
<1>6. ASSUME NEW f \in Facilities, SetFacilityActive(f) PROVE KeyView
  BY <1>1, <1>6 DEF SetFacilityActive
<1>7. QED
  BY <1>1, <1>2, <1>4, <1>5, <1>6 DEF Next, BookingStep, bookingVars

LEMMA KeysStep ==
  ASSUME Typed, KeysOwned, KeyView
  PROVE  KeysOwned'
<1>1. \A a \in answered : a.booking \in Bookings /\ a.key # None
  BY BookingAssumption DEF Typed, TypeOK
<1>2. CASE /\ \A b \in Bookings : booking'[b].key = booking[b].key /\ booking'[b].user = booking[b].user
           /\ \A a \in answered' \ answered :
                a.booking \in Bookings /\ booking[a.booking].key = a.key /\ booking[a.booking].user = a.user
  BY <1>1, <1>2 DEF KeysOwned
<1>3. ASSUME NEW b \in Bookings,
             booking[b].key = None,
             \A c \in Bookings \ {b} : booking'[c] = booking[c],
             booking'[b].key # None => \A c \in Bookings : booking[c].key # booking'[b].key,
             \A a \in answered' \ answered :
               a.booking = b /\ booking'[b].key = a.key /\ booking'[b].user = a.user
      PROVE  KeysOwned'
  <2>1. \A a \in answered : a.booking # b
    BY <1>1, <1>3 DEF KeysOwned
  <2>2. \A a \in answered' : booking'[a.booking].key = a.key /\ booking'[a.booking].user = a.user
    BY <1>1, <1>3, <2>1 DEF KeysOwned
  <2>3. \A c, d \in Bookings : booking'[c].key = booking'[d].key /\ c # d => booking'[c].key = None
    BY <1>3 DEF KeysOwned
  <2>4. QED
    BY <2>2, <2>3 DEF KeysOwned
<1>4. QED
  BY <1>2, <1>3 DEF KeyView

\* However often and by whomever a key is repeated, it has one answer.
THEOREM IdempotencyHolds == Spec => []IdempotentCreate
<1>1. Init => KeysOwned
  BY DEF Init, KeysOwned, NoBooking
<1>2. Typed /\ KeysOwned /\ [Next]_bookingVars => KeysOwned'
  BY KeyStep, KeysStep
<1>3. Typed <=> TypeOK /\ RequestOK
  BY DEF Typed
<1>4. TypeOK /\ KeysOwned => IdempotentCreate
  <2> SUFFICES ASSUME TypeOK, KeysOwned, NEW x \in answered, NEW y \in answered, x.key = y.key
               PROVE  x = y
    BY DEF IdempotentCreate
  <2>1. /\ x \in [key : Keys, user : Users, booking : Bookings]
        /\ y \in [key : Keys, user : Users, booking : Bookings]
    BY DEF TypeOK
  <2>2. x.booking = y.booking /\ x.user = y.user
    BY <2>1, BookingAssumption DEF KeysOwned
  <2>3. QED
    BY <2>1, <2>2
<1>5. QED
  BY <1>1, <1>2, <1>3, <1>4, TypeCorrect, PTL DEF Spec

\* The whole inductive invariant, the part of it the runs check on their small tables.
THEOREM InductiveHolds == Spec => []Inductive
<1> DEFINE Strong == Typed /\ SlotsApart /\ Completion /\ Paths /\ KeysOwned
<1>1. Init => Completion /\ Paths /\ KeysOwned
  BY DEF Init, Completion, CompletesSawCheckIn, CompletionNeedsCheckIn, Idle, NoBooking,
         Paths, PathsTracked, LifecyclePath, Exists, Target, KeysOwned
<1>2. Typed /\ Typed' /\ Completion /\ Paths /\ KeysOwned /\ [Next]_bookingVars
        => Completion' /\ Paths' /\ KeysOwned'
  BY Views, CompletionStep, PathsStep, KeyStep, KeysStep DEF Typed
<1>3. Typed <=> TypeOK /\ RequestOK
  BY DEF Typed
<1>4. Strong => Inductive
  BY DEF Inductive, Completion, Paths, Typed
<1>5. QED
  BY <1>1, <1>2, <1>3, <1>4, TypeCorrect, ConstraintKept, PTL DEF Spec
-----------------------------------------------------------------------------
\* Only a refund moves a payment out of CAPTURED: cancel, the one request that writes
\* payments, passes the captured ones over in its transaction, whatever it read before.
LEMMA CapturedStep ==
  ASSUME Typed, [Next]_bookingVars, NEW p \in Payments, payment[p].status = "CAPTURED"
  PROVE  payment'[p].status \in {"CAPTURED", "REFUNDED"}
<1> USE DEF Typed
<1>1. payment[p].status # "NONE" /\ payment[p] # NoPayment
  BY DEF NoPayment
<1>2. CASE UNCHANGED payment
  BY <1>2
<1>3. ASSUME NEW r \in Requests, CommitCancel(r)
      PROVE  payment'[p].status \in {"CAPTURED", "REFUNDED"}
  BY <1>3 DEF CommitCancel, CancelPayments
<1>4. ASSUME NEW q \in Payments, NEW b \in Bookings, PaymentOpened(q, b)
      PROVE  payment'[p].status \in {"CAPTURED", "REFUNDED"}
  BY <1>4, <1>1 DEF PaymentOpened, TypeOK
<1>5. ASSUME NEW q \in Payments, PaymentCaptured(q)
      PROVE  payment'[p].status \in {"CAPTURED", "REFUNDED"}
  BY <1>5 DEF PaymentCaptured, Capture, TypeOK
<1>6. ASSUME NEW q \in Payments, PaymentRefunded(q)
      PROVE  payment'[p].status \in {"CAPTURED", "REFUNDED"}
  <2>1. CASE p = q
    <3>1. payment[p] \in PaymentRow
      BY <1>1, PaymentRowExists
    <3>2. QED
      BY <1>6, <2>1, <3>1 DEF PaymentRefunded, TypeOK, PaymentRow
  <2>2. CASE p # q
    BY <1>6, <2>2 DEF PaymentRefunded, TypeOK
  <2>3. QED
    BY <2>1, <2>2
<1>7. ASSUME NEW r \in Requests, RequestStep(r)
      PROVE  UNCHANGED payment
  BY <1>7 DEF RequestStep, ReadCreate, ReadStatusOp, ReadCancel, ReadReschedule, Accepted
<1>8. ASSUME NEW r \in Requests, ServerStep(r)
      PROVE  CommitCancel(r) \/ UNCHANGED payment
  BY <1>8 DEF ServerStep, ReplayCreate, CommitCreate, CommitStatusOp, CommitCheckIn,
              CommitReschedule, FailRequest
<1>9. ASSUME NEW f \in Facilities, SetFacilityActive(f)
      PROVE  UNCHANGED payment
  BY <1>9 DEF SetFacilityActive
<1>10. CASE UNCHANGED bookingVars
  BY <1>10, <1>2 DEF bookingVars
<1>11. QED
  BY <1>2, <1>3, <1>4, <1>5, <1>6, <1>7, <1>8, <1>9, <1>10
     DEF Next, BookingStep, PaymentStep

\* A cancel that races with a capture never writes the captured money off.
THEOREM CapturedMoneyHolds == Spec => CapturedMoneyKept
<1>1. Typed /\ [Next]_bookingVars =>
        \A p \in Payments : payment[p].status = "CAPTURED"
          => payment'[p].status \in {"CAPTURED", "REFUNDED"}
  BY CapturedStep
<1>2. Typed <=> TypeOK /\ RequestOK
  BY DEF Typed
<1>3. QED
  BY <1>1, <1>2, TypeCorrect, PTL DEF Spec, CapturedMoneyKept

-----------------------------------------------------------------------------
\* Payments.

\* What a call in flight names: an order its booking, every other call its payment
\* and, while it has one to record, its event.
Named(k) ==
  /\ k.step = "order" => k.booking \in Bookings /\ Exists(k.booking) /\ k.order \in Order
  /\ k.step \in Step \ {"order"} => k.payment \in Payments /\ payment[k.payment].status # "NONE"
  /\ k.step \in {"capture", "refunded", "record", "recordAndAnnounce"} => k.event \in WebhookEvent

CallNames == \A c \in Calls : Named(call[c])

\* A payment belongs to a booking that exists.
PaymentNames ==
  \A p \in Payments : payment[p].status # "NONE" => Exists(payment[p].booking)

PaymentsTyped == PaymentsTypeOK /\ RequestOK /\ CallNames /\ PaymentNames

\* The inductive invariant: types, names, and PaidIsConfirmed, without which a second
\* capture of a captured payment would be no stutter of Booking.
Confirmed == PaymentsTyped /\ PaidIsConfirmed

LEMMA PaymentsTypedIsTyped == PaymentsTyped => Typed
  BY DEF PaymentsTyped, PaymentsTypeOK, Typed

-----------------------------------------------------------------------------
\* What a step of Booking does to payments and to the bookings they belong to.

\* Nothing disappears, and payments stay with their booking.
Kept ==
  /\ \A b \in Bookings : Exists(b) => Exists(b)'
  /\ \A p \in Payments : payment[p].status # "NONE" =>
       payment'[p].status # "NONE" /\ payment'[p].booking = payment[p].booking

LEMMA NextTyped == ASSUME Typed, [Next]_bookingVars PROVE Typed'
  BY BookingStepTyped, PaymentStepTyped, StutterTyped DEF Next

LEMMA BookingsKept ==
  ASSUME Typed, [Next]_bookingVars, NEW b \in Bookings, Exists(b)
  PROVE  Exists(b)'
<1>1. CASE UNCHANGED <<booking, visited>>
  BY <1>1 DEF Exists
<1>2. ASSUME NEW d \in Bookings, NEW row \in BookingRow, WriteBooking(d, row)
      PROVE  Exists(b)'
  BY <1>2, WriteTyped DEF Typed
<1>3. QED
  BY <1>1, <1>2, OneRowWritten

\* The steps that write payments: an order, a capture, a refund, a cancel.
LEMMA PaymentsWritten ==
  ASSUME Typed, [Next]_bookingVars, NEW p \in Payments
  PROVE  \/ payment'[p] = payment[p]
         \/ /\ payment[p] = NoPayment
            /\ \E b \in Bookings : Exists(b) /\ payment'[p] = [booking |-> b, status |-> "INITIATED"]
         \/ /\ payment[p].status # "NONE"
            /\ payment'[p] = [payment[p] EXCEPT !.status = "CAPTURED"]
            /\ PaymentCaptured(p)
         \/ /\ payment[p].status # "NONE"
            /\ payment'[p] = [payment[p] EXCEPT !.status = "REFUNDED"]
         \/ /\ payment[p].status # "NONE"
            /\ payment'[p] = [payment[p] EXCEPT !.status = "CANCELLED"]
<1> USE DEF Typed
<1>1. CASE UNCHANGED payment
  BY <1>1
<1>2. ASSUME NEW r \in Requests, CommitCancel(r)
      PROVE  payment'[p] = payment[p] \/ ( /\ payment[p].status # "NONE"
                                           /\ payment'[p] = [payment[p] EXCEPT !.status = "CANCELLED"] )
  <2>1. req[r].booking \in Bookings
    BY <1>2, RequestNames DEF CommitCancel, Op
  <2>2. payment' = CancelPayments(req[r].booking)
    BY <1>2 DEF CommitCancel
  <2>3. CASE payment[p].booking = req[r].booking
    <3>1. payment[p] # NoPayment
      BY <2>1, <2>3, BookingAssumption DEF NoPayment
    <3>2. payment[p].status # "NONE"
      BY <3>1 DEF TypeOK, PaymentRow, PaymentStatus
    <3>3. QED
      BY <2>2, <3>2 DEF CancelPayments
  <2>4. CASE payment[p].booking # req[r].booking
    BY <2>2, <2>4 DEF CancelPayments
  <2>5. QED
    BY <2>3, <2>4
<1>3. ASSUME NEW q \in Payments, NEW b \in Bookings, PaymentOpened(q, b)
      PROVE  \/ payment'[p] = payment[p]
             \/ /\ payment[p] = NoPayment
                /\ \E d \in Bookings : Exists(d) /\ payment'[p] = [booking |-> d, status |-> "INITIATED"]
  BY <1>3 DEF PaymentOpened, TypeOK
<1>4. ASSUME NEW q \in Payments, PaymentCaptured(q)
      PROVE  \/ payment'[p] = payment[p]
             \/ /\ payment[p].status # "NONE"
                /\ payment'[p] = [payment[p] EXCEPT !.status = "CAPTURED"]
                /\ PaymentCaptured(p)
  <2>1. CASE p = q
    BY <1>4, <2>1 DEF PaymentCaptured, Capture, TypeOK
  <2>2. CASE p # q
    BY <1>4, <2>2 DEF PaymentCaptured, Capture, TypeOK
  <2>3. QED
    BY <2>1, <2>2
<1>5. ASSUME NEW q \in Payments, PaymentRefunded(q)
      PROVE  \/ payment'[p] = payment[p]
             \/ /\ payment[p].status # "NONE"
                /\ payment'[p] = [payment[p] EXCEPT !.status = "REFUNDED"]
  BY <1>5 DEF PaymentRefunded, TypeOK
<1>6. ASSUME NEW r \in Requests, RequestStep(r)
      PROVE  UNCHANGED payment
  BY <1>6 DEF RequestStep, ReadCreate, ReadStatusOp, ReadCancel, ReadReschedule, Accepted
<1>7. ASSUME NEW r \in Requests, ServerStep(r)
      PROVE  CommitCancel(r) \/ UNCHANGED payment
  BY <1>7 DEF ServerStep, ReplayCreate, CommitCreate, CommitStatusOp, CommitCheckIn,
              CommitReschedule, FailRequest
<1>8. ASSUME NEW f \in Facilities, SetFacilityActive(f)
      PROVE  UNCHANGED payment
  BY <1>8 DEF SetFacilityActive
<1>9. CASE BookingStep
  BY <1>1, <1>2, <1>6, <1>7, <1>8, <1>9 DEF BookingStep
<1>10. CASE PaymentStep
  BY <1>3, <1>4, <1>5, <1>10 DEF PaymentStep
<1>11. CASE UNCHANGED bookingVars
  BY <1>1, <1>11 DEF bookingVars
<1>12. QED
  BY <1>9, <1>10, <1>11 DEF Next

LEMMA StepKeeps == ASSUME Typed, [Next]_bookingVars PROVE Kept
<1>1. \A b \in Bookings : Exists(b) => Exists(b)'
  BY BookingsKept
<1>2. ASSUME NEW p \in Payments, payment[p].status # "NONE"
      PROVE  payment'[p].status # "NONE" /\ payment'[p].booking = payment[p].booking
  <2>1. payment[p] \in PaymentRow /\ payment[p] # NoPayment
    BY <1>2, PaymentRowExists DEF Typed, NoPayment
  <2>2. QED
    BY <1>2, <2>1, PaymentsWritten DEF PaymentRow
<1>3. QED
  BY <1>1, <1>2 DEF Kept

\* No step brings a booking back to PENDING.
LEMMA NeverPendingAgain ==
  ASSUME Typed, [Next]_bookingVars, NEW b \in Bookings, Exists(b), booking[b].status # "PENDING"
  PROVE  booking'[b].status # "PENDING"
<1>1. booking'[b] = booking[b] \/ StatusWritten(b)
  BY Views DEF StatusView
<1>2. \A op \in DOMAIN Target : Target[op] # "PENDING"
  BY DEF Target
<1>3. QED
  BY <1>1, <1>2 DEF StatusWritten

\* A capture leaves its booking in a status other than PENDING.
LEMMA CaptureConfirms ==
  ASSUME Typed, NEW p \in Payments, PaymentCaptured(p)
  PROVE  booking'[payment[p].booking].status # "PENDING"
<1> DEFINE b == payment[p].booking
<1>1. b \in Bookings
  BY PaymentRowExists DEF PaymentCaptured, Typed
<1>2. CASE booking[b].status = "PENDING"
  <2>1. Exists(b) /\ "CONFIRMED" \in Status /\ WriteBooking(b, SetStatus(b, "CONFIRMED"))
    BY <1>2 DEF PaymentCaptured, Capture, Exists, Status
  <2>2. SetStatus(b, "CONFIRMED") \in BookingRow /\ SetStatus(b, "CONFIRMED").status = "CONFIRMED"
    BY <1>1, <2>1, StatusRow DEF Typed
  <2>3. booking'[b] = SetStatus(b, "CONFIRMED")
    BY <1>1, <2>1, <2>2, WriteTyped DEF Typed
  <2>4. QED
    BY <2>2, <2>3
<1>3. CASE booking[b].status # "PENDING"
  BY <1>3 DEF PaymentCaptured, Capture
<1>4. QED
  BY <1>2, <1>3

\* Each step of Booking keeps payments with existing bookings, and paid bookings out
\* of PENDING.
LEMMA BookingPaid ==
  ASSUME Typed, PaymentNames, PaidIsConfirmed, [Next]_bookingVars
  PROVE  PaymentNames' /\ PaidIsConfirmed'
<1>1. Kept
  BY StepKeeps
<1>2. ASSUME NEW p \in Payments, payment'[p].status # "NONE"
      PROVE  booking'[payment'[p].booking].status # "NONE"
  <2>1. CASE payment[p].status # "NONE"
    <3>1. payment'[p].booking = payment[p].booking /\ payment[p].booking \in Bookings
      BY <1>1, <2>1, PaymentRowExists DEF Kept, Typed
    <3>2. Exists(payment[p].booking)
      BY <2>1 DEF PaymentNames
    <3>3. booking'[payment[p].booking].status # "NONE"
      BY <1>1, <3>1, <3>2 DEF Kept, Exists
    <3>4. QED
      BY <3>1, <3>3
  <2>2. CASE payment[p].status = "NONE"
    <3>1. PICK b \in Bookings : Exists(b) /\ payment'[p] = [booking |-> b, status |-> "INITIATED"]
      BY <1>2, <2>2, PaymentsWritten
    <3>2. booking'[b].status # "NONE"
      BY <1>1, <3>1 DEF Kept, Exists
    <3>3. QED
      BY <3>1, <3>2
  <2>3. QED
    BY <2>1, <2>2
<1>3. ASSUME NEW p \in Payments, payment'[p].status = "CAPTURED"
      PROVE  booking'[payment'[p].booking].status # "PENDING"
  <2>1. CASE payment'[p] = payment[p]
    <3>1. payment[p].status = "CAPTURED" /\ payment[p].status # "NONE"
      BY <1>3, <2>1
    <3>2. payment[p].booking \in Bookings
      BY <3>1, PaymentRowExists DEF Typed
    <3>3. Exists(payment[p].booking) /\ booking[payment[p].booking].status # "PENDING"
      BY <3>1 DEF PaymentNames, PaidIsConfirmed
    <3>4. QED
      BY <2>1, <3>2, <3>3, NeverPendingAgain
  <2>2. CASE payment[p].status # "NONE" /\ PaymentCaptured(p)
    BY <1>1, <2>2, CaptureConfirms DEF Kept
  <2>3. ASSUME payment[p].status # "NONE",
               NEW s \in {"REFUNDED", "CANCELLED"}, payment'[p] = [payment[p] EXCEPT !.status = s]
        PROVE  FALSE
    <3>1. payment[p] \in PaymentRow
      BY <2>3, PaymentRowExists DEF Typed
    <3>2. QED
      BY <1>3, <2>3, <3>1 DEF PaymentRow
  <2>4. \A d \in Bookings : payment'[p] # [booking |-> d, status |-> "INITIATED"]
    BY <1>3
  <2>5. QED
    BY <1>3, <2>1, <2>2, <2>3, <2>4, PaymentsWritten
<1>4. PaymentNames'
  BY <1>2 DEF PaymentNames, Exists
<1>5. PaidIsConfirmed'
  BY <1>3 DEF PaidIsConfirmed
<1>6. QED
  BY <1>4, <1>5
-----------------------------------------------------------------------------
\* Calls: each step of a call writes one record, and that record names what exists.

Tables ==
  /\ order \in [Payments -> Order \cup {NoOrder}]
  /\ paid \subseteq Payments
  /\ asked \in [Payments -> Nat]
  /\ recorded \subseteq WebhookEvent
  /\ announced \subseteq Payments

\* What every step of call c amounts to.
CallView(c) ==
  /\ [Next]_bookingVars
  /\ Tables'
  /\ \E k \in Call \cup {Free} : Named(k) /\ call' = [call EXCEPT ![c] = k]

LEMMA CallWritten ==
  ASSUME PaymentsTyped, Kept, NEW c \in Calls, NEW k \in Call \cup {Free}, Named(k),
         call' = [call EXCEPT ![c] = k]
  PROVE  call' \in [Calls -> Call \cup {Free}] /\ CallNames'
<1>1. call \in [Calls -> Call \cup {Free}]
  BY DEF PaymentsTyped, PaymentsTypeOK
<1>2. SUFFICES ASSUME NEW d \in Calls PROVE Named(call[d])'
  BY <1>1 DEF CallNames
<1>3. CASE d = c
  BY <1>1, <1>3 DEF Named, Kept, Exists
<1>4. CASE d # c
  BY <1>1, <1>4 DEF Named, Kept, Exists, PaymentsTyped, CallNames
<1>5. QED
  BY <1>3, <1>4

\* The records calls start with.
LEMMA Records ==
  /\ Free.step = "free"
  /\ \A s \in Step \ {"order"}, p \in Payments :
       OnPayment(s, p) \in Call /\ OnPayment(s, p).step = s /\ OnPayment(s, p).payment = p
  /\ \A s \in Step \ {"order"}, e \in WebhookEvent :
       /\ OnEvent(s, e) \in Call
       /\ OnEvent(s, e).step = s /\ OnEvent(s, e).payment = e.payment /\ OnEvent(s, e).event = e
<1>1. NoOrder \in Order \cup {NoOrder} /\ "NONE" \in PaymentStatus \cup {"NONE"}
  OBVIOUS
<1>2. QED
  BY <1>1 DEF Free, OnPayment, OnEvent, Call, WebhookEvent

LEMMA FreeNamed == Named(Free)
  BY DEF Named, Free, Step

LEMMA OnPaymentNamed ==
  ASSUME NEW s \in Step \ {"order", "capture", "refunded", "record", "recordAndAnnounce"},
         NEW p \in Payments, payment[p].status # "NONE"
  PROVE  OnPayment(s, p) \in Call \cup {Free} /\ Named(OnPayment(s, p))
  BY Records DEF Named

\* A call that moves to its next step, with the payment and event it had.
LEMMA ThenNamed ==
  ASSUME PaymentsTyped, NEW c \in Calls, NEW s \in Step \ {"order"}, call[c].step \in Step \ {"order"},
         s \in {"capture", "refunded", "record", "recordAndAnnounce"} => call[c].event \in WebhookEvent,
         Then(c, s)
  PROVE  \E k \in Call \cup {Free} : Named(k) /\ call' = [call EXCEPT ![c] = k]
<1> DEFINE k == [call[c] EXCEPT !.step = s]
<1>1. call[c] \in Call /\ Named(call[c])
  BY DEF PaymentsTyped, PaymentsTypeOK, CallNames, Free, Step
<1>2. k \in Call /\ k.step = s /\ k.payment = call[c].payment /\ k.event = call[c].event
  BY <1>1 DEF Call
<1>3. Named(k)
  BY <1>1, <1>2 DEF Named
<1>4. call' = [call EXCEPT ![c] = k]
  BY DEF Then
<1>5. QED
  BY <1>2, <1>3, <1>4

LEMMA EndNamed ==
  ASSUME NEW c \in Calls, End(c)
  PROVE  \E k \in Call \cup {Free} : Named(k) /\ call' = [call EXCEPT ![c] = k]
  BY FreeNamed DEF End

\* A capture is a capture of Booking, or a stutter when the payment is CAPTURED already:
\* its booking is out of PENDING then.
LEMMA CaptureImplements ==
  ASSUME Confirmed, NEW p \in Payments, payment[p].status # "NONE", Capture(p),
         UNCHANGED <<checkIn, facilityActive, req, answered>>
  PROVE  [Next]_bookingVars
<1>1. CASE payment[p].status = "CAPTURED"
  <2>1. payment \in [Payments -> PaymentRow \cup {NoPayment}]
    BY DEF Confirmed, PaymentsTyped, PaymentsTypeOK, TypeOK
  <2>2. payment[p] \in PaymentRow
    BY <2>1 DEF NoPayment
  <2>3. [payment[p] EXCEPT !.status = "CAPTURED"] = payment[p]
    BY <1>1, <2>2 DEF PaymentRow
  <2>4. payment' = [payment EXCEPT ![p] = payment[p]]
    BY <2>3 DEF Capture
  <2>5. payment' = payment
    BY <2>1, <2>4
  <2>6. booking[payment[p].booking].status # "PENDING"
    BY <1>1 DEF Confirmed, PaidIsConfirmed
  <2>7. UNCHANGED <<booking, visited>>
    BY <2>6 DEF Capture
  <2>8. QED
    BY <2>5, <2>7 DEF bookingVars
<1>2. CASE payment[p].status # "CAPTURED"
  BY <1>2 DEF PaymentCaptured, PaymentStep, Next
<1>3. QED
  BY <1>1, <1>2

\* What the record of a call in flight gives its step.
LEMMA CallHas ==
  ASSUME PaymentsTyped, NEW c \in Calls
  PROVE  /\ call[c].step \in Step \ {"order"} =>
              call[c].payment \in Payments /\ payment[call[c].payment].status # "NONE"
         /\ call[c].step \in {"capture", "refunded", "record", "recordAndAnnounce"} =>
              call[c].event \in WebhookEvent
         /\ call[c].step = "order" =>
              call[c].booking \in Bookings /\ Exists(call[c].booking) /\ call[c].order \in Order
  BY DEF PaymentsTyped, CallNames, Named

\* The first steps: nothing is written but the record of the call.
LEMMA BeginView ==
  ASSUME PaymentsTyped, NEW c \in Calls, NEW k \in Call \cup {Free}, Named(k), Begin(c, k),
         UNCHANGED <<bookingVars, order, paid, asked, recorded, announced>>
  PROVE  CallView(c)
<1>1. call' = [call EXCEPT ![c] = k]
  BY DEF Begin
<1>2. Tables'
  BY DEF PaymentsTyped, PaymentsTypeOK, Tables
<1>3. QED
  BY <1>1, <1>2 DEF CallView

LEMMA OrderView ==
  ASSUME Confirmed, NEW c \in Calls, OrderStep(c)
  PROVE  CallView(c)
<1> USE DEF Confirmed
<1>1. ASSUME NEW b \in Bookings, NEW provider \in Providers, NEW k \in Keys \cup {None},
             ReadOrder(c, b, provider, k)
      PROVE  CallView(c)
  <2> DEFINE o == [provider |-> provider, amount |-> Price[booking[b].slot], key |-> k]
             new == [Free EXCEPT !.step = "order", !.booking = b, !.order = o]
  <2>1. Exists(b) /\ Begin(c, new) /\ UNCHANGED <<bookingVars, order, paid, asked, recorded, announced>>
    BY <1>1 DEF ReadOrder
  <2>2. booking[b].slot \in Slots
    BY <2>1, RowExists DEF PaymentsTyped, PaymentsTypeOK, BookingRow
  <2>3. o \in Order
    BY <2>2, BookingAssumption DEF Order
  <2>4. new \in Call /\ new.step = "order" /\ new.booking = b /\ new.order = o
    BY <2>3 DEF Free, Call, Step
  <2>5. Named(new)
    BY <2>1, <2>3, <2>4 DEF Named
  <2>6. QED
    BY <2>1, <2>4, <2>5, BeginView
<1>2. ASSUME NEW p \in Payments, CommitOrder(c, p)
      PROVE  CallView(c)
  <2>1. call[c].booking \in Bookings /\ call[c].order \in Order
    BY <1>2, CallHas DEF CommitOrder
  <2>2. [Next]_bookingVars
    BY <1>2, <2>1 DEF CommitOrder, Next, PaymentStep
  <2>3. Tables'
    BY <1>2, <2>1 DEF CommitOrder, Tables, PaymentsTyped, PaymentsTypeOK
  <2>4. QED
    BY <1>2, <2>2, <2>3, EndNamed DEF CommitOrder, CallView
<1>3. QED
  BY <1>1, <1>2 DEF OrderStep

\* A step that captures the payment of its call, and keeps the rest.
LEMMA CaptureView ==
  ASSUME Confirmed, NEW c \in Calls, call[c].step \in Step \ {"order"},
         \/ Capture(call[c].payment)
         \/ UNCHANGED <<payment, booking, visited>>,
         UNCHANGED <<others, announced>>
  PROVE  [Next]_bookingVars /\ Tables'
<1>1. call[c].payment \in Payments /\ payment[call[c].payment].status # "NONE"
  BY CallHas DEF Confirmed
<1>2. Tables'
  BY DEF others, Tables, Confirmed, PaymentsTyped, PaymentsTypeOK
<1>3. CASE Capture(call[c].payment)
  BY <1>1, <1>2, <1>3, CaptureImplements DEF others
<1>4. CASE UNCHANGED <<payment, booking, visited>>
  BY <1>2, <1>4 DEF others, bookingVars
<1>5. QED
  BY <1>3, <1>4

LEMMA CaptureStepView ==
  ASSUME Confirmed, NEW c \in Calls, CaptureStep(c)
  PROVE  CallView(c)
<1> USE DEF Confirmed
<1>1. ASSUME NEW p \in Payments, ReadVerify(c, p) \/ ReadReconcile(c, p)
      PROVE  CallView(c)
  BY <1>1, OnPaymentNamed, BeginView DEF ReadVerify, ReadReconcile, Step
<1>2. CASE CommitVerify(c)
  <2>1. call[c].step \in Step \ {"order"} /\ UNCHANGED <<others, announced>>
    BY <1>2 DEF CommitVerify, Step
  <2>2. CASE End(c) /\ UNCHANGED <<payment, booking, visited>>
    BY <2>1, <2>2, EndNamed, CaptureView DEF CallView
  <2>3. CASE Capture(call[c].payment) /\ Then(c, "announce")
    BY <2>1, <2>3, ThenNamed, CaptureView DEF CallView, Step
  <2>4. QED
    BY <1>2, <2>2, <2>3 DEF CommitVerify
<1>3. CASE CommitReconcile(c)
  <2>1. call[c].step \in Step \ {"order"} /\ UNCHANGED <<others, announced>>
    BY <1>3 DEF CommitReconcile, Step
  <2>2. QED
    BY <1>3, <2>1, EndNamed, CaptureView DEF CommitReconcile, CallView
<1>4. CASE Announce(c)
  <2>1. call[c].payment \in Payments
    BY <1>4, CallHas DEF Announce, Step
  <2>2. Tables'
    BY <1>4, <2>1 DEF Announce, Tables, PaymentsTyped, PaymentsTypeOK
  <2>3. QED
    BY <1>4, <2>2, EndNamed DEF Announce, CallView
<1>5. QED
  BY <1>1, <1>2, <1>3, <1>4 DEF CaptureStep

\* A refund the provider made is a refund of Booking.
LEMMA RefundImplements ==
  ASSUME PaymentsTyped, NEW p \in Payments, payment[p].status # "NONE",
         payment' = [payment EXCEPT ![p].status = "REFUNDED"],
         UNCHANGED <<booking, visited, checkIn, facilityActive, req, answered>>
  PROVE  [Next]_bookingVars
<1>1. CASE payment[p].status = "REFUNDED"
  <2>1. payment \in [Payments -> PaymentRow \cup {NoPayment}]
    BY DEF PaymentsTyped, PaymentsTypeOK, TypeOK
  <2>2. payment[p] \in PaymentRow
    BY <2>1 DEF NoPayment
  <2>3. [payment[p] EXCEPT !.status = "REFUNDED"] = payment[p]
    BY <1>1, <2>2 DEF PaymentRow
  <2>4. payment' = [payment EXCEPT ![p] = payment[p]]
    BY <2>3
  <2>5. payment' = payment
    BY <2>1, <2>4
  <2>6. QED
    BY <2>5 DEF bookingVars
<1>2. CASE payment[p].status # "REFUNDED"
  BY <1>2 DEF PaymentRefunded, PaymentStep, Next
<1>3. QED
  BY <1>1, <1>2

LEMMA WebhookView ==
  ASSUME Confirmed, NEW c \in Calls, WebhookStep(c)
  PROVE  CallView(c)
<1> USE DEF Confirmed
<1>1. ASSUME NEW e \in WebhookEvent, ReadWebhook(c, e)
      PROVE  CallView(c)
  <2>1. PICK s \in {"record", "capture", "refunded"} : Begin(c, OnEvent(s, e))
    BY <1>1 DEF ReadWebhook
  <2>2. e.payment \in Payments /\ payment[e.payment].status # "NONE"
    BY <1>1 DEF ReadWebhook, WebhookEvent
  <2>3. OnEvent(s, e) \in Call /\ Named(OnEvent(s, e))
    BY <2>2, Records DEF Named, Step
  <2>4. QED
    BY <1>1, <2>1, <2>3, BeginView DEF ReadWebhook
<1>2. CASE CommitWebhookCapture(c)
  <2>1. /\ call[c].step \in Step \ {"order"} /\ call[c].event \in WebhookEvent
        /\ Then(c, "recordAndAnnounce")
        /\ UNCHANGED <<others, announced>>
    BY <1>2, CallHas DEF CommitWebhookCapture, Step
  <2>2. [Next]_bookingVars /\ Tables'
    BY <1>2, <2>1, CaptureView DEF CommitWebhookCapture
  <2>3. QED
    BY <2>1, <2>2, ThenNamed DEF CallView, Step
<1>3. CASE CommitWebhookRefund(c)
  <2> DEFINE p == call[c].payment
  <2>1. /\ call[c].step \in Step \ {"order"} /\ call[c].event \in WebhookEvent
        /\ p \in Payments /\ payment[p].status # "NONE"
        /\ UNCHANGED <<booking, visited, others, announced>>
    BY <1>3, CallHas DEF CommitWebhookRefund, Step
  <2>2. Tables'
    BY <2>1 DEF others, Tables, PaymentsTyped, PaymentsTypeOK
  <2>3. CASE End(c) /\ UNCHANGED payment
    BY <2>1, <2>2, <2>3, EndNamed DEF CallView, others, bookingVars
  <2>4. CASE payment' = [payment EXCEPT ![p].status = "REFUNDED"] /\ Then(c, "record")
    <3>1. [Next]_bookingVars
      BY <2>1, <2>4, RefundImplements DEF others
    <3>2. QED
      BY <2>1, <2>2, <2>4, <3>1, ThenNamed DEF CallView, Step
  <2>5. QED
    BY <1>3, <2>3, <2>4 DEF CommitWebhookRefund
<1>4. CASE RecordEvent(c)
  <2>1. call[c].step \in Step \ {"order"} /\ call[c].event \in WebhookEvent
    BY <1>4, CallHas DEF RecordEvent, Step
  <2>2. [Next]_bookingVars /\ Tables'
    BY <1>4, <2>1 DEF RecordEvent, Tables, PaymentsTyped, PaymentsTypeOK
  <2>3. End(c) \/ Then(c, "announce")
    BY <1>4 DEF RecordEvent
  <2>4. QED
    BY <2>1, <2>2, <2>3, EndNamed, ThenNamed DEF CallView, Step
<1>5. QED
  BY <1>1, <1>2, <1>3, <1>4 DEF WebhookStep

LEMMA RefundView ==
  ASSUME Confirmed, NEW c \in Calls, RefundStep(c)
  PROVE  CallView(c)
<1> USE DEF Confirmed
<1> DEFINE p == call[c].payment
<1>1. ASSUME NEW q \in Payments, ReadRefund(c, q)
      PROVE  CallView(c)
  BY <1>1, OnPaymentNamed, BeginView DEF ReadRefund, Step
<1>2. CASE AskRefund(c)
  <2> DEFINE k == [call[c] EXCEPT !.step = "refundAsked", !.saw = payment[p].status]
  <2>1. p \in Payments /\ payment[p].status # "NONE"
    BY <1>2, CallHas DEF AskRefund, Step
  <2>2. call[c] \in Call
    BY <1>2 DEF AskRefund, PaymentsTyped, PaymentsTypeOK, Free
  <2>3. payment[p].status \in PaymentStatus
    BY <2>1, PaymentRowExists DEF PaymentsTyped, PaymentsTypeOK, PaymentRow
  <2>4. k \in Call /\ k.step = "refundAsked" /\ k.payment = p
    BY <2>2, <2>3 DEF Call, Step
  <2>5. Named(k)
    BY <2>1, <2>4 DEF Named
  <2>6. call' = [call EXCEPT ![c] = k]
    BY <1>2 DEF AskRefund
  <2>7. [Next]_bookingVars /\ Tables'
    BY <1>2, <2>1 DEF AskRefund, Tables, PaymentsTyped, PaymentsTypeOK
  <2>8. QED
    BY <2>4, <2>5, <2>6, <2>7 DEF CallView
<1>3. CASE CommitRefund(c)
  <2>1. p \in Payments /\ payment[p].status # "NONE"
    BY <1>3, CallHas DEF CommitRefund, Step
  <2>2. [Next]_bookingVars
    BY <1>3, <2>1, RefundImplements DEF CommitRefund, others
  <2>3. Tables'
    BY <1>3 DEF CommitRefund, others, Tables, PaymentsTyped, PaymentsTypeOK
  <2>4. QED
    BY <1>3, <2>2, <2>3, EndNamed DEF CommitRefund, CallView
<1>4. QED
  BY <1>1, <1>2, <1>3 DEF RefundStep

LEMMA FailView ==
  ASSUME Confirmed, NEW c \in Calls, FailCall(c)
  PROVE  CallView(c)
<1>1. Tables'
  BY DEF FailCall, Tables, Confirmed, PaymentsTyped, PaymentsTypeOK
<1>2. QED
  BY <1>1, EndNamed DEF FailCall, CallView
-----------------------------------------------------------------------------
\* The composition: every step is a step of Booking, and keeps the invariant.

LEMMA StepImplements ==
  ASSUME Confirmed, [PaymentsNext]_vars
  PROVE  /\ [Next]_bookingVars
         /\ Tables'
         /\ \/ UNCHANGED call
            \/ \E c \in Calls, k \in Call \cup {Free} :
                 Named(k) /\ call' = [call EXCEPT ![c] = k]
<1> DEFINE Goal == /\ [Next]_bookingVars
                   /\ Tables'
                   /\ \/ UNCHANGED call
                      \/ \E c \in Calls, k \in Call \cup {Free} :
                           Named(k) /\ call' = [call EXCEPT ![c] = k]
<1>1. ASSUME NEW c \in Calls, CallView(c) PROVE Goal
  BY <1>1 DEF CallView
<1>2. CASE ServiceStep
  BY <1>1, <1>2, OrderView, CaptureStepView, WebhookView, RefundView, FailView DEF ServiceStep
<1>3. ASSUME NEW p \in Payments, CustomerPays(p) \/ ProviderRefunds(p) PROVE Goal
  BY <1>3 DEF CustomerPays, ProviderRefunds, Tables, Confirmed, PaymentsTyped, PaymentsTypeOK
<1>4. CASE UNCHANGED ownVars
  <2>1. Tables' /\ UNCHANGED call
    BY <1>4 DEF ownVars, Tables, Confirmed, PaymentsTyped, PaymentsTypeOK
  <2>2. CASE BookingStep
    BY <2>1, <2>2 DEF Next
  <2>3. CASE UNCHANGED bookingVars
    BY <2>1, <2>3
  <2>4. QED
    BY <1>2, <1>3, <1>4, <2>2, <2>3 DEF PaymentsNext, ExternalStep, vars
<1>5. CASE UNCHANGED vars
  BY <1>4, <1>5 DEF vars
<1>6. QED
  BY <1>2, <1>3, <1>4, <1>5 DEF PaymentsNext, ExternalStep

LEMMA ConfirmedStep ==
  ASSUME Confirmed, [PaymentsNext]_vars
  PROVE  Confirmed'
<1>1. [Next]_bookingVars /\ Tables'
  BY StepImplements
<1>2. Typed /\ PaymentNames /\ PaidIsConfirmed
  BY PaymentsTypedIsTyped DEF Confirmed, PaymentsTyped
<1>3. Typed' /\ Kept /\ PaymentNames' /\ PaidIsConfirmed'
  BY <1>1, <1>2, NextTyped, StepKeeps, BookingPaid
<1>4. call' \in [Calls -> Call \cup {Free}] /\ CallNames'
  <2>1. CASE UNCHANGED call
    BY <1>3, <2>1 DEF Confirmed, PaymentsTyped, PaymentsTypeOK, CallNames, Named, Kept, Exists
  <2>2. CASE \E c \in Calls, k \in Call \cup {Free} : Named(k) /\ call' = [call EXCEPT ![c] = k]
    BY <1>3, <2>2, CallWritten DEF Confirmed
  <2>3. QED
    BY <2>1, <2>2, StepImplements
<1>5. QED
  BY <1>1, <1>3, <1>4 DEF Confirmed, PaymentsTyped, PaymentsTypeOK, Tables, Typed

LEMMA ConfirmedInit == PaymentsInit => Confirmed
<1> SUFFICES ASSUME PaymentsInit PROVE Confirmed
  OBVIOUS
<1>1. Typed
  BY InitTyped DEF PaymentsInit
<1>2. Tables /\ call \in [Calls -> Call \cup {Free}]
  BY DEF PaymentsInit, Tables
<1>3. CallNames
  BY FreeNamed DEF PaymentsInit, CallNames
<1>4. PaymentNames /\ PaidIsConfirmed
  BY DEF PaymentsInit, Init, NoPayment, PaymentNames, PaidIsConfirmed
<1>5. QED
  BY <1>1, <1>2, <1>3, <1>4 DEF Confirmed, PaymentsTyped, PaymentsTypeOK, Tables, Typed

\* However orders, verifications, webhooks, reconciliations and refunds interleave, types
\* are kept and what a call in flight names exists.
THEOREM PaymentsTypeCorrect == PaymentsSpec => []PaymentsTypeOK
<1>1. Confirmed /\ [PaymentsNext]_vars => Confirmed'
  BY ConfirmedStep
<1>2. Confirmed => PaymentsTypeOK
  BY DEF Confirmed, PaymentsTyped
<1>3. QED
  BY <1>1, <1>2, ConfirmedInit, PTL DEF PaymentsSpec

\* A booking whose payment is CAPTURED is out of PENDING, whichever of the client, the
\* webhook and reconciliation captured it and whatever raced with it.
THEOREM PaidIsConfirmedHolds == PaymentsSpec => []PaidIsConfirmed
<1>1. Confirmed /\ [PaymentsNext]_vars => Confirmed'
  BY ConfirmedStep
<1>2. Confirmed => PaidIsConfirmed
  BY DEF Confirmed
<1>3. QED
  BY <1>1, <1>2, ConfirmedInit, PTL DEF PaymentsSpec

\* PaymentsService does to bookings and payments nothing but what module Booking lets
\* its environment do: every step of a call is one of its steps or a stutter.
THEOREM BookingImplemented == PaymentsSpec => ImplementsBooking
<1>1. Confirmed /\ [PaymentsNext]_vars => Confirmed'
  BY ConfirmedStep
<1>2. Confirmed /\ [PaymentsNext]_vars => [Next]_bookingVars
  BY StepImplements
<1>3. PaymentsInit => Init
  BY DEF PaymentsInit
<1>4. QED
  BY <1>1, <1>2, <1>3, ConfirmedInit, PTL DEF PaymentsSpec, ImplementsBooking, Spec

\* What is proved of Booking holds with payments: no double booking, for one.
COROLLARY PaidBookingsApart == PaymentsSpec => []NoDoubleBooking
  BY BookingImplemented, NoDoubleBookingHolds, PTL DEF ImplementsBooking
-----------------------------------------------------------------------------
\* Money: a call that will write CAPTURED has seen the order paid, and one that will
\* write REFUNDED comes after a refund.

CallMoney ==
  \A c \in Calls :
    /\ call[c].step \in {"verify", "capture", "reconcile"} => call[c].payment \in paid
    /\ call[c].step \in {"refunded", "refundAsked"} => asked[call[c].payment] > 0

Money == CallMoney /\ MoneyBehindStatus

LEMMA BookingStepPayments ==
  ASSUME Typed, BookingStep, NEW p \in Payments
  PROVE  payment'[p].status \in {payment[p].status, "CANCELLED"}
<1>1. ASSUME NEW r \in Requests, RequestStep(r) PROVE UNCHANGED payment
  BY <1>1 DEF RequestStep, ReadCreate, ReadStatusOp, ReadCancel, ReadReschedule, Accepted
<1>2. ASSUME NEW r \in Requests, CommitCancel(r)
      PROVE  payment'[p].status \in {payment[p].status, "CANCELLED"}
  <2>1. payment' = CancelPayments(req[r].booking)
    BY <1>2 DEF CommitCancel
  <2>2. payment[p] \in PaymentRow \cup {NoPayment}
    BY DEF Typed, TypeOK
  <2>3. QED
    BY <2>1, <2>2 DEF CancelPayments, PaymentRow, NoPayment
<1>3. ASSUME NEW r \in Requests, ServerStep(r) PROVE CommitCancel(r) \/ UNCHANGED payment
  BY <1>3 DEF ServerStep, ReplayCreate, CommitCreate, CommitStatusOp, CommitCheckIn,
              CommitReschedule, FailRequest
<1>4. ASSUME NEW f \in Facilities, SetFacilityActive(f) PROVE UNCHANGED payment
  BY <1>4 DEF SetFacilityActive
<1>5. QED
  BY <1>1, <1>2, <1>3, <1>4 DEF BookingStep

\* A write of one payment's status, CAPTURED with money behind it or REFUNDED with a
\* refund, while paid and asked only grow.
LEMMA StatusMoney ==
  ASSUME PaymentsTyped, MoneyBehindStatus, NEW p \in Payments, NEW s \in {"CAPTURED", "REFUNDED"},
         payment' = [payment EXCEPT ![p].status = s],
         s = "CAPTURED" => p \in paid, s = "REFUNDED" => asked[p] > 0,
         UNCHANGED <<paid, asked>>
  PROVE  MoneyBehindStatus'
<1>1. payment \in [Payments -> PaymentRow \cup {NoPayment}]
  BY DEF PaymentsTyped, PaymentsTypeOK, TypeOK
<1>2. ASSUME NEW q \in Payments
      PROVE  /\ payment'[q].status = "CAPTURED" => q \in paid
             /\ payment'[q].status = "REFUNDED" => asked[q] > 0
  <2>1. CASE q = p
    <3>1. payment'[q] = [payment[q] EXCEPT !.status = s]
      BY <1>1, <2>1
    <3>2. payment'[q].status = s
      BY <1>1, <3>1 DEF PaymentRow, NoPayment
    <3>3. QED
      BY <2>1, <3>2
  <2>2. CASE q # p
    BY <1>1, <2>2 DEF MoneyBehindStatus
  <2>3. QED
    BY <2>1, <2>2
<1>3. QED
  BY <1>2 DEF MoneyBehindStatus

LEMMA CallMoneyKept ==
  ASSUME PaymentsTyped, CallMoney, NEW c \in Calls, NEW k \in Call \cup {Free},
         call' = [call EXCEPT ![c] = k],
         k.step \in {"verify", "capture", "reconcile"} => k.payment \in paid',
         k.step \in {"refunded", "refundAsked"} => asked'[k.payment] > 0,
         paid \subseteq paid', \A p \in Payments : asked[p] > 0 => asked'[p] > 0
  PROVE  CallMoney'
<1>1. SUFFICES ASSUME NEW d \in Calls
      PROVE  /\ call'[d].step \in {"verify", "capture", "reconcile"} => call'[d].payment \in paid'
             /\ call'[d].step \in {"refunded", "refundAsked"} => asked'[call'[d].payment] > 0
  BY DEF CallMoney
<1>2. call \in [Calls -> Call \cup {Free}]
  BY DEF PaymentsTyped, PaymentsTypeOK
<1>3. CASE d = c
  BY <1>2, <1>3
<1>4. CASE d # c
  BY <1>2, <1>4, CallHas DEF CallMoney, Step
<1>5. QED
  BY <1>3, <1>4

\* The calls that end, or go on to a step that writes no status.
LEMMA HarmlessMoney ==
  ASSUME PaymentsTyped, CallMoney, NEW c \in Calls, UNCHANGED <<paid, asked>>,
         End(c) \/ \E s \in {"announce", "record", "recordAndAnnounce"} : Then(c, s)
  PROVE  CallMoney'
<1>1. CASE End(c)
  BY <1>1, CallMoneyKept DEF End, Free
<1>2. ASSUME NEW s \in {"announce", "record", "recordAndAnnounce"}, Then(c, s)
      PROVE  CallMoney'
  <2>1. SUFFICES ASSUME NEW d \in Calls
        PROVE  /\ call'[d].step \in {"verify", "capture", "reconcile"} => call'[d].payment \in paid
               /\ call'[d].step \in {"refunded", "refundAsked"} => asked[call'[d].payment] > 0
    BY DEF CallMoney
  <2>2. call \in [Calls -> Call \cup {Free}]
    BY DEF PaymentsTyped, PaymentsTypeOK
  <2>3. CASE d = c
    <3>1. call'[d].step = s
      BY <1>2, <2>2, <2>3 DEF Then, Call, Free
    <3>2. QED
      BY <3>1
  <2>4. CASE d # c
    BY <1>2, <2>2, <2>4 DEF Then, CallMoney
  <2>5. QED
    BY <2>3, <2>4
<1>3. QED
  BY <1>1, <1>2

\* A capture by a call that saw the order paid.
LEMMA CaptureMoney ==
  ASSUME PaymentsTyped, Money, NEW c \in Calls, call[c].step \in {"verify", "capture", "reconcile"},
         UNCHANGED <<paid, asked>>,
         Capture(call[c].payment) \/ UNCHANGED payment
  PROVE  MoneyBehindStatus'
<1>1. call[c].payment \in Payments /\ call[c].payment \in paid
  BY CallHas DEF Money, CallMoney, Step
<1>2. CASE Capture(call[c].payment)
  BY <1>1, <1>2, StatusMoney DEF Money, Capture
<1>3. CASE UNCHANGED payment
  BY <1>3 DEF Money, MoneyBehindStatus
<1>4. QED
  BY <1>2, <1>3

LEMMA ServiceMoney ==
  ASSUME PaymentsTyped, Money, NEW c \in Calls,
         OrderStep(c) \/ CaptureStep(c) \/ WebhookStep(c) \/ RefundStep(c) \/ FailCall(c)
  PROVE  Money'
<1> USE DEF Money
<1> DEFINE p == call[c].payment
\* A first step writes no status; its record has what it saw.
<1>1. ASSUME NEW k \in Call \cup {Free}, Begin(c, k), UNCHANGED <<payment, paid, asked>>,
             k.step \in {"verify", "capture", "reconcile"} => k.payment \in paid,
             k.step \in {"refunded", "refundAsked"} => asked[k.payment] > 0
      PROVE  Money'
  BY <1>1, CallMoneyKept DEF Begin, MoneyBehindStatus
<1>2. ASSUME NEW b \in Bookings, NEW provider \in Providers, NEW k \in Keys \cup {None},
             ReadOrder(c, b, provider, k)
      PROVE  Money'
  <2> DEFINE o == [provider |-> provider, amount |-> Price[booking[b].slot], key |-> k]
             new == [Free EXCEPT !.step = "order", !.booking = b, !.order = o]
  <2>1. booking[b].slot \in Slots
    BY <1>2, RowExists DEF ReadOrder, PaymentsTyped, PaymentsTypeOK, BookingRow
  <2>2. new \in Call /\ new.step = "order"
    BY <2>1, BookingAssumption DEF Free, Call, Order, Step
  <2>3. Begin(c, new) /\ UNCHANGED <<payment, paid, asked>>
    BY <1>2 DEF ReadOrder, bookingVars
  <2>4. QED
    BY <1>1, <2>2, <2>3
<1>3. ASSUME NEW q \in Payments, CommitOrder(c, q)
      PROVE  Money'
  <2>1. CallMoney'
    BY <1>3, HarmlessMoney DEF CommitOrder
  <2>2. payment' = [payment EXCEPT ![q] = [booking |-> call[c].booking, status |-> "INITIATED"]]
    BY <1>3 DEF CommitOrder, PaymentOpened
  <2>3. MoneyBehindStatus'
    BY <1>3, <2>2 DEF CommitOrder, MoneyBehindStatus, PaymentsTyped, PaymentsTypeOK, TypeOK
  <2>4. QED
    BY <2>1, <2>3
<1>4. ASSUME NEW q \in Payments, ReadVerify(c, q) \/ ReadReconcile(c, q) \/ ReadRefund(c, q)
      PROVE  Money'
  BY <1>1, <1>4, Records DEF ReadVerify, ReadReconcile, ReadRefund, Step, bookingVars
<1>5. CASE CommitVerify(c) \/ CommitReconcile(c) \/ CommitWebhookCapture(c)
  BY <1>5, HarmlessMoney, CaptureMoney DEF CommitVerify, CommitReconcile, CommitWebhookCapture, others
<1>6. CASE Announce(c) \/ RecordEvent(c) \/ FailCall(c)
  <2>1. UNCHANGED <<payment, paid, asked>>
    BY <1>6 DEF Announce, RecordEvent, FailCall, bookingVars
  <2>2. CallMoney'
    BY <1>6, <2>1, HarmlessMoney DEF Announce, RecordEvent, FailCall
  <2>3. QED
    BY <2>1, <2>2 DEF MoneyBehindStatus
<1>7. ASSUME NEW e \in WebhookEvent, ReadWebhook(c, e)
      PROVE  Money'
  <2>1. PICK s \in {"record", "capture", "refunded"} :
          /\ Begin(c, OnEvent(s, e))
          /\ s = "capture" => e.about = "captured"
          /\ s = "refunded" => e.about = "refunded"
    BY <1>7 DEF ReadWebhook, WebhookEvent
  <2>2. /\ s = "capture" => e.payment \in paid
        /\ s = "refunded" => asked[e.payment] > 0
        /\ UNCHANGED <<payment, paid, asked>>
    BY <1>7, <2>1 DEF ReadWebhook, bookingVars
  <2>3. OnEvent(s, e) \in Call /\ OnEvent(s, e).step = s /\ OnEvent(s, e).payment = e.payment
    BY Records DEF Step
  <2>4. QED
    BY <1>1, <2>1, <2>2, <2>3
<1>8. CASE CommitWebhookRefund(c)
  <2>1. p \in Payments /\ asked[p] > 0 /\ UNCHANGED <<paid, asked>>
    BY <1>8, CallHas DEF CommitWebhookRefund, CallMoney, Step, others
  <2>2. CallMoney'
    BY <1>8, <2>1, HarmlessMoney DEF CommitWebhookRefund
  <2>3. UNCHANGED payment \/ payment' = [payment EXCEPT ![p].status = "REFUNDED"]
    BY <1>8 DEF CommitWebhookRefund
  <2>4. QED
    BY <2>1, <2>2, <2>3, StatusMoney DEF MoneyBehindStatus
<1>9. CASE AskRefund(c)
  <2> DEFINE k == [call[c] EXCEPT !.step = "refundAsked", !.saw = payment[p].status]
  <2>1. p \in Payments /\ UNCHANGED <<payment, paid>> /\ asked' = [asked EXCEPT ![p] = @ + 1]
    BY <1>9, CallHas DEF AskRefund, Step, bookingVars
  <2>2. asked'[p] > 0 /\ \A q \in Payments : asked[q] > 0 => asked'[q] > 0
    BY <2>1 DEF PaymentsTyped, PaymentsTypeOK
  <2>3. call[c] \in Call /\ payment[p].status \in PaymentStatus \cup {"NONE"}
    BY <1>9, <2>1 DEF AskRefund, PaymentsTyped, PaymentsTypeOK, Free, TypeOK, PaymentRow, NoPayment
  <2>4. k \in Call /\ k.step = "refundAsked" /\ k.payment = p /\ call' = [call EXCEPT ![c] = k]
    BY <1>9, <2>3 DEF AskRefund, Call, Step
  <2>5. CallMoney'
    BY <2>1, <2>2, <2>4, CallMoneyKept
  <2>6. QED
    BY <2>1, <2>2, <2>5 DEF MoneyBehindStatus
<1>10. CASE CommitRefund(c)
  <2>1. p \in Payments /\ asked[p] > 0 /\ UNCHANGED <<paid, asked>>
    BY <1>10, CallHas DEF CommitRefund, CallMoney, Step, others
  <2>2. CallMoney'
    BY <1>10, <2>1, HarmlessMoney DEF CommitRefund
  <2>3. QED
    BY <1>10, <2>1, <2>2, StatusMoney DEF CommitRefund
<1>11. QED
  BY <1>2, <1>3, <1>4, <1>5, <1>6, <1>7, <1>8, <1>9, <1>10
     DEF OrderStep, CaptureStep, WebhookStep, RefundStep

LEMMA MoneyStep ==
  ASSUME PaymentsTyped, Money, [PaymentsNext]_vars
  PROVE  Money'
<1> USE DEF Money
<1>1. CASE ServiceStep
  BY <1>1, ServiceMoney DEF ServiceStep
<1>2. ASSUME NEW p \in Payments, CustomerPays(p) \/ ProviderRefunds(p)
      PROVE  Money'
  <2>1. UNCHANGED <<payment, call>>
    BY <1>2 DEF CustomerPays, ProviderRefunds, bookingVars
  <2>2. paid \subseteq paid' /\ \A q \in Payments : asked[q] > 0 => asked'[q] > 0
    BY <1>2 DEF CustomerPays, ProviderRefunds, PaymentsTyped, PaymentsTypeOK
  <2>3. CallMoney'
    BY <2>1, <2>2, CallHas DEF CallMoney, Step
  <2>4. MoneyBehindStatus'
    BY <2>1, <2>2 DEF MoneyBehindStatus
  <2>5. QED
    BY <2>3, <2>4
<1>3. CASE BookingStep /\ UNCHANGED ownVars
  <2>1. \A p \in Payments : payment'[p].status \in {payment[p].status, "CANCELLED"}
    BY <1>3, PaymentsTypedIsTyped, BookingStepPayments
  <2>2. QED
    BY <1>3, <2>1 DEF ownVars, CallMoney, MoneyBehindStatus
<1>4. CASE UNCHANGED vars
  BY <1>4 DEF vars, bookingVars, ownVars, CallMoney, MoneyBehindStatus
<1>5. QED
  BY <1>1, <1>2, <1>3, <1>4 DEF PaymentsNext, ExternalStep

\* No payment is CAPTURED that the customer did not pay and none REFUNDED without a
\* refund, though the transactions that write these statuses trust what was read before.
THEOREM MoneyHolds == PaymentsSpec => []MoneyBehindStatus
<1>1. Confirmed /\ [PaymentsNext]_vars => Confirmed'
  BY ConfirmedStep
<1>2. Confirmed /\ Money /\ [PaymentsNext]_vars => Money'
  BY MoneyStep DEF Confirmed
<1>3. PaymentsInit => Money
  BY DEF PaymentsInit, Init, NoPayment, Money, CallMoney, MoneyBehindStatus, Free
<1>4. Money => MoneyBehindStatus
  BY DEF Money
<1>5. QED
  BY <1>1, <1>2, <1>3, <1>4, ConfirmedInit, PTL DEF PaymentsSpec
=============================================================================
