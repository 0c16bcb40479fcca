---------------------------- MODULE SlotCalendar ----------------------------
(***************************************************************************)
(* What the booking engine promises, whatever its requests do: a calendar  *)
(* in which a booking holds one slot of one facility or nothing, and no    *)
(* two bookings hold overlapping slots of the same facility.               *)
(***************************************************************************)
CONSTANTS
  Bookings,
  Holds,                 \* the (facility, slot) pairs a booking can hold
  Collide(_, _),         \* two of them overlap
  Nothing

VARIABLE hold

CalendarInit == hold = [b \in Bookings |-> Nothing]

Compatible(b, h) ==
  \A c \in Bookings \ {b} : hold[c] # Nothing => ~ Collide(h, hold[c])

\* b gets a slot: a new booking, a move, or a cancelled booking brought back.
Take(b, h) ==
  /\ Compatible(b, h)
  /\ hold' = [hold EXCEPT ![b] = h]

Release(b) == hold' = [hold EXCEPT ![b] = Nothing]

CalendarNext ==
  \E b \in Bookings : Release(b) \/ \E h \in Holds : Take(b, h)

CalendarSpec == CalendarInit /\ [][CalendarNext]_hold

\* Whoever holds a slot holds it alone: the promise of the booking engine that
\* overlapping bookings of one facility never exist together.
NoCollision ==
  \A b, c \in Bookings :
    b # c /\ hold[b] # Nothing /\ hold[c] # Nothing => ~ Collide(hold[b], hold[c])
=============================================================================
