\* Two calls and one bookings request in flight on one payment, an event delivered again and again.
CONSTANTS
  Day = 4
  None = None
  Bookings = {b1}
  Payments = {p1}
  Requests = {r1}
  Users = {u1}
  Keys = {}
  Facilities = {f1}
  Slots <- McOneSlot
  Hours <- McHours
  Blocks <- McBlocks
  Price <- McPrice
  Calls = {c1, c2}
  Providers = {razorpay}
  EventNumbers = {n1}
  MaxAsked = 2
SPECIFICATION FairSpec
INVARIANTS
  PaymentsTypeOK
  PaidIsConfirmed
  MoneyBehindStatus
PROPERTIES
  ImplementsBooking
  PaidIsSettled
