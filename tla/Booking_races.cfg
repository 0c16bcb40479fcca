\* Two bookings of one facility, two requests in flight, no payments.
CONSTANTS
  Day = 4
  None = None
  Bookings = {b1, b2}
  Payments = {}
  Requests = {r1, r2}
  Users = {u1}
  Keys = {}
  Facilities = {f1}
  Slots <- McSlots
  Hours <- McHours
  Blocks <- McBlocks
  Price <- McPrice
SPECIFICATION Spec
SYMMETRY McSymmetry
INVARIANTS
  TypeOK
  NoDoubleBooking
  CompletionNeedsCheckIn
  LifecyclePath
PROPERTIES
  ImplementsCalendar
