\* Two customers, one idempotency key, creates and their repetitions in flight.
CONSTANTS
  Day = 4
  None = None
  Bookings = {b1, b2}
  Payments = {p1}
  Requests = {r1, r2}
  Users = {u1, u2}
  Keys = {k1}
  Facilities = {f1}
  Slots <- McOneSlot
  Hours <- McHours
  Blocks <- McBlocks
  Price <- McPrice
SPECIFICATION Spec
SYMMETRY McSymmetryKeys
INVARIANTS
  IdempotentCreate
  Inductive
PROPERTIES
  CapturedMoneyKept
