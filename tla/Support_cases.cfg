\* Three calls in flight, one ticket with its dispute, of one booking and its payment.
CONSTANTS
  None = None
  Users = {u1}
  Customer = u1
  Calls = {c1, c2, c3}
  Adjustments <- McAdjustments
  MaxRows = 2
  PaymentIds = {p1}
  Cases = {t1}
  Decisions = {"FULL_REFUND", "GOODWILL_CREDIT"}
  Roles = {"CUSTOMER"}
  Statuses = {"WAITING_FOR_CUSTOMER"}
  GoodwillPoints = {0, 1}
SPECIFICATION DisputesSpec
SYMMETRY McSymmetry
CHECK_DEADLOCK FALSE
INVARIANTS
  
  PointsBounded
