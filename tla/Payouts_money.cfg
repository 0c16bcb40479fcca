\* Two calls in flight, one payout, two settlements, one payment and its refund.
CONSTANTS
  None = None
  Payments = {p1}
  Gross <- McGross
  HalfUp = {}
  Rates = {}
  PayoutIds = {q1}
  SettlementIds = {s1, s2}
  Calls = {c1, c2}
  Amounts = {80}
  Reviews = {"APPROVED", "REJECTED"}
  MaxRows = 3
  MaxResolutions = 2
SPECIFICATION PayoutsSpec
SYMMETRY McSymmetry
INVARIANTS
  PayoutsTypeOK
  PaidOutAfterApproval
  ProcessingIsReserved
  LinkedWasCounted
\* Nothing need be left to settle or to pay out.
CHECK_DEADLOCK FALSE
