\* A worker and the listener, two events, captures and refunds on other routes, a restart.
CONSTANTS
  None = None
  Payments = {p1}
  Gross <- McGross
  HalfUp <- McHalfUp
  Rates <- McRates
  Events = {e1, e2}
  Notices <- McMoves
  Workers = {w1}
  Listeners = {l1}
  Attempts = 1
  MaxRetries = 0
  MaxCrashes = 1
SPECIFICATION WebhooksSpec
SYMMETRY McSymmetry
\* Everything may have been processed.
CHECK_DEADLOCK FALSE
INVARIANTS
  WebhooksTypeOK
  ReversalKeepsFee
  ProcessedTookEffect
  LostIsReported
  RowsInOrder
PROPERTIES
  ImplementsBooks
