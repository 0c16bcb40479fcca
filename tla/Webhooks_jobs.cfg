\* An event's first job and a retry of it in two workers, two attempts each.
CONSTANTS
  None = None
  Payments = {p1}
  Gross <- McGross
  HalfUp <- McHalfUp
  Rates = {}
  Events = {e1}
  Notices <- McNotices
  Workers = {w1, w2}
  Listeners = {}
  Attempts = 2
  MaxRetries = 1
  MaxCrashes = 0
SPECIFICATION FairSpec
\* Everything may have been processed.
CHECK_DEADLOCK FALSE
INVARIANTS
  NothingLeftProcessing
PROPERTIES
  JobsEnd
