\* Two racing saves of the hours, up to two blocks and two bookings; a day of thirteen
\* hours, so that hours have one digit or two.
CONSTANTS
  Day = 13
  MaxRows = 2
  Saves = {s1, s2}
  Windows <- McWindows
  Periods <- McPeriods
  MaxTaken = 2
SPECIFICATION ScheduleSpec
SYMMETRY McSymmetry
INVARIANTS
  FreeTimeExact
  FreePeriodsApart
  OrderDoesNotMatter
