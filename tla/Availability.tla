---------------------------- MODULE Availability ----------------------------
(***************************************************************************)
(* AvailabilityService.getAvailability for one facility and one local day. *)
(* Instants are counted from the start of that day, Day of them to a day.  *)
(* The rows are those of the day of week asked for: opening hours and      *)
(* recurring blocks carry times of day, fixed blocks and bookings carry    *)
(* instants.  A slot without a matching pricing rule is left out of the    *)
(* answer by the code; here every slot has a price (see Pricing in README).*)
(***************************************************************************)
EXTENDS Intervals

TimeOfDay == 0 .. Day - 1

\* A period of the day; one that does not end after it starts runs past midnight.
OnDay(open, close) ==
  Interval(open, IF close <= open THEN close + Day ELSE close)

\* The merged opening hours of the day, before anything is subtracted.
OpenPeriods(hours) ==
  Merge([k \in DOMAIN hours |-> OnDay(hours[k].start, hours[k].end)])

\* Mutant: only rows that start on the day.
FetchedIfStarting(rows) == SelectSeq(rows, LAMBDA row : row.start < Day /\ row.start >= 0)

\* The rows the two queries fetch: those that intersect the calendar day.
FetchedForDay(rows) ==
  FlattenSeq([k \in DOMAIN rows |->
                IF rows[k].start < Day /\ rows[k].end > 0 THEN <<rows[k]>> ELSE <<>>])

\* Recurring blocks, then fixed blocks, then the PENDING and CONFIRMED bookings.
Taken(recurring, fixed, bookings) ==
     [k \in DOMAIN recurring |-> OnDay(recurring[k].start, recurring[k].end)]
  \o FetchedForDay(fixed)
  \o FetchedForDay(bookings)

FreePeriods(hours, recurring, fixed, bookings) ==
  SubtractMany(OpenPeriods(hours), Taken(recurring, fixed, bookings))

\* The slots one free period is cut into, from its start, the remainder dropped.
SlotsOf(period, duration) ==
  { Interval(period.start + n * duration, period.start + (n + 1) * duration) :
      n \in 0 .. ((period.end - period.start) \div duration) - 1 }

OfferedSlots(hours, recurring, fixed, bookings, duration) ==
  LET free == FreePeriods(hours, recurring, fixed, bookings)
  IN  UNION { SlotsOf(free[k], duration) : k \in DOMAIN free }
=============================================================================
