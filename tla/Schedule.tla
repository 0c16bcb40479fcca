------------------------------ MODULE Schedule ------------------------------
(***************************************************************************)
(* The tables the availability of one facility is computed from, and the   *)
(* requests that write them: operating hours (venues.service), blocks      *)
(* (facilities.service) and the active bookings, whose slots the booking   *)
(* engine keeps apart (module Booking).  Hours are those of one day of the *)
(* week, in whole hours, and only the rows that are not marked closed;     *)
(* blocks and bookings carry hours counted from the start of that day.     *)
(* No request writes a recurring block: CreateBlockDto has no such field,  *)
(* so that branch of the engine stays empty here.                          *)
(***************************************************************************)
EXTENDS Availability, FiniteSets

CONSTANTS
  Saves,        \* requests that save operating hours (a bound on them)
  Windows,      \* [opens, closes] texts such a request may carry
  Periods,      \* periods a block or a booking may take
  MaxRows,      \* bound on the rows of one save
  MaxTaken      \* bound on the blocks, and on the bookings

\* The text of a whole hour, up to its minutes: "9:" and "09" are both nine.  The
\* format is checked per element nowhere: the body is an array.
Colon == 10     \* it sorts after every digit
Digit == 0 .. 9

HourOf(text) == IF text[2] = Colon THEN text[1] ELSE 10 * text[1] + text[2]

Text == {text \in Digit \X (Digit \cup {Colon}) : HourOf(text) \in TimeOfDay}

\* JavaScript's < on two such texts.
TextBefore(t, u) == t[1] < u[1] \/ (t[1] = u[1] /\ t[2] < u[2])

ASSUME ScheduleAssumption ==
  /\ \A w \in Windows : w.opens \in Text /\ w.closes \in Text
  /\ \A p \in Periods : p.start \in Int /\ p.end \in Int
  /\ MaxRows \in Nat /\ MaxTaken \in Nat

VARIABLES
  hours,        \* the venue's operating_hours rows, each with the save that wrote it
  saving,       \* the saves: their phase, the rows they saw, the rows they write
  blocks,       \* availability_blocks of the facility
  bookings      \* slots of its PENDING and CONFIRMED bookings

scheduleVars == <<hours, saving, blocks, bookings>>

HoursRow == [save : Saves, opens : Text, closes : Text]

Save == [phase : {"new", "running", "over"}, seen : SUBSET HoursRow, rows : SUBSET HoursRow]

ScheduleInit ==
  /\ hours = {}
  /\ saving = [s \in Saves |-> [phase |-> "new", seen |-> {}, rows |-> {}]]
  /\ blocks = {}
  /\ bookings = {}

\* updateOperatingHours: every row opens before it closes, compared as texts; the
\* transaction, at the default isolation, deletes the rows it sees committed.
BeginSave(s, windows) ==
  /\ saving[s].phase = "new"
  /\ Cardinality(windows) <= MaxRows
  /\ \A w \in windows : TextBefore(w.opens, w.closes)
  /\ saving' = [saving EXCEPT ![s] =
                  [phase |-> "running", seen |-> hours,
                   rows |-> {[save |-> s, opens |-> w.opens, closes |-> w.closes] : w \in windows}]]
  /\ UNCHANGED <<hours, blocks, bookings>>

\* Its rows replace those it saw; rows another save has committed since stay.
CommitSave(s) ==
  /\ saving[s].phase = "running"
  /\ hours' = (hours \ saving[s].seen) \cup saving[s].rows
  /\ saving' = [saving EXCEPT ![s].phase = "over"]
  /\ UNCHANGED <<blocks, bookings>>

CreateBlock(p) ==
  /\ ValidInterval(p)
  /\ Cardinality(blocks) < MaxTaken
  /\ blocks' = blocks \cup {p}
  /\ UNCHANGED <<hours, saving, bookings>>

DeleteBlock(p) ==
  /\ p \in blocks
  /\ blocks' = blocks \ {p}
  /\ UNCHANGED <<hours, saving, bookings>>

\* create: a valid interval that overlaps no active booking, offered or not.
Book(p) ==
  /\ ValidInterval(p)
  /\ Cardinality(bookings) < MaxTaken
  /\ \A q \in bookings : ~ Overlaps(p, q)
  /\ bookings' = bookings \cup {p}
  /\ UNCHANGED <<hours, saving, blocks>>

\* A booking is cancelled, rejected, checked in or moved away.
Unbook(p) ==
  /\ p \in bookings
  /\ bookings' = bookings \ {p}
  /\ UNCHANGED <<hours, saving, blocks>>

ScheduleNext ==
  \/ \E s \in Saves : CommitSave(s) \/ \E windows \in SUBSET Windows : BeginSave(s, windows)
  \/ \E p \in Periods : CreateBlock(p) \/ DeleteBlock(p) \/ Book(p) \/ Unbook(p)

ScheduleSpec == ScheduleInit /\ [][ScheduleNext]_scheduleVars

-----------------------------------------------------------------------------
\* The types of the tables and of the saves.
ScheduleTypeOK ==
  /\ hours \subseteq HoursRow
  /\ saving \in [Saves -> Save]
  /\ blocks \subseteq Periods
  /\ bookings \subseteq Periods

\* What the engine parses a row into.
Parsed(row) == Interval(HourOf(row.opens), HourOf(row.closes))

\* The engine's free periods when the database returns its rows in these orders.
FreeIn(hoursOrder, blocksOrder, bookingsOrder) ==
  FreePeriods([k \in DOMAIN hoursOrder |-> Parsed(hoursOrder[k])], <<>>, blocksOrder, bookingsOrder)

Free == FreeIn(SetToSeq(hours), SetToSeq(blocks), SetToSeq(bookings))

Covers(p, t) == p.start <= t /\ t < p.end

Offered(t) == \E k \in DOMAIN Free : Covers(Free[k], t)

\* The instants a row opens; one that closes no later than it opens runs into the next day.
OpenAt(row, t) == Covers(OnDay(Parsed(row).start, Parsed(row).end), t)

TakenAt(t) == \E p \in blocks \cup bookings : Covers(p, t)

\* On the day asked for, free time is exactly the opening hours without the blocks and
\* the bookings, all of them: periods that began the day before or end the day after
\* are taken into account, whatever overlapping rows the saves have left.
FreeTimeExact ==
  \A t \in TimeOfDay : Offered(t) <=> (\E row \in hours : OpenAt(row, t)) /\ ~ TakenAt(t)

\* No instant is offered twice, although two saves of the hours that race leave
\* rows that overlap or repeat each other.
FreePeriodsApart ==
  \A j, k \in DOMAIN Free : j # k => ~ Overlaps(Free[j], Free[k])

\* None of the queries orders its rows, and the answer does not depend on the order.
OrderDoesNotMatter ==
  \A h \in SetToSeqs(hours), b \in SetToSeqs(blocks), k \in SetToSeqs(bookings) :
    FreeIn(h, b, k) = Free
=============================================================================
