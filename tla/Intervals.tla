----------------------------- MODULE Intervals -----------------------------
(***************************************************************************)
(* The TimeInterval class (common/utils/time-interval.util.ts): half-open  *)
(* intervals of instants and the list operations the availability engine   *)
(* is built from.  An instant is an integer; the code uses Luxon instants  *)
(* and only ever compares them.  Lists are sequences, as in the code.      *)
(***************************************************************************)
EXTENDS Integers, Sequences, SequencesExt

CONSTANT Day       \* instants in a day

ASSUME DayAssumption == Day \in Nat \ {0}

Interval(s, e) == [start |-> s, end |-> e]

\* What the constructor accepts: "Start must be before end".
ValidInterval(i) == i.start < i.end

Overlaps(i, j) == i.start < j.end /\ j.start < i.end

\* i minus o: what is left before o, then what is left after it.
Subtract(i, o) ==
  IF ~ Overlaps(i, o)
  THEN <<i>>
  ELSE   (IF i.start < o.start THEN <<Interval(i.start, o.start)>> ELSE <<>>)
      \o (IF i.end > o.end THEN <<Interval(o.end, i.end)>> ELSE <<>>)

SubtractEach(intervals, o) ==
  FlattenSeq([k \in DOMAIN intervals |-> Subtract(intervals[k], o)])

SubtractMany(source, toSubtract) ==
  LET result[n \in 0 .. Len(toSubtract)] ==
        IF n = 0 THEN source ELSE SubtractEach(result[n - 1], toSubtract[n])
  IN  result[Len(toSubtract)]

\* Where an interval comes in a list sorted by start: after those that start no later.
PlaceIn(sorted, next) ==
  CHOOSE n \in 0 .. Len(sorted) :
    /\ \A k \in 1 .. n : sorted[k].start <= next.start
    /\ \A k \in n + 1 .. Len(sorted) : next.start < sorted[k].start

\* The stable sort by start.
SortByStart(intervals) ==
  LET sorted[n \in 0 .. Len(intervals)] ==
        IF n = 0 THEN <<>>
        ELSE InsertAt(sorted[n - 1], PlaceIn(sorted[n - 1], intervals[n]) + 1, intervals[n])
  IN  sorted[Len(intervals)]

\* Extend the last merged interval with the next one, or start a new one.
MergeStep(merged, next) ==
  IF Last(merged).end >= next.start
  THEN [merged EXCEPT ![Len(merged)].end = Max({@, next.end})]
  ELSE Append(merged, next)

MergePass(sorted) ==
  LET merged[n \in 1 .. Len(sorted)] ==
        IF n = 1 THEN <<sorted[1]>> ELSE MergeStep(merged[n - 1], sorted[n])
  IN  merged[Len(sorted)]

\* Mutants: nothing is merged, or the intervals are not sorted first.
MergeNothing(intervals) == intervals

MergeUnsorted(intervals) ==
  IF Len(intervals) <= 1 THEN intervals ELSE MergePass(intervals)

\* Overlapping and adjacent intervals are joined.
Merge(intervals) ==
  IF Len(intervals) <= 1 THEN intervals ELSE MergePass(SortByStart(intervals))
=============================================================================
