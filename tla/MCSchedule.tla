----------------------------- MODULE MCSchedule -----------------------------
(* Small instances of Schedule for TLC. *)
EXTENDS Schedule, TLC

\* Two windows that overlap and one that touches the first, then "10" to "9:", which
\* sorts before it and runs past midnight, and "12" to "09", which is refused.
McWindows ==
  { [opens |-> <<0, 9>>, closes |-> <<1, 1>>],
    [opens |-> <<1, 0>>, closes |-> <<1, 2>>],
    [opens |-> <<1, 1>>, closes |-> <<1, 2>>],
    [opens |-> <<1, 0>>, closes |-> <<9, Colon>>],
    [opens |-> <<1, 2>>, closes |-> <<0, 9>>] }

\* Periods from yesterday evening, inside the day, into tomorrow and of tomorrow; one
\* that is not valid.
McPeriods ==
  {Interval(-2, 10), Interval(9, 12), Interval(12, 15), Interval(14, 16), Interval(2, 2)}

McSymmetry == Permutations(Saves)
=============================================================================
