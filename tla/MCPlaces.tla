------------------------------ MODULE MCPlaces ------------------------------
(* A small instance of Places for TLC. *)
EXTENDS Places, TLC

McFacilitiesOf == [v \in Venues |-> Facilities]

McQueries ==
  {[places |-> {"near"}, category |-> "all"], [places |-> {"near", "far"}, category |-> "courts"]}

\* One day and the next, cut evenly and not.
McBookable == {Interval(0, 4), Interval(1, 6), Interval(3, 8), Interval(1, 8)}

Rule(opens, closes, from, to, priority, price) ==
  [facility |-> CHOOSE f \in Facilities : TRUE, days |-> {}, opens |-> opens, closes |-> closes,
   from |-> from, to |-> to, priority |-> priority, price |-> price]

McSeedRules == {Rule(0, 4, -9, 99, 0, 1)}

\* All day; overnight, dearer; the first day only, in the middle of it, before the others;
\* the second day of the week, as good as the one before.
McRules ==
  {Rule(0, 4, -9, 99, 0, 1), Rule(3, 1, -9, 99, 1, 2), Rule(0, 4, 1, 3, 2, 5),
   [Rule(1, 3, 2, 99, 2, 3) EXCEPT !.days = {1}]}
=============================================================================
