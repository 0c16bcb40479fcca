------------------------------- MODULE Pricing -------------------------------
(***************************************************************************)
(* PricingService.calculatePrice.  Instants are counted in units of which  *)
(* Step make a segment (the code's 15 minutes) and Day a day.  A rule      *)
(* carries the days it is for (0 the first day, {} every day), a window of *)
(* times of day, the instants it is in force between, a priority and a     *)
(* price per unit; open ends are instants far away.                        *)
(***************************************************************************)
EXTENDS Intervals

CONSTANT Step      \* units in a segment

ASSUME StepAssumption == Step \in Nat \ {0}

\* Inside the window; one that starts after it ends runs past midnight.
InWindow(rule, t) ==
  LET time == t % Day
  IN  IF rule.opens <= rule.closes
      THEN rule.opens <= time /\ time < rule.closes
      ELSE rule.opens <= time \/ time < rule.closes

InForce(rule, t) == rule.from <= t /\ t <= rule.to

\* Mutant: the dates are left to the query.
AppliesUndated(rule, t) ==
  (rule.days = {} \/ (t \div Day) \in rule.days) /\ InWindow(rule, t)

\* What findBestRule asks of a rule.
Applies(rule, t) ==
  /\ rule.days = {} \/ (t \div Day) \in rule.days
  /\ InWindow(rule, t)
  /\ InForce(rule, t)

\* The query: the rules in force at some time of the interval, the highest priority
\* first, in any order the database likes among equals.
Fetched(rules, i) ==
  {order \in SetToSeqs({r \in rules : r.from <= i.end /\ i.start <= r.to}) :
     \A j, k \in DOMAIN order : j < k => order[j].priority >= order[k].priority}

FindBestRule(order, t) == SelectInSeq(order, LAMBDA rule : Applies(rule, t))

\* When the segments begin: one at the start of the interval, then one after each Step.
Starts(i) == {t \in i.start .. i.end - 1 : \E n \in 0 .. t - i.start : t = i.start + n * Step}

\* No rule for one segment fails the calculation.
Priced(order, i) == \A t \in Starts(i) : FindBestRule(order, t) # 0

\* A segment costs what the first rule says that applies when it begins; the last may be
\* shorter, and after the end there is none.
SegmentPrice(order, i, n) ==
  LET t == i.start + n * Step
      end == IF t + Step > i.end THEN i.end ELSE t + Step
  IN  IF t >= i.end THEN 0 ELSE order[FindBestRule(order, t)].price * (end - t)

\* The sum, segment after segment: there are no more of them than units.
TotalPrice(order, i) ==
  LET total[n \in 0 .. i.end - i.start] ==
        IF n = 0 THEN 0 ELSE total[n - 1] + SegmentPrice(order, i, n - 1)
  IN  total[i.end - i.start]
=============================================================================
