---------------------------- MODULE PlacesProofs ----------------------------
(***************************************************************************)
(* What an invalidation of the cached searches achieves, for any numbers   *)
(* of venues, writes, queries and searches, and that prices add up, for    *)
(* any rules and periods.  The lemmas on lists and loops are those of      *)
(* ScheduleProofs.                                                         *)
(***************************************************************************)
EXTENDS Places, ScheduleProofs

Writes == 1..MaxWrites

\* A write that has started an invalidation is committed.
Counted ==
  /\ version \in 0..MaxWrites
  /\ invalidation \in [Writes -> [step : {"none", "keys", "del", "done", "lost"}, keys : SUBSET Queries]]
  /\ DOMAIN cache = Queries
  /\ \A w \in Writes : invalidation[w].step # "none" => w <= version

\* What was not found by KEYS was stored after the write.
FoundOrLater ==
  \A w \in Writes : invalidation[w].step = "del" =>
    \A q \in Queries : cache[q] # None => q \in invalidation[w].keys \/ cache[q].stored >= w

\* After DEL only what was stored after the write is left.
LaterStored ==
  \A w \in Writes : invalidation[w].step = "done" =>
    \A q \in Queries : cache[q] # None => cache[q].stored >= w

Reached == Counted /\ FoundOrLater /\ LaterStored

\* A write is the next version, and its invalidation has not begun.
LEMMA WriteReached ==
  ASSUME Reached, NEW b \in BOOLEAN, Write(b)
  PROVE  Reached'
<1>1. version \in Nat /\ version + 1 \in Writes /\ version' = version + 1 /\ cache' = cache
  BY PlacesAssumption DEF Reached, Counted, Write, Writes
<1>2. CASE ~ b
  BY <1>1, <1>2 DEF Write, Reached, Counted, FoundOrLater, LaterStored, Writes
<1>3. CASE b
  <2>1. invalidation' = [invalidation EXCEPT ![version + 1].step = "keys"]
    BY <1>3 DEF Write
  <2>2. \A w \in Writes : invalidation'[w] = invalidation[w] \/
                          (w = version + 1 /\ invalidation'[w].step = "keys")
    BY <1>1, <2>1 DEF Reached, Counted
  <2>3. Counted'
    BY <1>1, <2>1, <2>2 DEF Reached, Counted, Writes
  <2>4. FoundOrLater' /\ LaterStored'
    BY <1>1, <2>2 DEF Reached, FoundOrLater, LaterStored
  <2>5. QED
    BY <2>3, <2>4 DEF Reached
<1>4. QED
  BY <1>2, <1>3

\* An invalidation goes on, and the cache may lose answers.
LEMMA InvalidationReached ==
  ASSUME Reached, NEW w \in Writes, FindKeys(w) \/ DeleteKeys(w) \/ LoseInvalidation(w)
  PROVE  Reached'
<1>1. version' = version /\ \A v \in Writes \ {w} : invalidation'[v] = invalidation[v]
  BY DEF FindKeys, DeleteKeys, LoseInvalidation, Reached, Counted
<1>2. invalidation[w].step # "none"
  BY DEF FindKeys, DeleteKeys, LoseInvalidation
<1>3. CASE FindKeys(w)
  <2>1. invalidation'[w] = IF Matched = {} THEN [step |-> "done", keys |-> {}]
                           ELSE [step |-> "del", keys |-> Matched]
    BY <1>3 DEF FindKeys, Reached, Counted
  <2>2. Counted'
    BY <1>1, <1>2, <1>3, <2>1 DEF FindKeys, Reached, Counted, Matched
  <2>3. \A q \in Queries : cache[q] # None => q \in Matched
    BY DEF Matched
  <2>4. FoundOrLater' /\ LaterStored'
    BY <1>1, <1>3, <2>1, <2>3 DEF FindKeys, Reached, FoundOrLater, LaterStored
  <2>5. QED
    BY <2>2, <2>4 DEF Reached
<1>4. CASE DeleteKeys(w)
  <2>1. /\ invalidation'[w] = [step |-> "done", keys |-> {}]
        /\ invalidation[w].step = "del"
        /\ cache' = [q \in Queries |-> IF q \in invalidation[w].keys THEN None ELSE cache[q]]
    BY <1>4 DEF DeleteKeys, Reached, Counted
  <2>2. Counted'
    BY <1>1, <1>2, <1>4, <2>1 DEF DeleteKeys, Reached, Counted
  <2>3. FoundOrLater' /\ LaterStored'
    BY <1>1, <2>1 DEF Reached, FoundOrLater, LaterStored
  <2>4. QED
    BY <2>2, <2>3 DEF Reached
<1>5. CASE LoseInvalidation(w)
  <2>1. invalidation'[w] = [step |-> "lost", keys |-> {}] /\ cache' = cache
    BY <1>5 DEF LoseInvalidation, Reached, Counted
  <2>2. Counted'
    BY <1>1, <1>2, <1>5, <2>1 DEF LoseInvalidation, Reached, Counted
  <2>3. FoundOrLater' /\ LaterStored'
    BY <1>1, <2>1 DEF Reached, FoundOrLater, LaterStored
  <2>4. QED
    BY <2>2, <2>3 DEF Reached
<1>6. QED
  BY <1>3, <1>4, <1>5

\* An answer is stored at the version of the moment, or goes.
LEMMA CacheReached ==
  ASSUME Reached, UNCHANGED <<version, invalidation>>, DOMAIN cache' = Queries,
         \A q \in Queries : cache'[q] # None =>
           (cache'[q] = cache[q] /\ cache[q] # None) \/ cache'[q].stored = version
  PROVE  Reached'
<1>1. Counted'
  BY DEF Reached, Counted
<1>2. \A w \in Writes : invalidation[w].step # "none" => w <= version
  BY DEF Reached, Counted
<1>3. FoundOrLater'
  BY <1>2 DEF Reached, FoundOrLater
<1>4. LaterStored'
  BY <1>2 DEF Reached, LaterStored
<1>5. QED
  BY <1>1, <1>3, <1>4 DEF Reached

LEMMA InitReached == PlacesInit => Reached
<1> SUFFICES ASSUME PlacesInit PROVE Reached
  OBVIOUS
<1>1. version = 0 /\ invalidation = [w \in Writes |-> NoInvalidation]
      /\ cache = [q \in Queries |-> None]
  BY DEF PlacesInit, Writes
<1>2. QED
  BY <1>1, PlacesAssumption DEF Reached, Counted, FoundOrLater, LaterStored, NoInvalidation

LEMMA NextReached == Reached /\ [PlacesNext]_placesVars => Reached'
<1> SUFFICES ASSUME Reached, [PlacesNext]_placesVars PROVE Reached'
  OBVIOUS
<1>1. DOMAIN cache = Queries
  BY DEF Reached, Counted
<1>2. CASE WriteStep
  <2>1. \E b \in BOOLEAN : Write(b)
    BY <1>2 DEF WriteStep, CreateVenue, UpdateVenue, GeocodeVenueAddress, CreateFacility,
                UpdateFacility, CreatePricingRule, DeletePricingRule
  <2>2. QED
    BY <2>1, WriteReached
<1>3. CASE InvalidationStep
  BY <1>3, InvalidationReached DEF InvalidationStep, Writes
<1>4. ASSUME NEW s \in Searches, SearchStep(s) PROVE Reached'
  <2>1. CASE UNCHANGED <<version, invalidation, cache>>
    BY <1>1, <2>1, CacheReached
  <2>2. CASE StoreAnswer(s)
    <3>1. UNCHANGED <<version, invalidation>> /\ DOMAIN cache' = Queries
      BY <1>1, <2>2 DEF StoreAnswer
    <3>2. \A q \in Queries : cache'[q] = cache[q] \/ cache'[q] = Entry(s)
      BY <1>1, <2>2 DEF StoreAnswer
    <3>3. Entry(s).stored = version
      BY DEF Entry
    <3>4. QED
      BY <3>1, <3>2, <3>3, CacheReached
  <2>3. QED
    BY <1>4, <2>1, <2>2 DEF SearchStep, BeginSearch, FetchAnswer
<1>5. ASSUME NEW q \in Queries, Expire(q) PROVE Reached'
  <2>1. /\ UNCHANGED <<version, invalidation>> /\ DOMAIN cache' = Queries
        /\ \A r \in Queries : cache'[r] = cache[r] \/ cache'[r] = None
    BY <1>1, <1>5 DEF Expire
  <2>2. QED
    BY <2>1, CacheReached
<1>6. CASE UNCHANGED placesVars
  BY <1>1, <1>6, CacheReached DEF placesVars
<1>7. QED
  BY <1>2, <1>3, <1>4, <1>5, <1>6 DEF PlacesNext

\* An invalidation that was carried out leaves no answer that was both read and stored
\* before its write (CacheService.delPattern, getOrSet), however many searches and other
\* writes run beside it.
THEOREM InvalidationReachesHolds == PlacesSpec => []InvalidationReaches
<1>1. Reached => InvalidationReaches
  <2> SUFFICES ASSUME Reached, NEW w \in 1..version, invalidation[w].step = "done",
                      NEW q \in Queries, cache[q] # None
               PROVE  cache[q].stored >= w
    BY DEF InvalidationReaches
  <2>1. w \in Writes
    BY PlacesAssumption DEF Reached, Counted, Writes
  <2>2. QED
    BY <2>1 DEF Reached, LaterStored
<1>2. QED
  BY <1>1, InitReached, NextReached, PTL DEF PlacesSpec

-----------------------------------------------------------------------------
\* The first rule that applies.

\* Some rule of the first n applies; r is the first of them that does.
SomeApplies(order, n, t) == \E k \in 1 .. n : Applies(order[k], t)

FirstToApply(order, n, t, r) ==
  \E k \in 1 .. n : /\ order[k] = r /\ Applies(order[k], t)
                    /\ ~ SomeApplies(order, k - 1, t)

\* findBestRule returns the first, if there is one.
LEMMA BestRule ==
  ASSUME NEW S, NEW order \in Seq(S), NEW t
  PROVE  /\ FindBestRule(order, t) # 0 <=> SomeApplies(order, Len(order), t)
         /\ FindBestRule(order, t) # 0 =>
              FirstToApply(order, Len(order), t, order[FindBestRule(order, t)])
<1> DEFINE found == {k \in 1 .. Len(order) : Applies(order[k], t)}
           P(x) == \A y \in found : x <= y
<1>1. FindBestRule(order, t) = IF found # {} THEN Min(found) ELSE 0
  BY DEF FindBestRule, SelectInSeq
<1>2. found \in SUBSET Nat /\ Len(order) \in Nat
  OBVIOUS
<1>3. SomeApplies(order, Len(order), t) <=> found # {}
  BY DEF SomeApplies
<1>4. CASE found = {}
  BY <1>1, <1>3, <1>4
<1>5. CASE found # {}
  <2>1. Min(found) = CHOOSE x \in found : P(x)
    BY DEF Min
  <2>2. \E x \in found : P(x)
    <3> HIDE DEF found
    <3> QED BY <1>2, <1>5, Least
  <2>3. Min(found) \in found /\ P(Min(found))
    <3> HIDE DEF found, P
    <3> QED BY <2>1, <2>2
  <2> DEFINE k == Min(found)
  <2>4. k \in 1 .. Len(order) /\ Applies(order[k], t) /\ \A y \in found : k <= y
    BY <2>3
  <2> HIDE DEF k
  <2>5. ~ SomeApplies(order, k - 1, t)
    <3> SUFFICES ASSUME NEW j \in 1 .. k - 1, Applies(order[j], t) PROVE FALSE
      BY DEF SomeApplies
    <3>1. j \in found /\ ~ (k <= j)
      BY <2>4
    <3>2. QED
      BY <2>4, <3>1
  <2>6. FirstToApply(order, Len(order), t, order[k])
    BY <2>4, <2>5 DEF FirstToApply
  <2>7. FindBestRule(order, t) = k /\ k # 0
    BY <1>1, <1>5, <2>4 DEF k
  <2>8. QED
    BY <1>3, <1>5, <2>6, <2>7
<1>6. QED
  BY <1>4, <1>5

\* There is only one first.
LEMMA FirstIsOne ==
  ASSUME NEW order, NEW n \in Nat, NEW t, NEW q, NEW r,
         FirstToApply(order, n, t, q), FirstToApply(order, n, t, r)
  PROVE  q = r
<1>1. PICK j \in 1 .. n : order[j] = q /\ Applies(order[j], t) /\ ~ SomeApplies(order, j - 1, t)
  BY DEF FirstToApply
<1>2. PICK k \in 1 .. n : order[k] = r /\ Applies(order[k], t) /\ ~ SomeApplies(order, k - 1, t)
  BY DEF FirstToApply
<1>3. ~ (j < k)
  <2>1. j < k => j \in 1 .. k - 1
    OBVIOUS
  <2>2. QED
    BY <1>1, <1>2, <2>1 DEF SomeApplies
<1>4. ~ (k < j)
  <2>1. k < j => k \in 1 .. j - 1
    OBVIOUS
  <2>2. QED
    BY <1>1, <1>2, <2>1 DEF SomeApplies
<1>5. j = k
  BY <1>3, <1>4
<1>6. QED
  BY <1>1, <1>2, <1>5

\* With one rule more.
LEMMA OneRuleMore ==
  ASSUME NEW order, NEW n \in Nat \ {0}, NEW t
  PROVE  /\ SomeApplies(order, n, t) <=> SomeApplies(order, n - 1, t) \/ Applies(order[n], t)
         /\ \A r : FirstToApply(order, n, t, r) <=>
                    \/ FirstToApply(order, n - 1, t, r)
                    \/ order[n] = r /\ Applies(order[n], t) /\ ~ SomeApplies(order, n - 1, t)
<1>1. 1 .. n = (1 .. n - 1) \cup {n}
  OBVIOUS
<1>2. QED
  BY <1>1 DEF SomeApplies, FirstToApply

\* Rules are compared only up to n.
LEMMA SameRules ==
  ASSUME NEW v, NEW w, NEW n \in Nat, NEW t, \A k \in 1 .. n : v[k] = w[k]
  PROVE  /\ SomeApplies(v, n, t) <=> SomeApplies(w, n, t)
         /\ \A r : FirstToApply(v, n, t, r) <=> FirstToApply(w, n, t, r)
<1>1. \A m \in 0 .. n : SomeApplies(v, m, t) <=> SomeApplies(w, m, t)
  BY DEF SomeApplies
<1>2. \A k \in 1 .. n : k - 1 \in 0 .. n
  OBVIOUS
<1>3. QED
  BY <1>1, <1>2 DEF FirstToApply

\* The rules a part of the interval needs, in the same order, give the same rule at each
\* of its instants: a rule that applies then is in force then.
LEMMA PartKeepsRules ==
  ASSUME NEW S, NEW order \in Seq(S), \A r \in S : r.from \in Int /\ r.to \in Int,
         NEW i, i.start \in Int, i.end \in Int, NEW t \in Int, i.start <= t, t <= i.end
  PROVE  /\ In(order, i) \in Seq(S)
         /\ SomeApplies(In(order, i), Len(In(order, i)), t) <=> SomeApplies(order, Len(order), t)
         /\ \A r : FirstToApply(In(order, i), Len(In(order, i)), t, r) <=>
                     FirstToApply(order, Len(order), t, r)
<1> DEFINE Kept(k) == order[k].from <= i.end /\ i.start <= order[k].to
           ss == [k \in DOMAIN order |-> IF Kept(k) THEN <<order[k]>> ELSE <<>>]
           Upto(n) == {v \in Seq(S) :
                         /\ SomeApplies(v, Len(v), t) <=> SomeApplies(order, n, t)
                         /\ \A r : FirstToApply(v, Len(v), t, r) <=> FirstToApply(order, n, t, r)}
           V == [n \in 1 .. Len(order) |-> Upto(n)]
<1>1. Len(order) \in Nat /\ DOMAIN order = 1 .. Len(order) /\ \A k \in DOMAIN order : order[k] \in S
  OBVIOUS
<1>2. In(order, i) = FlattenSeq(ss)
  BY DEF In
<1>3. /\ DOMAIN ss = 1 .. Len(order) /\ Len(ss) = Len(order)
      /\ \A k \in 1 .. Len(order) : ss[k] = IF Kept(k) THEN <<order[k]>> ELSE <<>>
  BY <1>1
<1>4. \A n \in 1 .. Len(order) : V[n] = Upto(n)
  OBVIOUS
<1>5. \A k \in 1 .. Len(order) : Applies(order[k], t) => Kept(k)
  BY <1>1 DEF Applies, InForce
<1> HIDE DEF ss, V, Kept
<1>6. <<>> \in Seq(S) /\ Len(<<>>) = 0 /\ 1 .. 0 = {}
  OBVIOUS
\* A list that agrees on the first n - 1 rules agrees on the first n with what n adds.
<1>7. ASSUME NEW n \in 1 .. Len(order), NEW v \in Seq(S),
             SomeApplies(v, Len(v), t) <=> SomeApplies(order, n - 1, t),
             \A r : FirstToApply(v, Len(v), t, r) <=> FirstToApply(order, n - 1, t, r)
      PROVE  v \o ss[n] \in Upto(n)
  <2> DEFINE x == order[n]
             w == v \o <<x>>
  <2>1. n \in Nat \ {0} /\ x \in S /\ Len(v) \in Nat
    BY <1>1
  <2>2. /\ SomeApplies(order, n, t) <=> SomeApplies(order, n - 1, t) \/ Applies(x, t)
        /\ \A r : FirstToApply(order, n, t, r) <=>
                    \/ FirstToApply(order, n - 1, t, r)
                    \/ x = r /\ Applies(x, t) /\ ~ SomeApplies(order, n - 1, t)
    BY <2>1, OneRuleMore
  <2>3. ss[n] = IF Kept(n) THEN <<x>> ELSE <<>>
    BY <1>3
  <2>4. Applies(x, t) => Kept(n)
    BY <1>5
  <2> HIDE DEF x
  <2>5. CASE Kept(n)
    <3>1. w \in Seq(S) /\ Len(w) = Len(v) + 1 /\ w[Len(v) + 1] = x /\ \A k \in 1 .. Len(v) : w[k] = v[k]
      BY <2>1
    <3> HIDE DEF w
    <3> DEFINE m == Len(v) + 1
    <3>2. m \in Nat \ {0} /\ m - 1 = Len(v) /\ w[m] = x
      BY <2>1, <3>1
    <3> HIDE DEF m
    <3>3. /\ SomeApplies(w, m, t) <=> SomeApplies(w, m - 1, t) \/ Applies(w[m], t)
          /\ \A r : FirstToApply(w, m, t, r) <=>
                      \/ FirstToApply(w, m - 1, t, r)
                      \/ w[m] = r /\ Applies(w[m], t) /\ ~ SomeApplies(w, m - 1, t)
      BY <3>2, OneRuleMore
    <3>4. /\ SomeApplies(w, Len(v) + 1, t) <=> SomeApplies(w, Len(v), t) \/ Applies(x, t)
          /\ \A r : FirstToApply(w, Len(v) + 1, t, r) <=>
                      \/ FirstToApply(w, Len(v), t, r)
                      \/ x = r /\ Applies(x, t) /\ ~ SomeApplies(w, Len(v), t)
      BY <3>2, <3>3 DEF m
    <3>5. /\ SomeApplies(w, Len(v), t) <=> SomeApplies(v, Len(v), t)
          /\ \A r : FirstToApply(w, Len(v), t, r) <=> FirstToApply(v, Len(v), t, r)
      BY <2>1, <3>1, SameRules
    <3>6. w \in Upto(n)
      BY <1>7, <2>2, <3>1, <3>4, <3>5
    <3>7. v \o ss[n] = w
      BY <2>3, <2>5 DEF w
    <3>8. QED
      BY <3>6, <3>7
  <2>6. CASE ~ Kept(n)
    <3>1. v \o ss[n] = v
      BY <2>3, <2>6
    <3>2. v \in Upto(n)
      BY <1>7, <2>2, <2>4, <2>6
    <3>3. QED
      BY <3>1, <3>2
  <2>7. QED
    BY <2>5, <2>6
<1>8. CASE Len(order) = 0
  <2>1. ss = <<>> /\ FlattenSeq(ss) = <<>>
    BY <1>3, <1>8 DEF FlattenSeq
  <2>2. QED
    BY <1>2, <1>6, <1>8, <2>1 DEF SomeApplies, FirstToApply
<1>9. CASE Len(order) # 0
  <2>1. ss[1] \in V[1]
    <3>1. 1 \in 1 .. Len(order) /\ 1 - 1 = 0
      BY <1>1, <1>9
    <3>2. <<>> \o ss[1] \in Upto(1)
      <4>1. /\ SomeApplies(<<>>, Len(<<>>), t) <=> SomeApplies(order, 1 - 1, t)
            /\ \A r : FirstToApply(<<>>, Len(<<>>), t, r) <=> FirstToApply(order, 1 - 1, t, r)
        BY <1>6, <3>1 DEF SomeApplies, FirstToApply
      <4> HIDE DEF Upto
      <4>2. QED
        BY <1>6, <1>7, <3>1, <4>1
    <3>3. ss[1] \in Seq(S)
      <4> DEFINE x == order[1]
      <4>1. x \in S /\ ss[1] = IF Kept(1) THEN <<x>> ELSE <<>>
        BY <1>1, <1>3, <3>1
      <4> HIDE DEF x
      <4>2. QED
        BY <1>6, <4>1
    <3>4. <<>> \o ss[1] = ss[1]
      BY <3>3
    <3> HIDE DEF Upto
    <3>5. QED
      BY <1>4, <3>1, <3>2, <3>4
  <2>2. ASSUME NEW n \in 2 .. Len(order), NEW v \in V[n - 1] PROVE v \o ss[n] \in V[n]
    <3>1. n \in 1 .. Len(order) /\ n - 1 \in 1 .. Len(order)
      BY <1>1
    <3>2. v \in Upto(n - 1)
      <4> HIDE DEF Upto
      <4> QED BY <1>4, <3>1
    <3>3. v \o ss[n] \in Upto(n)
      <4>1. /\ v \in Seq(S)
            /\ SomeApplies(v, Len(v), t) <=> SomeApplies(order, n - 1, t)
            /\ \A r : FirstToApply(v, Len(v), t, r) <=> FirstToApply(order, n - 1, t, r)
        BY <3>2
      <4> HIDE DEF Upto
      <4>2. QED
        BY <1>7, <3>1, <4>1
    <3> HIDE DEF Upto
    <3>4. QED
      BY <1>4, <3>1, <3>3
  <2>3. FlattenSeq(ss) \in V[Len(ss)]
    <3>1. Len(ss) \in Nat \ {0} /\ \A n \in 2 .. Len(ss) : \A v \in V[n - 1] : v \o ss[n] \in V[n]
      BY <1>1, <1>3, <1>9, <2>2
    <3>2. QED
      BY <2>1, <3>1, FlattenReaches
  <2>4. FlattenSeq(ss) \in Upto(Len(order))
    <3> HIDE DEF Upto
    <3> QED BY <1>1, <1>3, <1>4, <1>9, <2>3
  <2>5. QED
    BY <1>2, <2>4
<1>10. QED
  BY <1>8, <1>9

\* Both answers of findBestRule: the rule is the same, or neither finds one.
LEMMA PartKeepsBest ==
  ASSUME NEW S, NEW order \in Seq(S), \A r \in S : r.from \in Int /\ r.to \in Int,
         NEW i, i.start \in Int, i.end \in Int, NEW t \in Int, i.start <= t, t <= i.end
  PROVE  /\ FindBestRule(In(order, i), t) # 0 <=> FindBestRule(order, t) # 0
         /\ FindBestRule(order, t) # 0 =>
              In(order, i)[FindBestRule(In(order, i), t)] = order[FindBestRule(order, t)]
<1> DEFINE part == In(order, i)
           best == part[FindBestRule(part, t)]
<1>1. /\ part \in Seq(S)
      /\ SomeApplies(part, Len(part), t) <=> SomeApplies(order, Len(order), t)
      /\ \A r : FirstToApply(part, Len(part), t, r) <=> FirstToApply(order, Len(order), t, r)
  BY PartKeepsRules
<1> HIDE DEF part
<1>2. /\ FindBestRule(part, t) # 0 <=> SomeApplies(part, Len(part), t)
      /\ FindBestRule(part, t) # 0 => FirstToApply(part, Len(part), t, best)
  BY <1>1, BestRule
<1>3. /\ FindBestRule(order, t) # 0 <=> SomeApplies(order, Len(order), t)
      /\ FindBestRule(order, t) # 0 => FirstToApply(order, Len(order), t, order[FindBestRule(order, t)])
  BY BestRule
<1>4. FindBestRule(part, t) # 0 <=> FindBestRule(order, t) # 0
  BY <1>1, <1>2, <1>3
<1>5. ASSUME FindBestRule(order, t) # 0 PROVE best = order[FindBestRule(order, t)]
  <2>1. FirstToApply(order, Len(order), t, best)
    BY <1>1, <1>2, <1>4, <1>5
  <2>2. FirstToApply(order, Len(order), t, order[FindBestRule(order, t)])
    BY <1>3, <1>5
  <2>3. Len(order) \in Nat
    OBVIOUS
  <2> HIDE DEF best
  <2>4. QED
    BY <2>1, <2>2, <2>3, FirstIsOne
<1>6. QED
  BY <1>4, <1>5 DEF part

LEMMA BestIsRule ==
  ASSUME NEW S, NEW order \in Seq(S), NEW t, FindBestRule(order, t) # 0
  PROVE  order[FindBestRule(order, t)] \in S
<1>1. FirstToApply(order, Len(order), t, order[FindBestRule(order, t)])
  BY BestRule
<1>2. \A k \in 1 .. Len(order) : order[k] \in S
  OBVIOUS
<1>3. QED
  BY <1>1, <1>2 DEF FirstToApply

-----------------------------------------------------------------------------
\* The segments of an interval and of its two parts.

LEMMA Multiples ==
  ASSUME NEW n \in Nat, NEW k \in Nat
  PROVE  /\ n * Step \in Nat /\ n <= n * Step
         /\ (n + 1) * Step = n * Step + Step
         /\ (n + k) * Step = n * Step + k * Step
         /\ n < k => n * Step + Step <= k * Step
<1>1. Step \in Nat /\ Step >= 1
  BY StepAssumption
<1>2. /\ n * Step \in Nat
      /\ (n + 1) * Step = n * Step + Step
      /\ (n + k) * Step = n * Step + k * Step
  BY <1>1
<1>3. n <= n * Step
  <2>1. n * (Step - 1) \in Nat /\ n * Step = n * (Step - 1) + n
    BY <1>1
  <2>2. QED
    BY <2>1
<1>4. ASSUME n < k PROVE n * Step + Step <= k * Step
  <2>1. PICK d \in Nat : k = n + 1 + d
    <3>1. k - (n + 1) \in Nat /\ k = n + 1 + (k - (n + 1))
      BY <1>4
    <3>2. QED
      BY <3>1
  <2>2. d * Step \in Nat /\ k * Step = n * Step + Step + d * Step
    BY <1>1, <2>1
  <2>3. \A a, b \in Nat : a <= a + b
    OBVIOUS
  <2>4. n * Step + Step \in Nat
    BY <1>1, <1>2
  <2>5. QED
    BY <2>2, <2>3, <2>4
<1>5. QED
  BY <1>2, <1>3, <1>4

LEMMA StartsAre ==
  ASSUME NEW i, i.start \in Int, i.end \in Int
  PROVE  \A t : t \in Starts(i) <=> \E n \in Nat : t = i.start + n * Step /\ t < i.end
<1>1. ASSUME NEW t, NEW n \in Nat, t = i.start + n * Step, t < i.end PROVE t \in Starts(i)
  <2>1. n * Step \in Nat /\ n <= n * Step
    BY Multiples
  <2>2. t \in i.start .. i.end - 1 /\ n \in 0 .. t - i.start
    BY <1>1, <2>1
  <2>3. QED
    BY <1>1, <2>2 DEF Starts
<1>2. ASSUME NEW t \in Starts(i) PROVE \E n \in Nat : t = i.start + n * Step /\ t < i.end
  <2>1. t \in i.start .. i.end - 1 /\ \E n \in 0 .. t - i.start : t = i.start + n * Step
    BY DEF Starts
  <2>2. QED
    BY <2>1
<1>3. QED
  BY <1>1, <1>2

\* The segments of the whole are those of its parts, when it is cut between segments.
LEMMA StartsOfParts ==
  ASSUME NEW s \in Int, NEW e \in Int, NEW m \in Nat, s + m * Step < e
  PROVE  LET cut == s + m * Step
         IN  /\ \A t : t \in Starts(Interval(s, e)) <=>
                         t \in Starts(Interval(s, cut)) \/ t \in Starts(Interval(cut, e))
             /\ \A t \in Starts(Interval(s, cut)) : t \in Int /\ s <= t /\ t < cut
             /\ \A t \in Starts(Interval(cut, e)) : t \in Int /\ cut <= t /\ t < e
<1> DEFINE cut == s + m * Step
<1>1. m * Step \in Nat
  BY Multiples
<1>2. cut \in Int /\ s <= cut /\ cut < e
  BY <1>1
<1>3. /\ \A t : t \in Starts(Interval(s, e)) <=> \E n \in Nat : t = s + n * Step /\ t < e
      /\ \A t : t \in Starts(Interval(s, cut)) <=> \E n \in Nat : t = s + n * Step /\ t < cut
      /\ \A t : t \in Starts(Interval(cut, e)) <=> \E n \in Nat : t = cut + n * Step /\ t < e
  <2> HIDE DEF cut
  <2>1. \A a, b \in Int : Interval(a, b).start \in Int /\ Interval(a, b).end \in Int
                          /\ Interval(a, b).start = a /\ Interval(a, b).end = b
    BY DEF Interval
  <2>2. QED
    BY <1>2, <2>1, StartsAre
<1>4. ASSUME NEW t, NEW n \in Nat, t = s + n * Step, t < e
      PROVE  \/ t < cut
             \/ \E k \in Nat : t = cut + k * Step
  <2>1. n * Step \in Nat
    BY Multiples
  <2>2. CASE n < m
    <3>1. n * Step + Step <= m * Step /\ Step \in Nat \ {0}
      BY <2>2, Multiples, StepAssumption
    <3>2. QED
      BY <1>1, <1>4, <2>1, <3>1
  <2>3. CASE ~ (n < m)
    <3>1. n - m \in Nat /\ n = m + (n - m)
      BY <2>3
    <3>2. PICK k \in Nat : n = m + k
      BY <3>1
    <3>3. n * Step = m * Step + k * Step /\ k * Step \in Nat
      BY <3>2, Multiples
    <3>4. t = cut + k * Step
      BY <1>1, <1>4, <3>3
    <3>5. QED
      BY <3>4
  <2>4. QED
    BY <2>2, <2>3
<1>5. ASSUME NEW t, NEW k \in Nat, t = cut + k * Step PROVE \E n \in Nat : t = s + n * Step
  <2>1. (m + k) * Step = m * Step + k * Step /\ k * Step \in Nat /\ m + k \in Nat
    <3>1. m + k \in Nat
      OBVIOUS
    <3>2. (m + k) * Step = m * Step + k * Step /\ k * Step \in Nat
      BY Multiples
    <3>3. QED
      BY <3>1, <3>2
  <2>2. t = s + (m + k) * Step
    BY <1>1, <1>5, <2>1
  <2>3. QED
    BY <2>1, <2>2
<1>6. \A n \in Nat : n * Step \in Nat
  BY Multiples
<1> HIDE DEF cut
<1>7. \A t \in Starts(Interval(s, cut)) : t \in Int /\ s <= t /\ t < cut
  <2> TAKE t \in Starts(Interval(s, cut))
  <2>1. PICK n \in Nat : t = s + n * Step /\ t < cut
    BY <1>3
  <2>2. n * Step \in Nat
    BY <1>6
  <2>3. QED
    BY <2>1, <2>2
<1>8. \A t \in Starts(Interval(cut, e)) : t \in Int /\ cut <= t /\ t < e
  <2> TAKE t \in Starts(Interval(cut, e))
  <2>1. PICK n \in Nat : t = cut + n * Step /\ t < e
    BY <1>3
  <2>2. n * Step \in Nat
    BY <1>6
  <2>3. QED
    BY <1>2, <2>1, <2>2
<1>9. ASSUME NEW t \in Starts(Interval(s, e))
      PROVE  t \in Starts(Interval(s, cut)) \/ t \in Starts(Interval(cut, e))
  <2>1. PICK n \in Nat : t = s + n * Step /\ t < e
    BY <1>3
  <2>2. QED
    BY <1>3, <1>4, <2>1
<1>10. ASSUME NEW t, t \in Starts(Interval(s, cut)) \/ t \in Starts(Interval(cut, e))
       PROVE  t \in Starts(Interval(s, e))
  <2>1. CASE t \in Starts(Interval(s, cut))
    <3>1. t < e
      BY <1>2, <1>7, <2>1
    <3>2. QED
      BY <1>3, <2>1, <3>1
  <2>2. CASE t \in Starts(Interval(cut, e))
    <3>1. t < e
      BY <1>8, <2>2
    <3>2. \E n \in Nat : t = s + n * Step
      BY <1>3, <1>5, <2>2
    <3>3. QED
      BY <1>3, <3>1, <3>2
  <2>3. QED
    BY <1>10, <2>1, <2>2
<1>11. QED
  BY <1>7, <1>8, <1>9, <1>10 DEF cut

\* Prices are numbers.
LEMMA SegmentIsNumber ==
  ASSUME NEW order \in Seq(Rules), NEW i, i.start \in Int, i.end \in Int, Priced(order, i), NEW n \in Nat
  PROVE  SegmentPrice(order, i, n) \in Int
<1> DEFINE t == i.start + n * Step
<1>1. n * Step \in Nat /\ t \in Int /\ Step \in Nat
  BY Multiples, StepAssumption
<1>2. CASE t >= i.end
  BY <1>2 DEF SegmentPrice
<1>3. CASE ~ (t >= i.end)
  <2>1. t \in Starts(i)
    BY <1>1, <1>3, StartsAre
  <2> HIDE DEF t
  <2> DEFINE r == order[FindBestRule(order, t)]
             end == IF t + Step > i.end THEN i.end ELSE t + Step
  <2>2. r \in Rules
    BY <2>1, BestIsRule DEF Priced
  <2>3. r.price \in Int
    BY <2>2, PlacesAssumption
  <2>4. end - t \in Int
    BY <1>1
  <2>5. SegmentPrice(order, i, n) = r.price * (end - t)
    BY <1>3 DEF SegmentPrice, t
  <2> HIDE DEF r, end
  <2>6. QED
    BY <2>3, <2>4, <2>5
<1>4. QED
  BY <1>2, <1>3

\* The total, segment after segment (calculatePrice).
TotalsOf(f, order, i) ==
  /\ f[0] = 0
  /\ \A n \in 1 .. i.end - i.start : /\ SegmentPrice(order, i, n - 1) \in Int
                                     /\ f[n] = f[n - 1] + SegmentPrice(order, i, n - 1)
  /\ \A n \in 0 .. i.end - i.start : f[n] \in Int

LEMMA TotalUnfolds ==
  ASSUME NEW order \in Seq(Rules), NEW i, i.start \in Int, i.end \in Int, i.start <= i.end, Priced(order, i)
  PROVE  \E f : TotalsOf(f, order, i) /\ TotalPrice(order, i) = f[i.end - i.start]
<1> DEFINE N == i.end - i.start
           next(f) == [n \in 0 .. N |-> IF n = 0 THEN 0 ELSE f[n - 1] + SegmentPrice(order, i, n - 1)]
           total == CHOOSE f : f = next(f)
           G == [n \in 0 .. N |-> [v \in Int |-> v + SegmentPrice(order, i, n - 1)]]
           V == [n \in 0 .. N |-> Int]
<1>1. N \in Nat /\ 0 \in Nat
  OBVIOUS
<1>2. \A n \in 0 .. N : V[n] = Int
  OBVIOUS
<1>3. \A n \in 1 .. N : SegmentPrice(order, i, n - 1) \in Int
  <2> TAKE n \in 1 .. N
  <2>1. n - 1 \in Nat
    BY <1>1
  <2>2. QED
    BY <2>1, SegmentIsNumber
<1>4. \A n \in 1 .. N : \A v \in Int : G[n][v] = v + SegmentPrice(order, i, n - 1)
  BY <1>1
<1> HIDE DEF V, G, N
<1>5. PICK f : IsLoop(f, 0, N, 0, G) /\ \A n \in 0 .. N : f[n] \in V[n]
  <2>1. 0 <= N => 0 \in V[0]
    BY <1>1, <1>2
  <2>2. \A n \in 0 + 1 .. N : \A v \in V[n - 1] : G[n][v] \in V[n]
    <3> TAKE n \in 0 + 1 .. N
    <3> TAKE v \in V[n - 1]
    <3>1. n \in 1 .. N /\ n \in 0 .. N /\ n - 1 \in 0 .. N
      BY <1>1
    <3>2. v \in Int /\ V[n] = Int
      BY <1>2, <3>1
    <3>3. SegmentPrice(order, i, n - 1) \in Int /\ G[n][v] = v + SegmentPrice(order, i, n - 1)
      BY <1>3, <1>4, <3>1, <3>2
    <3>4. G[n][v] \in Int
      BY <3>2, <3>3
    <3>5. QED
      BY <3>2, <3>4
  <2>3. QED
    BY <1>1, <2>1, <2>2, Recursion
<1>6. \A n \in 0 .. N : f[n] = IF n = 0 THEN 0 ELSE f[n - 1] + SegmentPrice(order, i, n - 1)
  <2> TAKE n \in 0 .. N
  <2>1. CASE n = 0
    BY <1>5, <2>1 DEF IsLoop
  <2>2. CASE n # 0
    <3>1. n \in 1 .. N /\ n - 1 \in 0 .. N
      BY <1>1, <2>2
    <3>2. f[n] = G[n][f[n - 1]]
      BY <1>5, <2>2 DEF IsLoop
    <3>3. f[n - 1] \in Int
      BY <1>2, <1>5, <3>1
    <3>4. QED
      BY <1>4, <2>2, <3>1, <3>2, <3>3
  <2>3. QED
    BY <2>1, <2>2
<1>7. f = next(f)
  BY <1>5, <1>6 DEF IsLoop
<1>8. total = next(total)
  <2> HIDE DEF next
  <2> QED BY <1>7
<1>9. TotalPrice(order, i) = total[N]
  BY DEF TotalPrice, N
<1>10. \A n \in 0 .. N : total[n] = IF n = 0 THEN 0 ELSE total[n - 1] + SegmentPrice(order, i, n - 1)
  <2> HIDE DEF total
  <2> QED BY <1>8
<1> HIDE DEF total, next
<1>11. total[0] = 0 /\ \A n \in 1 .. N : total[n] = total[n - 1] + SegmentPrice(order, i, n - 1)
  <2>1. 0 \in 0 .. N /\ \A n \in 1 .. N : n \in 0 .. N /\ n # 0
    BY <1>1
  <2>2. QED
    BY <1>10, <2>1
<1>12. \A n \in 0 .. N : total[n] \in Int
  <2>1. 0 <= N => total[0] \in V[0]
    BY <1>1, <1>2, <1>11
  <2>2. \A n \in 0 + 1 .. N : total[n - 1] \in V[n - 1] => total[n] \in V[n]
    <3> TAKE n \in 0 + 1 .. N
    <3>1. n \in 1 .. N /\ n \in 0 .. N /\ n - 1 \in 0 .. N
      BY <1>1
    <3>2. QED
      BY <1>2, <1>3, <1>11, <3>1
  <2>3. \A n \in 0 .. N : total[n] \in V[n]
    BY <1>1, <2>1, <2>2, Reaches
  <2>4. QED
    BY <1>2, <2>3
<1>13. TotalsOf(total, order, i)
  BY <1>3, <1>11, <1>12 DEF TotalsOf, N
<1>14. QED
  BY <1>9, <1>13 DEF N

\* A segment before the cut costs the same in the first part.
LEMMA SegmentsOfFirst ==
  ASSUME NEW order \in Seq(Rules), NEW s \in Int, NEW e \in Int, NEW m \in Nat, s + m * Step < e,
         Priced(order, Interval(s, e)), NEW n \in Nat, n < m
  PROVE  LET first == Interval(s, s + m * Step)
         IN  SegmentPrice(order, Interval(s, e), n) = SegmentPrice(In(order, first), first, n)
<1> DEFINE cut == s + m * Step
           first == Interval(s, cut)
           whole == Interval(s, e)
           t == s + n * Step
<1>1. n * Step \in Nat /\ m * Step \in Nat /\ n * Step + Step <= m * Step /\ Step \in Nat \ {0}
  BY Multiples, StepAssumption
<1>2. t \in Int /\ cut \in Int /\ s <= t /\ t + Step <= cut /\ t < cut /\ cut < e /\ t < e
  BY <1>1
<1>3. first.start = s /\ first.end = cut /\ whole.start = s /\ whole.end = e
  BY DEF Interval
<1>4. t \in Starts(whole)
  BY <1>2, <1>3, StartsAre
<1> HIDE DEF cut, t, first, whole
<1>5. FindBestRule(order, t) # 0
  BY <1>4 DEF Priced, whole
<1>6. In(order, first)[FindBestRule(In(order, first), t)] = order[FindBestRule(order, t)]
  <2>1. first.start \in Int /\ first.end \in Int /\ first.start <= t /\ t <= first.end
    BY <1>2, <1>3
  <2>2. \A r \in Rules : r.from \in Int /\ r.to \in Int
    BY PlacesAssumption
  <2>3. QED
    BY <1>2, <1>5, <2>1, <2>2, PartKeepsBest
<1>7. SegmentPrice(order, whole, n) = order[FindBestRule(order, t)].price * ((t + Step) - t)
  <2>1. ~ (t + Step > e) /\ ~ (t >= e)
    BY <1>1, <1>2
  <2>2. QED
    BY <1>3, <2>1 DEF SegmentPrice, t
<1>8. SegmentPrice(In(order, first), first, n) =
        In(order, first)[FindBestRule(In(order, first), t)].price * ((t + Step) - t)
  BY <1>1, <1>2, <1>3 DEF SegmentPrice, t
<1>9. QED
  BY Zenon, <1>6, <1>7, <1>8 DEF first, whole, cut

\* A segment after the cut costs the same in the rest.
LEMMA SegmentsOfRest ==
  ASSUME NEW order \in Seq(Rules), NEW s \in Int, NEW e \in Int, NEW m \in Nat, s + m * Step < e,
         Priced(order, Interval(s, e)), NEW k \in Nat
  PROVE  LET rest == Interval(s + m * Step, e)
         IN  SegmentPrice(order, Interval(s, e), m + k) = SegmentPrice(In(order, rest), rest, k)
<1> DEFINE cut == s + m * Step
           rest == Interval(cut, e)
           whole == Interval(s, e)
           t == s + (m + k) * Step
           end == IF t + Step > e THEN e ELSE t + Step
<1>1. k * Step \in Nat /\ m * Step \in Nat /\ (m + k) * Step = m * Step + k * Step /\ Step \in Nat \ {0}
  BY Multiples, StepAssumption
<1>2. t \in Int /\ cut \in Int /\ cut <= t /\ t = cut + k * Step /\ m + k \in Nat
  BY <1>1
<1>3. rest.start = cut /\ rest.end = e /\ whole.start = s /\ whole.end = e
  BY DEF Interval
<1>4. t < e => t \in Starts(whole)
  BY <1>2, <1>3, StartsAre
<1>5. /\ SegmentPrice(order, whole, m + k) =
           IF t >= e THEN 0 ELSE order[FindBestRule(order, t)].price * (end - t)
  <2> HIDE DEF whole
  <2> QED BY <1>3 DEF SegmentPrice
<1>6. SegmentPrice(In(order, rest), rest, k) =
        IF t >= e THEN 0 ELSE In(order, rest)[FindBestRule(In(order, rest), t)].price * (end - t)
  <2>1. rest.start + k * Step = t
    BY <1>2, <1>3
  <2> HIDE DEF rest, t
  <2> QED BY <1>3, <2>1 DEF SegmentPrice
<1> HIDE DEF cut, t, end, rest, whole
<1>7. CASE t >= e
  BY <1>5, <1>6, <1>7 DEF rest, whole, cut
<1>8. CASE ~ (t >= e)
  <2>1. t < e
    BY <1>2, <1>8
  <2>2. FindBestRule(order, t) # 0
    BY <1>4, <2>1 DEF Priced, whole
  <2>3. In(order, rest)[FindBestRule(In(order, rest), t)] = order[FindBestRule(order, t)]
    BY <1>2, <1>3, <2>1, <2>2, PartKeepsBest, PlacesAssumption
  <2>4. QED
    BY Zenon, <1>5, <1>6, <1>8, <2>3 DEF rest, whole, cut
<1>9. QED
  BY <1>7, <1>8

\* Nothing is added once the end is reached.
LEMMA NothingAfterEnd ==
  ASSUME NEW order, NEW s \in Int, NEW e \in Int, NEW f, TotalsOf(f, order, Interval(s, e)),
         NEW m \in Nat, m <= e - s, e <= s + m * Step
  PROVE  f[e - s] = f[m]
<1> DEFINE i == Interval(s, e)
           N == e - s
           V == [n \in m .. N |-> {f[m]}]
<1>0. i.start = s /\ i.end = e
  BY DEF Interval
<1> HIDE DEF i
<1>1. N \in Nat /\ m <= N /\ m * Step \in Nat
  <2>1. m * Step \in Nat
    BY Multiples
  <2>2. QED
    BY <2>1
<1>2. \A n \in m .. N : V[n] = {f[m]}
  OBVIOUS
<1> HIDE DEF V
<1>3. ASSUME NEW n \in m + 1 .. N, f[n - 1] \in V[n - 1] PROVE f[n] \in V[n]
  <2>1. n \in m .. N /\ n - 1 \in m .. N /\ n - 1 \in Nat /\ n \in 1 .. N /\ n \in 0 .. N /\ n - 1 \in 0 .. N
    BY <1>1
  <2>2. m * Step <= (n - 1) * Step /\ (n - 1) * Step \in Nat
    <3>1. CASE m = n - 1
      BY <1>1, <3>1
    <3>2. CASE m # n - 1
      <4>1. m < n - 1
        BY <1>1, <2>1, <3>2
      <4>2. m * Step + Step <= (n - 1) * Step /\ (n - 1) * Step \in Nat
        BY <2>1, <4>1, Multiples
      <4>3. QED
        BY <1>1, <4>2, StepAssumption
    <3>3. QED
      BY <3>1, <3>2
  <2>3. i.start + (n - 1) * Step >= i.end
    BY <1>0, <1>1, <2>2
  <2>4. SegmentPrice(order, i, n - 1) = 0
    BY <2>3 DEF SegmentPrice
  <2>5. f[n] = f[n - 1] + 0 /\ f[n - 1] \in Int
    BY <1>0, <2>1, <2>4 DEF TotalsOf, i
  <2>6. f[n - 1] = f[m]
    BY <1>2, <1>3, <2>1
  <2>7. QED
    BY <1>2, <2>1, <2>5, <2>6
<1>4. f[m] \in V[m]
  BY <1>1, <1>2
<1>5. \A n \in m .. N : f[n] \in V[n]
  <2> HIDE DEF N
  <2> QED BY <1>1, <1>3, <1>4, Reaches
<1>6. QED
  BY <1>1, <1>2, <1>5

\* A part is priced when the segments that it has of the whole are.
LEMMA PartPriced ==
  ASSUME NEW order \in Seq(Rules), NEW i, i.start \in Int, i.end \in Int,
         \A t \in Starts(i) : t \in Int /\ i.start <= t /\ t < i.end
  PROVE  Priced(In(order, i), i) <=> \A t \in Starts(i) : FindBestRule(order, t) # 0
<1>1. \A r \in Rules : r.from \in Int /\ r.to \in Int
  BY PlacesAssumption
<1>2. \A t \in Starts(i) : FindBestRule(In(order, i), t) # 0 <=> FindBestRule(order, t) # 0
  <2> TAKE t \in Starts(i)
  <2>1. t \in Int /\ i.start <= t /\ t <= i.end
    OBVIOUS
  <2>2. QED
    BY <1>1, <2>1, PartKeepsBest
<1>3. QED
  BY <1>2 DEF Priced

\* The totals of the parts, at the cut and at the end.
LEMMA TotalsAddUp ==
  ASSUME NEW order \in Seq(Rules), NEW s \in Int, NEW e \in Int, NEW m \in Nat, s + m * Step < e,
         Priced(order, Interval(s, e)),
         NEW all, TotalsOf(all, order, Interval(s, e)),
         NEW first, TotalsOf(first, In(order, Interval(s, s + m * Step)), Interval(s, s + m * Step)),
         NEW rest, TotalsOf(rest, In(order, Interval(s + m * Step, e)), Interval(s + m * Step, e))
  PROVE  all[e - s] = first[m * Step] + rest[e - (s + m * Step)]
<1> DEFINE cut == s + m * Step
           M == m * Step
           L == e - cut
           P == In(order, Interval(s, cut))
           R == In(order, Interval(cut, e))
<1>1. M \in Nat /\ m <= M
  BY Multiples
<1>2. cut \in Int /\ cut - s = M /\ L \in Nat /\ m + L <= e - s /\ e - s \in Nat
  BY <1>1
<1>3. /\ all[0] = 0
      /\ \A n \in 1 .. e - s : all[n] = all[n - 1] + SegmentPrice(order, Interval(s, e), n - 1)
      /\ \A n \in 0 .. e - s : all[n] \in Int
  BY DEF TotalsOf, Interval
<1>4. /\ first[0] = 0
      /\ \A n \in 1 .. M : first[n] = first[n - 1] + SegmentPrice(P, Interval(s, cut), n - 1)
      /\ \A n \in 0 .. M : first[n] \in Int
  BY <1>2 DEF TotalsOf, Interval
<1>5. /\ rest[0] = 0
      /\ \A k \in 1 .. L : /\ SegmentPrice(R, Interval(cut, e), k - 1) \in Int
                           /\ rest[k] = rest[k - 1] + SegmentPrice(R, Interval(cut, e), k - 1)
      /\ \A k \in 0 .. L : rest[k] \in Int
  BY DEF TotalsOf, Interval
<1>6. \A n \in Nat : n < m => SegmentPrice(order, Interval(s, e), n) = SegmentPrice(P, Interval(s, cut), n)
  BY SegmentsOfFirst
<1>7. \A k \in Nat : SegmentPrice(order, Interval(s, e), m + k) = SegmentPrice(R, Interval(cut, e), k)
  BY SegmentsOfRest
<1>8. first[M] = first[m]
  <2>1. TotalsOf(first, P, Interval(s, cut)) /\ cut <= s + m * Step
    BY <1>1
  <2>2. m <= cut - s
    BY <1>1, <1>2
  <2> HIDE DEF cut, P, M
  <2>3. first[cut - s] = first[m]
    BY <1>2, <2>1, <2>2, NothingAfterEnd
  <2>4. QED
    BY <1>2, <2>3
<1>9. all[e - s] = all[m + L]
  <2> DEFINE u == m + L
  <2>1. u * Step = M + L * Step /\ L <= L * Step /\ L * Step \in Nat
    BY <1>2, Multiples
  <2>2. e <= s + u * Step
    <3>1. e = cut + L /\ cut = s + M
      BY <1>2
    <3> HIDE DEF u, L, cut, M
    <3>2. QED
      BY <1>1, <1>2, <2>1, <3>1
  <2>3. u \in Nat /\ u <= e - s
    BY <1>2
  <2> HIDE DEF u
  <2>4. all[e - s] = all[u]
    BY <2>2, <2>3, NothingAfterEnd
  <2>5. QED
    BY <2>4 DEF u
<1> HIDE DEF cut, M, L, P, R
<1>10. \A n \in 0 .. m : all[n] = first[n]
  <2> DEFINE V == [n \in 0 .. m |-> {first[n]}]
  <2>1. \A n \in 0 .. m : V[n] = {first[n]}
    OBVIOUS
  <2> HIDE DEF V
  <2>2. 0 <= m => all[0] \in V[0]
    BY <1>3, <1>4, <2>1
  <2>3. ASSUME NEW n \in 0 + 1 .. m, all[n - 1] \in V[n - 1] PROVE all[n] \in V[n]
    <3>1. n \in 0 .. m /\ n - 1 \in 0 .. m /\ n - 1 \in Nat /\ n - 1 < m
      OBVIOUS
    <3>2. n \in 1 .. e - s /\ n \in 1 .. M
      BY <1>1, <1>2
    <3>3. all[n - 1] = first[n - 1]
      BY <2>1, <2>3, <3>1
    <3>4. SegmentPrice(order, Interval(s, e), n - 1) = SegmentPrice(P, Interval(s, cut), n - 1)
      BY <1>6, <3>1
    <3>5. all[n] = all[n - 1] + SegmentPrice(order, Interval(s, e), n - 1)
      BY <1>3, <3>2
    <3>6. first[n] = first[n - 1] + SegmentPrice(P, Interval(s, cut), n - 1)
      BY <1>4, <3>2
    <3>7. all[n] = first[n]
      BY <3>3, <3>4, <3>5, <3>6
    <3>8. QED
      BY <2>1, <3>1, <3>7
  <2>4. \A n \in 0 .. m : all[n] \in V[n]
    BY <2>2, <2>3, Reaches
  <2>5. QED
    BY <2>1, <2>4
<1>11. \A k \in 0 .. L : all[m + k] = all[m] + rest[k]
  <2> DEFINE later == [k \in 0 .. L |-> all[m + k]]
             V == [k \in 0 .. L |-> {all[m] + rest[k]}]
  <2>1. \A k \in 0 .. L : later[k] = all[m + k] /\ V[k] = {all[m] + rest[k]}
    OBVIOUS
  <2> HIDE DEF V, later
  <2>2. m \in 0 .. e - s /\ all[m] \in Int
    BY <1>2, <1>3
  <2>3. 0 <= L => later[0] \in V[0]
    <3>1. 0 \in 0 .. L /\ m + 0 = m
      BY <1>2
    <3>2. all[m] + 0 = all[m]
      BY <2>2
    <3>3. QED
      BY <1>5, <2>1, <3>1, <3>2
  <2>4. ASSUME NEW k \in 0 + 1 .. L, later[k - 1] \in V[k - 1] PROVE later[k] \in V[k]
    <3>1. k \in 0 .. L /\ k - 1 \in 0 .. L /\ k - 1 \in Nat /\ k \in 1 .. L
          /\ m + k \in 1 .. e - s /\ (m + k) - 1 = m + (k - 1) /\ m + (k - 1) \in 0 .. e - s
      BY <1>2
    <3>2. all[m + (k - 1)] = all[m] + rest[k - 1]
      BY <2>1, <2>4, <3>1
    <3>3. all[m + k] = all[m + (k - 1)] + SegmentPrice(order, Interval(s, e), m + (k - 1))
      BY <1>3, <3>1
    <3>4. SegmentPrice(order, Interval(s, e), m + (k - 1)) = SegmentPrice(R, Interval(cut, e), k - 1)
      BY <1>7, <3>1
    <3> DEFINE x == SegmentPrice(R, Interval(cut, e), k - 1)
    <3>5. rest[k] = rest[k - 1] + x /\ x \in Int
      BY <1>5, <3>1
    <3>6. all[m + k] = all[m + (k - 1)] + x
      BY <3>3, <3>4
    <3> HIDE DEF x
    <3>7. all[m] \in Int /\ rest[k - 1] \in Int
      BY <1>5, <2>2, <3>1
    <3>8. all[m + k] = all[m] + rest[k]
      BY <3>2, <3>5, <3>6, <3>7
    <3>9. QED
      BY <2>1, <3>1, <3>8
  <2>5. \A k \in 0 .. L : later[k] \in V[k]
    BY <1>2, <2>3, <2>4, Reaches
  <2>6. QED
    BY <2>1, <2>5
<1>12. all[m] = first[m] /\ all[m + L] = all[m] + rest[L]
  BY <1>2, <1>10, <1>11
<1>13. QED
  BY <1>8, <1>9, <1>12 DEF M, L, cut

-----------------------------------------------------------------------------
\* One booking, cut once.

LEMMA CutIs ==
  ASSUME NEW i, i.start \in Int, i.end \in Int, NEW t \in Cuts(i)
  PROVE  \E m \in Nat : t = i.start + m * Step /\ i.start + m * Step < i.end
<1>1. t \in Starts(i)
  BY DEF Cuts
<1>2. QED
  BY <1>1, StartsAre

\* Both parts are priced exactly if the whole is.
LEMMA PartsPriced ==
  ASSUME NEW order \in Seq(Rules), NEW s \in Int, NEW e \in Int, NEW m \in Nat, s + m * Step < e
  PROVE  LET first == Interval(s, s + m * Step)
             rest  == Interval(s + m * Step, e)
         IN  Priced(order, Interval(s, e)) <=> Priced(In(order, first), first) /\ Priced(In(order, rest), rest)
<1> DEFINE cut == s + m * Step
           first == Interval(s, cut)
           rest == Interval(cut, e)
           best(t) == FindBestRule(order, t) # 0
<1>1. cut \in Int
  BY Multiples
<1>2. /\ \A t : t \in Starts(Interval(s, e)) <=> t \in Starts(first) \/ t \in Starts(rest)
      /\ \A t \in Starts(first) : t \in Int /\ s <= t /\ t < cut
      /\ \A t \in Starts(rest) : t \in Int /\ cut <= t /\ t < e
  BY StartsOfParts
<1>3. Priced(order, Interval(s, e)) <=> \A t \in Starts(Interval(s, e)) : best(t)
  BY DEF Priced
<1> HIDE DEF cut, best
<1>4. first.start = s /\ first.end = cut /\ rest.start = cut /\ rest.end = e
  BY DEF Interval
<1> HIDE DEF first, rest
<1>5. Priced(In(order, first), first) <=> \A t \in Starts(first) : best(t)
  BY <1>1, <1>2, <1>4, PartPriced DEF best
<1>6. Priced(In(order, rest), rest) <=> \A t \in Starts(rest) : best(t)
  BY <1>1, <1>2, <1>4, PartPriced DEF best
<1>7. Priced(order, Interval(s, e)) <=> Priced(In(order, first), first) /\ Priced(In(order, rest), rest)
  BY <1>2, <1>3, <1>5, <1>6
<1>8. QED
  BY <1>7 DEF first, rest, cut

\* And their prices add up to the price of the whole.
LEMMA CutAddsUp ==
  ASSUME NEW order \in Seq(Rules), NEW s \in Int, NEW e \in Int, NEW m \in Nat, s + m * Step < e,
         Priced(order, Interval(s, e))
  PROVE  LET first == Interval(s, s + m * Step)
             rest  == Interval(s + m * Step, e)
         IN  TotalPrice(order, Interval(s, e)) =
               TotalPrice(In(order, first), first) + TotalPrice(In(order, rest), rest)
<1> DEFINE cut == s + m * Step
           first == Interval(s, cut)
           rest == Interval(cut, e)
           whole == Interval(s, e)
           P == In(order, first)
           R == In(order, rest)
<1>1. m * Step \in Nat /\ cut \in Int /\ s <= cut /\ cut < e /\ cut - s = m * Step /\ s <= e
  <2> DEFINE x == m * Step
  <2>1. x \in Nat /\ s + x < e
    BY Multiples
  <2> HIDE DEF x
  <2>2. s + x \in Int /\ s <= s + x /\ (s + x) - s = x /\ s <= e
    BY <2>1
  <2>3. QED
    BY <2>1, <2>2 DEF x
<1>2. Priced(P, first) /\ Priced(R, rest)
  BY PartsPriced
<1>3. \A r \in Rules : r.from \in Int /\ r.to \in Int
  BY PlacesAssumption
<1> HIDE DEF cut
<1>4. /\ first.start = s /\ first.end = cut /\ rest.start = cut /\ rest.end = e
      /\ whole.start = s /\ whole.end = e
  BY DEF Interval
<1>5. P \in Seq(Rules)
  <2> HIDE DEF first
  <2> QED BY <1>1, <1>3, <1>4, PartKeepsRules
<1>6. R \in Seq(Rules)
  <2>1. rest.start <= cut /\ cut <= rest.end /\ rest.start \in Int /\ rest.end \in Int
    BY <1>1, <1>4
  <2> HIDE DEF rest
  <2>2. QED
    BY <1>1, <1>3, <2>1, PartKeepsRules
<1> HIDE DEF P, R
<1>7. PICK all : TotalsOf(all, order, whole) /\ TotalPrice(order, whole) = all[e - s]
  <2>1. Priced(order, whole)
    OBVIOUS
  <2> HIDE DEF whole
  <2>2. QED
    BY <1>1, <1>4, <2>1, TotalUnfolds
<1>8. PICK f : TotalsOf(f, P, first) /\ TotalPrice(P, first) = f[cut - s]
  <2> HIDE DEF first
  <2> QED BY <1>1, <1>2, <1>4, <1>5, TotalUnfolds
<1>9. PICK g : TotalsOf(g, R, rest) /\ TotalPrice(R, rest) = g[e - cut]
  <2>1. cut <= e
    BY <1>1
  <2> HIDE DEF rest
  <2>2. QED
    BY <1>1, <1>2, <1>4, <1>6, <2>1, TotalUnfolds
<1>10. all[e - s] = f[m * Step] + g[e - cut]
  BY <1>7, <1>8, <1>9, TotalsAddUp DEF P, R, cut
<1>11. TotalPrice(order, whole) = TotalPrice(P, first) + TotalPrice(R, rest)
  BY <1>1, <1>7, <1>8, <1>9, <1>10
<1>12. QED
  BY <1>11 DEF P, R, cut

-----------------------------------------------------------------------------
\* Facilities come and go with their rules: there are always finitely many.
RulesFinite == rules \subseteq Rules /\ IsFiniteSet(rules)

LEMMA RulesStayFinite == PlacesSpec => []RulesFinite
<1>1. PlacesInit => RulesFinite
  <2>1. IsFiniteSet({})
    BY FS_EmptySet
  <2>2. QED
    BY <2>1, PlacesAssumption DEF PlacesInit, RulesFinite
<1>2. ASSUME RulesFinite, [PlacesNext]_placesVars PROVE RulesFinite'
  <2> USE <1>2 DEF RulesFinite
  <2>1. ASSUME NEW r \in Rules, CreatePricingRule(r) PROVE RulesFinite'
    <3>1. rules' = rules \cup {r} /\ IsFiniteSet(rules \cup {r})
      BY <2>1, FS_AddElement DEF CreatePricingRule
    <3>2. QED
      BY <3>1
  <2>2. ASSUME NEW r \in Rules, DeletePricingRule(r) PROVE RulesFinite'
    <3>1. rules' = rules \ {r} /\ IsFiniteSet(rules \ {r})
      BY <2>2, FS_Difference DEF DeletePricingRule
    <3>2. QED
      BY <3>1
  <2>3. CASE UNCHANGED rules
    BY <2>3
  <2>4. CASE WriteStep
    BY <2>1, <2>2, <2>3, <2>4 DEF WriteStep, CreateVenue, UpdateVenue, GeocodeVenueAddress,
                                  CreateFacility, UpdateFacility
  <2>5. CASE InvalidationStep
    BY <2>3, <2>5 DEF InvalidationStep, FindKeys, DeleteKeys, LoseInvalidation, tables
  <2>6. ASSUME NEW s \in Searches, SearchStep(s) PROVE RulesFinite'
    BY <2>3, <2>6 DEF SearchStep, BeginSearch, FetchAnswer, StoreAnswer, tables
  <2>7. ASSUME NEW q \in Queries, Expire(q) PROVE RulesFinite'
    BY <2>3, <2>7 DEF Expire, tables
  <2>8. CASE UNCHANGED placesVars
    BY <2>3, <2>8 DEF placesVars
  <2>9. QED
    BY <2>4, <2>5, <2>6, <2>7, <2>8 DEF PlacesNext
<1>3. QED
  BY <1>1, <1>2, PTL DEF PlacesSpec

\* A booking costs what its parts cost, wherever between two segments it is cut, whichever
\* rules are saved and in whichever order the database returns equals
\* (PricingService.calculatePrice, findBestRule).
THEOREM PricesAddUpHolds == PlacesSpec => []PricesAddUp
<1>1. ASSUME RulesFinite PROVE PricesAddUp
  <2> SUFFICES ASSUME NEW f \in Facilities, NEW whole \in Bookable, NEW t \in Cuts(whole),
                      NEW order \in Fetched({r \in rules : r.facility = f}, whole)
               PROVE  LET first == Interval(whole.start, t)
                          rest  == Interval(t, whole.end)
                      IN  /\ Priced(order, whole) <=> Priced(In(order, first), first) /\ Priced(In(order, rest), rest)
                          /\ Priced(order, whole) =>
                               TotalPrice(order, whole) =
                                 TotalPrice(In(order, first), first) + TotalPrice(In(order, rest), rest)
    BY DEF PricesAddUp
  <2> DEFINE s == whole.start
             e == whole.end
             fetched == {r \in {x \in rules : x.facility = f} : r.from <= whole.end /\ whole.start <= r.to}
  <2>1. s \in Int /\ e \in Int
    BY PlacesAssumption
  <2>2. PICK m \in Nat : t = s + m * Step /\ s + m * Step < e
    BY <2>1, CutIs
  <2>3. order \in Seq(Rules)
    <3>1. order \in SetToSeqs(fetched)
      BY DEF Fetched
    <3>2. fetched \subseteq rules /\ fetched \subseteq Rules
      BY <1>1 DEF RulesFinite
    <3> HIDE DEF fetched
    <3>3. IsFiniteSet(fetched)
      BY <1>1, <3>2, FS_Subset DEF RulesFinite
    <3>4. order \in Seq(fetched)
      BY <3>1, <3>3, OrderEnumerates
    <3>5. QED
      BY <3>2, <3>4
  <2>4. Priced(order, whole) <=> Priced(order, Interval(s, e))
    BY DEF Priced, Starts, Interval
  <2>5. ASSUME Priced(order, whole) PROVE TotalPrice(order, whole) = TotalPrice(order, Interval(s, e))
    BY DEF TotalPrice, SegmentPrice, Interval
  <2> HIDE DEF s, e
  <2>6. QED
    BY <2>1, <2>2, <2>3, <2>4, <2>5, PartsPriced, CutAddsUp DEF s, e
<1>2. QED
  BY <1>1, RulesStayFinite, PTL
=============================================================================
