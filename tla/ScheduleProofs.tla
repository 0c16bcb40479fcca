--------------------------- MODULE ScheduleProofs ---------------------------
(***************************************************************************)
(* Proofs about Schedule for every length of the day, and every set of     *)
(* windows, periods and saves.                                             *)
(***************************************************************************)
EXTENDS Schedule, FiniteSetTheorems, WellFoundedInduction, TLAPS

-----------------------------------------------------------------------------
\* Induction over data is by the least number that breaks a statement.

LEMMA Least == ASSUME NEW T \in SUBSET Nat, T # {} PROVE \E m \in T : \A n \in T : m <= n
<1> DEFINE R == {ss \in Nat \X Nat : ss[1] < ss[2]}
<1>1. R = OpToRel(<, Nat)
  BY DEF OpToRel
<1>2. IsWellFoundedOn(R, Nat)
  BY <1>1, NatLessThanWellFounded
<1>3. \E x \in T : \A y \in T : ~ (<<y, x>> \in R)
  <2> HIDE DEF R
  <2> QED BY <1>2, WFMin
<1>4. PICK m \in T : \A n \in T : ~ (<<n, m>> \in R)
  BY <1>3
<1>5. ASSUME NEW n \in T PROVE m <= n
  <2>1. m \in Nat /\ n \in Nat /\ (<<n, m>> \in R <=> n < m)
    OBVIOUS
  <2>2. QED
    BY <1>4, <2>1
<1>6. QED
  BY <1>5

\* What each step of a loop preserves holds after all of them: V[n] is what may be there
\* after n steps.
LEMMA Reaches ==
  ASSUME NEW lo \in Nat, NEW N \in Nat, NEW f, NEW V,
         lo <= N => f[lo] \in V[lo],
         \A n \in lo + 1 .. N : f[n - 1] \in V[n - 1] => f[n] \in V[n]
  PROVE  \A n \in lo .. N : f[n] \in V[n]
<1> DEFINE bad == {n \in lo .. N : f[n] \notin V[n]}
<1> SUFFICES ASSUME bad # {} PROVE FALSE
  OBVIOUS
<1>1. bad \in SUBSET Nat
  OBVIOUS
<1>2. PICK m \in bad : \A n \in bad : m <= n
  <2>1. \E m \in bad : \A n \in bad : m <= n
    <3> HIDE DEF bad
    <3> QED BY <1>1, Least
  <2>2. QED
    BY <2>1
<1>3. m \in lo .. N /\ f[m] \notin V[m] /\ m # lo
  BY <1>2
<1>4. m \in lo + 1 .. N /\ m - 1 \in lo .. N /\ ~ (m <= m - 1)
  BY <1>3
<1>5. f[m - 1] \in V[m - 1]
  BY <1>2, <1>4
<1>6. QED
  BY <1>3, <1>4, <1>5

\* The function a loop computes, whose step is G[n].
IsLoop(f, lo, N, base, G) == f = [n \in lo .. N |-> IF n = lo THEN base ELSE G[n][f[n - 1]]]

\* It exists when G[n] takes V[n - 1] into V[n].
LEMMA Recursion ==
  ASSUME NEW lo \in Nat, NEW N \in Nat, NEW V, NEW base, NEW G,
         lo <= N => base \in V[lo],
         \A n \in lo + 1 .. N : \A v \in V[n - 1] : G[n][v] \in V[n]
  PROVE  \E f : IsLoop(f, lo, N, base, G) /\ \A n \in lo .. N : f[n] \in V[n]
<1> USE DEF IsLoop
<1> DEFINE Up(m, f) == /\ f = [n \in lo .. m |-> IF n = lo THEN base ELSE G[n][f[n - 1]]]
                       /\ \A n \in lo .. m : f[n] \in V[n]
           bad == {m \in lo .. N : ~ \E f : Up(m, f)}
<1>1. CASE ~ (lo <= N)
  <2> DEFINE f == [n \in {} |-> base]
  <2>1. lo .. N = {}
    BY <1>1
  <2>2. f = [n \in lo .. N |-> IF n = lo THEN base ELSE G[n][f[n - 1]]]
    BY <2>1
  <2>3. QED
    BY <2>1, <2>2
<1>2. CASE lo <= N
  <2>1. bad = {}
    <3> SUFFICES ASSUME bad # {} PROVE FALSE
      OBVIOUS
    <3>1. bad \in SUBSET Nat
      OBVIOUS
    <3>2. PICK m \in bad : \A n \in bad : m <= n
      <4>1. \E m \in bad : \A n \in bad : m <= n
        <5> HIDE DEF bad
        <5> QED BY <3>1, Least
      <4>2. QED
        BY <4>1
    <3>3. m \in lo .. N /\ ~ \E f : Up(m, f)
      BY <3>2
    <3>4. m # lo
      <4> DEFINE f == [n \in lo .. lo |-> base]
      <4>1. f = [n \in lo .. lo |-> IF n = lo THEN base ELSE G[n][f[n - 1]]]
        OBVIOUS
      <4>2. \A n \in lo .. lo : f[n] \in V[n]
        BY <1>2
      <4>3. Up(lo, f)
        <5> HIDE DEF f
        <5> QED BY <4>1, <4>2
      <4>4. QED
        BY <3>3, <4>3
    <3>5. m - 1 \in lo .. N /\ ~ (m <= m - 1)
      BY <3>3, <3>4
    <3>6. PICK f : Up(m - 1, f)
      BY <3>2, <3>5
    <3> DEFINE h == [n \in lo .. m |-> IF n = m THEN G[m][f[m - 1]] ELSE f[n]]
    <3>7. h[m] = G[m][f[m - 1]] /\ \A n \in lo .. m - 1 : h[n] = f[n]
      BY <3>3, <3>5
    <3>8. m - 1 \in lo .. m - 1 /\ f[m - 1] \in V[m - 1]
      BY <3>3, <3>4, <3>6
    <3>9. \A n \in lo .. m : h[n] = IF n = lo THEN base ELSE G[n][h[n - 1]]
      <4> SUFFICES ASSUME NEW n \in lo .. m
                   PROVE  h[n] = IF n = lo THEN base ELSE G[n][h[n - 1]]
        OBVIOUS
      <4> HIDE DEF h
      <4>1. CASE n = m
        BY <3>3, <3>4, <3>7, <3>8, <4>1
      <4>2. CASE n # m
        <5>1. n \in lo .. m - 1 /\ (n # lo => n - 1 \in lo .. m - 1)
          BY <3>3, <4>2
        <5>2. f[n] = IF n = lo THEN base ELSE G[n][f[n - 1]]
          BY <3>6, <5>1
        <5>3. QED
          BY <3>7, <5>1, <5>2
      <4>3. QED
        BY <4>1, <4>2
    <3>10. \A n \in lo .. m : h[n] \in V[n]
      <4> SUFFICES ASSUME NEW n \in lo .. m PROVE h[n] \in V[n]
        OBVIOUS
      <4> HIDE DEF h
      <4>1. CASE n = m
        <5>1. m \in lo + 1 .. N
          BY <3>3, <3>4
        <5>2. QED
          BY <3>7, <3>8, <4>1, <5>1
      <4>2. CASE n # m
        <5>1. n \in lo .. m - 1
          BY <3>3, <4>2
        <5>2. QED
          BY <3>6, <3>7, <5>1
      <4>3. QED
        BY <4>1, <4>2
    <3>11. h = [n \in lo .. m |-> IF n = lo THEN base ELSE G[n][h[n - 1]]]
      BY <3>9
    <3>12. Up(m, h)
      <4> HIDE DEF h
      <4> QED BY <3>10, <3>11
    <3>13. QED
      BY <3>3, <3>12
  <2>2. \E f : Up(N, f)
    <3>1. N \in lo .. N
      BY <1>2
    <3> HIDE DEF Up
    <3> QED BY <2>1, <3>1
  <2>3. QED
    BY <2>2
<1>3. QED
  BY <1>1, <1>2

-----------------------------------------------------------------------------
\* The loops of TimeInterval, each with what may be there after n steps.

\* One list after the other.
LEMMA FlattenReaches ==
  ASSUME NEW ss, Len(ss) \in Nat \ {0}, NEW V,
         ss[1] \in V[1],
         \A n \in 2 .. Len(ss) : \A v \in V[n - 1] : v \o ss[n] \in V[n]
  PROVE  FlattenSeq(ss) \in V[Len(ss)]
<1> DEFINE N == Len(ss)
           next(f) == [n \in 1 .. N |-> IF n = 1 THEN ss[1] ELSE f[n - 1] \o ss[n]]
           flatten == CHOOSE f : f = next(f)
           G == [n \in 1 .. N |-> [v \in V[n - 1] |-> v \o ss[n]]]
<1>1. \A n \in 1 + 1 .. N : \A v \in V[n - 1] : G[n][v] = v \o ss[n] /\ G[n][v] \in V[n]
  OBVIOUS
<1>2. PICK f : IsLoop(f, 1, N, ss[1], G) /\ \A n \in 1 .. N : f[n] \in V[n]
  <2>1. N \in Nat /\ 1 \in Nat /\ (1 <= N => ss[1] \in V[1])
    OBVIOUS
  <2> HIDE DEF N, G
  <2>2. \A n \in 1 + 1 .. N : \A v \in V[n - 1] : G[n][v] \in V[n]
    BY <1>1
  <2>3. QED
    BY <2>1, <2>2, Recursion
<1>3. \A n \in 1 .. N : f[n] = IF n = 1 THEN ss[1] ELSE f[n - 1] \o ss[n]
  <2> SUFFICES ASSUME NEW n \in 1 .. N
               PROVE  f[n] = IF n = 1 THEN ss[1] ELSE f[n - 1] \o ss[n]
    OBVIOUS
  <2> HIDE DEF G
  <2>1. CASE n = 1
    BY <1>2, <2>1 DEF IsLoop
  <2>2. CASE n # 1
    <3>1. N \in Nat
      OBVIOUS
    <3> HIDE DEF N
    <3>2. n \in 1 + 1 .. N /\ n - 1 \in 1 .. N
      BY <2>2, <3>1
    <3>3. f[n] = G[n][f[n - 1]] /\ f[n - 1] \in V[n - 1]
      BY <1>2, <2>2, <3>2 DEF IsLoop
    <3>4. QED
      BY <1>1, <2>2, <3>2, <3>3
  <2>3. QED
    BY <2>1, <2>2
<1>4. f = next(f)
  <2> HIDE DEF N, G
  <2> QED BY <1>2, <1>3 DEF IsLoop
<1>5. flatten = next(flatten)
  <2> HIDE DEF next
  <2> QED BY <1>4
<1>6. FlattenSeq(ss) = flatten[N]
  BY DEF FlattenSeq
<1>7. \A n \in 1 .. N : flatten[n] = IF n = 1 THEN ss[1] ELSE flatten[n - 1] \o ss[n]
  <2> HIDE DEF flatten, N
  <2> QED BY <1>5
<1> HIDE DEF flatten, next, G
<1>8. \A n \in 1 .. N : flatten[n] \in V[n]
  <2>1. N \in Nat /\ 1 \in Nat
    OBVIOUS
  <2> HIDE DEF N
  <2>2. 1 <= N => flatten[1] \in V[1]
    BY <1>2, <1>7, <2>1
  <2>3. \A n \in 1 + 1 .. N : flatten[n - 1] \in V[n - 1] => flatten[n] \in V[n]
    <3> SUFFICES ASSUME NEW n \in 1 + 1 .. N, flatten[n - 1] \in V[n - 1]
                 PROVE  flatten[n] \in V[n]
      OBVIOUS
    <3>1. n \in 1 .. N /\ n # 1
      BY <2>1
    <3>2. flatten[n] = flatten[n - 1] \o ss[n]
      BY <1>7, <3>1
    <3>3. n \in 2 .. Len(ss)
      BY DEF N
    <3>4. flatten[n - 1] \o ss[n] \in V[n]
      BY Zenon, <3>3
    <3>5. QED
      BY Zenon, <3>2, <3>4
  <2>4. QED
    BY <2>1, <2>2, <2>3, Reaches
<1>9. QED
  BY <1>6, <1>8

\* One interval subtracted after the other.
LEMMA SubtractReaches ==
  ASSUME NEW source, NEW subs, Len(subs) \in Nat, NEW V,
         source \in V[0],
         \A n \in 1 .. Len(subs) : \A v \in V[n - 1] : SubtractEach(v, subs[n]) \in V[n]
  PROVE  SubtractMany(source, subs) \in V[Len(subs)]
<1> DEFINE N == Len(subs)
           next(f) == [n \in 0 .. N |-> IF n = 0 THEN source ELSE SubtractEach(f[n - 1], subs[n])]
           result == CHOOSE f : f = next(f)
           G == [n \in 0 .. N |-> [v \in V[n - 1] |-> SubtractEach(v, subs[n])]]
<1>1. \A n \in 0 + 1 .. N : \A v \in V[n - 1] : G[n][v] = SubtractEach(v, subs[n]) /\ G[n][v] \in V[n]
  OBVIOUS
<1>2. PICK f : IsLoop(f, 0, N, source, G) /\ \A n \in 0 .. N : f[n] \in V[n]
  <2>1. N \in Nat /\ 0 \in Nat /\ (0 <= N => source \in V[0])
    OBVIOUS
  <2> HIDE DEF N, G
  <2>2. \A n \in 0 + 1 .. N : \A v \in V[n - 1] : G[n][v] \in V[n]
    BY <1>1
  <2>3. QED
    BY <2>1, <2>2, Recursion
<1>3. \A n \in 0 .. N : f[n] = IF n = 0 THEN source ELSE SubtractEach(f[n - 1], subs[n])
  <2> SUFFICES ASSUME NEW n \in 0 .. N
               PROVE  f[n] = IF n = 0 THEN source ELSE SubtractEach(f[n - 1], subs[n])
    OBVIOUS
  <2> HIDE DEF G
  <2>1. CASE n = 0
    BY <1>2, <2>1 DEF IsLoop
  <2>2. CASE n # 0
    <3>1. N \in Nat
      OBVIOUS
    <3> HIDE DEF N
    <3>2. n \in 0 + 1 .. N /\ n - 1 \in 0 .. N
      BY <2>2, <3>1
    <3>3. f[n] = G[n][f[n - 1]] /\ f[n - 1] \in V[n - 1]
      BY <1>2, <2>2, <3>2 DEF IsLoop
    <3>4. QED
      BY <1>1, <2>2, <3>2, <3>3
  <2>3. QED
    BY <2>1, <2>2
<1>4. f = next(f)
  <2> HIDE DEF N, G
  <2> QED BY <1>2, <1>3 DEF IsLoop
<1>5. result = next(result)
  <2> HIDE DEF next
  <2> QED BY <1>4
<1>6. SubtractMany(source, subs) = result[N]
  BY DEF SubtractMany
<1>7. \A n \in 0 .. N : result[n] = IF n = 0 THEN source ELSE SubtractEach(result[n - 1], subs[n])
  <2> HIDE DEF result, N
  <2> QED BY <1>5
<1> HIDE DEF result, next, G
<1>8. \A n \in 0 .. N : result[n] \in V[n]
  <2>1. N \in Nat /\ 0 \in Nat
    OBVIOUS
  <2> HIDE DEF N
  <2>2. 0 <= N => result[0] \in V[0]
    BY <1>2, <1>7, <2>1
  <2>3. \A n \in 0 + 1 .. N : result[n - 1] \in V[n - 1] => result[n] \in V[n]
    <3> SUFFICES ASSUME NEW n \in 0 + 1 .. N, result[n - 1] \in V[n - 1]
                 PROVE  result[n] \in V[n]
      OBVIOUS
    <3>1. n \in 0 .. N /\ n # 0
      BY <2>1
    <3>2. result[n] = SubtractEach(result[n - 1], subs[n])
      BY <1>7, <3>1
    <3>3. QED
      BY <3>2 DEF N
  <2>4. QED
    BY <2>1, <2>2, <2>3, Reaches
<1>9. QED
  BY <1>6, <1>8

\* One interval inserted after the other.
LEMMA SortReaches ==
  ASSUME NEW list, Len(list) \in Nat, NEW V,
         <<>> \in V[0],
         \A n \in 1 .. Len(list) : \A v \in V[n - 1] : InsertAt(v, PlaceIn(v, list[n]) + 1, list[n]) \in V[n]
  PROVE  SortByStart(list) \in V[Len(list)]
<1> DEFINE N == Len(list)
           next(f) == [n \in 0 .. N |-> IF n = 0 THEN <<>> ELSE InsertAt(f[n - 1], PlaceIn(f[n - 1], list[n]) + 1, list[n])]
           sorted == CHOOSE f : f = next(f)
           G == [n \in 0 .. N |-> [v \in V[n - 1] |-> InsertAt(v, PlaceIn(v, list[n]) + 1, list[n])]]
<1>1. \A n \in 0 + 1 .. N : \A v \in V[n - 1] : G[n][v] = InsertAt(v, PlaceIn(v, list[n]) + 1, list[n]) /\ G[n][v] \in V[n]
  OBVIOUS
<1>2. PICK f : IsLoop(f, 0, N, <<>>, G) /\ \A n \in 0 .. N : f[n] \in V[n]
  <2>1. N \in Nat /\ 0 \in Nat /\ (0 <= N => <<>> \in V[0])
    OBVIOUS
  <2> HIDE DEF N, G
  <2>2. \A n \in 0 + 1 .. N : \A v \in V[n - 1] : G[n][v] \in V[n]
    BY <1>1
  <2>3. QED
    BY <2>1, <2>2, Recursion
<1>3. \A n \in 0 .. N : f[n] = IF n = 0 THEN <<>> ELSE InsertAt(f[n - 1], PlaceIn(f[n - 1], list[n]) + 1, list[n])
  <2> SUFFICES ASSUME NEW n \in 0 .. N
               PROVE  f[n] = IF n = 0 THEN <<>> ELSE InsertAt(f[n - 1], PlaceIn(f[n - 1], list[n]) + 1, list[n])
    OBVIOUS
  <2> HIDE DEF G
  <2>1. CASE n = 0
    BY <1>2, <2>1 DEF IsLoop
  <2>2. CASE n # 0
    <3>1. N \in Nat
      OBVIOUS
    <3> HIDE DEF N
    <3>2. n \in 0 + 1 .. N /\ n - 1 \in 0 .. N
      BY <2>2, <3>1
    <3>3. f[n] = G[n][f[n - 1]] /\ f[n - 1] \in V[n - 1]
      BY <1>2, <2>2, <3>2 DEF IsLoop
    <3>4. QED
      BY <1>1, <2>2, <3>2, <3>3
  <2>3. QED
    BY <2>1, <2>2
<1>4. f = next(f)
  <2> HIDE DEF N, G
  <2> QED BY <1>2, <1>3 DEF IsLoop
<1>5. sorted = next(sorted)
  <2> HIDE DEF next
  <2> QED BY <1>4
<1>6. SortByStart(list) = sorted[N]
  BY DEF SortByStart
<1>7. \A n \in 0 .. N : sorted[n] = IF n = 0 THEN <<>> ELSE InsertAt(sorted[n - 1], PlaceIn(sorted[n - 1], list[n]) + 1, list[n])
  <2> HIDE DEF sorted, N
  <2> QED BY <1>5
<1> HIDE DEF sorted, next, G
<1>8. \A n \in 0 .. N : sorted[n] \in V[n]
  <2>1. N \in Nat /\ 0 \in Nat
    OBVIOUS
  <2> HIDE DEF N
  <2>2. 0 <= N => sorted[0] \in V[0]
    BY <1>2, <1>7, <2>1
  <2>3. \A n \in 0 + 1 .. N : sorted[n - 1] \in V[n - 1] => sorted[n] \in V[n]
    <3> SUFFICES ASSUME NEW n \in 0 + 1 .. N, sorted[n - 1] \in V[n - 1]
                 PROVE  sorted[n] \in V[n]
      OBVIOUS
    <3>1. n \in 0 .. N /\ n # 0
      BY <2>1
    <3>2. sorted[n] = InsertAt(sorted[n - 1], PlaceIn(sorted[n - 1], list[n]) + 1, list[n])
      BY <1>7, <3>1
    <3>3. QED
      BY <3>2 DEF N
  <2>4. QED
    BY <2>1, <2>2, <2>3, Reaches
<1>9. QED
  BY <1>6, <1>8

\* One interval merged after the other.
LEMMA MergeReaches ==
  ASSUME NEW sorted, Len(sorted) \in Nat \ {0}, NEW V,
         <<sorted[1]>> \in V[1],
         \A n \in 2 .. Len(sorted) : \A v \in V[n - 1] : MergeStep(v, sorted[n]) \in V[n]
  PROVE  MergePass(sorted) \in V[Len(sorted)]
<1> DEFINE N == Len(sorted)
           next(f) == [n \in 1 .. N |-> IF n = 1 THEN <<sorted[1]>> ELSE MergeStep(f[n - 1], sorted[n])]
           merged == CHOOSE f : f = next(f)
           G == [n \in 1 .. N |-> [v \in V[n - 1] |-> MergeStep(v, sorted[n])]]
<1>1. \A n \in 1 + 1 .. N : \A v \in V[n - 1] : G[n][v] = MergeStep(v, sorted[n]) /\ G[n][v] \in V[n]
  OBVIOUS
<1>2. PICK f : IsLoop(f, 1, N, <<sorted[1]>>, G) /\ \A n \in 1 .. N : f[n] \in V[n]
  <2>1. N \in Nat /\ 1 \in Nat /\ (1 <= N => <<sorted[1]>> \in V[1])
    OBVIOUS
  <2> HIDE DEF N, G
  <2>2. \A n \in 1 + 1 .. N : \A v \in V[n - 1] : G[n][v] \in V[n]
    BY <1>1
  <2>3. QED
    BY <2>1, <2>2, Recursion
<1>3. \A n \in 1 .. N : f[n] = IF n = 1 THEN <<sorted[1]>> ELSE MergeStep(f[n - 1], sorted[n])
  <2> SUFFICES ASSUME NEW n \in 1 .. N
               PROVE  f[n] = IF n = 1 THEN <<sorted[1]>> ELSE MergeStep(f[n - 1], sorted[n])
    OBVIOUS
  <2> HIDE DEF G
  <2>1. CASE n = 1
    BY <1>2, <2>1 DEF IsLoop
  <2>2. CASE n # 1
    <3>1. N \in Nat
      OBVIOUS
    <3> HIDE DEF N
    <3>2. n \in 1 + 1 .. N /\ n - 1 \in 1 .. N
      BY <2>2, <3>1
    <3>3. f[n] = G[n][f[n - 1]] /\ f[n - 1] \in V[n - 1]
      BY <1>2, <2>2, <3>2 DEF IsLoop
    <3>4. QED
      BY <1>1, <2>2, <3>2, <3>3
  <2>3. QED
    BY <2>1, <2>2
<1>4. f = next(f)
  <2> HIDE DEF N, G
  <2> QED BY <1>2, <1>3 DEF IsLoop
<1>5. merged = next(merged)
  <2> HIDE DEF next
  <2> QED BY <1>4
<1>6. MergePass(sorted) = merged[N]
  BY DEF MergePass
<1>7. \A n \in 1 .. N : merged[n] = IF n = 1 THEN <<sorted[1]>> ELSE MergeStep(merged[n - 1], sorted[n])
  <2> HIDE DEF merged, N
  <2> QED BY <1>5
<1> HIDE DEF merged, next, G
<1>8. \A n \in 1 .. N : merged[n] \in V[n]
  <2>1. N \in Nat /\ 1 \in Nat
    OBVIOUS
  <2> HIDE DEF N
  <2>2. 1 <= N => merged[1] \in V[1]
    BY <1>2, <1>7, <2>1
  <2>3. \A n \in 1 + 1 .. N : merged[n - 1] \in V[n - 1] => merged[n] \in V[n]
    <3> SUFFICES ASSUME NEW n \in 1 + 1 .. N, merged[n - 1] \in V[n - 1]
                 PROVE  merged[n] \in V[n]
      OBVIOUS
    <3>1. n \in 1 .. N /\ n # 1
      BY <2>1
    <3>2. merged[n] = MergeStep(merged[n - 1], sorted[n])
      BY <1>7, <3>1
    <3>3. QED
      BY <3>2 DEF N
  <2>4. QED
    BY <2>1, <2>2, <2>3, Reaches
<1>9. QED
  BY <1>6, <1>8

-----------------------------------------------------------------------------
\* Lists of intervals.

TimeIntervals == {i \in [start : Int, end : Int] : i.start < i.end}

Covered(list, t) == \E k \in DOMAIN list : Covers(list[k], t)

LEMMA IntervalBounds == \A i \in TimeIntervals : i.start \in Int /\ i.end \in Int /\ i.start < i.end
  BY DEF TimeIntervals

\* In order, with time between any two.
Canonical(list) == \A j, k \in DOMAIN list : j < k => list[j].end < list[k].start

\* The bounds of an interval, whatever else is in the row.
Bounded(o) == o.start \in Int /\ o.end \in Int /\ o.start < o.end

LEMMA JoinedLists ==
  ASSUME NEW S, NEW v \in Seq(S), NEW w \in Seq(S)
  PROVE  /\ v \o w \in Seq(S)
         /\ \A k \in DOMAIN v : k \in DOMAIN (v \o w) /\ (v \o w)[k] = v[k]
         /\ \A k \in DOMAIN w : Len(v) + k \in DOMAIN (v \o w) /\ (v \o w)[Len(v) + k] = w[k]
         /\ \A k \in DOMAIN (v \o w) :
              \/ k \in DOMAIN v /\ (v \o w)[k] = v[k]
              \/ k - Len(v) \in DOMAIN w /\ ~ (k <= Len(v)) /\ (v \o w)[k] = w[k - Len(v)]
         /\ DOMAIN v = 1 .. Len(v) /\ DOMAIN w = 1 .. Len(w) /\ Len(v) \in Nat /\ Len(w) \in Nat
<1>1. /\ v \o w \in Seq(S) /\ Len(v) \in Nat /\ Len(w) \in Nat
      /\ DOMAIN v = 1 .. Len(v) /\ DOMAIN w = 1 .. Len(w)
      /\ DOMAIN (v \o w) = 1 .. (Len(v) + Len(w))
  OBVIOUS
<1>2. \A k \in DOMAIN v : k \in DOMAIN (v \o w) /\ (v \o w)[k] = v[k]
  BY <1>1
<1>3. \A k \in DOMAIN w : Len(v) + k \in DOMAIN (v \o w) /\ (v \o w)[Len(v) + k] = w[k]
  BY <1>1
<1>4. ASSUME NEW k \in DOMAIN (v \o w)
      PROVE  \/ k \in DOMAIN v /\ (v \o w)[k] = v[k]
             \/ k - Len(v) \in DOMAIN w /\ ~ (k <= Len(v)) /\ (v \o w)[k] = w[k - Len(v)]
  <2>1. CASE k <= Len(v)
    BY <1>1, <1>2, <2>1
  <2>2. CASE ~ (k <= Len(v))
    <3>1. k - Len(v) \in DOMAIN w /\ k = Len(v) + (k - Len(v))
      BY <1>1, <2>2
    <3>2. QED
      BY <1>3, <2>2, <3>1
  <2>3. QED
    BY <2>1, <2>2
<1>5. QED
  BY <1>1, <1>2, <1>3, <1>4

LEMMA JoinedCover ==
  ASSUME NEW S, NEW v \in Seq(S), NEW w \in Seq(S), NEW t
  PROVE  Covered(v \o w, t) <=> Covered(v, t) \/ Covered(w, t)
<1>1. Covered(v \o w, t) => Covered(v, t) \/ Covered(w, t)
  BY JoinedLists DEF Covered
<1>2. ASSUME Covered(v, t) PROVE Covered(v \o w, t)
  <2>1. PICK k \in DOMAIN v : Covers(v[k], t)
    BY <1>2 DEF Covered
  <2>2. k \in DOMAIN (v \o w) /\ (v \o w)[k] = v[k]
    BY JoinedLists
  <2>3. QED
    BY <2>1, <2>2 DEF Covered
<1>3. ASSUME Covered(w, t) PROVE Covered(v \o w, t)
  <2>1. PICK k \in DOMAIN w : Covers(w[k], t)
    BY <1>3 DEF Covered
  <2>2. Len(v) + k \in DOMAIN (v \o w) /\ (v \o w)[Len(v) + k] = w[k]
    BY JoinedLists
  <2>3. QED
    BY <2>1, <2>2 DEF Covered
<1>4. QED
  BY <1>1, <1>2, <1>3

LEMMA JoinedCanonical ==
  ASSUME NEW v \in Seq(TimeIntervals), NEW w \in Seq(TimeIntervals), Canonical(v), Canonical(w),
         \A j \in DOMAIN v, k \in DOMAIN w : v[j].end < w[k].start
  PROVE  Canonical(v \o w)
<1> DEFINE all == v \o w
<1>1. /\ \A k \in DOMAIN all :
           \/ k \in DOMAIN v /\ all[k] = v[k]
           \/ k - Len(v) \in DOMAIN w /\ ~ (k <= Len(v)) /\ all[k] = w[k - Len(v)]
      /\ DOMAIN v = 1 .. Len(v) /\ Len(v) \in Nat /\ DOMAIN all \subseteq Nat
      /\ DOMAIN w = 1 .. Len(w) /\ Len(w) \in Nat
  BY JoinedLists
<1> HIDE DEF all
<1>2. ASSUME NEW j \in DOMAIN all, NEW k \in DOMAIN all, j < k
      PROVE  all[j].end < all[k].start
  <2>1. CASE j \in DOMAIN v /\ k \in DOMAIN v
    BY <1>1, <1>2, <2>1 DEF Canonical
  <2>2. CASE j \in DOMAIN v /\ k \notin DOMAIN v
    BY <1>1, <1>2, <2>2
  <2>3. CASE j \notin DOMAIN v /\ k \in DOMAIN v
    BY <1>1, <1>2, <2>3
  <2>4. CASE j \notin DOMAIN v /\ k \notin DOMAIN v
    <3>1. j - Len(v) \in DOMAIN w /\ k - Len(v) \in DOMAIN w /\ j - Len(v) < k - Len(v)
      BY <1>1, <1>2, <2>4
    <3>2. all[j] = w[j - Len(v)] /\ all[k] = w[k - Len(v)]
      BY <1>1, <2>4
    <3>3. QED
      BY <3>1, <3>2 DEF Canonical
  <2>5. QED
    BY <2>1, <2>2, <2>3, <2>4
<1>3. QED
  BY <1>2 DEF Canonical, all

\* What is left of an interval (TimeInterval.subtract).
LEMMA SubtractExact ==
  ASSUME NEW i \in TimeIntervals, NEW o, Bounded(o)
  PROVE  /\ Subtract(i, o) \in Seq(TimeIntervals)
         /\ Canonical(Subtract(i, o))
         /\ \A k \in DOMAIN Subtract(i, o) :
              i.start <= Subtract(i, o)[k].start /\ Subtract(i, o)[k].end <= i.end
         /\ \A t \in Int : Covered(Subtract(i, o), t) <=> Covers(i, t) /\ ~ Covers(o, t)
<1> DEFINE before == Interval(i.start, o.start)
           after  == Interval(o.end, i.end)
<1>1. /\ i.start \in Int /\ i.end \in Int /\ i.start < i.end
      /\ o.start \in Int /\ o.end \in Int /\ o.start < o.end
  BY DEF TimeIntervals, Bounded
<1>2. /\ before.start = i.start /\ before.end = o.start /\ (i.start < o.start => before \in TimeIntervals)
      /\ after.start = o.end /\ after.end = i.end /\ (o.end < i.end => after \in TimeIntervals)
  BY <1>1 DEF Interval, TimeIntervals
<1> HIDE DEF before, after
<1>3. ASSUME NEW x \in TimeIntervals
      PROVE  /\ <<x>> \in Seq(TimeIntervals) /\ Canonical(<<x>>) /\ DOMAIN <<x>> = {1} /\ <<x>>[1] = x
             /\ \A t : Covered(<<x>>, t) <=> Covers(x, t)
  BY DEF Canonical, Covered
<1>4. CASE ~ Overlaps(i, o)
  <2>1. Subtract(i, o) = <<i>>
    BY <1>4 DEF Subtract
  <2>2. \A t \in Int : Covers(i, t) => ~ Covers(o, t)
    BY <1>1, <1>4 DEF Covers, Overlaps
  <2>3. QED
    BY <1>1, <1>3, <2>1, <2>2
<1>5. CASE Overlaps(i, o)
  <2>1. i.start < o.end /\ o.start < i.end
    BY <1>5 DEF Overlaps
  <2>2. Subtract(i, o) = (IF i.start < o.start THEN <<before>> ELSE <<>>)
                           \o (IF i.end > o.end THEN <<after>> ELSE <<>>)
    BY <1>5 DEF Subtract, before, after
  <2>3. CASE i.start < o.start /\ o.end < i.end
    <3>1. Subtract(i, o) = <<before>> \o <<after>> /\ before \in TimeIntervals /\ after \in TimeIntervals
      BY <1>1, <1>2, <2>2, <2>3
    <3>2. /\ <<before>> \in Seq(TimeIntervals) /\ <<after>> \in Seq(TimeIntervals)
          /\ DOMAIN <<before>> = {1} /\ DOMAIN <<after>> = {1} /\ <<before>>[1] = before /\ <<after>>[1] = after
          /\ Canonical(<<before>>) /\ Canonical(<<after>>)
      BY <1>3, <3>1
    <3>3. Canonical(Subtract(i, o))
      <4>1. before.end < after.start
        BY <1>1, <1>2
      <4>2. Canonical(<<before>> \o <<after>>)
        BY <3>2, <4>1, JoinedCanonical
      <4>3. QED
        BY <3>1, <4>2
    <3>4. \A t \in Int : Covered(Subtract(i, o), t) <=> Covers(i, t) /\ ~ Covers(o, t)
      <4> SUFFICES ASSUME NEW t \in Int
                   PROVE  Covered(Subtract(i, o), t) <=> Covers(i, t) /\ ~ Covers(o, t)
        OBVIOUS
      <4>1. Covered(<<before>> \o <<after>>, t) <=> Covered(<<before>>, t) \/ Covered(<<after>>, t)
        BY <3>2, JoinedCover
      <4>2. Covered(<<before>>, t) <=> Covers(before, t)
        BY <1>3, <3>1
      <4>3. Covered(<<after>>, t) <=> Covers(after, t)
        BY <1>3, <3>1
      <4>4. Covers(before, t) \/ Covers(after, t) <=> Covers(i, t) /\ ~ Covers(o, t)
        BY <1>1, <1>2, <2>1, <2>3 DEF Covers
      <4>5. QED
        BY <3>1, <4>1, <4>2, <4>3, <4>4
    <3>5. /\ Subtract(i, o) \in Seq(TimeIntervals)
          /\ \A k \in DOMAIN Subtract(i, o) : Subtract(i, o)[k] = before \/ Subtract(i, o)[k] = after
      <4>1. /\ <<before>> \o <<after>> \in Seq(TimeIntervals)
            /\ \A k \in DOMAIN (<<before>> \o <<after>>) :
                 (<<before>> \o <<after>>)[k] = before \/ (<<before>> \o <<after>>)[k] = after
        BY <3>2, JoinedLists
      <4>2. QED
        BY <3>1, <4>1
    <3>6. \A k \in DOMAIN Subtract(i, o) :
            i.start <= Subtract(i, o)[k].start /\ Subtract(i, o)[k].end <= i.end
      BY <1>1, <1>2, <2>1, <2>3, <3>5
    <3>7. QED
      BY <3>3, <3>4, <3>5, <3>6
  <2>4. CASE i.start < o.start /\ ~ (o.end < i.end)
    <3>1. Subtract(i, o) = <<before>> /\ before \in TimeIntervals
      BY <1>1, <1>2, <2>2, <2>4
    <3>2. \A t \in Int : Covers(before, t) <=> Covers(i, t) /\ ~ Covers(o, t)
      BY <1>1, <1>2, <2>1, <2>4 DEF Covers
    <3>3. QED
      BY <1>1, <1>2, <1>3, <2>1, <3>1, <3>2
  <2>5. CASE ~ (i.start < o.start) /\ o.end < i.end
    <3>1. Subtract(i, o) = <<after>> /\ after \in TimeIntervals
      BY <1>1, <1>2, <2>2, <2>5
    <3>2. \A t \in Int : Covers(after, t) <=> Covers(i, t) /\ ~ Covers(o, t)
      BY <1>1, <1>2, <2>1, <2>5 DEF Covers
    <3>3. QED
      BY <1>1, <1>2, <1>3, <2>1, <3>1, <3>2
  <2>6. CASE ~ (i.start < o.start) /\ ~ (o.end < i.end)
    <3>1. Subtract(i, o) = <<>>
      BY <1>1, <2>2, <2>6
    <3>2. \A t \in Int : ~ (Covers(i, t) /\ ~ Covers(o, t))
      BY <1>1, <2>6 DEF Covers
    <3>3. <<>> \in Seq(TimeIntervals) /\ DOMAIN <<>> = {}
      OBVIOUS
    <3>4. QED
      BY <3>1, <3>2, <3>3 DEF Canonical, Covered
  <2>7. QED
    BY <2>3, <2>4, <2>5, <2>6
<1>6. QED
  BY <1>4, <1>5

\* What is left of the first n intervals of a list.
LeftOf(list, n, o) ==
  {v \in Seq(TimeIntervals) :
     /\ Canonical(v)
     /\ \A k \in DOMAIN v : v[k].end <= list[n].end
     /\ \A t \in Int : Covered(v, t) <=> (\E k \in 1 .. n : Covers(list[k], t)) /\ ~ Covers(o, t)}

\* What is left of a list of intervals in order is in order again (subtractMany, one step).
LEMMA SubtractEachExact ==
  ASSUME NEW list \in Seq(TimeIntervals), Canonical(list), NEW o, Bounded(o)
  PROVE  /\ SubtractEach(list, o) \in Seq(TimeIntervals)
         /\ Canonical(SubtractEach(list, o))
         /\ \A t \in Int : Covered(SubtractEach(list, o), t) <=> Covered(list, t) /\ ~ Covers(o, t)
<1> DEFINE ss == [k \in DOMAIN list |-> Subtract(list[k], o)]
<1>1. /\ Len(list) \in Nat /\ DOMAIN list = 1 .. Len(list)
      /\ \A k \in DOMAIN list : list[k] \in TimeIntervals
  OBVIOUS
<1>2. DOMAIN ss = 1 .. Len(list) /\ Len(ss) = Len(list) /\ \A k \in DOMAIN list : ss[k] = Subtract(list[k], o)
  BY <1>1
<1>3. SubtractEach(list, o) = FlattenSeq(ss)
  BY DEF SubtractEach
<1> HIDE DEF ss
<1>4. CASE Len(list) = 0
  <2>1. ss = <<>> /\ FlattenSeq(ss) = <<>>
    BY <1>2, <1>4 DEF FlattenSeq
  <2>2. <<>> \in Seq(TimeIntervals) /\ DOMAIN <<>> = {} /\ DOMAIN list = {}
    BY <1>1, <1>4
  <2>3. QED
    BY <1>3, <2>1, <2>2 DEF Canonical, Covered
<1>5. CASE Len(list) # 0
  <2> DEFINE V == [n \in 1 .. Len(list) |-> LeftOf(list, n, o)]
  <2>1. \A n \in 1 .. Len(list) : V[n] = LeftOf(list, n, o)
    OBVIOUS
  <2> HIDE DEF V
  <2>2. ss[1] \in V[1]
    <3>1. 1 \in DOMAIN list /\ ss[1] = Subtract(list[1], o) /\ list[1] \in TimeIntervals
      BY <1>1, <1>2, <1>5
    <3>2. /\ ss[1] \in Seq(TimeIntervals) /\ Canonical(ss[1])
          /\ \A k \in DOMAIN ss[1] : ss[1][k].end <= list[1].end
          /\ \A t \in Int : Covered(ss[1], t) <=> Covers(list[1], t) /\ ~ Covers(o, t)
      BY <3>1, SubtractExact
    <3>3. \A t : Covers(list[1], t) <=> \E k \in 1 .. 1 : Covers(list[k], t)
      OBVIOUS
    <3>4. ss[1] \in LeftOf(list, 1, o)
      BY <3>2, <3>3 DEF LeftOf
    <3>5. QED
      BY <1>1, <1>5, <2>1, <3>4
  <2>3. ASSUME NEW n \in 2 .. Len(list), NEW v \in V[n - 1] PROVE v \o ss[n] \in V[n]
    <3>1. n \in DOMAIN list /\ n - 1 \in DOMAIN list /\ n - 1 < n /\ n - 1 \in 1 .. Len(list)
      BY <1>1
    <3>2. /\ list[n - 1] \in TimeIntervals /\ list[n] \in TimeIntervals
          /\ list[n - 1].end < list[n].start /\ list[n].start < list[n].end
          /\ list[n - 1].end \in Int /\ list[n].start \in Int /\ list[n].end \in Int
      BY <3>1 DEF Canonical, TimeIntervals
    <3>3. v \in LeftOf(list, n - 1, o)
      BY <2>1, <3>1
    <3>4. /\ v \in Seq(TimeIntervals) /\ Canonical(v)
          /\ \A k \in DOMAIN v : v[k].end <= list[n - 1].end
          /\ \A t \in Int : Covered(v, t) <=> (\E k \in 1 .. n - 1 : Covers(list[k], t)) /\ ~ Covers(o, t)
      BY <3>3 DEF LeftOf
    <3>5. /\ ss[n] \in Seq(TimeIntervals) /\ Canonical(ss[n])
          /\ \A k \in DOMAIN ss[n] : list[n].start <= ss[n][k].start /\ ss[n][k].end <= list[n].end
          /\ \A t \in Int : Covered(ss[n], t) <=> Covers(list[n], t) /\ ~ Covers(o, t)
      BY <1>2, <3>1, <3>2, SubtractExact
    <3>6. /\ \A k \in DOMAIN v : v[k] \in TimeIntervals /\ v[k].end \in Int
          /\ \A k \in DOMAIN ss[n] : ss[n][k] \in TimeIntervals /\ ss[n][k].start \in Int /\ ss[n][k].end \in Int
      <4>1. \A k \in DOMAIN v : v[k] \in TimeIntervals
        BY <3>4
      <4>2. \A k \in DOMAIN ss[n] : ss[n][k] \in TimeIntervals
        BY <3>5
      <4>3. QED
        BY <4>1, <4>2, IntervalBounds
    <3>7. Canonical(v \o ss[n])
      <4>1. \A j \in DOMAIN v, k \in DOMAIN ss[n] : v[j].end < ss[n][k].start
        BY <3>2, <3>4, <3>5, <3>6
      <4>2. QED
        BY <3>4, <3>5, <4>1, JoinedCanonical
    <3>8. \A k \in DOMAIN (v \o ss[n]) : (v \o ss[n])[k].end <= list[n].end
      <4> TAKE k \in DOMAIN (v \o ss[n])
      <4>1. CASE k \in DOMAIN v /\ (v \o ss[n])[k] = v[k]
        BY <3>2, <3>4, <3>6, <4>1
      <4>2. CASE k - Len(v) \in DOMAIN ss[n] /\ (v \o ss[n])[k] = ss[n][k - Len(v)]
        BY <3>5, <4>2
      <4>3. QED
        BY <3>4, <3>5, <4>1, <4>2, JoinedLists
    <3>9. ASSUME NEW t \in Int
          PROVE  Covered(v \o ss[n], t) <=> (\E k \in 1 .. n : Covers(list[k], t)) /\ ~ Covers(o, t)
      <4>1. Covered(v \o ss[n], t) <=> Covered(v, t) \/ Covered(ss[n], t)
        BY <3>4, <3>5, JoinedCover
      <4>2. (\E k \in 1 .. n : Covers(list[k], t)) <=>
              (\E k \in 1 .. n - 1 : Covers(list[k], t)) \/ Covers(list[n], t)
        <5>1. 1 .. n = (1 .. n - 1) \cup {n}
          BY <1>1
        <5>2. QED
          BY <5>1
      <4>3. QED
        BY <3>4, <3>5, <4>1, <4>2
    <3>10. v \o ss[n] \in Seq(TimeIntervals)
      BY <3>4, <3>5, JoinedLists
    <3>11. v \o ss[n] \in LeftOf(list, n, o)
      BY <3>7, <3>8, <3>9, <3>10 DEF LeftOf
    <3>12. QED
      BY <1>1, <2>1, <3>1, <3>11
  <2>4. FlattenSeq(ss) \in V[Len(ss)]
    <3>1. Len(ss) \in Nat \ {0} /\ \A n \in 2 .. Len(ss) : \A v \in V[n - 1] : v \o ss[n] \in V[n]
      BY <1>1, <1>2, <1>5, <2>3
    <3>2. QED
      BY <2>2, <3>1, FlattenReaches
  <2>5. FlattenSeq(ss) \in LeftOf(list, Len(list), o)
    BY <1>1, <1>2, <1>5, <2>1, <2>4
  <2>6. \A t : Covered(list, t) <=> \E k \in 1 .. Len(list) : Covers(list[k], t)
    BY <1>1 DEF Covered
  <2>7. QED
    BY <1>3, <2>5, <2>6 DEF LeftOf
<1>6. QED
  BY <1>4, <1>5

\* What is left when a list of intervals is subtracted (TimeInterval.subtractMany).
LEMMA SubtractManyExact ==
  ASSUME NEW source \in Seq(TimeIntervals), Canonical(source), NEW subs, Len(subs) \in Nat,
         DOMAIN subs = 1 .. Len(subs), \A n \in DOMAIN subs : Bounded(subs[n])
  PROVE  /\ SubtractMany(source, subs) \in Seq(TimeIntervals)
         /\ Canonical(SubtractMany(source, subs))
         /\ \A t \in Int : Covered(SubtractMany(source, subs), t) <=> Covered(source, t) /\ ~ Covered(subs, t)
<1> DEFINE Left(n) == {v \in Seq(TimeIntervals) :
                         /\ Canonical(v)
                         /\ \A t \in Int : Covered(v, t) <=> Covered(source, t) /\ ~ \E k \in 1 .. n : Covers(subs[k], t)}
           V == [n \in 0 .. Len(subs) |-> Left(n)]
<1>1. \A n \in 0 .. Len(subs) : V[n] = Left(n)
  OBVIOUS
<1> HIDE DEF V
<1>2. source \in V[0]
  <2>1. 1 .. 0 = {}
    OBVIOUS
  <2>2. source \in Left(0)
    BY <2>1
  <2>3. QED
    BY <1>1, <2>2
<1>3. ASSUME NEW n \in 1 .. Len(subs), NEW v \in V[n - 1] PROVE SubtractEach(v, subs[n]) \in V[n]
  <2>1. v \in Left(n - 1) /\ Bounded(subs[n])
    <3>1. n - 1 \in 0 .. Len(subs) /\ n \in DOMAIN subs
      OBVIOUS
    <3>2. V[n - 1] = Left(n - 1)
      BY <1>1, <3>1
    <3> HIDE DEF Left
    <3>3. QED
      BY <3>1, <3>2
  <2> DEFINE w == SubtractEach(v, subs[n])
  <2>2. /\ w \in Seq(TimeIntervals) /\ Canonical(w)
        /\ \A t \in Int : Covered(w, t) <=> Covered(v, t) /\ ~ Covers(subs[n], t)
    BY <2>1, SubtractEachExact
  <2>3. 1 .. n = (1 .. n - 1) \cup {n}
    OBVIOUS
  <2> HIDE DEF w
  <2>4. ASSUME NEW t \in Int
        PROVE  Covered(w, t) <=> Covered(source, t) /\ ~ \E k \in 1 .. n : Covers(subs[k], t)
    <3>1. Covered(v, t) <=> Covered(source, t) /\ ~ \E k \in 1 .. n - 1 : Covers(subs[k], t)
      BY <2>1
    <3>2. (\E k \in 1 .. n : Covers(subs[k], t)) <=>
            (\E k \in 1 .. n - 1 : Covers(subs[k], t)) \/ Covers(subs[n], t)
      BY Zenon, <2>3
    <3>3. QED
      BY <2>2, <3>1, <3>2
  <2>5. w \in Left(n)
    BY <2>2, <2>4
  <2> HIDE DEF Left
  <2>6. V[n] = Left(n)
    <3>1. n \in 0 .. Len(subs)
      OBVIOUS
    <3>2. QED
      BY <1>1, <3>1
  <2>7. QED
    BY <2>5, <2>6 DEF w
<1>4. SubtractMany(source, subs) \in V[Len(subs)]
  BY <1>2, <1>3, SubtractReaches
<1>5. SubtractMany(source, subs) \in Left(Len(subs))
  BY <1>1, <1>4
<1>6. \A t : Covered(subs, t) <=> \E k \in 1 .. Len(subs) : Covers(subs[k], t)
  BY DEF Covered
<1>7. QED
  BY <1>5, <1>6

\* Sorted by start.
Sorted(list) == \A j, k \in DOMAIN list : j <= k => list[j].start <= list[k].start

LEMMA InsertedAt ==
  ASSUME NEW S, NEW v \in Seq(S), NEW x \in S, NEW n \in 0 .. Len(v)
  PROVE  /\ InsertAt(v, n + 1, x) \in Seq(S)
         /\ Len(InsertAt(v, n + 1, x)) = Len(v) + 1
         /\ \A k \in 1 .. Len(v) + 1 :
              InsertAt(v, n + 1, x)[k] = IF k <= n THEN v[k] ELSE IF k = n + 1 THEN x ELSE v[k - 1]
<1> DEFINE first == SubSeq(v, 1, (n + 1) - 1)
           rest  == SubSeq(v, n + 1, Len(v))
<1>1. Len(v) \in Nat /\ n \in Nat /\ n <= Len(v) /\ n + 1 - 1 = n
  OBVIOUS
<1>2. first \in Seq(S) /\ Len(first) = n /\ \A k \in 1 .. n : first[k] = v[k]
  BY <1>1
<1>3. rest \in Seq(S) /\ Len(rest) = Len(v) - n /\ \A k \in 1 .. Len(v) - n : rest[k] = v[n + k]
  BY <1>1
<1>4. InsertAt(v, n + 1, x) = (first \o <<x>>) \o rest
  BY ZenonT(20) DEF InsertAt
<1> HIDE DEF first, rest
<1> DEFINE upTo == first \o <<x>>
<1>5. upTo \in Seq(S) /\ Len(upTo) = n + 1 /\ upTo[n + 1] = x /\ \A k \in 1 .. n : upTo[k] = v[k]
  BY <1>1, <1>2
<1> HIDE DEF upTo
<1>6. upTo \o rest \in Seq(S) /\ Len(upTo \o rest) = Len(v) + 1
  BY <1>1, <1>3, <1>5
<1>7. \A k \in 1 .. n + 1 : (upTo \o rest)[k] = upTo[k]
  BY <1>1, <1>3, <1>5
<1>8. ASSUME NEW k \in n + 2 .. Len(v) + 1 PROVE (upTo \o rest)[k] = v[k - 1]
  <2>1. k - (n + 1) \in 1 .. Len(v) - n /\ n + (k - (n + 1)) = k - 1
    BY <1>1
  <2>2. (upTo \o rest)[k] = rest[k - (n + 1)]
    BY <1>1, <1>3, <1>5, <2>1
  <2>3. QED
    BY <1>3, <2>1, <2>2
<1>9. ASSUME NEW k \in 1 .. Len(v) + 1
      PROVE  (upTo \o rest)[k] = IF k <= n THEN v[k] ELSE IF k = n + 1 THEN x ELSE v[k - 1]
  <2>1. CASE k <= n
    <3>1. k \in 1 .. n /\ k \in 1 .. n + 1
      BY <1>1, <2>1
    <3>2. QED
      BY <1>5, <1>7, <2>1, <3>1
  <2>2. CASE k = n + 1
    <3>1. k \in 1 .. n + 1 /\ ~ (k <= n)
      BY <1>1, <2>2
    <3>2. QED
      BY <1>5, <1>7, <2>2, <3>1
  <2>3. CASE n + 1 < k
    <3>1. k \in n + 2 .. Len(v) + 1 /\ ~ (k <= n) /\ k # n + 1
      BY <1>1, <2>3
    <3>2. QED
      BY <1>8, <3>1
  <2>4. k <= n \/ k = n + 1 \/ n + 1 < k
    BY <1>1
  <2>5. QED
    BY <2>1, <2>2, <2>3, <2>4
<1>10. InsertAt(v, n + 1, x) = upTo \o rest
  BY <1>4 DEF upTo
<1> DEFINE w == upTo \o rest
<1> HIDE DEF w
<1>11. w = InsertAt(v, n + 1, x)
  BY <1>10 DEF w
<1>12. w \in Seq(S) /\ Len(w) = Len(v) + 1
  BY <1>6 DEF w
<1>13. \A k \in 1 .. Len(v) + 1 : w[k] = IF k <= n THEN v[k] ELSE IF k = n + 1 THEN x ELSE v[k - 1]
  BY Zenon, <1>9 DEF w
<1>14. QED
  BY Zenon, <1>11, <1>12, <1>13

\* A sorted list has a place for every interval.
LEMMA PlaceExists ==
  ASSUME NEW v \in Seq(TimeIntervals), Sorted(v), NEW x \in TimeIntervals
  PROVE  /\ PlaceIn(v, x) \in 0 .. Len(v)
         /\ \A k \in 1 .. PlaceIn(v, x) : v[k].start <= x.start
         /\ \A k \in PlaceIn(v, x) + 1 .. Len(v) : x.start < v[k].start
<1> DEFINE Place(n) == /\ \A k \in 1 .. n : v[k].start <= x.start
                       /\ \A k \in n + 1 .. Len(v) : x.start < v[k].start
           later == {n \in 1 .. Len(v) : x.start < v[n].start}
<1>1. /\ Len(v) \in Nat /\ DOMAIN v = 1 .. Len(v) /\ x.start \in Int
      /\ \A k \in 1 .. Len(v) : v[k] \in TimeIntervals /\ v[k].start \in Int
  BY IntervalBounds
<1>2. \E n \in 0 .. Len(v) : Place(n)
  <2>1. CASE later = {}
    <3>1. Len(v) \in 0 .. Len(v) /\ Place(Len(v))
      BY <1>1, <2>1
    <3>2. QED
      BY <3>1
  <2>2. CASE later # {}
    <3>1. later \in SUBSET Nat
      BY <1>1
    <3>2. \E m \in later : \A n \in later : m <= n
      <4> HIDE DEF later
      <4> QED BY <2>2, <3>1, Least
    <3>3. PICK m \in later : \A n \in later : m <= n
      BY <3>2
    <3>4. m \in 1 .. Len(v) /\ x.start < v[m].start /\ m - 1 \in 0 .. Len(v) /\ (m - 1) + 1 = m
      BY <1>1, <3>3
    <3>5. ASSUME NEW k \in 1 .. m - 1 PROVE v[k].start <= x.start
      <4>1. k \in 1 .. Len(v) /\ ~ (m <= k)
        BY <1>1, <3>4
      <4>2. ~ (x.start < v[k].start)
        BY <3>3, <4>1
      <4>3. QED
        BY <1>1, <4>1, <4>2
    <3>6. ASSUME NEW k \in m .. Len(v) PROVE x.start < v[k].start
      <4>1. k \in 1 .. Len(v) /\ m <= k
        BY <1>1, <3>4
      <4>2. v[m].start <= v[k].start
        BY <1>1, <3>4, <4>1 DEF Sorted
      <4>3. QED
        BY <1>1, <3>4, <4>1, <4>2
    <3>7. Place(m - 1)
      BY <3>4, <3>5, <3>6
    <3>8. QED
      BY <3>4, <3>7
  <2>3. QED
    BY <2>1, <2>2
<1>3. PlaceIn(v, x) = CHOOSE n \in 0 .. Len(v) : Place(n)
  BY DEF PlaceIn
<1>4. PlaceIn(v, x) \in 0 .. Len(v) /\ Place(PlaceIn(v, x))
  <2> HIDE DEF Place
  <2> QED BY <1>2, <1>3
<1>5. QED
  BY <1>4

LEMMA InsertedSorted ==
  ASSUME NEW v \in Seq(TimeIntervals), Sorted(v), NEW x \in TimeIntervals
  PROVE  LET w == InsertAt(v, PlaceIn(v, x) + 1, x)
         IN  /\ w \in Seq(TimeIntervals) /\ Len(w) = Len(v) + 1 /\ Sorted(w)
             /\ \A t : Covered(w, t) <=> Covered(v, t) \/ Covers(x, t)
<1> DEFINE p == PlaceIn(v, x)
           w == InsertAt(v, p + 1, x)
<1>1. /\ p \in 0 .. Len(v)
      /\ \A k \in 1 .. p : v[k].start <= x.start
      /\ \A k \in p + 1 .. Len(v) : x.start < v[k].start
  BY PlaceExists
<1> HIDE DEF p
<1>2. /\ w \in Seq(TimeIntervals) /\ Len(w) = Len(v) + 1
      /\ \A k \in 1 .. Len(v) + 1 : w[k] = IF k <= p THEN v[k] ELSE IF k = p + 1 THEN x ELSE v[k - 1]
  BY <1>1, InsertedAt
<1> HIDE DEF w
<1>3. /\ Len(v) \in Nat /\ p \in Nat /\ DOMAIN v = 1 .. Len(v) /\ DOMAIN w = 1 .. Len(v) + 1 /\ x.start \in Int
      /\ \A k \in 1 .. Len(v) : v[k] \in TimeIntervals /\ v[k].start \in Int
  BY <1>1, <1>2, IntervalBounds
<1>4. ASSUME NEW j \in 1 .. Len(v) + 1, NEW k \in 1 .. Len(v) + 1, j <= k PROVE w[j].start <= w[k].start
  <2>1. CASE j <= p
    <3>1. j \in 1 .. Len(v) /\ w[j] = v[j] /\ v[j].start <= x.start
      BY <1>1, <1>2, <1>3, <2>1
    <3>2. CASE k <= p
      <4>1. k \in 1 .. Len(v) /\ w[k] = v[k]
        BY <1>1, <1>2, <1>3, <3>2
      <4>2. QED
        BY <1>3, <1>4, <3>1, <4>1 DEF Sorted
    <3>3. CASE k = p + 1
      <4>1. w[k] = x
        BY <1>2, <1>3, <3>3
      <4>2. QED
        BY <3>1, <4>1
    <3>4. CASE p + 1 < k
      <4>1. k - 1 \in p + 1 .. Len(v) /\ k - 1 \in 1 .. Len(v) /\ w[k] = v[k - 1]
        BY <1>1, <1>2, <1>3, <3>4
      <4>2. x.start < v[k - 1].start
        BY <1>1, <4>1
      <4>3. QED
        BY <1>3, <3>1, <4>1, <4>2
    <3>5. QED
      BY <1>3, <3>2, <3>3, <3>4
  <2>2. CASE j = p + 1
    <3>1. w[j] = x
      BY <1>2, <1>3, <2>2
    <3>2. CASE k = p + 1
      BY <1>3, <2>2, <3>1, <3>2
    <3>3. CASE p + 1 < k
      <4>1. k - 1 \in p + 1 .. Len(v) /\ k - 1 \in 1 .. Len(v) /\ w[k] = v[k - 1]
        BY <1>1, <1>2, <1>3, <3>3
      <4>2. x.start < v[k - 1].start
        BY <1>1, <4>1
      <4>3. QED
        BY <1>3, <3>1, <4>1, <4>2
    <3>4. QED
      BY <1>3, <1>4, <2>2, <3>2, <3>3
  <2>3. CASE p + 1 < j
    <3>1. /\ j - 1 \in 1 .. Len(v) /\ w[j] = v[j - 1]
          /\ k - 1 \in 1 .. Len(v) /\ w[k] = v[k - 1] /\ j - 1 <= k - 1
      BY <1>1, <1>2, <1>3, <1>4, <2>3
    <3>2. QED
      BY <1>3, <3>1 DEF Sorted
  <2>4. QED
    BY <1>3, <2>1, <2>2, <2>3
<1>5. ASSUME NEW t, Covered(w, t) PROVE Covered(v, t) \/ Covers(x, t)
  <2>1. PICK k \in 1 .. Len(v) + 1 : Covers(w[k], t)
    BY <1>3, <1>5 DEF Covered
  <2>2. \/ k \in DOMAIN v /\ w[k] = v[k]
        \/ w[k] = x
        \/ k - 1 \in DOMAIN v /\ w[k] = v[k - 1]
    BY <1>1, <1>2, <1>3
  <2>3. QED
    BY <2>1, <2>2 DEF Covered
<1>6. ASSUME NEW t, Covers(x, t) PROVE Covered(w, t)
  <2>1. p + 1 \in 1 .. Len(v) + 1 /\ w[p + 1] = x
    BY <1>1, <1>2, <1>3
  <2>2. QED
    BY <1>3, <1>6, <2>1 DEF Covered
<1>7. ASSUME NEW t, Covered(v, t) PROVE Covered(w, t)
  <2>1. PICK k \in 1 .. Len(v) : Covers(v[k], t)
    BY <1>3, <1>7 DEF Covered
  <2>2. CASE k <= p
    <3>1. k \in 1 .. Len(v) + 1 /\ w[k] = v[k]
      BY <1>2, <1>3, <2>2
    <3>2. QED
      BY <1>3, <2>1, <3>1 DEF Covered
  <2>3. CASE p < k
    <3>1. k + 1 \in 1 .. Len(v) + 1 /\ w[k + 1] = v[k]
      BY <1>1, <1>2, <1>3, <2>3
    <3>2. QED
      BY <1>3, <2>1, <3>1 DEF Covered
  <2>4. QED
    BY <1>3, <2>2, <2>3
<1>8. Sorted(w)
  BY <1>3, <1>4 DEF Sorted
<1>9. QED
  BY <1>2, <1>5, <1>6, <1>7, <1>8 DEF w, p

\* Sorting keeps the time covered (TimeInterval.merge, its first step).
LEMMA SortExact ==
  ASSUME NEW list \in Seq(TimeIntervals)
  PROVE  /\ SortByStart(list) \in Seq(TimeIntervals)
         /\ Len(SortByStart(list)) = Len(list)
         /\ Sorted(SortByStart(list))
         /\ \A t : Covered(SortByStart(list), t) <=> Covered(list, t)
<1> DEFINE First(n) == {v \in Seq(TimeIntervals) :
                          /\ Len(v) = n /\ Sorted(v)
                          /\ \A t : Covered(v, t) <=> \E k \in 1 .. n : Covers(list[k], t)}
           V == [n \in 0 .. Len(list) |-> First(n)]
<1>1. \A n \in 0 .. Len(list) : V[n] = First(n)
  OBVIOUS
<1>2. Len(list) \in Nat /\ DOMAIN list = 1 .. Len(list) /\ \A k \in 1 .. Len(list) : list[k] \in TimeIntervals
  OBVIOUS
<1> HIDE DEF V
<1>3. <<>> \in V[0]
  <2>1. <<>> \in Seq(TimeIntervals) /\ Len(<<>>) = 0 /\ DOMAIN <<>> = {} /\ 1 .. 0 = {}
    OBVIOUS
  <2>2. <<>> \in First(0)
    BY <2>1 DEF Sorted, Covered
  <2>3. 0 \in 0 .. Len(list)
    BY <1>2
  <2> HIDE DEF First
  <2>4. QED
    BY <1>1, <2>2, <2>3
<1>4. ASSUME NEW n \in 1 .. Len(list), NEW v \in V[n - 1]
      PROVE  InsertAt(v, PlaceIn(v, list[n]) + 1, list[n]) \in V[n]
  <2>1. v \in First(n - 1) /\ list[n] \in TimeIntervals
    BY <1>1, <1>2
  <2> DEFINE w == InsertAt(v, PlaceIn(v, list[n]) + 1, list[n])
  <2>2. /\ w \in Seq(TimeIntervals) /\ Len(w) = n /\ Sorted(w)
        /\ \A t : Covered(w, t) <=> Covered(v, t) \/ Covers(list[n], t)
    BY <1>2, <2>1, InsertedSorted
  <2>3. 1 .. n = (1 .. n - 1) \cup {n}
    OBVIOUS
  <2> HIDE DEF w
  <2>4. w \in First(n)
    BY <2>1, <2>2, <2>3
  <2>5. QED
    BY <1>1, <1>2, <2>4 DEF w
<1>5. SortByStart(list) \in V[Len(list)]
  BY <1>2, <1>3, <1>4, SortReaches
<1>6. SortByStart(list) \in First(Len(list))
  BY <1>1, <1>2, <1>5
<1>7. \A t : Covered(list, t) <=> \E k \in 1 .. Len(list) : Covers(list[k], t)
  BY <1>2 DEF Covered
<1>8. QED
  BY <1>6, <1>7

LEMMA MaxOfTwo == ASSUME NEW a \in Int, NEW b \in Int PROVE Max({a, b}) = IF a <= b THEN b ELSE a
<1>1. \E x \in {a, b} : \A y \in {a, b} : x >= y
  <2>1. CASE a <= b
    BY <2>1
  <2>2. CASE ~ (a <= b)
    BY <2>2
  <2>3. QED
    BY <2>1, <2>2
<1>2. Max({a, b}) \in {a, b} /\ \A y \in {a, b} : Max({a, b}) >= y
  <2> DEFINE P(x) == \A y \in {a, b} : x >= y
  <2>1. \E x \in {a, b} : P(x)
    BY <1>1
  <2>2. Max({a, b}) = CHOOSE x \in {a, b} : P(x)
    BY DEF Max
  <2>3. Max({a, b}) \in {a, b} /\ P(Max({a, b}))
    <3> HIDE DEF P
    <3> QED BY <2>1, <2>2
  <2>4. QED
    BY <2>3
<1>3. QED
  BY <1>2

\* What the merged list is after the first n of a sorted list.
MergedUpTo(sorted, n) ==
  {v \in Seq(TimeIntervals) :
     /\ Len(v) # 0 /\ Canonical(v)
     /\ v[Len(v)].start <= sorted[n].start
     /\ \A t \in Int : Covered(v, t) <=> \E k \in 1 .. n : Covers(sorted[k], t)}

\* The next interval starts no earlier than the last merged one, so it extends that one
\* or comes after all of them.
LEMMA MergeStepExact ==
  ASSUME NEW v \in Seq(TimeIntervals), Len(v) # 0, Canonical(v), NEW x \in TimeIntervals,
         v[Len(v)].start <= x.start
  PROVE  LET w == MergeStep(v, x)
         IN  /\ w \in Seq(TimeIntervals) /\ Len(w) # 0 /\ Canonical(w) /\ w[Len(w)].start <= x.start
             /\ \A t \in Int : Covered(w, t) <=> Covered(v, t) \/ Covers(x, t)
<1> DEFINE m == Len(v)
           last == v[m]
<1>1. /\ m \in Nat \ {0} /\ DOMAIN v = 1 .. m /\ m \in 1 .. m /\ last \in TimeIntervals
      /\ \A k \in 1 .. m : v[k] \in TimeIntervals
  OBVIOUS
<1>2. /\ \A k \in 1 .. m : v[k].start \in Int /\ v[k].end \in Int /\ v[k].start < v[k].end
      /\ last.start \in Int /\ last.end \in Int /\ last.start < last.end
      /\ x.start \in Int /\ x.end \in Int /\ x.start < x.end /\ last.start <= x.start
  BY <1>1, IntervalBounds
<1> HIDE DEF m, last
<1>3. CASE last.end >= x.start
  <2> DEFINE joined == [last EXCEPT !.end = Max({last.end, x.end})]
             w == [v EXCEPT ![m] = joined]
  <2>1. MergeStep(v, x) = w
    BY <1>3 DEF MergeStep, Last, m, last
  <2>2. /\ joined \in TimeIntervals /\ joined.start = last.start
        /\ joined.end = IF last.end <= x.end THEN x.end ELSE last.end
    <3>1. /\ Max({last.end, x.end}) \in Int /\ last.start < Max({last.end, x.end})
          /\ Max({last.end, x.end}) = IF last.end <= x.end THEN x.end ELSE last.end
      BY <1>2, MaxOfTwo
    <3>2. last \in [start : Int, end : Int]
      BY <1>1 DEF TimeIntervals
    <3>3. QED
      BY <3>1, <3>2 DEF TimeIntervals
  <2> HIDE DEF joined
  <2>3. /\ w \in Seq(TimeIntervals) /\ Len(w) = m /\ DOMAIN w = 1 .. m /\ w[m] = joined
        /\ \A k \in 1 .. m : k # m => w[k] = v[k]
    BY <1>1, <2>2 DEF m
  <2> HIDE DEF w
  <2>4. Canonical(w)
    <3> SUFFICES ASSUME NEW j \in 1 .. m, NEW k \in 1 .. m, j < k PROVE w[j].end < w[k].start
      BY <2>3 DEF Canonical
    <3>1. j # m /\ w[j] = v[j] /\ v[j].end < v[k].start
      <4>1. j # m
        BY <1>1
      <4>2. v[j].end < v[k].start
        BY <1>1 DEF Canonical
      <4>3. QED
        BY <2>3, <4>1, <4>2
    <3>2. w[k].start = v[k].start
      BY <2>2, <2>3 DEF last
    <3>3. QED
      BY <3>1, <3>2
  <2>5. ASSUME NEW t \in Int PROVE Covers(joined, t) <=> Covers(last, t) \/ Covers(x, t)
    BY <1>2, <1>3, <2>2 DEF Covers
  <2>6. ASSUME NEW t \in Int, Covered(w, t) PROVE Covered(v, t) \/ Covers(x, t)
    <3>1. PICK k \in 1 .. m : Covers(w[k], t)
      BY <2>3, <2>6 DEF Covered
    <3>2. QED
      BY <1>1, <2>3, <2>5, <3>1 DEF Covered, last
  <2>7. ASSUME NEW t \in Int, Covered(v, t) \/ Covers(x, t) PROVE Covered(w, t)
    <3>1. CASE Covers(x, t)
      BY <1>1, <2>3, <2>5, <3>1 DEF Covered
    <3>2. CASE Covered(v, t)
      <4>1. PICK k \in 1 .. m : Covers(v[k], t)
        BY <1>1, <3>2 DEF Covered
      <4>2. Covers(w[k], t)
        BY <2>3, <2>5, <4>1 DEF last
      <4>3. QED
        BY <2>3, <4>2 DEF Covered
    <3>3. QED
      BY <2>7, <3>1, <3>2
  <2>8. w[Len(w)].start <= x.start
    BY <1>2, <2>2, <2>3
  <2>9. QED
    BY <1>1, <2>1, <2>3, <2>4, <2>6, <2>7, <2>8
<1>4. CASE ~ (last.end >= x.start)
  <2> DEFINE w == Append(v, x)
  <2>1. MergeStep(v, x) = w
    BY <1>4 DEF MergeStep, Last, m, last
  <2>2. /\ w \in Seq(TimeIntervals) /\ Len(w) = m + 1 /\ DOMAIN w = 1 .. m + 1 /\ w[m + 1] = x
        /\ \A k \in 1 .. m : w[k] = v[k]
    BY <1>1 DEF m
  <2> HIDE DEF w
  <2>3. ASSUME NEW j \in 1 .. m PROVE v[j].end < x.start
    <3>1. CASE j = m
      BY <1>2, <1>4, <3>1 DEF last
    <3>2. CASE j # m
      <4>1. j < m
        BY <1>1, <3>2
      <4>2. v[j].end < last.start
        BY <1>1, <4>1 DEF Canonical, last
      <4>3. QED
        BY <1>2, <4>2
    <3>3. QED
      BY <3>1, <3>2
  <2>4. Canonical(w)
    <3> SUFFICES ASSUME NEW j \in 1 .. m + 1, NEW k \in 1 .. m + 1, j < k PROVE w[j].end < w[k].start
      BY <2>2 DEF Canonical
    <3>1. j \in 1 .. m /\ w[j] = v[j]
      BY <1>1, <2>2
    <3>2. CASE k = m + 1
      BY <2>2, <2>3, <3>1, <3>2
    <3>3. CASE k # m + 1
      <4>1. k \in 1 .. m /\ w[k] = v[k]
        BY <1>1, <2>2, <3>3
      <4>2. QED
        BY <1>1, <3>1, <4>1 DEF Canonical
    <3>4. QED
      BY <3>2, <3>3
  <2>5. ASSUME NEW t \in Int, Covered(w, t) PROVE Covered(v, t) \/ Covers(x, t)
    <3>1. PICK k \in 1 .. m + 1 : Covers(w[k], t)
      BY <2>2, <2>5 DEF Covered
    <3>2. k = m + 1 \/ k \in 1 .. m
      BY <1>1
    <3>3. QED
      BY <1>1, <2>2, <3>1, <3>2 DEF Covered
  <2>6. ASSUME NEW t \in Int, Covered(v, t) \/ Covers(x, t) PROVE Covered(w, t)
    <3>1. CASE Covers(x, t)
      <4>1. m + 1 \in 1 .. m + 1
        BY <1>1
      <4>2. QED
        BY <2>2, <3>1, <4>1 DEF Covered
    <3>2. CASE Covered(v, t)
      <4>1. PICK k \in 1 .. m : Covers(v[k], t)
        BY <1>1, <3>2 DEF Covered
      <4>2. k \in 1 .. m + 1 /\ Covers(w[k], t)
        BY <1>1, <2>2, <4>1
      <4>3. QED
        BY <2>2, <4>2 DEF Covered
    <3>3. QED
      BY <2>6, <3>1, <3>2
  <2>7. w[Len(w)].start <= x.start /\ Len(w) # 0
    BY <1>1, <1>2, <2>2
  <2>8. QED
    BY <2>1, <2>2, <2>4, <2>5, <2>6, <2>7
<1>5. QED
  BY <1>3, <1>4

LEMMA MergePassExact ==
  ASSUME NEW sorted \in Seq(TimeIntervals), Len(sorted) # 0, Sorted(sorted)
  PROVE  /\ MergePass(sorted) \in Seq(TimeIntervals)
         /\ Canonical(MergePass(sorted))
         /\ \A t \in Int : Covered(MergePass(sorted), t) <=> Covered(sorted, t)
<1> DEFINE V == [n \in 1 .. Len(sorted) |-> MergedUpTo(sorted, n)]
<1>1. \A n \in 1 .. Len(sorted) : V[n] = MergedUpTo(sorted, n)
  OBVIOUS
<1>2. /\ Len(sorted) \in Nat \ {0} /\ DOMAIN sorted = 1 .. Len(sorted)
      /\ \A k \in 1 .. Len(sorted) : sorted[k] \in TimeIntervals
  OBVIOUS
<1> HIDE DEF V
<1>3. <<sorted[1]>> \in V[1]
  <2>1. 1 \in 1 .. Len(sorted) /\ sorted[1] \in TimeIntervals
    BY <1>2
  <2> DEFINE x == sorted[1]
             v == <<x>>
  <2>2. x \in TimeIntervals /\ x.start \in Int
    BY <2>1, IntervalBounds
  <2>3. \A t : Covers(x, t) <=> \E k \in 1 .. 1 : Covers(sorted[k], t)
    OBVIOUS
  <2> HIDE DEF x
  <2>4. v \in Seq(TimeIntervals) /\ Len(v) = 1 /\ DOMAIN v = {1} /\ v[1] = x
    BY <2>2
  <2> HIDE DEF v
  <2>5. Canonical(v) /\ \A t : Covered(v, t) <=> Covers(x, t)
    BY <2>4 DEF Canonical, Covered
  <2>6. v[Len(v)].start <= sorted[1].start
    BY <2>2, <2>4 DEF x
  <2>7. v \in MergedUpTo(sorted, 1)
    <3>1. Len(v) # 0 /\ \A t \in Int : Covered(v, t) <=> \E k \in 1 .. 1 : Covers(sorted[k], t)
      BY <2>3, <2>4, <2>5
    <3>2. QED
      BY Zenon, <2>4, <2>5, <2>6, <3>1 DEF MergedUpTo
  <2>8. QED
    BY <1>1, <2>1, <2>7 DEF v, x
<1>4. ASSUME NEW n \in 2 .. Len(sorted), NEW v \in V[n - 1] PROVE MergeStep(v, sorted[n]) \in V[n]
  <2>1. n - 1 \in 1 .. Len(sorted) /\ n \in 1 .. Len(sorted) /\ n - 1 <= n
    BY <1>2
  <2>2. v \in MergedUpTo(sorted, n - 1)
    BY <1>1, <2>1
  <2>3. /\ v \in Seq(TimeIntervals) /\ Len(v) # 0 /\ Canonical(v)
        /\ v[Len(v)].start <= sorted[n - 1].start
        /\ \A t \in Int : Covered(v, t) <=> \E k \in 1 .. n - 1 : Covers(sorted[k], t)
    BY <2>2 DEF MergedUpTo
  <2>4. Len(v) \in DOMAIN v
    BY <2>3
  <2>5. v[Len(v)].start <= sorted[n].start
    <3>1. sorted[n - 1].start <= sorted[n].start
      BY <1>2, <2>1 DEF Sorted
    <3>2. v[Len(v)] \in TimeIntervals /\ sorted[n - 1] \in TimeIntervals /\ sorted[n] \in TimeIntervals
      BY <1>2, <2>1, <2>3, <2>4
    <3>3. v[Len(v)].start \in Int /\ sorted[n - 1].start \in Int /\ sorted[n].start \in Int
      BY <3>2, IntervalBounds
    <3>4. QED
      BY <2>3, <3>1, <3>3
  <2> DEFINE w == MergeStep(v, sorted[n])
  <2>6. /\ w \in Seq(TimeIntervals) /\ Len(w) # 0 /\ Canonical(w) /\ w[Len(w)].start <= sorted[n].start
        /\ \A t \in Int : Covered(w, t) <=> Covered(v, t) \/ Covers(sorted[n], t)
    BY <1>2, <2>1, <2>3, <2>5, MergeStepExact
  <2>7. 1 .. n = (1 .. n - 1) \cup {n}
    OBVIOUS
  <2> HIDE DEF w
  <2>8. w \in MergedUpTo(sorted, n)
    BY <2>3, <2>6, <2>7 DEF MergedUpTo
  <2>9. QED
    BY <1>1, <2>1, <2>8 DEF w
<1>5. MergePass(sorted) \in V[Len(sorted)]
  BY <1>2, <1>3, <1>4, MergeReaches
<1>6. MergePass(sorted) \in MergedUpTo(sorted, Len(sorted))
  BY <1>1, <1>2, <1>5
<1>7. \A t : Covered(sorted, t) <=> \E k \in 1 .. Len(sorted) : Covers(sorted[k], t)
  BY <1>2 DEF Covered
<1>8. QED
  BY <1>6, <1>7 DEF MergedUpTo

\* Merging joins what overlaps or touches, and covers the same time (TimeInterval.merge).
LEMMA MergeExact ==
  ASSUME NEW list \in Seq(TimeIntervals)
  PROVE  /\ Merge(list) \in Seq(TimeIntervals)
         /\ Canonical(Merge(list))
         /\ \A t \in Int : Covered(Merge(list), t) <=> Covered(list, t)
<1>1. Len(list) \in Nat /\ DOMAIN list = 1 .. Len(list)
  OBVIOUS
<1>2. CASE Len(list) <= 1
  <2>1. Merge(list) = list
    BY <1>2 DEF Merge
  <2>2. \A j, k \in DOMAIN list : ~ (j < k)
    BY <1>1, <1>2
  <2>3. QED
    BY <2>1, <2>2 DEF Canonical
<1>3. CASE ~ (Len(list) <= 1)
  <2> DEFINE sorted == SortByStart(list)
  <2>1. /\ sorted \in Seq(TimeIntervals) /\ Len(sorted) = Len(list) /\ Sorted(sorted)
        /\ \A t : Covered(sorted, t) <=> Covered(list, t)
    BY SortExact
  <2>2. Merge(list) = MergePass(sorted)
    BY <1>3 DEF Merge
  <2>3. Len(sorted) # 0
    BY <1>1, <1>3, <2>1
  <2> HIDE DEF sorted
  <2>4. QED
    BY <2>1, <2>2, <2>3, MergePassExact
<1>4. QED
  BY <1>2, <1>3

\* A stretch of time that a list covers as one: all of it, and neither the instant before nor the one after.
Run(list, i) ==
  /\ \A t \in Int : Covers(i, t) => Covered(list, t)
  /\ ~ Covered(list, i.start - 1)
  /\ ~ Covered(list, i.end)

\* The intervals of a list in order are the stretches it covers.
LEMMA RunsOfCanonical ==
  ASSUME NEW v \in Seq(TimeIntervals), Canonical(v)
  PROVE  \A i \in TimeIntervals : Run(v, i) <=> \E k \in DOMAIN v : v[k] = i
<1>1. /\ Len(v) \in Nat /\ DOMAIN v = 1 .. Len(v)
      /\ \A k \in DOMAIN v : /\ v[k] \in TimeIntervals
                             /\ v[k].start \in Int /\ v[k].end \in Int /\ v[k].start < v[k].end
  BY IntervalBounds
<1>2. ASSUME NEW k \in DOMAIN v PROVE Run(v, v[k])
  <2>1. \A t \in Int : Covers(v[k], t) => Covered(v, t)
    BY DEF Covered
  <2>2. ASSUME NEW j \in DOMAIN v
        PROVE  ~ Covers(v[j], v[k].start - 1) /\ ~ Covers(v[j], v[k].end)
    <3>1. /\ v[j].start \in Int /\ v[j].end \in Int /\ v[j].start < v[j].end
          /\ v[k].start \in Int /\ v[k].end \in Int /\ v[k].start < v[k].end
      BY <1>1
    <3>2. CASE j = k
      BY <3>1, <3>2 DEF Covers
    <3>3. CASE j < k
      <4>1. v[j].end < v[k].start
        BY <3>3 DEF Canonical
      <4>2. QED
        BY <3>1, <4>1 DEF Covers
    <3>4. CASE k < j
      <4>1. v[k].end < v[j].start
        BY <3>4 DEF Canonical
      <4>2. QED
        BY <3>1, <4>1 DEF Covers
    <3>5. j = k \/ j < k \/ k < j
      BY <1>1
    <3>6. QED
      BY <3>2, <3>3, <3>4, <3>5
  <2>3. QED
    BY <2>1, <2>2 DEF Run, Covered
<1>3. ASSUME NEW i \in TimeIntervals, Run(v, i) PROVE \E k \in DOMAIN v : v[k] = i
  <2>1. i.start \in Int /\ i.end \in Int /\ i.start < i.end /\ i.start - 1 \in Int
    BY IntervalBounds
  <2>2. Covered(v, i.start)
    BY <1>3, <2>1 DEF Run, Covers
  <2>3. PICK k \in DOMAIN v : Covers(v[k], i.start)
    BY <2>2 DEF Covered
  <2>4. v[k].start \in Int /\ v[k].end \in Int /\ v[k].start <= i.start /\ i.start < v[k].end
    BY <1>1, <2>3 DEF Covers
  <2>5. v[k].start = i.start
    <3>1. ~ Covers(v[k], i.start - 1)
      BY <1>3 DEF Run, Covered
    <3>2. QED
      BY <2>1, <2>4, <3>1 DEF Covers
  <2>6. ~ (i.end < v[k].end)
    <3>1. ~ Covers(v[k], i.end)
      BY <1>3 DEF Run, Covered
    <3>2. QED
      BY <2>1, <2>4, <3>1 DEF Covers
  <2>7. ~ (v[k].end < i.end)
    <3>1. ~ Covered(v, v[k].end)
      BY <1>2 DEF Run
    <3>2. ~ Covers(i, v[k].end)
      BY <1>3, <2>4, <3>1 DEF Run
    <3>3. QED
      BY <2>1, <2>4, <3>2 DEF Covers
  <2>8. v[k].end = i.end
    BY <2>1, <2>4, <2>6, <2>7
  <2>9. v[k] \in [start : Int, end : Int] /\ i \in [start : Int, end : Int]
    BY <1>1 DEF TimeIntervals
  <2>10. v[k] = i
    BY <2>5, <2>8, <2>9
  <2>11. QED
    BY <2>10
<1>4. QED
  BY <1>2, <1>3

\* Two lists in order that cover the same time agree as far as the first goes.
LEMMA CanonicalPrefix ==
  ASSUME NEW v \in Seq(TimeIntervals), NEW w \in Seq(TimeIntervals), Canonical(v), Canonical(w),
         \A t \in Int : Covered(v, t) <=> Covered(w, t)
  PROVE  \A n \in DOMAIN v : n \in DOMAIN w /\ v[n] = w[n]
<1>1. /\ Len(v) \in Nat /\ DOMAIN v = 1 .. Len(v) /\ Len(w) \in Nat /\ DOMAIN w = 1 .. Len(w)
      /\ \A k \in DOMAIN v : /\ v[k] \in TimeIntervals
                             /\ v[k].start \in Int /\ v[k].end \in Int /\ v[k].start < v[k].end
      /\ \A k \in DOMAIN w : /\ w[k] \in TimeIntervals
                             /\ w[k].start \in Int /\ w[k].end \in Int /\ w[k].start < w[k].end
  BY IntervalBounds
<1>2. \A i \in TimeIntervals : (\E k \in DOMAIN v : v[k] = i) <=> (\E k \in DOMAIN w : w[k] = i)
  <2>1. ASSUME NEW i \in TimeIntervals PROVE Run(v, i) <=> Run(w, i)
    <3>1. i.start - 1 \in Int /\ i.end \in Int
      BY IntervalBounds
    <3>2. QED
      BY <3>1 DEF Run
  <2>2. QED
    BY <2>1, RunsOfCanonical
<1> DEFINE bad == {n \in DOMAIN v : ~ (n \in DOMAIN w /\ v[n] = w[n])}
<1> SUFFICES ASSUME bad # {} PROVE FALSE
  OBVIOUS
<1>3. bad \in SUBSET Nat
  BY <1>1
<1>4. \E m \in bad : \A n \in bad : m <= n
  <2> HIDE DEF bad
  <2> QED BY <1>3, Least
<1>5. PICK m \in bad : \A n \in bad : m <= n
  BY <1>4
<1>6. m \in DOMAIN v /\ ~ (m \in DOMAIN w /\ v[m] = w[m])
  BY <1>5
<1>7. ASSUME NEW j \in DOMAIN v, j < m PROVE j \in DOMAIN w /\ v[j] = w[j]
  <2>1. ~ (m <= j)
    BY <1>1, <1>6, <1>7
  <2>2. QED
    BY <1>5, <2>1
<1>8. PICK k \in DOMAIN w : w[k] = v[m]
  BY <1>1, <1>2, <1>6
<1>9. m < k
  <2>1. CASE k = m
    BY <1>6, <1>8, <2>1
  <2>2. CASE k < m
    <3>1. k \in DOMAIN v
      BY <1>1, <1>6, <2>2
    <3>2. v[k] = v[m] /\ v[k].end < v[m].start
      BY <1>6, <1>7, <1>8, <2>2, <3>1 DEF Canonical
    <3>3. QED
      BY <1>1, <1>6, <3>1, <3>2
  <2>3. k = m \/ k < m \/ m < k
    BY <1>1, <1>6
  <2>4. QED
    BY <2>1, <2>2, <2>3
<1>10. m \in DOMAIN w /\ w[m].end < w[k].start
  BY <1>1, <1>6, <1>9 DEF Canonical
<1>11. PICK l \in DOMAIN v : v[l] = w[m]
  BY <1>1, <1>2, <1>10
<1>12. l = m \/ l < m \/ m < l
  BY <1>1, <1>6
<1>13. CASE l = m
  BY <1>6, <1>10, <1>11, <1>13
<1>14. CASE l < m
  <2>1. l \in DOMAIN w /\ w[l] = w[m]
    BY <1>7, <1>11, <1>14
  <2>2. w[l].end < w[m].start
    BY <1>10, <1>14, <2>1 DEF Canonical
  <2>3. QED
    BY <1>1, <1>10, <2>1, <2>2
<1>15. CASE m < l
  <2>1. v[m].end < v[l].start
    BY <1>6, <1>15 DEF Canonical
  <2>2. w[k].end < w[m].start
    BY <1>8, <1>11, <2>1
  <2>3. QED
    BY <1>1, <1>10, <2>2
<1>16. QED
  BY <1>12, <1>13, <1>14, <1>15

\* So such lists are equal.
LEMMA CanonicalUnique ==
  ASSUME NEW v \in Seq(TimeIntervals), NEW w \in Seq(TimeIntervals), Canonical(v), Canonical(w),
         \A t \in Int : Covered(v, t) <=> Covered(w, t)
  PROVE  v = w
<1>1. \A n \in DOMAIN v : n \in DOMAIN w /\ v[n] = w[n]
  BY CanonicalPrefix
<1>2. \A n \in DOMAIN w : n \in DOMAIN v /\ w[n] = v[n]
  BY CanonicalPrefix
<1>3. /\ Len(v) \in Nat /\ DOMAIN v = 1 .. Len(v) /\ Len(w) \in Nat /\ DOMAIN w = 1 .. Len(w)
  OBVIOUS
<1>4. Len(v) = Len(w)
  <2>1. \A n \in 1 .. Len(v) : n \in 1 .. Len(w)
    BY <1>1, <1>3
  <2>2. \A n \in 1 .. Len(w) : n \in 1 .. Len(v)
    BY <1>2, <1>3
  <2>3. ASSUME NEW a \in Nat, NEW b \in Nat, \A n \in 1 .. a : n \in 1 .. b PROVE a <= b
    <3>1. CASE a = 0
      BY <3>1
    <3>2. CASE a # 0
      <4>1. a \in 1 .. b
        BY <2>3, <3>2
      <4>2. QED
        BY <4>1
    <3>3. QED
      BY <3>1, <3>2
  <2>4. Len(v) <= Len(w) /\ Len(w) <= Len(v)
    BY <1>3, <2>1, <2>2, <2>3
  <2>5. \A a, b \in Nat : a <= b /\ b <= a => a = b
    OBVIOUS
  <2>6. Len(v) \in Nat /\ Len(w) \in Nat
    OBVIOUS
  <2>7. QED
    BY Zenon, <2>4, <2>5, <2>6
<1>5. QED
  BY <1>1, <1>3, <1>4

-----------------------------------------------------------------------------
\* The engine on whatever rows the queries return, in whatever order.

\* A list of all the elements of a set, each once, covers what they cover.
LEMMA OrderEnumerates ==
  ASSUME NEW S, IsFiniteSet(S), NEW q \in SetToSeqs(S)
  PROVE  q \in Seq(S) /\ \A x : (\E k \in DOMAIN q : q[k] = x) <=> x \in S
<1> DEFINE n == Cardinality(S)
           shown == {x \in S : \E k \in 1 .. n : q[k] = x}
<1>1. n \in Nat
  BY FS_CardinalityType
<1>2. q \in [1 .. n -> S] /\ \A i, j \in 1 .. n : i # j => q[i] # q[j]
  BY DEF SetToSeqs
<1> HIDE DEF n
<1>3. q \in Seq(S) /\ DOMAIN q = 1 .. n
  BY <1>1, <1>2
<1>4. q \in Bijection(1 .. n, shown)
  BY <1>2 DEF Bijection, Injection, Surjection, IsInjective
<1>5. IsFiniteSet(1 .. n) /\ Cardinality(1 .. n) = n
  <2>1. 0 \in Int /\ 1 \in Int /\ n \in Int
    BY <1>1
  <2>2. IsFiniteSet(1 .. n) /\ Cardinality(1 .. n) = IF 1 > n THEN 0 ELSE n - 1 + 1
    BY <2>1, FS_Interval
  <2>3. QED
    BY <1>1, <2>2
<1> HIDE DEF shown
<1>6. Cardinality(shown) = n
  BY <1>4, <1>5, FS_Bijection DEF ExistsBijection
<1>7. shown \in SUBSET S
  BY DEF shown
<1>8. S = shown
  BY <1>6, <1>7, FS_Subset DEF n
<1>9. \A x \in S : \E k \in DOMAIN q : q[k] = x
  BY <1>3, <1>8 DEF shown
<1>10. \A k \in DOMAIN q : q[k] \in S
  BY <1>2
<1>11. QED
  BY <1>3, <1>9, <1>10

LEMMA SetToSeqEnumerates == ASSUME NEW S, IsFiniteSet(S) PROVE SetToSeq(S) \in SetToSeqs(S)
<1> DEFINE n == Cardinality(S)
<1>1. ExistsBijection(1 .. n, S)
  BY FS_CardinalityType
<1>2. PICK f : f \in Bijection(1 .. n, S)
  BY <1>1 DEF ExistsBijection
<1>3. f \in [1 .. n -> S] /\ IsInjective(f)
  BY <1>2 DEF Bijection, Injection
<1>4. SetToSeq(S) \in [1 .. n -> S] /\ IsInjective(SetToSeq(S))
  BY <1>3 DEF SetToSeq
<1>5. QED
  BY <1>4 DEF SetToSeqs, IsInjective

\* The rows fetched for the day, among rows of any kind.
LEMMA FetchedExact ==
  ASSUME NEW S, NEW rows \in Seq(S)
  PROVE  /\ FetchedForDay(rows) \in Seq(S)
         /\ \A t : Covered(FetchedForDay(rows), t) <=>
                     \E k \in DOMAIN rows : rows[k].start < Day /\ rows[k].end > 0 /\ Covers(rows[k], t)
<1> DEFINE Fetched(k) == rows[k].start < Day /\ rows[k].end > 0
           ss == [k \in DOMAIN rows |-> IF Fetched(k) THEN <<rows[k]>> ELSE <<>>]
           First(n) == {v \in Seq(S) : \A t : Covered(v, t) <=> \E k \in 1 .. n : Fetched(k) /\ Covers(rows[k], t)}
           V == [n \in 1 .. Len(rows) |-> First(n)]
<1>1. Len(rows) \in Nat /\ DOMAIN rows = 1 .. Len(rows) /\ \A k \in DOMAIN rows : rows[k] \in S
  OBVIOUS
<1>2. FetchedForDay(rows) = FlattenSeq(ss)
  BY DEF FetchedForDay
<1>3. /\ DOMAIN ss = 1 .. Len(rows) /\ Len(ss) = Len(rows)
      /\ \A k \in 1 .. Len(rows) : ss[k] = IF Fetched(k) THEN <<rows[k]>> ELSE <<>>
  BY <1>1
<1>4. \A n \in 1 .. Len(rows) : V[n] = First(n)
  OBVIOUS
<1> HIDE DEF ss, V
<1>5. ASSUME NEW k \in 1 .. Len(rows)
      PROVE  ss[k] \in Seq(S) /\ \A t : Covered(ss[k], t) <=> Fetched(k) /\ Covers(rows[k], t)
  <2> DEFINE x == rows[k]
  <2>1. x \in S
    BY <1>1
  <2>2. ss[k] = IF Fetched(k) THEN <<x>> ELSE <<>>
    BY <1>3
  <2> HIDE DEF x, Fetched
  <2>3. CASE Fetched(k)
    <3>1. <<x>> \in Seq(S) /\ DOMAIN <<x>> = {1} /\ <<x>>[1] = x
      BY <2>1
    <3>2. QED
      BY <2>2, <2>3, <3>1 DEF Covered, x
  <2>4. CASE ~ Fetched(k)
    <3>1. <<>> \in Seq(S) /\ DOMAIN <<>> = {}
      OBVIOUS
    <3>2. QED
      BY <2>2, <2>4, <3>1 DEF Covered
  <2>5. QED
    BY <2>3, <2>4
<1> HIDE DEF Fetched
<1>6. CASE Len(rows) = 0
  <2>1. ss = <<>> /\ FlattenSeq(ss) = <<>>
    BY <1>3, <1>6 DEF FlattenSeq
  <2>2. <<>> \in Seq(S) /\ DOMAIN <<>> = {} /\ DOMAIN rows = {}
    BY <1>1, <1>6
  <2>3. QED
    BY <1>2, <2>1, <2>2 DEF Covered
<1>7. CASE Len(rows) # 0
  <2>1. ss[1] \in V[1]
    <3>1. 1 \in 1 .. Len(rows)
      BY <1>1, <1>7
    <3>2. ss[1] \in Seq(S) /\ \A t : Covered(ss[1], t) <=> Fetched(1) /\ Covers(rows[1], t)
      BY <1>5, <3>1
    <3>3. 1 .. 1 = {1}
      OBVIOUS
    <3>4. ss[1] \in First(1)
      BY <3>2, <3>3
    <3> HIDE DEF First
    <3>5. QED
      BY <1>4, <3>1, <3>4
  <2>2. ASSUME NEW n \in 2 .. Len(rows), NEW v \in V[n - 1] PROVE v \o ss[n] \in V[n]
    <3>1. n \in 1 .. Len(rows) /\ n - 1 \in 1 .. Len(rows) /\ 1 .. n = (1 .. n - 1) \cup {n}
      BY <1>1
    <3>2. v \in First(n - 1)
      <4> HIDE DEF First
      <4> QED BY <1>4, <3>1
    <3>3. v \in Seq(S) /\ \A t : Covered(v, t) <=> \E k \in 1 .. n - 1 : Fetched(k) /\ Covers(rows[k], t)
      BY <3>2
    <3>4. ss[n] \in Seq(S) /\ \A t : Covered(ss[n], t) <=> Fetched(n) /\ Covers(rows[n], t)
      BY <1>5, <3>1
    <3> DEFINE w == v \o ss[n]
    <3>5. w \in Seq(S)
      BY <3>3, <3>4, JoinedLists
    <3>6. \A t : Covered(w, t) <=> Covered(v, t) \/ Covered(ss[n], t)
      BY <3>3, <3>4, JoinedCover
    <3> HIDE DEF w
    <3>7. w \in First(n)
      BY <3>1, <3>3, <3>4, <3>5, <3>6
    <3> HIDE DEF First
    <3>8. QED
      BY <1>4, <3>1, <3>7 DEF w
  <2>3. FlattenSeq(ss) \in V[Len(ss)]
    <3>1. Len(ss) \in Nat \ {0} /\ \A n \in 2 .. Len(ss) : \A v \in V[n - 1] : v \o ss[n] \in V[n]
      BY <1>1, <1>3, <1>7, <2>2
    <3>2. QED
      BY <2>1, <3>1, FlattenReaches
  <2>4. FlattenSeq(ss) \in First(Len(rows))
    <3> HIDE DEF First
    <3> QED BY <1>1, <1>3, <1>4, <1>7, <2>3
  <2>5. QED
    BY <1>1, <1>2, <2>4 DEF Fetched
<1>8. QED
  BY <1>1, <1>6, <1>7

\* What a row of opening hours is parsed into.
DayRow(h) == h.start \in TimeOfDay /\ h.end \in TimeOfDay

\* A row opens for at least one instant: one that does not end after it starts is moved
\* into the next day.
LEMMA OnDayValid ==
  ASSUME NEW h, DayRow(h)
  PROVE  OnDay(h.start, h.end) \in TimeIntervals
<1>1. h.start \in Int /\ h.end \in Int /\ h.start < Day /\ 0 <= h.end /\ Day \in Int
  BY DayAssumption DEF DayRow, TimeOfDay
<1> DEFINE e == IF h.end <= h.start THEN h.end + Day ELSE h.end
<1>2. e \in Int /\ h.start < e
  BY <1>1
<1>3. OnDay(h.start, h.end) = [start |-> h.start, end |-> e]
  BY DEF OnDay, Interval
<1> HIDE DEF e
<1>4. QED
  BY <1>1, <1>2, <1>3 DEF TimeIntervals

LEMMA OpenExact ==
  ASSUME NEW S, NEW rows \in Seq(S), \A h \in S : DayRow(h)
  PROVE  /\ OpenPeriods(rows) \in Seq(TimeIntervals)
         /\ Canonical(OpenPeriods(rows))
         /\ \A t \in Int : Covered(OpenPeriods(rows), t) <=>
                             \E k \in DOMAIN rows : Covers(OnDay(rows[k].start, rows[k].end), t)
<1> DEFINE list == [k \in DOMAIN rows |-> OnDay(rows[k].start, rows[k].end)]
<1>1. Len(rows) \in Nat /\ DOMAIN rows = 1 .. Len(rows) /\ \A k \in DOMAIN rows : DayRow(rows[k])
  OBVIOUS
<1>2. \A k \in DOMAIN rows : list[k] \in TimeIntervals /\ list[k] = OnDay(rows[k].start, rows[k].end)
  BY <1>1, OnDayValid
<1>3. list \in Seq(TimeIntervals) /\ DOMAIN list = DOMAIN rows
  <2>1. list \in [1 .. Len(rows) -> TimeIntervals]
    BY <1>1, <1>2
  <2>2. QED
    BY <1>1, <2>1
<1>4. OpenPeriods(rows) = Merge(list)
  BY DEF OpenPeriods
<1> HIDE DEF list
<1>5. \A t : Covered(list, t) <=> \E k \in DOMAIN rows : Covers(OnDay(rows[k].start, rows[k].end), t)
  BY <1>2, <1>3 DEF Covered
<1>6. QED
  BY <1>3, <1>4, <1>5, MergeExact

LEMMA TakenExact ==
  ASSUME NEW S, NEW fixed \in Seq(S), NEW booked \in Seq(S), \A p \in S : Bounded(p)
  PROVE  /\ Taken(<<>>, fixed, booked) \in Seq(S)
         /\ \A t : Covered(Taken(<<>>, fixed, booked), t) <=>
                     Covered(FetchedForDay(fixed), t) \/ Covered(FetchedForDay(booked), t)
<1> DEFINE none == [k \in DOMAIN <<>> |-> OnDay(<<>>[k].start, <<>>[k].end)]
           f == FetchedForDay(fixed)
           b == FetchedForDay(booked)
<1>1. none = <<>> /\ none \in Seq(S) /\ \A t : ~ Covered(none, t)
  BY DEF Covered
<1>2. Taken(<<>>, fixed, booked) = (none \o f) \o b
  BY Zenon DEF Taken
<1>3. f \in Seq(S) /\ b \in Seq(S)
  BY FetchedExact
<1> HIDE DEF none, f, b
<1>4. none \o f \in Seq(S) /\ \A t : Covered(none \o f, t) <=> Covered(none, t) \/ Covered(f, t)
  BY <1>1, <1>3, JoinedLists, JoinedCover
<1> DEFINE nf == none \o f
<1> HIDE DEF nf
<1>5. nf \o b \in Seq(S) /\ \A t : Covered(nf \o b, t) <=> Covered(nf, t) \/ Covered(b, t)
  BY <1>3, <1>4, JoinedLists, JoinedCover DEF nf
<1>6. QED
  BY <1>1, <1>2, <1>4, <1>5 DEF nf, f, b

\* A period the queries fetch for the day.
InDay(p) == p.start < Day /\ p.end > 0

\* The free periods are in order and exact, of the rows the queries fetch.
LEMMA FreeExact ==
  ASSUME NEW H, NEW hs \in Seq(H), \A h \in H : h.opens \in Text /\ h.closes \in Text,
         NEW S, NEW fixed \in Seq(S), NEW booked \in Seq(S), \A p \in S : Bounded(p)
  PROVE  /\ FreeIn(hs, fixed, booked) \in Seq(TimeIntervals)
         /\ Canonical(FreeIn(hs, fixed, booked))
         /\ \A t \in Int : Covered(FreeIn(hs, fixed, booked), t) <=>
                             /\ \E k \in DOMAIN hs : OpenAt(hs[k], t)
                             /\ ~ Covered(FetchedForDay(fixed), t)
                             /\ ~ Covered(FetchedForDay(booked), t)
<1> DEFINE ps == [k \in DOMAIN hs |-> Parsed(hs[k])]
           R == {h \in [start : TimeOfDay, end : TimeOfDay] : DayRow(h)}
           open == OpenPeriods(ps)
           taken == Taken(<<>>, fixed, booked)
<1>1. FreeIn(hs, fixed, booked) = SubtractMany(open, taken)
  BY DEF FreeIn, FreePeriods
<1>2. ASSUME NEW k \in DOMAIN hs PROVE Parsed(hs[k]) \in R
  <2>1. HourOf(hs[k].opens) \in TimeOfDay /\ HourOf(hs[k].closes) \in TimeOfDay
    BY DEF Text
  <2>2. Parsed(hs[k]) = [start |-> HourOf(hs[k].opens), end |-> HourOf(hs[k].closes)]
    BY DEF Parsed, Interval
  <2>3. QED
    BY <2>1, <2>2 DEF DayRow
<1>3. ps \in Seq(R) /\ DOMAIN ps = DOMAIN hs /\ \A k \in DOMAIN hs : ps[k] = Parsed(hs[k])
  <2>1. DOMAIN hs = 1 .. Len(hs) /\ Len(hs) \in Nat
    OBVIOUS
  <2>2. ps \in [1 .. Len(hs) -> R]
    BY <1>2, <2>1
  <2> HIDE DEF R
  <2>3. QED
    BY <2>1, <2>2
<1>4. \A h \in R : DayRow(h)
  OBVIOUS
<1> HIDE DEF ps, R
<1>5. /\ open \in Seq(TimeIntervals) /\ Canonical(open)
      /\ \A t \in Int : Covered(open, t) <=> \E k \in DOMAIN ps : Covers(OnDay(ps[k].start, ps[k].end), t)
  BY <1>3, <1>4, OpenExact
<1>6. \A t \in Int : Covered(open, t) <=> \E k \in DOMAIN hs : OpenAt(hs[k], t)
  BY <1>3, <1>5 DEF OpenAt
<1>7. /\ taken \in Seq(S)
      /\ \A t : Covered(taken, t) <=> Covered(FetchedForDay(fixed), t) \/ Covered(FetchedForDay(booked), t)
  BY TakenExact
<1> HIDE DEF open, taken
<1>8. Len(taken) \in Nat /\ DOMAIN taken = 1 .. Len(taken) /\ \A k \in DOMAIN taken : Bounded(taken[k])
  BY <1>7
<1>9. /\ SubtractMany(open, taken) \in Seq(TimeIntervals)
      /\ Canonical(SubtractMany(open, taken))
      /\ \A t \in Int : Covered(SubtractMany(open, taken), t) <=> Covered(open, t) /\ ~ Covered(taken, t)
  BY <1>5, <1>8, SubtractManyExact
<1>10. QED
  BY <1>1, <1>6, <1>7, <1>9

\* The rows a save is about to write are its own, and open before they close as texts.
RowsCompared ==
  /\ \A h \in hours : TextBefore(h.opens, h.closes)
  /\ \A s \in Saves : \A h \in saving[s].rows : h.save = s /\ TextBefore(h.opens, h.closes)

\* The active bookings of the facility are valid intervals that do not overlap.
BookingsApart ==
  /\ \A p \in blocks \cup bookings : ValidInterval(p)
  /\ \A p, q \in bookings : p # q => ~ Overlaps(p, q)

LEMMA OverlapsSymmetric == \A p, q : Overlaps(p, q) <=> Overlaps(q, p)
  BY DEF Overlaps

LEMMA RowsTyped ==
  ASSUME NEW s \in Saves, NEW windows \in SUBSET Windows,
         \A w \in windows : TextBefore(w.opens, w.closes)
  PROVE  LET rows == {[save |-> s, opens |-> w.opens, closes |-> w.closes] : w \in windows}
         IN  rows \subseteq HoursRow /\ \A h \in rows : h.save = s /\ TextBefore(h.opens, h.closes)
  BY ScheduleAssumption DEF HoursRow

\* Whatever windows the requests carry and however they race, the stored rows are texts of
\* times of one day, each sorting before the other, which need not be earlier; blocks and
\* bookings are valid, and bookings do not overlap (updateOperatingHours, createBlock, create).
THEOREM ScheduleTypeCorrect == ScheduleSpec => [](ScheduleTypeOK /\ RowsCompared /\ BookingsApart)
<1> DEFINE Inv == ScheduleTypeOK /\ RowsCompared /\ BookingsApart
<1>1. ScheduleInit => Inv
  BY DEF ScheduleInit, ScheduleTypeOK, RowsCompared, BookingsApart, Save
<1>2. ASSUME Inv, [ScheduleNext]_scheduleVars PROVE Inv'
  <2> USE <1>2 DEF ScheduleTypeOK, RowsCompared, BookingsApart
  <2>1. ASSUME NEW s \in Saves, NEW windows \in SUBSET Windows, BeginSave(s, windows)
        PROVE  Inv'
    <3> DEFINE rows == {[save |-> s, opens |-> w.opens, closes |-> w.closes] : w \in windows}
    <3>1. rows \subseteq HoursRow /\ \A h \in rows : h.save = s /\ TextBefore(h.opens, h.closes)
      BY <2>1, RowsTyped DEF BeginSave
    <3>2. saving' = [saving EXCEPT ![s] = [phase |-> "running", seen |-> hours, rows |-> rows]]
      BY <2>1 DEF BeginSave
    <3>3. saving' \in [Saves -> Save]
      BY <3>1, <3>2 DEF Save
    <3> HIDE DEF rows
    <3>4. \A t \in Saves : \A h \in saving'[t].rows : h.save = t /\ TextBefore(h.opens, h.closes)
      BY <3>1, <3>2
    <3>5. QED
      BY <2>1, <3>3, <3>4 DEF BeginSave
  <2>2. ASSUME NEW s \in Saves, CommitSave(s) PROVE Inv'
    <3>1. saving[s].rows \subseteq HoursRow /\ saving' \in [Saves -> Save]
      BY <2>2 DEF CommitSave, Save
    <3>2. \A t \in Saves : saving'[t].rows = saving[t].rows
      BY <2>2 DEF CommitSave, Save
    <3>3. QED
      BY <2>2, <3>1, <3>2 DEF CommitSave
  <2>3. ASSUME NEW p \in Periods, CreateBlock(p) \/ DeleteBlock(p) PROVE Inv'
    BY <2>3 DEF CreateBlock, DeleteBlock
  <2>4. ASSUME NEW p \in Periods, Book(p) PROVE Inv'
    BY <2>4, OverlapsSymmetric DEF Book
  <2>5. ASSUME NEW p \in Periods, Unbook(p) PROVE Inv'
    BY <2>5 DEF Unbook
  <2>6. CASE UNCHANGED scheduleVars
    BY <2>6 DEF scheduleVars
  <2>7. QED
    BY <2>1, <2>2, <2>3, <2>4, <2>5, <2>6 DEF ScheduleNext
<1>3. QED
  BY <1>1, <1>2, PTL DEF ScheduleSpec

\* The tables never hold infinitely many rows, so the queries return lists of them.
TablesFinite ==
  /\ IsFiniteSet(hours) /\ IsFiniteSet(blocks) /\ IsFiniteSet(bookings)
  /\ \A s \in Saves : IsFiniteSet(saving[s].rows)

LEMMA SavedRowsFinite ==
  ASSUME NEW s, NEW rows \in SUBSET HoursRow, \A h \in rows : h.save = s
  PROVE  IsFiniteSet(rows)
<1> DEFINE f == [h \in rows |-> <<h.opens, h.closes>>]
           symbols == Digit \cup {Colon}
<1>1. IsFiniteSet(Digit) /\ IsFiniteSet(symbols)
  <2>1. IsFiniteSet(0 .. 9)
    <3>1. 0 \in Int /\ 9 \in Int
      OBVIOUS
    <3>2. QED
      BY <3>1, FS_Interval
  <2>2. QED
    BY <2>1, FS_AddElement DEF Digit
<1>2. IsFiniteSet(Digit \X symbols)
  BY <1>1, FS_Product
<1>3. IsFiniteSet(Text)
  BY <1>2, FS_Subset DEF Text
<1>4. IsFiniteSet(Text \X Text)
  BY <1>3, FS_Product
<1>5. f \in [rows -> Text \X Text]
  BY DEF HoursRow
<1>6. ASSUME NEW g \in rows, NEW h \in rows, f[g] = f[h] PROVE g = h
  <2>1. g.opens = h.opens /\ g.closes = h.closes /\ g.save = h.save
    BY <1>6
  <2>2. g \in HoursRow /\ h \in HoursRow
    OBVIOUS
  <2>3. QED
    BY <2>1, <2>2 DEF HoursRow
<1>7. f \in Injection(rows, Text \X Text)
  BY <1>5, <1>6 DEF Injection, IsInjective
<1>8. QED
  BY <1>4, <1>7, FS_Injection

LEMMA TablesStayFinite == ScheduleSpec => []TablesFinite
<1> DEFINE Typed == ScheduleTypeOK /\ RowsCompared /\ BookingsApart
<1>1. ScheduleInit => TablesFinite
  <2> SUFFICES ASSUME ScheduleInit PROVE TablesFinite
    OBVIOUS
  <2>1. IsFiniteSet({})
    BY FS_EmptySet
  <2>2. \A s \in Saves : saving[s].rows = {}
    BY DEF ScheduleInit
  <2>3. QED
    BY <2>1, <2>2 DEF ScheduleInit, TablesFinite
<1>2. ASSUME Typed, Typed', TablesFinite, [ScheduleNext]_scheduleVars PROVE TablesFinite'
  <2> USE <1>2 DEF TablesFinite
  <2>1. ASSUME NEW s \in Saves, NEW windows \in SUBSET Windows, BeginSave(s, windows)
        PROVE  TablesFinite'
    <3>1. \A r \in Saves : IsFiniteSet(saving'[r].rows)
      <4> SUFFICES ASSUME NEW r \in Saves PROVE IsFiniteSet(saving'[r].rows)
        OBVIOUS
      <4>1. saving'[r].rows \in SUBSET HoursRow /\ \A h \in saving'[r].rows : h.save = r
        BY DEF ScheduleTypeOK, RowsCompared, Save
      <4>2. QED
        BY <4>1, SavedRowsFinite
    <3>2. QED
      BY <2>1, <3>1 DEF BeginSave
  <2>2. ASSUME NEW s \in Saves, CommitSave(s) PROVE TablesFinite'
    <3>1. \A r \in Saves : saving'[r].rows = saving[r].rows
      BY <2>2 DEF CommitSave, ScheduleTypeOK, Save
    <3>2. IsFiniteSet(hours \ saving[s].seen)
      BY FS_Difference
    <3>3. IsFiniteSet((hours \ saving[s].seen) \cup saving[s].rows)
      BY <3>2, FS_Union
    <3>4. QED
      BY <2>2, <3>1, <3>3 DEF CommitSave
  <2>3. ASSUME NEW p \in Periods, CreateBlock(p) \/ DeleteBlock(p) PROVE TablesFinite'
    <3>1. IsFiniteSet(blocks \cup {p}) /\ IsFiniteSet(blocks \ {p})
      BY FS_AddElement, FS_Difference
    <3>2. QED
      BY <2>3, <3>1 DEF CreateBlock, DeleteBlock
  <2>4. ASSUME NEW p \in Periods, Book(p) \/ Unbook(p) PROVE TablesFinite'
    <3>1. IsFiniteSet(bookings \cup {p}) /\ IsFiniteSet(bookings \ {p})
      BY FS_AddElement, FS_Difference
    <3>2. QED
      BY <2>4, <3>1 DEF Book, Unbook
  <2>5. CASE UNCHANGED scheduleVars
    BY <2>5 DEF scheduleVars
  <2>6. QED
    BY <2>1, <2>2, <2>3, <2>4, <2>5 DEF ScheduleNext
<1>3. QED
  BY <1>1, <1>2, ScheduleTypeCorrect, PTL DEF ScheduleSpec

\* In every such state the engine's answer is in order and exact, whatever order each
\* query returns its rows in.
LEMMA FreeInState ==
  ASSUME ScheduleTypeOK, RowsCompared, BookingsApart, TablesFinite,
         NEW h \in SetToSeqs(hours), NEW b \in SetToSeqs(blocks), NEW k \in SetToSeqs(bookings)
  PROVE  /\ FreeIn(h, b, k) \in Seq(TimeIntervals)
         /\ Canonical(FreeIn(h, b, k))
         /\ \A t \in Int : Covered(FreeIn(h, b, k), t) <=>
                             /\ \E row \in hours : OpenAt(row, t)
                             /\ ~ \E p \in blocks \cup bookings : InDay(p) /\ Covers(p, t)
<1> DEFINE S == blocks \cup bookings
<1>1. h \in Seq(hours) /\ \A t : (\E n \in DOMAIN h : OpenAt(h[n], t)) <=> \E x \in hours : OpenAt(x, t)
  <2>1. h \in Seq(hours) /\ \A x : (\E n \in DOMAIN h : h[n] = x) <=> x \in hours
    BY OrderEnumerates DEF TablesFinite
  <2>2. QED
    BY <2>1
<1>2. b \in Seq(blocks) /\ \A t : Covered(FetchedForDay(b), t) <=> \E x \in blocks : InDay(x) /\ Covers(x, t)
  <2>1. b \in Seq(blocks) /\ \A x : (\E n \in DOMAIN b : b[n] = x) <=> x \in blocks
    BY OrderEnumerates DEF TablesFinite
  <2>2. QED
    BY <2>1, FetchedExact DEF InDay
<1>3. k \in Seq(bookings) /\ \A t : Covered(FetchedForDay(k), t) <=> \E x \in bookings : InDay(x) /\ Covers(x, t)
  <2>1. k \in Seq(bookings) /\ \A x : (\E n \in DOMAIN k : k[n] = x) <=> x \in bookings
    BY OrderEnumerates DEF TablesFinite
  <2>2. QED
    BY <2>1, FetchedExact DEF InDay
<1>4. b \in Seq(S) /\ k \in Seq(S)
  BY <1>2, <1>3
<1>5. \A x \in hours : x.opens \in Text /\ x.closes \in Text
  BY DEF ScheduleTypeOK, HoursRow
<1>6. \A p \in S : Bounded(p)
  BY ScheduleAssumption DEF ScheduleTypeOK, BookingsApart, ValidInterval, Bounded
<1> HIDE DEF S
<1>7. /\ FreeIn(h, b, k) \in Seq(TimeIntervals)
      /\ Canonical(FreeIn(h, b, k))
      /\ \A t \in Int : Covered(FreeIn(h, b, k), t) <=>
                          /\ \E n \in DOMAIN h : OpenAt(h[n], t)
                          /\ ~ Covered(FetchedForDay(b), t)
                          /\ ~ Covered(FetchedForDay(k), t)
  BY <1>1, <1>4, <1>5, <1>6, FreeExact
<1>8. QED
  BY <1>1, <1>2, <1>3, <1>7

LEMMA OrdersExist ==
  ASSUME TablesFinite
  PROVE  /\ SetToSeq(hours) \in SetToSeqs(hours)
         /\ SetToSeq(blocks) \in SetToSeqs(blocks)
         /\ SetToSeq(bookings) \in SetToSeqs(bookings)
  BY SetToSeqEnumerates DEF TablesFinite

\* At every instant of the day asked for the engine offers what is open and not taken,
\* nothing more and nothing less, however many rows the tables hold, and also when hours
\* run past midnight (getAvailability; time-interval.util).
THEOREM FreeTimeHolds == ScheduleSpec => []FreeTimeExact
<1>1. ASSUME ScheduleTypeOK, RowsCompared, BookingsApart, TablesFinite PROVE FreeTimeExact
  <2>1. \A t \in Int : Covered(Free, t) <=>
                          /\ \E row \in hours : OpenAt(row, t)
                          /\ ~ \E p \in blocks \cup bookings : InDay(p) /\ Covers(p, t)
    BY <1>1, OrdersExist, FreeInState DEF Free
  <2>2. ASSUME NEW t \in TimeOfDay, NEW p \in blocks \cup bookings, Covers(p, t) PROVE InDay(p)
    <3>1. p.start \in Int /\ p.end \in Int /\ t \in Int /\ 0 <= t /\ t < Day /\ Day \in Int
      BY <1>1, DayAssumption, ScheduleAssumption DEF TimeOfDay, ScheduleTypeOK
    <3>2. QED
      BY <2>2, <3>1 DEF Covers, InDay
  <2>3. \A t \in TimeOfDay : t \in Int /\ (Offered(t) <=> Covered(Free, t))
    BY DayAssumption DEF TimeOfDay, Offered, Covered
  <2> HIDE DEF Free
  <2>4. QED
    BY <2>1, <2>2, <2>3 DEF FreeTimeExact, TakenAt
<1>2. QED
  BY <1>1, ScheduleTypeCorrect, TablesStayFinite, PTL

\* No instant is offered twice, whatever overlapping rows racing saves leave behind
\* (updateOperatingHours and merge).
THEOREM FreeApartHolds == ScheduleSpec => []FreePeriodsApart
<1>1. ASSUME ScheduleTypeOK, RowsCompared, BookingsApart, TablesFinite PROVE FreePeriodsApart
  <2>1. Free \in Seq(TimeIntervals) /\ Canonical(Free)
    BY <1>1, OrdersExist, FreeInState DEF Free
  <2> SUFFICES ASSUME NEW j \in DOMAIN Free, NEW k \in DOMAIN Free, j # k
               PROVE  ~ Overlaps(Free[j], Free[k])
    BY DEF FreePeriodsApart
  <2>2. Free[j] \in TimeIntervals /\ Free[k] \in TimeIntervals /\ (j < k \/ k < j)
    BY <2>1
  <2>3. Free[j].end < Free[k].start \/ Free[k].end < Free[j].start
    BY <2>1, <2>2 DEF Canonical
  <2>4. /\ Free[j].start \in Int /\ Free[j].end \in Int
        /\ Free[k].start \in Int /\ Free[k].end \in Int
    BY <2>2, IntervalBounds
  <2>5. QED
    BY <2>3, <2>4 DEF Overlaps
<1>2. QED
  BY <1>1, ScheduleTypeCorrect, TablesStayFinite, PTL

\* The three queries have no ORDER BY, and need none (getAvailability): two lists in order
\* that cover the same time are the same list.
THEOREM OrderHolds == ScheduleSpec => []OrderDoesNotMatter
<1>1. ASSUME ScheduleTypeOK, RowsCompared, BookingsApart, TablesFinite PROVE OrderDoesNotMatter
  <2> SUFFICES ASSUME NEW h \in SetToSeqs(hours), NEW b \in SetToSeqs(blocks), NEW k \in SetToSeqs(bookings)
               PROVE  FreeIn(h, b, k) = Free
    BY DEF OrderDoesNotMatter
  <2> DEFINE Exact(list) == /\ list \in Seq(TimeIntervals) /\ Canonical(list)
                            /\ \A t \in Int : Covered(list, t) <=>
                                 /\ \E row \in hours : OpenAt(row, t)
                                 /\ ~ \E p \in blocks \cup bookings : InDay(p) /\ Covers(p, t)
  <2>1. Exact(FreeIn(h, b, k))
    BY <1>1, FreeInState
  <2>2. Exact(Free)
    BY <1>1, OrdersExist, FreeInState DEF Free
  <2>3. QED
    BY <2>1, <2>2, CanonicalUnique
<1>2. QED
  BY <1>1, ScheduleTypeCorrect, TablesStayFinite, PTL
=============================================================================
