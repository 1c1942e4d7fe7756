---------------------------- MODULE SetInduction -----------------------------
(***************************************************************************)
(* Induction over the natural numbers and the recursive functions it       *)
(* justifies, stated with sets and functions in the place of predicates    *)
(* and operators, and what follows for the closure of a finite set under a *)
(* step; then what Reach of Reachability has, and what FlattenSeq has.     *)
(***************************************************************************)
EXTENDS Reachability, Integers, SequencesExt, FiniteSetTheorems, SequenceTheorems,
        WellFoundedInduction, TLAPS

\* Every set of natural numbers that is not empty has a least element.
LEMMA LeastNumber ==
  ASSUME NEW S \in SUBSET Nat, S # {}
  PROVE  \E m \in S : \A k \in S : m <= k
<1>1. PICK n \in S : TRUE
  OBVIOUS
<1> DEFINE Below == {0..m : m \in S \intersect (0..n)}
<1>2. Below \subseteq FiniteSubsetsOf(0..n)
  <2>1. ASSUME NEW m \in S \intersect (0..n)
        PROVE  0..m \in SUBSET (0..n) /\ IsFiniteSet(0..m)
    BY <2>1, FS_Interval
  <2>2. QED
    BY <2>1 DEF FiniteSubsetsOf
<1>3. Below # {}
  BY <1>1
<1>4. IsWellFoundedOn(StrictSubsetOrdering(0..n), FiniteSubsetsOf(0..n))
  BY FS_StrictSubsetOrderingWellFounded
<1>5. PICK x \in Below : \A y \in Below : <<y, x>> \notin StrictSubsetOrdering(0..n)
  <2> HIDE DEF Below
  <2>1. QED
    BY <1>2, <1>3, <1>4, WFMin
<1>6. PICK m \in S \intersect (0..n) : x = 0..m
  OBVIOUS
<1>7. ASSUME NEW k \in S, k < m PROVE FALSE
  <2>1. 0..k \in Below
    BY <1>7, <1>6
  <2>2. 0..k \subseteq 0..m /\ m \in 0..m /\ m \notin 0..k
    BY <1>7, <1>6
  <2>3. 0..k \in SUBSET (0..n) /\ 0..m \in SUBSET (0..n)
    BY <1>6, <1>7
  <2>4. <<0..k, 0..m>> \in StrictSubsetOrdering(0..n)
    BY <2>2, <2>3 DEF StrictSubsetOrdering
  <2>5. QED
    BY <1>5, <1>6, <2>1, <2>4
<1>8. QED
  BY <1>6, <1>7

\* A set that has 0 and with every number the next has all of them.
LEMMA SetInduction ==
  ASSUME NEW S, 0 \in S, \A n \in Nat : n \in S => n + 1 \in S
  PROVE  Nat \subseteq S
<1> SUFFICES ASSUME Nat \ S # {} PROVE FALSE
  OBVIOUS
<1>1. PICK m \in Nat \ S : \A k \in Nat \ S : m <= k
  BY LeastNumber
<1>2. m # 0 /\ m - 1 \in Nat
  BY <1>1
<1>3. m - 1 \in S
  BY <1>1, <1>2
<1>4. QED
  BY <1>1, <1>2, <1>3

\* The functions that start with v and take step k of G after k steps.
Course(V, v, G) ==
  {f \in [Nat -> V] : f[0] = v /\ \A k \in Nat : f[k + 1] = G[k][f[k]]}

\* A function that is defined step by step exists.
LEMMA CourseExists ==
  ASSUME NEW V, NEW v \in V, NEW G \in [Nat -> [V -> V]]
  PROVE  \E f : f \in Course(V, v, G)
<1> DEFINE IsStep(g, i) ==
             /\ g \in [0..i -> V]
             /\ g[0] = v
             /\ \A k \in Nat : k < i => g[k + 1] = G[k][g[k]]
           S == {i \in Nat : \E g : IsStep(g, i)}
<1>1. 0 \in S
  <2>1. IsStep([k \in 0..0 |-> v], 0)
    OBVIOUS
  <2>2. QED
    BY <2>1
<1>2. ASSUME NEW i \in Nat, i \in S PROVE i + 1 \in S
  <2>1. PICK g : IsStep(g, i)
    BY <1>2
  <2> DEFINE h == [k \in 0..(i + 1) |-> IF k = i + 1 THEN G[i][g[i]] ELSE g[k]]
  <2>2. g[i] \in V /\ G[i][g[i]] \in V
    BY <2>1
  <2>3. ASSUME NEW k \in 0..i PROVE h[k] = g[k] /\ h[k] \in V
    BY <2>1
  <2>4. h[i + 1] = G[i][g[i]]
    OBVIOUS
  <2>5. h \in [0..(i + 1) -> V]
    <3>1. h[i + 1] \in V
      BY <2>2, <2>4
    <3>2. ASSUME NEW k \in 0..(i + 1) PROVE h[k] \in V
      <4>1. k = i + 1 \/ k \in 0..i
        OBVIOUS
      <4> HIDE DEF h
      <4>2. QED
        BY <2>3, <3>1, <4>1
    <3>3. QED
      BY <3>2
  <2> HIDE DEF h
  <2>6. h[0] = v
    BY <2>1, <2>3
  <2>7. ASSUME NEW k \in Nat, k < i + 1 PROVE h[k + 1] = G[k][h[k]]
    <3>1. k \in 0..i /\ h[k] = g[k]
      BY <2>3, <2>7
    <3>2. CASE k = i
      BY <2>4, <3>1, <3>2
    <3>3. CASE k # i
      <4>1. k + 1 \in 0..i /\ k < i
        BY <2>7, <3>3
      <4>2. QED
        BY <2>1, <2>3, <3>1, <4>1
    <3>4. QED
      BY <3>2, <3>3
  <2>8. IsStep(h, i + 1)
    BY <2>5, <2>6, <2>7
  <2>9. QED
    BY <2>8
<1>3. ASSUME NEW i \in Nat PROVE \E g : IsStep(g, i)
  <2> HIDE DEF S
  <2>1. i \in S
    BY <1>1, <1>2, SetInduction
  <2>2. QED
    BY <2>1 DEF S
<1>4. ASSUME NEW i \in Nat, NEW g, NEW h, IsStep(g, i), IsStep(h, i + 1)
      PROVE  g[i] = h[i]
  <2> DEFINE T == {k \in Nat : k <= i => g[k] = h[k]}
  <2>1. 0 \in T
    BY <1>4
  <2>2. ASSUME NEW k \in Nat, k \in T PROVE k + 1 \in T
    <3> SUFFICES ASSUME k + 1 <= i PROVE g[k + 1] = h[k + 1]
      OBVIOUS
    <3>1. k < i /\ k < i + 1 /\ g[k] = h[k]
      BY <2>2
    <3>2. g[k + 1] = G[k][g[k]] /\ h[k + 1] = G[k][h[k]]
      BY <1>4, <3>1
    <3>3. QED
      BY <3>1, <3>2
  <2> HIDE DEF T
  <2>3. i \in T
    BY <2>1, <2>2, SetInduction
  <2>4. QED
    BY <2>3 DEF T
<1> DEFINE Step(n) == CHOOSE g : IsStep(g, n)
           f == [n \in Nat |-> Step(n)[n]]
<1>5. ASSUME NEW n \in Nat PROVE IsStep(Step(n), n)
  BY <1>3
<1> HIDE DEF Step
<1>6. ASSUME NEW n \in Nat PROVE f[n] = Step(n)[n] /\ f[n] \in V
  BY <1>5
<1>7. f \in [Nat -> V]
  BY <1>6
<1>8. f[0] = v
  BY <1>5, <1>6
<1>9. ASSUME NEW k \in Nat PROVE f[k + 1] = G[k][f[k]]
  <2>1. Step(k)[k] = Step(k + 1)[k]
    <3>1. IsStep(Step(k), k) /\ IsStep(Step(k + 1), k + 1)
      BY <1>5
    <3> HIDE DEF IsStep
    <3>2. QED
      BY <1>4, <3>1
  <2>2. Step(k + 1)[k + 1] = G[k][Step(k + 1)[k]]
    BY <1>5
  <2>3. QED
    BY <1>6, <2>1, <2>2
<1> HIDE DEF f
<1>10. QED
  BY <1>7, <1>8, <1>9 DEF Course

-----------------------------------------------------------------------------
\* The sets that start with the given one and grow by the same step.
Growth(base, start, Grow) == Course(SUBSET base, start, [k \in Nat |-> Grow])

\* The steps that add to a set within a base.
Growing(base) ==
  {G \in [SUBSET base -> SUBSET base] : \A X \in SUBSET base : X \subseteq G[X]}

LEMMA GrowthExists ==
  ASSUME NEW Base, NEW start \in SUBSET Base, NEW Grow \in Growing(Base)
  PROVE  \E g : g \in Growth(Base, start, Grow)
<1> DEFINE V == SUBSET Base
           G == [k \in Nat |-> Grow]
<1>1. start \in V /\ G \in [Nat -> [V -> V]]
  BY DEF Growing
<1> HIDE DEF V, G
<1>2. \E g : g \in Course(V, start, G)
  BY <1>1, CourseExists
<1>3. QED
  BY <1>2 DEF V, G, Growth

\* A set that grows in a finite one, step by step, has come to rest after as
\* many steps as that has elements.
LEMMA GrowthEnds ==
  ASSUME NEW Base, IsFiniteSet(Base), NEW start \in SUBSET Base,
         NEW Grow \in Growing(Base), NEW g \in Growth(Base, start, Grow)
  PROVE  LET N == Cardinality(Base) IN start \subseteq g[N] /\ Grow[g[N]] = g[N]
<1> DEFINE N == Cardinality(Base)
<1>1. /\ Grow \in [SUBSET Base -> SUBSET Base]
      /\ \A X \in SUBSET Base : X \subseteq Grow[X]
  BY DEF Growing
<1>2. g[0] = start /\ \A k \in Nat : g[k + 1] = Grow[g[k]]
  BY DEF Growth, Course
<1>3. g \in [Nat -> SUBSET Base]
  BY DEF Growth, Course
<1>4. N \in Nat /\ N = Cardinality(Base)
  BY FS_CardinalityType
<1> HIDE DEF N
<1> DEFINE S == {k \in Nat : /\ start \subseteq g[k]
                             /\ (Grow[g[k]] = g[k] \/ Cardinality(g[k]) >= k)}
<1>5. ASSUME NEW k \in Nat PROVE IsFiniteSet(g[k]) /\ Cardinality(g[k]) \in Nat
  <2>1. g[k] \in SUBSET Base
    BY <1>3
  <2>2. IsFiniteSet(g[k])
    BY <2>1, FS_Subset
  <2>3. QED
    BY <2>2, FS_CardinalityType
<1>6. 0 \in S
  BY <1>2, <1>5
<1>7. ASSUME NEW k \in Nat, k \in S PROVE k + 1 \in S
  <2>1. g[k] \in SUBSET Base /\ g[k] \subseteq g[k + 1] /\ g[k + 1] = Grow[g[k]]
    BY <1>2, <1>3, <1>1
  <2>2. start \subseteq g[k + 1]
    BY <1>7, <2>1
  <2>3. CASE Grow[g[k]] = g[k]
    BY <2>1, <2>2, <2>3
  <2>4. CASE Grow[g[k]] # g[k]
    <3>1. Cardinality(g[k]) >= k
      BY <1>7, <2>4
    <3>2. IsFiniteSet(g[k + 1]) /\ g[k] \in SUBSET g[k + 1] /\ g[k] # g[k + 1]
      BY <1>5, <2>1, <2>4
    <3>3. /\ Cardinality(g[k]) <= Cardinality(g[k + 1])
          /\ Cardinality(g[k]) # Cardinality(g[k + 1])
      BY <3>2, FS_Subset
    <3>4. Cardinality(g[k]) \in Nat /\ Cardinality(g[k + 1]) \in Nat
      BY <1>5
    <3> HIDE DEF S
    <3>5. Cardinality(g[k + 1]) >= k + 1
      BY ONLY k \in Nat, <3>1, <3>3, <3>4
    <3> USE DEF S
    <3>6. QED
      BY <2>2, <3>5
  <2>5. QED
    BY <2>3, <2>4
<1>8. start \subseteq g[N] /\ (Grow[g[N]] = g[N] \/ Cardinality(g[N]) >= N)
  <2> HIDE DEF S
  <2>1. N \in S
    BY <1>4, <1>6, <1>7, SetInduction
  <2>2. QED
    BY <2>1 DEF S
<1>9. ASSUME Cardinality(g[N]) >= N PROVE Grow[g[N]] = g[N]
  <2>1. g[N] \in SUBSET Base
    BY <1>3, <1>4
  <2>2. Cardinality(g[N]) <= N
    BY <1>4, <2>1, FS_Subset
  <2>3. Cardinality(g[N]) = N
    BY <1>4, <1>5, <1>9, <2>2
  <2>4. g[N] = Base
    BY <1>4, <2>1, <2>3, FS_Subset
  <2>5. Grow[Base] = Base
    <3>1. Base \in SUBSET Base
      OBVIOUS
    <3>2. Grow[Base] \subseteq Base /\ Base \subseteq Grow[Base]
      BY <1>1, <3>1
    <3>3. QED
      BY <3>2
  <2>6. QED
    BY <1>8, <2>4, <2>5
<1>10. QED
  BY <1>8, <1>9 DEF N

\* What is closed under the step is never left.
LEMMA GrowthStays ==
  ASSUME NEW Base, NEW start \in SUBSET Base, NEW Grow \in Growing(Base),
         NEW g \in Growth(Base, start, Grow),
         NEW X \in SUBSET Base, start \subseteq X, \A Y \in SUBSET X : Grow[Y] \subseteq X,
         NEW n \in Nat
  PROVE  g[n] \subseteq X
<1> DEFINE S == {k \in Nat : g[k] \subseteq X}
<1>1. g[0] = start /\ \A k \in Nat : g[k + 1] = Grow[g[k]]
  BY DEF Growth, Course
<1>2. 0 \in S /\ \A k \in Nat : k \in S => k + 1 \in S
  BY <1>1
<1> HIDE DEF S
<1>3. n \in S
  BY <1>2, SetInduction
<1>4. QED
  BY <1>3 DEF S

-----------------------------------------------------------------------------
\* What is reached is the least set that has the start and is closed.
LEMMA ReachLeast ==
  ASSUME NEW Base, IsFiniteSet(Base), NEW start \in SUBSET Base, NEW next \in [Base -> SUBSET Base]
  PROVE  /\ Reach(Base, start, next) \in SUBSET Base
         /\ start \subseteq Reach(Base, start, next)
         /\ \A x \in Reach(Base, start, next) : next[x] \subseteq Reach(Base, start, next)
         /\ \A X \in SUBSET Base :
              start \subseteq X /\ (\A x \in X : next[x] \subseteq X)
                => Reach(Base, start, next) \subseteq X
<1> DEFINE N == Cardinality(Base)
           Next(X) == UNION {next[x] : x \in X}
           Grow == [X \in SUBSET Base |-> X \union Next(X)]
           reached == CHOOSE u : u = [k \in 0..Cardinality(Base) |->
                        IF k = 0 THEN start
                        ELSE u[k - 1] \union UNION {next[x] : x \in u[k - 1]}]
<1>1. N \in Nat /\ N = Cardinality(Base)
  BY FS_CardinalityType
<1>2. \A X \in SUBSET Base : Next(X) \in SUBSET Base
  OBVIOUS
<1>3. /\ \A X \in SUBSET Base : Grow[X] = X \union Next(X)
      /\ Grow \in Growing(Base)
  BY <1>2 DEF Growing
<1>4. \A X : \A x \in X : next[x] \subseteq Next(X)
  OBVIOUS
<1>5. \A X, Y \in SUBSET Base :
        (\A x \in X : next[x] \subseteq X) /\ Y \subseteq X => Next(Y) \subseteq X
  OBVIOUS
<1> HIDE DEF N, Grow, Next
<1>6. PICK g : g \in Growth(Base, start, Grow)
  BY <1>3, GrowthExists
<1>7. start \subseteq g[N] /\ Grow[g[N]] = g[N]
  BY <1>1, <1>3, <1>6, GrowthEnds
<1>8. /\ g \in [Nat -> SUBSET Base]
      /\ g[0] = start
      /\ \A k \in Nat : g[k + 1] = Grow[g[k]]
  BY <1>6 DEF Growth, Course
<1>9. \E u : u = [k \in 0..N |-> IF k = 0 THEN start ELSE u[k - 1] \union Next(u[k - 1])]
  <2> DEFINE u == [k \in 0..N |-> g[k]]
  <2>1. ASSUME NEW k \in 0..N
        PROVE  u[k] = IF k = 0 THEN start ELSE u[k - 1] \union Next(u[k - 1])
    <3>1. CASE k = 0
      BY <1>8, <3>1
    <3>2. CASE k # 0
      <4>1. k - 1 \in Nat /\ k - 1 \in 0..N /\ (k - 1) + 1 = k
        BY <1>1, <3>2
      <4>2. g[k] = Grow[g[k - 1]] /\ g[k - 1] \in SUBSET Base
        BY <1>8, <4>1
      <4>3. u[k] = g[k] /\ u[k - 1] = g[k - 1]
        BY <4>1
      <4>4. QED
        BY <1>3, <3>2, <4>2, <4>3
    <3>3. QED
      BY <3>1, <3>2
  <2>2. u = [k \in 0..N |-> u[k]]
    OBVIOUS
  <2> HIDE DEF u
  <2>3. u = [k \in 0..N |-> IF k = 0 THEN start ELSE u[k - 1] \union Next(u[k - 1])]
    BY <2>1, <2>2, Zenon
  <2>4. QED
    BY <2>3, Zenon
<1>10. reached = [k \in 0..N |->
                   IF k = 0 THEN start ELSE reached[k - 1] \union Next(reached[k - 1])]
  BY <1>9, Zenon DEF N, Next
<1> HIDE DEF reached
<1>11. \A k \in 0..N :
         reached[k] = IF k = 0 THEN start ELSE reached[k - 1] \union Next(reached[k - 1])
  <2>1. TAKE k \in 0..N
  <2>2. QED
    BY <1>10, Zenon
<1>12. reached[N] = g[N]
  <2> DEFINE S == {k \in Nat : k <= N => reached[k] = g[k]}
  <2>1. 0 \in S
    <3>1. 0 \in 0..N
      BY <1>1
    <3>2. QED
      BY <1>8, <1>11, <3>1
  <2>2. ASSUME NEW k \in Nat, k \in S PROVE k + 1 \in S
    <3> SUFFICES ASSUME k + 1 <= N PROVE reached[k + 1] = g[k + 1]
      OBVIOUS
    <3>1. reached[k] = g[k] /\ k + 1 \in 0..N /\ k + 1 # 0 /\ (k + 1) - 1 = k
      BY <1>1, <2>2
    <3>2. reached[k + 1] = reached[k] \union Next(reached[k])
      BY <1>11, <3>1
    <3>3. g[k + 1] = Grow[g[k]] /\ g[k] \in SUBSET Base
      BY <1>8
    <3>4. QED
      BY <1>3, <3>1, <3>2, <3>3
  <2> HIDE DEF S
  <2>3. N \in S
    BY <1>1, <2>1, <2>2, SetInduction
  <2>4. QED
    BY <1>1, <2>3 DEF S
<1>13. Reach(Base, start, next) = g[N] /\ g[N] \in SUBSET Base
  <2>1. Reach(Base, start, next) = reached[N]
    BY DEF Reach, N, reached
  <2>2. QED
    BY <1>1, <1>8, <1>12, <2>1
<1>14. \A x \in g[N] : next[x] \subseteq g[N]
  BY <1>3, <1>4, <1>7, <1>13
<1>15. ASSUME NEW X \in SUBSET Base, start \subseteq X, \A x \in X : next[x] \subseteq X
       PROVE  g[N] \subseteq X
  <2>1. \A Y \in SUBSET X : Grow[Y] \subseteq X
    BY <1>3, <1>5, <1>15
  <2>2. QED
    BY <1>1, <1>3, <1>6, <1>15, <2>1, GrowthStays
<1>16. QED
  BY <1>7, <1>13, <1>14, <1>15

-----------------------------------------------------------------------------
\* The rows that come when rows are joined one by one.
Joined(T, rows) ==
  {g \in [Nat -> Seq(T)] :
     g[0] = << >> /\ \A k \in Nat : k < Len(rows) => g[k + 1] = g[k] \o rows[k + 1]}

\* Rows are flattened by joining them all.
LEMMA FlattenSteps ==
  ASSUME NEW T, NEW rows \in Seq(Seq(T))
  PROVE  \E g \in Joined(T, rows) : FlattenSeq(rows) = g[Len(rows)]
<1> DEFINE V == Seq(T)
           n == Len(rows)
           G == [k \in Nat |-> [x \in V |-> IF k + 2 <= n THEN x \o rows[k + 2] ELSE x]]
           flat == CHOOSE f : f = [i \in 1..n |-> IF i = 1 THEN rows[i] ELSE f[i - 1] \o rows[i]]
<1>1. n \in Nat /\ \A i \in 1..n : rows[i] \in V
  BY ElementOfSeq, LenProperties
<1>2. CASE n = 0
  <2>1. rows = << >>
    BY <1>2, EmptySeq
  <2>2. FlattenSeq(rows) = << >>
    BY <1>2, <2>1 DEF FlattenSeq
  <2>3. [k \in Nat |-> << >>] \in Joined(T, rows)
    BY <1>2, EmptySeq DEF Joined
  <2>4. QED
    BY <1>2, <2>2, <2>3
<1>3. CASE n # 0
  <2> HIDE DEF n
  <2>1. \A x, y \in V : x \o y \in V
    BY ConcatProperties
  <2>2. rows[1] \in V /\ n >= 1
    BY <1>1, <1>3
  <2> HIDE DEF V
  <2>3. G \in [Nat -> [V -> V]]
    <3>1. ASSUME NEW k \in Nat, NEW x \in V
          PROVE  (IF k + 2 <= n THEN x \o rows[k + 2] ELSE x) \in V
      BY <1>1, <2>1
    <3>2. ASSUME NEW k \in Nat
          PROVE  [x \in V |-> IF k + 2 <= n THEN x \o rows[k + 2] ELSE x] \in [V -> V]
      BY <3>1
    <3>3. QED
      BY <3>2
  <2>4. \A k \in Nat, x \in V : k + 2 <= n => G[k][x] = x \o rows[k + 2]
    OBVIOUS
  <2> HIDE DEF G
  <2>5. PICK g : g \in Course(V, rows[1], G)
    BY <2>2, <2>3, CourseExists
  <2>6. g \in [Nat -> V] /\ g[0] = rows[1] /\ \A k \in Nat : g[k + 1] = G[k][g[k]]
    BY <2>5 DEF Course
  <2>7. \E f : f = [i \in 1..n |-> IF i = 1 THEN rows[i] ELSE f[i - 1] \o rows[i]]
    <3> DEFINE f == [i \in 1..n |-> g[i - 1]]
    <3>1. ASSUME NEW i \in 1..n
          PROVE  f[i] = IF i = 1 THEN rows[i] ELSE f[i - 1] \o rows[i]
      <4>1. CASE i = 1
        BY <2>6, <4>1
      <4>2. CASE i # 1
        <5>1. i - 2 \in Nat /\ (i - 2) + 1 = i - 1 /\ (i - 2) + 2 = i /\ i <= n /\ i - 1 \in 1..n
          BY <1>1, <4>2
        <5>2. g[i - 1] = G[i - 2][g[i - 2]] /\ g[i - 2] \in V
          BY <2>6, <5>1
        <5>3. G[i - 2][g[i - 2]] = g[i - 2] \o rows[i]
          BY <2>4, <5>1, <5>2
        <5>4. (i - 1) - 1 = i - 2
          BY <5>1
        <5>5. f[i] = g[i - 1] /\ f[i - 1] = g[i - 2]
          BY <5>1, <5>4
        <5>6. QED
          BY <4>2, <5>2, <5>3, <5>5
      <4>3. QED
        BY <4>1, <4>2
    <3>2. f = [i \in 1..n |-> f[i]]
      OBVIOUS
    <3> HIDE DEF f
    <3>3. f = [i \in 1..n |-> IF i = 1 THEN rows[i] ELSE f[i - 1] \o rows[i]]
      BY <3>1, <3>2, Zenon
    <3>4. QED
      BY <3>3, Zenon
  <2>8. flat = [i \in 1..n |-> IF i = 1 THEN rows[i] ELSE flat[i - 1] \o rows[i]]
    BY <2>7, Zenon
  <2> HIDE DEF flat
  <2>9. \A i \in 1..n : flat[i] = IF i = 1 THEN rows[i] ELSE flat[i - 1] \o rows[i]
    <3>1. TAKE i \in 1..n
    <3>2. QED
      BY <2>8, Zenon
  <2> DEFINE S == {k \in Nat : k < n => flat[k + 1] \in V}
  <2>10. 0 \in S
    <3>1. 1 \in 1..n /\ 0 + 1 = 1
      BY <1>1, <2>2
    <3>2. QED
      BY <2>2, <2>9, <3>1
  <2>11. ASSUME NEW k \in Nat, k \in S PROVE k + 1 \in S
    <3> SUFFICES ASSUME k + 1 < n PROVE flat[(k + 1) + 1] \in V
      OBVIOUS
    <3>1. /\ (k + 1) + 1 \in 1..n /\ (k + 1) + 1 # 1 /\ ((k + 1) + 1) - 1 = k + 1
          /\ flat[k + 1] \in V
      BY <1>1, <2>11
    <3>2. flat[(k + 1) + 1] = flat[k + 1] \o rows[(k + 1) + 1] /\ rows[(k + 1) + 1] \in V
      BY <1>1, <2>9, <3>1
    <3>3. QED
      BY <2>1, <3>1, <3>2
  <2> HIDE DEF S
  <2>12. \A i \in 1..n : flat[i] \in V
    <3>1. TAKE i \in 1..n
    <3>2. i - 1 \in Nat /\ (i - 1) + 1 = i /\ i - 1 < n
      BY <1>1
    <3>3. i - 1 \in S
      BY <2>10, <2>11, <3>2, SetInduction
    <3>4. QED
      BY <3>2, <3>3 DEF S
  <2> DEFINE h == [k \in Nat |-> IF k \in 1..n THEN flat[k] ELSE << >>]
  <2>13. << >> \in V
    BY EmptySeq DEF V
  <2>14. h \in [Nat -> V] /\ h[0] = << >> /\ \A k \in 1..n : h[k] = flat[k] /\ k \in Nat
    BY <1>1, <2>12, <2>13
  <2> HIDE DEF h
  <2>15. ASSUME NEW k \in Nat, k < n PROVE h[k + 1] = h[k] \o rows[k + 1]
    <3>1. k + 1 \in 1..n /\ (k + 1) - 1 = k
      BY <1>1, <2>15
    <3>2. CASE k = 0
      <4>1. h[k + 1] = rows[k + 1] /\ rows[k + 1] \in V /\ h[k] = << >>
        BY <1>1, <2>9, <2>14, <3>1, <3>2
      <4>2. << >> \o rows[k + 1] = rows[k + 1]
        BY <4>1, ConcatEmptySeq DEF V
      <4>3. QED
        BY <4>1, <4>2
    <3>3. CASE k # 0
      <4>1. k \in 1..n /\ k + 1 # 1
        BY <1>1, <2>15, <3>3
      <4>2. flat[k + 1] = flat[k] \o rows[k + 1]
        BY <2>9, <3>1, <4>1
      <4>3. QED
        BY <2>14, <3>1, <4>1, <4>2
    <3>4. QED
      BY <3>2, <3>3
  <2>16. FlattenSeq(rows) = h[n]
    <3>1. n \in 1..n
      BY <1>1, <2>2
    <3>2. FlattenSeq(rows) = flat[n]
      BY <1>3 DEF FlattenSeq, flat, n
    <3>3. QED
      BY <2>14, <3>1, <3>2
  <2>17. h \in Joined(T, rows)
    BY <2>14, <2>15 DEF Joined, V, n
  <2>18. QED
    BY <2>16, <2>17 DEF n
<1>4. QED
  BY <1>2, <1>3

\* A row of rows is flattened to a row of what they have.
LEMMA FlattenType ==
  ASSUME NEW T, NEW rows \in Seq(Seq(T))
  PROVE  FlattenSeq(rows) \in Seq(T)
<1> DEFINE V == Seq(T)
<1>1. Len(rows) \in Nat
  BY LenProperties
<1>2. PICK g \in Joined(T, rows) : FlattenSeq(rows) = g[Len(rows)]
  BY FlattenSteps
<1>3. g \in [Nat -> V]
  BY <1>2 DEF Joined
<1> HIDE DEF V
<1>4. FlattenSeq(rows) \in V
  BY <1>1, <1>2, <1>3
<1>5. QED
  BY <1>4 DEF V

\* What two rows have together, and when they have nothing twice.
LEMMA RangeOfConcat ==
  ASSUME NEW T, NEW s \in Seq(T), NEW t \in Seq(T)
  PROVE  /\ Range(s \o t) = Range(s) \union Range(t)
         /\ IsInjective(s) /\ IsInjective(t) /\ Range(s) \intersect Range(t) = {}
              => IsInjective(s \o t)
<1> SUFFICES ASSUME NEW u, u = s \o t
             PROVE  /\ Range(u) = Range(s) \union Range(t)
                    /\ IsInjective(s) /\ IsInjective(t) /\ Range(s) \intersect Range(t) = {}
                         => IsInjective(u)
  OBVIOUS
<1> DEFINE m == Len(s)
           n == Len(t)
<1>1. /\ m \in Nat /\ n \in Nat /\ DOMAIN s = 1..m /\ DOMAIN t = 1..n
      /\ DOMAIN u = 1..(m + n)
      /\ \A i \in 1..(m + n) : u[i] = IF i <= m THEN s[i] ELSE t[i - m]
  BY ConcatProperties, LenProperties
<1> HIDE DEF m, n
<1>2. \A i \in 1..(m + n) : IF i <= m THEN i \in 1..m ELSE i - m \in 1..n
  BY <1>1
<1>3. \A i \in 1..m : i \in 1..(m + n) /\ u[i] = s[i]
  BY <1>1
<1>4. \A i \in 1..n : i + m \in 1..(m + n) /\ u[i + m] = t[i]
  <2>1. TAKE i \in 1..n
  <2>2. i + m \in 1..(m + n) /\ ~(i + m <= m) /\ (i + m) - m = i
    BY <1>1
  <2>3. QED
    BY <1>1, <2>2
<1>5. Range(u) = Range(s) \union Range(t)
  <2>1. Range(u) \subseteq Range(s) \union Range(t)
    BY <1>1, <1>2 DEF Range
  <2>2. Range(s) \subseteq Range(u)
    BY <1>1, <1>3 DEF Range
  <2>3. Range(t) \subseteq Range(u)
    BY <1>1, <1>4 DEF Range
  <2>4. QED
    BY <2>1, <2>2, <2>3
<1>6. ASSUME IsInjective(s), IsInjective(t), Range(s) \intersect Range(t) = {}
      PROVE  IsInjective(u)
  <2> SUFFICES ASSUME NEW i \in 1..(m + n), NEW j \in 1..(m + n), u[i] = u[j] PROVE i = j
    BY <1>1 DEF IsInjective
  <2>1. CASE i <= m /\ j <= m
    <3>1. i \in 1..m /\ j \in 1..m /\ s[i] = s[j]
      BY <1>1, <1>2, <2>1
    <3>2. QED
      BY <1>1, <1>6, <3>1 DEF IsInjective
  <2>2. CASE ~(i <= m) /\ ~(j <= m)
    <3>1. i - m \in 1..n /\ j - m \in 1..n /\ t[i - m] = t[j - m]
      BY <1>1, <1>2, <2>2
    <3>2. i - m = j - m
      BY <1>1, <1>6, <3>1 DEF IsInjective
    <3>3. QED
      BY <1>1, <3>2
  <2>3. CASE i <= m /\ ~(j <= m)
    <3>1. /\ i \in DOMAIN s /\ u[i] = s[i]
          /\ j - m \in DOMAIN t /\ u[j] = t[j - m]
      BY <1>1, <1>2, <2>3
    <3>2. u[i] \in Range(s) /\ u[j] \in Range(t)
      BY <3>1 DEF Range
    <3>3. QED
      BY <1>6, <3>2
  <2>4. CASE ~(i <= m) /\ j <= m
    <3>1. /\ j \in DOMAIN s /\ u[j] = s[j]
          /\ i - m \in DOMAIN t /\ u[i] = t[i - m]
      BY <1>1, <1>2, <2>4
    <3>2. u[j] \in Range(s) /\ u[i] \in Range(t)
      BY <3>1 DEF Range
    <3>3. QED
      BY <1>6, <3>2
  <2>5. QED
    BY <2>1, <2>2, <2>3, <2>4
<1>7. QED
  BY <1>5, <1>6

\* What a row has when something has been appended.
LEMMA RangeOfAppend ==
  ASSUME NEW T, NEW s \in Seq(T), NEW e \in T
  PROVE  /\ Range(Append(s, e)) = Range(s) \union {e}
         /\ IsInjective(s) /\ e \notin Range(s) => IsInjective(Append(s, e))
<1> DEFINE one == <<e>>
<1>1. /\ one \in Seq(T) /\ DOMAIN one = {1} /\ one[1] = e
  OBVIOUS
<1>2. Append(s, e) = s \o one
  BY AppendIsConcat
<1> HIDE DEF one
<1>3. Range(one) = {e} /\ IsInjective(one)
  BY <1>1 DEF Range, IsInjective
<1>4. /\ Range(s \o one) = Range(s) \union Range(one)
      /\ IsInjective(s) /\ IsInjective(one) /\ Range(s) \intersect Range(one) = {}
           => IsInjective(s \o one)
  BY <1>1, RangeOfConcat
<1>5. QED
  BY <1>2, <1>3, <1>4

\* The flattened row has what the rows have, and nothing twice unless they do.
LEMMA FlattenRange ==
  ASSUME NEW T, NEW rows \in Seq(Seq(T))
  PROVE  /\ Range(FlattenSeq(rows)) = UNION {Range(rows[k]) : k \in 1..Len(rows)}
         /\ /\ \A k \in 1..Len(rows) : IsInjective(rows[k])
            /\ \A k, l \in 1..Len(rows) : k # l => Range(rows[k]) \intersect Range(rows[l]) = {}
            => IsInjective(FlattenSeq(rows))
<1> DEFINE n == Len(rows)
           V == Seq(T)
           Before(k) == UNION {Range(rows[l]) : l \in 1..k}
           Apart == /\ \A k \in 1..n : IsInjective(rows[k])
                    /\ \A k, l \in 1..n : k # l => Range(rows[k]) \intersect Range(rows[l]) = {}
<1>1. n \in Nat /\ \A k \in 1..n : rows[k] \in V
  BY LenProperties, ElementOfSeq
<1>2. PICK g \in Joined(T, rows) : FlattenSeq(rows) = g[n]
  BY FlattenSteps
<1>3. /\ g \in [Nat -> V] /\ g[0] = << >>
      /\ \A k \in Nat : k < n => g[k + 1] = g[k] \o rows[k + 1]
  BY <1>2 DEF Joined
<1> DEFINE Joins(k) == /\ Range(g[k]) = Before(k)
                       /\ Apart => IsInjective(g[k])
           S == {k \in Nat : k <= n => Joins(k)}
<1>4. 0 \in S
  <2>1. Range(<< >>) = {} /\ IsInjective(<< >>)
    <3>1. DOMAIN << >> = {}
      OBVIOUS
    <3>2. QED
      BY ONLY <3>1 DEF Range, IsInjective
  <2>2. Before(0) = {}
    OBVIOUS
  <2>3. QED
    BY <1>3, <2>1, <2>2
<1>5. ASSUME NEW k \in Nat, k \in S PROVE k + 1 \in S
  <2> SUFFICES ASSUME k + 1 <= n
               PROVE  Joins(k + 1)
    <3> HIDE DEF Joins
    <3> QED
      OBVIOUS
  <2>1. k + 1 \in 1..n /\ k < n /\ k <= n /\ 1..(k + 1) = (1..k) \union {k + 1}
    BY <1>1
  <2>2. g[k] \in V /\ rows[k + 1] \in V /\ g[k + 1] = g[k] \o rows[k + 1]
    BY <1>1, <1>3, <2>1
  <2>3. Before(k + 1) = Before(k) \union Range(rows[k + 1])
    BY <2>1
  <2>4. Range(g[k]) = Before(k) /\ (Apart => IsInjective(g[k]))
    BY <1>5, <2>1
  <2>5. /\ Range(g[k + 1]) = Range(g[k]) \union Range(rows[k + 1])
        /\ IsInjective(g[k]) /\ IsInjective(rows[k + 1])
             /\ Range(g[k]) \intersect Range(rows[k + 1]) = {}
             => IsInjective(g[k + 1])
    BY <2>2, RangeOfConcat
  <2>6. Apart => IsInjective(rows[k + 1]) /\ Before(k) \intersect Range(rows[k + 1]) = {}
    <3>1. \A l \in 1..k : l \in 1..n /\ l # k + 1
      BY <1>1, <2>1
    <3>2. QED
      BY <2>1, <3>1
  <2> HIDE DEF Apart, Before
  <2>7. QED
    BY <2>3, <2>4, <2>5, <2>6
<1> HIDE DEF S
<1>6. n \in S
  BY <1>1, <1>4, <1>5, SetInduction
<1>7. Joins(n)
  <2> HIDE DEF Joins
  <2> QED
    BY <1>1, <1>6 DEF S
<1>8. QED
  BY <1>2, <1>7
=============================================================================
