---------------------------- MODULE BackupProofs ----------------------------
(***************************************************************************)
(* Proofs about the backups: the time of the next run (NextRun), the       *)
(* scheduler (BackupPlans) and the steps of a run (BackupRun), for any     *)
(* number of plans, servers and files, any limit and any lengths.          *)
(***************************************************************************)
EXTENDS BackupPlans, BackupRun, FiniteSetTheorems, WellFoundedInduction, TLAPS

\* Every non-empty set of naturals has a smallest element. With it an
\* induction is carried out on sets: a smallest counterexample is none.
LEMMA LeastOfNaturals ==
  ASSUME NEW S \in SUBSET Nat, S # {}
  PROVE  \E x \in S : \A y \in S : x <= y
<1>1. PICK x \in S : \A y \in S : ~(<<y, x>> \in OpToRel(<, Nat))
  <2> HIDE DEF OpToRel
  <2> QED BY NatLessThanWellFounded, WFMin, Zenon
<1>2. \A y \in S : ~(y < x)
  BY <1>1 DEF OpToRel
<1>3. \A y \in S : x <= y
  BY <1>2
<1> QED BY <1>3

-----------------------------------------------------------------------------
(***************************************************************************)
(* next_run: the loop `while t <= after: t += step`, for every step.       *)
(***************************************************************************)

\* What the loop ends with, in one expression.
Ahead(after, s) == [t \in Int |-> IF t <= after THEN t + s * ((after - t) \div s + 1) ELSE t]

\* Quotients, and how they change by one step.
LEMMA DivStep ==
  ASSUME NEW d \in Nat, NEW s \in Nat \ {0}
  PROVE  /\ d \div s \in Nat
         /\ s * (d \div s) <= d /\ d < s * (d \div s + 1)
         /\ d >= s => (d - s) \div s = d \div s - 1
         /\ d < s => d \div s = 0
<1>1. d \div s \in Nat /\ s * (d \div s) <= d /\ d < s * (d \div s + 1)
  OBVIOUS
<1>2. d >= s => (d - s) \div s = d \div s - 1
  OBVIOUS
<1>3. d < s => d \div s = 0
  OBVIOUS
<1> QED BY <1>1, <1>2, <1>3

\* The expression satisfies the equation of the loop ...
LEMMA AheadIsLoop ==
  ASSUME NEW after \in Int, NEW s \in Nat \ {0}
  PROVE  Ahead(after, s) = [t \in Int |-> IF t <= after THEN Ahead(after, s)[t + s] ELSE t]
<1> DEFINE A == Ahead(after, s)
<1> SUFFICES ASSUME NEW t \in Int PROVE A[t] = IF t <= after THEN A[t + s] ELSE t
  BY DEF Ahead
<1>1. CASE t > after
  BY <1>1 DEF Ahead
<1>2. CASE t <= after /\ t + s <= after
  <2> DEFINE d == after - t
             q == d \div s
  <2>1. d \in Nat /\ d >= s
    BY <1>2
  <2>2. q \in Nat /\ (d - s) \div s = q - 1
    BY <2>1, DivStep
  <2>3. A[t] = t + s * (q + 1)
    BY <1>2 DEF Ahead
  <2>4. A[t + s] = t + s + s * ((d - s) \div s + 1)
    BY <1>2 DEF Ahead
  <2>5. A[t + s] = t + s + s * q
    BY <2>2, <2>4
  <2> HIDE DEF q, d, A
  <2>6. s * (q + 1) = s * q + s
    BY <2>2
  <2> QED BY <1>2, <2>2, <2>3, <2>5, <2>6
<1>3. CASE t <= after /\ t + s > after
  <2>1. (after - t) \div s = 0
    BY <1>3, DivStep
  <2> QED BY <1>3, <2>1 DEF Ahead
<1> QED BY <1>1, <1>2, <1>3

\* ... and nothing else does.
LEMMA LoopIsAhead ==
  ASSUME NEW after \in Int, NEW s \in Nat \ {0}, NEW f,
         f = [t \in Int |-> IF t <= after THEN f[t + s] ELSE t], NEW a \in Int
  PROVE  f[a] = Ahead(after, s)[a]
<1> DEFINE A == Ahead(after, s)
           Bad == {n \in Nat : f[after - n] # A[after - n]}
<1>1. \A t \in Int : f[t] = IF t <= after THEN f[t + s] ELSE t
  OBVIOUS
<1>2. \A t \in Int : A[t] = IF t <= after THEN A[t + s] ELSE t
  <2>1. A = [t \in Int |-> IF t <= after THEN A[t + s] ELSE t]
    BY AheadIsLoop
  <2> HIDE DEF A
  <2> QED BY <2>1
<1> SUFFICES f[a] = A[a]
  OBVIOUS
<1> HIDE DEF A
<1>3. Bad = {}
  <2> SUFFICES ASSUME Bad # {} PROVE FALSE
    OBVIOUS
  <2>1. PICK n \in Bad : \A m \in Bad : n <= m
    <3>1. Bad \in SUBSET Nat
      OBVIOUS
    <3> HIDE DEF Bad
    <3> QED BY <3>1, LeastOfNaturals
  <2> DEFINE t == after - n
  <2>2. n \in Nat /\ t \in Int /\ t <= after /\ f[t] # A[t]
    OBVIOUS
  <2>3. f[t + s] # A[t + s]
    BY <1>1, <1>2, <2>2
  <2>4. t + s <= after
    BY <1>1, <1>2, <2>2, <2>3
  <2>5. n - s \in Nat /\ after - (n - s) = t + s
    BY <2>2, <2>4
  <2>6. n - s \in Bad
    BY <2>3, <2>5
  <2> QED BY <2>1, <2>2, <2>6
<1>4. CASE a > after
  BY <1>1, <1>2, <1>4
<1>5. CASE a <= after
  <2>1. after - a \in Nat /\ after - (after - a) = a
    BY <1>5
  <2>2. after - a \notin Bad
    BY <1>3
  <2> QED BY <2>1, <2>2
<1> QED BY <1>4, <1>5

\* The value of next_run.
LEMMA NextRunValue ==
  ASSUME NEW e \in Nat \ {0}, NEW h \in 0 .. 23, NEW after \in Nat
  PROVE  LET s == e * HourLen
             a == Anchor(h, after)
             n == NextRunAt(e, h, after)
         IN  /\ s \in Nat \ {0} /\ a \in Int /\ a <= after
             /\ n = a + s * ((after - a) \div s + 1)
<1> DEFINE s == e * HourLen
           a == Anchor(h, after)
           n == NextRunAt(e, h, after)
<1>1. s \in Nat \ {0} /\ s = Step(e)
  BY HourAssumption DEF Step
<1>2. a \in Int /\ a <= after
  BY HourAssumption DEF Anchor, DayLen
<1>3. n = Ahead(after, s)[a]
  <2> DEFINE L == CHOOSE f : f = [t \in Int |-> IF t <= after THEN f[t + s] ELSE t]
  <2>0. \E f : f = [t \in Int |-> IF t <= after THEN f[t + s] ELSE t]
    <3> HIDE DEF s
    <3>1. after \in Int /\ s \in Nat \ {0}
      BY <1>1
    <3>2. Ahead(after, s) = [t \in Int |-> IF t <= after THEN Ahead(after, s)[t + s] ELSE t]
      BY <3>1, AheadIsLoop
    <3> QED BY <3>2, Zenon
  <2>1. L = [t \in Int |-> IF t <= after THEN L[t + s] ELSE t]
    <3> HIDE DEF s
    <3> QED BY <2>0, Zenon
  <2>2. n = L[a]
    BY <1>1 DEF NextRunAt
  <2> HIDE DEF L, n, a, s
  <2> QED BY <1>1, <1>2, <2>1, <2>2, LoopIsAhead
<1> HIDE DEF n, a, s
<1>4. n = a + s * ((after - a) \div s + 1)
  BY <1>1, <1>2, <1>3 DEF Ahead
<1> QED BY <1>1, <1>2, <1>4 DEF n, a, s

LEMMA MultipleMod ==
  ASSUME NEW m \in Int, NEW s \in Nat \ {0}
  PROVE  (m * s) % s = 0
  OBVIOUS

LEMMA ModZero ==
  ASSUME NEW b \in Nat, NEW s \in Nat \ {0}, b % s = 0
  PROVE  \E k \in Nat : b = k * s
<1>1. b \div s \in Nat /\ b = (b \div s) * s
  OBVIOUS
<1> QED BY <1>1

\* The anchor is on the start hour of some day.
LEMMA AnchorHour ==
  ASSUME NEW h \in 0 .. 23, NEW after \in Nat
  PROVE  \E d \in Int : Anchor(h, after) = d * DayLen + h * HourLen
<1>1. DayLen \in Nat \ {0} /\ HourLen \in Nat \ {0} /\ h % 24 = h
  BY HourAssumption DEF DayLen
<1> DEFINE d == after \div DayLen
           today == d * DayLen + h * HourLen
<1>2. d \in Int
  BY <1>1
<1>3. Anchor(h, after) = IF today > after THEN today - DayLen ELSE today
  BY <1>1 DEF Anchor
<1>4. today - DayLen = (d - 1) * DayLen + h * HourLen
  <2> HIDE DEF d
  <2> QED BY <1>1, <1>2
<1> HIDE DEF d
<1> QED BY <1>2, <1>3, <1>4

\* next_run is ahead of the clock by at most one period and, for a period
\* that divides the day or is whole days, on the plan's hour.
LEMMA NextRunPromise ==
  ASSUME NEW e \in Nat \ {0}, NEW h \in 0 .. 23, NEW after \in Nat
  PROVE  LET n == NextRunAt(e, h, after)
         IN  /\ n \in Nat /\ after < n /\ n <= after + e * HourLen
             /\ 24 % e = 0 => (n - h * HourLen) % (e * HourLen) = 0
             /\ e % 24 = 0 => (n - h * HourLen) % (24 * HourLen) = 0
<1> DEFINE n == NextRunAt(e, h, after)
           s == e * HourLen
           a == Anchor(h, after)
           q == (after - a) \div s
<1>1. s \in Nat \ {0} /\ a \in Int /\ a <= after /\ n = a + s * (q + 1)
  BY NextRunValue
<1>2. q \in Nat /\ s * q <= after - a /\ after - a < s * (q + 1)
  <2> HIDE DEF s, a
  <2>1. after - a \in Nat
    BY <1>1
  <2> QED BY <1>1, <2>1, DivStep
<1>3. s * (q + 1) = s * q + s
  <2> HIDE DEF s, q
  <2> QED BY <1>1, <1>2
<1>4. n \in Nat /\ after < n /\ n <= after + s
  <2> HIDE DEF s, q, n, a
  <2>1. s * q \in Nat /\ s * (q + 1) \in Nat
    BY <1>1, <1>2
  <2> QED BY <1>1, <1>2, <1>3, <2>1
<1>5. PICK d \in Int : a = d * DayLen + h * HourLen
  BY AnchorHour
<1>6. HourLen \in Nat \ {0} /\ DayLen = 24 * HourLen
  BY HourAssumption DEF DayLen
<1>7. n - h * HourLen = d * (24 * HourLen) + (e * HourLen) * (q + 1)
  <2> HIDE DEF q, n, a
  <2> QED BY <1>1, <1>2, <1>5, <1>6
<1>8. ASSUME 24 % e = 0 PROVE (n - h * HourLen) % (e * HourLen) = 0
  <2>1. PICK k \in Nat : 24 = k * e
    BY <1>8, ModZero
  <2>2. d * (24 * HourLen) + (e * HourLen) * (q + 1) = (d * k + q + 1) * (e * HourLen)
    <3> HIDE DEF q
    <3> QED BY <1>2, <1>6, <2>1
  <2>3. d * k + q + 1 \in Int
    <3> HIDE DEF q
    <3> QED BY <1>2
  <2> HIDE DEF n, q
  <2> QED BY <1>1, <1>7, <2>2, <2>3, MultipleMod
<1>9. ASSUME e % 24 = 0 PROVE (n - h * HourLen) % (24 * HourLen) = 0
  <2>1. PICK k \in Nat : e = k * 24
    BY <1>9, ModZero
  <2>2. d * (24 * HourLen) + (e * HourLen) * (q + 1) = (d + k * (q + 1)) * (24 * HourLen)
    <3> HIDE DEF q
    <3> QED BY <1>2, <1>6, <2>1
  <2>3. d + k * (q + 1) \in Int /\ 24 * HourLen \in Nat \ {0}
    <3> HIDE DEF q
    <3> QED BY <1>2, <1>6
  <2> HIDE DEF n, q
  <2> QED BY <1>7, <2>2, <2>3, MultipleMod
<1> QED BY <1>4, <1>8, <1>9

\* A bounded set of numbers has a largest: the least distance to the bound.
LEMMA LargestOfBounded ==
  ASSUME NEW n \in Nat, NEW S \in SUBSET (1 .. n), S # {}
  PROVE  \E x \in S : \A y \in S : y <= x
<1> DEFINE T == {n - y : y \in S}
<1>1. T \in SUBSET Nat /\ T # {}
  <2>1. \A y \in S : n - y \in Nat
    OBVIOUS
  <2>2. PICK y \in S : TRUE
    OBVIOUS
  <2>3. n - y \in T
    BY <2>2
  <2> QED BY <2>1, <2>3
<1>2. PICK m \in T : \A y \in T : m <= y
  <2> HIDE DEF T
  <2> QED BY <1>1, LeastOfNaturals
<1>3. PICK x \in S : m = n - x
  BY <1>2
<1>4. \A y \in S : n - x <= n - y
  BY <1>2, <1>3
<1>5. ASSUME NEW y \in S PROVE y <= x
  <2>1. x \in 1 .. n /\ y \in 1 .. n
    BY <1>3
  <2>2. n - x <= n - y
    BY <1>4
  <2> QED BY <2>1, <2>2
<1> QED BY <1>5

-----------------------------------------------------------------------------
(***************************************************************************)
(* The scheduler. RunsAccounted is inductive.                              *)
(***************************************************************************)
LEMMA TimesAreNatural == Times \subseteq Nat /\ MaxPlans \in Nat /\ MaxParallel \in Nat
  BY PlansAssumption

LEMMA ScheduleNumbers ==
  /\ \A e \in EveryHours : e \in Nat \ {0}
  /\ \A h \in StartHours : h \in 0 .. 23
  /\ \A t \in Times : t \in Nat
  BY PlansAssumption

\* The body an administrator saves is a row, with a next_run that is right.
LEMMA BodyIsRow ==
  ASSUME now \in Times, NEW s \in Servers, NEW e \in EveryHours, NEW h \in StartHours, NEW on \in BOOLEAN
  PROVE  Body(s, e, h, on) \in PlanRow
<1>1. e \in Nat \ {0} /\ h \in 0 .. 23 /\ now \in Nat
  BY PlansAssumption
<1>2. NextRunAt(e, h, now) \in Nat
  BY <1>1, NextRunPromise
<1> QED BY <1>2 DEF Body, PlanRow

\* The plans the ticker starts, with the running ones, are within the limit.
LEMMA StartedBound ==
  ASSUME TypeOK, Started # {}
  PROVE  Cardinality(Running \cup Started) <= MaxParallel
<1> USE TimesAreNatural
<1>1. PICK p \in Started : \A q \in Started : q <= p
  <2>1. Started \in SUBSET (1 .. MaxPlans)
    BY DEF Started, PlanIds
  <2> QED BY <2>1, LargestOfBounded
<1> DEFINE D == {q \in 1 .. p - 1 : Due(q)}
<1>2. p \in 1 .. MaxPlans /\ Cardinality(Running) + Cardinality(D) < MaxParallel
  BY <1>1 DEF Started, PlanIds
<1>3. Started \subseteq D \cup {p}
  BY <1>1, <1>2 DEF Started, PlanIds
<1>4. IsFiniteSet(1 .. MaxPlans) /\ IsFiniteSet(Running) /\ IsFiniteSet(D)
  <2>1. IsFiniteSet(1 .. MaxPlans) /\ IsFiniteSet(1 .. p - 1)
    BY <1>2, FS_Interval
  <2>2. Running \in SUBSET (1 .. MaxPlans) /\ D \in SUBSET (1 .. p - 1)
    BY DEF Running, PlanIds
  <2> HIDE DEF D
  <2> QED BY <2>1, <2>2, FS_Subset
<1> HIDE DEF D
<1>5. Cardinality(Running) \in Nat /\ Cardinality(D) \in Nat
  BY <1>4, FS_CardinalityType
<1>6. /\ IsFiniteSet(D \cup {p}) /\ Cardinality(D \cup {p}) \in Nat
      /\ Cardinality(D \cup {p}) <= Cardinality(D) + 1
  <2>1. /\ IsFiniteSet(D \cup {p})
        /\ Cardinality(D \cup {p}) = IF p \in D THEN Cardinality(D) ELSE Cardinality(D) + 1
    BY <1>4, FS_AddElement
  <2>2. Cardinality(D \cup {p}) \in Nat
    BY <2>1, FS_CardinalityType
  <2> QED BY <1>5, <2>1, <2>2
<1>7. /\ IsFiniteSet(Running \cup (D \cup {p}))
      /\ Cardinality(Running \cup (D \cup {p})) <= Cardinality(Running) + Cardinality(D \cup {p})
  <2>1. IsFiniteSet(Running \cap (D \cup {p}))
    BY <1>4, FS_Subset
  <2>2. Cardinality(Running \cap (D \cup {p})) \in Nat
    BY <2>1, FS_CardinalityType
  <2>3. /\ IsFiniteSet(Running \cup (D \cup {p}))
        /\ Cardinality(Running \cup (D \cup {p})) =
              Cardinality(Running) + Cardinality(D \cup {p}) - Cardinality(Running \cap (D \cup {p}))
    BY <1>4, <1>6, FS_Union
  <2> QED BY <1>5, <1>6, <2>2, <2>3
<1>8. Running \cup Started \in SUBSET (Running \cup (D \cup {p}))
  BY <1>3
<1>9. /\ Cardinality(Running \cup Started) \in Nat
      /\ Cardinality(Running \cup (D \cup {p})) \in Nat
      /\ Cardinality(Running \cup Started) <= Cardinality(Running \cup (D \cup {p}))
  BY <1>7, <1>8, FS_Subset, FS_CardinalityType
<1> QED BY <1>2, <1>5, <1>6, <1>7, <1>9

Scheduled == {p \in PlanIds : task[p] # Nil /\ task[p].trigger = "schedule"}

RowsExact == \A p \in PlanIds : row[p] = "running" <=> task[p] # Nil /\ ~task[p].over

WithinLimit == Cardinality(Scheduled) <= MaxParallel

LEMMA AccountedParts == RunsAccounted <=> TypeOK /\ RowsExact /\ WithinLimit
  BY DEF RunsAccounted, RowsExact, WithinLimit, Scheduled

\* A part of a set within the limit is within the limit.
LEMMA SmallerWithin ==
  ASSUME NEW T \in SUBSET PlanIds, NEW S \in SUBSET T, Cardinality(T) <= MaxParallel
  PROVE  Cardinality(S) <= MaxParallel
<1> USE TimesAreNatural
<1>1. IsFiniteSet(PlanIds)
  BY FS_Interval DEF PlanIds
<1>2. IsFiniteSet(T)
  BY <1>1, FS_Subset
<1>3. IsFiniteSet(S) /\ Cardinality(S) <= Cardinality(T)
  BY <1>2, FS_Subset
<1>4. Cardinality(S) \in Nat /\ Cardinality(T) \in Nat
  BY <1>2, <1>3, FS_CardinalityType
<1> QED BY <1>3, <1>4

\* A record is not Nil.
LEMMA RecordsAreNotNil ==
  /\ \A b \in PlanRow : b # Nil
  /\ \A b \in TaskRow : b # Nil
  BY NilIsNoRow

\* Steps of the API and the agents touch neither tasks nor rows.
LEMMA AccountedFrame ==
  ASSUME TypeOK, RowsExact, WithinLimit, UNCHANGED <<task, row>>
  PROVE  RowsExact' /\ WithinLimit'
<1>1. Scheduled' = Scheduled
  BY DEF Scheduled
<1> QED BY <1>1 DEF RowsExact, WithinLimit

\* start() for the plans of P, none of which has a task.
LEMMA StartStep ==
  ASSUME TypeOK, RowsExact, NEW P \in SUBSET Existing, NEW trigger \in {"manual", "schedule"},
         StartAll(P, trigger)
  PROVE  /\ task' \in [PlanIds -> {Nil} \cup TaskRow]
         /\ row' \in [PlanIds -> {Nil} \cup RunState]
         /\ RowsExact'
         /\ Scheduled' \subseteq Scheduled \cup (IF trigger = "schedule" THEN P ELSE {})
<1> DEFINE T(p) == [server |-> plans[p].server, trigger |-> trigger, over |-> FALSE]
<1>1. ASSUME NEW p \in P PROVE T(p) \in TaskRow /\ T(p) # Nil /\ T(p).over = FALSE /\ T(p).trigger = trigger
  <2>1. p \in PlanIds /\ plans[p] \in PlanRow
    BY DEF TypeOK, Existing
  <2>2. plans[p].server \in Servers
    BY <2>1 DEF PlanRow
  <2>3. T(p) \in TaskRow
    BY <2>2, Zenon DEF TaskRow
  <2> QED BY <2>3, RecordsAreNotNil
<1>2. P \subseteq PlanIds
  BY DEF Existing
<1>3. /\ task' = [p \in PlanIds |-> IF p \in P THEN T(p) ELSE task[p]]
      /\ row' = [p \in PlanIds |-> IF p \in P THEN "running" ELSE row[p]]
  BY DEF StartAll
<1> HIDE DEF T
<1>4. task' \in [PlanIds -> {Nil} \cup TaskRow]
  BY <1>1, <1>3 DEF TypeOK
<1>5. row' \in [PlanIds -> {Nil} \cup RunState]
  BY <1>3 DEF TypeOK, RunState
<1>6. RowsExact'
  <2> SUFFICES ASSUME NEW p \in PlanIds
               PROVE  row'[p] = "running" <=> task'[p] # Nil /\ ~task'[p].over
    BY DEF RowsExact
  <2>1. CASE p \in P
    BY <1>1, <1>3, <2>1
  <2>2. CASE p \notin P
    BY <1>3, <2>2 DEF RowsExact
  <2> QED BY <2>1, <2>2
<1>7. ASSUME NEW p \in Scheduled'
      PROVE  p \in Scheduled \cup (IF trigger = "schedule" THEN P ELSE {})
  <2>1. p \in PlanIds /\ task'[p] # Nil /\ task'[p].trigger = "schedule"
    BY <1>7 DEF Scheduled
  <2>2. CASE p \in P
    BY <1>1, <1>3, <2>1, <2>2
  <2>3. CASE p \notin P
    BY <1>3, <2>1, <2>3 DEF Scheduled
  <2> QED BY <2>2, <2>3
<1> QED BY <1>4, <1>5, <1>6, <1>7

LEMMA RunNowStep ==
  ASSUME TypeOK, RowsExact, WithinLimit, NEW p \in PlanIds, RunNow(p)
  PROVE  TypeOK' /\ RowsExact' /\ WithinLimit'
<1>1. {p} \in SUBSET Existing /\ StartAll({p}, "manual") /\ UNCHANGED <<now, known, online, plans>>
  BY DEF RunNow, CanStart, Existing
<1>2. /\ task' \in [PlanIds -> {Nil} \cup TaskRow]
      /\ row' \in [PlanIds -> {Nil} \cup RunState]
      /\ RowsExact' /\ Scheduled' \subseteq Scheduled
  BY <1>1, StartStep
<1>3. Scheduled \in SUBSET PlanIds /\ Scheduled' \in SUBSET Scheduled
  BY <1>2 DEF Scheduled
<1>4. WithinLimit'
  BY <1>3, SmallerWithin DEF WithinLimit
<1> QED BY <1>1, <1>2, <1>4 DEF TypeOK

LEMMA TickStep ==
  ASSUME TypeOK, RowsExact, WithinLimit, Tick
  PROVE  TypeOK' /\ RowsExact' /\ WithinLimit'
<1>1. Started \in SUBSET Existing /\ StartAll(Started, "schedule") /\ UNCHANGED <<now, known, online>>
      /\ Started # {}
  BY DEF Tick, Started, Due, Existing
<1>2. /\ task' \in [PlanIds -> {Nil} \cup TaskRow]
      /\ row' \in [PlanIds -> {Nil} \cup RunState]
      /\ RowsExact' /\ Scheduled' \subseteq Scheduled \cup Started
  BY <1>1, StartStep
<1>3. Running \cup Started \in SUBSET PlanIds /\ Scheduled' \in SUBSET (Running \cup Started)
  BY <1>1, <1>2 DEF Scheduled, Running, Existing
<1>4. WithinLimit'
  BY <1>1, <1>3, StartedBound, SmallerWithin DEF WithinLimit
<1>5. plans' \in [PlanIds -> {Nil} \cup PlanRow]
  <2>1. ASSUME NEW p \in Started
        PROVE  [plans[p] EXCEPT !.next = NextRunAt(plans[p].every, plans[p].start, now)] \in PlanRow
    <3>1. plans[p] \in PlanRow
      BY <1>1 DEF TypeOK, Existing
    <3>2. plans[p].every \in EveryHours /\ plans[p].start \in StartHours
      BY <3>1 DEF PlanRow
    <3>3. plans[p].every \in Nat \ {0} /\ plans[p].start \in 0 .. 23 /\ now \in Nat
      <4>1. now \in Times
        BY DEF TypeOK
      <4> QED BY <3>2, <4>1, ScheduleNumbers
    <3>4. NextRunAt(plans[p].every, plans[p].start, now) \in Nat
      BY <3>3, NextRunPromise
    <3> QED BY <3>1, <3>4 DEF PlanRow
  <2> QED BY <2>1 DEF Tick, TypeOK
<1> QED BY <1>1, <1>2, <1>4, <1>5 DEF TypeOK

LEMMA EndStep ==
  ASSUME TypeOK, RowsExact, WithinLimit, NEW p \in PlanIds, RunDone(p) \/ RunError(p)
  PROVE  TypeOK' /\ RowsExact' /\ WithinLimit'
<1> DEFINE t == [task[p] EXCEPT !.over = TRUE]
<1>1. task[p] \in TaskRow /\ UNCHANGED <<now, known, online, plans>>
  BY DEF RunDone, RunError, TypeOK
<1>2. t \in TaskRow /\ t.over = TRUE /\ t.trigger = task[p].trigger
  BY <1>1 DEF TaskRow
<1>3. t # Nil /\ task[p] # Nil
  BY <1>1, <1>2, RecordsAreNotNil
<1>4. task' = [task EXCEPT ![p] = t]
  BY DEF RunDone, RunError
<1> HIDE DEF t
<1>5. PICK result \in {"done", "error"} : row' = [row EXCEPT ![p] = result]
  BY DEF RunDone, RunError
<1>6. TypeOK'
  BY <1>1, <1>2, <1>4, <1>5 DEF TypeOK, RunState
<1>7. \A q \in PlanIds : /\ task'[q] = IF q = p THEN t ELSE task[q]
                         /\ row'[q] = IF q = p THEN result ELSE row[q]
  BY <1>4, <1>5 DEF TypeOK
<1>8. RowsExact'
  <2> SUFFICES ASSUME NEW q \in PlanIds
               PROVE  row'[q] = "running" <=> task'[q] # Nil /\ ~task'[q].over
    BY DEF RowsExact
  <2>1. CASE q = p
    BY <1>2, <1>5, <1>7, <2>1
  <2>2. CASE q # p
    BY <1>7, <2>2 DEF RowsExact
  <2> QED BY <2>1, <2>2
<1>9. Scheduled \in SUBSET PlanIds /\ Scheduled' \in SUBSET Scheduled
  BY <1>2, <1>3, <1>7 DEF Scheduled
<1>10. WithinLimit'
  BY <1>9, SmallerWithin DEF WithinLimit
<1> QED BY <1>6, <1>8, <1>10

LEMMA PoppedStep ==
  ASSUME TypeOK, RowsExact, WithinLimit, NEW p \in PlanIds, Popped(p)
  PROVE  TypeOK' /\ RowsExact' /\ WithinLimit'
<1>1. TypeOK'
  BY DEF Popped, TypeOK
<1>2. \A q \in PlanIds : task'[q] = IF q = p THEN Nil ELSE task[q]
  BY DEF Popped, TypeOK
<1>3. RowsExact'
  BY <1>2 DEF Popped, RowsExact
<1>4. Scheduled \in SUBSET PlanIds /\ Scheduled' \in SUBSET Scheduled
  BY <1>2 DEF Scheduled
<1>5. WithinLimit'
  BY <1>4, SmallerWithin DEF WithinLimit
<1> QED BY <1>1, <1>3, <1>5

LEMMA RestartStep ==
  ASSUME TypeOK, RowsExact, WithinLimit, Restart
  PROVE  TypeOK' /\ RowsExact' /\ WithinLimit'
<1>1. TypeOK'
  BY DEF Restart, Recover, TypeOK, RunState
<1>2. RowsExact'
  BY DEF Restart, Recover, RowsExact
<1>3. Scheduled \in SUBSET PlanIds /\ Scheduled' \in SUBSET Scheduled
  BY DEF Restart, Scheduled
<1>4. WithinLimit'
  BY <1>3, SmallerWithin DEF WithinLimit
<1> QED BY <1>1, <1>2, <1>4

\* create and update save a row of the right type.
LEMMA EditStep ==
  ASSUME TypeOK, NEW p \in PlanIds, Edit(p)
  PROVE  TypeOK' /\ UNCHANGED <<task, row>>
<1>1. PICK s \in Servers, e \in EveryHours, h \in StartHours, on \in BOOLEAN :
         Create(p, Body(s, e, h, on)) \/ Update(p, Body(s, e, h, on))
  BY DEF Edit
<1>2. Body(s, e, h, on) \in PlanRow
  BY BodyIsRow DEF TypeOK
<1> QED BY <1>1, <1>2 DEF Create, Update, TypeOK

LEMMA AccountedInductive == RunsAccounted /\ [Next]_vars => RunsAccounted'
<1> SUFFICES ASSUME TypeOK, RowsExact, WithinLimit, [Next]_vars
             PROVE  TypeOK' /\ RowsExact' /\ WithinLimit'
  BY DEF RunsAccounted, RowsExact, WithinLimit, Scheduled
<1>1. ASSUME NEW p \in PlanIds, Edit(p) PROVE TypeOK' /\ RowsExact' /\ WithinLimit'
  BY <1>1, EditStep, AccountedFrame
<1>2. ASSUME NEW p \in PlanIds, Delete(p) PROVE TypeOK' /\ RowsExact' /\ WithinLimit'
  <2>1. TypeOK' /\ UNCHANGED <<task, row>>
    BY <1>2 DEF Delete, TypeOK
  <2> QED BY <2>1, AccountedFrame
<1>3. ASSUME NEW s \in Servers, Connect(s) \/ Disconnect(s) \/ DeleteServer(s)
      PROVE  TypeOK' /\ RowsExact' /\ WithinLimit'
  <2>1. TypeOK' /\ UNCHANGED <<task, row>>
    BY <1>3 DEF Connect, Disconnect, DeleteServer, TypeOK
  <2> QED BY <2>1, AccountedFrame
<1>4. CASE Clock \/ UNCHANGED vars
  <2>1. TypeOK' /\ UNCHANGED <<task, row>>
    BY <1>4 DEF Clock, vars, TypeOK
  <2> QED BY <2>1, AccountedFrame
<1> QED BY <1>1, <1>2, <1>3, <1>4, RunNowStep, EndStep, PoppedStep, TickStep, RestartStep DEF Next

LEMMA AccountedInitial == Init => RunsAccounted
<1> SUFFICES ASSUME Init PROVE RunsAccounted
  OBVIOUS
<1>1. now \in Times
  BY PlansAssumption DEF Init
<1>0. TypeOK /\ RowsExact
  <2>1. /\ plans \in [PlanIds -> {Nil} \cup PlanRow] /\ task \in [PlanIds -> {Nil} \cup TaskRow]
        /\ row \in [PlanIds -> {Nil} \cup RunState]
    BY DEF Init
  <2>2. known \subseteq Servers /\ online \subseteq known
    BY DEF Init
  <2>3. \A p \in PlanIds : task[p] = Nil /\ row[p] # "running"
    BY NilIsNoRow DEF Init, RunState
  <2> QED BY <1>1, <2>1, <2>2, <2>3 DEF TypeOK, RowsExact
<1>2. Scheduled = {}
  BY DEF Init, Scheduled
<1>3. WithinLimit
  BY <1>2, FS_EmptySet, TimesAreNatural DEF WithinLimit
<1> QED BY <1>0, <1>3, AccountedParts

\* A row of backup_runs says "running" exactly while a task works on it, and
\* the ticker never has more than MAX_PARALLEL runs going, however plans are
\* edited, deleted and started by hand and whenever the hub is restarted
\* (start, tick, recover).
THEOREM RunsStayAccounted == Spec => []RunsAccounted
<1> QED BY AccountedInitial, AccountedInductive, PTL DEF Spec

-----------------------------------------------------------------------------
OneTaskStep ==
    \A p \in PlanIds : task[p] # Nil /\ ~task[p].over =>
       task'[p] \in {task[p], [task[p] EXCEPT !.over = TRUE]} \/ Restart

LEMMA OneTaskSteps == TypeOK /\ [Next]_vars => OneTaskStep
<1> SUFFICES ASSUME TypeOK, [Next]_vars, NEW p \in PlanIds, task[p] # Nil, ~task[p].over, ~Restart
             PROVE  task'[p] \in {task[p], [task[p] EXCEPT !.over = TRUE]}
  BY DEF OneTaskStep
<1>1. ASSUME NEW q \in PlanIds, Edit(q) \/ Delete(q) PROVE task'[p] = task[p]
  BY <1>1, EditStep DEF Delete
<1>2. ASSUME NEW q \in PlanIds, RunNow(q) PROVE task'[p] = task[p]
  BY <1>2 DEF RunNow, CanStart, StartAll
<1>3. ASSUME NEW q \in PlanIds, RunDone(q) \/ RunError(q)
      PROVE  task'[p] \in {task[p], [task[p] EXCEPT !.over = TRUE]}
  BY <1>3 DEF RunDone, RunError, TypeOK
<1>4. ASSUME NEW q \in PlanIds, Popped(q) PROVE task'[p] = task[p]
  BY <1>4 DEF Popped, TypeOK
<1>5. ASSUME NEW s \in Servers, Connect(s) \/ Disconnect(s) \/ DeleteServer(s) PROVE task'[p] = task[p]
  BY <1>5 DEF Connect, Disconnect, DeleteServer
<1>6. CASE Tick
  BY <1>6 DEF Tick, Started, Due, StartAll
<1>7. CASE Clock \/ UNCHANGED vars
  BY <1>7 DEF Clock, vars
<1> QED BY <1>1, <1>2, <1>3, <1>4, <1>5, <1>6, <1>7 DEF Next

\* Two runs under one plan id never work at the same time: a task leaves
\* _running only when it is over, or with the whole hub (start, tick, run_now).
THEOREM TasksDoNotOverlap == Spec => OneTaskPerPlan
<1>1. RunsAccounted /\ [Next]_vars => [OneTaskStep]_vars
  BY OneTaskSteps, AccountedParts
<1> QED BY <1>1, AccountedInitial, AccountedInductive, PTL DEF Spec, OneTaskPerPlan, OneTaskStep

NextRunStep ==
    \A p \in PlanIds : plans'[p] # Nil /\ plans'[p] # plans[p] =>
       /\ now < plans'[p].next
       /\ plans'[p].next <= now + plans'[p].every * HourLen
       /\ OnItsHour(plans'[p])

\* A row whose next_run was just computed.
LEMMA RowIsRight ==
  ASSUME now \in Times, NEW b, b.every \in EveryHours, b.start \in StartHours,
         b.next = NextRunAt(b.every, b.start, now)
  PROVE  /\ now < b.next /\ b.next <= now + b.every * HourLen
         /\ OnItsHour(b)
<1> DEFINE e == b.every
           h == b.start
           n == b.next
<1>1. e \in Nat \ {0} /\ h \in 0 .. 23 /\ now \in Nat
  BY ScheduleNumbers
<1>2. n = NextRunAt(e, h, now)
  OBVIOUS
<1>3. /\ n \in Nat /\ now < n /\ n <= now + e * HourLen
      /\ 24 % e = 0 => (n - h * HourLen) % (e * HourLen) = 0
      /\ e % 24 = 0 => (n - h * HourLen) % (24 * HourLen) = 0
  <2> HIDE DEF e, h, n
  <2> QED BY <1>1, <1>2, NextRunPromise
<1>4. CASE 24 % e = 0
  BY <1>3, <1>4 DEF OnItsHour
<1>5. CASE 24 % e # 0
  BY <1>3, <1>5 DEF OnItsHour
<1> QED BY <1>4, <1>5

LEMMA NextRunSteps == TypeOK /\ [Next]_vars => NextRunStep
<1> SUFFICES ASSUME TypeOK, [Next]_vars, NEW p \in PlanIds, plans'[p] # Nil, plans'[p] # plans[p]
             PROVE  /\ now < plans'[p].next
                    /\ plans'[p].next <= now + plans'[p].every * HourLen
                    /\ OnItsHour(plans'[p])
  BY DEF NextRunStep
<1> DEFINE b == plans'[p]
<1>0. now \in Times
  BY DEF TypeOK
<1> SUFFICES b.every \in EveryHours /\ b.start \in StartHours /\ b.next = NextRunAt(b.every, b.start, now)
  <2> HIDE DEF b
  <2>1. ASSUME b.every \in EveryHours /\ b.start \in StartHours /\ b.next = NextRunAt(b.every, b.start, now)
        PROVE  /\ now < b.next /\ b.next <= now + b.every * HourLen
               /\ OnItsHour(b)
    BY <1>0, <2>1, RowIsRight
  <2> QED BY <2>1 DEF b
<1>1. ASSUME NEW q \in PlanIds, Edit(q)
      PROVE  b.every \in EveryHours /\ b.start \in StartHours /\ b.next = NextRunAt(b.every, b.start, now)
  <2>1. PICK s \in Servers, e \in EveryHours, h \in StartHours, on \in BOOLEAN :
           Create(q, Body(s, e, h, on)) \/ Update(q, Body(s, e, h, on))
    BY <1>1 DEF Edit
  <2>2. b = Body(s, e, h, on)
    BY <2>1 DEF Create, Update, TypeOK
  <2> QED BY <2>2 DEF Body
<1>2. ASSUME NEW q \in PlanIds, Delete(q) \/ RunNow(q) \/ RunDone(q) \/ RunError(q) \/ Popped(q) PROVE FALSE
  BY <1>2 DEF Delete, RunNow, RunDone, RunError, Popped, TypeOK
<1>3. ASSUME NEW s \in Servers, Connect(s) \/ Disconnect(s) \/ DeleteServer(s) PROVE FALSE
  BY <1>3 DEF Connect, Disconnect, DeleteServer
<1>4. CASE Tick
  <2>1. plans[p] \in PlanRow /\ b = [plans[p] EXCEPT !.next = NextRunAt(plans[p].every, plans[p].start, now)]
    BY <1>4 DEF Tick, Started, Due, TypeOK
  <2> QED BY <2>1 DEF PlanRow
<1>5. CASE Restart \/ Clock \/ UNCHANGED vars
  BY <1>5 DEF Restart, Clock, vars
<1> QED BY <1>1, <1>2, <1>3, <1>4, <1>5 DEF Next

\* Whenever a plan gets a next_run, it lies ahead of the clock by at most one
\* period and, for a period that divides the day or is whole days, on the
\* plan's own hour: for every period, start hour and moment (next_run).
THEOREM NextRunsRight == Spec => NextRunRight
<1>1. RunsAccounted /\ [Next]_vars => [NextRunStep]_vars
  BY NextRunSteps, AccountedParts
<1> QED BY <1>1, AccountedInitial, AccountedInductive, PTL DEF Spec, NextRunRight, NextRunStep

-----------------------------------------------------------------------------
(***************************************************************************)
(* A run, step by step (BackupRun): whatever fails or comes late, a whole  *)
(* backup as new as the latest recorded one remains.                       *)
(***************************************************************************)

\* The types of BackupRun, in parts: the hub's task, the two agents, and what
\* is late.
HubTypes ==
    /\ mode \in Modes
    /\ stage \in {"idle", "run", "poll", "prune", "mkdir", "read", "write", "abort",
               "destprune", "delete"}
    /\ cur \in Files \cup {Absent} /\ (cur = Absent <=> stage \in {"idle", "run"})
    /\ offset \in 0 .. Chunks /\ good \subseteq Files

SourceTypes ==
    /\ last \in 0 .. MaxFiles
    /\ job \in [Files -> {Absent, "running", "done", "error"}]
    /\ local \in [Files -> {Absent, "part", "whole"}]
    /\ strays \subseteq Files

DestTypes ==
    /\ temp \in [Files -> {Absent} \cup 1 .. Chunks]
    /\ remote \in [Files -> {Absent} \cup 1 .. Chunks]

UploadType == upload \in BOOLEAN

LateTypes == \A r \in late : r.op \in LateOps

\* What a request that outlived its time-out carries: a chunk of one backup,
\* marked as the last one exactly if it is.
LateShape ==
    \A r \in late : r.op = "write" =>
       /\ r.file \in Files /\ r.offset \in 0 .. Chunks - 1
       /\ r.final <=> r.offset + 1 >= Chunks

\* The file of the run under way is newer than every recorded one, and only
\* strays are newer still.
CurNewest ==
    cur # Absent =>
       /\ cur <= last
       /\ \A f \in good : f < cur
       /\ \A g \in Files : cur < g /\ g <= last => g \in strays

\* Files have the numbers given out so far.
Made ==
    /\ \A f \in good : f <= last
    /\ \A f \in Files : local[f] # Absent => f <= last

\* A job that still writes has no whole file; what a done job left, and what
\* the prune step starts from, is whole.
JobsTrue ==
    /\ \A f \in Files : job[f] = "running" => local[f] # "whole"
    /\ stage = "poll" /\ job[cur] = "done" => local[cur] = "whole"
    /\ stage = "prune" => local[cur] = "whole"

\* Before its last chunk a copy has one to go; after it the copy is there,
\* and when the local file is to go, that copy or a newer one.
CopyTrue ==
    /\ stage \notin {"abort", "destprune", "delete"} => offset < Chunks
    /\ stage = "destprune" => remote[cur] = Chunks
    /\ stage = "delete" => \E n \in Files : n >= cur /\ remote[n] = Chunks

\* The two halves of BackupsWhole.
GoodSafe == \A f \in good : (\E g \in Files : g >= f /\ Safe(g)) \/ (\E g \in strays : g > f)

RemoteWhole == \A f \in Files : remote[f] # Absent => remote[f] = Chunks

RunInv ==
    /\ RunTypes /\ GoodSafe /\ RemoteWhole
    /\ LateShape /\ CurNewest /\ Made /\ JobsTrue /\ CopyTrue

LEMMA RunTypesParts ==
  RunTypes <=> HubTypes /\ SourceTypes /\ DestTypes /\ UploadType /\ LateTypes
  BY Zenon DEF RunTypes, HubTypes, SourceTypes, DestTypes, UploadType, LateTypes

LEMMA RunInvParts ==
  RunInv <=> /\ HubTypes /\ SourceTypes /\ DestTypes /\ UploadType /\ LateTypes
             /\ GoodSafe /\ RemoteWhole /\ LateShape /\ CurNewest /\ Made /\ JobsTrue /\ CopyTrue
  BY RunTypesParts DEF RunInv

\* The three ways in which the hub's task moves on.
LEMMA HubMoves ==
  ASSUME HubTypes
  PROVE  /\ Failed => HubTypes'
         /\ Succeeded /\ cur # Absent => HubTypes'
         /\ \A s \in {"prune", "mkdir", "read", "write", "abort", "delete"} :
               Goto(s) /\ cur # Absent => HubTypes'
<1>1. Failed => HubTypes'
  BY RunAssumption DEF HubTypes, Failed, Ended
<1>2. Succeeded /\ cur # Absent => HubTypes'
  BY RunAssumption DEF HubTypes, Succeeded, Ended
<1>3. ASSUME NEW s \in {"prune", "mkdir", "read", "write", "abort", "delete"}, Goto(s), cur # Absent
      PROVE  HubTypes'
  BY <1>3 DEF HubTypes, Goto
<1> QED BY <1>1, <1>2, <1>3

LEMMA HubTypesStep ==
  ASSUME HubTypes, SourceTypes, CopyTrue, [RunNext]_runVars
  PROVE  HubTypes'
<1>0. stage \notin {"idle", "run"} => cur # Absent
  BY DEF HubTypes
<1>1. CASE StartRun
  BY <1>1 DEF StartRun, Goto, HubTypes
<1>2. CASE RunAccepted
  <2>1. last + 1 \in Files /\ last + 1 # Absent
    BY <1>2, RunAssumption DEF RunAccepted, BackupRun, SourceTypes, Files
  <2> QED BY <1>2, <2>1 DEF RunAccepted, HubTypes
<1>3. CASE RunFails \/ PollFails \/ StepFails \/ Abort \/ HubRestarts
  BY <1>3, HubMoves DEF RunFails, PollFails, StepFails, Abort, HubRestarts
<1>4. CASE PollDone \/ Mkdir \/ Read
  BY <1>0, <1>4, HubMoves DEF PollDone, Mkdir, Read
<1>5. CASE PruneSource
  BY <1>0, <1>5, HubMoves DEF PruneSource, AfterPrune
<1>6. CASE ReadFails \/ WriteFails
  BY <1>0, <1>6, HubMoves DEF ReadFails, WriteFails, CopyFails
<1>7. CASE Write
  <2>1. offset < Chunks /\ stage' \in {"destprune", "read"} /\ offset' = offset + 1
    BY <1>7 DEF Write, CopyTrue
  <2> QED BY <1>7, <2>1, RunAssumption DEF Write, HubTypes
<1>8. CASE PruneDest
  BY <1>0, <1>8, HubMoves DEF PruneDest, AfterDestPrune
<1>9. CASE DeleteFile
  BY <1>0, <1>9, HubMoves DEF DeleteFile
<1>10. CASE Agents \/ UNCHANGED runVars
  BY <1>10 DEF Agents, JobDone, JobFails, ReapUpload, SourceRestarts, DestRestarts, LateRun, LateWrite,
               runVars, hubVars, HubTypes
<1> QED BY <1>1, <1>2, <1>3, <1>4, <1>5, <1>6, <1>7, <1>8, <1>9, <1>10 DEF RunNext, Task

\* A new job and its file.
LEMMA BackupRunTypes ==
  ASSUME SourceTypes, BackupRun
  PROVE  /\ last' \in 0 .. MaxFiles /\ last' = last + 1 /\ last' \in Files
         /\ job' \in [Files -> {Absent, "running", "done", "error"}]
         /\ local' \in [Files -> {Absent, "part", "whole"}]
  BY RunAssumption DEF SourceTypes, BackupRun, Files

LEMMA SourceTypesStep ==
  ASSUME SourceTypes, HubTypes, [RunNext]_runVars
  PROVE  SourceTypes'
<1>1. CASE RunAccepted
  BY <1>1, BackupRunTypes DEF RunAccepted, SourceTypes
<1>2. CASE RunFails
  <2>1. CASE BackupRun /\ UNCHANGED strays
    BY <2>1, BackupRunTypes DEF SourceTypes
  <2>2. CASE UNCHANGED srcVars
    BY <2>2 DEF srcVars, SourceTypes
  <2> QED BY <1>2, <2>1, <2>2 DEF RunFails
<1>3. CASE LateRun
  BY <1>3, BackupRunTypes DEF LateRun, SourceTypes
<1>4. CASE PruneSource
  BY <1>4 DEF PruneSource, Prune, SourceTypes
<1>5. CASE DeleteFile
  BY <1>5 DEF DeleteFile, SourceTypes
<1>6. ASSUME NEW f \in Files, JobDone(f) \/ JobFails(f)
      PROVE  SourceTypes'
  BY <1>6 DEF JobDone, JobFails, SourceTypes
<1>7. CASE SourceRestarts
  BY <1>7 DEF SourceRestarts, SourceTypes
<1>8. CASE \/ StartRun \/ PollDone \/ PollFails \/ Mkdir \/ StepFails \/ Read \/ ReadFails \/ Write
           \/ WriteFails \/ Abort \/ PruneDest \/ DestRestarts \/ LateWrite \/ HubRestarts
           \/ (\E f \in Files : ReapUpload(f)) \/ UNCHANGED runVars
  <2>1. UNCHANGED srcVars
    BY <1>8 DEF StartRun, PollDone, PollFails, Mkdir, StepFails, Read, ReadFails, Write, WriteFails,
                Abort, PruneDest, DestRestarts, LateWrite, HubRestarts, ReapUpload, runVars
  <2> QED BY <2>1 DEF srcVars, SourceTypes
<1> QED BY <1>1, <1>2, <1>3, <1>4, <1>5, <1>6, <1>7, <1>8 DEF RunNext, Task, Agents

\* fs.write puts a file under its final name only when it is whole, and never
\* takes one away.
LEMMA FsWriteWhole ==
  ASSUME DestTypes, RemoteWhole, NEW f \in Files, NEW off \in 0 .. Chunks - 1, NEW final,
         final <=> off + 1 >= Chunks, FsWrite(f, off, final)
  PROVE  /\ DestTypes' /\ RemoteWhole'
         /\ \A g \in Files : remote[g] = Chunks => remote'[g] = Chunks
         /\ final => remote'[f] = Chunks
<1>1. off + 1 \in 1 .. Chunks /\ (final => off + 1 = Chunks)
  BY RunAssumption
<1>2. DestTypes'
  BY <1>1 DEF DestTypes, FsWrite
<1>3. \A g \in Files : remote'[g] = IF g = f /\ final THEN Chunks ELSE remote[g]
  BY <1>1 DEF DestTypes, FsWrite
<1> QED BY <1>2, <1>3 DEF RemoteWhole

\* What any step does on the destination.
DestKeeps ==
    /\ DestTypes' /\ RemoteWhole'
    /\ ~PruneDest => \A g \in Files : remote[g] = Chunks => remote'[g] = Chunks

LEMMA DestStep ==
  ASSUME RunInv, [RunNext]_runVars
  PROVE  DestKeeps
<1>0. HubTypes /\ DestTypes /\ RemoteWhole /\ LateShape /\ CopyTrue
  BY RunInvParts
<1>1. ASSUME UNCHANGED remote, temp' \in [Files -> {Absent} \cup 1 .. Chunks]
      PROVE  DestKeeps
  BY <1>0, <1>1 DEF DestTypes, RemoteWhole, DestKeeps
<1>2. ASSUME UNCHANGED destVars PROVE DestKeeps
  BY <1>0, <1>1, <1>2 DEF destVars, DestTypes
<1>3. ASSUME stage = "write", FsWrite(cur, offset, Final) PROVE DestKeeps
  <2>1. cur \in Files /\ offset \in 0 .. Chunks - 1 /\ (Final <=> offset + 1 >= Chunks)
    BY <1>0, <1>3, RunAssumption DEF HubTypes, CopyTrue, Final
  <2> QED BY <1>0, <1>3, <2>1, FsWriteWhole DEF DestKeeps
<1>4. CASE Write
  BY <1>3, <1>4 DEF Write
<1>5. CASE WriteFails
  <2>1. CASE UNCHANGED destVars
    BY <1>2, <2>1
  <2>2. CASE FsWrite(cur, offset, Final)
    BY <1>3, <1>5, <2>2 DEF WriteFails
  <2>3. CASE temp' = [temp EXCEPT ![cur] = Absent] /\ UNCHANGED remote
    BY <1>0, <1>1, <2>3 DEF DestTypes
  <2> QED BY <1>5, <2>1, <2>2, <2>3 DEF WriteFails
<1>6. CASE LateWrite
  <2>1. PICK r \in late : /\ r.op = "write"
                          /\ FsWrite(r.file, r.offset, r.final) \/ UNCHANGED destVars
    BY <1>6 DEF LateWrite
  <2>2. r.file \in Files /\ r.offset \in 0 .. Chunks - 1 /\ (r.final <=> r.offset + 1 >= Chunks)
    BY <1>0, <2>1 DEF LateShape
  <2>3. CASE FsWrite(r.file, r.offset, r.final)
    BY <1>0, <2>2, <2>3, FsWriteWhole DEF DestKeeps
  <2> QED BY <1>2, <2>1, <2>3
<1>7. CASE Abort
  <2>1. CASE FsAbort(cur)
    BY <1>0, <1>1, <2>1 DEF FsAbort, DestTypes
  <2> QED BY <1>2, <1>7, <2>1 DEF Abort
<1>8. CASE PruneDest
  BY <1>0, <1>8 DEF PruneDest, Prune, DestTypes, RemoteWhole, DestKeeps
<1>9. ASSUME NEW f \in Files, ReapUpload(f)
      PROVE  DestKeeps
  BY <1>0, <1>1, <1>9 DEF ReapUpload, DestTypes
<1>10. CASE \/ StartRun \/ RunAccepted \/ RunFails \/ PollDone \/ PollFails \/ PruneSource \/ Mkdir
            \/ StepFails \/ Read \/ ReadFails \/ DeleteFile \/ SourceRestarts \/ DestRestarts \/ LateRun
            \/ (\E f \in Files : JobDone(f) \/ JobFails(f)) \/ HubRestarts \/ UNCHANGED runVars
  <2>1. UNCHANGED destVars
    BY <1>10 DEF StartRun, RunAccepted, RunFails, PollDone, PollFails, PruneSource, Mkdir, StepFails,
                 Read, ReadFails, DeleteFile, SourceRestarts, DestRestarts, LateRun, JobDone, JobFails,
                 HubRestarts, runVars
  <2> QED BY <1>2, <2>1
<1> QED BY <1>4, <1>5, <1>6, <1>7, <1>8, <1>9, <1>10 DEF RunNext, Task, Agents

LEMMA UploadTypeStep ==
  ASSUME UploadType, [RunNext]_runVars
  PROVE  UploadType'
<1>1. Failed \/ Succeeded => UploadType'
  BY Zenon DEF Failed, Succeeded, Ended, UploadType
<1>2. (\E s \in {"run", "prune", "mkdir", "read", "write", "abort", "delete"} : Goto(s)) => UploadType'
  BY Zenon DEF Goto, UploadType
<1>3. CASE Write
  BY <1>3, Zenon DEF Write, UploadType
<1>4. CASE RunAccepted
  BY <1>4, Zenon DEF RunAccepted, UploadType
<1>5. CASE Agents \/ UNCHANGED runVars
  BY <1>5, Zenon DEF Agents, JobDone, JobFails, ReapUpload, SourceRestarts, DestRestarts, LateRun, LateWrite,
               runVars, hubVars, UploadType
<1>6. CASE StartRun \/ PollDone \/ Mkdir \/ Read
  BY <1>2, <1>6 DEF StartRun, PollDone, Mkdir, Read
<1>7. CASE \/ RunFails \/ PollFails \/ PruneSource \/ StepFails \/ ReadFails \/ WriteFails \/ Abort
           \/ PruneDest \/ DeleteFile \/ HubRestarts
  BY <1>1, <1>2, <1>7 DEF RunFails, PollFails, PruneSource, StepFails, ReadFails, WriteFails, Abort,
        PruneDest, DeleteFile, HubRestarts, CopyFails, AfterPrune, AfterDestPrune
<1> QED BY <1>3, <1>4, <1>5, <1>6, <1>7 DEF RunNext, Task

\* A request is left for later only where the agents may be slow, and a chunk
\* that is left is the one the task was sending.
LEMMA LateStep ==
  ASSUME RunInv, [RunNext]_runVars
  PROVE  LateTypes' /\ LateShape'
<1>0. HubTypes /\ LateTypes /\ LateShape /\ CopyTrue
  BY RunInvParts
<1>1. ASSUME late' \subseteq late PROVE LateTypes' /\ LateShape'
  BY <1>0, <1>1 DEF LateTypes, LateShape
<1>2. CASE RunFails
  <2>1. CASE "run" \in LateOps /\ late' = late \cup {[op |-> "run"]}
    BY <1>0, <2>1 DEF LateTypes, LateShape
  <2> QED BY <1>1, <1>2, <2>1 DEF RunFails, srcVars
<1>3. CASE WriteFails
  <2> DEFINE chunk == [op |-> "write", file |-> cur, offset |-> offset, final |-> Final]
  <2>1. CASE "write" \in LateOps /\ late' = late \cup {chunk}
    <3>1. cur \in Files /\ offset \in 0 .. Chunks - 1 /\ (Final <=> offset + 1 >= Chunks)
      BY <1>0, <1>3, RunAssumption DEF HubTypes, CopyTrue, WriteFails, Final
    <3>2. chunk.op = "write" /\ chunk.file = cur /\ chunk.offset = offset /\ chunk.final = Final
      OBVIOUS
    <3> HIDE DEF chunk
    <3> QED BY <1>0, <2>1, <3>1, <3>2 DEF LateTypes, LateShape
  <2>2. late' = late \/ ("write" \in LateOps /\ late' = late \cup {chunk})
    BY <1>3 DEF WriteFails
  <2> QED BY <1>1, <2>1, <2>2
<1>4. CASE SourceRestarts \/ DestRestarts \/ LateRun \/ LateWrite
  BY <1>1, <1>4 DEF SourceRestarts, DestRestarts, LateRun, LateWrite
<1>5. CASE \/ StartRun \/ RunAccepted \/ PollDone \/ PollFails \/ PruneSource \/ Mkdir \/ StepFails
           \/ Read \/ ReadFails \/ Write \/ Abort \/ PruneDest \/ DeleteFile \/ HubRestarts
           \/ (\E f \in Files : JobDone(f) \/ JobFails(f) \/ ReapUpload(f)) \/ UNCHANGED runVars
  <2>1. late' = late
    BY <1>5 DEF StartRun, RunAccepted, PollDone, PollFails, PruneSource, Mkdir, StepFails, Read, ReadFails,
                Write, Abort, PruneDest, DeleteFile, HubRestarts, JobDone, JobFails, ReapUpload, runVars
  <2> QED BY <1>1, <2>1
<1> QED BY <1>2, <1>3, <1>4, <1>5 DEF RunNext, Task, Agents

\* What the hub's task remembers changes with the task's own steps alone.
LEMMA TaskFrame ==
  ASSUME \/ (\E f \in Files : JobDone(f) \/ JobFails(f) \/ ReapUpload(f))
         \/ SourceRestarts \/ DestRestarts \/ LateWrite \/ UNCHANGED runVars
  PROVE  UNCHANGED <<hubVars, last, strays>>
  BY DEF JobDone, JobFails, ReapUpload, SourceRestarts, DestRestarts, LateWrite, runVars, hubVars, srcVars

LEMMA CurNewestStep ==
  ASSUME RunInv, [RunNext]_runVars
  PROVE  CurNewest'
<1>0. HubTypes /\ SourceTypes /\ CurNewest /\ Made
  BY RunInvParts
<1>1. Failed \/ Succeeded => CurNewest'
  BY DEF Failed, Succeeded, Ended, CurNewest
<1>2. UNCHANGED <<cur, good, last, strays>> => CurNewest'
  BY <1>0 DEF CurNewest
<1>3. CASE RunAccepted
  <2>1. cur' = last + 1 /\ last' = last + 1 /\ good' = good /\ last \in Nat
    BY <1>0, <1>3 DEF RunAccepted, BackupRun, SourceTypes
  <2>2. \A f \in good : f \in Nat /\ f <= last
    BY <1>0 DEF Made, HubTypes, Files
  <2> QED BY <2>1, <2>2 DEF CurNewest, Files
<1>4. CASE LateRun
  <2>1. last' = last + 1 /\ UNCHANGED <<cur, good>> /\ strays' = strays \cup {last + 1} /\ last \in Nat
    BY <1>0, <1>4 DEF LateRun, BackupRun, SourceTypes, hubVars
  <2>2. \A g \in Files : g \in Nat /\ (g <= last' => g <= last \/ g = last + 1)
    BY <2>1 DEF Files
  <2>3. cur # Absent => cur \in Nat
    BY <1>0 DEF HubTypes, Files
  <2> QED BY <1>0, <2>1, <2>2, <2>3 DEF CurNewest
<1>5. CASE \/ (\E f \in Files : JobDone(f) \/ JobFails(f) \/ ReapUpload(f))
           \/ SourceRestarts \/ DestRestarts \/ LateWrite \/ UNCHANGED runVars
  BY <1>2, <1>5, TaskFrame DEF hubVars
<1>6. CASE StartRun \/ PollDone \/ Mkdir \/ Read \/ Write
  BY <1>2, <1>6 DEF StartRun, PollDone, Mkdir, Read, Write, Goto, srcVars
<1>7. CASE RunFails \/ PollFails \/ StepFails \/ Abort \/ HubRestarts \/ DeleteFile
  BY <1>1, <1>7 DEF RunFails, PollFails, StepFails, Abort, HubRestarts, DeleteFile
<1>8. CASE ReadFails \/ WriteFails
  BY <1>1, <1>2, <1>8 DEF ReadFails, WriteFails, CopyFails, Goto, srcVars
<1>9. CASE PruneSource \/ PruneDest
  BY <1>1, <1>2, <1>9 DEF PruneSource, PruneDest, AfterPrune, AfterDestPrune, Goto, srcVars
<1> QED BY <1>3, <1>4, <1>5, <1>6, <1>7, <1>8, <1>9 DEF RunNext, Task, Agents

\* A step makes no other file than the next one, and records no other run
\* than the one under way.
LEMMA FilesOfStep ==
  ASSUME RunInv, [RunNext]_runVars
  PROVE  /\ last <= last' /\ last \in Nat /\ last' \in Nat
         /\ \A f \in Files : local'[f] # Absent /\ local[f] = Absent => f = last + 1 /\ last' = last + 1
         /\ \A f \in good' : f \in good \/ f = cur
         /\ good' # good => cur # Absent
<1>0. HubTypes /\ SourceTypes /\ last \in Nat /\ JobsTrue
  BY RunInvParts DEF SourceTypes
<1>1. last' \in {last, last + 1}
  BY DEF RunNext, Task, Agents, runVars, srcVars, StartRun, RunAccepted, RunFails, BackupRun, PollDone, PollFails,
         PruneSource, Mkdir, StepFails, Read, ReadFails, Write, WriteFails, Abort, PruneDest, DeleteFile,
         JobDone, JobFails, ReapUpload, SourceRestarts, DestRestarts, LateRun, LateWrite, HubRestarts
<1>2. good' = good \/ (cur # Absent /\ good' = good \cup {cur})
  <2>1. CASE PruneSource \/ PruneDest \/ DeleteFile
    BY <1>0, <2>1 DEF PruneSource, PruneDest, DeleteFile, AfterPrune, AfterDestPrune, Goto, Failed, Succeeded, HubTypes
  <2>2. CASE ~(PruneSource \/ PruneDest \/ DeleteFile)
    BY <2>2 DEF RunNext, Task, Agents, runVars, hubVars, StartRun, RunAccepted, RunFails, PollDone, PollFails,
         Mkdir, StepFails, Read, ReadFails, Write, WriteFails, Abort, CopyFails, Goto, Failed,
         JobDone, JobFails, ReapUpload, SourceRestarts, DestRestarts, LateRun, LateWrite, HubRestarts
  <2> QED BY <2>1, <2>2
<1>3. ASSUME NEW f \in Files, local'[f] # Absent, local[f] = Absent
      PROVE  f = last + 1 /\ last' = last + 1
  <2>1. BackupRun => f = last + 1 /\ last' = last + 1
    BY <1>0, <1>3 DEF BackupRun, SourceTypes
  <2>2. ASSUME NEW g \in Files, JobDone(g) \/ JobFails(g) PROVE FALSE
    BY <1>0, <1>3, <2>2, RunAssumption DEF JobDone, JobFails, SourceTypes
  <2>3. ~PruneSource /\ ~DeleteFile
    BY <1>0, <1>3 DEF PruneSource, Prune, DeleteFile, SourceTypes
  <2>4. local' # local
    BY <1>3
  <2>5. BackupRun
    BY <2>2, <2>3, <2>4 DEF RunNext, Task, Agents, runVars, srcVars, StartRun, RunAccepted, RunFails, PollDone, PollFails,
         Mkdir, StepFails, Read, ReadFails, Write, WriteFails, Abort, PruneDest,
         ReapUpload, SourceRestarts, DestRestarts, LateRun, LateWrite, HubRestarts
  <2> QED BY <2>1, <2>5
<1>4. last <= last' /\ last' \in Nat
  BY <1>0, <1>1
<1> QED BY <1>0, <1>2, <1>3, <1>4

LEMMA MadeStep ==
  ASSUME RunInv, [RunNext]_runVars
  PROVE  Made'
<1>0. HubTypes /\ CurNewest /\ Made
  BY RunInvParts
<1>1. ASSUME NEW f \in good' PROVE f <= last'
  <2>1. f \in good \/ (f = cur /\ cur # Absent)
    BY <1>1, FilesOfStep
  <2>2. f \in Files /\ f <= last
    BY <1>0, <2>1 DEF Made, CurNewest, HubTypes
  <2>3. f \in Nat
    BY <2>2, RunAssumption DEF Files
  <2> QED BY <2>2, <2>3, FilesOfStep
<1>2. ASSUME NEW f \in Files, local'[f] # Absent PROVE f <= last'
  <2>1. f \in Nat /\ (local[f] # Absent => f <= last)
    BY <1>0 DEF Made, Files
  <2> QED BY <1>2, <2>1, FilesOfStep
<1> QED BY <1>1, <1>2 DEF Made

LEMMA JobsTrueStep ==
  ASSUME RunInv, [RunNext]_runVars
  PROVE  JobsTrue'
<1>0. HubTypes /\ SourceTypes /\ CurNewest /\ Made /\ JobsTrue /\ last \in Nat
  BY RunInvParts DEF SourceTypes
<1>1. ASSUME UNCHANGED <<job, local>>, stage' \notin {"poll", "prune"} PROVE JobsTrue'
  BY <1>0, <1>1 DEF JobsTrue
<1>2. ASSUME UNCHANGED <<job, local, stage, cur>> PROVE JobsTrue'
  BY <1>0, <1>2 DEF JobsTrue
<1>3. CASE RunAccepted
  <2>1. last + 1 \in Files /\ job'[last + 1] = "running" /\ local'[last + 1] = "part"
    BY <1>0, <1>3, RunAssumption DEF RunAccepted, BackupRun, SourceTypes, Files
  <2>2. \A f \in Files : f # last + 1 => job'[f] = job[f] /\ local'[f] = local[f]
    BY <1>0, <1>3 DEF RunAccepted, BackupRun, SourceTypes
  <2> QED BY <1>0, <1>3, <2>1, <2>2 DEF RunAccepted, JobsTrue
<1>4. CASE LateRun
  <2>1. last + 1 \in Files /\ job'[last + 1] = "running" /\ local'[last + 1] = "part"
    BY <1>0, <1>4, RunAssumption DEF LateRun, BackupRun, SourceTypes, Files
  <2>2. \A f \in Files : f # last + 1 => job'[f] = job[f] /\ local'[f] = local[f]
    BY <1>0, <1>4 DEF LateRun, BackupRun, SourceTypes
  <2>3. stage \in {"poll", "prune"} => cur \in Files /\ cur # last + 1
    BY <1>0 DEF HubTypes, CurNewest, Files
  <2> QED BY <1>0, <1>4, <2>1, <2>2, <2>3 DEF LateRun, hubVars, JobsTrue
<1>5. CASE RunFails
  <2>1. CASE BackupRun
    <3>1. last + 1 \in Files /\ local'[last + 1] = "part"
      BY <1>0, <2>1, RunAssumption DEF BackupRun, SourceTypes, Files
    <3>2. \A f \in Files : f # last + 1 => job'[f] = job[f] /\ local'[f] = local[f]
      BY <1>0, <2>1 DEF BackupRun, SourceTypes
    <3> QED BY <1>0, <1>5, <3>1, <3>2 DEF RunFails, Failed, Ended, JobsTrue
  <2> QED BY <1>1, <1>5, <2>1 DEF RunFails, Failed, Ended, srcVars
<1>6. CASE PollDone
  BY <1>0, <1>6 DEF PollDone, Goto, srcVars, JobsTrue
<1>7. CASE PruneSource
  <2>1. \A f \in Files : local'[f] \in {local[f], Absent}
    BY <1>7 DEF PruneSource, Prune
  <2>2. stage' \notin {"poll", "prune"} /\ job' = job
    BY <1>7 DEF PruneSource, AfterPrune, Goto, Failed, Succeeded, Ended
  <2> QED BY <1>0, <2>1, <2>2, RunAssumption DEF JobsTrue
<1>8. CASE DeleteFile
  <2>1. \A f \in Files : local'[f] \in {local[f], Absent}
    BY <1>0, <1>8 DEF DeleteFile, SourceTypes
  <2>2. stage' \notin {"poll", "prune"} /\ job' = job
    BY <1>8 DEF DeleteFile, Failed, Succeeded, Ended
  <2> QED BY <1>0, <2>1, <2>2, RunAssumption DEF JobsTrue
<1>9. ASSUME NEW f \in Files, JobDone(f) \/ JobFails(f)
      PROVE  JobsTrue'
  <2>1. stage \in {"poll", "prune"} => cur \in Files
    BY <1>0 DEF HubTypes
  <2> QED BY <1>0, <1>9, <2>1 DEF JobDone, JobFails, hubVars, SourceTypes, JobsTrue
<1>10. CASE SourceRestarts
  <2>1. stage \in {"poll", "prune"} => cur \in Files
    BY <1>0 DEF HubTypes
  <2> QED BY <1>0, <1>10, <2>1, RunAssumption DEF SourceRestarts, hubVars, JobsTrue
<1>11. CASE DestRestarts \/ LateWrite \/ (\E f \in Files : ReapUpload(f)) \/ UNCHANGED runVars
  BY <1>2, <1>11 DEF DestRestarts, LateWrite, ReapUpload, runVars, srcVars, hubVars
<1>12. CASE StartRun \/ PollFails \/ Mkdir \/ StepFails \/ Read \/ Write \/ Abort \/ HubRestarts
  BY <1>1, <1>12 DEF StartRun, PollFails, Mkdir, StepFails, Read, Write, Abort, HubRestarts, Goto, Failed, Ended, srcVars
<1>13. CASE ReadFails \/ WriteFails \/ PruneDest
  BY <1>1, <1>13 DEF ReadFails, WriteFails, PruneDest, CopyFails, AfterDestPrune, Goto, Failed, Succeeded, Ended, srcVars
<1> QED BY <1>3, <1>4, <1>5, <1>6, <1>7, <1>8, <1>9, <1>10, <1>11, <1>12, <1>13 DEF RunNext, Task, Agents

\* The prune of the destination leaves its newest file, which is whole and at
\* least as new as the copy just made.
LEMMA NewestRemoteStays ==
  ASSUME RunInv, PruneDest
  PROVE  cur \in Files /\ \E n \in Files : n >= cur /\ remote'[n] = Chunks
<1>0. cur \in Files /\ remote[cur] = Chunks /\ RemoteWhole
  BY RunInvParts DEF PruneDest, HubTypes, CopyTrue
<1> DEFINE S == {g \in Files : remote[g] # Absent}
<1>1. cur \in S /\ S \in SUBSET (1 .. MaxFiles) /\ MaxFiles \in Nat
  BY <1>0, RunAssumption DEF Files
<1>2. PICK n \in S : \A g \in S : g <= n
  <2> HIDE DEF S
  <2> QED BY <1>1, LargestOfBounded
<1>3. {g \in Files : g > n /\ remote[g] # Absent} = {}
  BY <1>2 DEF Files
<1>4. Kept(n, remote, DestKeep)
  BY <1>3, FS_EmptySet, RunAssumption DEF Kept
<1>5. remote'[n] = Chunks
  BY <1>0, <1>2, <1>4 DEF PruneDest, Prune, RemoteWhole
<1> QED BY <1>0, <1>1, <1>2, <1>5

LEMMA CopyTrueStep ==
  ASSUME RunInv, [RunNext]_runVars
  PROVE  CopyTrue'
<1>0. HubTypes /\ DestTypes /\ RemoteWhole /\ CopyTrue /\ 0 < Chunks
  BY RunInvParts, RunAssumption
<1>1. Failed \/ Succeeded => CopyTrue'
  BY <1>0 DEF Failed, Succeeded, Ended, CopyTrue
<1>2. ASSUME Goto("run") \/ Goto("prune") \/ Goto("mkdir") \/ Goto("read") \/ Goto("write"),
             stage \notin {"abort", "destprune", "delete"}
      PROVE  CopyTrue'
  BY <1>0, <1>2 DEF Goto, CopyTrue
<1>3. CASE StartRun \/ PollDone \/ Mkdir \/ Read
  BY <1>2, <1>3 DEF StartRun, PollDone, Mkdir, Read
<1>4. CASE RunAccepted
  BY <1>0, <1>4 DEF RunAccepted, CopyTrue
<1>5. CASE RunFails \/ PollFails \/ StepFails \/ Abort \/ HubRestarts \/ DeleteFile
  BY <1>1, <1>5 DEF RunFails, PollFails, StepFails, Abort, HubRestarts, DeleteFile
<1>6. CASE PruneSource
  BY <1>1, <1>2, <1>6 DEF PruneSource, AfterPrune
<1>7. Goto("abort") => CopyTrue'
  BY DEF Goto, CopyTrue
<1>8. CASE ReadFails \/ WriteFails
  BY <1>1, <1>7, <1>8 DEF ReadFails, WriteFails, CopyFails
<1>9. CASE Write
  <2>1. cur \in Files /\ offset \in 0 .. Chunks - 1 /\ (Final <=> offset + 1 >= Chunks)
    BY <1>0, <1>9, RunAssumption DEF HubTypes, CopyTrue, Write, Final
  <2>2. Final => remote'[cur] = Chunks
    BY <1>0, <1>9, <2>1, FsWriteWhole DEF Write
  <2>3. CASE Final
    BY <1>9, <2>2, <2>3 DEF Write, CopyTrue
  <2>4. CASE ~Final
    BY <1>9, <2>1, <2>4, RunAssumption DEF Write, CopyTrue
  <2> QED BY <2>3, <2>4
<1>10. CASE PruneDest
  <2>1. CASE Goto("delete")
    BY <1>10, <2>1, NewestRemoteStays DEF Goto, CopyTrue
  <2> QED BY <1>1, <1>10, <2>1 DEF PruneDest, AfterDestPrune
<1>11. CASE Agents \/ UNCHANGED runVars
  <2>1. UNCHANGED hubVars /\ ~PruneDest
    <3>1. UNCHANGED hubVars
      BY <1>11 DEF Agents, JobDone, JobFails, ReapUpload, SourceRestarts, DestRestarts, LateRun, LateWrite, runVars
    <3>2. PruneDest => stage' # stage
      BY DEF PruneDest, AfterDestPrune, Goto, Failed, Succeeded, Ended
    <3> QED BY <3>1, <3>2 DEF hubVars
  <2>2. \A g \in Files : remote[g] = Chunks => remote'[g] = Chunks
    BY <2>1, DestStep DEF DestKeeps
  <2>3. stage \in {"destprune", "delete"} => cur \in Files
    BY <1>0 DEF HubTypes
  <2> QED BY <1>0, <2>1, <2>2, <2>3 DEF hubVars, CopyTrue
<1> QED BY <1>3, <1>4, <1>5, <1>6, <1>8, <1>9, <1>10, <1>11 DEF RunNext, Task

\* The prune of the source leaves the file of the run, or there is a stray
\* that is newer.
LEMMA PruneLeavesOne ==
  ASSUME RunInv, PruneSource
  PROVE  /\ cur \in Files
         /\ local'[cur] = "whole" \/ \E g \in strays : g > cur
<1>0. cur \in Files /\ local[cur] = "whole" /\ CurNewest /\ Made /\ cur # Absent
  BY RunInvParts DEF PruneSource, HubTypes, JobsTrue
<1>1. CASE Kept(cur, local, Keep)
  BY <1>0, <1>1 DEF PruneSource, Prune
<1>2. CASE ~Kept(cur, local, Keep)
  <2> DEFINE S == {g \in Files : g > cur /\ local[g] # Absent}
  <2>1. S # {}
    BY <1>2, FS_EmptySet, RunAssumption DEF Kept
  <2>2. PICK g \in S : TRUE
    BY <2>1
  <2> QED BY <1>0, <2>2 DEF CurNewest, Made, Files
<1> QED BY <1>0, <1>1, <1>2

LEMMA GoodSafeStep ==
  ASSUME RunInv, [RunNext]_runVars
  PROVE  GoodSafe'
<1>0. HubTypes /\ SourceTypes /\ GoodSafe /\ CurNewest /\ Made /\ JobsTrue /\ CopyTrue
  BY RunInvParts
<1>1. ASSUME cur \in Files, \A f \in good' : f \in good \/ f = cur,
             (\E n \in Files : n >= cur /\ Safe(n)') \/ (\E g \in strays' : g > cur)
      PROVE  GoodSafe'
  <2> SUFFICES ASSUME NEW f \in good'
               PROVE  (\E g \in Files : g >= f /\ Safe(g)') \/ (\E g \in strays' : g > f)
    BY DEF GoodSafe
  <2>1. f \in Nat /\ cur \in Nat /\ f <= cur
    <3>1. cur \in Nat /\ cur # Absent
      BY <1>1, RunAssumption DEF Files
    <3>2. f \in good => f \in Nat /\ f < cur
      BY <1>0, <3>1, RunAssumption DEF CurNewest, HubTypes, Files
    <3> QED BY <1>1, <3>1, <3>2
  <2>2. CASE \E n \in Files : n >= cur /\ Safe(n)'
    BY <2>1, <2>2 DEF Files
  <2>3. CASE \E g \in strays' : g > cur
    <3>1. strays' \subseteq Files
      BY <1>0, SourceTypesStep DEF SourceTypes
    <3> QED BY <2>1, <2>3, <3>1 DEF Files
  <2> QED BY <1>1, <2>2, <2>3
<1>2. CASE PruneSource
  <2>1. cur \in Files /\ (local'[cur] = "whole" \/ \E g \in strays : g > cur)
    BY <1>2, PruneLeavesOne
  <2>2. strays' = strays
    BY <1>2 DEF PruneSource
  <2>3. cur >= cur
    BY <2>1 DEF Files
  <2> QED BY <1>1, <2>1, <2>2, <2>3, FilesOfStep DEF Safe
<1>3. CASE PruneDest
  BY <1>1, <1>3, NewestRemoteStays, FilesOfStep DEF Safe
<1>4. CASE DeleteFile
  <2>1. cur \in Files /\ (\E n \in Files : n >= cur /\ remote[n] = Chunks) /\ UNCHANGED remote
    BY <1>0, <1>4 DEF DeleteFile, CopyTrue, HubTypes, destVars
  <2> QED BY <1>1, <2>1, FilesOfStep DEF Safe
<1>5. CASE ~(PruneSource \/ PruneDest \/ DeleteFile)
  <2>1. good' = good /\ strays \subseteq strays'
    BY <1>5 DEF RunNext, Task, Agents, runVars, hubVars, srcVars, StartRun, RunAccepted, RunFails, PollDone,
         PollFails, Mkdir, StepFails, Read, ReadFails, Write, WriteFails, Abort, CopyFails, Goto, Failed,
         JobDone, JobFails, ReapUpload, SourceRestarts, DestRestarts, LateRun, LateWrite, HubRestarts
  <2>2. ASSUME NEW g \in Files, local[g] = "whole" PROVE local'[g] = "whole"
    <3>1. BackupRun => local'[g] = "whole"
      <4>1. g # last + 1
        BY <1>0, <2>2, RunAssumption DEF Made, SourceTypes, Files
      <4> QED BY <1>0, <2>2, <4>1 DEF BackupRun, SourceTypes
    <3>2. ASSUME NEW f \in Files, JobDone(f) \/ JobFails(f) PROVE local'[g] = "whole"
      BY <1>0, <2>2, <3>2 DEF JobDone, JobFails, JobsTrue, SourceTypes
    <3>3. local' = local \/ BackupRun \/ \E f \in Files : JobDone(f) \/ JobFails(f)
      BY <1>5 DEF RunNext, Task, Agents, runVars, srcVars, StartRun, RunAccepted, RunFails, PollDone,
         PollFails, Mkdir, StepFails, Read, ReadFails, Write, WriteFails, Abort,
         ReapUpload, SourceRestarts, DestRestarts, LateRun, LateWrite, HubRestarts
    <3> QED BY <2>2, <3>1, <3>2, <3>3
  <2>3. \A g \in Files : remote[g] = Chunks => remote'[g] = Chunks
    BY <1>5, DestStep DEF DestKeeps
  <2>4. \A g \in Files : Safe(g) => Safe(g)'
    BY <2>2, <2>3 DEF Safe
  <2> QED BY <1>0, <2>1, <2>4 DEF GoodSafe
<1> QED BY <1>2, <1>3, <1>4, <1>5

LEMMA RunInvInductive == RunInv /\ [RunNext]_runVars => RunInv'
<1> SUFFICES ASSUME RunInv, [RunNext]_runVars PROVE RunInv'
  OBVIOUS
<1>1. /\ HubTypes /\ SourceTypes /\ UploadType /\ CopyTrue
  BY RunInvParts
<1>2. HubTypes' /\ SourceTypes' /\ DestTypes' /\ UploadType' /\ LateTypes'
  BY <1>1, HubTypesStep, SourceTypesStep, DestStep, UploadTypeStep, LateStep DEF DestKeeps
<1>3. RunTypes'
  BY <1>2, Zenon DEF RunTypes, HubTypes, SourceTypes, DestTypes, UploadType, LateTypes
<1>4. GoodSafe' /\ RemoteWhole' /\ LateShape' /\ CurNewest' /\ Made' /\ JobsTrue' /\ CopyTrue'
  BY GoodSafeStep, DestStep, LateStep, CurNewestStep, MadeStep, JobsTrueStep, CopyTrueStep DEF DestKeeps
<1> QED BY <1>3, <1>4 DEF RunInv

LEMMA RunInvInitial == RunInit => RunInv
<1> SUFFICES ASSUME RunInit PROVE RunInv
  OBVIOUS
<1>1. HubTypes /\ SourceTypes /\ DestTypes /\ LateTypes
  BY RunAssumption DEF RunInit, HubTypes, SourceTypes, DestTypes, LateTypes
<1>2. UploadType
  BY Zenon DEF RunInit, UploadType
<1>3. GoodSafe /\ RemoteWhole /\ LateShape /\ CurNewest
  BY DEF RunInit, GoodSafe, RemoteWhole, LateShape, CurNewest
<1>4. Made /\ JobsTrue /\ CopyTrue
  BY RunAssumption DEF RunInit, Made, JobsTrue, CopyTrue
<1> QED BY <1>1, <1>2, <1>3, <1>4, RunInvParts

\* Once a run was recorded as done, a whole backup at least as new as that
\* run's exists at the source or the destination, or a file of a backup.run
\* that was carried out after its time-out is newer; and a file under its
\* final name on the destination is whole. For any length of a backup, any
\* numbers of files to keep and any mode (_run, copy_between, backupPrune).
THEOREM BackupsStayWhole == RunSpec => []BackupsWhole
<1>1. RunInv => BackupsWhole
  BY DEF RunInv, BackupsWhole, GoodSafe, RemoteWhole
<1> QED BY <1>1, RunInvInitial, RunInvInductive, PTL DEF RunSpec
=============================================================================
