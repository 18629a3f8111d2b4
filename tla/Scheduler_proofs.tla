-------------------------- MODULE Scheduler_proofs --------------------------
(***************************************************************************)
(* Theorems about Scheduler for any number of schedules, any period, catch *)
(* up limit and concurrency limits, any clock and any number of restarts.  *)
(***************************************************************************)
EXTENDS Scheduler, FiniteSetTheorems, TLAPS

-----------------------------------------------------------------------------
(* The inductive invariant. *)

\* The tick's local state: empty outside a tick and in a dead process, and
\* what is still to do is due.
TickInv ==
  /\ ~ ticking => todo = {} /\ current = NULL
  /\ current = NULL => left = <<>>
  /\ phase = "down" => ~ ticking /\ boots < MaxBoots
  /\ \A s \in todo : DueAt(s, now) /\ s # current

\* The concurrency limit, with room for one run more where a tick starts one.
RoomInv(s) ==
  /\ Exists(s) => Cardinality(Unfinished(s)) <= sched[s].maxc
  /\ current = s /\ left # <<>> => Cardinality(Unfinished(s)) < sched[s].maxc

\* The points a tick has planned for its schedule lie between next_run_at
\* and the value it will get.
PlanInv(s) ==
  current = s =>
    /\ DueAt(s, now)
    /\ \A j \in DOMAIN left :
         /\ left[j] >= sched[s].next
         /\ sched[s].kind = "interval" => left[j] < NextRun(sched[s])
    /\ \A i, j \in DOMAIN left : i < j => left[i] < left[j]

\* The runs of s have points before those that are still to come.
OrderInv(s) ==
  s \notin torn \cup rearmed =>
    /\ \A i, j \in DOMAIN runs[s] : i < j => runs[s][i].point < runs[s][j].point
    /\ current # s /\ Exists(s) /\ sched[s].next # NULL =>
         \A i \in DOMAIN runs[s] : runs[s][i].point < sched[s].next
    /\ current = s =>
         \A i \in DOMAIN runs[s] :
           /\ \A j \in DOMAIN left : runs[s][i].point < left[j]
           /\ sched[s].kind = "interval" => runs[s][i].point < NextRun(sched[s])

\* A once schedule has its run, or is still to be looked at, or the tick is
\* about to create it.
OnceInv(s) ==
  Exists(s) /\ sched[s].kind = "once" =>
    /\ sched[s].next \in {sched[s].at, NULL}
    /\ sched[s].policy # "skip" /\ (sched[s].next = NULL \/ (current = s /\ left = <<>>)) =>
         \E i \in DOMAIN runs[s] : runs[s][i].point = sched[s].at
    /\ sched[s].policy # "skip" /\ current = s /\ left # <<>> => left = <<sched[s].at>>

SchedInv(s) == RoomInv(s) /\ PlanInv(s) /\ OrderInv(s) /\ OnceInv(s)

IInv == TypeOK /\ TickInv /\ \A s \in Schedules : SchedInv(s)

-----------------------------------------------------------------------------
(* Arithmetic of points. *)

\* Whole periods in a span of time.
LEMMA PeriodsIn ==
  ASSUME NEW n \in Nat
  PROVE  n \div Period \in Nat
BY PeriodAssumption

\* k periods are some time, and one period more than k - 1.
LEMMA Periods ==
  ASSUME NEW k \in Nat
  PROVE  k * Period \in Nat /\ (k + 1) * Period = k * Period + Period
BY PeriodAssumption

\* Later points are later.
LEMMA LaterPeriods ==
  ASSUME NEW i \in Nat, NEW j \in Nat, i < j
  PROVE  i * Period < j * Period
<1>1. PICK d \in Nat : j = i + 1 + d
  <2>1. j - i - 1 \in Nat /\ j = i + 1 + (j - i - 1)
    OBVIOUS
  <2> QED BY <2>1
<1>2. d * Period \in Nat
  BY Periods
<1>3. j * Period = i * Period + Period + d * Period
  BY <1>1, PeriodAssumption
<1> QED BY <1>2, <1>3, Periods, PeriodAssumption

\* What a tick plans for a row that is due: points from next_run_at on,
\* each later than the one before and before the row's new next_run_at.
LEMMA PlanFacts ==
  ASSUME NEW row \in Row, now \in Nat, row.next \in Nat, row.next <= now
  PROVE  /\ Occurrences(row) \in Seq(Nat)
         /\ \A j \in DOMAIN Occurrences(row) :
              /\ Occurrences(row)[j] >= row.next
              /\ row.kind = "interval" => Occurrences(row)[j] < NextRun(row)
         /\ \A i, j \in DOMAIN Occurrences(row) :
              i < j => Occurrences(row)[i] < Occurrences(row)[j]
         /\ row.kind = "interval" => NextRun(row) \in Nat /\ row.next < NextRun(row)
         /\ row.kind = "once" => NextRun(row) = NULL
         /\ row.kind = "once" /\ row.policy # "skip" => Occurrences(row) = <<row.next>>
<1> DEFINE n == PointsTaken(row)  d == DuePoints(row)
<1>1. d \in Nat \ {0}
  BY PeriodsIn DEF DuePoints
<1>2. n \in Nat \ {0}
  BY <1>1, PeriodAssumption DEF PointsTaken
<1>3. ASSUME NEW k \in Nat \ {0}
      PROVE  Point(row, k) \in Nat /\ Point(row, k) >= row.next
  BY <1>3, Periods DEF Point
<1>4. ASSUME NEW i \in Nat \ {0}, NEW j \in Nat \ {0}, i < j
      PROVE  Point(row, i) < Point(row, j)
  <2>1. (i - 1) * Period < (j - 1) * Period
    BY <1>4, LaterPeriods
  <2>2. (i - 1) * Period \in Nat /\ (j - 1) * Period \in Nat
    BY <1>4, Periods
  <2> QED BY <2>1, <2>2 DEF Point
<1>5. Point(row, 1) = row.next
  BY PeriodAssumption DEF Point
<1>6. LatestPoint(row) \in Nat /\ LatestPoint(row) >= row.next
  BY <1>1, <1>3 DEF LatestPoint
<1>7. row.kind = "once" \/ row.kind = "interval"
  BY DEF Row, Kinds
<1>8. CASE FastForwards(row)
  <2>1. row.kind = "interval" => NextRun(row) = LatestPoint(row) + Period
    BY <1>8 DEF NextRun
  <2>2. row.kind = "once" => NextRun(row) = NULL /\ LatestPoint(row) = row.next
    BY DEF NextRun, LatestPoint
  <2>3. CASE row.policy = "run_once"
    <3>1. Occurrences(row) = <<LatestPoint(row)>>
      BY <1>8, <2>3 DEF Occurrences
    <3> QED BY <1>6, <1>7, <2>1, <2>2, <3>1, PeriodAssumption
  <2>4. CASE row.policy # "run_once"
    <3>1. Occurrences(row) = <<>> /\ row.policy = "skip"
      BY <1>8, <2>4 DEF Occurrences, FastForwards
    <3> QED BY <1>6, <1>7, <2>1, <2>2, <3>1, PeriodAssumption
  <2> QED BY <2>3, <2>4
<1>9. CASE ~ FastForwards(row)
  <2>1. Occurrences(row) = [k \in 1..n |-> Point(row, k)]
    BY <1>9 DEF Occurrences
  <2>2. Occurrences(row) \in Seq(Nat) /\ DOMAIN Occurrences(row) = 1..n
    BY <1>2, <1>3, <2>1
  <2>3. row.kind = "interval" => NextRun(row) = Point(row, n + 1)
    BY <1>9 DEF NextRun
  <2>4. row.kind = "once" => NextRun(row) = NULL /\ n = 1
    BY DEF NextRun, PointsTaken
  <2>5. ASSUME NEW j \in 1..n
        PROVE  Point(row, j) < Point(row, n + 1)
    BY <1>2, <1>4
  <2>6. Point(row, n + 1) \in Nat /\ row.next < Point(row, n + 1)
    BY <1>2, <1>3, <1>4, <1>5
  <2>7. row.kind = "once" => Occurrences(row) = <<row.next>>
    BY <1>5, <2>1, <2>4
  <2> QED
    BY <1>2, <1>3, <1>4, <1>7, <2>1, <2>2, <2>3, <2>4, <2>5, <2>6, <2>7
<1> QED BY <1>8, <1>9

-----------------------------------------------------------------------------
(* Schedules an action leaves alone. *)

\* Nothing the invariant says of s can have changed.
Same(s) ==
  /\ sched'[s] = sched[s] /\ runs'[s] = runs[s]
  /\ s \in torn \cup rearmed => s \in torn' \cup rearmed'
  /\ \/ current # s /\ current' # s
     \/ current' = current /\ left' = left /\ now' = now /\ phase' = phase

\* Then the invariant still says the same of s.
LEMMA SameKeepsSchedInv ==
  ASSUME NEW s \in Schedules, SchedInv(s), Same(s)
  PROVE  SchedInv(s)'
<1> USE DEF Same, Exists, DueAt
<1>1. Unfinished(s)' = Unfinished(s)
  BY DEF Unfinished
<1>2. RoomInv(s)'
  BY <1>1 DEF SchedInv, RoomInv
<1>3. PlanInv(s)'
  BY DEF SchedInv, PlanInv, NextRun, LatestPoint, FastForwards, Point, PointsTaken, DuePoints
<1>4. OrderInv(s)'
  BY DEF SchedInv, OrderInv, NextRun, LatestPoint, FastForwards, Point, PointsTaken, DuePoints
<1>5. OnceInv(s)'
  BY DEF SchedInv, OnceInv
<1> QED BY <1>2, <1>3, <1>4, <1>5 DEF SchedInv

\* The unfinished runs of a schedule are finitely many.
LEMMA UnfinishedFinite ==
  ASSUME TypeOK, NEW s \in Schedules
  PROVE  IsFiniteSet(Unfinished(s)) /\ Cardinality(Unfinished(s)) \in Nat
<1>1. Unfinished(s) \in SUBSET (1..Len(runs[s])) /\ Len(runs[s]) \in Int
  BY DEF TypeOK, Unfinished
<1>2. IsFiniteSet(1..Len(runs[s]))
  BY <1>1, FS_Interval
<1>3. IsFiniteSet(Unfinished(s))
  BY <1>1, <1>2, FS_Subset
<1> QED BY <1>3, FS_CardinalityType

\* Runs of s may have moved on, but none was added, revived or given
\* another point; no tick was or is at s.
MovedOn(s) ==
  /\ sched'[s] = sched[s]
  /\ DOMAIN runs'[s] = DOMAIN runs[s]
  /\ \A i \in DOMAIN runs[s] : runs'[s][i].point = runs[s][i].point
  /\ \A i \in DOMAIN runs[s] : runs[s][i].status = "DONE" => runs'[s][i].status = "DONE"
  /\ s \in torn \cup rearmed => s \in torn' \cup rearmed'

\* Runs that move on do not become more unfinished ones.
LEMMA FewerUnfinished ==
  ASSUME TypeOK, NEW s \in Schedules, MovedOn(s), TypeOK'
  PROVE  /\ Cardinality(Unfinished(s)') \in Nat
         /\ Cardinality(Unfinished(s)') <= Cardinality(Unfinished(s))
<1>1. Unfinished(s)' \in SUBSET Unfinished(s)
  BY DEF MovedOn, Unfinished
<1>2. IsFiniteSet(Unfinished(s)')
  BY <1>1, UnfinishedFinite, FS_Subset
<1> QED BY <1>1, <1>2, UnfinishedFinite, FS_Subset, FS_CardinalityType

\* Then what the invariant says of s still holds.
LEMMA MovedOnKeepsSchedInv ==
  ASSUME IInv, NEW s \in Schedules, MovedOn(s), current # s, current' # s, TypeOK'
  PROVE  SchedInv(s)'
<1> USE DEF MovedOn, Exists
<1>0. SchedInv(s) /\ TypeOK
  BY DEF IInv
<1>1. RoomInv(s)'
  <2>1. Exists(s) => sched[s].maxc \in Nat
    BY <1>0, ConcurrencyAssumption DEF TypeOK, Row
  <2>2. Cardinality(Unfinished(s)') \in Nat /\ Cardinality(Unfinished(s)) \in Nat
    BY <1>0, UnfinishedFinite, FewerUnfinished
  <2> QED BY <1>0, <2>1, <2>2, FewerUnfinished DEF SchedInv, RoomInv
<1>2. PlanInv(s)'
  BY DEF PlanInv
<1>3. OrderInv(s)'
  BY <1>0 DEF SchedInv, OrderInv
<1>4. OnceInv(s)'
  BY <1>0 DEF SchedInv, OnceInv
<1> QED BY <1>1, <1>2, <1>3, <1>4 DEF SchedInv

-----------------------------------------------------------------------------
(* Every action preserves the invariant. *)

\* An action that is the same for every schedule.
LEMMA AllSame ==
  ASSUME IInv, TypeOK', TickInv', \A s \in Schedules : Same(s)
  PROVE  IInv'
BY SameKeepsSchedInv DEF IInv

\* An action that restores the invariant of one schedule.
LEMMA OneChanges ==
  ASSUME IInv, NEW s \in Schedules, TypeOK', TickInv', SchedInv(s)',
         \A q \in Schedules \ {s} : Same(q)
  PROVE  IInv'
<1>1. ASSUME NEW q \in Schedules PROVE SchedInv(q)'
  <2>1. CASE q = s
    BY <2>1
  <2>2. CASE q # s
    BY <2>2, SameKeepsSchedInv DEF IInv
  <2> QED BY <2>1, <2>2
<1> QED BY <1>1 DEF IInv

\* What a tick sets out to do is due.
LEMMA BeginTickInv ==
  ASSUME IInv, BeginTick
  PROVE  IInv'
<1> USE DEF BeginTick, history
<1>1. TypeOK'
  BY DEF IInv, TypeOK, Due
<1>2. TickInv'
  BY NullAssumption DEF IInv, TickInv, Due, DueAt, Exists
<1>3. \A s \in Schedules : Same(s)
  BY DEF Same
<1> QED BY <1>1, <1>2, <1>3, AllSame

\* A schedule that is full is left as it is.
LEMMA PassOverInv ==
  ASSUME IInv, NEW s \in Schedules, PassOver(s)
  PROVE  IInv'
<1> USE DEF PassOver, ComesTo, history
<1>1. TypeOK'
  BY DEF IInv, TypeOK
<1>2. TickInv'
  BY DEF IInv, TickInv, DueAt, Exists
<1>3. \A q \in Schedules : Same(q)
  BY DEF Same
<1> QED BY <1>1, <1>2, <1>3, AllSame

\* A tick that has done everything changes no row.
LEMMA EndTickInv ==
  ASSUME IInv, EndTick
  PROVE  IInv'
<1> USE DEF EndTick, history
<1>1. TypeOK'
  BY DEF IInv, TypeOK
<1>2. TickInv'
  BY DEF IInv, TickInv
<1>3. \A s \in Schedules : Same(s)
  BY NullAssumption DEF Same
<1> QED BY <1>1, <1>2, <1>3, AllSame

\* What is due stays due.
LEMMA ClockTicksInv ==
  ASSUME IInv, ClockTicks
  PROVE  IInv'
<1> USE DEF ClockTicks, tick, history
<1>1. TypeOK'
  BY BoundAssumption DEF IInv, TypeOK
<1>2. TickInv'
  BY DEF IInv, TickInv
<1>3. \A s \in Schedules : Same(s)
  BY NullAssumption DEF Same, IInv, TickInv
<1> QED BY <1>1, <1>2, <1>3, AllSame

\* A row that is due has what PlanFacts asks for.
LEMMA DueRow ==
  ASSUME TypeOK, NEW s \in Schedules, DueAt(s, now)
  PROVE  /\ sched[s] \in Row /\ now \in Nat
         /\ sched[s].next \in Nat /\ sched[s].next <= now
<1>1. sched[s] \in Row
  BY DEF TypeOK, DueAt, Exists
<1>2. now \in Nat
  BY BoundAssumption DEF TypeOK
<1>3. sched[s].next \in Nat \cup {NULL}
  BY <1>1 DEF Row
<1> QED BY <1>1, <1>2, <1>3 DEF DueAt

\* A run's row, and its point.
LEMMA RunRows ==
  ASSUME TypeOK, NEW s \in Schedules, NEW i \in DOMAIN runs[s]
  PROVE  runs[s][i] \in RunRow /\ runs[s][i].point \in Nat
<1>1. runs[s] \in Seq(RunRow)
  BY DEF TypeOK
<1>2. runs[s][i] \in RunRow
  BY <1>1
<1> QED BY <1>2 DEF RunRow

\* The points planned lie after every run there is.
LEMMA PlanInvariant ==
  ASSUME IInv, NEW s \in Schedules, Plan(s)
  PROVE  IInv'
<1> DEFINE row == sched[s]
<1> USE DEF Plan, ComesTo, history
<1>1. DueAt(s, now) /\ current = NULL /\ current # s /\ TypeOK /\ SchedInv(s)
  BY NullAssumption DEF IInv, TickInv
<1>2. row \in Row /\ now \in Nat /\ row.next \in Nat /\ row.next <= now
  BY <1>1, DueRow
<1>3. /\ Occurrences(row) \in Seq(Nat)
      /\ \A j \in DOMAIN Occurrences(row) :
           /\ Occurrences(row)[j] >= row.next
           /\ row.kind = "interval" => Occurrences(row)[j] < NextRun(row)
      /\ \A i, j \in DOMAIN Occurrences(row) :
           i < j => Occurrences(row)[i] < Occurrences(row)[j]
      /\ row.kind = "interval" => NextRun(row) \in Nat /\ row.next < NextRun(row)
      /\ row.kind = "once" => NextRun(row) = NULL
      /\ row.kind = "once" /\ row.policy # "skip" => Occurrences(row) = <<row.next>>
  BY <1>2, PlanFacts
<1>4. /\ left' = Occurrences(row) /\ current' = s /\ sched' = sched /\ runs' = runs
      /\ now' = now /\ phase' = phase
      /\ Unfinished(s)' = Unfinished(s) /\ NextRun(row)' = NextRun(row)
  BY DEF Unfinished, NextRun, LatestPoint, FastForwards, Point, PointsTaken, DuePoints
<1>5. TypeOK'
  BY <1>1, <1>3, <1>4 DEF TypeOK
<1>6. TickInv'
  BY <1>1, <1>4, NullAssumption DEF IInv, TickInv, DueAt, Exists
<1>7. RoomInv(s)'
  <2>1. row.maxc \in Nat /\ Cardinality(Unfinished(s)) \in Nat
    BY <1>1, <1>2, UnfinishedFinite, ConcurrencyAssumption DEF Row
  <2> QED BY <1>1, <1>4, <2>1 DEF RoomInv, SchedInv, Full, Exists
<1>8. PlanInv(s)'
  BY <1>1, <1>3, <1>4 DEF PlanInv, DueAt, Exists
<1>9. OrderInv(s)'
  <2> SUFFICES ASSUME s \notin torn \cup rearmed PROVE OrderInv(s)'
    BY DEF OrderInv
  <2>1. ASSUME NEW i \in DOMAIN runs[s] PROVE runs[s][i].point \in Nat /\ runs[s][i].point < row.next
    BY <1>1, <2>1, RunRows DEF SchedInv, OrderInv, DueAt
  <2>2. ASSUME NEW i \in DOMAIN runs[s], NEW j \in DOMAIN Occurrences(row)
        PROVE  runs[s][i].point < Occurrences(row)[j]
    <3>1. Occurrences(row)[j] \in Nat /\ Occurrences(row)[j] >= row.next
      BY <1>3
    <3> QED BY <1>2, <2>1, <3>1
  <2>3. ASSUME NEW i \in DOMAIN runs[s], row.kind = "interval"
        PROVE  runs[s][i].point < NextRun(row)
    BY <1>2, <1>3, <2>1, <2>3
  <2> QED BY <1>1, <1>4, <2>2, <2>3 DEF SchedInv, OrderInv
<1>10. OnceInv(s)'
  BY <1>1, <1>2, <1>3, <1>4, NullAssumption DEF SchedInv, OnceInv, Exists
<1>11. \A q \in Schedules \ {s} : Same(q)
  BY <1>1, <1>4, NullAssumption DEF Same
<1> QED BY <1>5, <1>6, <1>7, <1>8, <1>9, <1>10, <1>11, OneChanges DEF SchedInv

\* The run started has the first of the points planned, and there was room.
LEMMA StartOccurrenceInv ==
  ASSUME IInv, NEW s \in Schedules, StartOccurrence(s)
  PROVE  IInv'
<1> DEFINE new == [point |-> Head(left), status |-> "SCHEDULED", live |-> TRUE]
           n == Len(runs[s])
<1> USE DEF StartOccurrence, history
<1>1. TypeOK /\ TickInv /\ SchedInv(s) /\ current = s /\ DueAt(s, now) /\ left # <<>>
  BY DEF IInv, SchedInv, PlanInv
<1>2. /\ left \in Seq(Nat) /\ Len(left) \in Nat \ {0} /\ 1 \in DOMAIN left /\ Head(left) = left[1] /\ left[1] \in Nat
      /\ Tail(left) \in Seq(Nat)
      /\ DOMAIN left = 1..Len(left) /\ DOMAIN Tail(left) = 1..(Len(left) - 1)
      /\ \A j \in DOMAIN Tail(left) : Tail(left)[j] = left[j + 1]
  BY <1>1 DEF TypeOK
<1>3. runs[s] \in Seq(RunRow) /\ new \in RunRow
  BY <1>1, <1>2 DEF TypeOK, RunRow, RunStatus
<1>4. /\ runs'[s] = Append(runs[s], new)
      /\ DOMAIN runs'[s] = DOMAIN runs[s] \cup {n + 1} /\ n + 1 \notin DOMAIN runs[s]
      /\ \A i \in DOMAIN runs[s] : runs'[s][i] = runs[s][i]
      /\ runs'[s][n + 1] = new
  BY <1>1, <1>3 DEF TypeOK
<1>5. /\ sched' = sched /\ current' = current /\ now' = now /\ phase' = phase
      /\ left' = <<>> \/ left' = Tail(left)
      /\ NextRun(sched[s])' = NextRun(sched[s])
  BY DEF NextRun, LatestPoint, FastForwards, Point, PointsTaken, DuePoints
<1>6. TypeOK'
  BY <1>1, <1>2, <1>3, <1>5 DEF TypeOK
<1>7. TickInv'
  BY <1>1, <1>5, NullAssumption DEF TickInv, DueAt, Exists
<1>8. RoomInv(s)'
  <2>1. Unfinished(s)' = Unfinished(s) \cup {n + 1}
    BY <1>4 DEF Unfinished
  <2>2. n + 1 \notin Unfinished(s)
    BY <1>4 DEF Unfinished
  <2>3. Cardinality(Unfinished(s)') = Cardinality(Unfinished(s)) + 1
    BY <1>1, <2>1, <2>2, UnfinishedFinite, FS_AddElement
  <2>4. Cardinality(Unfinished(s)) \in Nat /\ sched[s].maxc \in Nat
    BY <1>1, UnfinishedFinite, DueRow, ConcurrencyAssumption DEF Row
  <2>5. Cardinality(Unfinished(s)) < sched[s].maxc
    BY <1>1 DEF SchedInv, RoomInv
  <2> QED BY <1>5, <2>3, <2>4, <2>5 DEF RoomInv, FillsUp, Exists
<1>9. PlanInv(s)'
  <2>1. \A i, j \in DOMAIN left : i < j => left[i] < left[j]
    BY <1>1 DEF SchedInv, PlanInv
  <2>2. \A i, j \in DOMAIN Tail(left) : i < j => Tail(left)[i] < Tail(left)[j]
    BY <1>2, <2>1
  <2>3. \A j \in DOMAIN left :
          left[j] >= sched[s].next /\ (sched[s].kind = "interval" => left[j] < NextRun(sched[s]))
    BY <1>1 DEF SchedInv, PlanInv
  <2>4. \A j \in DOMAIN Tail(left) :
          /\ Tail(left)[j] >= sched[s].next
          /\ sched[s].kind = "interval" => Tail(left)[j] < NextRun(sched[s])
    BY <1>2, <2>3
  <2> QED BY <1>1, <1>5, <2>2, <2>4 DEF PlanInv, DueAt, Exists
<1>10. OrderInv(s)'
  <2> SUFFICES ASSUME s \notin torn \cup rearmed PROVE OrderInv(s)'
    BY DEF OrderInv
  <2>1. \A i \in DOMAIN runs[s] :
          /\ \A j \in DOMAIN left : runs[s][i].point < left[j]
          /\ sched[s].kind = "interval" => runs[s][i].point < NextRun(sched[s])
    BY <1>1 DEF SchedInv, OrderInv
  <2>2. \A j \in DOMAIN Tail(left) : left[1] < Tail(left)[j]
    <3>1. \A i, j \in DOMAIN left : i < j => left[i] < left[j]
      BY <1>1 DEF SchedInv, PlanInv
    <3> QED BY <1>2, <3>1
  <2>3. sched[s].kind = "interval" => left[1] < NextRun(sched[s])
    BY <1>1, <1>2 DEF SchedInv, PlanInv
  <2>4. \A i \in DOMAIN runs[s] : runs[s][i].point < left[1]
    BY <1>2, <2>1
  <2>5. \A i \in DOMAIN runs[s], j \in DOMAIN Tail(left) : runs[s][i].point < Tail(left)[j]
    BY <1>2, <2>1
  <2>6. \A i, j \in DOMAIN runs'[s] : i < j => runs'[s][i].point < runs'[s][j].point
    <3>1. \A i, j \in DOMAIN runs[s] : i < j => runs[s][i].point < runs[s][j].point
      BY <1>1 DEF SchedInv, OrderInv
    <3>2. \A i \in DOMAIN runs[s] : i \in Nat /\ i <= n
      BY <1>3
    <3>3. n \in Nat /\ new.point = left[1]
      BY <1>2, <1>3
    <3> HIDE DEF new, n
    <3>4. ASSUME NEW i \in DOMAIN runs'[s], NEW j \in DOMAIN runs'[s], i < j
          PROVE  runs'[s][i].point < runs'[s][j].point
      <4>1. i \in DOMAIN runs[s]
        BY <1>4, <3>2, <3>3, <3>4
      <4>2. CASE j = n + 1
        BY <1>4, <2>4, <3>3, <4>1, <4>2
      <4>3. CASE j \in DOMAIN runs[s]
        BY <1>4, <3>1, <3>4, <4>1, <4>3
      <4> QED BY <1>4, <4>2, <4>3
    <3> QED BY <3>4
  <2>7. \A i \in DOMAIN runs'[s] :
          /\ \A j \in DOMAIN Tail(left) : runs'[s][i].point < Tail(left)[j]
          /\ sched[s].kind = "interval" => runs'[s][i].point < NextRun(sched[s])
    BY <1>2, <1>4, <2>1, <2>2, <2>3, <2>5
  <2>8. \A i \in DOMAIN runs'[s] :
          /\ \A j \in DOMAIN left' : runs'[s][i].point < left'[j]
          /\ sched[s].kind = "interval" => runs'[s][i].point < NextRun(sched[s])
    BY <1>5, <2>7
  <2> QED BY <1>1, <1>5, <2>6, <2>8 DEF OrderInv
<1>11. OnceInv(s)'
  <2> SUFFICES ASSUME Exists(s), sched[s].kind = "once", sched[s].policy # "skip"
               PROVE  OnceInv(s)'
    BY <1>1, <1>5 DEF SchedInv, OnceInv, Exists
  <2>1. left = <<sched[s].at>> /\ sched[s].next = sched[s].at
    BY <1>1 DEF SchedInv, OnceInv, DueAt
  <2>2. runs'[s][n + 1].point = sched[s].at /\ n + 1 \in DOMAIN runs'[s]
    BY <1>2, <1>4, <2>1
  <2>3. left' = <<>>
    BY <1>2, <1>5, <2>1
  <2> QED BY <1>1, <1>5, <2>1, <2>2, <2>3 DEF OnceInv, Exists
<1>12. \A q \in Schedules \ {s} : Same(q)
  BY <1>1, <1>5 DEF Same, TypeOK
<1> QED BY <1>6, <1>7, <1>8, <1>9, <1>10, <1>11, <1>12, OneChanges DEF SchedInv

\* The row moves past the points started.
LEMMA AdvanceInv ==
  ASSUME IInv, NEW s \in Schedules, Advance(s)
  PROVE  IInv'
<1> DEFINE row == sched[s]  points == Occurrences(row)
<1> USE DEF Advance, history
<1>1. TypeOK /\ TickInv /\ SchedInv(s) /\ current = s /\ DueAt(s, now)
  BY DEF IInv, SchedInv, PlanInv
<1>2. row \in Row /\ now \in Nat /\ row.next \in Nat /\ row.next <= now
  BY <1>1, DueRow
<1>3. /\ points \in Seq(Nat)
      /\ row.kind = "interval" => NextRun(row) \in Nat
      /\ row.kind = "once" => NextRun(row) = NULL
  BY <1>2, PlanFacts
<1>4. NextRun(row) \in Nat \cup {NULL} /\ row.kind \in {"once", "interval"}
  BY <1>2, <1>3 DEF Row, Kinds
<1>5. points # <<>> => points[Len(points)] \in Nat
  BY <1>3
<1>6. /\ Advanced(row) \in Row
      /\ Advanced(row).maxc = row.maxc /\ Advanced(row).next = NextRun(row)
      /\ Advanced(row).kind = row.kind /\ Advanced(row).at = row.at
      /\ Advanced(row).policy = row.policy
  <2> DEFINE last == IF points = <<>> THEN row.last ELSE points[Len(points)]
             next == NextRun(row)
             enabled == row.kind # "once"
  <2>1. Advanced(row) = [row EXCEPT !.next = next, !.last = last, !.enabled = enabled]
    BY DEF Advanced
  <2>2. last \in Nat \cup {NULL}
    BY <1>2, <1>5 DEF Row
  <2>3. next \in Nat \cup {NULL}
    BY <1>4
  <2>4. enabled \in BOOLEAN
    OBVIOUS
  <2>5. row \in Row
    BY <1>2
  <2>6. next = NextRun(row)
    OBVIOUS
  <2> HIDE DEF last, next, enabled, row
  <2>7. LET new == [row EXCEPT !.next = next, !.last = last, !.enabled = enabled]
        IN  /\ new \in Row
            /\ new.maxc = row.maxc /\ new.next = next
            /\ new.kind = row.kind /\ new.at = row.at /\ new.policy = row.policy
    BY <2>2, <2>3, <2>4, <2>5 DEF Row
  <2> QED BY <2>1, <2>6, <2>7, Zenon
<1>7. /\ sched'[s] = Advanced(row) /\ runs' = runs /\ current' = NULL /\ left' = <<>>
      /\ \A q \in Schedules \ {s} : sched'[q] = sched[q]
  BY <1>1 DEF TypeOK
<1>8. TypeOK'
  <2>1. sched' \in [Schedules -> Row \cup {NULL}]
    <3>1. sched \in [Schedules -> Row \cup {NULL}] /\ sched' = [sched EXCEPT ![s] = Advanced(row)]
      BY <1>1 DEF TypeOK
    <3> QED BY <1>6, <3>1
  <2> QED BY <1>1, <1>7, <2>1 DEF TypeOK
<1>9. TickInv'
  <2>1. \A q \in todo : q \in Schedules \ {s} /\ DueAt(q, now)
    BY <1>1 DEF TickInv, TypeOK
  <2>2. \A q \in todo : DueAt(q, now)' /\ q # current'
    BY <1>7, <2>1, NullAssumption DEF DueAt, Exists
  <2> QED BY <1>1, <1>7, <2>2, NullAssumption DEF TickInv
<1>10. Unfinished(s)' = Unfinished(s) /\ current' # s /\ Exists(s)
  BY <1>1, <1>7, NullAssumption DEF Unfinished, DueAt
<1>11. RoomInv(s)'
  BY <1>1, <1>6, <1>7, <1>10 DEF SchedInv, RoomInv
<1>12. PlanInv(s)'
  BY <1>10 DEF PlanInv
<1>13. OrderInv(s)'
  BY <1>1, <1>3, <1>4, <1>6, <1>7, <1>10 DEF SchedInv, OrderInv
<1>14. OnceInv(s)'
  BY <1>1, <1>3, <1>6, <1>7, <1>10 DEF SchedInv, OnceInv
<1>15. \A q \in Schedules \ {s} : Same(q)
  BY <1>1, <1>7, NullAssumption DEF Same
<1> QED BY <1>8, <1>9, <1>11, <1>12, <1>13, <1>14, <1>15, OneChanges DEF SchedInv

\* Between ticks no schedule is being looked at.
LEMMA IdleFacts ==
  ASSUME IInv, ~ ticking
  PROVE  current = NULL /\ left = <<>> /\ todo = {} /\ \A s \in Schedules : current # s
BY NullAssumption DEF IInv, TickInv

\* A run that moves between ticks.
LEMMA SetRunInv ==
  ASSUME IInv, NEW s \in Schedules, NEW i \in DOMAIN runs[s], NEW status \in RunStatus,
         NEW live \in BOOLEAN, Idle, SetRun(s, i, status, live), runs[s][i].status # "DONE",
         UNCHANGED <<now, phase, boots, sched, tick, history>>
  PROVE  IInv'
<1> USE DEF Idle, tick, history
<1> DEFINE row == [point |-> runs[s][i].point, status |-> status, live |-> live]
<1>1. TypeOK /\ TickInv
  BY DEF IInv
<1>2. row \in RunRow
  BY <1>1, RunRows DEF RunRow
<1>3. /\ runs[s] \in Seq(RunRow)
      /\ runs' = [runs EXCEPT ![s] = [runs[s] EXCEPT ![i] = row]]
  BY <1>1 DEF TypeOK, SetRun
<1>4. [runs[s] EXCEPT ![i] = row] \in Seq(RunRow)
  BY <1>2, <1>3
<1>5. TypeOK'
  BY <1>1, <1>3, <1>4 DEF TypeOK
<1>6. TickInv'
  BY <1>1 DEF TickInv, DueAt, Exists
<1>7. /\ runs'[s] = [runs[s] EXCEPT ![i] = row]
      /\ \A q \in Schedules \ {s} : runs'[q] = runs[q]
  BY <1>1, <1>3 DEF TypeOK
<1>8. MovedOn(s)
  BY <1>7 DEF MovedOn
<1>9. SchedInv(s)'
  BY <1>5, <1>8, IdleFacts, MovedOnKeepsSchedInv
<1>10. \A q \in Schedules \ {s} : Same(q)
  BY <1>7 DEF Same
<1> QED BY <1>5, <1>6, <1>9, <1>10, OneChanges

\* Runs begin and end.
LEMMA RunMovesInv ==
  ASSUME IInv, NEW s \in Schedules, RunMoves(s)
  PROVE  IInv'
<1>1. ASSUME NEW i \in DOMAIN runs[s], RunBegins(s, i) PROVE IInv'
  BY <1>1, SetRunInv DEF RunBegins, RunStatus
<1>2. ASSUME NEW i \in DOMAIN runs[s], RunEnds(s, i) PROVE IInv'
  BY <1>2, SetRunInv DEF RunEnds, RunStatus
<1> QED BY <1>1, <1>2 DEF RunMoves

-----------------------------------------------------------------------------
(* Administrators and plugins. *)

\* A new schedule has no runs.
LEMMA CreateInv ==
  ASSUME IInv, NEW s \in Schedules, NEW kind \in Kinds, NEW policy \in Policies,
         NEW maxc \in Concurrency, NEW at \in 1..MaxTime, Create(s, kind, policy, maxc, at)
  PROVE  IInv'
<1> DEFINE row == [kind |-> kind, policy |-> policy, maxc |-> maxc, at |-> at,
                   enabled |-> TRUE, next |-> at, last |-> NULL]
<1> USE DEF Create, Idle, tick, history
<1>1. TypeOK /\ TickInv /\ current' # s /\ current # s
  BY IdleFacts DEF IInv
<1>2. row \in Row
  BY BoundAssumption DEF Row
<1>3. sched'[s] = row /\ \A q \in Schedules \ {s} : sched'[q] = sched[q]
  BY <1>1 DEF TypeOK
<1>4. TypeOK'
  BY <1>1, <1>2 DEF TypeOK
<1>5. TickInv'
  BY <1>1, IdleFacts DEF TickInv
<1>6. runs'[s] = <<>> /\ DOMAIN runs'[s] = {}
  BY <1>1 DEF TypeOK
<1>7. RoomInv(s)'
  <2>1. Unfinished(s)' = {}
    BY <1>6 DEF Unfinished
  <2>2. maxc \in Nat /\ Cardinality({}) = 0
    BY ConcurrencyAssumption, FS_EmptySet
  <2> QED BY <1>1, <1>3, <2>1, <2>2 DEF RoomInv
<1>8. PlanInv(s)' /\ OrderInv(s)' /\ OnceInv(s)'
  BY <1>1, <1>2, <1>3, <1>6, NullAssumption DEF PlanInv, OrderInv, OnceInv, Row
<1>9. \A q \in Schedules \ {s} : Same(q)
  BY <1>3 DEF Same
<1> QED BY <1>4, <1>5, <1>7, <1>8, <1>9, OneChanges DEF SchedInv

\* A disabled row keeps its next_run_at.
LEMMA DisableInv ==
  ASSUME IInv, NEW s \in Schedules, Disable(s)
  PROVE  IInv'
<1> USE DEF Disable, Idle, tick, history, Exists
<1>1. TypeOK /\ TickInv /\ current' # s /\ current # s /\ SchedInv(s) /\ sched[s] \in Row
  BY IdleFacts DEF IInv, TypeOK
<1>2. /\ sched'[s] = [sched[s] EXCEPT !.enabled = FALSE] /\ sched'[s] \in Row
      /\ \A q \in Schedules \ {s} : sched'[q] = sched[q]
  BY <1>1 DEF TypeOK, Row
<1>3. TypeOK'
  BY <1>1, <1>2 DEF TypeOK
<1>4. TickInv'
  BY <1>1, IdleFacts DEF TickInv
<1>5. /\ sched'[s].maxc = sched[s].maxc /\ sched'[s].next = sched[s].next
      /\ sched'[s].kind = sched[s].kind /\ sched'[s].at = sched[s].at
      /\ sched'[s].policy = sched[s].policy
  BY <1>1, <1>2 DEF Row
<1>6. RoomInv(s)'
  <2>1. Unfinished(s)' = Unfinished(s)
    BY DEF Unfinished
  <2> QED BY <1>1, <1>5, <2>1 DEF SchedInv, RoomInv
<1>7. PlanInv(s)' /\ OrderInv(s)' /\ OnceInv(s)'
  BY <1>1, <1>5 DEF SchedInv, PlanInv, OrderInv, OnceInv
<1>8. \A q \in Schedules \ {s} : Same(q)
  BY <1>2 DEF Same
<1> QED BY <1>3, <1>4, <1>6, <1>7, <1>8, OneChanges DEF SchedInv

\* A fired once schedule that gets its time back is rearmed.
LEMMA EnableInv ==
  ASSUME IInv, NEW s \in Schedules, Enable(s)
  PROVE  IInv'
<1> DEFINE next == IF sched[s].next = NULL THEN sched[s].at ELSE sched[s].next
<1> USE DEF Enable, Idle, tick, history, Exists
<1>1. TypeOK /\ TickInv /\ current' # s /\ current # s /\ SchedInv(s) /\ sched[s] \in Row
  BY IdleFacts DEF IInv, TypeOK
<1>2. /\ sched'[s] = [sched[s] EXCEPT !.enabled = TRUE, !.next = next] /\ sched'[s] \in Row
      /\ \A q \in Schedules \ {s} : sched'[q] = sched[q]
  BY <1>1 DEF TypeOK, Row
<1>3. TypeOK'
  BY <1>1, <1>2 DEF TypeOK
<1>4. TickInv'
  BY <1>1, IdleFacts DEF TickInv
<1>5. /\ sched'[s].maxc = sched[s].maxc /\ sched'[s].next = next /\ next # NULL
      /\ sched'[s].kind = sched[s].kind /\ sched'[s].at = sched[s].at
      /\ sched'[s].policy = sched[s].policy
  <2>1. next # NULL /\ next \in Nat \cup {NULL}
    BY <1>1, NullAssumption DEF Row
  <2>2. sched[s] \in Row /\ sched'[s] = [sched[s] EXCEPT !.enabled = TRUE, !.next = next]
    BY <1>1, <1>2
  <2> DEFINE row == sched[s]
  <2> HIDE DEF next, row
  <2>3. LET new == [row EXCEPT !.enabled = TRUE, !.next = next]
        IN  /\ new \in Row
            /\ new.maxc = row.maxc /\ new.next = next
            /\ new.kind = row.kind /\ new.at = row.at /\ new.policy = row.policy
    BY <2>1, <2>2 DEF row, Row
  <2> QED BY <2>1, <2>2, <2>3, Zenon DEF row
<1>6. RoomInv(s)'
  <2>1. Unfinished(s)' = Unfinished(s)
    BY DEF Unfinished
  <2> QED BY <1>1, <1>5, <2>1 DEF SchedInv, RoomInv
<1>7. PlanInv(s)' /\ OrderInv(s)' /\ OnceInv(s)'
  BY <1>1, <1>5 DEF SchedInv, PlanInv, OrderInv, OnceInv
<1>8. \A q \in Schedules \ {s} : Same(q)
  BY <1>2 DEF Same
<1> QED BY <1>3, <1>4, <1>6, <1>7, <1>8, OneChanges DEF SchedInv

\* Of a row that is gone only its runs are left.
LEMMA DeleteInv ==
  ASSUME IInv, NEW s \in Schedules, Delete(s)
  PROVE  IInv'
<1> USE DEF Delete, Idle, tick, history, Exists
<1>1. TypeOK /\ TickInv /\ current' # s /\ current # s
  BY IdleFacts DEF IInv
<1>2. sched'[s] = NULL /\ \A q \in Schedules \ {s} : sched'[q] = sched[q]
  BY <1>1 DEF TypeOK
<1>3. TypeOK'
  BY <1>1 DEF TypeOK
<1>4. TickInv'
  BY <1>1, IdleFacts DEF TickInv
<1>5. SchedInv(s)'
  <2>1. OrderInv(s)'
    BY <1>1, <1>2 DEF OrderInv, IInv, SchedInv
  <2> QED BY <1>1, <1>2, <2>1 DEF SchedInv, RoomInv, PlanInv, OnceInv
<1>6. \A q \in Schedules \ {s} : Same(q)
  BY <1>2 DEF Same
<1> QED BY <1>3, <1>4, <1>5, <1>6, OneChanges

-----------------------------------------------------------------------------
(* Stopping and starting. *)

\* Runs that move on all at once, with no tick under way before or after.
LEMMA AllMoveOn ==
  ASSUME IInv, TypeOK', TickInv', \A s \in Schedules : MovedOn(s) /\ current # s /\ current' # s
  PROVE  IInv'
BY MovedOnKeepsSchedInv DEF IInv

\* Stopping finishes runs and starts none.
LEMMA StopInv ==
  ASSUME IInv, Stop
  PROVE  IInv'
<1> USE DEF Stop, Idle, tick, history
<1>1. TypeOK /\ TickInv
  BY DEF IInv
<1>2. ASSUME NEW s \in Schedules
      PROVE  /\ runs'[s] = [i \in DOMAIN runs[s] |-> Stopped(runs[s][i])]
             /\ runs'[s] \in Seq(RunRow)
  <2>1. runs[s] \in Seq(RunRow) /\ Len(runs[s]) \in Nat /\ DOMAIN runs[s] = 1..Len(runs[s])
    BY <1>1 DEF TypeOK
  <2>2. ASSUME NEW i \in DOMAIN runs[s] PROVE Stopped(runs[s][i]) \in RunRow
    BY <1>1, RunRows DEF Stopped, RunRow, RunStatus
  <2> QED BY <2>1, <2>2
<1>3. runs' \in [Schedules -> Seq(RunRow)]
  BY <1>2
<1>4. TypeOK'
  BY <1>1, <1>3 DEF TypeOK
<1>5. TickInv'
  BY <1>1, IdleFacts DEF TickInv
<1>6. ASSUME NEW s \in Schedules PROVE MovedOn(s)
  BY <1>2 DEF MovedOn, Stopped
<1> QED BY <1>4, <1>5, <1>6, IdleFacts, AllMoveOn

\* Recovery adds no run and finishes none.
LEMMA RestartInv ==
  ASSUME IInv, Restart
  PROVE  IInv'
<1> USE DEF Restart, tick, history
<1>1. TypeOK /\ TickInv /\ ~ ticking /\ boots < MaxBoots
  BY DEF IInv, TickInv
<1>2. PICK quarantine \in [Schedules -> BOOLEAN] :
        runs' = [s \in Schedules |->
          [i \in DOMAIN runs[s] |-> Recovered(runs[s][i], quarantine[s])]]
  OBVIOUS
<1>3. ASSUME NEW s \in Schedules
      PROVE  /\ runs'[s] = [i \in DOMAIN runs[s] |-> Recovered(runs[s][i], quarantine[s])]
             /\ runs'[s] \in Seq(RunRow)
  <2>1. runs[s] \in Seq(RunRow) /\ Len(runs[s]) \in Nat /\ DOMAIN runs[s] = 1..Len(runs[s])
    BY <1>1 DEF TypeOK
  <2>2. ASSUME NEW i \in DOMAIN runs[s] PROVE Recovered(runs[s][i], quarantine[s]) \in RunRow
    BY <1>1, RunRows DEF Recovered, RunRow, RunStatus
  <2>3. runs'[s] = [i \in DOMAIN runs[s] |-> Recovered(runs[s][i], quarantine[s])]
    BY <1>2
  <2>4. [i \in 1..Len(runs[s]) |-> Recovered(runs[s][i], quarantine[s])] \in Seq(RunRow)
    BY <2>1, <2>2
  <2> QED BY <2>1, <2>3, <2>4
<1>4. runs' \in [Schedules -> Seq(RunRow)]
  BY <1>2, <1>3
<1>5. TypeOK'
  BY <1>1, <1>4, BoundAssumption DEF TypeOK
<1>6. TickInv'
  BY <1>1, IdleFacts DEF TickInv
<1>7. ASSUME NEW s \in Schedules PROVE MovedOn(s)
  BY <1>3 DEF MovedOn, Recovered
<1> QED BY <1>1, <1>5, <1>6, <1>7, IdleFacts, AllMoveOn

\* A crash may hit a tick: a schedule with a run that its row does not know
\* of is torn from then on.
LEMMA CrashInv ==
  ASSUME IInv, Crash
  PROVE  IInv'
<1> USE DEF Crash, history
<1> DEFINE Dead(s, i) ==
             [point |-> runs[s][i].point, status |-> runs[s][i].status, live |-> FALSE]
<1>1. TypeOK /\ TickInv
  BY DEF IInv
<1>2. ASSUME NEW s \in Schedules
      PROVE  /\ DOMAIN runs'[s] = DOMAIN runs[s]
             /\ \A i \in DOMAIN runs[s] : /\ runs'[s][i].point = runs[s][i].point
                                         /\ runs'[s][i].status = runs[s][i].status
             /\ runs'[s] \in Seq(RunRow)
  <2>1. Len(runs[s]) \in Nat /\ DOMAIN runs[s] = 1..Len(runs[s])
    BY <1>1 DEF TypeOK
  <2>2. ASSUME NEW i \in DOMAIN runs[s] PROVE Dead(s, i) \in RunRow
    BY <1>1, RunRows DEF RunRow
  <2>3. runs'[s] = [i \in DOMAIN runs[s] |-> Dead(s, i)]
    OBVIOUS
  <2>4. runs'[s] \in Seq(RunRow)
    <3> HIDE DEF Dead
    <3>1. [i \in 1..Len(runs[s]) |-> Dead(s, i)] \in Seq(RunRow)
      BY <2>1, <2>2
    <3> QED BY <2>1, <2>3, <3>1
  <2> QED BY <2>3, <2>4
<1>3. runs' \in [Schedules -> Seq(RunRow)]
  BY <1>2
<1>4. TypeOK'
  <2>1. left' \in Seq(Nat) /\ torn' \in SUBSET Schedules
    BY <1>1 DEF TypeOK
  <2> QED BY <1>1, <1>3, <2>1 DEF TypeOK
<1>5. TickInv'
  BY <1>1 DEF TickInv, TypeOK
<1>6. ASSUME NEW s \in Schedules PROVE SchedInv(s)'
  <2>1. MovedOn(s) /\ current' # s
    BY <1>2, NullAssumption DEF MovedOn
  <2>2. CASE current # s
    BY <1>4, <2>1, <2>2, MovedOnKeepsSchedInv
  <2>3. CASE current = s
    <3>1. SchedInv(s) /\ DueAt(s, now)
      BY <2>3 DEF IInv, SchedInv, PlanInv
    <3>2. sched[s].next \in Nat /\ sched[s].next # NULL /\ sched'[s] = sched[s]
      BY <1>1, <3>1, DueRow DEF DueAt
    <3>3. RoomInv(s)'
      <4>1. Unfinished(s)' = Unfinished(s)
        BY <1>2 DEF Unfinished
      <4> QED BY <3>1, <4>1 DEF SchedInv, RoomInv, Exists
    <3>4. PlanInv(s)'
      BY <2>1 DEF PlanInv
    <3>5. OrderInv(s)'
      <4> SUFFICES ASSUME s \notin torn' \cup rearmed' PROVE OrderInv(s)'
        BY DEF OrderInv
      <4>1. s \notin torn \cup rearmed /\ ~ Cut(s)
        OBVIOUS
      <4>2. \A i \in DOMAIN runs[s] : runs[s][i].point < sched[s].next
        BY <1>1, <2>3, <3>2, <4>1, RunRows DEF Cut
      <4>3. \A i, j \in DOMAIN runs[s] : i < j => runs[s][i].point < runs[s][j].point
        BY <3>1, <4>1 DEF SchedInv, OrderInv
      <4> QED BY <1>2, <2>1, <3>2, <4>2, <4>3 DEF OrderInv
    <3>6. OnceInv(s)'
      BY <2>1, <3>1, <3>2 DEF SchedInv, OnceInv, Exists
    <3> QED BY <3>3, <3>4, <3>5, <3>6 DEF SchedInv
  <2> QED BY <2>2, <2>3
<1> QED BY <1>4, <1>5, <1>6 DEF IInv

-----------------------------------------------------------------------------
(* The invariant, and what follows from it. *)

\* At the start there are no schedules.
LEMMA InitInv == Init => IInv
<1> SUFFICES ASSUME Init PROVE IInv
  OBVIOUS
<1> USE DEF Init
<1>1. TypeOK
  <2>1. left \in Seq(Nat) /\ runs \in [Schedules -> Seq(RunRow)]
    OBVIOUS
  <2>2. sched \in [Schedules -> Row \cup {NULL}]
    OBVIOUS
  <2>3. now \in 0..MaxTime /\ boots \in 0..MaxBoots
    BY BoundAssumption
  <2>4. todo \in SUBSET Schedules /\ torn \in SUBSET Schedules /\ rearmed \in SUBSET Schedules
    OBVIOUS
  <2>5. phase \in {"down", "boot", "up"} /\ ticking \in BOOLEAN /\ current \in Schedules \cup {NULL}
    OBVIOUS
  <2> QED BY <2>1, <2>2, <2>3, <2>4, <2>5 DEF TypeOK
<1>2. TickInv
  BY DEF TickInv
<1>3. ASSUME NEW s \in Schedules PROVE SchedInv(s)
  <2>1. ~ Exists(s) /\ current # s /\ DOMAIN runs[s] = {}
    BY NullAssumption DEF Exists
  <2> QED BY <2>1 DEF SchedInv, RoomInv, PlanInv, OrderInv, OnceInv
<1> QED BY <1>1, <1>2, <1>3 DEF IInv

\* Every step keeps the invariant, one lemma per action.
LEMMA NextInv == IInv /\ [Next]_vars => IInv'
<1> SUFFICES ASSUME IInv, [Next]_vars PROVE IInv'
  OBVIOUS
<1>1. CASE Serve
  BY <1>1, BeginTickInv, EndTickInv, PassOverInv, PlanInvariant, StartOccurrenceInv, AdvanceInv
  DEF Serve
<1>2. ASSUME NEW s \in Schedules, RunMoves(s) PROVE IInv'
  BY <1>2, RunMovesInv
<1>3. ASSUME NEW s \in Schedules, Manage(s) PROVE IInv'
  BY <1>3, CreateInv, DisableInv, EnableInv, DeleteInv DEF Manage
<1>4. CASE ClockTicks \/ Stop \/ Crash \/ Restart
  BY <1>4, ClockTicksInv, StopInv, CrashInv, RestartInv
<1>5. CASE UNCHANGED vars
  <2> USE <1>5 DEF vars, tick, history
  <2>1. TypeOK' /\ TickInv'
    BY DEF IInv, TypeOK, TickInv, DueAt, Exists
  <2>2. \A s \in Schedules : Same(s)
    BY DEF Same
  <2> QED BY <2>1, <2>2, AllSame
<1> QED BY <1>1, <1>2, <1>3, <1>4, <1>5 DEF Next

\* The invariant holds in every reachable state.
LEMMA Invariance == Spec => []IInv
BY InitInv, NextInv, PTL DEF Spec

\* Tables, clock and the tick's local variables keep their types.
THEOREM SchedulerTypeCorrect == Spec => []TypeOK
<1>1. IInv => TypeOK
  BY DEF IInv
<1> QED BY <1>1, Invariance, PTL

\* tick never starts a run for a schedule that has max_concurrency unfinished
\* ones, and no restart, re-enabling or management call brings it above that.
THEOREM ConcurrencyIsLimited == Spec => []AtMostMaxConcurrency
<1>1. IInv => AtMostMaxConcurrency
  BY DEF IInv, SchedInv, RoomInv, AtMostMaxConcurrency
<1> QED BY <1>1, Invariance, PTL

\* The runs of a schedule are for later and later points, whatever crashes and
\* restarts there are, except where a crash cut a tick in two or a fired once
\* schedule was enabled again.
THEOREM PointsAreNotRepeated == Spec => []NoPointTwice
<1>1. IInv => NoPointTwice
  BY DEF IInv, SchedInv, OrderInv, NoPointTwice
<1> QED BY <1>1, Invariance, PTL

\* A once schedule whose next_run_at was cleared by a tick has its run, even if
\* the process died between the commits of that tick.
THEOREM OnceIsKept == Spec => []OnceIsNeverLost
<1>1. IInv => OnceIsNeverLost
  BY DEF IInv, SchedInv, OnceInv, OnceIsNeverLost
<1> QED BY <1>1, Invariance, PTL
-----------------------------------------------------------------------------
(* What a tick leaves out. *)

\* Some run of s is for point p.
Started(s, p) == \E i \in DOMAIN runs[s] : runs[s][i].point = p

\* A point of the plan has its run or is still to come, unless the schedule
\* has all the runs it may have.
CoverInv(s) ==
  current = s /\ ~ FastForwards(sched[s]) =>
    \/ Full(s)
    \/ \A k \in 1..PointsTaken(sched[s]) :
         \/ Started(s, Point(sched[s], k))
         \/ \E j \in DOMAIN left : left[j] = Point(sched[s], k)

\* A schedule the recovering tick fast-forwards is due only until its turn
\* comes or because its turn was passed over.
BootInv(s) ==
  phase = "boot" /\ ticking /\ DueAt(s, now) /\ sched[s].policy # "catch_up" =>
    s \in todo \/ current = s \/ Full(s)

JInv == IInv /\ \A s \in Schedules : CoverInv(s) /\ BootInv(s)

\* The new next_run_at: the first point the row has not passed, or one that
\* lies in the future.
LEMMA AdvanceFacts ==
  ASSUME NEW row \in Row, now \in Nat, row.next \in Nat, row.next <= now
  PROVE  /\ PointsTaken(row) \in Nat \ {0}
         /\ row.kind = "interval" /\ ~ FastForwards(row) =>
              NextRun(row) = row.next + PointsTaken(row) * Period
         /\ row.kind = "interval" /\ FastForwards(row) => NextRun(row) > now
         /\ row.kind = "once" => PointsTaken(row) = 1 /\ Point(row, 1) = row.next
<1>1. DuePoints(row) \in Nat \ {0}
  BY PeriodsIn DEF DuePoints
<1>2. PointsTaken(row) \in Nat \ {0}
  BY <1>1, PeriodAssumption DEF PointsTaken
<1>3. ASSUME row.kind = "interval", ~ FastForwards(row)
      PROVE  NextRun(row) = row.next + PointsTaken(row) * Period
  BY <1>2, <1>3 DEF NextRun, Point
<1>4. ASSUME row.kind = "interval", FastForwards(row)
      PROVE  NextRun(row) > now
  <2>1. PICK a \in Nat : a = now - row.next
    OBVIOUS
  <2>2. a < (a \div Period) * Period + Period /\ (a \div Period) * Period \in Nat
    BY PeriodAssumption, PeriodsIn, Periods
  <2>3. DuePoints(row) = a \div Period + 1 /\ a \div Period \in Nat
    BY <2>1, PeriodsIn DEF DuePoints
  <2>4. LatestPoint(row) = row.next + (a \div Period) * Period
    BY <1>4, <2>3 DEF LatestPoint, Point
  <2>5. NextRun(row) = row.next + (a \div Period) * Period + Period
    BY <1>4, <2>4 DEF NextRun
  <2> QED BY <2>1, <2>2, <2>5, PeriodAssumption
<1>5. row.kind = "once" => PointsTaken(row) = 1 /\ Point(row, 1) = row.next
  BY PeriodAssumption DEF PointsTaken, Point
<1> QED BY <1>2, <1>3, <1>4, <1>5

\* Whoever is not touched stays covered.
LEMMA UntouchedJ ==
  ASSUME NEW s \in Schedules, CoverInv(s), BootInv(s),
         sched'[s] = sched[s], runs'[s] = runs[s], now' = now, phase' = phase,
         ticking' = ticking, current' = s => current = s /\ left' = left,
         current = s => current' = s, s \in todo => s \in todo'
  PROVE  CoverInv(s)' /\ BootInv(s)'
<1>1. Full(s)' = Full(s)
  BY DEF Full, Unfinished
<1>2. CoverInv(s)'
  <2> SUFFICES ASSUME current' = s, ~ FastForwards(sched[s]) PROVE CoverInv(s)'
    BY DEF CoverInv, FastForwards
  <2>1. /\ PointsTaken(sched[s])' = PointsTaken(sched[s])
        /\ \A k : Point(sched[s], k)' = Point(sched[s], k) /\ Started(s, k)' = Started(s, k)
    BY DEF PointsTaken, DuePoints, Point, Started
  <2> QED BY <1>1, <2>1 DEF CoverInv
<1>3. BootInv(s)'
  BY <1>1 DEF BootInv, DueAt, Exists
<1> QED BY <1>2, <1>3

\* The plan of a tick that does not fast-forward has all the points it takes.
LEMMA PlanJ ==
  ASSUME JInv, NEW s \in Schedules, Plan(s)
  PROVE  JInv'
<1> USE DEF Plan, ComesTo, history
<1>1. IInv' /\ current = NULL /\ current # s
  BY PlanInvariant, NullAssumption DEF JInv
<1>2. ASSUME NEW q \in Schedules \ {s} PROVE CoverInv(q)' /\ BootInv(q)'
  BY <1>1, UntouchedJ, NullAssumption DEF JInv
<1>3. CoverInv(s)'
  <2> SUFFICES ASSUME ~ FastForwards(sched[s]) PROVE CoverInv(s)'
    BY DEF CoverInv, FastForwards
  <2>1. left' = [k \in 1..PointsTaken(sched[s]) |-> Point(sched[s], k)]
    BY DEF Occurrences
  <2>2. /\ PointsTaken(sched[s])' = PointsTaken(sched[s])
        /\ \A k : Point(sched[s], k)' = Point(sched[s], k)
    BY DEF PointsTaken, DuePoints, Point
  <2> QED BY <2>1, <2>2 DEF CoverInv
<1>4. BootInv(s)'
  BY DEF BootInv
<1> QED BY <1>1, <1>2, <1>3, <1>4 DEF JInv

\* A schedule is passed over because it is full.
LEMMA PassOverJ ==
  ASSUME JInv, NEW s \in Schedules, PassOver(s)
  PROVE  JInv'
<1> USE DEF PassOver, ComesTo, history
<1>1. IInv' /\ current = NULL /\ current' = NULL
  BY PassOverInv DEF JInv
<1>2. ASSUME NEW q \in Schedules \ {s} PROVE CoverInv(q)' /\ BootInv(q)'
  BY <1>1, UntouchedJ, NullAssumption DEF JInv
<1>3. CoverInv(s)'
  BY <1>1, NullAssumption DEF CoverInv
<1>4. BootInv(s)'
  BY DEF BootInv, Full, Unfinished
<1> QED BY <1>1, <1>2, <1>3, <1>4 DEF JInv

\* A point that leaves the plan has its run, or the run that took its place
\* was the last one there was room for.
LEMMA StartOccurrenceJ ==
  ASSUME JInv, NEW s \in Schedules, StartOccurrence(s)
  PROVE  JInv'
<1> DEFINE new == [point |-> Head(left), status |-> "SCHEDULED", live |-> TRUE]
           n == Len(runs[s])
<1> USE DEF StartOccurrence, history
<1>1. IInv' /\ current = s /\ current' = s /\ TypeOK /\ left # <<>>
  BY StartOccurrenceInv DEF JInv, IInv
<1>2. ASSUME NEW q \in Schedules \ {s} PROVE CoverInv(q)' /\ BootInv(q)'
  <2>1. runs'[q] = runs[q]
    BY <1>1 DEF TypeOK
  <2> QED BY <1>1, <2>1, UntouchedJ DEF JInv
<1>3. /\ left \in Seq(Nat) /\ Head(left) = left[1] /\ DOMAIN left = 1..Len(left)
      /\ DOMAIN Tail(left) = 1..(Len(left) - 1) /\ Len(left) \in Nat
      /\ \A j \in DOMAIN Tail(left) : Tail(left)[j] = left[j + 1]
  BY <1>1 DEF TypeOK
<1>4. runs[s] \in Seq(RunRow) /\ runs'[s] = Append(runs[s], new)
  BY <1>1 DEF TypeOK
<1>5. /\ DOMAIN runs'[s] = DOMAIN runs[s] \cup {n + 1} /\ n + 1 \notin DOMAIN runs[s]
      /\ \A i \in DOMAIN runs[s] : runs'[s][i] = runs[s][i]
      /\ runs'[s][n + 1] = new
  BY <1>4
<1>6. Cardinality(Unfinished(s)') = Cardinality(Unfinished(s)) + 1
  <2>1. Unfinished(s)' = Unfinished(s) \cup {n + 1} /\ n + 1 \notin Unfinished(s)
    BY <1>5 DEF Unfinished
  <2> QED BY <1>1, <2>1, UnfinishedFinite, FS_AddElement
<1>7. CoverInv(s)'
  <2> SUFFICES ASSUME ~ FastForwards(sched[s]) PROVE CoverInv(s)'
    BY DEF CoverInv, FastForwards
  <2>1. CASE FillsUp(s)
    BY <1>6, <2>1 DEF CoverInv, Full, FillsUp
  <2>2. CASE ~ FillsUp(s)
    <3>1. ~ Full(s)
      <4>1. Cardinality(Unfinished(s)) \in Nat /\ DueAt(s, now)
        BY <1>1, UnfinishedFinite DEF JInv, IInv, SchedInv, PlanInv
      <4>2. sched[s].maxc \in Nat
        BY <1>1, <4>1, DueRow, ConcurrencyAssumption DEF Row
      <4> QED BY <2>2, <4>1, <4>2 DEF Full, FillsUp
    <3>2. left' = Tail(left)
      BY <2>2
    <3>3. /\ PointsTaken(sched[s])' = PointsTaken(sched[s])
          /\ \A k : Point(sched[s], k)' = Point(sched[s], k)
      BY DEF PointsTaken, DuePoints, Point
    <3>4. ASSUME NEW k \in 1..PointsTaken(sched[s])
          PROVE  \/ Started(s, Point(sched[s], k))'
                 \/ \E j \in DOMAIN Tail(left) : Tail(left)[j] = Point(sched[s], k)
      <4>1. CASE Started(s, Point(sched[s], k))
        BY <1>5, <3>3, <4>1 DEF Started
      <4>2. ASSUME NEW j \in DOMAIN left, left[j] = Point(sched[s], k)
            PROVE  \/ Started(s, Point(sched[s], k))'
                   \/ \E i \in DOMAIN Tail(left) : Tail(left)[i] = Point(sched[s], k)
        <5>1. CASE j = 1
          <6>1. new.point = Point(sched[s], k)
            BY <1>3, <4>2, <5>1
          <6> HIDE DEF new
          <6> QED BY <1>5, <3>3, <6>1 DEF Started
        <5>2. CASE j # 1
          <6>1. j - 1 \in DOMAIN Tail(left) /\ Tail(left)[j - 1] = left[j]
            BY <1>3, <5>2
          <6> QED BY <4>2, <6>1
        <5> QED BY <5>1, <5>2
      <4>3. Started(s, Point(sched[s], k)) \/ \E j \in DOMAIN left : left[j] = Point(sched[s], k)
        BY <1>1, <3>1 DEF JInv, CoverInv
      <4> QED BY <4>1, <4>2, <4>3
    <3> QED BY <3>2, <3>3, <3>4 DEF CoverInv
  <2> QED BY <2>1, <2>2
<1>8. BootInv(s)'
  BY <1>1 DEF BootInv
<1> QED BY <1>1, <1>2, <1>7, <1>8 DEF JInv

\* A row that was fast-forwarded is not due.
LEMMA AdvanceJ ==
  ASSUME JInv, NEW s \in Schedules, Advance(s)
  PROVE  JInv'
<1> DEFINE row == sched[s]
<1> USE DEF Advance, history
<1>1. IInv' /\ current = s /\ current' = NULL /\ current' # s /\ TypeOK /\ DueAt(s, now)
  BY AdvanceInv, NullAssumption DEF JInv, IInv, SchedInv, PlanInv
<1>2. ASSUME NEW q \in Schedules \ {s} PROVE CoverInv(q)' /\ BootInv(q)'
  <2>1. sched'[q] = sched[q]
    BY <1>1 DEF TypeOK
  <2> QED BY <1>1, <2>1, UntouchedJ, NullAssumption DEF JInv
<1>3. CoverInv(s)'
  BY <1>1 DEF CoverInv
<1>4. BootInv(s)'
  <2> SUFFICES ASSUME phase = "boot", sched'[s].policy # "catch_up", DueAt(s, now)' PROVE FALSE
    BY DEF BootInv
  <2>1. row \in Row /\ now \in Nat /\ row.next \in Nat /\ row.next <= now
    BY <1>1, DueRow
  <2>2. row.kind \in Kinds /\ row.policy \in Policies
    BY <2>1 DEF Row
  <2>3. /\ sched'[s].next = NextRun(row) /\ sched'[s].policy = row.policy
        /\ sched'[s].enabled = (row.kind # "once")
    BY <1>1, <2>1 DEF TypeOK, Advanced, Row
  <2>4. FastForwards(row)
    BY <2>2, <2>3 DEF FastForwards, Policies
  <2>5. row.kind = "interval" => NextRun(row) > now
    BY <2>1, <2>4, AdvanceFacts
  <2>6. row.kind = "interval" => NextRun(row) \in Nat
    BY <2>1, PlanFacts
  <2>7. sched'[s].enabled /\ sched'[s].next <= now /\ now' = now
    BY DEF DueAt
  <2>8. row.kind = "interval"
    BY <2>2, <2>3, <2>7 DEF Kinds
  <2> QED BY <2>1, <2>3, <2>5, <2>6, <2>7, <2>8
<1> QED BY <1>1, <1>2, <1>3, <1>4 DEF JInv

\* A tick begins with all that is due.
LEMMA BeginTickJ ==
  ASSUME JInv, BeginTick
  PROVE  JInv'
<1>1. IInv' /\ current' = NULL
  BY BeginTickInv DEF JInv, IInv, TickInv, BeginTick
<1>2. ASSUME NEW s \in Schedules PROVE CoverInv(s)' /\ BootInv(s)'
  BY <1>1, NullAssumption DEF CoverInv, BootInv, BeginTick, Due, DueAt, Exists
<1> QED BY <1>1, <1>2 DEF JInv

\* Outside a tick there is nothing to cover.
LEMMA QuietJ ==
  ASSUME IInv', ~ ticking'
  PROVE  JInv'
<1>1. ASSUME NEW s \in Schedules PROVE CoverInv(s)' /\ BootInv(s)'
  BY <1>1, NullAssumption DEF CoverInv, BootInv, IInv, TickInv
<1> QED BY <1>1 DEF JInv

LEMMA JInvariance == Spec => []JInv
<1>1. ASSUME Init PROVE JInv
  <2>1. ASSUME NEW s \in Schedules PROVE CoverInv(s) /\ BootInv(s)
    BY <1>1, NullAssumption DEF Init, CoverInv, BootInv
  <2> QED BY <1>1, <2>1, InitInv DEF JInv
<1>2. ASSUME JInv, [Next]_vars PROVE JInv'
  <2>1. IInv'
    BY <1>2, NextInv DEF JInv
  <2>2. CASE BeginTick
    BY <1>2, <2>2, BeginTickJ
  <2>3. CASE EndTick \/ Stop \/ Crash \/ ClockTicks
    BY <1>2, <2>1, <2>3, QuietJ DEF EndTick, Stop, Idle, tick, Crash, ClockTicks
  <2>4. CASE Restart
    BY <1>2, <2>1, <2>4, QuietJ DEF Restart, tick, JInv, IInv, TickInv
  <2>5. ASSUME NEW s \in Schedules, PassOver(s) \/ Plan(s) \/ StartOccurrence(s) \/ Advance(s)
        PROVE  JInv'
    BY <1>2, <2>5, PassOverJ, PlanJ, StartOccurrenceJ, AdvanceJ
  <2>6. ASSUME NEW s \in Schedules, RunMoves(s) \/ Manage(s) PROVE JInv'
    <3>1. ~ ticking'
      BY <2>6
      DEF RunMoves, RunBegins, RunEnds, Manage, Create, Disable, Enable, Delete, Idle, tick
    <3> QED BY <2>1, <3>1, QuietJ
  <2>7. CASE UNCHANGED vars
    <3>1. ASSUME NEW s \in Schedules PROVE CoverInv(s)' /\ BootInv(s)'
      BY <1>2, <2>7, UntouchedJ DEF vars, tick, JInv
    <3> QED BY <2>1, <3>1 DEF JInv
  <2> QED BY <1>2, <2>2, <2>3, <2>4, <2>5, <2>6, <2>7 DEF Next, Serve
<1> QED BY <1>1, <1>2, PTL DEF Spec

\* SchedulerService.tick: when a row advances, each point it passes has its
\* run, or the schedule has all the unfinished runs it may have.
THEOREM PointsAreDroppedOnlyWhenFull == Spec => DropsOnlyWhenFull
<1> DEFINE Step(s) ==
             current = s /\ current' = NULL /\ phase' = phase /\ ~ FastForwards(sched[s])
               => Dropped(s) = {} \/ Full(s)
<1>1. ASSUME JInv, [Next]_vars,
             NEW s \in Schedules, current = s, current' = NULL, phase' = phase,
             ~ FastForwards(sched[s]), ~ Full(s)
      PROVE  Dropped(s) = {}
  <2> DEFINE row == sched[s]  n == PointsTaken(row)
  <2>1. TypeOK /\ DueAt(s, now) /\ ticking /\ phase # "down" /\ current # NULL
    BY <1>1, NullAssumption DEF JInv, IInv, SchedInv, PlanInv, TickInv
  <2>2. Advance(s)
    BY <1>1, <2>1
    DEF Next, Serve, BeginTick, EndTick, PassOver, Plan, ComesTo, StartOccurrence, Advance,
        RunMoves, RunBegins, RunEnds, Manage, Create, Disable, Enable, Delete, Idle, ClockTicks,
        Stop, Crash, Restart, vars, tick
  <2>3. row \in Row /\ now \in Nat /\ row.next \in Nat /\ row.next <= now
    BY <2>1, DueRow
  <2>4. /\ n \in Nat \ {0}
        /\ row.kind = "interval" => NextRun(row) = row.next + n * Period
        /\ row.kind = "once" => n = 1 /\ Point(row, 1) = row.next
    BY <1>1, <2>3, AdvanceFacts
  <2>5. \A k \in 1..n : Started(s, Point(row, k))
    BY <1>1, <2>2 DEF JInv, CoverInv, Advance
  <2>6. sched'[s].next = NextRun(row)
    BY <2>1, <2>2, <2>3 DEF TypeOK, Advance, Advanced, Row
  <2>7. ASSUME NEW p \in Passed(s) PROVE Started(s, p)
    <3>1. CASE row.kind = "once"
      BY <2>4, <2>5, <2>7, <3>1 DEF Passed
    <3>2. CASE row.kind # "once"
      <4>1. row.kind = "interval"
        BY <2>3, <3>2 DEF Row, Kinds
      <4>2. n * Period \in Nat
        BY <2>4, Periods
      <4>3. p \in Int /\ row.next <= p /\ p < row.next + n * Period /\ (p - row.next) % Period = 0
        BY <2>3, <2>4, <2>6, <2>7, <3>2, <4>1, <4>2 DEF Passed
      <4>4. PICK a \in Nat : a = p - row.next
        BY <2>3, <4>3
      <4>5. PICK k \in Nat : k = a \div Period
        BY PeriodsIn
      <4>6. a = k * Period /\ k * Period < n * Period
        BY <2>3, <4>2, <4>3, <4>4, <4>5, PeriodAssumption
      <4>7. k < n
        <5>1. CASE n < k
          BY <2>4, <4>2, <4>6, <5>1, Periods, LaterPeriods
        <5>2. CASE n = k
          BY <4>2, <4>6, <5>2
        <5> QED BY <2>4, <5>1, <5>2
      <4>8. k + 1 \in 1..n /\ Point(row, k + 1) = p
        BY <2>3, <2>4, <4>3, <4>4, <4>6, <4>7, Periods DEF Point
      <4> QED BY <2>5, <4>8
    <3> QED BY <3>1, <3>2
  <2> QED BY <2>7 DEF Dropped, Started
<1>2. JInv /\ [Next]_vars => [\A s \in Schedules : Step(s)]_vars
  BY <1>1
<1> QED BY <1>2, JInvariance, PTL DEF Spec, DropsOnlyWhenFull

\* Bot.start and SchedulerService.tick: when the recovering tick is over, each
\* skip or run_once schedule that is still due has all the runs it may have.
THEOREM RecoveryGoesToTheFuture == Spec => RecoveryReachesTheFuture
<1> DEFINE Step ==
             phase = "boot" /\ phase' = "up" =>
               \A s \in Due : sched[s].policy = "catch_up" \/ Full(s)
<1>1. ASSUME JInv, [Next]_vars, phase = "boot", phase' = "up", NEW s \in Due,
             sched[s].policy # "catch_up"
      PROVE  Full(s)
  <2>1. EndTick
    BY <1>1
    DEF Next, Serve, BeginTick, EndTick, PassOver, Plan, ComesTo, StartOccurrence, Advance,
        RunMoves, RunBegins, RunEnds, Manage, Create, Disable, Enable, Delete, Idle, ClockTicks,
        Stop, Crash, Restart, vars, tick
  <2> QED BY <1>1, <2>1, NullAssumption DEF EndTick, JInv, BootInv, Due
<1>2. JInv /\ [Next]_vars => [Step]_vars
  BY <1>1
<1> QED BY <1>2, JInvariance, PTL DEF Spec, RecoveryReachesTheFuture
=============================================================================
