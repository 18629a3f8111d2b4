------------------------------ MODULE Scheduler ------------------------------
(***************************************************************************)
(* The persistent scheduler: the schedules table, SchedulerService.tick,   *)
(* and as much of the durable runtime (DurableRuntime.tla) as it sees:     *)
(* which runs of a schedule are not finished, and what a restart does to   *)
(* them.                                                                   *)
(*                                                                         *)
(* A tick never awaits, so no coroutine and no caller runs inside it; but  *)
(* each of its commits is separate and the process may die between them.   *)
(* Cron schedules are interval schedules here: the calendar is left out.   *)
(* Event schedules are never due, and no code calls trigger_event.         *)
(***************************************************************************)
EXTENDS Integers, Sequences, FiniteSets

CONSTANTS
  Schedules,    \* schedule ids
  Concurrency,  \* the values max_concurrency may take
  Period,       \* seconds of an interval
  MaxCatchUp,   \* max_catch_up, points started by one tick
  MaxTime,      \* bound: the clock
  MaxBoots,     \* bound: restarts of the process
  NULL          \* an absent row or column

ASSUME PeriodAssumption == Period \in Nat \ {0} /\ MaxCatchUp \in Nat \ {0}
ASSUME ConcurrencyAssumption == Concurrency \subseteq Nat \ {0}
ASSUME BoundAssumption == MaxTime \in Nat /\ MaxBoots \in Nat
ASSUME NullAssumption == NULL \notin Schedules /\ NULL \notin Nat /\ NULL \notin Seq(Nat)

Kinds == {"once", "interval"}
Policies == {"skip", "run_once", "catch_up"}
RunStatus == {"SCHEDULED", "CREATED", "RUNNING", "WAITING_APPROVAL", "DONE"}

VARIABLES
  now,
  phase,      \* "down", "boot" (up to the end of the recovering tick), "up"
  boots,
  sched,      \* sched[s]: row of the schedules table
  runs,       \* runs[s]: runs created for s, oldest first
  ticking,    \* is a tick under way?
  todo,       \* due schedules this tick has not come to yet
  current,    \* the schedule it is at
  left,       \* points of current it has yet to start
  torn,       \* history: schedules whose tick was cut by a crash
  rearmed     \* history: once schedules enabled again after they fired

tick == <<ticking, todo, current, left>>
history == <<torn, rearmed>>
vars == <<now, phase, boots, sched, runs, tick, history>>

\* next and last are next_run_at and last_run_at; at is the spec's start.
Row == [kind: Kinds, policy: Policies, maxc: Concurrency, at: Nat,
        enabled: BOOLEAN, next: Nat \cup {NULL}, last: Nat \cup {NULL}]

\* live: a coroutine has been submitted for the run and has not ended.
RunRow == [point: Nat, status: RunStatus, live: BOOLEAN]

TypeOK ==
  /\ now \in 0..MaxTime
  /\ phase \in {"down", "boot", "up"}
  /\ boots \in 0..MaxBoots
  /\ sched \in [Schedules -> Row \cup {NULL}]
  /\ runs \in [Schedules -> Seq(RunRow)]
  /\ ticking \in BOOLEAN
  /\ todo \in SUBSET Schedules
  /\ current \in Schedules \cup {NULL}
  /\ left \in Seq(Nat)
  /\ torn \in SUBSET Schedules
  /\ rearmed \in SUBSET Schedules

Init ==
  /\ now = 0
  /\ phase = "up"
  /\ boots = 0
  /\ sched = [s \in Schedules |-> NULL]
  /\ runs = [s \in Schedules |-> <<>>]
  /\ ticking = FALSE
  /\ todo = {}
  /\ current = NULL
  /\ left = <<>>
  /\ torn = {}
  /\ rearmed = {}

-----------------------------------------------------------------------------
(* When a schedule is due, and what a tick starts for it. *)

Exists(s) == sched[s] # NULL

DueAt(s, t) ==
  Exists(s) /\ sched[s].enabled /\ sched[s].next # NULL /\ sched[s].next <= t

Due == {s \in Schedules : DueAt(s, now)}

\* Faulty: finished runs count.
EveryRun(s) == DOMAIN runs[s]

Unfinished(s) == {i \in DOMAIN runs[s] : runs[s][i].status # "DONE"}

\* _active_count has reached max_concurrency.
Full(s) == Cardinality(Unfinished(s)) >= sched[s].maxc

\* Faulty: the run just created is not counted.
FillsUpLate(s) == Cardinality(Unfinished(s)) >= sched[s].maxc

\* The same after one run more.
FillsUp(s) == Cardinality(Unfinished(s)) + 1 >= sched[s].maxc

\* Points of an interval schedule that are due, next_run_at included.
DuePoints(row) == (now - row.next) \div Period + 1

PointsTaken(row) ==
  IF row.kind = "once" THEN 1
  ELSE IF DuePoints(row) < MaxCatchUp THEN DuePoints(row) ELSE MaxCatchUp

\* The k-th point from next_run_at on.
Point(row, k) == row.next + (k - 1) * Period

FastForwards(row) == phase = "boot" /\ row.policy \in {"skip", "run_once"}

LatestPoint(row) == IF row.kind = "once" THEN row.next ELSE Point(row, DuePoints(row))

\* Faulty: one point fewer is started than is passed.
OccurrencesButLast(row) == [k \in 1..(PointsTaken(row) - 1) |-> Point(row, k)]

\* Faulty: run_once recovers like skip.
OccurrencesSkipped(row) ==
  IF FastForwards(row) THEN <<>> ELSE [k \in 1..PointsTaken(row) |-> Point(row, k)]

Occurrences(row) ==
  IF FastForwards(row)
  THEN IF row.policy = "run_once" THEN <<LatestPoint(row)>> ELSE <<>>
  ELSE [k \in 1..PointsTaken(row) |-> Point(row, k)]

\* Faulty: the row is advanced to the last point, not past it.
NextRunInclusive(row) ==
  IF row.kind = "once" THEN NULL
  ELSE IF FastForwards(row) THEN LatestPoint(row)
  ELSE Point(row, PointsTaken(row))

\* Faulty: a sentinel in place of the absent next_run_at.
NextRunSentinel(row) ==
  IF row.kind = "once" THEN -1
  ELSE IF FastForwards(row) THEN LatestPoint(row) + Period
  ELSE Point(row, PointsTaken(row) + 1)

NextRun(row) ==
  IF row.kind = "once" THEN NULL
  ELSE IF FastForwards(row) THEN LatestPoint(row) + Period
  ELSE Point(row, PointsTaken(row) + 1)

Advanced(row) ==
  LET points == Occurrences(row)
  IN  [row EXCEPT !.next = NextRun(row),
                  !.last = IF points = <<>> THEN @ ELSE points[Len(points)],
                  !.enabled = row.kind # "once"]

-----------------------------------------------------------------------------
(* The tick. *)

\* From Bot.start (recovering), or from the loop when its sleep is over.
BeginTick ==
  /\ phase \in {"boot", "up"} /\ ~ ticking
  /\ phase = "up" => Due # {}
  /\ ticking' = TRUE
  /\ todo' = Due
  /\ UNCHANGED <<now, phase, boots, sched, runs, current, left, history>>

\* due() orders by next_run_at.
ComesTo(s) ==
  /\ ticking /\ current = NULL
  /\ s \in todo
  /\ \A q \in todo : sched[s].next <= sched[q].next
  /\ todo' = todo \ {s}

\* Too many runs of s are unfinished: the row stays as it is.
PassOver(s) ==
  /\ ComesTo(s)
  /\ Full(s)
  /\ UNCHANGED <<now, phase, boots, sched, runs, ticking, current, left, history>>

Plan(s) ==
  /\ ComesTo(s)
  /\ ~ Full(s)
  /\ current' = s
  /\ left' = Occurrences(sched[s])
  /\ UNCHANGED <<now, phase, boots, sched, runs, ticking, history>>

\* create_task_run and submit.  (A crash between the two commits of
\* create_task_run leaves a task without a run, which no query here sees.)
StartOccurrence(s) ==
  /\ current = s /\ left # <<>>
  /\ runs' = [runs EXCEPT ![s] =
       Append(@, [point |-> Head(left), status |-> "SCHEDULED", live |-> TRUE])]
  /\ left' = IF FillsUp(s) THEN <<>> ELSE Tail(left)
  /\ UNCHANGED <<now, phase, boots, sched, ticking, todo, current, history>>

Advance(s) ==
  /\ current = s /\ left = <<>>
  /\ sched' = [sched EXCEPT ![s] = Advanced(@)]
  /\ current' = NULL
  /\ UNCHANGED <<now, phase, boots, runs, ticking, todo, left, history>>

EndTick ==
  /\ ticking /\ current = NULL /\ todo = {}
  /\ ticking' = FALSE
  /\ phase' = "up"
  /\ UNCHANGED <<now, boots, sched, runs, todo, current, left, history>>

-----------------------------------------------------------------------------
(* What happens between ticks. *)

Idle == phase = "up" /\ ~ ticking

ClockTicks ==
  /\ ~ ticking /\ now < MaxTime
  /\ now' = now + 1
  /\ UNCHANGED <<phase, boots, sched, runs, tick, history>>

SetRun(s, i, status, live) ==
  LET row == [point |-> runs[s][i].point, status |-> status, live |-> live]
  IN  runs' = [runs EXCEPT ![s] = [runs[s] EXCEPT ![i] = row]]

RunBegins(s, i) ==
  /\ Idle
  /\ runs[s][i].live /\ runs[s][i].status \in {"SCHEDULED", "CREATED"}
  /\ SetRun(s, i, "RUNNING", TRUE)
  /\ UNCHANGED <<now, phase, boots, sched, tick, history>>

RunEnds(s, i) ==
  /\ Idle
  /\ runs[s][i].live /\ runs[s][i].status = "RUNNING"
  /\ SetRun(s, i, "DONE", FALSE)
  /\ UNCHANGED <<now, phase, boots, sched, tick, history>>

\* Administrators and plugins.

Create(s, kind, policy, maxc, at) ==
  /\ Idle
  /\ ~ Exists(s) /\ runs[s] = <<>>
  /\ sched' = [sched EXCEPT ![s] =
       [kind |-> kind, policy |-> policy, maxc |-> maxc, at |-> at,
        enabled |-> TRUE, next |-> at, last |-> NULL]]
  /\ UNCHANGED <<now, phase, boots, runs, tick, history>>

Disable(s) ==
  /\ Idle /\ Exists(s)
  /\ sched' = [sched EXCEPT ![s].enabled = FALSE]
  /\ UNCHANGED <<now, phase, boots, runs, tick, history>>

\* A once schedule that has fired gets its old time back.  (Bound: once.)
Enable(s) ==
  /\ Idle /\ Exists(s)
  /\ sched[s].next = NULL => s \notin rearmed
  /\ sched' = [sched EXCEPT ![s].enabled = TRUE,
                            ![s].next = IF sched[s].next = NULL THEN sched[s].at ELSE @]
  /\ rearmed' = IF sched[s].next = NULL THEN rearmed \cup {s} ELSE rearmed
  /\ UNCHANGED <<now, phase, boots, runs, tick, torn>>

Delete(s) ==
  /\ Idle /\ Exists(s)
  /\ sched' = [sched EXCEPT ![s] = NULL]
  /\ UNCHANGED <<now, phase, boots, runs, tick, history>>

-----------------------------------------------------------------------------
(* Stopping and starting. *)

\* scheduler.stop() and runtime.shutdown(): running coroutines are cancelled
\* and close their runs, submitted ones never start.
Stopped(r) ==
  IF r.live /\ r.status = "RUNNING"
  THEN [point |-> r.point, status |-> "DONE", live |-> FALSE]
  ELSE [point |-> r.point, status |-> r.status, live |-> FALSE]

Stop ==
  /\ Idle /\ boots < MaxBoots
  /\ phase' = "down"
  /\ runs' = [s \in Schedules |-> [i \in DOMAIN runs[s] |-> Stopped(runs[s][i])]]
  /\ UNCHANGED <<now, boots, sched, tick, history>>

\* A run of the current schedule was created and the row is not advanced.
Cut(s) == current = s /\ \E i \in DOMAIN runs[s] : runs[s][i].point >= sched[s].next

Crash ==
  /\ phase # "down" /\ boots < MaxBoots
  /\ phase' = "down"
  /\ runs' = [s \in Schedules |->
       [i \in DOMAIN runs[s] |->
          [point |-> runs[s][i].point, status |-> runs[s][i].status, live |-> FALSE]]]
  /\ ticking' = FALSE
  /\ todo' = {}
  /\ current' = NULL
  /\ left' = <<>>
  /\ torn' = torn \cup {s \in Schedules : Cut(s)}
  /\ UNCHANGED <<now, boots, sched, rearmed>>

\* recover() and Bot.start: an interrupted run is requeued and submitted or
\* quarantined, one left SCHEDULED is not submitted.
Recovered(r, quarantined) ==
  CASE r.status = "RUNNING" ->
         IF quarantined THEN [point |-> r.point, status |-> "WAITING_APPROVAL", live |-> FALSE]
         ELSE [point |-> r.point, status |-> "CREATED", live |-> TRUE]
    [] r.status = "CREATED" -> [point |-> r.point, status |-> "CREATED", live |-> TRUE]
    [] OTHER -> r

Restart ==
  /\ phase = "down"
  /\ phase' = "boot"
  /\ boots' = boots + 1
  /\ \E quarantine \in [Schedules -> BOOLEAN] :
       runs' = [s \in Schedules |->
         [i \in DOMAIN runs[s] |-> Recovered(runs[s][i], quarantine[s])]]
  /\ UNCHANGED <<now, sched, tick, history>>

-----------------------------------------------------------------------------
RunMoves(s) == \E i \in DOMAIN runs[s] : RunBegins(s, i) \/ RunEnds(s, i)

Manage(s) ==
  \/ \E kind \in Kinds, policy \in Policies, maxc \in Concurrency, at \in 1..MaxTime :
       Create(s, kind, policy, maxc, at)
  \/ Disable(s) \/ Enable(s) \/ Delete(s)

Serve ==
  \/ BeginTick \/ EndTick
  \/ \E s \in Schedules : PassOver(s) \/ Plan(s) \/ StartOccurrence(s) \/ Advance(s)

Next ==
  \/ Serve
  \/ \E s \in Schedules : RunMoves(s) \/ Manage(s)
  \/ ClockTicks \/ Stop \/ Crash \/ Restart

Spec == Init /\ [][Next]_vars

\* The loop ticks again after poll_interval and a tick does not wait for
\* anything; between ticks the event loop runs every coroutine that is ready
\* (DurableRuntime: an execution ends); a supervisor restarts the process.
Fairness ==
  /\ WF_vars(Serve) /\ WF_vars(Restart)
  /\ \A s \in Schedules : SF_vars(RunMoves(s))

FairSpec == Spec /\ Fairness
-----------------------------------------------------------------------------
(* Properties. *)

\* No schedule ever has more unfinished runs than its max_concurrency, runs
\* that a restart revived, parked or quarantined included.
AtMostMaxConcurrency ==
  \A s \in Schedules : Exists(s) => Cardinality(Unfinished(s)) <= sched[s].maxc

\* Runs are created for later and later points: no point is started twice,
\* unless a crash hit the tick between a run and the row's advance or
\* somebody re-enabled a once schedule that had fired.
NoPointTwice ==
  \A s \in Schedules \ (torn \cup rearmed) :
    \A i, j \in DOMAIN runs[s] : i < j => runs[s][i].point < runs[s][j].point

\* A once schedule that is not due any more has its run, whenever the process
\* died, unless recovery skipped it by its policy.
OnceIsNeverLost ==
  \A s \in Schedules :
    Exists(s) /\ sched[s].kind = "once" /\ sched[s].policy # "skip" /\ sched[s].next = NULL =>
      \E i \in DOMAIN runs[s] : runs[s][i].point = sched[s].at

\* The points an advance of s passes over.
Passed(s) ==
  IF sched[s].kind = "once" THEN {sched[s].next}
  ELSE {p \in sched[s].next..(sched'[s].next - 1) : (p - sched[s].next) % Period = 0}

\* Points that an advance passes and no run was created for.
Dropped(s) == {p \in Passed(s) : \A i \in DOMAIN runs[s] : runs[s][i].point # p}

\* A tick that does not fast-forward drops points only because the schedule
\* has as many unfinished runs as it may have.
DropsOnlyWhenFull ==
  [][\A s \in Schedules :
       current = s /\ current' = NULL /\ phase' = phase /\ ~ FastForwards(sched[s])
         => Dropped(s) = {} \/ Full(s)]_vars

\* A run nobody will move: quarantined, or left SCHEDULED by a restart.
Parked(s) ==
  {i \in DOMAIN runs[s] : phase = "up" /\ ~ runs[s][i].live /\ runs[s][i].status # "DONE"}

\* A due schedule is served: its row moves on (or it is disabled or deleted),
\* unless runs that wait for a human or were forgotten fill its places.
DueIsServed ==
  \A s \in Schedules, p \in 1..MaxTime :
    DueAt(s, now) /\ sched[s].next = p
      ~> ~ (DueAt(s, now) /\ sched[s].next = p) \/ Parked(s) # {}

\* PHASE6_IMPLEMENTATION.md, section 11: catch_up makes up for every missed
\* point, in order.
CatchUpStartsEveryPoint ==
  [][\A s \in Schedules :
       current = s /\ current' = NULL /\ phase' = phase /\ sched[s].policy = "catch_up"
         => Dropped(s) = {}]_vars

\* After the recovering tick no skip or run_once schedule is still due, unless
\* its unfinished runs kept the tick from looking at it.
RecoveryReachesTheFuture ==
  [][phase = "boot" /\ phase' = "up" =>
       \A s \in Due : sched[s].policy = "catch_up" \/ Full(s)]_vars

\* PHASE6_IMPLEMENTATION.md, section 11: on recovery skip passes over every
\* missed point and moves to the future at once.
RecoverySkipsMissedPoints ==
  [][phase = "boot" /\ phase' = "up" => \A s \in Due : sched[s].policy # "skip"]_vars
=============================================================================
