----------------------------- MODULE ActionQueue -----------------------------
(***************************************************************************)
(* How calls of the NapCat API are let through: every method of ApiClient  *)
(* is an ACTION message dispatched at once to the middleware pipeline,     *)
(* whose one middleware blocks, lets pass, drops duplicates and spaces the *)
(* rest in time; the terminal makes the call.                              *)
(*                                                                         *)
(* The callers are the coroutines of handlers, tools, plugins' tasks and   *)
(* history syncs.  Time is in ticks; instead of time stamps the model      *)
(* keeps ages, which stop counting where they no longer matter.            *)
(***************************************************************************)
EXTENDS Integers, SequencesExt, FiniteSetsExt

CONSTANTS
  Callers,
  Groups,
  Requests,   \* [list |-> ..., group |-> ..., text |-> ...]
  Interval,   \* 1 / global_rate
  Cooldown,   \* group_cooldown
  Delay,      \* per_action_delay
  Window,     \* spam_window
  NULL

ASSUME TimesAssumption == {Interval, Cooldown, Delay, Window} \subseteq Nat
ASSUME NullAssumption == NULL \notin Groups \cup Callers

\* The lists of the configuration an action may be on: bypass_actions,
\* block_actions, spam_actions or none.
Lists == {"bypass", "block", "spam", "plain"}
ASSUME RequestsAssumption ==
  \A r \in Requests : r.list \in Lists /\ r.group \in Groups \cup {NULL}

VARIABLES
  pc,          \* where the call of a caller is
  request,     \* what it asks for
  waiters,     \* callers waiting for the semaphore, first come first served
  holder,      \* who holds it
  timer,       \* what is left of the holder's sleep
  lastAction,  \* age of _last_action_time
  groupLast,   \* age of _group_last_time[g]
  spamLast,    \* age of _spam_last[key]
  called,      \* age of the last call made under the limits; observation only
  groupCalled  \* the same of a group's

limits == <<lastAction, groupLast>>
calls == <<called, groupCalled>>
vars == <<pc, request, waiters, holder, timer, limits, spamLast, calls>>

Old == Max({Interval, Cooldown})   \* an age that limits nothing any more
Ages == 0..Old
Sleeping == {"global", "group", "delay"}

TypeOK ==
  /\ pc \in [Callers -> {"idle", "queued", "calling"} \cup Sleeping]
  /\ request \in [Callers -> Requests \cup {NULL}]
  /\ waiters \in Seq(Callers) /\ IsInjective(waiters)
  /\ holder \in Callers \cup {NULL}
  /\ timer \in 0..Max({Interval, Cooldown, Delay})
  /\ lastAction \in Ages /\ groupLast \in [Groups -> Ages]
  /\ spamLast \in [Requests -> 0..Window]
  /\ called \in Ages /\ groupCalled \in [Groups -> Ages]
  /\ \A c \in Callers : pc[c] \in Sleeping => holder = c

Init ==
  /\ pc = [c \in Callers |-> "idle"] /\ request = [c \in Callers |-> NULL]
  /\ waiters = <<>> /\ holder = NULL /\ timer = 0
  /\ lastAction = Old /\ groupLast = [g \in Groups |-> Old]
  /\ spamLast = [r \in Requests |-> Window]
  /\ called = Old /\ groupCalled = [g \in Groups |-> Old]

-----------------------------------------------------------------------------
\* process(): up to the semaphore nothing awaits.

Go(c, step) == pc' = [pc EXCEPT ![c] = step]

\* The end of the pipeline: _raw_call().
Terminal(c) == Go(c, "calling")

\* An action on bypass_actions is called at once, whatever others wait for.
Bypass(c, r) ==
  /\ pc[c] = "idle" /\ r.list = "bypass"
  /\ Terminal(c) /\ request' = [request EXCEPT ![c] = r]
  /\ UNCHANGED <<waiters, holder, timer, limits, spamLast, calls>>

Duplicate(r) == r.list = "spam" /\ spamLast[r] < Window

\* What is blocked, or a duplicate in the window, is answered at once and
\* changes nothing; the rest is marked as seen, long before it is called, and
\* waits for its turn.
Accept(c, r) ==
  /\ pc[c] = "idle" /\ r.list \notin {"bypass", "block"} /\ ~Duplicate(r)
  /\ spamLast' = IF r.list = "spam" THEN [spamLast EXCEPT ![r] = 0] ELSE spamLast
  /\ Go(c, "queued") /\ request' = [request EXCEPT ![c] = r]
  /\ waiters' = Append(waiters, c)
  /\ UNCHANGED <<holder, timer, limits, calls>>

-----------------------------------------------------------------------------
\* _acquire_rate_limit()

Group(c) == request[c].group
Sleep(c, step, ticks) ==
  /\ Go(c, step) /\ holder' = c /\ timer' = ticks
  /\ UNCHANGED <<limits, calls>>

\* The limits are met: time stamps after all delays, release of the semaphore, and the call.
Admit(c) ==
  /\ Terminal(c) /\ timer' = 0
  /\ holder' = NULL
  /\ lastAction' = 0 /\ called' = 0
  /\ IF Group(c) = NULL THEN UNCHANGED <<groupLast, groupCalled>>
     ELSE /\ groupLast' = [groupLast EXCEPT ![Group(c)] = 0]
          /\ groupCalled' = [groupCalled EXCEPT ![Group(c)] = 0]

\* Mutant: who waited for all does not wait for the group.
GroupWaitEither(c) ==
  IF pc[c] = "global" \/ Group(c) = NULL THEN 0 ELSE Max({0, Cooldown - groupLast[Group(c)]})

\* What remains of the waits, by the clock of the moment.
GlobalWait == Max({0, Interval - lastAction})
GroupWait(c) ==
  IF Group(c) = NULL THEN 0 ELSE Max({0, Cooldown - groupLast[Group(c)]})

AfterGroup(c) == IF Delay > 0 THEN Sleep(c, "delay", Delay) ELSE Admit(c)

AfterGlobal(c) ==
  IF GroupWait(c) > 0 THEN Sleep(c, "group", GroupWait(c)) ELSE AfterGroup(c)

Acquire(c) ==
  /\ pc[c] = "queued" /\ holder = NULL /\ waiters # <<>> /\ Head(waiters) = c
  /\ waiters' = Tail(waiters)
  /\ IF GlobalWait > 0 THEN Sleep(c, "global", GlobalWait) ELSE AfterGlobal(c)
  /\ UNCHANGED <<request, spamLast>>

Wake(c) ==
  /\ holder = c /\ timer = 0
  /\ \/ pc[c] = "global" /\ AfterGlobal(c)
     \/ pc[c] = "group" /\ AfterGroup(c)
     \/ pc[c] = "delay" /\ Admit(c)
  /\ UNCHANGED <<request, waiters, spamLast>>

\* The call returns or raises, which the bus turns into {}.
Return(c) ==
  /\ pc[c] = "calling"
  /\ Go(c, "idle") /\ request' = [request EXCEPT ![c] = NULL]
  /\ UNCHANGED <<waiters, holder, timer, limits, spamLast, calls>>

\* Mutant: acquire() and release() without "async with".
NotReleased(c) == holder

\* A cancelled caller leaves the queue or releases the semaphore.
Released(c) == IF holder = c THEN NULL ELSE holder

\* The caller is cancelled (a tool's time limit, shutdown): no stamp is set,
\* but the mark against duplicates stays.
Cancel(c) ==
  /\ pc[c] # "idle"
  /\ Go(c, "idle") /\ request' = [request EXCEPT ![c] = NULL]
  /\ waiters' = Remove(waiters, c)
  /\ holder' = Released(c)
  /\ timer' = IF holder = c THEN 0 ELSE timer
  /\ UNCHANGED <<limits, spamLast, calls>>

Older(age, most) == Min({age + 1, most})

\* A tick passes; a sleeper may be woken late.
Tick ==
  /\ timer' = Max({0, timer - 1})
  /\ lastAction' = Older(lastAction, Old) /\ called' = Older(called, Old)
  /\ groupLast' = [g \in Groups |-> Older(groupLast[g], Old)]
  /\ groupCalled' = [g \in Groups |-> Older(groupCalled[g], Old)]
  /\ spamLast' = [r \in Requests |-> Older(spamLast[r], Window)]
  /\ UNCHANGED <<pc, request, waiters, holder>>

Next ==
  \/ Tick
  \/ \E c \in Callers :
       \/ Acquire(c) \/ Wake(c) \/ Return(c) \/ Cancel(c)
       \/ \E r \in Requests : Bypass(c, r) \/ Accept(c, r)

Spec == Init /\ [][Next]_vars

\* The event loop goes on: time passes, and who may go on does.  Nothing is
\* assumed of NapCat (Return) nor of new calls.
FairSpec == Spec /\ WF_vars(Tick) /\ \A c \in Callers : WF_vars(Acquire(c)) /\ WF_vars(Wake(c))

-----------------------------------------------------------------------------
\* Properties.

\* Between two calls made under the limits at least Interval passes, and
\* Cooldown between two of one group, whoever makes them, however long each
\* waited, whoever was cancelled in mid-wait.
Limited(c) == pc[c] # "idle" /\ pc[c] # "calling" /\ pc'[c] = "calling"
CallsAreSpaced ==
  [][\A c \in Callers : Limited(c) =>
       /\ called >= Interval
       /\ Group(c) # NULL => groupCalled[Group(c)] >= Cooldown]_vars

\* A call that waits is made or cancelled: no caller starves behind others, and
\* none that is cancelled takes the semaphore with it.
WaitersGetTheirTurn ==
  \A c \in Callers : pc[c] = "queued" ~> pc[c] \in {"calling", "idle"}

=============================================================================
