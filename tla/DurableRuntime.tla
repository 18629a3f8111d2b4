--------------------------- MODULE DurableRuntime ---------------------------
(***************************************************************************)
(* Durable task runs of the bot: the SQLite rows of tasks, task_runs,      *)
(* run_steps and tool_invocations, the coroutines that execute runs, and   *)
(* what RecoveryController does with the rows after a restart.             *)
(*                                                                         *)
(* Everything runs on one asyncio event loop, and every store call commits *)
(* on its own.  An action is therefore one commit, or one return from an   *)
(* await.  Between two commits of the same burst no other coroutine runs   *)
(* (Turn, LoopFree), but the process may die (Crash).                      *)
(***************************************************************************)
EXTENDS Integers, Sequences

CONSTANTS
  Runs,         \* run ids; a task has one run, so r also names its task
  Calls,        \* tool calls: a tool name with its arguments
  Writes,       \* the calls of tools whose risk_level is not read_only
  Tokens,       \* resume tokens
  ControlOps,   \* which of wait, resume, cancel the environment calls
  MaxCalls,     \* bound: tool calls per execution of a run (max_turns)
  MaxBoots,     \* bound: restarts of the process
  NULL          \* an absent row or column

ASSUME WritesAssumption == Writes \subseteq Calls
ASSUME ControlAssumption == ControlOps \subseteq {"wait", "resume", "cancel"}
ASSUME BoundAssumption == MaxCalls \in Nat /\ MaxBoots \in Nat

Terminal == {"SUCCEEDED", "FAILED", "CANCELLED"}
Waiting == {"WAITING_TOOL", "WAITING_ARTIFACT", "WAITING_APPROVAL", "WAITING_USER"}
\* Faulty: recovery also looks at cancelled runs.
ActiveAndCancelled == {"CREATED", "RUNNING", "SCHEDULED", "CANCELLED"} \cup Waiting
Active == {"CREATED", "RUNNING", "SCHEDULED"} \cup Waiting
Status == Terminal \cup Active
ASSUME NullAssumption == NULL \notin Status \cup Tokens \cup Calls

StepStatus == {"RUNNING"} \cup Terminal
\* "denied" stands for denied and invalid: ended before the tool was called.
InvocationStatus == {"validating", "running", "succeeded", "failed", "timed_out", "denied"}

\* Places where a coroutine waits for the event loop.
AwaitPoints == {"none", "submitted", "llm", "tool", "answered"}
\* Places between two commits of one burst.
Holding == {"creating", "starting", "begun", "opening", "dispatch",
            "validating", "rejecting", "toolOk", "toolErr", "closing"}

VARIABLES
  (* the database *)
  task,       \* task[r]: status of the task row
  run,        \* run[r]: status of the run row
  token,      \* token[r]: resume_token of the run row
  steps,      \* steps[r]: run_steps in order of position
  inv,        \* inv[r]: tool_invocations of the run, oldest first
  (* the process *)
  phase,      \* "up", "stopping", "down", "boot"
  boots,
  pending,    \* active runs that recover() has not looked at yet
  owed,       \* the task row that must follow the run row just written
  (* the coroutine executing each run *)
  pc,
  owner,      \* "service": agent_service; "runtime": execute_run
  root,       \* position of the step it opened for itself
  cur,        \* the tool call being made
  calls,      \* tool calls made by this execution
  outcome,    \* status the closing commits write
  cancelled,  \* runs whose coroutine has been asked to cancel
  (* history, not in the code *)
  lost,       \* lost[r]: writes in flight when their coroutine was killed
  answered    \* runs whose final reply was sent to QQ

rows == <<task, run, token, steps, inv>>
proc == <<phase, boots, pending>>
local == <<owner, root, cur, calls, outcome, cancelled>>
history == <<lost, answered>>
vars == <<rows, proc, owed, pc, local, history>>

StepRow == [kind: {"root", "tool"}, status: StepStatus]
InvocationRow == [call: Calls, status: InvocationStatus]
TaskDebt == [run: Runs, status: Status]

TypeOK ==
  /\ task \in [Runs -> Status \cup {NULL}]
  /\ run \in [Runs -> Status \cup {NULL}]
  /\ token \in [Runs -> Tokens \cup {NULL}]
  /\ steps \in [Runs -> Seq(StepRow)]
  /\ inv \in [Runs -> Seq(InvocationRow)]
  /\ phase \in {"up", "stopping", "down", "boot"}
  /\ boots \in 0..MaxBoots
  /\ pending \in SUBSET Runs
  /\ owed \in TaskDebt \cup {NULL}
  /\ pc \in [Runs -> AwaitPoints \cup Holding]
  /\ owner \in [Runs -> {"service", "runtime"}]
  /\ root \in [Runs -> Nat]
  /\ cur \in [Runs -> Calls \cup {NULL}]
  /\ calls \in [Runs -> 0..MaxCalls]
  /\ outcome \in [Runs -> Status]
  /\ cancelled \in SUBSET Runs
  /\ lost \in [Runs -> SUBSET Writes]
  /\ answered \in SUBSET Runs

Init ==
  /\ task = [r \in Runs |-> NULL]
  /\ run = [r \in Runs |-> NULL]
  /\ token = [r \in Runs |-> NULL]
  /\ steps = [r \in Runs |-> <<>>]
  /\ inv = [r \in Runs |-> <<>>]
  /\ phase = "up"
  /\ boots = 0
  /\ pending = {}
  /\ owed = NULL
  /\ pc = [r \in Runs |-> "none"]
  /\ owner = [r \in Runs |-> "runtime"]
  /\ root = [r \in Runs |-> 0]
  /\ cur = [r \in Runs |-> NULL]
  /\ calls = [r \in Runs |-> 0]
  /\ outcome = [r \in Runs |-> "CREATED"]
  /\ cancelled = {}
  /\ lost = [r \in Runs |-> {}]
  /\ answered = {}

-----------------------------------------------------------------------------
(* The event loop. *)

\* No coroutine is inside a burst of commits.
LoopFree == owed = NULL /\ \A q \in Runs : pc[q] \in AwaitPoints

\* The coroutine of r may run: it is the one inside a burst, or nobody is.
Turn(r) == owed = NULL /\ \A q \in Runs \ {r} : pc[q] \in AwaitPoints

Goto(r, place) == pc' = [pc EXCEPT ![r] = place]

(* The store's writes. *)

SetTask(r, s) == task' = [task EXCEPT ![r] = s]
SetRun(r, s) == run' = [run EXCEPT ![r] = s]
SetStep(r, i, s) ==
  LET row == [kind |-> steps[r][i].kind, status |-> s]
  IN  steps' = [steps EXCEPT ![r] = [steps[r] EXCEPT ![i] = row]]
AddStep(r, k) == steps' = [steps EXCEPT ![r] = Append(@, [kind |-> k, status |-> "RUNNING"])]
AddInvocation(r, c) ==
  inv' = [inv EXCEPT ![r] = Append(@, [call |-> c, status |-> "validating"])]
SetInvocation(r, s) ==
  LET n == Len(inv[r])
      row == [call |-> inv[r][n].call, status |-> s]
  IN  inv' = [inv EXCEPT ![r] = [inv[r] EXCEPT ![n] = row]]

IsRunning(r, i) == steps[r][i].status = "RUNNING"
HasRunningStep(r) == \E i \in DOMAIN steps[r] : IsRunning(r, i)
LastRunningStep(r) ==
  CHOOSE i \in DOMAIN steps[r] :
    IsRunning(r, i) /\ \A j \in DOMAIN steps[r] : IsRunning(r, j) => j <= i

Succeeded(r, c) ==
  \E i \in DOMAIN inv[r] : inv[r][i].call = c /\ inv[r][i].status = "succeeded"

-----------------------------------------------------------------------------
(* Faulty variants of definitions below: bugs the properties must catch.   *)
(* No action uses them.                                                    *)

\* One tool call more than max_turns allows.
CallsLeftAndOne(r) == calls[r] <= MaxCalls

\* The idempotency lookup only sees the newest invocation.
ReusesLatestResult(r) ==
  cur[r] \in Writes /\ inv[r] # <<>> /\ inv[r][Len(inv[r])] = [call |-> cur[r], status |-> "succeeded"]

\* The idempotency lookup is made for reads only.
ReusesReads(r) == cur[r] \notin Writes /\ Succeeded(r, cur[r])

\* An execution closes the oldest open step, which may be that of an earlier one.
CloseOldestStep(r, s) ==
  LET oldest == CHOOSE i \in DOMAIN steps[r] :
                  IsRunning(r, i) /\ \A j \in DOMAIN steps[r] : IsRunning(r, j) => i <= j
  IN  /\ SetStep(r, oldest, s)
      /\ root' = [root EXCEPT ![r] = 0]
      /\ outcome' = [outcome EXCEPT ![r] = s]
      /\ calls' = [calls EXCEPT ![r] = 0]
      /\ cur' = [cur EXCEPT ![r] = NULL]
      /\ Goto(r, "closing")

\* The task row is written before the run row.
CloseTaskBeforeRun(r) ==
  /\ pc[r] = "closing"
  /\ IF task[r] = outcome[r]
     THEN SetRun(r, outcome[r]) /\ Goto(r, "none") /\ UNCHANGED task
     ELSE SetTask(r, outcome[r]) /\ UNCHANGED <<run, pc>>
  /\ UNCHANGED <<token, steps, inv, proc, owed, local, history>>

\* Recovery forgets that a write may have had its effect.
RunningIsSafe(i) == i.status \in {"validating", "running"}

\* Recovery takes a failed call for an unknown outcome.
FailedIsUnknown(i) ==
  i.status \in {"timed_out", "failed"} \/ (i.status = "running" /\ i.call \in Writes)

\* Bot.start looks for the status that recover() has just replaced.
RunsLeftRunning == {r \in Runs : run[r] = "RUNNING"}

\* Bot.start submits whatever recover() returned.
EveryActiveRun == {r \in Runs : run[r] \in Active}

-----------------------------------------------------------------------------
(* Opening a run. *)

\* create_task_run, its first commit: a QQ message, a due schedule or an event.
CreateTask(r, origin) ==
  /\ phase = "up" /\ LoopFree
  /\ task[r] = NULL
  /\ SetTask(r, IF origin = "schedule" THEN "SCHEDULED" ELSE "CREATED")
  /\ owner' = [owner EXCEPT ![r] = IF origin = "message" THEN "service" ELSE "runtime"]
  /\ Goto(r, "creating")
  /\ UNCHANGED <<run, token, steps, inv, proc, owed, root, cur, calls, outcome, cancelled, history>>

\* Its second commit.  agent_service goes on at once, the others submit.
CreateRun(r) ==
  /\ pc[r] = "creating"
  /\ SetRun(r, task[r])
  /\ Goto(r, IF owner[r] = "service" THEN "starting" ELSE "submitted")
  /\ UNCHANGED <<task, token, steps, inv, proc, owed, local, history>>

StartTask(r) ==
  /\ pc[r] \in {"starting", "submitted"} /\ Turn(r)
  /\ SetTask(r, "RUNNING")
  /\ Goto(r, "begun")
  /\ UNCHANGED <<run, token, steps, inv, proc, owed, local, history>>

StartRun(r) ==
  /\ pc[r] = "begun"
  /\ SetRun(r, "RUNNING")
  /\ Goto(r, "opening")
  /\ UNCHANGED <<task, token, steps, inv, proc, owed, local, history>>

OpenStep(r) ==
  /\ pc[r] = "opening"
  /\ AddStep(r, "root")
  /\ root' = [root EXCEPT ![r] = Len(steps[r]) + 1]
  /\ calls' = [calls EXCEPT ![r] = 0]
  /\ Goto(r, "llm")
  /\ UNCHANGED <<task, run, token, inv, proc, owed, owner, cur, outcome, cancelled, history>>

\* execute_run without a handler for the template's kind.
NoHandler(r) ==
  /\ pc[r] = "submitted" /\ Turn(r)
  /\ SetRun(r, "FAILED")
  /\ owed' = [run |-> r, status |-> "FAILED"]
  /\ Goto(r, "none")
  /\ UNCHANGED <<task, token, steps, inv, proc, local, history>>

-----------------------------------------------------------------------------
(* The agent loop and the tool executor. *)

\* The coroutine of r is resumed at an await, and not by a cancellation.
Resumes(r, place) == pc[r] = place /\ Turn(r) /\ r \notin cancelled

CallsLeft(r) == calls[r] < MaxCalls

\* The model asks for call c: the loop opens a tool step for it.
RequestTool(r, c) ==
  /\ Resumes(r, "llm")
  /\ CallsLeft(r)
  /\ calls' = [calls EXCEPT ![r] = @ + 1]
  /\ cur' = [cur EXCEPT ![r] = c]
  /\ AddStep(r, "tool")
  /\ Goto(r, "dispatch")
  /\ UNCHANGED <<task, run, token, inv, proc, owed, owner, root, outcome, cancelled, history>>

\* A write that already succeeded in this run returns its stored result.
ReusesResult(r) == cur[r] \in Writes /\ Succeeded(r, cur[r])

ReuseResult(r) ==
  /\ pc[r] = "dispatch"
  /\ ReusesResult(r)
  /\ \E place \in {"toolOk", "toolErr"} : Goto(r, place)
  /\ UNCHANGED <<rows, proc, owed, local, history>>

\* A new invocation: of a tool the view hides or nobody registered ...
BeginRejected(r) ==
  /\ pc[r] = "dispatch"
  /\ AddInvocation(r, cur[r])
  /\ Goto(r, "rejecting")
  /\ UNCHANGED <<task, run, token, steps, proc, owed, local, history>>

\* ... or of one that will be validated and run.
BeginInvocation(r) ==
  /\ pc[r] = "dispatch"
  /\ ~ ReusesResult(r)
  /\ AddInvocation(r, cur[r])
  /\ Goto(r, "validating")
  /\ UNCHANGED <<task, run, token, steps, proc, owed, local, history>>

Reject(r) ==
  /\ pc[r] \in {"rejecting", "validating"}
  /\ SetInvocation(r, "denied")
  /\ Goto(r, "toolErr")
  /\ UNCHANGED <<task, run, token, steps, proc, owed, local, history>>

\* A read answered from the executor's result cache.
CacheHit(r) ==
  /\ pc[r] = "validating"
  /\ cur[r] \notin Writes
  /\ SetInvocation(r, "succeeded")
  /\ Goto(r, "toolOk")
  /\ UNCHANGED <<task, run, token, steps, proc, owed, local, history>>

RunTool(r) ==
  /\ pc[r] = "validating"
  /\ SetInvocation(r, "running")
  /\ Goto(r, "tool")
  /\ UNCHANGED <<task, run, token, steps, proc, owed, local, history>>

\* The tool returned (possibly a dict with an "error" key), raised, or ran
\* out of time.
ToolReturns(r) ==
  /\ Resumes(r, "tool")
  /\ \/ SetInvocation(r, "succeeded") /\ \E place \in {"toolOk", "toolErr"} : Goto(r, place)
     \/ SetInvocation(r, "failed") /\ Goto(r, "toolErr")
     \/ SetInvocation(r, "timed_out") /\ Goto(r, "toolErr")
  /\ UNCHANGED <<task, run, token, steps, proc, owed, local, history>>

CloseToolStep(r) ==
  /\ pc[r] \in {"toolOk", "toolErr"}
  /\ SetStep(r, Len(steps[r]), IF pc[r] = "toolOk" THEN "SUCCEEDED" ELSE "FAILED")
  /\ cur' = [cur EXCEPT ![r] = NULL]
  /\ Goto(r, "llm")
  /\ UNCHANGED <<task, run, token, inv, proc, owed, owner, root, calls, outcome, cancelled, history>>

\* The model answers in text, and the reply is sent through the bus.
Answer(r) ==
  /\ Resumes(r, "llm")
  /\ answered' = answered \cup {r}
  /\ Goto(r, "answered")
  /\ UNCHANGED <<rows, proc, owed, local, lost>>

-----------------------------------------------------------------------------
(* Closing a run: the step, then the run, then the task. *)

\* The execution ends with status s: its first commit closes the root step.
CloseStep(r, s) ==
  /\ SetStep(r, root[r], s)
  /\ root' = [root EXCEPT ![r] = 0]
  /\ outcome' = [outcome EXCEPT ![r] = s]
  /\ calls' = [calls EXCEPT ![r] = 0]
  /\ cur' = [cur EXCEPT ![r] = NULL]
  /\ Goto(r, "closing")

\* The loop returned: after a reply; or with an empty reply or a tripped
\* breaker; or with an error.  Only agent_service looks at the error: the bus
\* between execute_run and the loop drops it, unless it is raised before the
\* prompt is dispatched (no LLM provider).
LoopEnds(r) ==
  /\ \/ Resumes(r, "answered") /\ CloseStep(r, "SUCCEEDED")
     \/ Resumes(r, "llm") /\ CloseStep(r, "SUCCEEDED")
     \/ /\ Resumes(r, "llm")
        /\ owner[r] = "service" \/ calls[r] = 0
        /\ CloseStep(r, "FAILED")
  /\ UNCHANGED <<task, run, token, inv, proc, owed, owner, cancelled, history>>

\* An exception leaves agent_service: the bus logs it, the rows stay as they are.
ServiceRaises(r) ==
  /\ owner[r] = "service"
  /\ Resumes(r, "llm") \/ Resumes(r, "answered")
  /\ Goto(r, "none")
  /\ root' = [root EXCEPT ![r] = 0]
  /\ calls' = [calls EXCEPT ![r] = 0]
  /\ UNCHANGED <<rows, proc, owed, owner, cur, outcome, cancelled, history>>

CloseRun(r) ==
  /\ pc[r] = "closing"
  /\ SetRun(r, outcome[r])
  /\ owed' = [run |-> r, status |-> outcome[r]]
  /\ outcome' = [outcome EXCEPT ![r] = "CREATED"]
  /\ Goto(r, "none")
  /\ UNCHANGED <<task, token, steps, inv, proc, owner, root, cur, calls, cancelled, history>>

\* update_task, the commit after update_run everywhere a run changes status.
CloseTask ==
  /\ owed # NULL
  /\ SetTask(owed.run, owed.status)
  /\ owed' = NULL
  /\ UNCHANGED <<run, token, steps, inv, proc, pc, local, history>>

-----------------------------------------------------------------------------
(* Stopping. *)

\* The writes whose effect nobody will learn if the coroutine of r dies now.
InFlight(r) == IF pc[r] = "tool" THEN {cur[r]} \cap Writes ELSE {}

\* shutdown(): every background coroutine is cancelled, those not started yet
\* never start.
Shutdown ==
  /\ phase = "up" /\ LoopFree /\ boots < MaxBoots
  /\ phase' = "stopping"
  /\ cancelled' = {r \in Runs : owner[r] = "runtime" /\ pc[r] \in {"llm", "tool", "answered"}}
  /\ pc' = [r \in Runs |-> IF pc[r] = "submitted" THEN "none" ELSE pc[r]]
  /\ UNCHANGED <<rows, boots, pending, owed, owner, root, cur, calls, outcome, history>>

\* CancelledError inside execute_run.
ThrowCancelled(r) ==
  /\ r \in cancelled /\ Turn(r)
  /\ CloseStep(r, "CANCELLED")
  /\ cancelled' = cancelled \ {r}
  /\ lost' = [lost EXCEPT ![r] = @ \cup InFlight(r)]
  /\ UNCHANGED <<task, run, token, inv, proc, owed, owner, answered>>

\* The process is gone: rows stay, coroutines do not.
Dies ==
  /\ phase' = "down"
  /\ pending' = {}
  /\ owed' = NULL
  /\ pc' = [r \in Runs |-> "none"]
  /\ cancelled' = {}
  /\ lost' = [r \in Runs |-> lost[r] \cup InFlight(r)]
  /\ owner' = [r \in Runs |-> "runtime"]
  /\ root' = [r \in Runs |-> 0]
  /\ cur' = [r \in Runs |-> NULL]
  /\ calls' = [r \in Runs |-> 0]
  /\ outcome' = [r \in Runs |-> "CREATED"]
  /\ UNCHANGED <<rows, boots, answered>>

Exit ==
  /\ phase = "stopping" /\ LoopFree
  /\ \A r \in Runs : owner[r] = "runtime" => pc[r] = "none"
  /\ Dies

Crash == phase # "down" /\ boots < MaxBoots /\ Dies

-----------------------------------------------------------------------------
(* Bot.start: recover(), then submit every run left in CREATED. *)

Restart ==
  /\ phase = "down" /\ boots < MaxBoots
  /\ phase' = "boot"
  /\ boots' = boots + 1
  /\ pending' = {r \in Runs : run[r] \in Active}
  /\ UNCHANGED <<rows, owed, pc, local, history>>

Recovers(r) ==
  /\ phase = "boot" /\ LoopFree /\ r \in pending
  /\ pending' = pending \ {r}

Latest(r) == inv[r][Len(inv[r])]

\* An open step and an invocation to judge it by.
Interrupted(r) == HasRunningStep(r) /\ inv[r] # <<>>

SafeToRetry(i) == i.status = "validating" \/ (i.status = "running" /\ i.call \notin Writes)
OutcomeUnknown(i) == i.status \in {"running", "timed_out"} /\ ~ SafeToRetry(i)

\* The run goes back to CREATED, its task after it.
Requeue(r) == outcome' = [outcome EXCEPT ![r] = "CREATED"] /\ Goto(r, "closing")

RecoverSucceeded(r) ==
  /\ Recovers(r)
  /\ Interrupted(r) /\ Latest(r).status = "succeeded"
  /\ SetStep(r, LastRunningStep(r), "SUCCEEDED")
  /\ Requeue(r)
  /\ UNCHANGED <<task, run, token, inv, phase, boots, owed, owner, root, cur, calls, cancelled, history>>

RecoverRetry(r) ==
  /\ Recovers(r)
  /\ Interrupted(r) /\ SafeToRetry(Latest(r))
  /\ SetInvocation(r, "failed")
  /\ Requeue(r)
  /\ UNCHANGED <<task, run, token, steps, phase, boots, owed, owner, root, cur, calls, cancelled, history>>

RecoverQuarantine(r) ==
  /\ Recovers(r)
  /\ Interrupted(r) /\ OutcomeUnknown(Latest(r))
  /\ SetRun(r, "WAITING_APPROVAL")
  /\ owed' = [run |-> r, status |-> "WAITING_APPROVAL"]
  /\ UNCHANGED <<task, token, steps, inv, phase, boots, pc, local, history>>

Judged(r) ==
  /\ Interrupted(r)
  /\ \/ Latest(r).status = "succeeded"
     \/ SafeToRetry(Latest(r))
     \/ OutcomeUnknown(Latest(r))

RecoverByStatus(r) ==
  /\ Recovers(r)
  /\ ~ Judged(r)
  /\ IF run[r] = "RUNNING"
     THEN SetRun(r, "CREATED") /\ owed' = [run |-> r, status |-> "CREATED"]
     ELSE UNCHANGED <<run, owed>>
  /\ UNCHANGED <<task, token, steps, inv, phase, boots, pc, local, history>>

Resubmitted == {r \in Runs : run[r] = "CREATED"}

SubmitRecovered ==
  /\ phase = "boot" /\ LoopFree /\ pending = {}
  /\ phase' = "up"
  /\ pc' = [r \in Runs |-> IF r \in Resubmitted THEN "submitted" ELSE pc[r]]
  /\ owner' = [r \in Runs |-> IF r \in Resubmitted THEN "runtime" ELSE owner[r]]
  /\ UNCHANGED <<rows, boots, pending, owed, root, cur, calls, outcome, cancelled, history>>

-----------------------------------------------------------------------------
(* wait, resume and cancel: rows only, no coroutine is told. *)

Wait(r, s, t) ==
  /\ "wait" \in ControlOps /\ phase = "up" /\ LoopFree
  /\ run[r] # NULL
  /\ SetRun(r, s)
  /\ token' = [token EXCEPT ![r] = t]
  /\ owed' = [run |-> r, status |-> s]
  /\ UNCHANGED <<task, steps, inv, proc, pc, local, history>>

Resume(r, t) ==
  /\ "resume" \in ControlOps /\ phase = "up" /\ LoopFree
  /\ run[r] \in Waiting /\ token[r] = t
  /\ SetRun(r, "CREATED")
  /\ owed' = [run |-> r, status |-> "CREATED"]
  /\ UNCHANGED <<task, token, steps, inv, proc, pc, local, history>>

Cancel(r) ==
  /\ "cancel" \in ControlOps /\ phase = "up" /\ LoopFree
  /\ run[r] # NULL
  /\ SetRun(r, "CANCELLED")
  /\ owed' = [run |-> r, status |-> "CANCELLED"]
  /\ UNCHANGED <<task, token, steps, inv, proc, pc, local, history>>

-----------------------------------------------------------------------------
Opening(r) ==
  \/ CreateRun(r) \/ StartTask(r) \/ StartRun(r) \/ OpenStep(r) \/ NoHandler(r)

ToolCall(r) ==
  \/ \E c \in Calls : RequestTool(r, c)
  \/ ReuseResult(r) \/ BeginRejected(r) \/ BeginInvocation(r)
  \/ Reject(r) \/ CacheHit(r) \/ RunTool(r) \/ ToolReturns(r) \/ CloseToolStep(r)

Closing(r) == Answer(r) \/ LoopEnds(r) \/ ThrowCancelled(r) \/ CloseRun(r)

Coroutine(r) == Opening(r) \/ ToolCall(r) \/ Closing(r)

Recover(r) ==
  \/ RecoverSucceeded(r) \/ RecoverRetry(r) \/ RecoverQuarantine(r) \/ RecoverByStatus(r)

Control(r) ==
  \/ \E s \in Waiting, t \in Tokens : Wait(r, s, t)
  \/ \E t \in Tokens : Resume(r, t)
  \/ Cancel(r)

Process == Shutdown \/ Exit \/ Crash \/ Restart \/ SubmitRecovered \/ CloseTask

Next ==
  \/ \E r \in Runs :
       \/ \E origin \in {"message", "schedule", "event"} : CreateTask(r, origin)
       \/ Coroutine(r) \/ ServiceRaises(r) \/ Recover(r) \/ Control(r)
  \/ Process

Spec == Init /\ [][Next]_vars

\* The event loop runs what is ready, awaits end (tools have a timeout, LLM
\* requests a client timeout), and a supervisor restarts a dead process.
Fairness ==
  /\ \A r \in Runs : WF_vars(Coroutine(r)) /\ WF_vars(Recover(r))
  /\ WF_vars(CloseTask) /\ WF_vars(SubmitRecovered)
  /\ WF_vars(Exit) /\ WF_vars(Restart)

FairSpec == Spec /\ Fairness
-----------------------------------------------------------------------------
(* Properties. *)

\* Places where the coroutine of a run is between its first write and the
\* commits that close it.
Executing == (AwaitPoints \cup Holding) \ {"none", "submitted", "creating", "starting", "closing"}

\* A write that succeeded once in a run is never executed again in that run,
\* however often the model repeats the call and the process restarts: the
\* idempotency lookup of ToolExecutor.execute returns the stored result.
NeverRepeatsASuccessfulWrite ==
  \A r \in Runs : pc[r] = "tool" /\ cur[r] \in Writes => ~ Succeeded(r, cur[r])

\* A run that was killed while a write was in flight never executes again:
\* recover() quarantines it on this and on every later boot, and neither a
\* cancellation nor a resume token gets it past recover().
InterruptedWriteNeverReplayed ==
  \A r \in Runs : lost[r] # {} => pc[r] \notin Executing

\* Without control operations: a task row that says the work is over agrees
\* with its run row, at whichever commit the process died (run before task).
TerminalTaskAgreesWithRun ==
  \A r \in Runs : task[r] \in Terminal => run[r] = task[r]

\* A run row says SUCCEEDED only after the step of that very execution was
\* closed as SUCCEEDED, whatever earlier executions left behind.
SuccessClosesItsStep ==
  \A r \in Runs : run[r] = "SUCCEEDED" =>
    \E i \in DOMAIN steps[r] :
      /\ steps[r][i] = [kind |-> "root", status |-> "SUCCEEDED"]
      /\ \A j \in DOMAIN steps[r] : j > i => steps[r][j].kind = "tool"

\* recover() puts a run in front of a human only over a tool call that was
\* started and never finished or that timed out, and leaves its step open.
QuarantineHasACause ==
  \A r \in Runs : run[r] = "WAITING_APPROVAL" =>
    HasRunningStep(r) /\ inv[r] # <<>> /\ Latest(r).status \in {"running", "timed_out"}

\* Without control operations a finished run is never touched again, by the
\* loop, by a shutdown or by recovery.
FinishedRunsStayFinished ==
  [][\A r \in Runs : run[r] \in Terminal => run'[r] = run[r]]_vars

\* A run that a restart finds RUNNING or CREATED ends, or waits for a human.
RecoveredRunsSettle ==
  \A r \in Runs :
    phase = "boot" /\ run[r] \in {"RUNNING", "CREATED"} ~> run[r] \in Terminal \cup Waiting

\* The writes of r that may or may not have happened.
DoubtfulWrites(r) ==
  {c \in Writes : ~ Succeeded(r, c) /\
     (c \in lost[r] \/ \E i \in DOMAIN inv[r] : inv[r][i] = [call |-> c, status |-> "timed_out"])}

\* PHASE6_IMPLEMENTATION.md, core constraints: after a restart, side effects
\* whose outcome is unknown are not blindly replayed, so a run with such a
\* write is not submitted by Bot.start.
NoBlindReplay ==
  [][\A r \in Runs : phase = "boot" /\ pc[r] = "none" /\ pc'[r] = "submitted"
       => DoubtfulWrites(r) = {}]_vars

\* PHASE6_IMPLEMENTATION.md, recovery rule 1: CREATED and SCHEDULED runs can
\* be submitted again, so a run that a restart finds SCHEDULED is executed.
ScheduledRunsSettle ==
  \A r \in Runs : phase = "boot" /\ run[r] = "SCHEDULED" ~> run[r] # "SCHEDULED"

\* PHASE6_IMPLEMENTATION.md, recovery rule 7: recovery leaves WAITING runs as
\* they are until an event brings their token.
RecoveryKeepsWaiting ==
  [][\A r \in Runs : phase = "boot" /\ run[r] \in Waiting => run'[r] \in Waiting]_vars

\* PHASE6_IMPLEMENTATION.md, end of section 7: recovery does not take a
\* missing success row for a missing effect, so a run does not answer twice.
AnswersOnce ==
  [][\A r \in Runs : pc[r] # "answered" /\ pc'[r] = "answered" => r \notin answered]_vars
=============================================================================
