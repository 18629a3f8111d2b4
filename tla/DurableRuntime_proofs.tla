------------------------ MODULE DurableRuntime_proofs ------------------------
(***************************************************************************)
(* Safety of DurableRuntime for any number of runs, calls and restarts,    *)
(* with or without the control operations; and, without them, that it      *)
(* implements RunLifecycle.                                                *)
(***************************************************************************)
EXTENDS DurableLifecycle, SequenceTheorems, TLAPS

(***************************************************************************)
(* The inductive invariant.                                                *)
(***************************************************************************)

\* Places where a tool step is open for the call being made ...
InCall == {"dispatch", "rejecting", "validating", "tool", "toolOk", "toolErr"}
\* ... and all the places of the agent loop.
InLoop == InCall \cup {"llm", "answered"}

OpenToolStep == [kind |-> "tool", status |-> "RUNNING"]

\* Nothing exists of a run before its task row.
NothingBeforeTask(r) ==
  task[r] = NULL => pc[r] = "none" /\ run[r] = NULL /\ lost[r] = {} /\ r \notin pending

\* The loop's own step is a root step, so closing it closes no tool step.
RootIsRoot(r) ==
  pc[r] \in InLoop => root[r] \in DOMAIN steps[r] /\ steps[r][root[r]].kind = "root"

\* During a call its step is the last one, open.
CallHasStep(r) ==
  pc[r] \in InCall =>
    cur[r] \in Calls /\ Len(steps[r]) > 0 /\ steps[r][Len(steps[r])] = OpenToolStep

\* Its invocation is the last one, and a write under way has no success yet.
CallHasInvocation(r) ==
  /\ pc[r] \in {"rejecting", "validating"} =>
       Len(inv[r]) > 0 /\ Latest(r) = [call |-> cur[r], status |-> "validating"]
  /\ pc[r] = "tool" =>
       Len(inv[r]) > 0 /\ Latest(r) = [call |-> cur[r], status |-> "running"]
  /\ pc[r] \in {"validating", "tool"} /\ cur[r] \in Writes => ~ Succeeded(r, cur[r])

\* What a write cut short leaves for recover() to see, for ever.
LostLeavesTraces(r) ==
  lost[r] # {} =>
    /\ Len(inv[r]) > 0 /\ Latest(r).status = "running" /\ Latest(r).call \in Writes
    /\ \E i \in DOMAIN steps[r] : steps[r][i] = OpenToolStep

\* Such a run is idle or being closed, and never left in CREATED by a boot.
LostIsIdle(r) ==
  lost[r] # {} =>
    /\ pc[r] \in {"none", "closing"}
    /\ pc[r] = "closing" => outcome[r] # "CREATED"
    /\ phase = "boot" /\ r \notin pending => run[r] # "CREATED"

\* Only coroutines that wait are being cancelled, and none in a dead process.
CancelledWait ==
  /\ \A r \in cancelled : pc[r] \in {"llm", "tool", "answered"}
  /\ phase \in {"down", "boot"} => cancelled = {}

RunInv(r) ==
  /\ NothingBeforeTask(r)
  /\ RootIsRoot(r)
  /\ CallHasStep(r)
  /\ CallHasInvocation(r)
  /\ LostLeavesTraces(r)
  /\ LostIsIdle(r)

IInv == TypeOK /\ CancelledWait /\ \A r \in Runs : RunInv(r)

-----------------------------------------------------------------------------
(* The store's writes. *)

\* update_step leaves the other steps, every kind and the order alone.
LEMMA SetStepFacts ==
  ASSUME TypeOK, NEW r \in Runs, NEW i, NEW st \in StepStatus, SetStep(r, i, st)
  PROVE  /\ steps' \in [Runs -> Seq(StepRow)]
         /\ \A q \in Runs \ {r} : steps'[q] = steps[q]
         /\ Len(steps'[r]) = Len(steps[r])
         /\ \A j \in 1..Len(steps[r]) :
              /\ steps'[r][j].kind = steps[r][j].kind
              /\ j # i => steps'[r][j] = steps[r][j]
              /\ j = i => steps'[r][j].status = st
<1> DEFINE s == steps[r]
           t == [s EXCEPT ![i] = [kind |-> s[i].kind, status |-> st]]
<1>1. s \in Seq(StepRow) /\ Len(s) \in Nat /\ DOMAIN s = 1..Len(s)
  BY DEF TypeOK
<1>2. ASSUME NEW j \in 1..Len(s)
      PROVE  /\ t[j] \in StepRow
             /\ t[j].kind = s[j].kind
             /\ j # i => t[j] = s[j]
             /\ j = i => t[j].status = st
  <2>1. s[j] \in StepRow
    BY <1>1
  <2>2. t[j] = IF j = i THEN [kind |-> s[j].kind, status |-> st] ELSE s[j]
    BY <1>1
  <2> QED BY <2>1, <2>2 DEF StepRow
<1>3. t \in [1..Len(s) -> StepRow]
  BY <1>1, <1>2
<1>4. t \in Seq(StepRow) /\ Len(t) = Len(s)
  BY <1>1, <1>3, SeqDef
<1>5. steps' = [steps EXCEPT ![r] = t] /\ steps \in [Runs -> Seq(StepRow)]
  BY DEF SetStep, TypeOK
<1>6. steps'[r] = t /\ steps' \in [Runs -> Seq(StepRow)] /\ \A q \in Runs \ {r} : steps'[q] = steps[q]
  BY <1>4, <1>5
<1> QED BY <1>2, <1>4, <1>6

\* create_step appends a RUNNING step.
LEMMA AddStepFacts ==
  ASSUME TypeOK, NEW r \in Runs, NEW k \in {"root", "tool"}, AddStep(r, k)
  PROVE  /\ steps' \in [Runs -> Seq(StepRow)]
         /\ \A q \in Runs \ {r} : steps'[q] = steps[q]
         /\ Len(steps'[r]) = Len(steps[r]) + 1 /\ Len(steps[r]) \in Nat
         /\ steps'[r][Len(steps[r]) + 1] = [kind |-> k, status |-> "RUNNING"]
         /\ \A j \in 1..Len(steps[r]) : steps'[r][j] = steps[r][j]
<1>1. steps[r] \in Seq(StepRow) /\ [kind |-> k, status |-> "RUNNING"] \in StepRow
  BY DEF TypeOK, StepRow, StepStatus
<1> QED BY <1>1, AppendProperties DEF AddStep, TypeOK

\* begin() appends an invocation in "validating".
LEMMA AddInvocationFacts ==
  ASSUME TypeOK, NEW r \in Runs, NEW c \in Calls, AddInvocation(r, c)
  PROVE  /\ inv' \in [Runs -> Seq(InvocationRow)]
         /\ \A q \in Runs \ {r} : inv'[q] = inv[q]
         /\ Len(inv'[r]) = Len(inv[r]) + 1 /\ Len(inv[r]) \in Nat
         /\ inv'[r][Len(inv[r]) + 1] = [call |-> c, status |-> "validating"]
         /\ \A j \in 1..Len(inv[r]) : inv'[r][j] = inv[r][j]
<1>1. inv[r] \in Seq(InvocationRow) /\ [call |-> c, status |-> "validating"] \in InvocationRow
  BY DEF TypeOK, InvocationRow, InvocationStatus
<1> QED BY <1>1, AppendProperties DEF AddInvocation, TypeOK

\* transition() moves the newest invocation only.
LEMMA SetInvocationFacts ==
  ASSUME TypeOK, NEW r \in Runs, NEW st \in InvocationStatus, SetInvocation(r, st)
  PROVE  /\ inv' \in [Runs -> Seq(InvocationRow)]
         /\ \A q \in Runs \ {r} : inv'[q] = inv[q]
         /\ Len(inv'[r]) = Len(inv[r])
         /\ \A j \in 1..Len(inv[r]) :
              /\ j # Len(inv[r]) => inv'[r][j] = inv[r][j]
              /\ j = Len(inv[r]) => inv'[r][j] = [call |-> inv[r][j].call, status |-> st]
<1> DEFINE s == inv[r]
           t == [s EXCEPT ![Len(s)] = [call |-> s[Len(s)].call, status |-> st]]
<1>1. s \in Seq(InvocationRow) /\ Len(s) \in Nat /\ DOMAIN s = 1..Len(s)
  BY DEF TypeOK
<1>2. ASSUME NEW j \in 1..Len(s)
      PROVE  /\ t[j] \in InvocationRow
             /\ j # Len(s) => t[j] = s[j]
             /\ j = Len(s) => t[j] = [call |-> s[j].call, status |-> st]
  <2>1. s[j] \in InvocationRow
    BY <1>1
  <2>2. t[j] = IF j = Len(s) THEN [call |-> s[j].call, status |-> st] ELSE s[j]
    BY <1>1
  <2> QED BY <2>1, <2>2 DEF InvocationRow
<1>3. t \in [1..Len(s) -> InvocationRow]
  BY <1>1, <1>2
<1>4. t \in Seq(InvocationRow) /\ Len(t) = Len(s)
  BY <1>1, <1>3, SeqDef
<1>5. inv' = [inv EXCEPT ![r] = t] /\ inv \in [Runs -> Seq(InvocationRow)]
  BY DEF SetInvocation, TypeOK
<1>6. inv'[r] = t /\ inv' \in [Runs -> Seq(InvocationRow)] /\ \A q \in Runs \ {r} : inv'[q] = inv[q]
  BY <1>4, <1>5
<1> QED BY <1>2, <1>4, <1>6

-----------------------------------------------------------------------------
(* Frames. *)

\* What the invariant of run q reads of the state, but for the phase.
Same(q) ==
  /\ task'[q] = task[q] /\ run'[q] = run[q]
  /\ steps'[q] = steps[q] /\ inv'[q] = inv[q]
  /\ pc'[q] = pc[q] /\ root'[q] = root[q] /\ cur'[q] = cur[q]
  /\ outcome'[q] = outcome[q] /\ lost'[q] = lost[q]
  /\ q \in pending' <=> q \in pending

OnlyTouches(r) == phase' = phase /\ \A q \in Runs \ {r} : Same(q)

\* A run that an action does not touch keeps its invariant.
LEMMA SameKeepsRunInv ==
  ASSUME NEW q \in Runs, RunInv(q), Same(q), phase' = phase
  PROVE  RunInv(q)'
BY DEF Same, RunInv, NothingBeforeTask, RootIsRoot, CallHasStep, CallHasInvocation,
       LostLeavesTraces, LostIsIdle, Latest, Succeeded

\* So an action that touches one run has that run's invariant to restore.
LEMMA OneRun ==
  ASSUME IInv, NEW r \in Runs, OnlyTouches(r), TypeOK', CancelledWait', RunInv(r)'
  PROVE  IInv'
<1>1. ASSUME NEW q \in Runs PROVE RunInv(q)'
  <2>1. CASE q = r
    BY <2>1
  <2>2. CASE q # r
    BY <2>2, SameKeepsRunInv DEF OnlyTouches, IInv
  <2> QED BY <2>1, <2>2
<1> QED BY <1>1 DEF IInv

-----------------------------------------------------------------------------
(* Every action preserves the invariant. *)

\* A coroutine that moves was not being cancelled.
LEMMA CancelledKept ==
  ASSUME IInv, NEW r \in Runs, r \notin cancelled, cancelled' = cancelled,
         phase' = phase, \A q \in Runs \ {r} : pc'[q] = pc[q]
  PROVE  CancelledWait'
BY DEF IInv, CancelledWait, TypeOK

\* Of a run outside the agent loop with no lost write the invariant asks
\* for a task row only.
LEMMA OutsideLoop ==
  ASSUME NEW r \in Runs, task'[r] # NULL, lost'[r] = {}, pc'[r] \notin InLoop
  PROVE  RunInv(r)'
BY DEF RunInv, NothingBeforeTask, RootIsRoot, CallHasStep, CallHasInvocation,
       LostLeavesTraces, LostIsIdle, InLoop, InCall

\* A new run.
LEMMA CreateTaskInv ==
  ASSUME IInv, NEW r \in Runs, NEW origin \in {"message", "schedule", "event"}, CreateTask(r, origin)
  PROVE  IInv'
<1>1. /\ r \notin cancelled /\ cancelled' = cancelled /\ phase' = phase
      /\ \A q \in Runs \ {r} : pc'[q] = pc[q]
  BY DEF CreateTask, Goto, proc, local, IInv, TypeOK, CancelledWait, RunInv,
     NothingBeforeTask
<1> USE DEF TypeOK, rows, proc, local, history, Goto, SetTask, SetRun, CreateTask
<1>2. TypeOK'
  BY BoundAssumption, WritesAssumption DEF IInv, Status, Active, Terminal, Waiting,
     AwaitPoints, Holding, TaskDebt, RunInv, CallHasStep, InCall
<1>3. CancelledWait'
  BY <1>1, CancelledKept
<1>4. OnlyTouches(r)
  BY DEF OnlyTouches, Same, IInv
<1>5. RunInv(r)'
  <2>1. task'[r] # NULL /\ lost'[r] = {}
    BY NullAssumption DEF IInv, RunInv, NothingBeforeTask, LostIsIdle, Status, Active
  <2>2. pc'[r] \notin InLoop
    BY DEF IInv, InLoop, InCall
  <2> QED BY <2>1, <2>2, OutsideLoop
<1> QED BY <1>2, <1>3, <1>4, <1>5, OneRun

\* Its run row.
LEMMA CreateRunInv ==
  ASSUME IInv, NEW r \in Runs, CreateRun(r)
  PROVE  IInv'
<1>1. /\ r \notin cancelled /\ cancelled' = cancelled /\ phase' = phase
      /\ \A q \in Runs \ {r} : pc'[q] = pc[q]
  BY DEF CreateRun, Goto, proc, local, IInv, TypeOK, CancelledWait, RunInv,
     NothingBeforeTask
<1> USE DEF TypeOK, rows, proc, local, history, Goto, SetTask, SetRun, CreateRun
<1>2. TypeOK'
  BY BoundAssumption, WritesAssumption DEF IInv, Status, Active, Terminal, Waiting,
     AwaitPoints, Holding, TaskDebt, RunInv, CallHasStep, InCall
<1>3. CancelledWait'
  BY <1>1, CancelledKept
<1>4. OnlyTouches(r)
  BY DEF OnlyTouches, Same, IInv
<1>5. RunInv(r)'
  <2>1. task'[r] # NULL /\ lost'[r] = {}
    BY NullAssumption DEF IInv, RunInv, NothingBeforeTask, LostIsIdle, Status, Active
  <2>2. pc'[r] \notin InLoop
    BY DEF IInv, InLoop, InCall
  <2> QED BY <2>1, <2>2, OutsideLoop
<1> QED BY <1>2, <1>3, <1>4, <1>5, OneRun

\* Its execution begins.
LEMMA StartTaskInv ==
  ASSUME IInv, NEW r \in Runs, StartTask(r)
  PROVE  IInv'
<1>1. /\ r \notin cancelled /\ cancelled' = cancelled /\ phase' = phase
      /\ \A q \in Runs \ {r} : pc'[q] = pc[q]
  BY DEF StartTask, Goto, proc, local, IInv, TypeOK, CancelledWait, RunInv,
     NothingBeforeTask
<1> USE DEF TypeOK, rows, proc, local, history, Goto, SetTask, SetRun, StartTask
<1>2. TypeOK'
  BY BoundAssumption, WritesAssumption DEF IInv, Status, Active, Terminal, Waiting,
     AwaitPoints, Holding, TaskDebt, RunInv, CallHasStep, InCall
<1>3. CancelledWait'
  BY <1>1, CancelledKept
<1>4. OnlyTouches(r)
  BY DEF OnlyTouches, Same, IInv
<1>5. RunInv(r)'
  <2>1. task'[r] # NULL /\ lost'[r] = {}
    BY NullAssumption DEF IInv, RunInv, NothingBeforeTask, LostIsIdle, Status, Active
  <2>2. pc'[r] \notin InLoop
    BY DEF IInv, InLoop, InCall
  <2> QED BY <2>1, <2>2, OutsideLoop
<1> QED BY <1>2, <1>3, <1>4, <1>5, OneRun

\* The run row follows.
LEMMA StartRunInv ==
  ASSUME IInv, NEW r \in Runs, StartRun(r)
  PROVE  IInv'
<1>1. /\ r \notin cancelled /\ cancelled' = cancelled /\ phase' = phase
      /\ \A q \in Runs \ {r} : pc'[q] = pc[q]
  BY DEF StartRun, Goto, proc, local, IInv, TypeOK, CancelledWait, RunInv, NothingBeforeTask
<1> USE DEF TypeOK, rows, proc, local, history, Goto, SetTask, SetRun, StartRun
<1>2. TypeOK'
  BY BoundAssumption, WritesAssumption DEF IInv, Status, Active, Terminal, Waiting,
     AwaitPoints, Holding, TaskDebt, RunInv, CallHasStep, InCall
<1>3. CancelledWait'
  BY <1>1, CancelledKept
<1>4. OnlyTouches(r)
  BY DEF OnlyTouches, Same, IInv
<1>5. RunInv(r)'
  <2>1. task'[r] # NULL /\ lost'[r] = {}
    BY NullAssumption DEF IInv, RunInv, NothingBeforeTask, LostIsIdle, Status, Active
  <2>2. pc'[r] \notin InLoop
    BY DEF IInv, InLoop, InCall
  <2> QED BY <2>1, <2>2, OutsideLoop
<1> QED BY <1>2, <1>3, <1>4, <1>5, OneRun

\* The execution's own step.
LEMMA OpenStepInv ==
  ASSUME IInv, NEW r \in Runs, OpenStep(r)
  PROVE  IInv'
<1>1. AddStep(r, "root") /\ TypeOK
  BY DEF OpenStep, IInv
<1>2. /\ steps' \in [Runs -> Seq(StepRow)] /\ \A q \in Runs \ {r} : steps'[q] = steps[q]
      /\ Len(steps'[r]) = Len(steps[r]) + 1 /\ Len(steps[r]) \in Nat
      /\ steps'[r][Len(steps[r]) + 1] = [kind |-> "root", status |-> "RUNNING"]
      /\ \A j \in 1..Len(steps[r]) : steps'[r][j] = steps[r][j]
      /\ DOMAIN steps[r] = 1..Len(steps[r]) /\ DOMAIN steps'[r] = 1..Len(steps'[r])
  BY <1>1, AddStepFacts DEF TypeOK
<1>3. /\ r \notin cancelled /\ cancelled' = cancelled /\ phase' = phase
      /\ \A q \in Runs \ {r} : pc'[q] = pc[q]
  BY DEF OpenStep, Goto, proc, local, IInv, TypeOK, CancelledWait, RunInv, NothingBeforeTask
<1> USE DEF TypeOK, rows, proc, local, history, Goto, SetTask, SetRun, OpenStep
<1>4. TypeOK'
  BY <1>1, <1>2, BoundAssumption, WritesAssumption DEF IInv, Status, Active, Terminal,
     Waiting, AwaitPoints, Holding, TaskDebt, RunInv, CallHasStep, InCall
<1>5. CancelledWait'
  BY <1>3, CancelledKept
<1>6. OnlyTouches(r)
  BY <1>1, <1>2 DEF OnlyTouches, Same, IInv
<1>7. RunInv(r)'
  <2> USE <1>1, <1>2, NullAssumption DEF IInv, RunInv, Status, Active, Terminal, Waiting,
        AwaitPoints, Holding, InCall, InLoop
  <2>1. NothingBeforeTask(r)'
    BY DEF NothingBeforeTask, LostIsIdle
  <2>2. RootIsRoot(r)'
    BY DEF RootIsRoot, NothingBeforeTask
  <2>3. CallHasStep(r)'
    BY DEF CallHasStep, OpenToolStep
  <2>4. CallHasInvocation(r)'
    BY DEF CallHasInvocation, CallHasStep, Latest, Succeeded
  <2>5. LostLeavesTraces(r)'
    BY DEF LostLeavesTraces, LostIsIdle, NothingBeforeTask, Latest, OpenToolStep
  <2>6. LostIsIdle(r)'
    BY DEF LostIsIdle, NothingBeforeTask
  <2> QED BY <2>1, <2>2, <2>3, <2>4, <2>5, <2>6 DEF RunInv
<1> QED BY <1>4, <1>5, <1>6, <1>7, OneRun

\* Nobody to execute it.
LEMMA NoHandlerInv ==
  ASSUME IInv, NEW r \in Runs, NoHandler(r)
  PROVE  IInv'
<1>1. /\ r \notin cancelled /\ cancelled' = cancelled /\ phase' = phase
      /\ \A q \in Runs \ {r} : pc'[q] = pc[q]
  BY DEF NoHandler, Goto, proc, local, IInv, TypeOK, CancelledWait, RunInv,
     NothingBeforeTask
<1> USE DEF TypeOK, rows, proc, local, history, Goto, SetTask, SetRun, NoHandler
<1>2. TypeOK'
  BY BoundAssumption, WritesAssumption DEF IInv, Status, Active, Terminal, Waiting,
     AwaitPoints, Holding, TaskDebt, RunInv, CallHasStep, InCall
<1>3. CancelledWait'
  BY <1>1, CancelledKept
<1>4. OnlyTouches(r)
  BY DEF OnlyTouches, Same, IInv
<1>5. RunInv(r)'
  <2>1. task'[r] # NULL /\ lost'[r] = {}
    BY NullAssumption DEF IInv, RunInv, NothingBeforeTask, LostIsIdle, Status, Active
  <2>2. pc'[r] \notin InLoop
    BY DEF IInv, InLoop, InCall
  <2> QED BY <2>1, <2>2, OutsideLoop
<1> QED BY <1>2, <1>3, <1>4, <1>5, OneRun

\* A tool step for the call.
LEMMA RequestToolInv ==
  ASSUME IInv, NEW r \in Runs, NEW c \in Calls, RequestTool(r, c)
  PROVE  IInv'
<1>1. AddStep(r, "tool") /\ TypeOK
  BY DEF RequestTool, IInv
<1>2. /\ steps' \in [Runs -> Seq(StepRow)] /\ \A q \in Runs \ {r} : steps'[q] = steps[q]
      /\ Len(steps'[r]) = Len(steps[r]) + 1 /\ Len(steps[r]) \in Nat
      /\ steps'[r][Len(steps[r]) + 1] = [kind |-> "tool", status |-> "RUNNING"]
      /\ \A j \in 1..Len(steps[r]) : steps'[r][j] = steps[r][j]
      /\ DOMAIN steps[r] = 1..Len(steps[r]) /\ DOMAIN steps'[r] = 1..Len(steps'[r])
  BY <1>1, AddStepFacts DEF TypeOK
<1>3. /\ r \notin cancelled /\ cancelled' = cancelled /\ phase' = phase
      /\ \A q \in Runs \ {r} : pc'[q] = pc[q]
  BY DEF RequestTool, CallsLeft, Resumes, Goto, proc, local, IInv, TypeOK, CancelledWait,
     RunInv, NothingBeforeTask
<1>4. root[r] \in 1..Len(steps[r]) /\ steps[r][root[r]].kind = "root" /\ root'[r] = root[r]
  BY <1>2 DEF RequestTool, Resumes, IInv, RunInv, RootIsRoot, InLoop
<1>5. RootIsRoot(r)'
  BY <1>2, <1>4 DEF RootIsRoot
<1> USE DEF TypeOK, rows, proc, local, history, Goto, SetTask, SetRun, RequestTool,
      CallsLeft, Resumes
<1>6. TypeOK'
  BY <1>1, <1>2, BoundAssumption, WritesAssumption DEF IInv, Status, Active, Terminal,
     Waiting, AwaitPoints, Holding, TaskDebt, RunInv, CallHasStep, InCall
<1>7. CancelledWait'
  BY <1>3, CancelledKept
<1>8. OnlyTouches(r)
  BY <1>1, <1>2 DEF OnlyTouches, Same, IInv
<1>9. RunInv(r)'
  <2> USE <1>1, <1>2, NullAssumption DEF IInv, RunInv, Status, Active, Terminal, Waiting,
        AwaitPoints, Holding, InCall, InLoop
  <2>1. NothingBeforeTask(r)'
    BY DEF NothingBeforeTask, LostIsIdle
  <2>2. CallHasStep(r)'
    BY DEF CallHasStep, OpenToolStep
  <2>3. CallHasInvocation(r)'
    BY DEF CallHasInvocation, CallHasStep, Latest, Succeeded
  <2>4. LostLeavesTraces(r)'
    BY DEF LostLeavesTraces, LostIsIdle, NothingBeforeTask, Latest, OpenToolStep
  <2>5. LostIsIdle(r)'
    BY DEF LostIsIdle, NothingBeforeTask
  <2> QED BY <2>1, <2>2, <2>3, <2>4, <2>5, <1>5 DEF RunInv
<1> QED BY <1>6, <1>7, <1>8, <1>9, OneRun

\* A stored result.
LEMMA ReuseResultInv ==
  ASSUME IInv, NEW r \in Runs, ReuseResult(r)
  PROVE  IInv'
<1>1. /\ r \notin cancelled /\ cancelled' = cancelled /\ phase' = phase
      /\ \A q \in Runs \ {r} : pc'[q] = pc[q]
  BY DEF ReuseResult, Goto, proc, local, IInv, TypeOK, CancelledWait, RunInv,
     NothingBeforeTask
<1> USE DEF TypeOK, rows, proc, local, history, Goto, SetTask, SetRun, ReuseResult
<1>2. TypeOK'
  BY BoundAssumption, WritesAssumption DEF IInv, Status, Active, Terminal, Waiting,
     AwaitPoints, Holding, TaskDebt, RunInv, CallHasStep, InCall
<1>3. CancelledWait'
  BY <1>1, CancelledKept
<1>4. OnlyTouches(r)
  BY DEF OnlyTouches, Same, IInv
<1>5. RunInv(r)'
  BY NullAssumption DEF IInv, Status, Active, Terminal, Waiting, AwaitPoints, Holding,
     RunInv, NothingBeforeTask, RootIsRoot, CallHasStep, CallHasInvocation,
     LostLeavesTraces, LostIsIdle, Latest, Succeeded, InCall, InLoop, OpenToolStep
<1> QED BY <1>2, <1>3, <1>4, <1>5, OneRun

\* A tool that will not run.
LEMMA BeginRejectedInv ==
  ASSUME IInv, NEW r \in Runs, BeginRejected(r)
  PROVE  IInv'
<1>1. AddInvocation(r, cur[r]) /\ TypeOK /\ cur[r] \in Calls
  BY DEF BeginRejected, IInv, RunInv, CallHasStep, InCall
<1>2. /\ inv' \in [Runs -> Seq(InvocationRow)] /\ \A q \in Runs \ {r} : inv'[q] = inv[q]
      /\ Len(inv'[r]) = Len(inv[r]) + 1 /\ Len(inv[r]) \in Nat
      /\ inv'[r][Len(inv[r]) + 1] = [call |-> cur[r], status |-> "validating"]
      /\ \A j \in 1..Len(inv[r]) : inv'[r][j] = inv[r][j]
      /\ DOMAIN inv[r] = 1..Len(inv[r]) /\ DOMAIN inv'[r] = 1..Len(inv'[r])
  BY <1>1, AddInvocationFacts DEF TypeOK
<1>3. /\ r \notin cancelled /\ cancelled' = cancelled /\ phase' = phase
      /\ \A q \in Runs \ {r} : pc'[q] = pc[q]
  BY DEF BeginRejected, Goto, proc, local, IInv, TypeOK, CancelledWait, RunInv,
     NothingBeforeTask
<1> USE DEF TypeOK, rows, proc, local, history, Goto, SetTask, SetRun, BeginRejected
<1>4. TypeOK'
  BY <1>1, <1>2, BoundAssumption, WritesAssumption DEF IInv, Status, Active, Terminal,
     Waiting, AwaitPoints, Holding, TaskDebt, RunInv, CallHasStep, InCall
<1>5. CancelledWait'
  BY <1>3, CancelledKept
<1>6. OnlyTouches(r)
  BY <1>1, <1>2 DEF OnlyTouches, Same, IInv
<1>7. RunInv(r)'
  <2> USE <1>1, <1>2, NullAssumption DEF IInv, RunInv, Status, Active, Terminal, Waiting,
        AwaitPoints, Holding, InCall, InLoop
  <2>1. NothingBeforeTask(r)'
    BY DEF NothingBeforeTask, LostIsIdle
  <2>2. RootIsRoot(r)'
    BY DEF RootIsRoot, NothingBeforeTask
  <2>3. CallHasStep(r)'
    BY DEF CallHasStep, OpenToolStep
  <2>4. CallHasInvocation(r)'
    BY DEF CallHasInvocation, CallHasStep, Latest, Succeeded
  <2>5. LostLeavesTraces(r)'
    BY DEF LostLeavesTraces, LostIsIdle, NothingBeforeTask, Latest, OpenToolStep
  <2>6. LostIsIdle(r)'
    BY DEF LostIsIdle, NothingBeforeTask
  <2> QED BY <2>1, <2>2, <2>3, <2>4, <2>5, <2>6 DEF RunInv
<1> QED BY <1>4, <1>5, <1>6, <1>7, OneRun

\* A tool that may run.
LEMMA BeginInvocationInv ==
  ASSUME IInv, NEW r \in Runs, BeginInvocation(r)
  PROVE  IInv'
<1>1. AddInvocation(r, cur[r]) /\ TypeOK /\ cur[r] \in Calls
  BY DEF BeginInvocation, IInv, RunInv, CallHasStep, InCall
<1>2. /\ inv' \in [Runs -> Seq(InvocationRow)] /\ \A q \in Runs \ {r} : inv'[q] = inv[q]
      /\ Len(inv'[r]) = Len(inv[r]) + 1 /\ Len(inv[r]) \in Nat
      /\ inv'[r][Len(inv[r]) + 1] = [call |-> cur[r], status |-> "validating"]
      /\ \A j \in 1..Len(inv[r]) : inv'[r][j] = inv[r][j]
      /\ DOMAIN inv[r] = 1..Len(inv[r]) /\ DOMAIN inv'[r] = 1..Len(inv'[r])
  BY <1>1, AddInvocationFacts DEF TypeOK
<1>3. /\ r \notin cancelled /\ cancelled' = cancelled /\ phase' = phase
      /\ \A q \in Runs \ {r} : pc'[q] = pc[q]
  BY DEF BeginInvocation, ReusesResult, Goto, proc, local, IInv, TypeOK, CancelledWait,
     RunInv, NothingBeforeTask
<1>4. cur[r] \in Writes => ~ Succeeded(r, cur[r])
  BY DEF BeginInvocation, ReusesResult
<1>5. cur' = cur /\ pc'[r] = "validating"
  BY DEF BeginInvocation, Goto, local, IInv, TypeOK
<1>6. cur[r] \in Writes => ~ Succeeded(r, cur[r])'
  BY <1>2, <1>4, <1>5 DEF Succeeded
<1>7. CallHasInvocation(r)'
  BY <1>2, <1>4, <1>5, <1>6 DEF CallHasInvocation, Latest
<1> USE DEF TypeOK, rows, proc, local, history, Goto, SetTask, SetRun, BeginInvocation,
      ReusesResult
<1>8. TypeOK'
  BY <1>1, <1>2, BoundAssumption, WritesAssumption DEF IInv, Status, Active, Terminal,
     Waiting, AwaitPoints, Holding, TaskDebt, RunInv, CallHasStep, InCall
<1>9. CancelledWait'
  BY <1>3, CancelledKept
<1>10. OnlyTouches(r)
  BY <1>1, <1>2 DEF OnlyTouches, Same, IInv
<1>11. RunInv(r)'
  <2> USE <1>1, <1>2, NullAssumption DEF IInv, RunInv, Status, Active, Terminal, Waiting,
        AwaitPoints, Holding, InCall, InLoop
  <2>1. NothingBeforeTask(r)'
    BY DEF NothingBeforeTask, LostIsIdle
  <2>2. RootIsRoot(r)'
    BY DEF RootIsRoot, NothingBeforeTask
  <2>3. CallHasStep(r)'
    BY DEF CallHasStep, OpenToolStep
  <2>4. LostLeavesTraces(r)'
    BY DEF LostLeavesTraces, LostIsIdle, NothingBeforeTask, Latest, OpenToolStep
  <2>5. LostIsIdle(r)'
    BY DEF LostIsIdle, NothingBeforeTask
  <2> QED BY <2>1, <2>2, <2>3, <2>4, <2>5, <1>7 DEF RunInv
<1> QED BY <1>8, <1>9, <1>10, <1>11, OneRun

\* The executor moves the newest invocation on and goes to place p: what is
\* left to show is what CallHasInvocation says there.
LEMMA TransitionInv ==
  ASSUME IInv, NEW r \in Runs, NEW st \in InvocationStatus, NEW p \in {"tool", "toolOk", "toolErr"},
         pc[r] \in InCall, SetInvocation(r, st), Goto(r, p), CallHasInvocation(r)',
         UNCHANGED <<task, run, token, steps, proc, owed, local, history>>, r \notin cancelled
  PROVE  IInv'
<1>1. /\ inv' \in [Runs -> Seq(InvocationRow)]
      /\ \A q \in Runs \ {r} : inv'[q] = inv[q]
  BY SetInvocationFacts DEF IInv
<1>2. /\ UNCHANGED <<task, run, token, steps, phase, boots, pending, owed, owner, root, cur>>
      /\ UNCHANGED <<calls, outcome, cancelled, lost, answered>>
  BY DEF proc, local, history
<1>3. /\ pc' \in [Runs -> AwaitPoints \cup Holding] /\ pc'[r] = p
      /\ \A q \in Runs \ {r} : pc'[q] = pc[q]
  BY DEF Goto, IInv, TypeOK, AwaitPoints, Holding
<1>4. TypeOK'
  BY <1>1, <1>2, <1>3 DEF IInv, TypeOK
<1>5. CancelledWait'
  BY <1>2, <1>3, CancelledKept
<1>6. OnlyTouches(r)
  BY <1>1, <1>2, <1>3 DEF OnlyTouches, Same
<1>7. RunInv(r) /\ lost[r] = {}
  BY DEF IInv, RunInv, LostIsIdle, InCall
<1>8. NothingBeforeTask(r)'
  BY <1>2, <1>7 DEF RunInv, NothingBeforeTask, InCall
<1>9. RootIsRoot(r)' /\ CallHasStep(r)'
  BY <1>2, <1>3, <1>7 DEF RunInv, RootIsRoot, CallHasStep, InCall, InLoop
<1>10. LostLeavesTraces(r)' /\ LostIsIdle(r)'
  BY <1>2, <1>7 DEF LostLeavesTraces, LostIsIdle
<1> QED BY <1>4, <1>5, <1>6, <1>8, <1>9, <1>10, OneRun DEF RunInv

\* A coroutine that holds the event loop is not being cancelled.
LEMMA HoldingNotCancelled ==
  ASSUME IInv, NEW r \in Runs, pc[r] \in Holding
  PROVE  r \notin cancelled
BY DEF IInv, CancelledWait, Holding

\* The call is denied, answered from the cache, or has returned.
LEMMA CallEndsInv ==
  ASSUME IInv, NEW r \in Runs, NEW st \in InvocationStatus, NEW p \in {"toolOk", "toolErr"},
         pc[r] \in InCall, SetInvocation(r, st), Goto(r, p), r \notin cancelled,
         UNCHANGED <<task, run, token, steps, proc, owed, local, history>>
  PROVE  IInv'
<1>1. pc'[r] = p
  BY DEF Goto, IInv, TypeOK
<1>2. CallHasInvocation(r)'
  BY <1>1 DEF CallHasInvocation
<1> QED BY <1>2, TransitionInv

\* It does not run.
LEMMA RejectInv ==
  ASSUME IInv, NEW r \in Runs, Reject(r)
  PROVE  IInv'
<1>1. pc[r] \in InCall /\ r \notin cancelled
  BY HoldingNotCancelled DEF Reject, InCall, Holding
<1> QED BY <1>1, CallEndsInv DEF Reject, InvocationStatus

\* It need not run.
LEMMA CacheHitInv ==
  ASSUME IInv, NEW r \in Runs, CacheHit(r)
  PROVE  IInv'
<1>1. pc[r] \in InCall /\ r \notin cancelled
  BY HoldingNotCancelled DEF CacheHit, InCall, Holding
<1> QED BY <1>1, CallEndsInv DEF CacheHit, InvocationStatus

\* It runs.
LEMMA RunToolInv ==
  ASSUME IInv, NEW r \in Runs, RunTool(r)
  PROVE  IInv'
<1>1. /\ pc[r] = "validating" /\ pc[r] \in InCall /\ r \notin cancelled
      /\ CallHasInvocation(r) /\ cur' = cur /\ pc'[r] = "tool"
  BY HoldingNotCancelled DEF RunTool, InCall, Holding, Goto, local, IInv, TypeOK, RunInv
<1>2. /\ Len(inv'[r]) = Len(inv[r]) /\ Len(inv[r]) \in Nat
      /\ DOMAIN inv[r] = 1..Len(inv[r]) /\ DOMAIN inv'[r] = 1..Len(inv[r])
      /\ \A j \in 1..Len(inv[r]) :
           /\ j # Len(inv[r]) => inv'[r][j] = inv[r][j]
           /\ j = Len(inv[r]) => inv'[r][j] = [call |-> inv[r][j].call, status |-> "running"]
  BY SetInvocationFacts DEF RunTool, IInv, TypeOK, InvocationStatus
<1>3. /\ Len(inv[r]) > 0 /\ Latest(r).call = cur[r]
      /\ cur[r] \in Writes => ~ Succeeded(r, cur[r])
  BY <1>1 DEF CallHasInvocation
<1>4. ASSUME NEW i \in DOMAIN inv'[r], inv'[r][i].status = "succeeded"
      PROVE  i \in DOMAIN inv[r] /\ inv[r][i] = inv'[r][i]
  <2>1. i \in 1..Len(inv[r])
    BY <1>2
  <2>2. CASE i = Len(inv[r])
    <3>1. inv'[r][i] = [call |-> inv[r][i].call, status |-> "running"]
      BY <1>2, <2>1, <2>2
    <3> QED BY <1>4, <3>1
  <2>3. CASE i # Len(inv[r])
    BY <1>2, <2>1, <2>3
  <2> QED BY <2>2, <2>3
<1>5. cur[r] \in Writes => ~ Succeeded(r, cur[r])'
  BY <1>1, <1>3, <1>4 DEF Succeeded
<1>6. Len(inv'[r]) > 0 /\ Latest(r)' = [call |-> cur[r], status |-> "running"]
  <2>1. Len(inv[r]) \in 1..Len(inv[r])
    BY <1>2, <1>3
  <2>2. inv'[r][Len(inv[r])] = [call |-> inv[r][Len(inv[r])].call, status |-> "running"]
    BY <1>2, <2>1
  <2>3. inv[r][Len(inv[r])].call = cur[r]
    BY <1>3 DEF Latest
  <2> QED BY <1>2, <1>3, <2>2, <2>3 DEF Latest
<1>7. CallHasInvocation(r)'
  BY <1>1, <1>5, <1>6 DEF CallHasInvocation
<1> QED BY <1>1, <1>7, TransitionInv DEF RunTool, InvocationStatus

\* It has returned.
LEMMA ToolReturnsInv ==
  ASSUME IInv, NEW r \in Runs, ToolReturns(r)
  PROVE  IInv'
<1>1. pc[r] \in InCall /\ r \notin cancelled
  BY DEF ToolReturns, Resumes, InCall
<1>2. PICK st \in InvocationStatus, p \in {"toolOk", "toolErr"} :
        SetInvocation(r, st) /\ Goto(r, p)
  BY DEF ToolReturns, InvocationStatus
<1> QED BY <1>1, <1>2, CallEndsInv DEF ToolReturns

\* Its step is closed.
LEMMA CloseToolStepInv ==
  ASSUME IInv, NEW r \in Runs, CloseToolStep(r)
  PROVE  IInv'
<1>1. PICK st \in StepStatus : SetStep(r, Len(steps[r]), st) /\ TypeOK
  BY DEF CloseToolStep, IInv, StepStatus, Terminal
<1>2. /\ steps' \in [Runs -> Seq(StepRow)] /\ \A q \in Runs \ {r} : steps'[q] = steps[q]
      /\ Len(steps'[r]) = Len(steps[r]) /\ Len(steps[r]) \in Nat
      /\ \A j \in 1..Len(steps[r]) : steps'[r][j].kind = steps[r][j].kind
      /\ DOMAIN steps[r] = 1..Len(steps[r]) /\ DOMAIN steps'[r] = 1..Len(steps'[r])
  BY <1>1, SetStepFacts DEF TypeOK
<1>3. /\ r \notin cancelled /\ cancelled' = cancelled /\ phase' = phase
      /\ \A q \in Runs \ {r} : pc'[q] = pc[q]
  BY DEF CloseToolStep, Goto, proc, local, IInv, TypeOK, CancelledWait, RunInv,
     NothingBeforeTask
<1>4. root[r] \in 1..Len(steps[r]) /\ steps[r][root[r]].kind = "root" /\ root'[r] = root[r]
  BY <1>2 DEF CloseToolStep, IInv, RunInv, RootIsRoot, InLoop, InCall
<1>5. RootIsRoot(r)'
  BY <1>2, <1>4 DEF RootIsRoot
<1> USE DEF TypeOK, rows, proc, local, history, Goto, SetTask, SetRun, CloseToolStep
<1>6. TypeOK'
  BY <1>1, <1>2, BoundAssumption, WritesAssumption DEF IInv, Status, Active, Terminal,
     Waiting, AwaitPoints, Holding, TaskDebt, RunInv, CallHasStep, InCall
<1>7. CancelledWait'
  BY <1>3, CancelledKept
<1>8. OnlyTouches(r)
  BY <1>1, <1>2 DEF OnlyTouches, Same, IInv
<1>9. RunInv(r)'
  <2> USE <1>1, <1>2, NullAssumption DEF IInv, RunInv, Status, Active, Terminal, Waiting,
        AwaitPoints, Holding, InCall, InLoop
  <2>1. NothingBeforeTask(r)'
    BY DEF NothingBeforeTask, LostIsIdle
  <2>2. CallHasStep(r)'
    BY DEF CallHasStep, OpenToolStep
  <2>3. CallHasInvocation(r)'
    BY DEF CallHasInvocation, CallHasStep, Latest, Succeeded
  <2>4. LostLeavesTraces(r)'
    BY DEF LostLeavesTraces, LostIsIdle, NothingBeforeTask, Latest, OpenToolStep
  <2>5. LostIsIdle(r)'
    BY DEF LostIsIdle, NothingBeforeTask
  <2> QED BY <2>1, <2>2, <2>3, <2>4, <2>5, <1>5 DEF RunInv
<1> QED BY <1>6, <1>7, <1>8, <1>9, OneRun

\* The reply.
LEMMA AnswerInv ==
  ASSUME IInv, NEW r \in Runs, Answer(r)
  PROVE  IInv'
<1>1. /\ r \notin cancelled /\ cancelled' = cancelled /\ phase' = phase
      /\ \A q \in Runs \ {r} : pc'[q] = pc[q]
  BY DEF Answer, Resumes, Goto, proc, local, IInv, TypeOK, CancelledWait, RunInv,
     NothingBeforeTask
<1> USE DEF TypeOK, rows, proc, local, history, Goto, SetTask, SetRun, Answer, Resumes
<1>2. TypeOK'
  BY BoundAssumption, WritesAssumption DEF IInv, Status, Active, Terminal, Waiting,
     AwaitPoints, Holding, TaskDebt, RunInv, CallHasStep, InCall
<1>3. CancelledWait'
  BY <1>1, CancelledKept
<1>4. OnlyTouches(r)
  BY DEF OnlyTouches, Same, IInv
<1>5. RunInv(r)'
  <2>1. /\ UNCHANGED <<task, run, steps, inv, root, lost, pending>> /\ pc'[r] = "answered"
        /\ pc[r] = "llm" /\ RunInv(r)
    BY DEF IInv
  <2>2. lost[r] = {}
    BY <2>1 DEF RunInv, LostIsIdle
  <2> QED BY <2>1, <2>2 DEF RunInv, NothingBeforeTask, RootIsRoot, CallHasStep,
          CallHasInvocation, LostLeavesTraces, LostIsIdle, InLoop, InCall
<1> QED BY <1>2, <1>3, <1>4, <1>5, OneRun

\* The loop is over.
LEMMA LoopEndsInv ==
  ASSUME IInv, NEW r \in Runs, LoopEnds(r)
  PROVE  IInv'
<1>1. PICK s \in Terminal : CloseStep(r, s)
  BY DEF LoopEnds, Terminal
<1>2. /\ pc[r] \in {"llm", "answered"} /\ TypeOK
      /\ UNCHANGED <<task, run, token, inv, proc, owed, owner, cancelled, history>>
  BY DEF LoopEnds, Resumes, IInv
<1>3. SetStep(r, root[r], s) /\ s \in StepStatus
  BY <1>1 DEF CloseStep, StepStatus
<1>4. /\ steps' \in [Runs -> Seq(StepRow)] /\ \A q \in Runs \ {r} : steps'[q] = steps[q]
      /\ Len(steps'[r]) = Len(steps[r]) /\ Len(steps[r]) \in Nat
      /\ \A j \in 1..Len(steps[r]) : steps'[r][j].kind = steps[r][j].kind
      /\ DOMAIN steps[r] = 1..Len(steps[r]) /\ DOMAIN steps'[r] = 1..Len(steps'[r])
  BY <1>2, <1>3, SetStepFacts DEF TypeOK
<1>5. /\ r \notin cancelled /\ cancelled' = cancelled /\ phase' = phase
      /\ \A q \in Runs \ {r} : pc'[q] = pc[q]
  BY DEF LoopEnds, CloseStep, Resumes, Goto, proc, local, IInv, TypeOK, CancelledWait,
     RunInv, NothingBeforeTask
<1> USE DEF TypeOK, rows, proc, local, history, Goto, SetTask, SetRun, CloseStep
<1>6. TypeOK'
  BY <1>1, <1>2, <1>3, <1>4, BoundAssumption, WritesAssumption DEF IInv, Status, Active,
     Terminal, Waiting, AwaitPoints, Holding, TaskDebt, RunInv, CallHasStep, InCall
<1>7. CancelledWait'
  BY <1>5, CancelledKept
<1>8. OnlyTouches(r)
  BY <1>1, <1>2, <1>3, <1>4 DEF OnlyTouches, Same, IInv
<1>9. RunInv(r)'
  <2> USE <1>1, <1>2, <1>3, <1>4, NullAssumption DEF IInv, RunInv, Status, Active,
        Terminal, Waiting, AwaitPoints, Holding, InCall, InLoop
  <2>1. NothingBeforeTask(r)'
    BY DEF NothingBeforeTask, LostIsIdle
  <2>2. RootIsRoot(r)'
    BY DEF RootIsRoot, NothingBeforeTask
  <2>3. CallHasStep(r)'
    BY DEF CallHasStep, OpenToolStep
  <2>4. CallHasInvocation(r)'
    BY DEF CallHasInvocation, CallHasStep, Latest, Succeeded
  <2>5. LostLeavesTraces(r)'
    BY DEF LostLeavesTraces, LostIsIdle, NothingBeforeTask, Latest, OpenToolStep
  <2>6. LostIsIdle(r)'
    BY DEF LostIsIdle, NothingBeforeTask
  <2> QED BY <2>1, <2>2, <2>3, <2>4, <2>5, <2>6 DEF RunInv
<1> QED BY <1>6, <1>7, <1>8, <1>9, OneRun

\* An exception.
LEMMA ServiceRaisesInv ==
  ASSUME IInv, NEW r \in Runs, ServiceRaises(r)
  PROVE  IInv'
<1>1. /\ r \notin cancelled /\ cancelled' = cancelled /\ phase' = phase
      /\ \A q \in Runs \ {r} : pc'[q] = pc[q]
  BY DEF ServiceRaises, Resumes, Goto, proc, local, IInv, TypeOK, CancelledWait, RunInv,
     NothingBeforeTask
<1> USE DEF TypeOK, rows, proc, local, history, Goto, SetTask, SetRun, ServiceRaises,
      Resumes
<1>2. TypeOK'
  BY BoundAssumption, WritesAssumption DEF IInv, Status, Active, Terminal, Waiting,
     AwaitPoints, Holding, TaskDebt, RunInv, CallHasStep, InCall
<1>3. CancelledWait'
  BY <1>1, CancelledKept
<1>4. OnlyTouches(r)
  BY DEF OnlyTouches, Same, IInv
<1>5. RunInv(r)'
  <2>1. task'[r] # NULL /\ lost'[r] = {}
    BY NullAssumption DEF IInv, RunInv, NothingBeforeTask, LostIsIdle, Status, Active
  <2>2. pc'[r] \notin InLoop
    BY DEF IInv, InLoop, InCall
  <2> QED BY <2>1, <2>2, OutsideLoop
<1> QED BY <1>2, <1>3, <1>4, <1>5, OneRun

\* The run row of an ended execution.
LEMMA CloseRunInv ==
  ASSUME IInv, NEW r \in Runs, CloseRun(r)
  PROVE  IInv'
<1>1. /\ r \notin cancelled /\ cancelled' = cancelled /\ phase' = phase
      /\ \A q \in Runs \ {r} : pc'[q] = pc[q]
  BY DEF CloseRun, Goto, proc, local, IInv, TypeOK, CancelledWait, RunInv, NothingBeforeTask
<1> USE DEF TypeOK, rows, proc, local, history, Goto, SetTask, SetRun, CloseRun
<1>2. TypeOK'
  BY BoundAssumption, WritesAssumption DEF IInv, Status, Active, Terminal, Waiting,
     AwaitPoints, Holding, TaskDebt, RunInv, CallHasStep, InCall
<1>3. CancelledWait'
  BY <1>1, CancelledKept
<1>4. OnlyTouches(r)
  BY DEF OnlyTouches, Same, IInv
<1>5. RunInv(r)'
  <2>1. /\ UNCHANGED <<task, steps, inv, lost, pending>> /\ pc'[r] = "none"
        /\ pc[r] = "closing" /\ run'[r] = outcome[r] /\ RunInv(r)
    BY DEF IInv
  <2>2. NothingBeforeTask(r)' /\ LostLeavesTraces(r)' /\ LostIsIdle(r)'
    BY <2>1 DEF RunInv, NothingBeforeTask, LostLeavesTraces, LostIsIdle, Latest
  <2> QED BY <2>1, <2>2 DEF RunInv, RootIsRoot, CallHasStep, CallHasInvocation, InLoop, InCall
<1> QED BY <1>2, <1>3, <1>4, <1>5, OneRun


\* CancelledError: the tool step of a call cut short stays open.
LEMMA ThrowCancelledInv ==
  ASSUME IInv, NEW r \in Runs, ThrowCancelled(r)
  PROVE  IInv'
<1>1. TypeOK /\ SetStep(r, root[r], "CANCELLED") /\ "CANCELLED" \in StepStatus
  BY DEF ThrowCancelled, CloseStep, IInv, StepStatus, Terminal
<1>2. /\ steps' \in [Runs -> Seq(StepRow)] /\ \A q \in Runs \ {r} : steps'[q] = steps[q]
      /\ DOMAIN steps[r] = 1..Len(steps[r]) /\ DOMAIN steps'[r] = 1..Len(steps[r])
      /\ \A j \in 1..Len(steps[r]) : j # root[r] => steps'[r][j] = steps[r][j]
  BY <1>1, SetStepFacts DEF TypeOK
<1>3. /\ pc[r] \in {"llm", "tool", "answered"} /\ phase \notin {"down", "boot"}
      /\ RunInv(r) /\ lost[r] = {}
  BY DEF ThrowCancelled, IInv, CancelledWait, RunInv, LostIsIdle
<1>4. /\ lost'[r] = InFlight(r) /\ pc'[r] = "closing" /\ outcome'[r] = "CANCELLED"
      /\ inv' = inv /\ phase' = phase /\ task' = task
  BY <1>3 DEF ThrowCancelled, CloseStep, Goto, IInv, TypeOK, proc
<1>5. LostLeavesTraces(r)'
  <2> SUFFICES ASSUME lost'[r] # {} PROVE LostLeavesTraces(r)'
    BY DEF LostLeavesTraces
  <2>1. pc[r] = "tool" /\ cur[r] \in Writes
    BY <1>4 DEF InFlight
  <2>2. Len(inv[r]) > 0 /\ Latest(r) = [call |-> cur[r], status |-> "running"]
    BY <1>3, <2>1 DEF RunInv, CallHasInvocation
  <2>3. Len(steps[r]) > 0 /\ steps[r][Len(steps[r])] = OpenToolStep
    BY <1>3, <2>1 DEF RunInv, CallHasStep, InCall
  <2>4. root[r] \in DOMAIN steps[r] /\ steps[r][root[r]].kind = "root"
    BY <1>3, <2>1 DEF RunInv, RootIsRoot, InLoop, InCall
  <2>5. root[r] # Len(steps[r])
    BY <2>3, <2>4 DEF OpenToolStep
  <2>6. Len(steps[r]) \in DOMAIN steps'[r] /\ steps'[r][Len(steps[r])] = OpenToolStep
    BY <1>2, <2>3, <2>5
  <2> QED BY <1>4, <2>1, <2>2, <2>6 DEF LostLeavesTraces, Latest
<1>6. RunInv(r)'
  BY <1>3, <1>4, <1>5 DEF RunInv, NothingBeforeTask, RootIsRoot, CallHasStep,
     CallHasInvocation, LostIsIdle, InLoop, InCall
<1> USE DEF TypeOK, rows, proc, local, history, Goto, ThrowCancelled, CloseStep
<1>7. TypeOK'
  <2>1. lost' \in [Runs -> SUBSET Writes]
    BY DEF IInv, InFlight
  <2> QED BY <1>2, <2>1, BoundAssumption DEF IInv, Status, Active, Terminal, Waiting,
        AwaitPoints, Holding
<1>8. CancelledWait'
  BY <1>3 DEF IInv, CancelledWait
<1>9. OnlyTouches(r)
  BY <1>2 DEF OnlyTouches, Same, IInv
<1> QED BY <1>6, <1>7, <1>8, <1>9, OneRun

\* The task row follows the run row.
LEMMA CloseTaskInv ==
  ASSUME IInv, CloseTask
  PROVE  IInv'
<1>1. PICK r \in Runs, s \in Status : SetTask(r, s)
  BY DEF IInv, TypeOK, CloseTask, TaskDebt
<1>2. UNCHANGED <<run, token, steps, inv, proc, pc, local, history>> /\ owed' = NULL
  BY DEF CloseTask
<1> USE DEF TypeOK, rows, proc, local, history, SetTask
<1>3. TypeOK'
  BY <1>1, <1>2 DEF IInv
<1>4. CancelledWait'
  BY <1>2 DEF IInv, CancelledWait
<1>5. OnlyTouches(r)
  BY <1>1, <1>2 DEF OnlyTouches, Same, IInv
<1>6. task'[r] # NULL /\ RunInv(r)
  BY <1>1, NullAssumption DEF IInv
<1>7. RunInv(r)'
  BY <1>2, <1>6 DEF RunInv, NothingBeforeTask, RootIsRoot, CallHasStep, CallHasInvocation,
     LostLeavesTraces, LostIsIdle, Latest, Succeeded, InCall, InLoop, OpenToolStep
<1> QED BY <1>1, <1>3, <1>4, <1>5, <1>7, OneRun

-----------------------------------------------------------------------------
(* The process. *)

\* What the process knew is gone; a write it was running leaves its rows.
LEMMA DiesInv ==
  ASSUME IInv, Dies
  PROVE  IInv'
<1>1. TypeOK /\ \A r \in Runs : RunInv(r)
  BY DEF IInv
<1>2. TypeOK'
  BY <1>1, BoundAssumption, WritesAssumption DEF Dies, TypeOK, rows, InFlight, Status,
     Active, AwaitPoints
<1>3. CancelledWait'
  BY DEF Dies, CancelledWait
<1>4. ASSUME NEW r \in Runs PROVE RunInv(r)'
  <2>1. /\ UNCHANGED <<task, run, steps, inv>> /\ pc'[r] = "none" /\ phase' = "down"
        /\ pending' = {} /\ lost'[r] = lost[r] \cup InFlight(r) /\ RunInv(r)
    BY <1>1 DEF Dies, rows
  <2>2. InFlight(r) # {} => pc[r] = "tool" /\ cur[r] \in Writes
    BY DEF InFlight
  <2>3. NothingBeforeTask(r)'
    BY <2>1, <2>2 DEF RunInv, NothingBeforeTask
  <2>4. LostLeavesTraces(r)'
    <3>1. CASE lost[r] # {}
      BY <2>1, <3>1 DEF RunInv, LostLeavesTraces, Latest
    <3>2. CASE InFlight(r) # {}
      <4>1. Len(inv[r]) > 0 /\ Latest(r) = [call |-> cur[r], status |-> "running"]
        BY <2>1, <2>2, <3>2 DEF RunInv, CallHasInvocation
      <4>2. Len(steps[r]) > 0 /\ steps[r][Len(steps[r])] = OpenToolStep
        BY <2>1, <2>2, <3>2 DEF RunInv, CallHasStep, InCall
      <4>3. Len(steps[r]) \in DOMAIN steps[r]
        BY <1>1, <4>2 DEF TypeOK
      <4> QED BY <2>1, <2>2, <3>2, <4>1, <4>2, <4>3 DEF LostLeavesTraces, Latest
    <3>3. CASE lost[r] = {} /\ InFlight(r) = {}
      BY <2>1, <3>3 DEF LostLeavesTraces
    <3> QED BY <3>1, <3>2, <3>3
  <2> QED BY <2>1, <2>3, <2>4 DEF RunInv, RootIsRoot, CallHasStep, CallHasInvocation,
        LostIsIdle, InLoop, InCall
<1> QED BY <1>2, <1>3, <1>4 DEF IInv

\* Coroutines are asked to stop; those not started are dropped.
LEMMA ShutdownInv ==
  ASSUME IInv, Shutdown
  PROVE  IInv'
<1>1. TypeOK'
  BY DEF Shutdown, IInv, TypeOK, rows, history, AwaitPoints, Holding
<1>2. CancelledWait'
  BY DEF Shutdown, CancelledWait, IInv, TypeOK
<1>3. ASSUME NEW r \in Runs PROVE RunInv(r)'
  <2>1. /\ UNCHANGED <<task, run, steps, inv, pending, root, cur, outcome, lost>> /\ phase' = "stopping"
        /\ pc'[r] = (IF pc[r] = "submitted" THEN "none" ELSE pc[r]) /\ RunInv(r)
    BY DEF Shutdown, rows, history, IInv
  <2> QED BY <2>1 DEF RunInv, NothingBeforeTask, RootIsRoot, CallHasStep,
        CallHasInvocation, LostLeavesTraces, LostIsIdle, Latest, Succeeded, InCall,
        InLoop, OpenToolStep
<1> QED BY <1>1, <1>2, <1>3 DEF IInv

\* Every active run is to be looked at.
LEMMA RestartInv ==
  ASSUME IInv, Restart
  PROVE  IInv'
<1>1. TypeOK'
  BY BoundAssumption DEF Restart, IInv, TypeOK, rows, local, history
<1>2. CancelledWait'
  BY DEF Restart, CancelledWait, IInv, local
<1>3. ASSUME NEW r \in Runs PROVE RunInv(r)'
  <2>1. /\ UNCHANGED <<task, run, steps, inv, pc, root, cur, outcome, lost>>
        /\ r \in pending' <=> run[r] \in Active
        /\ RunInv(r)
    BY DEF Restart, rows, local, history, IInv
  <2>2. NULL \notin Active /\ "CREATED" \in Active
    BY NullAssumption DEF Status, Active
  <2> QED BY <2>1, <2>2 DEF RunInv, NothingBeforeTask, RootIsRoot, CallHasStep,
        CallHasInvocation, LostLeavesTraces, LostIsIdle, Latest, Succeeded, InCall,
        InLoop, OpenToolStep
<1> QED BY <1>1, <1>2, <1>3 DEF IInv

\* No run with a lost write is in CREATED any more.
LEMMA SubmitRecoveredInv ==
  ASSUME IInv, SubmitRecovered
  PROVE  IInv'
<1>1. TypeOK'
  BY DEF SubmitRecovered, IInv, TypeOK, rows, history, AwaitPoints
<1>2. CancelledWait'
  BY DEF SubmitRecovered, CancelledWait, IInv
<1>3. ASSUME NEW r \in Runs PROVE RunInv(r)'
  <2>1. /\ UNCHANGED <<task, run, steps, inv, root, cur, outcome, pending, lost>>
        /\ phase = "boot" /\ phase' = "up" /\ pending = {}
        /\ pc'[r] = (IF run[r] = "CREATED" THEN "submitted" ELSE pc[r]) /\ RunInv(r)
    BY DEF SubmitRecovered, Resubmitted, rows, history, IInv
  <2>2. NULL # "CREATED"
    BY NullAssumption DEF Status, Active
  <2> QED BY <2>1, <2>2 DEF RunInv, NothingBeforeTask, RootIsRoot, CallHasStep,
        CallHasInvocation, LostLeavesTraces, LostIsIdle, Latest, Succeeded, InCall,
        InLoop, OpenToolStep
<1> QED BY <1>1, <1>2, <1>3 DEF IInv

-----------------------------------------------------------------------------
(* recover(): a run with a lost write can only be quarantined. *)

\* The interrupted call had succeeded.
LEMMA RecoverSucceededInv ==
  ASSUME IInv, NEW r \in Runs, RecoverSucceeded(r)
  PROVE  IInv'
<1>1. TypeOK /\ SetStep(r, LastRunningStep(r), "SUCCEEDED") /\ "SUCCEEDED" \in StepStatus
  BY DEF RecoverSucceeded, IInv, StepStatus, Terminal
<1>2. steps' \in [Runs -> Seq(StepRow)] /\ \A q \in Runs \ {r} : steps'[q] = steps[q]
  BY <1>1, SetStepFacts
<1>3. lost[r] = {} /\ RunInv(r) /\ phase = "boot" /\ r \in pending
  BY DEF RecoverSucceeded, Recovers, IInv, RunInv, LostLeavesTraces
<1> USE DEF TypeOK, rows, proc, local, history, Goto, Requeue, Recovers, RecoverSucceeded
<1>4. TypeOK'
  BY <1>2 DEF IInv, Status, Active, Terminal, Waiting, AwaitPoints, Holding
<1>5. CancelledWait'
  BY DEF IInv, CancelledWait
<1>6. OnlyTouches(r)
  BY <1>2 DEF OnlyTouches, Same, IInv
<1>7. RunInv(r)'
  BY <1>3, <1>1 DEF RunInv, NothingBeforeTask, RootIsRoot, CallHasStep, CallHasInvocation,
     LostLeavesTraces, LostIsIdle, InCall, InLoop
<1> QED BY <1>4, <1>5, <1>6, <1>7, OneRun

\* The interrupted call can be made again.
LEMMA RecoverRetryInv ==
  ASSUME IInv, NEW r \in Runs, RecoverRetry(r)
  PROVE  IInv'
<1>1. TypeOK /\ SetInvocation(r, "failed") /\ "failed" \in InvocationStatus
  BY DEF RecoverRetry, IInv, InvocationStatus
<1>2. inv' \in [Runs -> Seq(InvocationRow)] /\ \A q \in Runs \ {r} : inv'[q] = inv[q]
  BY <1>1, SetInvocationFacts
<1>3. lost[r] = {} /\ RunInv(r) /\ phase = "boot" /\ r \in pending
  BY DEF RecoverRetry, Recovers, SafeToRetry, IInv, RunInv, LostLeavesTraces
<1> USE DEF TypeOK, rows, proc, local, history, Goto, Requeue, Recovers, RecoverRetry
<1>4. TypeOK'
  BY <1>2 DEF IInv, Status, Active, Terminal, Waiting, AwaitPoints, Holding
<1>5. CancelledWait'
  BY DEF IInv, CancelledWait
<1>6. OnlyTouches(r)
  BY <1>2 DEF OnlyTouches, Same, IInv
<1>7. RunInv(r)'
  BY <1>3, <1>1 DEF RunInv, NothingBeforeTask, RootIsRoot, CallHasStep, CallHasInvocation,
     LostLeavesTraces, LostIsIdle, InCall, InLoop
<1> QED BY <1>4, <1>5, <1>6, <1>7, OneRun

\* Nobody knows what the interrupted call did.
LEMMA RecoverQuarantineInv ==
  ASSUME IInv, NEW r \in Runs, RecoverQuarantine(r)
  PROVE  IInv'
<1>1. RunInv(r) /\ phase = "boot" /\ r \in pending
  BY DEF RecoverQuarantine, Recovers, IInv
<1> USE DEF TypeOK, rows, proc, local, history, SetRun, Recovers, RecoverQuarantine
<1>2. TypeOK'
  BY DEF IInv, Status, Active, Terminal, Waiting, AwaitPoints, Holding, TaskDebt
<1>3. CancelledWait'
  BY DEF IInv, CancelledWait
<1>4. OnlyTouches(r)
  BY DEF OnlyTouches, Same, IInv
<1>5. RunInv(r)'
  BY <1>1 DEF IInv, RunInv, NothingBeforeTask, RootIsRoot, CallHasStep, CallHasInvocation,
     LostLeavesTraces, LostIsIdle, Latest, Succeeded, InCall, InLoop, OpenToolStep
<1> QED BY <1>2, <1>3, <1>4, <1>5, OneRun

\* No interrupted call to judge the run by.
LEMMA RecoverByStatusInv ==
  ASSUME IInv, NEW r \in Runs, RecoverByStatus(r)
  PROVE  IInv'
<1>1. RunInv(r) /\ phase = "boot" /\ r \in pending
  BY DEF RecoverByStatus, Recovers, IInv
<1>2. lost[r] = {}
  <2> SUFFICES ASSUME lost[r] # {} PROVE Judged(r)
    BY DEF RecoverByStatus
  <2>1. Interrupted(r)
    BY <1>1 DEF RunInv, LostLeavesTraces, Interrupted, HasRunningStep, IsRunning,
       OpenToolStep
  <2>2. OutcomeUnknown(Latest(r))
    BY <1>1 DEF RunInv, LostLeavesTraces, OutcomeUnknown, SafeToRetry
  <2> QED BY <2>1, <2>2 DEF Judged
<1> USE DEF TypeOK, rows, proc, local, history, SetRun, Recovers, RecoverByStatus
<1>3. TypeOK'
  <2>1. "CREATED" \in Status
    BY DEF Status, Active
  <2>2. CASE run[r] = "RUNNING"
    <3>1. owed' = [run |-> r, status |-> "CREATED"] /\ run' = [run EXCEPT ![r] = "CREATED"]
      BY <2>2
    <3>2. owed' \in TaskDebt /\ run' \in [Runs -> Status \cup {NULL}]
      BY <2>1, <3>1 DEF IInv, TaskDebt
    <3> QED BY <3>2 DEF IInv
  <2>3. CASE run[r] # "RUNNING"
    BY <2>3 DEF IInv
  <2> QED BY <2>2, <2>3
<1>4. CancelledWait'
  BY DEF IInv, CancelledWait
<1>5. OnlyTouches(r)
  BY DEF OnlyTouches, Same, IInv
<1>6. RunInv(r)'
  BY <1>1, <1>2 DEF IInv, RunInv, NothingBeforeTask, RootIsRoot, CallHasStep,
     CallHasInvocation, LostLeavesTraces, LostIsIdle, Latest, Succeeded, InCall, InLoop,
     OpenToolStep
<1> QED BY <1>3, <1>4, <1>5, <1>6, OneRun

-----------------------------------------------------------------------------
(* wait, resume, cancel. *)

\* All three write the status of an existing run and nothing a run's
\* invariant reads but that.
LEMMA ControlInv ==
  ASSUME IInv, NEW r \in Runs, NEW s \in Status, run[r] # NULL, phase = "up",
         SetRun(r, s), owed' = [run |-> r, status |-> s], token' \in [Runs -> Tokens \cup {NULL}],
         UNCHANGED <<task, steps, inv, proc, pc, local, history>>
  PROVE  IInv'
<1> USE DEF TypeOK, rows, proc, local, history, SetRun
<1>1. TypeOK'
  BY DEF IInv, TaskDebt
<1>2. CancelledWait'
  BY DEF IInv, CancelledWait
<1>3. OnlyTouches(r)
  BY DEF OnlyTouches, Same, IInv
<1>4. RunInv(r)'
  BY DEF IInv, RunInv, NothingBeforeTask, RootIsRoot, CallHasStep, CallHasInvocation,
     LostLeavesTraces, LostIsIdle, Latest, Succeeded, InCall, InLoop, OpenToolStep
<1> QED BY <1>1, <1>2, <1>3, <1>4, OneRun

\* wait(): a waiting status and a token.
LEMMA WaitInv ==
  ASSUME IInv, NEW r \in Runs, NEW s \in Waiting, NEW t \in Tokens, Wait(r, s, t)
  PROVE  IInv'
<1>1. token' \in [Runs -> Tokens \cup {NULL}] /\ s \in Status
  BY DEF Wait, IInv, TypeOK, Status, Active
<1> QED BY <1>1, ControlInv DEF Wait

\* resume(): back to CREATED.
LEMMA ResumeInv ==
  ASSUME IInv, NEW r \in Runs, NEW t \in Tokens, Resume(r, t)
  PROVE  IInv'
<1>1. token' \in [Runs -> Tokens \cup {NULL}] /\ run[r] # NULL /\ "CREATED" \in Status
  BY NullAssumption DEF Resume, IInv, TypeOK, Status, Active
<1> QED BY <1>1, ControlInv DEF Resume

\* cancel(): CANCELLED, whatever the run was.
LEMMA CancelInv ==
  ASSUME IInv, NEW r \in Runs, Cancel(r)
  PROVE  IInv'
<1>1. token' \in [Runs -> Tokens \cup {NULL}] /\ "CANCELLED" \in Status
  BY DEF Cancel, IInv, TypeOK, Status, Terminal
<1> QED BY <1>1, ControlInv DEF Cancel

-----------------------------------------------------------------------------
(* The theorems. *)

\* An empty database.
LEMMA InitInv == Init => IInv
BY BoundAssumption DEF Init, IInv, TypeOK, CancelledWait, Status, Active, Terminal,
   Waiting, AwaitPoints, Holding, RunInv, NothingBeforeTask, RootIsRoot, CallHasStep,
   CallHasInvocation, LostLeavesTraces, LostIsIdle, Latest, Succeeded, InCall, InLoop,
   OpenToolStep

\* One step of the system, by the lemma of its action.
LEMMA NextInv == IInv /\ [Next]_vars => IInv'
<1> SUFFICES ASSUME IInv, [Next]_vars PROVE IInv'
  OBVIOUS
<1>1. CASE UNCHANGED vars
  BY <1>1 DEF vars, rows, proc, local, history, IInv, TypeOK, CancelledWait,
              RunInv, NothingBeforeTask, RootIsRoot, CallHasStep, CallHasInvocation,
              LostLeavesTraces, LostIsIdle, Latest, Succeeded, InCall, InLoop, OpenToolStep
<1>2. ASSUME NEW r \in Runs, NEW origin \in {"message", "schedule", "event"}, CreateTask(r, origin)
      PROVE  IInv'
  BY <1>2, CreateTaskInv
<1>3. ASSUME NEW r \in Runs, Opening(r) PROVE IInv'
  BY <1>3, CreateRunInv, StartTaskInv, StartRunInv, OpenStepInv, NoHandlerInv DEF Opening
<1>4. ASSUME NEW r \in Runs, ToolCall(r) PROVE IInv'
  BY <1>4, RequestToolInv, ReuseResultInv, BeginRejectedInv, BeginInvocationInv, RejectInv,
     CacheHitInv, RunToolInv, ToolReturnsInv, CloseToolStepInv DEF ToolCall
<1>5. ASSUME NEW r \in Runs, Closing(r) PROVE IInv'
  BY <1>5, AnswerInv, LoopEndsInv, ThrowCancelledInv, CloseRunInv DEF Closing
<1>6. ASSUME NEW r \in Runs, Recover(r) PROVE IInv'
  BY <1>6, RecoverSucceededInv, RecoverRetryInv, RecoverQuarantineInv, RecoverByStatusInv
     DEF Recover
<1>7. ASSUME NEW r \in Runs, Control(r) PROVE IInv'
  BY <1>7, WaitInv, ResumeInv, CancelInv DEF Control
<1>8. CASE Process
  BY <1>8, ShutdownInv, DiesInv, RestartInv, SubmitRecoveredInv, CloseTaskInv DEF Process,
     Exit, Crash
<1> QED
  BY <1>1, <1>2, <1>3, <1>4, <1>5, <1>6, <1>7, <1>8, ServiceRaisesInv DEF Next, Coroutine

\* The inductive invariant holds in every reachable state.
LEMMA Invariance == Spec => []IInv
BY InitInv, NextInv, PTL DEF Spec

\* Every variable keeps its type: in particular the rows never hold a status
\* the enums of store.py lack, and no execution makes more than MaxCalls calls.
THEOREM TypeCorrect == Spec => []TypeOK
<1>1. IInv => TypeOK
  BY DEF IInv
<1> QED BY <1>1, Invariance, PTL

\* No write whose success is recorded is ever under way again in that run,
\* over any number of repetitions by the model, crashes, restarts, resumes.
THEOREM SuccessfulWritesAreNotRepeated == Spec => []NeverRepeatsASuccessfulWrite
<1>1. IInv => NeverRepeatsASuccessfulWrite
  BY DEF IInv, RunInv, CallHasInvocation, NeverRepeatsASuccessfulWrite
<1> QED BY <1>1, Invariance, PTL

\* A run whose process or coroutine was killed during a write never gets
\* back into the agent loop.
THEOREM InterruptedWritesAreNotReplayed == Spec => []InterruptedWriteNeverReplayed
<1>1. IInv => InterruptedWriteNeverReplayed
  BY DEF IInv, RunInv, LostIsIdle, InterruptedWriteNeverReplayed, Executing, AwaitPoints,
     Holding
<1> QED BY <1>1, Invariance, PTL

-----------------------------------------------------------------------------
(***************************************************************************)
(* Without control operations it implements RunLifecycle; and what the     *)
(* rows say of a run that is finished or waits for a human.                *)
(***************************************************************************)


Queued == {"CREATED", "SCHEDULED"}
Unfinished == Queued \cup {"RUNNING"}

\* The task and run rows, by the place of the coroutine.
StatusInv(r) ==
  /\ run[r] = NULL => pc[r] \in {"none", "creating"} /\ task[r] \in Queued \cup {NULL}
  /\ pc[r] = "creating" => run[r] = NULL /\ task[r] \in Queued
  /\ pc[r] \in {"starting", "submitted", "begun"} => run[r] \in Queued
  /\ pc[r] \in InLoop \cup {"opening"} => run[r] = "RUNNING"
  /\ pc[r] = "closing" => run[r] \in Unfinished /\ outcome[r] \in Terminal \cup {"CREATED"}
  /\ task[r] \in Terminal => run[r] = task[r]
  /\ r \in pending => phase = "boot" /\ pc[r] = "none" /\ run[r] \in Active
  /\ phase = "down" => pc[r] = "none"
  /\ phase = "boot" => pc[r] \in {"none", "closing"}

\* The newest root step is closed as SUCCEEDED.
RootSucceeded(r) ==
  \E i \in DOMAIN steps[r] :
    /\ steps[r][i] = [kind |-> "root", status |-> "SUCCEEDED"]
    /\ \A j \in DOMAIN steps[r] : j > i => steps[r][j].kind = "tool"

\* What is held has its cause, the steps after the loop's own are tool calls,
\* and what succeeds has closed its own step.
WorkInv(r) ==
  /\ run[r] \in Waiting =>
       run[r] = "WAITING_APPROVAL" /\ Interrupted(r) /\ OutcomeUnknown(Latest(r))
  /\ pc[r] \in InLoop =>
       \A j \in DOMAIN steps[r] : j > root[r] => steps[r][j].kind = "tool"
  /\ run[r] = "SUCCEEDED" \/ (pc[r] = "closing" /\ outcome[r] = "SUCCEEDED") => RootSucceeded(r)

\* One coroutine at a time is between two commits, none while a task row is owed.
OneHolds == \A p, q \in Runs : pc[p] \in Holding /\ pc[q] \in Holding => p = q
Debt ==
  owed # NULL => run[owed.run] = owed.status /\ \A q \in Runs : pc[q] \in AwaitPoints

LifeInv == OneHolds /\ Debt /\ \A r \in Runs : StatusInv(r) /\ WorkInv(r)

-----------------------------------------------------------------------------
(* How a run looks. *)

\* Places of the coroutine at which the run is executing.
ActivePlaces == {"begun", "opening"} \cup InLoop

LEMMA ExecutingFacts == Executing = ActivePlaces
  BY DEF Executing, ActivePlaces, InLoop, InCall, AwaitPoints, Holding

LEMMA LifeFacts ==
  ASSUME NEW s, NEW place, NEW closes
  PROVE  /\ s = NULL => LifeOf(s, place, closes) = "absent"
         /\ s \in Terminal => LifeOf(s, place, closes) = "done"
         /\ s \in Waiting => LifeOf(s, place, closes) = "held"
         /\ s \in Unfinished /\ place \in Executing => LifeOf(s, place, closes) = "active"
         /\ s \in Unfinished /\ place = "closing" /\ closes \in Terminal =>
              LifeOf(s, place, closes) = "active"
         /\ s \in Unfinished /\ place \notin Executing /\ (place = "closing" => closes \notin Terminal) =>
              LifeOf(s, place, closes) = "queued"
<1>1. NULL \notin Terminal \cup Waiting \cup Unfinished
  BY NullAssumption DEF Status, Active, Unfinished, Queued
<1>2. Terminal \cap Waiting = {} /\ Terminal \cap Unfinished = {} /\ Waiting \cap Unfinished = {}
  BY DEF Terminal, Waiting, Unfinished, Queued
<1>3. {"CREATED", "SCHEDULED", "RUNNING"} = Unfinished
  BY DEF Unfinished, Queued
<1> HIDE DEF Terminal, Waiting, Unfinished
<1> QED
  BY <1>1, <1>2, <1>3 DEF LifeOf

\* What a step may do to the run it is about.
Change(r) ==
  \/ Life(r)' = Life(r) /\ lost'[r] = lost[r]
  \/ Life(r) = "absent" /\ Life(r)' = "queued" /\ lost'[r] = lost[r]
  \/ Life(r) = "queued" /\ Life(r)' = "active" /\ lost'[r] = lost[r] /\ lost[r] = {}
  \/ Life(r) = "active" /\ Life(r)' = "done" /\ lost'[r] = lost[r]
  \/ Life(r) = "queued" /\ Life(r)' = "done" /\ lost'[r] = lost[r]
  \/ Life(r) = "active" /\ Life(r)' = "queued" /\ lost'[r] = lost[r]
  \/ Life(r) = "queued" /\ Life(r)' = "held" /\ lost'[r] = lost[r]
  \/ Life(r) = "active" /\ Life(r)' = "active" /\ lost[r] \subseteq lost'[r]

Abstract == [Lifecycle!LifeNext]_(Lifecycle!lifeVars)

\* Such a change of one run is a step of RunLifecycle.
LEMMA AbstractRun ==
  ASSUME NEW r \in Runs, Change(r),
         \A q \in Runs \ {r} : Life(q)' = Life(q) /\ lost'[q] = lost[q]
  PROVE  Abstract
<1> DEFINE life == [q \in Runs |-> Life(q)]
           tainted == {q \in Runs : lost[q] # {}}
<1>1. life' = [life EXCEPT ![r] = Life(r)']
  OBVIOUS
<1>2. ASSUME lost'[r] = lost[r] PROVE tainted' = tainted
  BY <1>2
<1>3. CASE Life(r)' = Life(r) /\ lost'[r] = lost[r]
  <2>1. life' = life /\ tainted' = tainted
    BY <1>2, <1>3
  <2> QED
    BY <2>1 DEF Abstract, Lifecycle!lifeVars
<1>4. CASE Life(r) = "active" /\ Life(r)' = "active" /\ lost[r] \subseteq lost'[r]
  <2>1. life' = life
    BY <1>4
  <2>2. tainted' = tainted \/ tainted' = tainted \cup {r}
    BY <1>4
  <2>3. CASE tainted' = tainted
    BY <2>1, <2>3 DEF Abstract, Lifecycle!lifeVars
  <2>4. CASE tainted' = tainted \cup {r}
    <3>1. Lifecycle!Cut(r)
      BY <1>4, <2>1, <2>4 DEF Lifecycle!Cut
    <3> QED
      BY <3>1 DEF Abstract, Lifecycle!LifeNext
  <2> QED
    BY <2>2, <2>3, <2>4
<1>5. ASSUME NEW from, NEW to, Life(r) = from, Life(r)' = to
      PROVE  Lifecycle!Moves(r, from, to)
  BY <1>1, <1>5 DEF Lifecycle!Moves
<1>6. CASE Life(r) = "absent" /\ Life(r)' = "queued" /\ lost'[r] = lost[r]
  <2>1. Lifecycle!Open(r)
    BY <1>2, <1>5, <1>6 DEF Lifecycle!Open
  <2> QED
    BY <2>1 DEF Abstract, Lifecycle!LifeNext
<1>7. CASE Life(r) = "queued" /\ Life(r)' = "active" /\ lost'[r] = lost[r] /\ lost[r] = {}
  <2>1. Lifecycle!Start(r)
    BY <1>2, <1>5, <1>7 DEF Lifecycle!Start
  <2> QED
    BY <2>1 DEF Abstract, Lifecycle!LifeNext
<1>8. CASE Life(r) = "active" /\ Life(r)' = "done" /\ lost'[r] = lost[r]
  <2>1. Lifecycle!Finish(r)
    BY <1>2, <1>5, <1>8 DEF Lifecycle!Finish
  <2> QED
    BY <2>1 DEF Abstract, Lifecycle!LifeNext
<1>9. CASE Life(r) = "queued" /\ Life(r)' = "done" /\ lost'[r] = lost[r]
  <2>1. Lifecycle!Refuse(r)
    BY <1>2, <1>5, <1>9 DEF Lifecycle!Refuse
  <2> QED
    BY <2>1 DEF Abstract, Lifecycle!LifeNext
<1>10. CASE Life(r) = "active" /\ Life(r)' = "queued" /\ lost'[r] = lost[r]
  <2>1. Lifecycle!Drop(r)
    BY <1>2, <1>5, <1>10 DEF Lifecycle!Drop
  <2> QED
    BY <2>1 DEF Abstract, Lifecycle!LifeNext
<1>11. CASE Life(r) = "queued" /\ Life(r)' = "held" /\ lost'[r] = lost[r]
  <2>1. Lifecycle!Hold(r)
    BY <1>2, <1>5, <1>11 DEF Lifecycle!Hold
  <2> QED
    BY <2>1 DEF Abstract, Lifecycle!LifeNext
<1> QED
  BY <1>3, <1>4, <1>6, <1>7, <1>8, <1>9, <1>10, <1>11 DEF Change

-----------------------------------------------------------------------------
(* Frames. *)

LEMMA RowFrame ==
  ASSUME NEW q \in Runs, StatusInv(q), WorkInv(q), Same(q), phase' = phase
  PROVE  StatusInv(q)' /\ WorkInv(q)' /\ Life(q)' = Life(q) /\ lost'[q] = lost[q]
  BY DEF Same, StatusInv, WorkInv, RootSucceeded, Interrupted, HasRunningStep, IsRunning,
         OutcomeUnknown, SafeToRetry, Latest, Life

\* The coroutine that runs is the only one between two commits, and no task row is owed.
LEMMA HasTurn ==
  ASSUME LifeInv, NEW r \in Runs, LoopFree \/ pc[r] \in Holding, TypeOK
  PROVE  Turn(r)
<1>1. CASE LoopFree
  BY <1>1 DEF LoopFree, Turn
<1>2. CASE pc[r] \in Holding
  <2>1. owed = NULL
    BY <1>2 DEF LifeInv, Debt, AwaitPoints, Holding
  <2>2. \A q \in Runs \ {r} : pc[q] \in AwaitPoints
    BY <1>2 DEF LifeInv, OneHolds, TypeOK
  <2> QED
    BY <2>1, <2>2 DEF Turn
<1> QED
  BY <1>1, <1>2

\* What a step keeps: the invariant, the promise of RunLifecycle, finished runs.
FinishedKept == \A r \in Runs : run[r] \in Terminal => run'[r] = run[r]
Preserves == LifeInv' /\ Abstract /\ FinishedKept

\* An action that touches one run has that run's invariant to restore, and does
\* to the run what RunLifecycle allows.
LEMMA OneRunLife ==
  ASSUME LifeInv, NEW r \in Runs, Turn(r), OnlyTouches(r), StatusInv(r)', WorkInv(r)', Change(r),
         \/ owed' = NULL
         \/ /\ owed' = [run |-> r, status |-> run'[r]]
            /\ pc'[r] \in AwaitPoints,
         run[r] \in Terminal => run'[r] = run[r]
  PROVE  Preserves
<1>1. \A q \in Runs \ {r} : StatusInv(q)' /\ WorkInv(q)' /\ Life(q)' = Life(q) /\ lost'[q] = lost[q]
  BY RowFrame DEF LifeInv, OnlyTouches
<1>2. \A q \in Runs \ {r} : pc'[q] \in AwaitPoints
  BY DEF Turn, OnlyTouches, Same
<1>3. OneHolds'
  BY <1>2 DEF OneHolds, AwaitPoints, Holding
<1>4. Debt'
  BY <1>2 DEF Debt
<1>5. LifeInv'
  BY <1>1, <1>3, <1>4 DEF LifeInv
<1>6. FinishedKept
  BY DEF FinishedKept, OnlyTouches, Same
<1>7. Abstract
  BY <1>1, AbstractRun
<1> QED
  BY <1>5, <1>6, <1>7 DEF Preserves

\* The status groups are apart, and NULL is in none.
LEMMA StatusFacts ==
  /\ Terminal \cap Unfinished = {} /\ Waiting \cap Unfinished = {} /\ Terminal \cap Waiting = {}
  /\ NULL \notin Terminal \cup Unfinished \cup Waiting
  /\ Active = Unfinished \cup Waiting
  /\ Queued \subseteq Unfinished /\ "RUNNING" \in Unfinished /\ "RUNNING" \notin Queued
  /\ "CREATED" \in Queued
  /\ "SUCCEEDED" \in Terminal /\ "FAILED" \in Terminal /\ "CANCELLED" \in Terminal
  /\ "WAITING_APPROVAL" \in Waiting
BY NullAssumption DEF Terminal, Unfinished, Waiting, Queued, Active, Status

-----------------------------------------------------------------------------
(* Opening a run. *)

\* A new task row.
LEMMA CreateTaskLife ==
  ASSUME IInv, LifeInv, NEW r \in Runs, NEW origin \in {"message", "schedule", "event"},
         CreateTask(r, origin)
  PROVE  Preserves
<1>1. /\ Turn(r) /\ owed' = NULL
      /\ task[r] = NULL /\ pc[r] = "none" /\ run[r] = NULL /\ r \notin pending
      /\ phase = "up"
  BY DEF CreateTask, LoopFree, Turn, IInv, RunInv, NothingBeforeTask
<1>2. /\ task'[r] \in Queued /\ run'[r] = NULL /\ pc'[r] = "creating" /\ lost'[r] = lost[r]
      /\ phase' = "up" /\ r \notin pending' /\ outcome'[r] = outcome[r]
  BY <1>1 DEF CreateTask, SetTask, Goto, proc, history, IInv, TypeOK, Queued
<1>3. OnlyTouches(r)
  BY DEF CreateTask, SetTask, Goto, proc, history, OnlyTouches, Same, IInv, TypeOK
<1>4. StatusInv(r)' /\ WorkInv(r)'
  BY <1>2, StatusFacts DEF StatusInv, WorkInv, InLoop, InCall
<1>5. Change(r)
  BY <1>1, <1>2, LifeFacts DEF Change, Life
<1> QED
  BY <1>1, <1>2, <1>3, <1>4, <1>5, OneRunLife

\* Its run row.
LEMMA CreateRunLife ==
  ASSUME IInv, LifeInv, NEW r \in Runs, CreateRun(r)
  PROVE  Preserves
<1>1. /\ Turn(r) /\ owed' = NULL
      /\ pc[r] = "creating" /\ run[r] = NULL /\ task[r] \in Queued /\ phase \notin {"down", "boot"}
      /\ r \notin pending
  <2>1. pc[r] \in Holding
    BY DEF CreateRun, Holding
  <2>2. Turn(r)
    BY <2>1, HasTurn DEF IInv
  <2> QED
    BY <2>2 DEF CreateRun, Turn, LifeInv, StatusInv
<1>2. /\ task'[r] = task[r] /\ run'[r] = task[r] /\ pc'[r] \in {"starting", "submitted"}
      /\ lost'[r] = lost[r] /\ phase' = phase /\ r \notin pending'
  BY <1>1 DEF CreateRun, SetRun, Goto, proc, local, history, IInv, TypeOK
<1>3. OnlyTouches(r)
  BY DEF CreateRun, SetRun, Goto, proc, local, history, OnlyTouches, Same, IInv, TypeOK
<1>4. StatusInv(r)' /\ WorkInv(r)'
  BY <1>1, <1>2, StatusFacts DEF StatusInv, WorkInv, InLoop, InCall
<1>5. Change(r)
  <2>1. pc'[r] \notin Executing /\ pc'[r] # "closing"
    BY <1>2 DEF Executing
  <2> QED
    BY <1>1, <1>2, <2>1, StatusFacts, LifeFacts DEF Change, Life
<1> QED
  BY <1>1, <1>2, <1>3, <1>4, <1>5, StatusFacts, OneRunLife

\* Its execution begins: not that of a run with a lost write.
LEMMA StartTaskLife ==
  ASSUME IInv, LifeInv, NEW r \in Runs, StartTask(r)
  PROVE  Preserves
<1>1. /\ Turn(r) /\ owed' = NULL
      /\ pc[r] \in {"starting", "submitted"} /\ run[r] \in Queued /\ phase \notin {"down", "boot"}
      /\ r \notin pending /\ lost[r] = {}
  BY DEF StartTask, Turn, LifeInv, StatusInv, IInv, RunInv, LostIsIdle
<1>2. /\ task'[r] = "RUNNING" /\ run'[r] = run[r] /\ pc'[r] = "begun"
      /\ lost'[r] = lost[r] /\ phase' = phase /\ r \notin pending'
  BY <1>1 DEF StartTask, SetTask, Goto, proc, local, history, IInv, TypeOK
<1>3. OnlyTouches(r)
  BY DEF StartTask, SetTask, Goto, proc, local, history, OnlyTouches, Same, IInv, TypeOK
<1>4. StatusInv(r)' /\ WorkInv(r)'
  BY <1>1, <1>2, StatusFacts DEF StatusInv, WorkInv, InLoop, InCall
<1>5. Change(r)
  <2>1. pc[r] \notin Executing /\ pc[r] # "closing" /\ pc'[r] \in Executing
    BY <1>1, <1>2, ExecutingFacts DEF ActivePlaces, InLoop, InCall
  <2> QED
    BY <1>1, <1>2, <2>1, StatusFacts, LifeFacts DEF Change, Life
<1> QED
  BY <1>1, <1>2, <1>3, <1>4, <1>5, OneRunLife

\* The run row follows.
LEMMA StartRunLife ==
  ASSUME IInv, LifeInv, NEW r \in Runs, StartRun(r)
  PROVE  Preserves
<1>1. /\ Turn(r) /\ owed' = NULL
      /\ pc[r] = "begun" /\ run[r] \in Queued /\ phase \notin {"down", "boot"}
      /\ r \notin pending /\ task[r] \notin Terminal
  <2>1. pc[r] \in Holding
    BY DEF StartRun, Holding
  <2>2. Turn(r)
    BY <2>1, HasTurn DEF IInv
  <2> QED
    BY <2>2, StatusFacts DEF StartRun, Turn, LifeInv, StatusInv
<1>2. /\ task'[r] = task[r] /\ run'[r] = "RUNNING" /\ pc'[r] = "opening"
      /\ lost'[r] = lost[r] /\ phase' = phase /\ r \notin pending'
  BY <1>1 DEF StartRun, SetRun, Goto, proc, local, history, IInv, TypeOK
<1>3. OnlyTouches(r)
  BY DEF StartRun, SetRun, Goto, proc, local, history, OnlyTouches, Same, IInv, TypeOK
<1>4. StatusInv(r)' /\ WorkInv(r)'
  BY <1>1, <1>2, StatusFacts DEF StatusInv, WorkInv, InLoop, InCall
<1>5. Change(r)
  <2>1. pc[r] \in Executing /\ pc'[r] \in Executing
    BY <1>1, <1>2, ExecutingFacts DEF ActivePlaces
  <2> QED
    BY <1>1, <1>2, <2>1, StatusFacts, LifeFacts DEF Change, Life
<1> QED
  BY <1>1, <1>2, <1>3, <1>4, <1>5, StatusFacts, OneRunLife

\* The execution's own step is the last one.
LEMMA OpenStepLife ==
  ASSUME IInv, LifeInv, NEW r \in Runs, OpenStep(r)
  PROVE  Preserves
<1>1. /\ Turn(r) /\ owed' = NULL
      /\ pc[r] = "opening" /\ run[r] = "RUNNING" /\ phase \notin {"down", "boot"}
      /\ r \notin pending /\ task[r] \notin Terminal
  <2>1. pc[r] \in Holding
    BY DEF OpenStep, Holding
  <2>2. Turn(r)
    BY <2>1, HasTurn DEF IInv
  <2> QED
    BY <2>2, StatusFacts DEF OpenStep, Turn, LifeInv, StatusInv
<1>2. /\ task'[r] = task[r] /\ run'[r] = "RUNNING" /\ pc'[r] = "llm" /\ root'[r] = Len(steps[r]) + 1
      /\ lost'[r] = lost[r] /\ phase' = phase /\ r \notin pending'
  BY <1>1 DEF OpenStep, Goto, proc, history, IInv, TypeOK
<1>3. AddStep(r, "root") /\ TypeOK
  BY DEF OpenStep, IInv
<1>4. /\ steps' \in [Runs -> Seq(StepRow)] /\ \A q \in Runs \ {r} : steps'[q] = steps[q]
      /\ Len(steps'[r]) = Len(steps[r]) + 1 /\ Len(steps[r]) \in Nat
  BY <1>3, AddStepFacts
<1>5. OnlyTouches(r)
  BY <1>3, <1>4 DEF OpenStep, Goto, proc, history, OnlyTouches, Same, TypeOK
<1>6. StatusInv(r)'
  BY <1>1, <1>2, StatusFacts DEF StatusInv, InLoop, InCall
<1>7. WorkInv(r)'
  <2>1. DOMAIN steps'[r] = 1..Len(steps[r]) + 1
    BY <1>4
  <2> QED
    BY <1>2, <1>4, <2>1, StatusFacts DEF WorkInv
<1>8. Change(r)
  <2>1. pc[r] \in Executing /\ pc'[r] \in Executing
    BY <1>1, <1>2, ExecutingFacts DEF ActivePlaces, InLoop
  <2> QED
    BY <1>1, <1>2, <2>1, StatusFacts, LifeFacts DEF Change, Life
<1> QED
  BY <1>1, <1>2, <1>5, <1>6, <1>7, <1>8, OneRunLife

\* No handler for the template's kind.
LEMMA NoHandlerLife ==
  ASSUME IInv, LifeInv, NEW r \in Runs, NoHandler(r)
  PROVE  Preserves
<1>1. /\ Turn(r)
      /\ pc[r] = "submitted" /\ run[r] \in Queued /\ phase \notin {"down", "boot"}
      /\ r \notin pending /\ task[r] \notin Terminal
  BY StatusFacts DEF NoHandler, LifeInv, StatusInv
<1>2. /\ task'[r] = task[r] /\ run'[r] = "FAILED" /\ pc'[r] = "none"
      /\ owed' = [run |-> r, status |-> "FAILED"]
      /\ lost'[r] = lost[r] /\ phase' = phase /\ r \notin pending'
  BY <1>1 DEF NoHandler, SetRun, Goto, proc, local, history, IInv, TypeOK
<1>3. OnlyTouches(r)
  BY DEF NoHandler, SetRun, Goto, proc, local, history, OnlyTouches, Same, IInv, TypeOK
<1>4. StatusInv(r)' /\ WorkInv(r)'
  BY <1>1, <1>2, StatusFacts DEF StatusInv, WorkInv, InLoop, InCall
<1>5. Change(r)
  <2>1. pc[r] \notin Executing /\ pc[r] # "closing"
    BY <1>1 DEF Executing
  <2> QED
    BY <1>1, <1>2, <2>1, StatusFacts, LifeFacts DEF Change, Life
<1> QED
  BY <1>1, <1>2, <1>3, <1>4, <1>5, StatusFacts, OneRunLife DEF AwaitPoints

-----------------------------------------------------------------------------
(* The agent loop. *)

\* Within the loop a run stays RUNNING, and the steps behind its own are tools.
LEMMA LoopMove ==
  ASSUME IInv, LifeInv, NEW r \in Runs, pc[r] \in InLoop, pc'[r] \in InLoop, Turn(r),
         owed' = owed, OnlyTouches(r),
         task'[r] = task[r], run'[r] = run[r], lost'[r] = lost[r], pending' = pending,
         \A j \in DOMAIN steps'[r] : j > root'[r] => steps'[r][j].kind = "tool"
  PROVE  Preserves
<1>1. /\ run[r] = "RUNNING" /\ phase \notin {"down", "boot"} /\ r \notin pending
      /\ task[r] \notin Terminal
  BY StatusFacts DEF LifeInv, StatusInv, InLoop, InCall
<1>2. owed' = NULL /\ phase' = phase
  BY DEF Turn, OnlyTouches
<1>3. StatusInv(r)' /\ WorkInv(r)'
  BY <1>1, <1>2, StatusFacts DEF StatusInv, WorkInv, InLoop, InCall
<1>4. Change(r)
  <2>1. pc[r] \in Executing /\ pc'[r] \in Executing
    BY ExecutingFacts DEF ActivePlaces
  <2> QED
    BY <1>1, <2>1, StatusFacts, LifeFacts DEF Change, Life
<1> QED
  BY <1>1, <1>2, <1>3, <1>4, StatusFacts, OneRunLife

\* Behind the loop's own step there are only tool steps.
LEMMA ToolsBehindRoot ==
  ASSUME IInv, LifeInv, NEW r \in Runs, pc[r] \in InLoop
  PROVE  /\ root[r] \in 1..Len(steps[r]) /\ DOMAIN steps[r] = 1..Len(steps[r])
         /\ Len(steps[r]) \in Nat /\ steps[r][root[r]].kind = "root"
         /\ \A j \in 1..Len(steps[r]) : j > root[r] => steps[r][j].kind = "tool"
BY DEF IInv, TypeOK, RunInv, RootIsRoot, LifeInv, WorkInv

\* The model asks for a call.
LEMMA RequestToolLife ==
  ASSUME IInv, LifeInv, NEW r \in Runs, NEW c \in Calls, RequestTool(r, c)
  PROVE  Preserves
<1>1. AddStep(r, "tool") /\ TypeOK /\ Turn(r) /\ pc[r] = "llm"
  BY DEF RequestTool, Resumes, IInv
<1>2. /\ \A q \in Runs \ {r} : steps'[q] = steps[q]
      /\ DOMAIN steps'[r] = 1..Len(steps[r]) + 1
      /\ steps'[r][Len(steps[r]) + 1].kind = "tool"
      /\ \A j \in 1..Len(steps[r]) : steps'[r][j] = steps[r][j]
  BY <1>1, AddStepFacts
<1>3. pc'[r] = "dispatch" /\ root' = root
  BY <1>1 DEF RequestTool, Goto, TypeOK
<1>4. \A j \in DOMAIN steps'[r] : j > root'[r] => steps'[r][j].kind = "tool"
  BY <1>1, <1>2, <1>3, ToolsBehindRoot DEF InLoop
<1>5. OnlyTouches(r)
  BY <1>2 DEF RequestTool, Goto, proc, history, OnlyTouches, Same, IInv, TypeOK
<1> QED
  BY <1>1, <1>3, <1>4, <1>5, LoopMove DEF RequestTool, proc, history, InLoop, InCall

\* What the executor does with a call leaves the steps alone.
LEMMA InvocationMove ==
  ASSUME IInv, LifeInv, NEW r \in Runs, pc[r] \in InLoop, pc'[r] \in InLoop, Turn(r),
         \A q \in Runs \ {r} : pc'[q] = pc[q] /\ inv'[q] = inv[q],
         UNCHANGED <<task, run, steps, phase, pending, owed, root, cur, outcome, lost>>
  PROVE  Preserves
<1>1. OnlyTouches(r)
  BY DEF OnlyTouches, Same
<1>2. \A j \in DOMAIN steps'[r] : j > root'[r] => steps'[r][j].kind = "tool"
  BY ToolsBehindRoot
<1> QED
  BY <1>1, <1>2, LoopMove

\* The stored result of an earlier success, or a new invocation.
LEMMA BeginLife ==
  ASSUME IInv, LifeInv, NEW r \in Runs, ReuseResult(r) \/ BeginRejected(r) \/ BeginInvocation(r)
  PROVE  Preserves
<1>1. pc[r] = "dispatch" /\ TypeOK /\ cur[r] \in Calls
  BY DEF ReuseResult, BeginRejected, BeginInvocation, IInv, RunInv, CallHasStep, InCall
<1>2. Turn(r)
  BY <1>1, HasTurn DEF Holding
<1>3. \A q \in Runs \ {r} : inv'[q] = inv[q]
  BY <1>1, AddInvocationFacts DEF ReuseResult, BeginRejected, BeginInvocation, rows
<1>4. pc'[r] \in InLoop /\ \A q \in Runs \ {r} : pc'[q] = pc[q]
  BY <1>1 DEF ReuseResult, BeginRejected, BeginInvocation, Goto, TypeOK, InLoop, InCall
<1>5. UNCHANGED <<task, run, steps, phase, pending, owed, root, cur, outcome, lost>>
  BY DEF ReuseResult, BeginRejected, BeginInvocation, rows, proc, local, history
<1> QED
  BY <1>1, <1>2, <1>3, <1>4, <1>5, InvocationMove DEF InLoop, InCall

\* A transition of the invocation.
LEMMA TransitionLife ==
  ASSUME IInv, LifeInv, NEW r \in Runs, Reject(r) \/ CacheHit(r) \/ RunTool(r) \/ ToolReturns(r)
  PROVE  Preserves
<1>1. pc[r] \in {"rejecting", "validating", "tool"} /\ TypeOK
  BY DEF Reject, CacheHit, RunTool, ToolReturns, Resumes, IInv
<1>2. Turn(r)
  BY HasTurn DEF Reject, CacheHit, RunTool, ToolReturns, Resumes, Holding, IInv
<1>3. \A q \in Runs \ {r} : inv'[q] = inv[q]
  BY <1>1, SetInvocationFacts DEF Reject, CacheHit, RunTool, ToolReturns, InvocationStatus
<1>4. pc'[r] \in InLoop /\ \A q \in Runs \ {r} : pc'[q] = pc[q]
  BY <1>1 DEF Reject, CacheHit, RunTool, ToolReturns, Goto, TypeOK, InLoop, InCall
<1>5. UNCHANGED <<task, run, steps, phase, pending, owed, root, cur, outcome, lost>>
  BY DEF Reject, CacheHit, RunTool, ToolReturns, rows, proc, local, history
<1> QED
  BY <1>1, <1>2, <1>3, <1>4, <1>5, InvocationMove DEF InLoop, InCall

\* The call is over: its step is closed, its kind stays.
LEMMA CloseToolStepLife ==
  ASSUME IInv, LifeInv, NEW r \in Runs, CloseToolStep(r)
  PROVE  Preserves
<1>1. pc[r] \in {"toolOk", "toolErr"} /\ TypeOK
  BY DEF CloseToolStep, IInv
<1>2. PICK s \in StepStatus : SetStep(r, Len(steps[r]), s)
  BY DEF CloseToolStep, StepStatus, Terminal
<1>3. /\ \A q \in Runs \ {r} : steps'[q] = steps[q]
      /\ DOMAIN steps'[r] = 1..Len(steps[r])
      /\ \A j \in 1..Len(steps[r]) : steps'[r][j].kind = steps[r][j].kind
  BY <1>1, <1>2, SetStepFacts
<1>4. pc'[r] = "llm" /\ root' = root
  BY <1>1 DEF CloseToolStep, Goto, TypeOK
<1>5. Turn(r)
  BY <1>1, HasTurn DEF Holding
<1>6. \A j \in DOMAIN steps'[r] : j > root'[r] => steps'[r][j].kind = "tool"
  BY <1>1, <1>3, <1>4, ToolsBehindRoot DEF InLoop, InCall
<1>7. OnlyTouches(r)
  BY <1>3 DEF CloseToolStep, Goto, proc, history, OnlyTouches, Same, IInv, TypeOK
<1> QED
  BY <1>1, <1>4, <1>5, <1>6, <1>7, LoopMove DEF CloseToolStep, proc, history, InLoop, InCall

\* The reply.
LEMMA AnswerLife ==
  ASSUME IInv, LifeInv, NEW r \in Runs, Answer(r)
  PROVE  Preserves
<1>1. Turn(r) /\ pc[r] = "llm" /\ TypeOK
  BY DEF Answer, Resumes, IInv
<1>2. pc'[r] = "answered" /\ \A q \in Runs \ {r} : pc'[q] = pc[q]
  BY <1>1 DEF Answer, Goto, TypeOK
<1>3. UNCHANGED <<task, run, steps, inv, phase, pending, owed, root, cur, outcome, lost>>
  BY DEF Answer, rows, proc, local
<1> QED
  BY <1>1, <1>2, <1>3, InvocationMove DEF InLoop, InCall

-----------------------------------------------------------------------------
(* Closing a run. *)

\* The first closing commit closes the loop's own step, behind which there are
\* only tool steps.
LEMMA CloseStepFacts ==
  ASSUME IInv, LifeInv, NEW r \in Runs, pc[r] \in InLoop, NEW s \in Terminal, CloseStep(r, s)
  PROVE  /\ pc'[r] = "closing" /\ outcome'[r] = s /\ \A q \in Runs \ {r} :
              /\ steps'[q] = steps[q] /\ pc'[q] = pc[q] /\ root'[q] = root[q]
              /\ cur'[q] = cur[q] /\ outcome'[q] = outcome[q]
         /\ s = "SUCCEEDED" => RootSucceeded(r)'
<1>1. SetStep(r, root[r], s) /\ s \in StepStatus /\ TypeOK
  BY DEF CloseStep, StepStatus, IInv
<1>2. /\ steps' \in [Runs -> Seq(StepRow)] /\ \A q \in Runs \ {r} : steps'[q] = steps[q]
      /\ DOMAIN steps'[r] = 1..Len(steps[r])
      /\ \A j \in 1..Len(steps[r]) :
           /\ steps'[r][j].kind = steps[r][j].kind
           /\ j = root[r] => steps'[r][j].status = s
  BY <1>1, SetStepFacts
<1>3. steps'[r][root[r]] \in StepRow /\ root[r] \in DOMAIN steps'[r]
  BY <1>2, ToolsBehindRoot
<1>4. steps'[r][root[r]] = [kind |-> "root", status |-> s]
  BY <1>2, <1>3, ToolsBehindRoot DEF StepRow
<1>5. s = "SUCCEEDED" => RootSucceeded(r)'
  BY <1>2, <1>3, <1>4, ToolsBehindRoot DEF RootSucceeded
<1> QED
  BY <1>1, <1>2, <1>5 DEF CloseStep, Goto, TypeOK

\* An execution that ends so, by itself or cancelled, is active until its run row.
LEMMA EndLife ==
  ASSUME IInv, LifeInv, NEW r \in Runs, pc[r] \in InLoop, Turn(r), NEW s \in Terminal,
         CloseStep(r, s), UNCHANGED <<task, run, inv, phase, pending, owed>>,
         lost[r] \subseteq lost'[r], \A q \in Runs \ {r} : lost'[q] = lost[q]
  PROVE  Preserves
<1>1. /\ run[r] = "RUNNING" /\ phase \notin {"down", "boot"} /\ r \notin pending
      /\ task[r] \notin Terminal
  BY StatusFacts DEF LifeInv, StatusInv, InLoop, InCall
<1>2. OnlyTouches(r)
  BY CloseStepFacts DEF OnlyTouches, Same
<1>3. pc'[r] = "closing" /\ outcome'[r] = s /\ owed' = NULL
  BY CloseStepFacts DEF Turn
<1>4. StatusInv(r)'
  BY <1>1, <1>3, StatusFacts DEF StatusInv, InLoop, InCall
<1>5. WorkInv(r)'
  BY <1>1, <1>3, StatusFacts, CloseStepFacts DEF WorkInv, InLoop, InCall
<1>6. Change(r)
  <2>1. pc[r] \in Executing
    BY ExecutingFacts DEF ActivePlaces
  <2> QED
    BY <1>1, <1>3, <2>1, StatusFacts, LifeFacts DEF Change, Life
<1> QED
  BY <1>1, <1>2, <1>3, <1>4, <1>5, <1>6, OneRunLife

\* The loop is over.
LEMMA LoopEndsLife ==
  ASSUME IInv, LifeInv, NEW r \in Runs, LoopEnds(r)
  PROVE  Preserves
<1>1. PICK s \in Terminal : CloseStep(r, s)
  BY DEF LoopEnds, Terminal
<1>2. pc[r] \in InLoop /\ Turn(r)
  BY DEF LoopEnds, Resumes, InLoop
<1> QED
  BY <1>1, <1>2, EndLife DEF LoopEnds, proc, history

\* CancelledError.
LEMMA ThrowCancelledLife ==
  ASSUME IInv, LifeInv, NEW r \in Runs, ThrowCancelled(r)
  PROVE  Preserves
<1>1. pc[r] \in InLoop /\ Turn(r) /\ "CANCELLED" \in Terminal
  BY DEF ThrowCancelled, IInv, CancelledWait, InLoop, InCall, Terminal
<1>2. lost[r] \subseteq lost'[r] /\ \A q \in Runs \ {r} : lost'[q] = lost[q]
  BY DEF ThrowCancelled, IInv, TypeOK
<1> QED
  BY <1>1, <1>2, EndLife DEF ThrowCancelled, proc

\* An exception leaves the run RUNNING, with nobody to execute it.
LEMMA ServiceRaisesLife ==
  ASSUME IInv, LifeInv, NEW r \in Runs, ServiceRaises(r)
  PROVE  Preserves
<1>1. /\ Turn(r) /\ owed' = NULL /\ pc[r] \in {"llm", "answered"}
      /\ run[r] = "RUNNING" /\ phase \notin {"down", "boot"} /\ r \notin pending
      /\ task[r] \notin Terminal
  BY StatusFacts DEF ServiceRaises, Resumes, Turn, LifeInv, StatusInv, InLoop
<1>2. /\ task'[r] = task[r] /\ run'[r] = run[r] /\ pc'[r] = "none" /\ lost'[r] = lost[r]
      /\ phase' = phase /\ r \notin pending'
  BY <1>1 DEF ServiceRaises, Goto, rows, proc, history, IInv, TypeOK
<1>3. OnlyTouches(r)
  BY DEF ServiceRaises, Goto, rows, proc, history, OnlyTouches, Same, IInv, TypeOK
<1>4. StatusInv(r)' /\ WorkInv(r)'
  BY <1>1, <1>2, StatusFacts DEF StatusInv, WorkInv, InLoop, InCall
<1>5. Change(r)
  <2>1. pc[r] \in Executing /\ pc'[r] \notin Executing /\ pc'[r] # "closing"
    BY <1>1, <1>2, ExecutingFacts DEF ActivePlaces, InLoop, InCall
  <2> QED
    BY <1>1, <1>2, <2>1, StatusFacts, LifeFacts DEF Change, Life
<1> QED
  BY <1>1, <1>2, <1>3, <1>4, <1>5, OneRunLife

\* The run row: of an execution that ended, or of a run put back in the queue.
LEMMA CloseRunLife ==
  ASSUME IInv, LifeInv, NEW r \in Runs, CloseRun(r)
  PROVE  Preserves
<1>1. pc[r] = "closing" /\ TypeOK
  BY DEF CloseRun, IInv
<1>2. Turn(r)
  BY <1>1, HasTurn DEF Holding
<1>3. /\ run[r] \in Unfinished /\ outcome[r] \in Terminal \cup {"CREATED"}
      /\ phase # "down" /\ r \notin pending /\ task[r] \notin Terminal
  BY <1>1, StatusFacts DEF LifeInv, StatusInv
<1>4. /\ task'[r] = task[r] /\ run'[r] = outcome[r] /\ pc'[r] = "none" /\ lost'[r] = lost[r]
      /\ owed' = [run |-> r, status |-> outcome[r]] /\ steps' = steps
      /\ phase' = phase /\ r \notin pending'
  BY <1>1, <1>3 DEF CloseRun, SetRun, Goto, proc, history, TypeOK
<1>5. OnlyTouches(r)
  BY <1>1 DEF CloseRun, SetRun, Goto, proc, history, OnlyTouches, Same, TypeOK
<1>6. StatusInv(r)'
  BY <1>3, <1>4, StatusFacts DEF StatusInv, InLoop, InCall
<1>7. WorkInv(r)'
  <2>1. outcome[r] = "SUCCEEDED" => RootSucceeded(r)'
    BY <1>1, <1>4 DEF LifeInv, WorkInv, RootSucceeded
  <2> QED
    BY <1>3, <1>4, <2>1, StatusFacts DEF WorkInv, InLoop, InCall
<1>8. Change(r)
  <2>1. pc[r] \notin Executing /\ pc'[r] \notin Executing /\ pc'[r] # "closing"
    BY <1>1, <1>4 DEF Executing
  <2>2. CASE outcome[r] \in Terminal
    BY <1>1, <1>3, <1>4, <2>2, StatusFacts, LifeFacts DEF Change, Life
  <2>3. CASE outcome[r] = "CREATED"
    BY <1>1, <1>3, <1>4, <2>1, <2>3, StatusFacts, LifeFacts DEF Change, Life
  <2> QED
    BY <1>3, <2>2, <2>3
<1> QED
  BY <1>2, <1>3, <1>4, <1>5, <1>6, <1>7, <1>8, StatusFacts, OneRunLife DEF AwaitPoints

-----------------------------------------------------------------------------
(* recover(). *)

\* What it finds of a run: queued, or held over a call whose outcome is unknown.
LEMMA RecoversFacts ==
  ASSUME IInv, LifeInv, NEW r \in Runs, Recovers(r)
  PROVE  /\ Turn(r) /\ phase = "boot" /\ owed = NULL
         /\ pc[r] = "none" /\ run[r] \in Active /\ task[r] \notin Terminal
         /\ run[r] \in Waiting => Interrupted(r) /\ OutcomeUnknown(Latest(r))
BY StatusFacts DEF Recovers, LoopFree, Turn, LifeInv, StatusInv, WorkInv

\* After an interrupted call that succeeded, or can be made again.
LEMMA RequeueLife ==
  ASSUME IInv, LifeInv, NEW r \in Runs, RecoverSucceeded(r) \/ RecoverRetry(r)
  PROVE  Preserves
<1>1. /\ Recovers(r) /\ TypeOK
      /\ Latest(r).status = "succeeded" \/ SafeToRetry(Latest(r))
  BY DEF RecoverSucceeded, RecoverRetry, IInv
<1>2. /\ Turn(r) /\ phase = "boot" /\ owed' = NULL
      /\ pc[r] = "none" /\ run[r] \in Unfinished /\ task[r] \notin Terminal
  <2>1. ~ OutcomeUnknown(Latest(r))
    BY <1>1 DEF OutcomeUnknown
  <2> QED
    BY <1>1, <2>1, RecoversFacts, StatusFacts DEF RecoverSucceeded, RecoverRetry
<1>3. /\ task'[r] = task[r] /\ run'[r] = run[r] /\ pc'[r] = "closing" /\ outcome'[r] = "CREATED"
      /\ lost'[r] = lost[r] /\ phase' = phase /\ r \notin pending'
  BY <1>1 DEF Recovers, RecoverSucceeded, RecoverRetry, Requeue, Goto, history, TypeOK
<1>4. \A q \in Runs \ {r} : steps'[q] = steps[q] /\ inv'[q] = inv[q]
  BY <1>1, SetStepFacts, SetInvocationFacts DEF RecoverSucceeded, RecoverRetry, StepStatus,
     Terminal, InvocationStatus
<1>5. OnlyTouches(r)
  BY <1>1, <1>4 DEF Recovers, RecoverSucceeded, RecoverRetry, Requeue, Goto, history,
     OnlyTouches, Same, TypeOK
<1>6. StatusInv(r)' /\ WorkInv(r)'
  BY <1>2, <1>3, StatusFacts DEF StatusInv, WorkInv, InLoop, InCall
<1>7. Change(r)
  <2>1. pc[r] \notin Executing /\ pc[r] # "closing" /\ pc'[r] \notin Executing
    BY <1>2, <1>3 DEF Executing
  <2> QED
    BY <1>2, <1>3, <2>1, StatusFacts, LifeFacts DEF Change, Life
<1> QED
  BY <1>2, <1>3, <1>5, <1>6, <1>7, OneRunLife

\* A run is put in front of a human, with its cause, or stays there.
LEMMA QuarantineLife ==
  ASSUME IInv, LifeInv, NEW r \in Runs, RecoverQuarantine(r)
  PROVE  Preserves
<1>1. Recovers(r) /\ TypeOK /\ Interrupted(r) /\ OutcomeUnknown(Latest(r))
  BY DEF RecoverQuarantine, IInv
<1>2. /\ Turn(r) /\ phase = "boot"
      /\ pc[r] = "none" /\ run[r] \in Active /\ task[r] \notin Terminal
  BY <1>1, RecoversFacts
<1>3. /\ task'[r] = task[r] /\ run'[r] = "WAITING_APPROVAL" /\ pc'[r] = "none"
      /\ owed' = [run |-> r, status |-> "WAITING_APPROVAL"]
      /\ lost'[r] = lost[r] /\ phase' = phase /\ r \notin pending' /\ steps' = steps /\ inv' = inv
  BY <1>1, <1>2 DEF Recovers, RecoverQuarantine, SetRun, local, history, TypeOK
<1>4. OnlyTouches(r)
  BY <1>1 DEF Recovers, RecoverQuarantine, SetRun, local, history, OnlyTouches, Same, TypeOK
<1>5. StatusInv(r)'
  BY <1>2, <1>3, StatusFacts DEF StatusInv, InLoop, InCall
<1>6. WorkInv(r)'
  BY <1>1, <1>3, StatusFacts DEF WorkInv, InLoop, InCall, Interrupted, HasRunningStep, IsRunning,
     OutcomeUnknown, SafeToRetry, Latest
<1>7. Change(r)
  <2>1. pc[r] \notin Executing /\ pc[r] # "closing"
    BY <1>2 DEF Executing
  <2> QED
    BY <1>2, <1>3, <2>1, StatusFacts, LifeFacts DEF Change, Life
<1> QED
  BY <1>2, <1>3, <1>4, <1>5, <1>6, <1>7, StatusFacts, OneRunLife DEF AwaitPoints

\* A run left RUNNING goes back to the queue, any other stays as it is.
LEMMA ByStatusLife ==
  ASSUME IInv, LifeInv, NEW r \in Runs, RecoverByStatus(r)
  PROVE  Preserves
<1>1. Recovers(r) /\ TypeOK
  BY DEF RecoverByStatus, IInv
<1>2. /\ Turn(r) /\ phase = "boot" /\ owed = NULL
      /\ pc[r] = "none" /\ run[r] \in Unfinished /\ task[r] \notin Terminal
  <2>1. run[r] \notin Waiting
    BY <1>1, RecoversFacts DEF RecoverByStatus, Judged
  <2> QED
    BY <1>1, <2>1, RecoversFacts, StatusFacts
<1>3. /\ task'[r] = task[r] /\ run'[r] \in Unfinished /\ pc'[r] = "none"
      /\ owed' = NULL \/ owed' = [run |-> r, status |-> run'[r]]
      /\ lost'[r] = lost[r] /\ phase' = phase /\ r \notin pending'
  BY <1>1, <1>2, StatusFacts DEF Recovers, RecoverByStatus, SetRun, local, history, TypeOK
<1>4. OnlyTouches(r)
  BY <1>1 DEF Recovers, RecoverByStatus, SetRun, local, history, OnlyTouches, Same, TypeOK
<1>5. StatusInv(r)' /\ WorkInv(r)'
  BY <1>2, <1>3, StatusFacts DEF StatusInv, WorkInv, InLoop, InCall
<1>6. Change(r)
  <2>1. pc[r] \notin Executing /\ pc[r] # "closing"
    BY <1>2 DEF Executing
  <2> QED
    BY <1>2, <1>3, <2>1, StatusFacts, LifeFacts DEF Change, Life
<1> QED
  BY <1>2, <1>3, <1>4, <1>5, <1>6, StatusFacts, OneRunLife DEF AwaitPoints

-----------------------------------------------------------------------------
(* The process. *)

\* A step that leaves every run as it looks is a stutter of RunLifecycle.
LEMMA Stutter ==
  ASSUME LifeInv', run' = run, lost' = lost, \A q \in Runs : Life(q)' = Life(q)
  PROVE  Preserves
<1> DEFINE life == [q \in Runs |-> Life(q)]
           tainted == {q \in Runs : lost[q] # {}}
<1>1. life' = life /\ tainted' = tainted
  OBVIOUS
<1>2. Abstract
  BY <1>1 DEF Abstract, Lifecycle!lifeVars
<1> QED
  BY <1>2 DEF Preserves, FinishedKept

\* The task row says what the run row says.
LEMMA CloseTaskLife ==
  ASSUME IInv, LifeInv, CloseTask
  PROVE  Preserves
<1>1. PICK r \in Runs, s \in Status : owed = [run |-> r, status |-> s]
  BY DEF CloseTask, IInv, TypeOK, TaskDebt
<1>2. /\ run[r] = s /\ s # NULL /\ \A q \in Runs : pc[q] \in AwaitPoints
      /\ task' = [task EXCEPT ![r] = s] /\ TypeOK
  BY <1>1, NullAssumption DEF CloseTask, SetTask, LifeInv, Debt, IInv
<1>3. UNCHANGED <<run, steps, inv, phase, pending, pc, root, cur, outcome, lost>> /\ owed' = NULL
  BY DEF CloseTask, proc, local, history
<1>4. ASSUME NEW q \in Runs
      PROVE  StatusInv(q)' /\ WorkInv(q)' /\ Life(q)' = Life(q)
  <2>1. StatusInv(q) /\ WorkInv(q)
    BY DEF LifeInv
  <2>2. WorkInv(q)' /\ Life(q)' = Life(q)
    BY <1>3, <2>1 DEF WorkInv, RootSucceeded, Interrupted, HasRunningStep, IsRunning,
       OutcomeUnknown, SafeToRetry, Latest, Life
  <2>3. StatusInv(q)'
    BY <1>2, <1>3, <2>1 DEF StatusInv, AwaitPoints, TypeOK
  <2> QED
    BY <2>2, <2>3
<1>5. LifeInv'
  BY <1>2, <1>3, <1>4 DEF LifeInv, OneHolds, Debt
<1> QED
  BY <1>3, <1>4, <1>5, Stutter

\* A run that was submitted and has not started is simply not executed.
LEMMA ShutdownLife ==
  ASSUME IInv, LifeInv, Shutdown
  PROVE  Preserves
<1>1. /\ UNCHANGED <<task, run, steps, inv, pending, root, outcome, lost>> /\ owed' = NULL
      /\ phase = "up" /\ phase' = "stopping" /\ \A q \in Runs : pc[q] \in AwaitPoints
      /\ \A q \in Runs : pc'[q] = IF pc[q] = "submitted" THEN "none" ELSE pc[q]
  BY DEF Shutdown, LoopFree, rows, history
<1>2. ASSUME NEW q \in Runs
      PROVE  StatusInv(q)' /\ WorkInv(q)' /\ Life(q)' = Life(q)
  <2>1. /\ StatusInv(q) /\ WorkInv(q) /\ q \notin pending
        /\ pc'[q] = IF pc[q] = "submitted" THEN "none" ELSE pc[q]
    BY <1>1 DEF LifeInv, StatusInv
  <2>2. StatusInv(q)'
    BY <1>1, <2>1 DEF StatusInv, InLoop, InCall
  <2>3. WorkInv(q)'
    BY <1>1, <2>1 DEF WorkInv, RootSucceeded, Interrupted, HasRunningStep, IsRunning,
       OutcomeUnknown, SafeToRetry, Latest, InLoop, InCall
  <2>4. Life(q)' = Life(q)
    BY <1>1, <2>1 DEF Life, LifeOf, Executing
  <2> QED
    BY <2>2, <2>3, <2>4
<1>3. LifeInv'
  BY <1>1, <1>2 DEF LifeInv, OneHolds, Debt, AwaitPoints, Holding
<1> QED
  BY <1>1, <1>2, <1>3, Stutter

\* What was active is queued again, and only that may have lost a write.
LEMMA DiesLife ==
  ASSUME IInv, LifeInv, Dies
  PROVE  Preserves
<1>1. /\ UNCHANGED <<task, run, steps, inv>> /\ owed' = NULL /\ phase' = "down" /\ pending' = {}
      /\ \A q \in Runs : /\ pc'[q] = "none"
                         /\ lost'[q] = lost[q] \cup InFlight(q)
  BY DEF Dies, rows
<1>2. ASSUME NEW q \in Runs
      PROVE  /\ StatusInv(q)' /\ WorkInv(q)'
             /\ Life(q)' = IF Life(q) = "active" THEN "queued" ELSE Life(q)
             /\ InFlight(q) # {} => Life(q) = "active"
  <2>1. /\ StatusInv(q) /\ WorkInv(q) /\ run[q] \in Unfinished \cup Waiting \cup Terminal \cup {NULL}
        /\ pc'[q] = "none" /\ q \notin pending'
    BY <1>1, StatusFacts DEF LifeInv, IInv, TypeOK, Status
  <2>2. StatusInv(q)'
    BY <1>1, <2>1 DEF StatusInv, InLoop, InCall
  <2>3. WorkInv(q)'
    BY <1>1, <2>1 DEF WorkInv, RootSucceeded, Interrupted, HasRunningStep, IsRunning,
       OutcomeUnknown, SafeToRetry, Latest, InLoop, InCall
  <2>4. "none" \notin Executing
    BY DEF Executing
  <2>5. CASE run[q] \in Unfinished
    <3>1. Life(q)' = "queued"
      BY <1>1, <2>1, <2>4, <2>5, LifeFacts DEF Life
    <3>2. Life(q) = "active" \/ Life(q) = "queued"
      BY <2>5, LifeFacts DEF Life
    <3>3. InFlight(q) # {} => Life(q) = "active"
      BY <2>5, LifeFacts, ExecutingFacts DEF Life, InFlight, ActivePlaces, InLoop, InCall
    <3> QED
      BY <2>2, <2>3, <3>1, <3>2, <3>3
  <2>6. CASE run[q] \notin Unfinished
    <3>1. Life(q)' = Life(q) /\ Life(q) # "active"
      BY <1>1, <2>1, <2>6, LifeFacts DEF Life
    <3>2. InFlight(q) = {}
      BY <2>1, <2>6, StatusFacts DEF StatusInv, InFlight, InLoop, InCall
    <3> QED
      BY <2>2, <2>3, <3>1, <3>2
  <2> QED
    BY <2>5, <2>6
<1>3. LifeInv'
  BY <1>1, <1>2 DEF LifeInv, OneHolds, Debt, Holding
<1>4. Abstract
  <2> DEFINE life == [q \in Runs |-> Life(q)]
             tainted == {q \in Runs : lost[q] # {}}
  <2>1. life' = [q \in Runs |-> IF life[q] = "active" THEN "queued" ELSE life[q]]
    BY <1>2
  <2>2. tainted \subseteq tainted' /\ \A q \in tainted' \ tainted : q \in Runs /\ life[q] = "active"
    BY <1>1, <1>2
  <2>3. Lifecycle!Die
    BY <2>1, <2>2 DEF Lifecycle!Die
  <2> QED
    BY <2>3 DEF Abstract, Lifecycle!LifeNext
<1> QED
  BY <1>1, <1>3, <1>4 DEF Preserves, FinishedKept

\* Recovery is to look at every active run.
LEMMA RestartLife ==
  ASSUME IInv, LifeInv, Restart
  PROVE  Preserves
<1>1. /\ UNCHANGED <<task, run, steps, inv, pc, root, outcome, lost, owed>>
      /\ phase = "down" /\ phase' = "boot" /\ \A q \in pending' : run[q] \in Active
  BY DEF Restart, rows, local, history
<1>2. ASSUME NEW q \in Runs
      PROVE  StatusInv(q)' /\ WorkInv(q)' /\ Life(q)' = Life(q)
  <2>1. StatusInv(q) /\ WorkInv(q) /\ pc[q] = "none"
    BY <1>1 DEF LifeInv, StatusInv
  <2>2. StatusInv(q)'
    BY <1>1, <2>1 DEF StatusInv, InLoop, InCall
  <2>3. WorkInv(q)' /\ Life(q)' = Life(q)
    BY <1>1, <2>1 DEF WorkInv, RootSucceeded, Interrupted, HasRunningStep, IsRunning,
       OutcomeUnknown, SafeToRetry, Latest, Life
  <2> QED
    BY <2>2, <2>3
<1>3. LifeInv'
  BY <1>1, <1>2 DEF LifeInv, OneHolds, Debt
<1> QED
  BY <1>1, <1>2, <1>3, Stutter

\* What recovery left in CREATED is submitted.
LEMMA SubmitRecoveredLife ==
  ASSUME IInv, LifeInv, SubmitRecovered
  PROVE  Preserves
<1>1. /\ UNCHANGED <<task, run, steps, inv, root, outcome, lost>> /\ owed' = NULL
      /\ phase = "boot" /\ phase' = "up" /\ pending' = {}
      /\ \A q \in Runs : pc[q] \in AwaitPoints /\ pc'[q] = IF run[q] = "CREATED" THEN "submitted" ELSE pc[q]
  BY DEF SubmitRecovered, Resubmitted, LoopFree, rows, history
<1>2. ASSUME NEW q \in Runs
      PROVE  StatusInv(q)' /\ WorkInv(q)' /\ Life(q)' = Life(q) /\ pc'[q] \in AwaitPoints
  <2>1. /\ StatusInv(q) /\ WorkInv(q) /\ pc[q] = "none"
        /\ pc'[q] = IF run[q] = "CREATED" THEN "submitted" ELSE "none"
    BY <1>1 DEF LifeInv, StatusInv, AwaitPoints
  <2>2. StatusInv(q)'
    BY <1>1, <2>1, StatusFacts DEF StatusInv, InLoop, InCall
  <2>3. WorkInv(q)'
    BY <1>1, <2>1 DEF WorkInv, RootSucceeded, Interrupted, HasRunningStep, IsRunning,
       OutcomeUnknown, SafeToRetry, Latest, InLoop, InCall
  <2>4. Life(q)' = Life(q)
    BY <1>1, <2>1 DEF Life, LifeOf, Executing
  <2> QED
    BY <1>1, <2>1, <2>2, <2>3, <2>4 DEF AwaitPoints
<1>3. LifeInv'
  BY <1>1, <1>2 DEF LifeInv, OneHolds, Debt, AwaitPoints, Holding
<1> QED
  BY <1>1, <1>2, <1>3, Stutter

-----------------------------------------------------------------------------
(* The theorems. *)

\* An empty database.
LEMMA InitLife == Init => LifeInv /\ Lifecycle!LifeInit
<1> SUFFICES ASSUME Init PROVE LifeInv /\ Lifecycle!LifeInit
  OBVIOUS
<1>1. LifeInv
  BY StatusFacts DEF Init, LifeInv, OneHolds, Debt, StatusInv, WorkInv, Holding, InLoop, InCall
<1>2. [r \in Runs |-> Life(r)] = [r \in Runs |-> "absent"]
  BY LifeFacts DEF Init, Life
<1>3. {r \in Runs : lost[r] # {}} = {}
  BY DEF Init
<1> QED
  BY <1>1, <1>2, <1>3 DEF Lifecycle!LifeInit

\* One step of the system, by the lemma of its action.
LEMMA NextLife ==
  ASSUME ControlOps = {}, IInv, LifeInv, [Next]_vars
  PROVE  Preserves
<1>1. CASE UNCHANGED vars
  <2>1. UNCHANGED <<task, run, steps, inv, phase, pending, owed, pc, root, outcome, lost>>
    BY <1>1 DEF vars, rows, proc, local, history
  <2>2. LifeInv' /\ \A q \in Runs : Life(q)' = Life(q)
    BY <2>1 DEF LifeInv, OneHolds, Debt, StatusInv, WorkInv, RootSucceeded, Interrupted,
       HasRunningStep, IsRunning, OutcomeUnknown, SafeToRetry, Latest, Life
  <2> QED
    BY <2>1, <2>2, Stutter
<1>2. ASSUME NEW r \in Runs, NEW origin \in {"message", "schedule", "event"}, CreateTask(r, origin)
      PROVE  Preserves
  BY <1>2, CreateTaskLife
<1>3. ASSUME NEW r \in Runs, Opening(r) PROVE Preserves
  BY <1>3, CreateRunLife, StartTaskLife, StartRunLife, OpenStepLife, NoHandlerLife DEF Opening
<1>4. ASSUME NEW r \in Runs, ToolCall(r) PROVE Preserves
  BY <1>4, RequestToolLife, BeginLife, TransitionLife, CloseToolStepLife DEF ToolCall
<1>5. ASSUME NEW r \in Runs, Closing(r) PROVE Preserves
  BY <1>5, AnswerLife, LoopEndsLife, ThrowCancelledLife, CloseRunLife DEF Closing
<1>6. ASSUME NEW r \in Runs, Recover(r) PROVE Preserves
  BY <1>6, RequeueLife, QuarantineLife, ByStatusLife DEF Recover
<1>7. ASSUME NEW r \in Runs PROVE ~ Control(r)
  BY DEF Control, Wait, Resume, Cancel
<1>8. CASE Process
  BY <1>8, ShutdownLife, DiesLife, RestartLife, SubmitRecoveredLife, CloseTaskLife DEF Process,
     Exit, Crash
<1> QED
  BY <1>1, <1>2, <1>3, <1>4, <1>5, <1>6, <1>7, <1>8, ServiceRaisesLife DEF Next, Coroutine

\* The invariant holds where no control operation is called.
LEMMA LifeInvariance ==
  ASSUME ControlOps = {}
  PROVE  Spec => []LifeInv
<1>1. Init => LifeInv
  BY InitLife
<1>2. IInv /\ LifeInv /\ [Next]_vars => LifeInv'
  BY NextLife DEF Preserves
<1> QED
  BY <1>1, <1>2, Invariance, PTL DEF Spec

\* Rows, commits, coroutines, crashes and recovery implement the lifecycle that
\* RunLifecycle promises: nothing executes again after a write cut short, and
\* what is done or held stays so.
THEOREM RuntimeImplementsLifecycle ==
  ASSUME ControlOps = {}
  PROVE  Spec => ImplementsRunLifecycle
<1>1. Init => Lifecycle!LifeInit
  BY InitLife
<1>2. IInv /\ LifeInv /\ [Next]_vars => [Lifecycle!LifeNext]_(Lifecycle!lifeVars)
  BY NextLife DEF Preserves, Abstract
<1> QED
  BY <1>1, <1>2, Invariance, LifeInvariance, PTL DEF Spec, ImplementsRunLifecycle, Lifecycle!LifeSpec

\* A task row that is over agrees with its run row, between any two commits.
THEOREM TerminalTasksAgree ==
  ASSUME ControlOps = {}
  PROVE  Spec => []TerminalTaskAgreesWithRun
<1>1. LifeInv => TerminalTaskAgreesWithRun
  BY DEF LifeInv, StatusInv, TerminalTaskAgreesWithRun
<1> QED
  BY <1>1, LifeInvariance, PTL

\* A run that says SUCCEEDED closed the step of that execution as SUCCEEDED.
THEOREM SuccessHasItsStep ==
  ASSUME ControlOps = {}
  PROVE  Spec => []SuccessClosesItsStep
<1>1. LifeInv => SuccessClosesItsStep
  BY DEF LifeInv, WorkInv, RootSucceeded, SuccessClosesItsStep
<1> QED
  BY <1>1, LifeInvariance, PTL

\* A run waits for a human only over a call whose outcome is unknown.
THEOREM QuarantinesHaveCauses ==
  ASSUME ControlOps = {}
  PROVE  Spec => []QuarantineHasACause
<1>1. LifeInv => QuarantineHasACause
  BY StatusFacts DEF LifeInv, WorkInv, Interrupted, OutcomeUnknown, QuarantineHasACause
<1> QED
  BY <1>1, LifeInvariance, PTL

\* No step touches the run row of a finished run.
THEOREM FinishedRunsAreLeftAlone ==
  ASSUME ControlOps = {}
  PROVE  Spec => FinishedRunsStayFinished
<1>1. IInv /\ LifeInv /\ [Next]_vars => [\A r \in Runs : run[r] \in Terminal => run'[r] = run[r]]_vars
  BY NextLife DEF Preserves, FinishedKept
<1> QED
  BY <1>1, Invariance, LifeInvariance, PTL DEF Spec, FinishedRunsStayFinished
=============================================================================
