-------------------------- MODULE DurableLifecycle --------------------------
(***************************************************************************)
(* How a run of DurableRuntime is seen from outside, and what the runtime  *)
(* promises about it: without control operations it implements             *)
(* RunLifecycle.                                                           *)
(***************************************************************************)
EXTENDS DurableRuntime

\* A run of that status, whose coroutine is at that place, about to close it so.
LifeOf(status, place, closes) ==
  CASE status = NULL -> "absent"
    [] status \in Terminal -> "done"
    [] status \in Waiting -> "held"
    [] status \in {"CREATED", "SCHEDULED", "RUNNING"} ->
         IF place \in Executing \/ (place = "closing" /\ closes \in Terminal)
         THEN "active" ELSE "queued"

Life(r) == LifeOf(run[r], pc[r], outcome[r])

Lifecycle ==
  INSTANCE RunLifecycle WITH
    life <- [r \in Runs |-> Life(r)],
    tainted <- {r \in Runs : lost[r] # {}}

\* Without control operations the rows, coroutines and recovery implement the
\* promise: a run cut in the middle of a write never starts again, a held or
\* finished run never leaves that state.
ImplementsRunLifecycle == Lifecycle!LifeSpec
=============================================================================
