---------------------------- MODULE RunLifecycle ----------------------------
(***************************************************************************)
(* What the durable runtime promises about runs, without rows, commits,    *)
(* steps or tools: a run waits in a queue, executes, and is done or held   *)
(* for a human; a run whose process died in the middle of a write is       *)
(* tainted, and a tainted run never executes again.                        *)
(***************************************************************************)
CONSTANT Runs

VARIABLES
  life,     \* "absent", "queued", "active", "held", "done"
  tainted   \* runs with a write whose effect nobody knows

lifeVars == <<life, tainted>>

LifeTypeOK ==
  /\ life \in [Runs -> {"absent", "queued", "active", "held", "done"}]
  /\ tainted \in SUBSET Runs

LifeInit ==
  /\ life = [r \in Runs |-> "absent"]
  /\ tainted = {}

Moves(r, from, to) == life[r] = from /\ life' = [life EXCEPT ![r] = to]

Open(r) == Moves(r, "absent", "queued") /\ UNCHANGED tainted
Start(r) == Moves(r, "queued", "active") /\ r \notin tainted /\ UNCHANGED tainted
Finish(r) == Moves(r, "active", "done") /\ UNCHANGED tainted
Refuse(r) == Moves(r, "queued", "done") /\ UNCHANGED tainted
Drop(r) == Moves(r, "active", "queued") /\ UNCHANGED tainted
Hold(r) == Moves(r, "queued", "held") /\ UNCHANGED tainted

\* A write of r is cut short; the run has yet to be closed.
Cut(r) ==
  /\ life[r] = "active"
  /\ tainted' = tainted \cup {r}
  /\ UNCHANGED life

\* The process dies: what was active is queued, and may be tainted.
Die ==
  /\ life' = [r \in Runs |-> IF life[r] = "active" THEN "queued" ELSE life[r]]
  /\ tainted \subseteq tainted'
  /\ \A r \in tainted' \ tainted : r \in Runs /\ life[r] = "active"

LifeNext ==
  \/ \E r \in Runs :
       \/ Open(r) \/ Start(r) \/ Finish(r) \/ Refuse(r) \/ Drop(r) \/ Hold(r) \/ Cut(r)
  \/ Die

LifeSpec == LifeInit /\ [][LifeNext]_lifeVars
=============================================================================
