---------------------------- MODULE PluginDeploy ----------------------------
(***************************************************************************)
(* Installing one plugin and rolling it back: ControlPlane.                *)
(* approve_and_apply, which drives PackageDeployer (directories and the    *)
(* plugin_deployments table) and DeploymentCoordinator (the running        *)
(* plugin), and the recovery of both in Bot.start.                         *)
(*                                                                         *)
(* Proposals are approved one at a time: nothing in src/ approves two at   *)
(* once.  The process may die between any two directory operations or      *)
(* commits.  A package is its version (validation refuses another content  *)
(* for a deployed version), and rows are in the order of installed_at.     *)
(***************************************************************************)
EXTENDS Integers, Sequences, FiniteSets

CONSTANTS
  Versions,   \* versions of the plugin there are packages of
  Flaky,      \* those whose activation may fail
  MaxRows,    \* bound: rows of plugin_deployments
  MaxBoots,   \* bound: restarts
  NULL        \* no directory, no row, no plugin

ASSUME FlakyAssumption == Flaky \subseteq Versions
ASSUME BoundAssumption == MaxRows \in Nat /\ MaxBoots \in Nat
ASSUME NullAssumption == NULL \notin Versions /\ NULL \notin Nat

VARIABLES
  target,     \* plugins/<id>
  staging,    \* plugins/.staging/<id>
  backups,    \* backups[d]: the directory named by backup_path of row d
  guard,      \* the copy a rollback proposal keeps
  rows,       \* plugin_deployments, oldest first
  phase,      \* "down"; "files", "pending": recovery of Bot.start; "up"
  boots,
  running,    \* version the plugin runtime publishes
  reports,    \* DeploymentCoordinator._reports: results by deployment
  pc,         \* where approve_and_apply is
  op,         \* the proposal: its kind and the version it wants
  before,     \* runtime_before
  dep,        \* deployment_id of the operation request
  draft,      \* rows not committed yet, or kept to be restored
  todo,       \* rows a recovery has yet to look at
  was,        \* history: disk and rows when the proposal was approved
  replaced    \* history: what was in target when row d was inserted

disk == <<target, staging, backups, guard>>
local == <<op, before, dep, draft>>
history == <<was, replaced>>
vars == <<disk, rows, phase, boots, running, reports, pc, local, todo, history>>

Package == Versions \cup {NULL}
Deployments == 1..MaxRows

\* backup: is a backup_path recorded?  (validated, staged and activating are
\* phases no code writes.)
Row == [version: Versions,
        status: {"pending", "pending_activation", "active", "superseded",
                 "failed", "rolled_back"},
        phase: {"applying", "files_switched", "active", "failed", "rolled_back"},
        backup: BOOLEAN, prev: Deployments \cup {NULL}]

Steps == {"idle", "stage", "deploy", "away", "in", "switch", "supersede", "undo",
          "markfailed", "settle", "guard", "remove", "restore", "rolledback",
          "request", "reload", "applied", "compensate", "unguard", "copyback",
          "unrows", "reconcile"}

TypeOK ==
  /\ target \in Package /\ staging \in Package /\ guard \in Package
  /\ backups \in [Deployments -> Package]
  /\ rows \in Seq(Row) /\ Len(rows) <= MaxRows
  /\ phase \in {"down", "files", "pending", "up"}
  /\ boots \in 0..MaxBoots
  /\ running \in Package
  /\ reports \in [Deployments -> {"none", "ok", "error"}]
  /\ pc \in Steps
  /\ op \in [kind: {"install", "rollback"}, version: Package]
  /\ before \in Package
  /\ dep \in Deployments \cup {NULL}
  /\ draft \in Seq(Row)
  /\ todo \in SUBSET Deployments
  /\ was \in [target: Package, backups: [Deployments -> Package], rows: Seq(Row)]
  /\ replaced \in [Deployments -> Package]

\* A plugin that came with the installation has a directory and no row.
Init ==
  /\ target \in Package /\ staging = NULL /\ guard = NULL
  /\ backups = [d \in Deployments |-> NULL]
  /\ rows = <<>>
  /\ phase = "up" /\ boots = 0
  /\ running = target
  /\ reports = [d \in Deployments |-> "none"]
  /\ pc = "idle"
  /\ op = [kind |-> "install", version |-> NULL]
  /\ before = NULL /\ dep = NULL /\ draft = <<>>
  /\ todo = {}
  /\ was = [target |-> target, backups |-> backups, rows |-> rows]
  /\ replaced = [d \in Deployments |-> NULL]

-----------------------------------------------------------------------------
(* Queries and updates of plugin_deployments. *)

With(statuses) == {d \in DOMAIN rows : rows[d].status \in statuses}

\* ORDER BY installed_at DESC LIMIT 1
Newest(ds) == IF ds = {} THEN NULL ELSE CHOOSE d \in ds : \A e \in ds : e <= d

Live == {"active", "pending_activation"}

Awaiting == Newest(With({"pending_activation"}))

SameVersion(v) == {d \in With(Live) : rows[d].version = v}

Set(table, d, status, step) ==
  [table EXCEPT ![d].status = status, ![d].phase = step]

\* The deployment under way is the last row.
This == Len(rows)

\* The row a rollback takes back.
Current == Newest(With(Live \cup {"pending"}))

Prev(d) == rows[d].prev

\* Faulty: the previous deployment is not reactivated.
TakenBackOnly(d) == Set(rows, d, "rolled_back", "rolled_back")

\* What a rollback of row d writes.
TakenBack(d) ==
  LET table == Set(rows, d, "rolled_back", "rolled_back")
  IN  IF Prev(d) = NULL THEN table
      ELSE Set(table, Prev(d), "pending_activation", "files_switched")

-----------------------------------------------------------------------------
(* approve_and_apply: install. *)

Goto(from, to) == phase = "up" /\ pc = from /\ pc' = to

Keep == UNCHANGED <<phase, boots, todo, history>>

\* What is proposed: a candidate that passed validation, or the way back.
Proposals == ({"install"} \X Versions) \cup {<<"rollback", NULL>>}

Approve(kind, v) ==
  /\ Goto("idle", IF kind = "install" THEN "stage" ELSE "guard")
  /\ kind = "install" => Len(rows) < MaxRows
  /\ op' = [kind |-> kind, version |-> v]
  /\ before' = running
  /\ dep' = NULL
  /\ was' = [target |-> target, backups |-> backups, rows |-> rows]
  /\ UNCHANGED <<disk, rows, running, reports, draft, phase, boots, todo, replaced>>

\* The candidate was edited between validation and approval.
CandidateChanged ==
  /\ Goto("stage", "compensate")
  /\ UNCHANGED <<disk, rows, running, reports, local>> /\ Keep

Stage ==
  /\ Goto("stage", "deploy")
  /\ staging' = op.version
  /\ UNCHANGED <<target, backups, guard, rows, running, reports, local>> /\ Keep

\* This version is deployed already.
DeployAgain ==
  /\ SameVersion(op.version) # {}
  /\ Goto("deploy", "request")
  /\ staging' = NULL
  /\ UNCHANGED <<target, backups, guard, rows, running, reports, local>> /\ Keep

\* _insert_deployment()
Inserted(v, backup, prev) ==
  Append(rows, [version |-> v, status |-> "pending", phase |-> "applying",
                backup |-> backup, prev |-> prev])

\* Faulty: the backup_path is not recorded in time.
InsertWithoutBackup ==
  /\ SameVersion(op.version) = {}
  /\ Goto("deploy", IF target # NULL THEN "away" ELSE "in")
  /\ rows' = Inserted(op.version, FALSE, Newest(With(Live)))
  /\ replaced' = [replaced EXCEPT ![Len(rows) + 1] = target]
  /\ UNCHANGED <<disk, running, reports, local, phase, boots, todo, was>>

\* The row and its backup_path are committed together, before any rename.
InsertDeployment ==
  /\ SameVersion(op.version) = {}
  /\ Goto("deploy", IF target # NULL THEN "away" ELSE "in")
  /\ rows' = Inserted(op.version, target # NULL, Newest(With(Live)))
  /\ replaced' = [replaced EXCEPT ![Len(rows) + 1] = target]
  /\ UNCHANGED <<disk, running, reports, local, phase, boots, todo, was>>

MoveAway ==
  /\ Goto("away", "in")
  /\ backups' = [backups EXCEPT ![This] = target]
  /\ target' = NULL
  /\ UNCHANGED <<staging, guard, rows, running, reports, local>> /\ Keep

MoveIn ==
  /\ Goto("in", "switch")
  /\ target' = staging
  /\ staging' = NULL
  /\ UNCHANGED <<backups, guard, rows, running, reports, local>> /\ Keep

FilesSwitched ==
  /\ Goto("switch", "supersede")
  /\ rows' = [rows EXCEPT ![This].phase = "files_switched"]
  /\ UNCHANGED <<disk, running, reports, local>> /\ Keep

\* Faulty: a deployment that was never activated stays live.
SupersededActive == With({"active"}) \ {This}

Superseded == With(Live) \ {This}

Supersede ==
  /\ Goto("supersede", "request")
  /\ rows' = [d \in DOMAIN rows |->
       IF d = This THEN [rows[d] EXCEPT !.status = "pending_activation"]
       ELSE IF d \in Superseded THEN [rows[d] EXCEPT !.status = "superseded"]
       ELSE rows[d]]
  /\ UNCHANGED <<disk, running, reports, local>> /\ Keep

\* Faulty: a recorded backup that is not there counts as none.
RestoredOrRemoved(d) == IF rows[d].backup THEN backups[d] ELSE NULL

\* The package that an interrupted deployment replaced: in its backup, or not
\* moved away yet.  One that replaced nothing is removed.
Restored(d) ==
  IF ~ rows[d].backup THEN NULL
  ELSE IF backups[d] # NULL THEN backups[d] ELSE target

\* The backup that row d names has been moved to the target.
Taken(d) == IF rows[d].backup THEN [backups EXCEPT ![d] = NULL] ELSE backups

\* A rename fails.
DeployFails ==
  /\ pc \in {"away", "in"}
  /\ Goto(pc, "undo")
  /\ UNCHANGED <<disk, rows, running, reports, local>> /\ Keep

Undo ==
  /\ Goto("undo", "markfailed")
  /\ target' = Restored(This)
  /\ backups' = Taken(This)
  /\ UNCHANGED <<staging, guard, rows, running, reports, local>> /\ Keep

MarkFailed ==
  /\ Goto("markfailed", "settle")
  /\ rows' = [rows EXCEPT ![This].phase = "failed"]
  /\ UNCHANGED <<disk, running, reports, local>> /\ Keep

Settle ==
  /\ Goto("settle", "compensate")
  /\ rows' = [d \in DOMAIN rows |->
       IF d = This THEN [rows[d] EXCEPT !.status = "failed"]
       ELSE IF d = Prev(This) THEN [rows[d] EXCEPT !.status = "active"]
       ELSE rows[d]]
  /\ UNCHANGED <<disk, running, reports, local>> /\ Keep

-----------------------------------------------------------------------------
(* PackageDeployer.rollback, for a rollback proposal and for compensating an *)
(* install. *)

KeepGuard ==
  /\ Goto("guard", IF Current = NULL THEN "compensate" ELSE "remove")
  /\ guard' = target
  /\ draft' = rows
  /\ UNCHANGED <<target, staging, backups, rows, running, reports, op, before, dep>> /\ Keep

RemoveCurrent ==
  /\ Goto("remove", "restore")
  /\ dep' = Current
  /\ target' = NULL
  /\ UNCHANGED <<staging, backups, guard, rows, running, reports, op, before, draft>> /\ Keep

RestoreBackup ==
  /\ Goto("restore", "rolledback")
  /\ target' = IF rows[dep].backup THEN backups[dep] ELSE NULL
  /\ backups' = Taken(dep)
  /\ UNCHANGED <<staging, guard, rows, running, reports, local>> /\ Keep

RolledBack ==
  /\ Goto("rolledback", IF op.kind = "install" THEN "reconcile" ELSE "request")
  /\ rows' = TakenBack(dep)
  /\ UNCHANGED <<disk, running, reports, local>> /\ Keep

-----------------------------------------------------------------------------
(* DeploymentCoordinator. *)

\* PluginRuntime.reload_plugin: an old instance survives a failed activation,
\* and is stopped if there is no package.
Reloads(to, ok) ==
  \/ target # NULL /\ to = target /\ ok
  \/ target = NULL /\ to = NULL /\ ~ ok
  \/ target \in Flaky /\ to = running /\ ~ ok

\* The version the operation must bring up; NULL: any.
Wanted ==
  IF op.kind = "install" THEN op.version
  ELSE IF dep = NULL THEN NULL ELSE rows[dep].version

\* create_operation_request; execute answers from its cache.
Request ==
  /\ dep' = Awaiting
  /\ Goto("request", IF dep' = NULL \/ reports[dep'] = "none" THEN "reload"
                     ELSE IF reports[dep'] = "ok" THEN "applied" ELSE "compensate")
  /\ UNCHANGED <<disk, rows, running, reports, op, before, draft>> /\ Keep

\* Marked(d, good): the rows once the outcome for d is written.
Marked(d, good) ==
  IF d = NULL THEN rows
  ELSE IF good THEN Set(rows, d, "active", "active")
  ELSE [rows EXCEPT ![d].phase = "failed"]

\* _install: the version deployed must be what came up.
Installed(to) == to = Wanted

\* _rollback: the same, when the request names a deployment.
RolledBackTo(to) == Wanted \in {NULL, to}

Execute ==
  \E ok \in BOOLEAN, to \in Package :
    LET good == ok /\ IF op.kind = "install" THEN Installed(to) ELSE RolledBackTo(to)
    IN  /\ Reloads(to, ok)
        /\ Goto("reload", IF good THEN "applied" ELSE "compensate")
        /\ running' = to
        /\ rows' = Marked(dep, good)
        /\ reports' = IF dep = NULL THEN reports
                      ELSE [reports EXCEPT ![dep] = IF good THEN "ok" ELSE "error"]
        /\ UNCHANGED <<disk, local>> /\ Keep

\* The proposal is marked applied.
Applied ==
  /\ Goto("applied", "idle")
  /\ guard' = NULL
  /\ UNCHANGED <<target, staging, backups, rows, running, reports, local>> /\ Keep

-----------------------------------------------------------------------------
(* _compensate_plugin_operation. *)

Compensate ==
  /\ Goto("compensate", IF op.kind = "rollback" THEN "unguard"
                        ELSE IF Awaiting = NULL THEN "reconcile" ELSE "remove")
  /\ UNCHANGED <<disk, rows, running, reports, local>> /\ Keep

\* Faulty: the backup is used up.
TakesNoBackup(d) == FALSE

\* The backup that a rollback had taken goes back where it was, unless it is
\* still there.
TakesBackup(d) == d # NULL /\ draft[d].backup /\ backups[d] = NULL

\* The row whose backup the guard remembers.
Guarded ==
  LET live == {d \in DOMAIN draft : draft[d].status \in Live \cup {"pending"}}
  IN  Newest(live)

PutBackBackup ==
  /\ Goto("unguard", "copyback")
  /\ backups' = IF target # NULL /\ TakesBackup(Guarded)
                THEN [backups EXCEPT ![Guarded] = target] ELSE backups
  /\ target' = NULL
  /\ UNCHANGED <<staging, guard, rows, running, reports, local>> /\ Keep

PutBackGuard ==
  /\ Goto("copyback", "unrows")
  /\ target' = guard
  /\ guard' = NULL
  /\ UNCHANGED <<staging, backups, rows, running, reports, local>> /\ Keep

PutBackRows ==
  /\ Goto("unrows", "reconcile")
  /\ rows' = draft
  /\ UNCHANGED <<disk, running, reports, local>> /\ Keep

\* reconcile is given no deployment; the proposal is marked failed.
Reconcile ==
  /\ Goto("reconcile", "idle")
  /\ \E ok \in BOOLEAN : Reloads(running', ok)
  /\ guard' = NULL
  /\ UNCHANGED <<target, staging, backups, rows, reports, local>> /\ Keep

-----------------------------------------------------------------------------
(* Crash and recovery. *)

Crash ==
  /\ phase # "down" /\ boots < MaxBoots
  /\ phase' = "down"
  /\ running' = NULL
  /\ reports' = [d \in Deployments |-> "none"]
  /\ pc' = "idle"
  /\ op' = [kind |-> "install", version |-> NULL]
  /\ before' = NULL /\ dep' = NULL /\ draft' = <<>>
  /\ todo' = {}
  /\ guard' = NULL
  /\ UNCHANGED <<target, staging, backups, rows, boots, history>>

IncompleteIn(table) ==
  {d \in DOMAIN table : \/ table[d].phase \in {"applying", "files_switched"}
                        \/ table[d].phase = "failed" /\ table[d].status \in {"pending", "pending_activation"}}
Incomplete == IncompleteIn(rows)

\* Bot.start activates the plugins before it looks at deployments.
Restart ==
  /\ phase = "down"
  /\ phase' = "files"
  /\ boots' = boots + 1
  /\ running' \in {target} \cup (IF target \in Flaky THEN {NULL} ELSE {})
  /\ todo' = Incomplete
  /\ draft' = rows
  /\ UNCHANGED <<disk, rows, reports, pc, op, before, dep, history>>

\* recover_on_boot removes what a backup is to replace.
ClearTarget(d) ==
  /\ phase = "files" /\ d = Newest(todo)
  /\ rows[d].phase # "files_switched"
  /\ backups[d] # NULL /\ target # NULL
  /\ target' = NULL
  /\ UNCHANGED <<staging, backups, guard, rows, phase, boots, running, reports, pc, local, todo, history>>

\* recover_on_boot, newest row first; its updates are committed at the end.
RecoverFiles(d) ==
  /\ phase = "files" /\ d = Newest(todo)
  /\ rows[d].phase = "files_switched" \/ backups[d] = NULL \/ target = NULL
  /\ todo' = todo \ {d}
  /\ IF rows[d].phase = "files_switched"
     THEN UNCHANGED <<target, staging, backups, draft>>
     ELSE /\ staging' = NULL
          /\ target' = Restored(d)
          /\ backups' = Taken(d)
          /\ draft' = LET table == Set(draft, d, "failed", "failed")
                      IN  IF Prev(d) = NULL THEN table
                          ELSE Set(table, Prev(d), "pending_activation", "files_switched")
  /\ UNCHANGED <<guard, rows, phase, boots, running, reports, pc, op, before, dep, history>>

Pending(table) ==
  {d \in DOMAIN table : /\ table[d].phase = "files_switched"
                        /\ table[d].status \in {"pending_activation", "pending"}}

CommitRecovery ==
  /\ phase = "files" /\ todo = {}
  /\ phase' = "pending"
  /\ rows' = draft
  /\ todo' = Pending(draft)
  /\ draft' = <<>>
  /\ UNCHANGED <<disk, boots, running, reports, pc, op, before, dep, history>>

\* recover_pending, newest row first.
RecoverPending(d) ==
  /\ phase = "pending" /\ d = Newest(todo)
  /\ todo' = todo \ {d}
  /\ \E ok \in BOOLEAN, to \in Package :
       LET good == ok /\ rows[d].version = to
       IN  /\ Reloads(to, ok)
           /\ running' = to
           /\ rows' = Marked(d, good)
           /\ reports' = [reports EXCEPT ![d] = IF good THEN "ok" ELSE "error"]
  /\ UNCHANGED <<disk, phase, boots, pc, local, history>>

Booted ==
  /\ phase = "pending" /\ todo = {}
  /\ phase' = "up"
  /\ UNCHANGED <<disk, rows, boots, running, reports, pc, local, todo, history>>

-----------------------------------------------------------------------------
Install ==
  \/ CandidateChanged \/ Stage \/ DeployAgain \/ InsertDeployment \/ MoveAway \/ MoveIn
  \/ FilesSwitched \/ Supersede \/ DeployFails \/ Undo \/ MarkFailed \/ Settle

Rollback == KeepGuard \/ RemoveCurrent \/ RestoreBackup \/ RolledBack

Activate == Request \/ Execute \/ Applied

Revert == Compensate \/ PutBackBackup \/ PutBackGuard \/ PutBackRows \/ Reconcile

Boot ==
  \/ Restart \/ CommitRecovery \/ Booted
  \/ \E d \in Deployments : ClearTarget(d) \/ RecoverFiles(d) \/ RecoverPending(d)

Next ==
  \/ \E proposal \in Proposals : Approve(proposal[1], proposal[2])
  \/ Install \/ Rollback \/ Activate \/ Revert \/ Boot \/ Crash

Spec == Init /\ [][Next]_vars

(* Properties. *)

\* recover_on_boot is done with the directories.
Recovered == phase = "files" /\ phase' = "pending"

\* A restart in the middle of a deployment leaves the package there was before
\* or the whole new one, and which of them the row says.  (Unless an older
\* deployment is incomplete, or was when this one was approved: see
\* RecoveryRemovesOnlyItsOwn below.)
RecoveryFinishesOrUndoes ==
  [][Recovered /\ Incomplete = {This} /\ IncompleteIn(was.rows) = {} =>
       /\ rows[This].phase = "applying" => target = replaced[This]
       /\ rows[This].phase = "files_switched" /\ rows[This].status = "pending" =>
            target = rows[This].version]_vars

\* At no instant of a deployment or of its recovery is the package that it
\* replaces missing from the disk, wherever the process dies.
ReplacedPackageIsKept ==
  Incomplete = {This} /\ rows[This].status = "pending" =>
    replaced[This] \in {target, backups[This], NULL}

\* A new deployment whose proposal is marked applied is what runs, what is
\* installed, and the only live one.
NewDeploymentRuns ==
  [][pc = "applied" /\ phase' = "up" /\ dep = This =>
       /\ running = rows[dep].version /\ target = running
       /\ With(Live) = {dep}]_vars

Reverted(kind) == pc = "reconcile" /\ phase' = "up" /\ op.kind = kind

\* The runtime is back at what it ran, if that was what was installed.
BackToBefore == before = was.target /\ before \notin Flaky => running' = before

\* The deployment that is live: the newest, if a crash left more than one.
Latest(table) == Newest({d \in DOMAIN table : table[d].status \in Live})

\* A failed install is undone: package, backups, the live deployment and the
\* running plugin are those of its approval, at whichever step it failed
\* (unless a deployment still awaited its activation then).
FailedInstallRestores ==
  [][Reverted("install") /\ (\A d \in DOMAIN was.rows : was.rows[d].status # "pending_activation") =>
       /\ target = was.target /\ backups = was.backups
       /\ Latest(rows) = Latest(was.rows)
       /\ BackToBefore]_vars

\* A failed rollback is undone completely: package, backups and rows.
FailedRollbackRestores ==
  [][Reverted("rollback") =>
       /\ target = was.target /\ backups = was.backups /\ rows = was.rows
       /\ BackToBefore]_vars

\* PLUGIN_SYSTEM_REFACTOR_PLAN.md:672: a proposal is marked applied only after
\* the runtime succeeded, which activates the version installed.
AppliedMeansRunning == [][pc = "applied" /\ phase' = "up" => running = target]_vars

\* PLUGIN_SYSTEM_REFACTOR_PLAN.md:672: a failed proposal restores the files.
FailedInstallsRestoreFiles == [][Reverted("install") => target = was.target]_vars

\* _deployer.py:386: a target that recovery removes is the partially switched
\* package of the deployment being recovered.
RecoveryRemovesOnlyItsOwn ==
  [][\A d \in todo \ todo' :
       phase = "files" /\ phase' = "files" /\ target # NULL /\ target' = NULL
         => target = rows[d].version]_vars

\* _deployer.py:217: a deployment supersedes those before it.
OneIsLive == phase = "up" /\ pc = "idle" => Cardinality(With(Live)) <= 1

\* Whoever is active has a package, also after a crash in PackageDeployer.rollback.
ActiveHasItsPackage ==
  phase = "up" /\ pc = "idle" /\ With({"active"}) # {} => target # NULL
=============================================================================
