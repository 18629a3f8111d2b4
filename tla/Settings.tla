------------------------------- MODULE Settings -------------------------------
(***************************************************************************)
(* The configuration in effect (ConfigCenter), the prompt files and what   *)
(* the control plane does to them when a proposal is approved.             *)
(*                                                                         *)
(* A settings or prompt proposal is applied without an await, and may only *)
(* be cut short by a crash; the state of a plugin is changed in the        *)
(* configuration first and then in the runtime, whose reload awaits: other *)
(* proposals are approved meanwhile.  What is written: runtime_settings    *)
(* and settings_versions (two commits of one database), control_proposals  *)
(* (another database), a prompt part and its manifest (two files).         *)
(***************************************************************************)
EXTENDS Naturals, Sequences, FiniteSets

CONSTANTS
  Paths,          \* settings a proposal may change
  Values,         \* their values
  Refused,        \* those _validate_effective_config refuses
  Default,        \* what the configuration file says at first
  Plugins,        \* plugins whose state a proposal may change (to TRUE: disabled)
  Texts,          \* contents of the prompt part
  Versions,       \* version strings of the prompt manifest
  FirstPrompt,    \* [text, version] as shipped
  Offered,        \* bound: the changes that are proposed
  Proposals,      \* identifiers of proposals
  Approvals,      \* calls of approve_and_apply that may be under way together
  MaxRestarts,    \* bound: crashes
  MaxEdits,       \* bound: edits of the configuration file
  MaxRejected,    \* bound: proposals that are rejected
  NULL

ASSUME ValueAssumption == Refused \subseteq Values /\ Default \in Values \ Refused /\ NULL \notin Values
ASSUME BoundAssumption == MaxRestarts \in Nat /\ MaxEdits \in Nat /\ MaxRejected \in Nat
ASSUME SubjectAssumption == Paths \cap Plugins = {} /\ \A off \in SUBSET Plugins : off # NULL
ASSUME PromptAssumption == FirstPrompt \in [text: Texts, version: Versions]

Subjects == Paths \cup Plugins

Changes ==
  [kind: {"settings"}, of: Paths, to: Values] \cup [kind: {"state"}, of: Plugins, to: BOOLEAN]
    \cup [kind: {"prompt"}, text: Texts, version: Versions]

ASSUME OfferAssumption == Offered \subseteq Changes

VARIABLES
  up,
  file,        \* the settings in the configuration file
  config,      \* the configuration in effect: settings and disabled plugins
  version,     \* ConfigCenter._settings_version
  stored,      \* runtime_settings
  versions,    \* settings_versions: the configuration of each version
  disk,        \* the prompt part and the manifest's version
  registry,    \* PromptRegistry: the same, as loaded
  loaded,      \* plugins the runtime has published
  proposal,    \* control_proposals
  approval,    \* locals of approve_and_apply (alone: history)
  promised,    \* what the last proposal decided "applied" for a subject set (history)
  doubtful,    \* subjects a crash or another approval interfered with (history)
  torn,        \* a crash came between two prompt files (history)
  restarts, edits

vars == <<up, file, config, version, stored, versions, disk, registry, loaded,
          proposal, approval, promised, doubtful, torn, restarts, edits>>

Configs == [set: [Paths -> Values], off: SUBSET Plugins]
Prompts == [text: Texts, version: Versions]
Places == {"record", "components", "undo", "undoRecord", "undoComponents", "compensate", "manifest",
           "load", "restore", "restoreManifest", "decide"}
Awaits == {"reload", "reloading", "reconcile", "reconciling"}
Call ==
  [of: Proposals, at: Places \cup Awaits, before: Configs, old: Prompts, wanted: BOOLEAN,
   outcome: {"applied", "failed"}, alone: BOOLEAN]
Proposal == [what: Changes, status: {"pending", "applied", "failed", "rejected"}]

ASSUME NullAssumption == NULL \notin Call \cup Proposal

TypeOK ==
  /\ up \in BOOLEAN /\ torn \in BOOLEAN
  /\ file \in [Paths -> Values] /\ config \in Configs
  /\ version \in Nat /\ versions \in Seq(Configs)
  /\ stored \in [set: [Paths -> Values \cup {NULL}], off: (SUBSET Plugins) \cup {NULL}]
  /\ disk \in Prompts /\ registry \in Prompts
  /\ loaded \subseteq Plugins
  /\ proposal \in [Proposals -> {NULL} \cup Proposal]
  /\ approval \in [Approvals -> {NULL} \cup Call]
  /\ promised \in [Subjects -> {NULL} \cup Values \cup BOOLEAN] /\ doubtful \subseteq Subjects
  /\ restarts \in 0..MaxRestarts /\ edits \in 0..MaxEdits

Init ==
  /\ up = TRUE /\ torn = FALSE /\ file = [p \in Paths |-> Default]
  /\ config = [set |-> file, off |-> {}] /\ version = 1 /\ versions = <<config>>
  /\ stored = [set |-> [p \in Paths |-> NULL], off |-> NULL]
  /\ disk = FirstPrompt /\ registry = disk /\ loaded = Plugins
  /\ proposal = [i \in Proposals |-> NULL] /\ approval = [a \in Approvals |-> NULL]
  /\ promised = [x \in Subjects |-> NULL] /\ doubtful = {} /\ restarts = 0 /\ edits = 0

\* No approval is between two awaits.
Awaiting == \A a \in Approvals : approval[a] # NULL => approval[a].at \in Awaits
What(a) == proposal[approval[a].of].what
At(a, kind, at) == approval[a] # NULL /\ approval[a].at = at /\ What(a).kind = kind
Set(a, r) == approval' = [approval EXCEPT ![a] = r]
Goto(a, at) == Set(a, [approval[a] EXCEPT !.at = at])
Fail(a, at) == Set(a, [approval[a] EXCEPT !.at = at, !.outcome = "failed"])
\* Approvals of plugin states that are under way.
States == {a \in Approvals : approval[a] # NULL /\ What(a).kind = "state"}

-----------------------------------------------------------------------------
\* Proposals.

Propose(i, what) ==
  /\ up /\ Awaiting /\ proposal[i] = NULL
  /\ proposal' = [proposal EXCEPT ![i] = [what |-> what, status |-> "pending"]]
  /\ UNCHANGED <<up, file, config, version, stored, versions, disk, registry, loaded,
                 approval, promised, doubtful, torn, restarts, edits>>

Rejected == {i \in Proposals : proposal[i] # NULL /\ proposal[i].status = "rejected"}

\* reject() looks at no status.
Reject(i) ==
  /\ up /\ Awaiting /\ proposal[i] # NULL /\ Cardinality(Rejected) < MaxRejected
  /\ proposal' = [proposal EXCEPT ![i].status = "rejected"]
  /\ UNCHANGED <<up, file, config, version, stored, versions, disk, registry, loaded,
                 approval, promised, doubtful, torn, restarts, edits>>

\* What a trigger of the agent would record of what it runs with, at an await.
Snapshot == [version |-> version, config |-> config, prompt |-> registry]

-----------------------------------------------------------------------------
\* ConfigCenter.replace_config(): the first commit, then the second.

Replace(new, keep) ==
  /\ config' = new /\ version' = version + 1 /\ stored' = keep

\* INSERT OR IGNORE of the version in memory.
Recorded(v, c) == IF v <= Len(versions) THEN versions ELSE Append(versions, c)

Record(a, from, to) ==
  /\ approval[a] # NULL /\ approval[a].at = from
  /\ versions' = Recorded(version, config)
  /\ Goto(a, to)
  /\ UNCHANGED <<up, file, config, version, stored, disk, registry, loaded, proposal,
                 promised, doubtful, torn, restarts, edits>>

Opened(i, at) ==
  [of |-> i, at |-> at, before |-> config, old |-> disk, wanted |-> FALSE, outcome |-> "applied",
   alone |-> States = {}]

MayApprove(a, i, kind) ==
  /\ up /\ Awaiting /\ approval[a] = NULL
  /\ proposal[i] # NULL /\ proposal[i].status = "pending" /\ proposal[i].what.kind = kind

-----------------------------------------------------------------------------
\* Settings.

ApproveSettings(a, i) ==
  /\ MayApprove(a, i, "settings")
  /\ LET what == proposal[i].what IN
       IF what.to \in Refused
         THEN /\ Set(a, [Opened(i, "decide") EXCEPT !.outcome = "failed"])
              /\ UNCHANGED <<config, version, stored>>
         ELSE /\ Replace([config EXCEPT !.set[what.of] = what.to],
                         [stored EXCEPT !.set[what.of] = what.to])
              /\ Set(a, Opened(i, "record"))
  /\ UNCHANGED <<up, file, versions, disk, registry, loaded, proposal, promised,
                 doubtful, torn, restarts, edits>>

\* The executor, the scheduler and the capability services take the new values;
\* the latter may raise.
Components(a) ==
  /\ At(a, "settings", "components")
  /\ \/ Goto(a, "decide")
     \/ Fail(a, "undo")
  /\ UNCHANGED <<up, file, config, version, stored, versions, disk, registry, loaded,
                 proposal, promised, doubtful, torn, restarts, edits>>

\* The previous configuration is activated, its value stored like a change.
\* (Mutant: it is only put back in memory.)
PreviousForgotten(a) == stored
Previous(a) == [stored EXCEPT !.set[What(a).of] = approval[a].before.set[What(a).of]]

Undo(a) ==
  /\ At(a, "settings", "undo")
  /\ Replace(approval[a].before, Previous(a))
  /\ Goto(a, "undoRecord")
  /\ UNCHANGED <<up, file, versions, disk, registry, loaded, proposal, promised,
                 doubtful, torn, restarts, edits>>

UndoComponents(a) ==
  /\ At(a, "settings", "undoComponents")
  /\ Goto(a, "decide")
  /\ UNCHANGED <<up, file, config, version, stored, versions, disk, registry, loaded,
                 proposal, promised, doubtful, torn, restarts, edits>>

-----------------------------------------------------------------------------
\* The state of a plugin.

Switched(off, what) == IF what.to THEN off \cup {what.of} ELSE off \ {what.of}

ApproveState(a, i) ==
  /\ MayApprove(a, i, "state")
  /\ LET off == Switched(config.off, proposal[i].what) IN
       Replace([config EXCEPT !.off = off], [stored EXCEPT !.off = off])
  /\ approval' = [b \in Approvals |->
       IF b = a THEN Opened(i, "record")
       ELSE IF b \in States THEN [approval[b] EXCEPT !.alone = FALSE] ELSE approval[b]]
  /\ doubtful' = IF States = {} THEN doubtful ELSE doubtful \cup Plugins
  /\ UNCHANGED <<up, file, versions, disk, registry, loaded, proposal, promised, torn,
                 restarts, edits>>

\* The coordinator's lock of the plugin.
Locked(p) == \E a \in States : approval[a].at \in {"reloading", "reconciling"} /\ What(a).of = p

\* The runtime is told what is disabled when the reload begins.
Begin(a, from, to) ==
  /\ Awaiting /\ At(a, "state", from) /\ ~Locked(What(a).of)
  /\ Set(a, [approval[a] EXCEPT !.at = to, !.wanted = What(a).of \notin config.off])
  /\ UNCHANGED <<up, file, config, version, stored, versions, disk, registry, loaded,
                 proposal, promised, doubtful, torn, restarts, edits>>

\* reload_plugin(): a disabled plugin is removed; otherwise its new generation
\* starts, or it raises and the old one goes on, or neither does.
Reloaded(a, now, raised) ==
  LET p == What(a).of IN
  /\ loaded' = now
  /\ \/ ~approval[a].wanted /\ ~raised /\ now = loaded \ {p} /\ UNCHANGED doubtful
     \/ approval[a].wanted /\ ~raised /\ now = loaded \cup {p} /\ UNCHANGED doubtful
     \/ approval[a].wanted /\ raised /\ now = loaded /\ UNCHANGED doubtful
     \/ /\ approval[a].wanted /\ raised /\ p \in loaded /\ now = loaded \ {p}
        /\ doubtful' = doubtful \cup {p}

\* _enable(), _disable(): whether the snapshot says what the proposal does.
ReloadDone(a, now, raised) ==
  /\ Awaiting /\ At(a, "state", "reloading")
  /\ Reloaded(a, now, raised)
  /\ IF ~raised /\ (What(a).of \in now <=> ~What(a).to) THEN Goto(a, "decide") ELSE Fail(a, "compensate")
  /\ UNCHANGED <<up, file, config, version, stored, versions, disk, registry, proposal,
                 promised, torn, restarts, edits>>

\* _compensate_plugin_operation(): the list of disabled plugins becomes what it
\* was before the approval, whatever was approved since.
\* (Mutant: the configuration is left as it is.)
OffAsItIs(a) == config.off
OffBefore(a) == approval[a].before.off

Compensate(a) ==
  /\ At(a, "state", "compensate")
  /\ Replace([config EXCEPT !.off = OffBefore(a)], [stored EXCEPT !.off = OffBefore(a)])
  /\ Goto(a, "undoRecord")
  /\ UNCHANGED <<up, file, versions, disk, registry, loaded, proposal, promised,
                 doubtful, torn, restarts, edits>>

ReconcileDone(a, now, raised) ==
  /\ Awaiting /\ At(a, "state", "reconciling")
  /\ Reloaded(a, now, raised)
  /\ Goto(a, "decide")
  /\ UNCHANGED <<up, file, config, version, stored, versions, disk, registry, proposal,
                 promised, torn, restarts, edits>>

-----------------------------------------------------------------------------
\* Prompts.

Prompt(a) == [text |-> What(a).text, version |-> What(a).version]

\* The part is written first ...
ApprovePrompt(a, i) ==
  /\ MayApprove(a, i, "prompt")
  /\ disk' = [disk EXCEPT !.text = proposal[i].what.text]
  /\ Set(a, Opened(i, "manifest"))
  /\ UNCHANGED <<up, file, config, version, stored, versions, registry, loaded,
                 proposal, promised, doubtful, torn, restarts, edits>>

\* ... then the manifest, where each write may raise ...
WriteManifest(a) ==
  /\ At(a, "prompt", "manifest")
  /\ \/ disk' = [disk EXCEPT !.version = What(a).version] /\ Goto(a, "load")
     \/ UNCHANGED disk /\ Fail(a, "restore")
  /\ UNCHANGED <<up, file, config, version, stored, versions, registry, loaded,
                 proposal, promised, doubtful, torn, restarts, edits>>

\* ... and both are read again.
Load(a) ==
  /\ At(a, "prompt", "load")
  /\ \/ registry' = disk /\ Goto(a, "decide")
     \/ UNCHANGED registry /\ Fail(a, "restore")
  /\ UNCHANGED <<up, file, config, version, stored, versions, disk, loaded, proposal,
                 promised, doubtful, torn, restarts, edits>>

RestorePart(a) ==
  /\ At(a, "prompt", "restore")
  /\ disk' = [disk EXCEPT !.text = approval[a].old.text]
  /\ Goto(a, "restoreManifest")
  /\ UNCHANGED <<up, file, config, version, stored, versions, registry, loaded,
                 proposal, promised, doubtful, torn, restarts, edits>>

\* (Mutant: only the part is put back.)
ManifestLeft(a) == disk
ManifestRestored(a) == [disk EXCEPT !.version = approval[a].old.version]

RestoreManifest(a) ==
  /\ At(a, "prompt", "restoreManifest")
  /\ disk' = ManifestRestored(a)
  /\ Goto(a, "decide")
  /\ UNCHANGED <<up, file, config, version, stored, versions, registry, loaded,
                 proposal, promised, doubtful, torn, restarts, edits>>

-----------------------------------------------------------------------------
\* _decide(), in the other database.
Decide(a) ==
  /\ approval[a] # NULL /\ approval[a].at = "decide"
  /\ proposal' = [proposal EXCEPT ![approval[a].of].status = approval[a].outcome]
  /\ Set(a, NULL)
  /\ IF approval[a].outcome = "applied" /\ What(a).kind # "prompt"
       THEN /\ promised' = [promised EXCEPT ![What(a).of] = What(a).to]
            /\ doubtful' = IF approval[a].alone THEN doubtful \ {What(a).of} ELSE doubtful
       ELSE UNCHANGED <<promised, doubtful>>
  /\ UNCHANGED <<up, file, config, version, stored, versions, disk, registry, loaded,
                 torn, restarts, edits>>

Edit(p, v) ==
  /\ ~up /\ edits < MaxEdits /\ v \notin Refused /\ v # file[p]
  /\ file' = [file EXCEPT ![p] = v] /\ edits' = edits + 1
  /\ UNCHANGED <<up, config, version, stored, versions, disk, registry, loaded,
                 proposal, approval, promised, doubtful, torn, restarts>>

Under == {a \in Approvals : approval[a] # NULL}

Crash ==
  /\ up /\ restarts < MaxRestarts
  /\ up' = FALSE /\ restarts' = restarts + 1
  /\ approval' = [a \in Approvals |-> NULL] /\ loaded' = {}
  /\ doubtful' = doubtful \cup {What(a).of : a \in {b \in Under : What(b).kind # "prompt"}}
  /\ torn' = (torn \/ \E a \in Under : approval[a].at \in {"manifest", "restore", "restoreManifest"})
  /\ UNCHANGED <<file, config, version, stored, versions, disk, registry, proposal,
                 promised, edits>>

\* init_db(): the version after the last one, and the stored settings over those
\* of the file.  (Mutant: the last version goes on.)
NextVersionSame == Len(versions)
NextVersion == Len(versions) + 1

Overlaid ==
  [set |-> [p \in Paths |-> IF stored.set[p] = NULL THEN file[p] ELSE stored.set[p]],
   off |-> IF stored.off = NULL THEN {} ELSE stored.off]

\* The plugins that are not disabled are activated, as far as they start.
Boot(starts) ==
  /\ ~up
  /\ up' = TRUE
  /\ config' = Overlaid /\ version' = NextVersion /\ versions' = Recorded(NextVersion, Overlaid)
  /\ registry' = disk
  /\ loaded' = starts \ Overlaid.off
  /\ doubtful' = doubtful \cup (Plugins \ (starts \cup Overlaid.off))
  /\ UNCHANGED <<file, stored, disk, proposal, approval, promised, torn, restarts, edits>>

ApprovalStep(a) ==
  \/ Record(a, "record", IF What(a).kind = "settings" THEN "components" ELSE "reload")
  \/ Record(a, "undoRecord", IF What(a).kind = "settings" THEN "undoComponents" ELSE "reconcile")
  \/ Components(a) \/ Undo(a) \/ UndoComponents(a)
  \/ Begin(a, "reload", "reloading") \/ Begin(a, "reconcile", "reconciling")
  \/ \E now \in SUBSET Plugins, raised \in BOOLEAN :
       ReloadDone(a, now, raised) \/ ReconcileDone(a, now, raised)
  \/ Compensate(a) \/ WriteManifest(a) \/ Load(a) \/ RestorePart(a) \/ RestoreManifest(a)
  \/ Decide(a)

Next ==
  \/ \E i \in Proposals, what \in Offered : Propose(i, what)
  \/ \E i \in Proposals : Reject(i)
  \/ \E a \in Approvals, i \in Proposals : ApproveSettings(a, i) \/ ApproveState(a, i) \/ ApprovePrompt(a, i)
  \/ \E a \in Approvals : ApprovalStep(a)
  \/ \E p \in Paths, v \in Values : Edit(p, v)
  \/ \E starts \in SUBSET Plugins : Boot(starts)
  \/ Crash

Spec == Init /\ [][Next]_vars

-----------------------------------------------------------------------------
\* What makes configuration correct.

\* A snapshot names the configuration the agent runs with: whenever it is taken,
\* the row of its version holds the same, whatever was changed, undone or cut
\* short by a crash before and whatever the file says at a later boot; and no row
\* ever changes.
RecordedAs(snapshot) ==
  snapshot.version \in DOMAIN versions /\ versions[snapshot.version] = snapshot.config
SnapshotsNameTheirConfig ==
  [][/\ \A v \in DOMAIN versions : v \in DOMAIN versions' /\ versions'[v] = versions[v]
     /\ (up /\ Awaiting => RecordedAs(Snapshot))']_vars

\* What an applied proposal set stays in effect until another one is applied:
\* over failed proposals for the same subject, restarts and edits of the file.
\* (Unless a crash or an approval of another plugin's state interfered with it.)
PromisedIsInEffect == \A x \in Subjects :
  /\ up /\ promised[x] # NULL /\ x \notin doubtful
  /\ \A a \in Under : What(a).kind = "prompt" \/ What(a).of # x
  => promised[x] = IF x \in Paths THEN config.set[x] ELSE x \in config.off

\* The runtime runs the plugins that are not disabled, after proposals that
\* succeed and proposals that fail (with the same exceptions, and that of a
\* plugin that does not start any more).
RuntimeFollowsConfig == \A p \in Plugins :
  up /\ States = {} /\ p \notin doubtful => (p \in loaded <=> p \notin config.off)

\* The prompt in use is the one on disk, and text and version belong together.
PromptsAreWhole ==
  up /\ ~torn /\ (\A a \in Under : What(a).kind # "prompt") =>
    /\ registry = disk
    /\ disk \in {FirstPrompt} \cup
         {[text |-> proposal[i].what.text, version |-> proposal[i].what.version] :
            i \in {j \in Proposals : proposal[j] # NULL /\ proposal[j].what.kind = "prompt"}}

\* The state an applied proposal gave a plugin is in effect once no other is under
\* way.  (Stated, and not kept by the code: compensation restores a list read
\* before the await.)
PromisedStateIsInEffect == \A p \in Plugins :
  up /\ States = {} /\ promised[p] # NULL => (promised[p] <=> p \in config.off)

\* What a rejected proposal asked for is not in effect, unless another one set it.
\* (Stated, and not kept by the code: the setting is committed before the proposal
\* is decided, and reject() does not look at it.)
RejectedIsNotInEffect == \A i \in Proposals :
  up /\ Under = {} /\ proposal[i] # NULL /\ proposal[i].status = "rejected"
    /\ proposal[i].what.kind = "settings" /\ promised[proposal[i].what.of] = NULL
    => config.set[proposal[i].what.of] # proposal[i].what.to
===============================================================================
