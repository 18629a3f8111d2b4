--------------------------- MODULE Settings_proofs ---------------------------
(***************************************************************************)
(* Proofs about Settings, for any settings, plugins, prompts, proposals    *)
(* and any number of approvals under way, crashes and edits of the file.   *)
(***************************************************************************)
EXTENDS Settings, TLAPS

\* An approval is of a proposal that was made, in a process that is up.
Known == \A a \in Approvals : approval[a] # NULL => up /\ proposal[approval[a].of] # NULL

\* An approval runs until its next await; no other does meanwhile.
Busy(a) == approval[a] # NULL /\ approval[a].at \notin Awaits
OneRuns == \A a, b \in Approvals : Busy(a) /\ Busy(b) => a = b

\* The configuration has been replaced, and its version has no row yet.
Unrecorded(a) == approval[a] # NULL /\ approval[a].at \in {"record", "undoRecord"}
LastRow ==
  up => IF \E a \in Approvals : Unrecorded(a)
          THEN version = Len(versions) + 1
          ELSE version = Len(versions) /\ version >= 1 /\ versions[version] = config

IInv == TypeOK /\ Known /\ OneRuns /\ LastRow

-----------------------------------------------------------------------------
\* What the actions are made of.

LEMMA KindFacts ==
  ASSUME NEW what \in Changes
  PROVE  /\ what.kind = "settings" => what.of \in Paths /\ what.to \in Values
         /\ what.kind = "state" => what.of \in Plugins /\ what.to \in BOOLEAN
         /\ what.kind = "prompt" => what.text \in Texts /\ what.version \in Versions
         /\ what.kind # "prompt" => what.of \in Subjects /\ what.to \in Values \cup BOOLEAN
  BY DEF Changes, Subjects

LEMMA WhatFacts ==
  ASSUME TypeOK, Known, NEW a \in Approvals, approval[a] # NULL
  PROVE  /\ approval[a] \in Call /\ approval[a].of \in Proposals
         /\ proposal[approval[a].of] \in Proposal /\ What(a) \in Changes
<1>1. approval[a] \in Call /\ approval[a].of \in Proposals
  BY DEF TypeOK, Call
<1>2. proposal[approval[a].of] \in Proposal
  BY <1>1 DEF TypeOK, Known
<1> QED
  BY <1>1, <1>2 DEF What, Proposal

LEMMA OpenedFacts ==
  ASSUME TypeOK, NEW i \in Proposals, NEW at \in Places
  PROVE  /\ Opened(i, at) \in Call /\ Opened(i, at).at = at /\ Opened(i, at).of = i
         /\ LET r == [Opened(i, at) EXCEPT !.outcome = "failed"]
            IN r \in Call /\ r.at = at /\ r.of = i
  BY DEF TypeOK, Opened, Call

\* A proposal that can be approved.
LEMMA MayFacts ==
  ASSUME IInv, NEW a \in Approvals, NEW i \in Proposals, NEW kind, MayApprove(a, i, kind)
  PROVE  /\ up /\ proposal[i] # NULL /\ proposal[i] \in Proposal /\ proposal[i].what \in Changes
         /\ \A b \in Approvals : ~Busy(b) /\ ~Unrecorded(b)
  BY DEF IInv, TypeOK, MayApprove, Proposal, Awaiting, Busy, Unrecorded, Awaits

-----------------------------------------------------------------------------
\* An approval takes a step: r is what becomes of it.

LEMMA StepFacts ==
  ASSUME IInv, NEW a \in Approvals, NEW r \in {NULL} \cup Call,
         approval' = [approval EXCEPT ![a] = r], up, UNCHANGED up,
         Busy(a) \/ \A b \in Approvals : ~Busy(b),
         r # NULL => proposal[r.of] # NULL,
         \A i \in Proposals : proposal[i] # NULL => proposal'[i] # NULL
  PROVE  Known' /\ OneRuns' /\ approval' \in [Approvals -> {NULL} \cup Call]
<1>1. approval' \in [Approvals -> {NULL} \cup Call]
  BY DEF IInv, TypeOK
<1>2. \A b \in Approvals : approval'[b] = IF b = a THEN r ELSE approval[b]
  BY DEF IInv, TypeOK
<1>3. \A b \in Approvals : b # a => ~Busy(b)
  BY DEF IInv, OneRuns
<1>4. OneRuns'
  BY <1>2, <1>3 DEF OneRuns, Busy
<1>5. Known'
  <2> SUFFICES ASSUME NEW b \in Approvals, approval'[b] # NULL
               PROVE  up' /\ proposal'[approval'[b].of] # NULL
    BY DEF Known
  <2>1. approval'[b] \in Call /\ approval'[b].of \in Proposals
    BY <1>1 DEF Call
  <2>2. proposal[approval'[b].of] # NULL
    BY <1>2 DEF IInv, Known
  <2> QED
    BY <2>1, <2>2
<1> QED
  BY <1>1, <1>4, <1>5

\* The configuration and its row are left alone.
LEMMA QuietRow ==
  ASSUME IInv, UNCHANGED <<up, config, version, versions>>,
         \A b \in Approvals : Unrecorded(b)' <=> Unrecorded(b)
  PROVE  LastRow'
  BY DEF IInv, LastRow

\* The configuration is replaced: no row is missing before, and one is after.
LEMMA ReplaceRow ==
  ASSUME IInv, UNCHANGED <<up, versions>>, version' = version + 1,
         \A b \in Approvals : ~Unrecorded(b), NEW a \in Approvals, Unrecorded(a)'
  PROVE  LastRow'
  BY DEF IInv, LastRow, TypeOK

\* A new row is the last, and the others stay.
LEMMA AppendFacts ==
  ASSUME TypeOK, NEW v \in Nat, NEW c \in Configs
  PROVE  /\ Recorded(v, c) \in Seq(Configs)
         /\ \A w \in DOMAIN versions :
              w \in DOMAIN Recorded(v, c) /\ Recorded(v, c)[w] = versions[w]
         /\ v = Len(versions) + 1 => Len(Recorded(v, c)) = v /\ Recorded(v, c)[v] = c
  BY DEF TypeOK, Recorded

\* The steps of an approval that touch neither the configuration nor its rows,
\* between places at which no row is missing.
LEMMA QuietStep ==
  ASSUME IInv, NEW a \in Approvals, NEW r \in {NULL} \cup Call,
         approval' = [approval EXCEPT ![a] = r], up,
         UNCHANGED <<up, config, version, versions>>,
         Busy(a) \/ \A b \in Approvals : ~Busy(b),
         ~Unrecorded(a), r # NULL => r.at \notin {"record", "undoRecord"} /\ proposal[r.of] # NULL,
         \A i \in Proposals : proposal[i] # NULL => proposal'[i] # NULL
  PROVE  Known' /\ OneRuns' /\ LastRow' /\ approval' \in [Approvals -> {NULL} \cup Call]
<1>1. \A b \in Approvals : Unrecorded(b)' <=> Unrecorded(b)
  BY DEF IInv, TypeOK, Unrecorded
<1> QED
  BY <1>1, StepFacts, QuietRow

\* Those that replace the configuration.
LEMMA ReplaceStep ==
  ASSUME IInv, NEW a \in Approvals, NEW r \in Call, r.at \in {"record", "undoRecord"},
         approval' = [approval EXCEPT ![a] = r], up,
         UNCHANGED <<up, versions, proposal>>, version' = version + 1,
         Busy(a) \/ \A b \in Approvals : ~Busy(b),
         ~Unrecorded(a), proposal[r.of] # NULL
  PROVE  Known' /\ OneRuns' /\ LastRow' /\ approval' \in [Approvals -> {NULL} \cup Call]
<1>1. \A b \in Approvals : ~Unrecorded(b)
  BY DEF IInv, OneRuns, Busy, Unrecorded, Awaits
<1>2. Unrecorded(a)'
  BY NullAssumption DEF Unrecorded, IInv, TypeOK
<1> QED
  BY <1>1, <1>2, StepFacts, ReplaceRow

\* Those that only go to another place.
LEMMA MoveStep ==
  ASSUME IInv, NEW a \in Approvals, Busy(a), ~Unrecorded(a),
         NEW at \in (Places \cup Awaits) \ {"record", "undoRecord"},
         Goto(a, at) \/ Fail(a, at),
         UNCHANGED <<up, config, version, versions, proposal>>
  PROVE  Known' /\ OneRuns' /\ LastRow' /\ approval' \in [Approvals -> {NULL} \cup Call]
<1>1. PICK outcome \in {approval[a].outcome, "failed"} :
        approval' = [approval EXCEPT ![a] = [approval[a] EXCEPT !.at = at, !.outcome = outcome]]
  <2>1. approval[a] \in Call
    BY DEF Busy, IInv, TypeOK
  <2>2. CASE Fail(a, at)
    BY <2>2 DEF Fail, Set
  <2>3. CASE Goto(a, at)
    <3>1. [approval[a] EXCEPT !.at = at]
            = [approval[a] EXCEPT !.at = at, !.outcome = approval[a].outcome]
      BY <2>1 DEF Call
    <3> QED
      BY <2>3, <3>1 DEF Goto, Set
  <2> QED
    BY <2>2, <2>3
<1> DEFINE r == [approval[a] EXCEPT !.at = at, !.outcome = outcome]
<1>2. r \in Call /\ r.at = at /\ r.of = approval[a].of
  BY DEF Busy, IInv, TypeOK, Call
<1>3. up /\ proposal[r.of] # NULL
  BY <1>2 DEF Busy, IInv, Known
<1>4. approval' = [approval EXCEPT ![a] = r]
  BY <1>1
<1> HIDE DEF r
<1> QED
  BY <1>2, <1>3, <1>4, QuietStep

-----------------------------------------------------------------------------
\* One lemma per action.

LEMMA ProposeInv ==
  ASSUME IInv, NEW i \in Proposals, NEW what \in Offered, Propose(i, what)
  PROVE  IInv'
<1>1. [what |-> what, status |-> "pending"] \in Proposal
  BY OfferAssumption DEF Proposal
<1>2. TypeOK'
  BY <1>1 DEF IInv, TypeOK, Propose
<1>3. Known'
  <2> SUFFICES ASSUME NEW a \in Approvals, approval[a] # NULL
               PROVE  up /\ proposal'[approval[a].of] # NULL
    BY DEF Propose, Known
  <2>1. approval[a].of \in Proposals /\ up /\ proposal[approval[a].of] # NULL
    BY DEF IInv, TypeOK, Known, Call
  <2> QED
    BY <2>1 DEF Propose, IInv, TypeOK
<1>4. OneRuns' /\ LastRow'
  BY DEF Propose, IInv, OneRuns, Busy, LastRow, Unrecorded
<1> QED
  BY <1>2, <1>3, <1>4 DEF IInv

LEMMA RejectInv == ASSUME IInv, NEW i \in Proposals, Reject(i) PROVE IInv'
<1>1. /\ proposal' \in [Proposals -> {NULL} \cup Proposal]
      /\ \A j \in Proposals : proposal[j] # NULL => proposal'[j] # NULL
  <2>1. proposal[i] \in Proposal
    BY DEF IInv, TypeOK, Reject
  <2>2. [proposal[i] EXCEPT !.status = "rejected"] \in Proposal
    BY <2>1 DEF Proposal
  <2>3. proposal' = [proposal EXCEPT ![i] = [proposal[i] EXCEPT !.status = "rejected"]]
    BY DEF Reject
  <2> QED
    BY <2>2, <2>3, NullAssumption DEF IInv, TypeOK
<1>2. TypeOK'
  BY <1>1 DEF IInv, TypeOK, Reject
<1>3. Known'
  <2> SUFFICES ASSUME NEW a \in Approvals, approval[a] # NULL
               PROVE  up /\ proposal'[approval[a].of] # NULL
    BY DEF Reject, Known
  <2>1. approval[a].of \in Proposals /\ up /\ proposal[approval[a].of] # NULL
    BY DEF IInv, TypeOK, Known, Call
  <2> QED
    BY <2>1, <1>1
<1>4. OneRuns' /\ LastRow'
  BY DEF Reject, IInv, OneRuns, Busy, LastRow, Unrecorded
<1> QED
  BY <1>2, <1>3, <1>4 DEF IInv

\* The row of the replaced configuration is written.
LEMMA RecordInv ==
  ASSUME IInv, NEW a \in Approvals, NEW from \in {"record", "undoRecord"},
         NEW to \in {"components", "undoComponents", "reload", "reconcile"}, Record(a, from, to)
  PROVE  IInv'
<1> DEFINE r == [approval[a] EXCEPT !.at = to]
<1>1. r \in Call /\ r.at = to /\ r.of = approval[a].of
  <2>1. approval[a] \in Call /\ to \in Places \cup Awaits
    BY DEF Record, IInv, TypeOK, Places, Awaits
  <2> QED
    BY <2>1 DEF Call
<1>2. approval' = [approval EXCEPT ![a] = r] /\ UNCHANGED <<up, proposal>>
  BY DEF Record, Goto, Set
<1>3. Busy(a) /\ Unrecorded(a)
  BY DEF Record, Busy, Unrecorded, Awaits
<1>4. up /\ proposal[r.of] # NULL
  BY <1>1 DEF Record, IInv, Known
<1> HIDE DEF r
<1>5. Known' /\ OneRuns' /\ approval' \in [Approvals -> {NULL} \cup Call]
  BY <1>1, <1>2, <1>3, <1>4, StepFacts
<1>6. \A b \in Approvals : ~Unrecorded(b)'
  <2>1. \A b \in Approvals : b # a => ~Unrecorded(b)
    BY <1>3 DEF IInv, OneRuns, Busy, Unrecorded, Awaits
  <2> QED
    BY <1>1, <1>2, <2>1 DEF IInv, TypeOK, Unrecorded
<1>7. versions' = Recorded(version, config) /\ UNCHANGED <<config, version>>
  BY DEF Record
<1>8. versions' \in Seq(Configs) /\ (version = Len(versions) + 1 =>
        Len(versions') = version /\ versions'[version] = config)
  BY <1>7, AppendFacts DEF IInv, TypeOK
<1>9. LastRow'
  BY <1>2, <1>3, <1>6, <1>7, <1>8 DEF IInv, LastRow, TypeOK
<1>10. TypeOK'
  BY <1>5, <1>8 DEF IInv, TypeOK, Record
<1> QED
  BY <1>5, <1>9, <1>10 DEF IInv

LEMMA ApproveSettingsInv ==
  ASSUME IInv, NEW a \in Approvals, NEW i \in Proposals, ApproveSettings(a, i)
  PROVE  IInv'
<1> DEFINE what == proposal[i].what
<1>1. /\ up /\ proposal[i] # NULL /\ what \in Changes /\ what.of \in Paths /\ what.to \in Values
      /\ \A b \in Approvals : ~Busy(b) /\ ~Unrecorded(b)
  BY MayFacts, KindFacts DEF ApproveSettings, MayApprove
<1>2. CASE what.to \in Refused
  <2> DEFINE r == [Opened(i, "decide") EXCEPT !.outcome = "failed"]
  <2>1. r \in Call /\ r.at = "decide" /\ r.of = i
    BY OpenedFacts DEF IInv, Places
  <2>2. approval' = [approval EXCEPT ![a] = r]
        /\ UNCHANGED <<up, config, version, versions, proposal, stored>>
    BY <1>2 DEF ApproveSettings, Set
  <2> HIDE DEF r
  <2>3. Known' /\ OneRuns' /\ LastRow' /\ approval' \in [Approvals -> {NULL} \cup Call]
    BY <1>1, <2>1, <2>2, QuietStep
  <2>4. TypeOK'
    BY <2>2, <2>3 DEF IInv, TypeOK, ApproveSettings
  <2> QED
    BY <2>3, <2>4 DEF IInv
<1>3. CASE what.to \notin Refused
  <2> DEFINE r == Opened(i, "record")
  <2>1. r \in Call /\ r.at = "record" /\ r.of = i
    <3>1. TypeOK /\ "record" \in Places
      BY DEF IInv, Places
    <3> QED
      BY <3>1, OpenedFacts
  <2>2. /\ approval' = [approval EXCEPT ![a] = r] /\ version' = version + 1
        /\ UNCHANGED <<up, versions, proposal>>
    <3>1. Set(a, r) /\ Replace([config EXCEPT !.set[what.of] = what.to],
                               [stored EXCEPT !.set[what.of] = what.to])
      BY <1>3 DEF ApproveSettings
    <3> HIDE DEF r, what
    <3> QED
      BY <3>1 DEF ApproveSettings, Set, Replace
  <2>3. /\ config' = [config EXCEPT !.set[what.of] = what.to]
        /\ stored' = [stored EXCEPT !.set[what.of] = what.to]
    BY <1>3 DEF ApproveSettings, Replace
  <2>4. config' \in Configs
    BY <1>1, <2>3 DEF IInv, TypeOK, Configs
  <2>5. stored' \in [set: [Paths -> Values \cup {NULL}], off: (SUBSET Plugins) \cup {NULL}]
    BY <1>1, <2>3 DEF IInv, TypeOK
  <2> HIDE DEF r
  <2>6. Known' /\ OneRuns' /\ LastRow' /\ approval' \in [Approvals -> {NULL} \cup Call]
    BY <1>1, <2>1, <2>2, ReplaceStep
  <2>7. TypeOK'
    BY <2>2, <2>4, <2>5, <2>6 DEF IInv, TypeOK, ApproveSettings
  <2> QED
    BY <2>6, <2>7 DEF IInv
<1> QED
  BY <1>2, <1>3

\* What is at a place that is no await, and not one at which a row is missing.
LEMMA AtFacts ==
  ASSUME NEW a \in Approvals, NEW kind, NEW at, At(a, kind, at)
  PROVE  /\ approval[a] # NULL /\ approval[a].at = at /\ What(a).kind = kind
         /\ at \notin Awaits => Busy(a)
         /\ at \notin {"record", "undoRecord"} => ~Unrecorded(a)
  BY DEF At, Busy, Unrecorded

LEMMA ComponentsInv == ASSUME IInv, NEW a \in Approvals, Components(a) PROVE IInv'
<1>1. Busy(a) /\ ~Unrecorded(a)
  BY AtFacts DEF Components, Awaits
<1>2. UNCHANGED <<up, config, version, versions, proposal>>
  BY DEF Components
<1>3. {"decide", "undo"} \subseteq (Places \cup Awaits) \ {"record", "undoRecord"}
  BY DEF Places
<1>4. Goto(a, "decide") \/ Fail(a, "undo")
  BY DEF Components
<1>5. Known' /\ OneRuns' /\ LastRow' /\ approval' \in [Approvals -> {NULL} \cup Call]
  BY <1>1, <1>2, <1>3, <1>4, MoveStep
<1>6. TypeOK'
  BY <1>5 DEF IInv, TypeOK, Components
<1> QED
  BY <1>5, <1>6 DEF IInv

LEMMA UndoComponentsInv == ASSUME IInv, NEW a \in Approvals, UndoComponents(a) PROVE IInv'
<1>1. Busy(a) /\ ~Unrecorded(a)
  BY AtFacts DEF UndoComponents, Awaits
<1>2. UNCHANGED <<up, config, version, versions, proposal>> /\ Goto(a, "decide")
  BY DEF UndoComponents
<1>3. "decide" \in (Places \cup Awaits) \ {"record", "undoRecord"}
  BY DEF Places
<1>4. Known' /\ OneRuns' /\ LastRow' /\ approval' \in [Approvals -> {NULL} \cup Call]
  BY <1>1, <1>2, <1>3, MoveStep
<1>5. TypeOK'
  BY <1>4 DEF IInv, TypeOK, UndoComponents
<1> QED
  BY <1>4, <1>5 DEF IInv

\* What was read before is put back.
LEMMA UndoInv == ASSUME IInv, NEW a \in Approvals, Undo(a) PROVE IInv'
<1> DEFINE r == [approval[a] EXCEPT !.at = "undoRecord"]
<1>1. Busy(a) /\ ~Unrecorded(a) /\ approval[a] # NULL /\ What(a).kind = "settings"
  BY AtFacts DEF Undo, Awaits
<1>2. approval[a] \in Call /\ What(a) \in Changes
  BY <1>1, WhatFacts DEF IInv
<1>3. r \in Call /\ r.at = "undoRecord" /\ r.of = approval[a].of /\ up /\ proposal[r.of] # NULL
  BY <1>1, <1>2 DEF Call, IInv, Known, Places
<1>4. /\ approval' = [approval EXCEPT ![a] = r] /\ version' = version + 1
      /\ config' = approval[a].before /\ stored' = Previous(a)
      /\ UNCHANGED <<up, versions, proposal>>
  BY DEF Undo, Replace, Goto, Set
<1> HIDE DEF r
<1>5. Known' /\ OneRuns' /\ LastRow' /\ approval' \in [Approvals -> {NULL} \cup Call]
  BY <1>1, <1>3, <1>4, ReplaceStep
<1>6. config' \in Configs /\ approval[a].before.set \in [Paths -> Values]
  BY <1>2, <1>4 DEF Call, Configs
<1>7. What(a).of \in Paths
  BY <1>1, <1>2, KindFacts
<1>8. stored' \in [set: [Paths -> Values \cup {NULL}], off: (SUBSET Plugins) \cup {NULL}]
  BY <1>4, <1>6, <1>7 DEF Previous, IInv, TypeOK
<1>9. TypeOK'
  BY <1>4, <1>5, <1>6, <1>8 DEF IInv, TypeOK, Undo
<1> QED
  BY <1>5, <1>9 DEF IInv

\* The runtime, when the reload begins, and what it answers.
LEMMA BeginInv ==
  ASSUME IInv, NEW a \in Approvals, NEW from \in {"reload", "reconcile"},
         NEW to \in {"reloading", "reconciling"}, Begin(a, from, to)
  PROVE  IInv'
<1> DEFINE w == What(a).of \notin config.off
           r == [approval[a] EXCEPT !.at = to, !.wanted = w]
<1>1. approval[a] # NULL /\ ~Unrecorded(a) /\ \A b \in Approvals : ~Busy(b)
  BY AtFacts DEF Begin, Awaiting, Busy
<1>2. w \in BOOLEAN /\ to \in Places \cup Awaits /\ approval[a] \in Call
  BY <1>1 DEF Awaits, IInv, TypeOK
<1>3. r \in Call /\ r.at = to /\ r.of = approval[a].of
  <2> HIDE DEF w
  <2> QED
    BY <1>2 DEF Call
<1>4. up /\ proposal[r.of] # NULL
  BY <1>1, <1>3 DEF IInv, Known
<1>5. approval' = [approval EXCEPT ![a] = r] /\ UNCHANGED <<up, config, version, versions, proposal>>
  BY DEF Begin, Set
<1> HIDE DEF r
<1>6. Known' /\ OneRuns' /\ LastRow' /\ approval' \in [Approvals -> {NULL} \cup Call]
  BY <1>1, <1>3, <1>4, <1>5, QuietStep
<1>7. TypeOK'
  BY <1>6 DEF IInv, TypeOK, Begin
<1> QED
  BY <1>6, <1>7 DEF IInv

LEMMA ReloadedFacts ==
  ASSUME IInv, NEW a \in Approvals, approval[a] # NULL, What(a).kind = "state",
         NEW now \in SUBSET Plugins, NEW raised \in BOOLEAN, Reloaded(a, now, raised)
  PROVE  loaded' \subseteq Plugins /\ doubtful' \subseteq Subjects
<1>1. What(a).of \in Plugins
  BY WhatFacts, KindFacts DEF IInv
<1>2. Plugins \subseteq Subjects
  BY DEF Subjects
<1> QED
  BY <1>1, <1>2 DEF Reloaded, IInv, TypeOK

\* An approval goes on after an await.
LEMMA ResumeStep ==
  ASSUME IInv, NEW a \in Approvals, approval[a] # NULL, Awaiting, ~Unrecorded(a),
         NEW at \in Places \ {"record", "undoRecord"},
         Goto(a, at) \/ Fail(a, at),
         UNCHANGED <<up, config, version, versions, proposal>>
  PROVE  Known' /\ OneRuns' /\ LastRow' /\ approval' \in [Approvals -> {NULL} \cup Call]
<1>1. \A b \in Approvals : ~Busy(b)
  BY DEF Awaiting, Busy
<1>2. approval[a] \in Call
  BY DEF IInv, TypeOK
<1>3. PICK r \in Call : /\ approval' = [approval EXCEPT ![a] = r]
                        /\ r.at = at /\ r.of = approval[a].of
  <2>1. CASE Goto(a, at)
    <3> DEFINE r == [approval[a] EXCEPT !.at = at]
    <3>1. r \in Call /\ r.at = at /\ r.of = approval[a].of
      BY <1>2 DEF Call
    <3>2. approval' = [approval EXCEPT ![a] = r]
      BY <2>1 DEF Goto, Set
    <3> HIDE DEF r
    <3> QED
      BY <3>1, <3>2
  <2>2. CASE Fail(a, at)
    <3> DEFINE r == [approval[a] EXCEPT !.at = at, !.outcome = "failed"]
    <3>1. r \in Call /\ r.at = at /\ r.of = approval[a].of
      BY <1>2 DEF Call
    <3>2. approval' = [approval EXCEPT ![a] = r]
      BY <2>2 DEF Fail, Set
    <3> HIDE DEF r
    <3> QED
      BY <3>1, <3>2
  <2> QED
    BY <2>1, <2>2
<1>4. up /\ proposal[r.of] # NULL
  BY <1>3 DEF IInv, Known
<1> QED
  BY <1>1, <1>3, <1>4, QuietStep

LEMMA ReloadDoneInv ==
  ASSUME IInv, NEW a \in Approvals, NEW now \in SUBSET Plugins, NEW raised \in BOOLEAN,
         ReloadDone(a, now, raised)
  PROVE  IInv'
<1>1. approval[a] # NULL /\ What(a).kind = "state" /\ ~Unrecorded(a)
  BY AtFacts DEF ReloadDone
<1>2. {"decide", "compensate"} \subseteq Places \ {"record", "undoRecord"}
  BY DEF Places
<1>3. Goto(a, "decide") \/ Fail(a, "compensate")
  BY DEF ReloadDone
<1>4. Awaiting /\ UNCHANGED <<up, config, version, versions, proposal>>
  BY DEF ReloadDone
<1>5. Known' /\ OneRuns' /\ LastRow' /\ approval' \in [Approvals -> {NULL} \cup Call]
  BY <1>1, <1>2, <1>3, <1>4, ResumeStep
<1>6. loaded' \subseteq Plugins /\ doubtful' \subseteq Subjects
  BY <1>1, ReloadedFacts DEF ReloadDone
<1>7. TypeOK'
  BY <1>5, <1>6 DEF IInv, TypeOK, ReloadDone
<1> QED
  BY <1>5, <1>7 DEF IInv

LEMMA ReconcileDoneInv ==
  ASSUME IInv, NEW a \in Approvals, NEW now \in SUBSET Plugins, NEW raised \in BOOLEAN,
         ReconcileDone(a, now, raised)
  PROVE  IInv'
<1>1. approval[a] # NULL /\ What(a).kind = "state" /\ ~Unrecorded(a)
  BY AtFacts DEF ReconcileDone
<1>2. "decide" \in Places \ {"record", "undoRecord"}
  BY DEF Places
<1>3. Awaiting /\ Goto(a, "decide") /\ UNCHANGED <<up, config, version, versions, proposal>>
  BY DEF ReconcileDone
<1>4. Known' /\ OneRuns' /\ LastRow' /\ approval' \in [Approvals -> {NULL} \cup Call]
  BY <1>1, <1>2, <1>3, ResumeStep
<1>5. loaded' \subseteq Plugins /\ doubtful' \subseteq Subjects
  BY <1>1, ReloadedFacts DEF ReconcileDone
<1>6. TypeOK'
  BY <1>4, <1>5 DEF IInv, TypeOK, ReconcileDone
<1> QED
  BY <1>4, <1>6 DEF IInv

LEMMA CompensateInv == ASSUME IInv, NEW a \in Approvals, Compensate(a) PROVE IInv'
<1> DEFINE r == [approval[a] EXCEPT !.at = "undoRecord"]
<1>1. Busy(a) /\ ~Unrecorded(a) /\ approval[a] # NULL
  BY AtFacts DEF Compensate, Awaits
<1>2. approval[a] \in Call
  BY <1>1 DEF IInv, TypeOK
<1>3. r \in Call /\ r.at = "undoRecord" /\ r.of = approval[a].of /\ up /\ proposal[r.of] # NULL
  BY <1>1, <1>2 DEF Call, IInv, Known, Places
<1>4. /\ approval' = [approval EXCEPT ![a] = r] /\ version' = version + 1
      /\ config' = [config EXCEPT !.off = OffBefore(a)]
      /\ stored' = [stored EXCEPT !.off = OffBefore(a)]
      /\ UNCHANGED <<up, versions, proposal>>
  BY DEF Compensate, Replace, Goto, Set
<1> HIDE DEF r
<1>5. Known' /\ OneRuns' /\ LastRow' /\ approval' \in [Approvals -> {NULL} \cup Call]
  BY <1>1, <1>3, <1>4, ReplaceStep
<1>6. OffBefore(a) \in SUBSET Plugins
  BY <1>2 DEF OffBefore, Call, Configs
<1>7. config' \in Configs
  BY <1>4, <1>6 DEF IInv, TypeOK, Configs
<1>8. stored' \in [set: [Paths -> Values \cup {NULL}], off: (SUBSET Plugins) \cup {NULL}]
  BY <1>4, <1>6 DEF IInv, TypeOK
<1>9. TypeOK'
  BY <1>4, <1>5, <1>7, <1>8 DEF IInv, TypeOK, Compensate
<1> QED
  BY <1>5, <1>9 DEF IInv

\* An approval of a plugin's state marks the others that are under way.
LEMMA ApproveStateInv ==
  ASSUME IInv, NEW a \in Approvals, NEW i \in Proposals, ApproveState(a, i)
  PROVE  IInv'
<1> DEFINE what == proposal[i].what
           off == Switched(config.off, what)
           marked(b) == [approval[b] EXCEPT !.alone = FALSE]
<1>1. /\ up /\ proposal[i] # NULL /\ what \in Changes /\ what.of \in Plugins
      /\ approval[a] = NULL /\ \A b \in Approvals : ~Busy(b) /\ ~Unrecorded(b)
  BY MayFacts, KindFacts DEF ApproveState, MayApprove
<1>2. Opened(i, "record") \in Call /\ Opened(i, "record").at = "record" /\ Opened(i, "record").of = i
  <2>1. TypeOK /\ "record" \in Places
    BY DEF IInv, Places
  <2> QED
    BY <2>1, OpenedFacts
<1>3. /\ config' = [config EXCEPT !.off = off] /\ version' = version + 1
      /\ stored' = [stored EXCEPT !.off = off]
      /\ UNCHANGED <<up, versions, proposal>>
  BY DEF ApproveState, Replace
<1>4. off \in SUBSET Plugins
  BY <1>1 DEF Switched, IInv, TypeOK, Configs
<1>5. config' \in Configs
      /\ stored' \in [set: [Paths -> Values \cup {NULL}], off: (SUBSET Plugins) \cup {NULL}]
  <2> HIDE DEF off
  <2>1. config' \in Configs
    BY <1>3, <1>4 DEF IInv, TypeOK, Configs
  <2>2. stored' \in [set: [Paths -> Values \cup {NULL}], off: (SUBSET Plugins) \cup {NULL}]
    BY <1>3, <1>4 DEF IInv, TypeOK
  <2> QED
    BY <2>1, <2>2
<1>6. \A b \in States : marked(b) \in Call /\ marked(b).at = approval[b].at
                        /\ marked(b).of = approval[b].of
  <2> SUFFICES ASSUME NEW b \in States
               PROVE  marked(b) \in Call /\ marked(b).at = approval[b].at
                      /\ marked(b).of = approval[b].of
    OBVIOUS
  <2>1. approval[b] \in Call
    BY DEF States, IInv, TypeOK
  <2> QED
    BY <2>1 DEF Call
<1>7. approval' = [b \in Approvals |->
        IF b = a THEN Opened(i, "record") ELSE IF b \in States THEN marked(b) ELSE approval[b]]
  BY DEF ApproveState
<1> HIDE DEF off, what, marked
<1>8. approval' \in [Approvals -> {NULL} \cup Call]
  BY <1>2, <1>6, <1>7 DEF IInv, TypeOK
<1>9. /\ approval'[a] = Opened(i, "record")
      /\ \A b \in Approvals : b # a =>
           /\ approval'[b] # NULL => approval[b] # NULL
           /\ approval'[b] # NULL => approval'[b].at = approval[b].at /\ approval'[b].of = approval[b].of
  BY <1>6, <1>7 DEF States
<1>10. Known'
  BY <1>1, <1>2, <1>3, <1>9 DEF IInv, Known
<1>11. OneRuns'
  BY <1>1, <1>9 DEF OneRuns, Busy
<1>12. Unrecorded(a)'
  BY <1>2, <1>9, NullAssumption DEF Unrecorded
<1>13. LastRow'
  BY <1>1, <1>3, <1>12, ReplaceRow
<1>14. doubtful' \subseteq Subjects
  BY DEF ApproveState, Subjects, IInv, TypeOK
<1>15. UNCHANGED <<up, file, versions, disk, registry, loaded, proposal, promised, torn,
                   restarts, edits>>
  BY DEF ApproveState
<1>16. version' \in Nat
  BY <1>3 DEF IInv, TypeOK
<1>17. TypeOK'
  BY <1>5, <1>8, <1>14, <1>15, <1>16 DEF IInv, TypeOK
<1> QED
  BY <1>10, <1>11, <1>13, <1>17 DEF IInv

LEMMA ApprovePromptInv ==
  ASSUME IInv, NEW a \in Approvals, NEW i \in Proposals, ApprovePrompt(a, i)
  PROVE  IInv'
<1> DEFINE r == Opened(i, "manifest")
<1>1. /\ up /\ proposal[i] # NULL /\ proposal[i].what \in Changes /\ proposal[i].what.text \in Texts
      /\ \A b \in Approvals : ~Busy(b) /\ ~Unrecorded(b)
  BY MayFacts, KindFacts DEF ApprovePrompt, MayApprove
<1>2. r \in Call /\ r.at = "manifest" /\ r.of = i
  <2>1. TypeOK /\ "manifest" \in Places
    BY DEF IInv, Places
  <2> QED
    BY <2>1, OpenedFacts
<1>3. approval' = [approval EXCEPT ![a] = r] /\ UNCHANGED <<up, config, version, versions, proposal>>
  BY DEF ApprovePrompt, Set
<1>4. disk' \in Prompts
  BY <1>1 DEF ApprovePrompt, IInv, TypeOK, Prompts
<1> HIDE DEF r
<1>5. Known' /\ OneRuns' /\ LastRow' /\ approval' \in [Approvals -> {NULL} \cup Call]
  BY <1>1, <1>2, <1>3, QuietStep
<1>6. TypeOK'
  BY <1>4, <1>5 DEF IInv, TypeOK, ApprovePrompt
<1> QED
  BY <1>5, <1>6 DEF IInv

LEMMA WriteManifestInv == ASSUME IInv, NEW a \in Approvals, WriteManifest(a) PROVE IInv'
<1>1. Busy(a) /\ ~Unrecorded(a) /\ approval[a] # NULL /\ What(a).kind = "prompt"
  BY AtFacts DEF WriteManifest, Awaits
<1>2. UNCHANGED <<up, config, version, versions, proposal>>
  BY DEF WriteManifest
<1>3. {"load", "restore"} \subseteq (Places \cup Awaits) \ {"record", "undoRecord"}
  BY DEF Places
<1>4. Goto(a, "load") \/ Fail(a, "restore")
  BY DEF WriteManifest
<1>5. Known' /\ OneRuns' /\ LastRow' /\ approval' \in [Approvals -> {NULL} \cup Call]
  BY <1>1, <1>2, <1>3, <1>4, MoveStep
<1>6. What(a).version \in Versions
  BY <1>1, WhatFacts, KindFacts DEF IInv
<1>7. disk' \in Prompts
  BY <1>6 DEF WriteManifest, IInv, TypeOK, Prompts
<1>8. TypeOK'
  BY <1>5, <1>7 DEF IInv, TypeOK, WriteManifest
<1> QED
  BY <1>5, <1>8 DEF IInv

LEMMA LoadInv == ASSUME IInv, NEW a \in Approvals, Load(a) PROVE IInv'
<1>1. Busy(a) /\ ~Unrecorded(a)
  BY AtFacts DEF Load, Awaits
<1>2. UNCHANGED <<up, config, version, versions, proposal>>
  BY DEF Load
<1>3. {"decide", "restore"} \subseteq (Places \cup Awaits) \ {"record", "undoRecord"}
  BY DEF Places
<1>4. Goto(a, "decide") \/ Fail(a, "restore")
  BY DEF Load
<1>5. Known' /\ OneRuns' /\ LastRow' /\ approval' \in [Approvals -> {NULL} \cup Call]
  BY <1>1, <1>2, <1>3, <1>4, MoveStep
<1>6. TypeOK'
  BY <1>5 DEF IInv, TypeOK, Load
<1> QED
  BY <1>5, <1>6 DEF IInv

LEMMA RestorePartInv == ASSUME IInv, NEW a \in Approvals, RestorePart(a) PROVE IInv'
<1>1. Busy(a) /\ ~Unrecorded(a) /\ approval[a] # NULL
  BY AtFacts DEF RestorePart, Awaits
<1>2. UNCHANGED <<up, config, version, versions, proposal>> /\ Goto(a, "restoreManifest")
  BY DEF RestorePart
<1>3. "restoreManifest" \in (Places \cup Awaits) \ {"record", "undoRecord"}
  BY DEF Places
<1>4. Known' /\ OneRuns' /\ LastRow' /\ approval' \in [Approvals -> {NULL} \cup Call]
  BY <1>1, <1>2, <1>3, MoveStep
<1>5. approval[a].old \in Prompts
  BY <1>1 DEF IInv, TypeOK, Call
<1>6. disk' \in Prompts
  BY <1>5 DEF RestorePart, IInv, TypeOK, Prompts
<1>7. TypeOK'
  BY <1>4, <1>6 DEF IInv, TypeOK, RestorePart
<1> QED
  BY <1>4, <1>7 DEF IInv

LEMMA RestoreManifestInv == ASSUME IInv, NEW a \in Approvals, RestoreManifest(a) PROVE IInv'
<1>1. Busy(a) /\ ~Unrecorded(a) /\ approval[a] # NULL
  BY AtFacts DEF RestoreManifest, Awaits
<1>2. UNCHANGED <<up, config, version, versions, proposal>> /\ Goto(a, "decide")
  BY DEF RestoreManifest
<1>3. "decide" \in (Places \cup Awaits) \ {"record", "undoRecord"}
  BY DEF Places
<1>4. Known' /\ OneRuns' /\ LastRow' /\ approval' \in [Approvals -> {NULL} \cup Call]
  BY <1>1, <1>2, <1>3, MoveStep
<1>5. approval[a].old \in Prompts
  BY <1>1 DEF IInv, TypeOK, Call
<1>6. disk' \in Prompts
  BY <1>5 DEF RestoreManifest, ManifestRestored, IInv, TypeOK, Prompts
<1>7. TypeOK'
  BY <1>4, <1>6 DEF IInv, TypeOK, RestoreManifest
<1> QED
  BY <1>4, <1>7 DEF IInv

\* The proposal is decided, and the approval is over.
LEMMA DecideInv == ASSUME IInv, NEW a \in Approvals, Decide(a) PROVE IInv'
<1> DEFINE i == approval[a].of
           p == [proposal[i] EXCEPT !.status = approval[a].outcome]
<1>1. Busy(a) /\ ~Unrecorded(a) /\ approval[a] # NULL /\ up
  BY DEF Decide, Busy, Unrecorded, Awaits, IInv, Known
<1>2. approval[a] \in Call /\ i \in Proposals /\ proposal[i] \in Proposal /\ What(a) \in Changes
  BY <1>1, WhatFacts DEF IInv
<1>3. p \in Proposal
  BY <1>2 DEF Call, Proposal
<1>4. /\ proposal' = [proposal EXCEPT ![i] = p] /\ approval' = [approval EXCEPT ![a] = NULL]
      /\ UNCHANGED <<up, config, version, versions>>
  BY DEF Decide, Set
<1> HIDE DEF p, i
<1>5. /\ proposal' \in [Proposals -> {NULL} \cup Proposal]
      /\ \A j \in Proposals : proposal[j] # NULL => proposal'[j] # NULL
  BY <1>2, <1>3, <1>4, NullAssumption DEF IInv, TypeOK
<1>6. Known' /\ OneRuns' /\ LastRow' /\ approval' \in [Approvals -> {NULL} \cup Call]
  <2> DEFINE r == NULL
  <2>1. r \in {NULL} \cup Call /\ approval' = [approval EXCEPT ![a] = r] /\ ~(r # NULL)
    BY <1>4
  <2> HIDE DEF r
  <2> QED
    BY <1>1, <1>4, <1>5, <2>1, QuietStep
<1>7. What(a).kind # "prompt" => What(a).of \in Subjects /\ What(a).to \in Values \cup BOOLEAN
  BY <1>2, KindFacts
<1>8. promised' \in [Subjects -> {NULL} \cup Values \cup BOOLEAN] /\ doubtful' \subseteq Subjects
  BY <1>7 DEF Decide, IInv, TypeOK
<1>9. TypeOK'
  BY <1>5, <1>6, <1>8 DEF IInv, TypeOK, Decide
<1> QED
  BY <1>6, <1>9 DEF IInv

LEMMA EditInv ==
  ASSUME IInv, NEW p \in Paths, NEW v \in Values, Edit(p, v)
  PROVE  IInv'
<1>1. TypeOK'
  BY BoundAssumption DEF Edit, IInv, TypeOK
<1>2. Known' /\ OneRuns' /\ LastRow'
  BY DEF Edit, IInv, Known, OneRuns, Busy, LastRow, Unrecorded
<1> QED
  BY <1>1, <1>2 DEF IInv

LEMMA CrashInv == ASSUME IInv, Crash PROVE IInv'
<1>1. approval' = [a \in Approvals |-> NULL]
  BY DEF Crash
<1>2. Known' /\ OneRuns' /\ LastRow'
  BY <1>1 DEF Crash, Known, OneRuns, Busy, LastRow
<1>3. doubtful' \subseteq Subjects
  <2>1. ASSUME NEW a \in Approvals, approval[a] # NULL, What(a).kind # "prompt"
        PROVE  What(a).of \in Subjects
    BY <2>1, WhatFacts, KindFacts DEF IInv
  <2>2. \A a \in {b \in Under : What(b).kind # "prompt"} : What(a).of \in Subjects
    BY <2>1 DEF Under
  <2> QED
    BY <2>2 DEF Crash, IInv, TypeOK
<1>4. approval' \in [Approvals -> {NULL} \cup Call]
  BY <1>1
<1>5. torn' \in BOOLEAN
  BY DEF Crash, IInv, TypeOK
<1>6. restarts' \in 0..MaxRestarts
  BY BoundAssumption DEF Crash, IInv, TypeOK
<1>7. /\ UNCHANGED <<file, config, version, stored, versions, disk, registry, proposal,
                     promised, edits>>
      /\ up' \in BOOLEAN /\ loaded' \subseteq Plugins
  BY DEF Crash
<1>8. TypeOK'
  BY <1>3, <1>4, <1>5, <1>6, <1>7 DEF IInv, TypeOK
<1> QED
  BY <1>2, <1>8 DEF IInv

\* The settings stored over those of the file.
LEMMA OverlaidFacts == ASSUME TypeOK PROVE Overlaid \in Configs
<1>1. \A p \in Paths : (IF stored.set[p] = NULL THEN file[p] ELSE stored.set[p]) \in Values
  BY DEF TypeOK
<1>2. stored.off \in (SUBSET Plugins) \cup {NULL}
  BY DEF TypeOK
<1>3. (IF stored.off = NULL THEN {} ELSE stored.off) \in SUBSET Plugins
  <2>1. CASE stored.off = NULL
    BY <2>1
  <2>2. CASE stored.off # NULL
    <3>1. stored.off \in SUBSET Plugins
      BY <1>2, <2>2
    <3> QED
      BY <2>2, <3>1
  <2> QED
    BY <2>1, <2>2
<1> QED
  BY <1>1, <1>3 DEF Overlaid, Configs

\* A boot overlays the settings stored on the file and writes a row of its own,
\* whatever the version was.
LEMMA BootInv == ASSUME IInv, NEW starts \in SUBSET Plugins, Boot(starts) PROVE IInv'
<1>1. Overlaid \in Configs
  BY OverlaidFacts DEF IInv
<1>2. NextVersion \in Nat /\ NextVersion = Len(versions) + 1 /\ NextVersion >= 1
  BY DEF NextVersion, IInv, TypeOK
<1>3. /\ config' = Overlaid /\ version' = NextVersion /\ versions' = Recorded(NextVersion, Overlaid)
      /\ UNCHANGED <<file, stored, disk, proposal, approval, promised, torn, restarts, edits>>
  BY DEF Boot
<1>4. versions' \in Seq(Configs) /\ Len(versions') = version' /\ versions'[version'] = config'
  BY <1>1, <1>2, <1>3, AppendFacts DEF IInv
<1>5. TypeOK'
  <2>1. loaded' \subseteq Plugins /\ doubtful' \subseteq Subjects /\ up' \in BOOLEAN
    BY DEF Boot, Subjects, IInv, TypeOK
  <2>2. registry' \in Prompts /\ config' \in Configs /\ version' \in Nat
    BY <1>1, <1>2, <1>3 DEF Boot, IInv, TypeOK
  <2> QED
    BY <1>3, <1>4, <2>1, <2>2 DEF IInv, TypeOK
<1>6. \A a \in Approvals : approval[a] = NULL
  BY DEF Boot, IInv, Known
<1>7. Known' /\ OneRuns' /\ LastRow'
  BY <1>2, <1>3, <1>4, <1>6 DEF Known, OneRuns, Busy, LastRow, Unrecorded
<1> QED
  BY <1>5, <1>7 DEF IInv

-----------------------------------------------------------------------------
\* What the other properties rest on: where an approval can be, and what the
\* configuration, the runtime and the prompt files are there.

SettingsPlaces == {"record", "components", "undo", "undoRecord", "undoComponents", "decide"}
StatePlaces == {"record", "reload", "reloading", "compensate", "undoRecord", "reconcile",
                "reconciling", "decide"}
PromptPlaces == {"manifest", "load", "restore", "restoreManifest", "decide"}
Forward == {"record", "components", "reload", "reloading"}
Backward == {"undo", "undoRecord", "undoComponents", "compensate", "reconcile", "reconciling"}

InPlace(what, r) ==
  /\ what.kind = "settings" => r.at \in SettingsPlaces
  /\ what.kind = "state" => r.at \in StatePlaces
  /\ what.kind = "prompt" => r.at \in PromptPlaces
  /\ r.at \in Forward => r.outcome = "applied"
  /\ r.at \in Backward => r.outcome = "failed"

PlaceInv == \A a \in Under : InPlace(What(a), approval[a])

\* The configuration still has the change.
Holds(r) == r.outcome = "applied" \/ r.at \in {"undo", "compensate"}

\* The configuration in effect is what the next boot would read.
StoredInv == up =>
  /\ \A p \in Paths : config.set[p] = Overlaid.set[p]
  /\ config.off = Overlaid.off

SettingsInv == \A a \in Under : What(a).kind = "settings" =>
  /\ config.off = approval[a].before.off
  /\ \A p \in Paths \ {What(a).of} : config.set[p] = approval[a].before.set[p]
  /\ IF Holds(approval[a]) THEN config.set[What(a).of] = What(a).to /\ stored.set[What(a).of] = What(a).to
                 ELSE config.set[What(a).of] = approval[a].before.set[What(a).of]

\* Approvals of plugin states side by side make every plugin doubtful; one that is
\* alone knows the list of disabled plugins.
AloneInv == \A a \in States :
  /\ ~ approval[a].alone => Plugins \subseteq doubtful
  /\ approval[a].alone =>
       /\ \A b \in States : b = a
       /\ config.off = IF Holds(approval[a]) THEN Switched(approval[a].before.off, What(a))
                                           ELSE approval[a].before.off
       /\ approval[a].at \in {"reloading", "reconciling"} =>
            approval[a].wanted = (What(a).of \notin config.off)

Follows(p) == p \in loaded <=> p \notin config.off

FollowInv == up =>
  /\ \A p \in Plugins \ doubtful : (\A a \in States : What(a).of # p) => Follows(p)
  /\ \A a \in States : What(a).of \notin doubtful =>
       IF Holds(approval[a]) /\ approval[a].at # "decide"
         THEN What(a).of \in loaded <=> What(a).of \notin approval[a].before.off
         ELSE Follows(What(a).of)
  /\ \A a \in States : approval[a].alone /\ approval[a].at = "decide" /\ Holds(approval[a]) => Follows(What(a).of)

Concerned(x) == {a \in Under : What(a).kind # "prompt" /\ What(a).of = x}
InEffect(x, c) == IF x \in Paths THEN c.set[x] ELSE x \in c.off
\* What is promised is stored.
Assured(x) == promised[x] = IF x \in Paths THEN stored.set[x] ELSE x \in Overlaid.off

PromiseInv == \A x \in Subjects : promised[x] # NULL /\ x \notin doubtful =>
  /\ (\A a \in Concerned(x) : ~Holds(approval[a])) => Assured(x)
  /\ \A a \in Concerned(x) : promised[x] = InEffect(x, approval[a].before)

\* The prompts that belong together.
Made ==
  {FirstPrompt} \cup
    {[text |-> proposal[i].what.text, version |-> proposal[i].what.version] :
       i \in {j \in Proposals : proposal[j] # NULL /\ proposal[j].what.kind = "prompt"}}

PromptAt(what, r, d, g) ==
  /\ r.at # "decide" => g = r.old
  /\ r.at = "manifest" => d.text = what.text
  /\ r.at = "load" => d = [text |-> what.text, version |-> what.version]
  /\ r.at = "restoreManifest" => d.text = r.old.text
  /\ r.at = "decide" => g = d /\ d \in Made
  /\ r.old \in Made

PromptInv == ~torn =>
  /\ (\A a \in Under : What(a).kind # "prompt") => disk \in Made /\ (up => registry = disk)
  /\ \A a \in Under : What(a).kind = "prompt" => PromptAt(What(a), approval[a], disk, registry)

JInv == PlaceInv /\ StoredInv /\ SettingsInv /\ AloneInv /\ FollowInv /\ PromiseInv /\ PromptInv

-----------------------------------------------------------------------------
\* Who is under way.

LEMMA UnderFacts ==
  ASSUME IInv, NEW a \in Under
  PROVE  /\ a \in Approvals /\ up /\ approval[a] \in Call /\ approval[a].of \in Proposals
         /\ proposal[approval[a].of] \in Proposal /\ proposal[approval[a].of] # NULL
         /\ What(a) \in Changes /\ What(a).kind \in {"settings", "state", "prompt"}
<1>1. a \in Approvals /\ approval[a] # NULL
  BY DEF Under
<1>2. up /\ proposal[approval[a].of] # NULL
  BY <1>1 DEF IInv, Known
<1>3. approval[a] \in Call /\ approval[a].of \in Proposals /\ proposal[approval[a].of] \in Proposal
      /\ What(a) \in Changes
  BY <1>1, WhatFacts DEF IInv
<1>4. What(a).kind \in {"settings", "state", "prompt"}
  BY <1>3 DEF Changes
<1> QED BY <1>1, <1>2, <1>3, <1>4

\* Only approvals of plugin states wait while another one runs.
LEMMA Others ==
  ASSUME IInv, PlaceInv, NEW a \in Approvals, Busy(a) \/ Awaiting
  PROVE  \A b \in Under : b # a => What(b).kind = "state" /\ approval[b].at \in Awaits
<1> SUFFICES ASSUME NEW b \in Under, b # a
             PROVE  What(b).kind = "state" /\ approval[b].at \in Awaits
  OBVIOUS
<1>1. b \in Approvals /\ What(b).kind \in {"settings", "state", "prompt"}
  BY UnderFacts
<1>2. approval[b].at \in Awaits
  BY <1>1 DEF Under, Awaiting, IInv, OneRuns, Busy
<1>3. What(b).kind = "state"
  BY <1>1, <1>2 DEF PlaceInv, InPlace, SettingsPlaces, PromptPlaces, Awaits
<1> QED BY <1>2, <1>3

\* An approval takes a step, or begins.
Takes(a, r) == approval' = [approval EXCEPT ![a] = r] /\ proposal' = proposal

LEMMA TakesFacts ==
  ASSUME IInv, NEW a \in Approvals, NEW r \in Call, Takes(a, r)
  PROVE  /\ Under' = Under \cup {a} /\ approval'[a] = r
         /\ \A b \in Approvals : b # a => approval'[b] = approval[b]
<1>1. r # NULL
  BY NullAssumption
<1>2. approval \in [Approvals -> {NULL} \cup Call]
  BY DEF IInv, TypeOK
<1> QED BY <1>1, <1>2 DEF Takes, Under

LEMMA PlaceStep ==
  ASSUME IInv, PlaceInv, NEW a \in Approvals, NEW r \in Call, Takes(a, r),
         InPlace(proposal[r.of].what, r)
  PROVE  PlaceInv'
<1>1. /\ Under' = Under \cup {a} /\ approval'[a] = r
      /\ \A b \in Approvals : b # a => approval'[b] = approval[b]
  BY TakesFacts
<1> SUFFICES ASSUME NEW b \in Under' PROVE InPlace(What(b)', approval'[b])
  BY DEF PlaceInv
<1>2. CASE b = a
  BY <1>1, <1>2 DEF What, Takes
<1>3. CASE b # a
  BY <1>1, <1>3 DEF What, Takes, PlaceInv, Under
<1> QED BY <1>2, <1>3

\* A step that is not about prompts.
LEMMA NoPromptStep ==
  ASSUME IInv, PromptInv, NEW a \in Approvals, NEW r \in Call, Takes(a, r),
         UNCHANGED <<up, disk, registry, torn>>,
         proposal[r.of].what.kind # "prompt", a \in Under => What(a).kind # "prompt"
  PROVE  PromptInv'
<1>1. /\ Under' = Under \cup {a} /\ approval'[a] = r
      /\ \A b \in Approvals : b # a => approval'[b] = approval[b]
  BY TakesFacts
<1>2. Made' = Made
  BY DEF Made, Takes
<1>3. What(a)' = proposal[r.of].what
  BY <1>1 DEF What, Takes
<1>4. \A b \in Approvals : b # a => What(b)' = What(b)
  BY <1>1 DEF What, Takes
<1>5. Under \subseteq Approvals
  BY DEF Under
<1> QED BY <1>1, <1>2, <1>3, <1>4, <1>5 DEF PromptInv, PromptAt

\* A step of a prompt proposal.
LEMMA PromptStep ==
  ASSUME IInv, StoredInv, SettingsInv, AloneInv, FollowInv, PromiseInv,
         NEW a \in Approvals, NEW r \in Call, Takes(a, r),
         UNCHANGED <<up, file, config, stored, loaded, promised, doubtful>>,
         proposal[r.of].what.kind = "prompt", a \in Under => What(a).kind = "prompt"
  PROVE  StoredInv' /\ SettingsInv' /\ AloneInv' /\ FollowInv' /\ PromiseInv'
<1>1. /\ Under' = Under \cup {a} /\ approval'[a] = r
      /\ \A b \in Approvals : b # a => approval'[b] = approval[b]
  BY TakesFacts
<1>2. What(a)' = proposal[r.of].what
  BY <1>1 DEF What, Takes
<1>3. \A b \in Approvals : b # a => What(b)' = What(b)
  BY <1>1 DEF What, Takes
<1>4. Under \subseteq Approvals
  BY DEF Under
<1>5. States' = States /\ a \notin States
  <2>1. \A b \in Approvals : b \in States' <=> b \in States
    BY <1>1, <1>2, <1>3 DEF States, Under
  <2> QED BY <2>1, <1>1, <1>2 DEF States, Under
<1>6. StoredInv'
  BY DEF StoredInv, Overlaid
<1>7. SettingsInv'
  BY <1>1, <1>2, <1>3, <1>4 DEF SettingsInv, Holds
<1>8. AloneInv'
  <2>1. config'.off = config.off /\ doubtful' = doubtful
    OBVIOUS
  <2>2. ASSUME NEW b \in States PROVE approval'[b] = approval[b] /\ What(b)' = What(b)
    BY <1>1, <1>3, <1>5 DEF States
  <2> QED BY <1>5, <2>1, <2>2 DEF AloneInv
<1>9. FollowInv'
  BY <1>1, <1>2, <1>3, <1>4, <1>5 DEF FollowInv, Follows, Holds, States
<1>10. ASSUME NEW x \in Subjects PROVE Concerned(x)' = Concerned(x) /\ a \notin Concerned(x)
  BY <1>1, <1>2, <1>3, <1>4 DEF Concerned
<1>11. PromiseInv'
  BY <1>1, <1>2, <1>3, <1>4, <1>10 DEF PromiseInv, Concerned, Assured, Overlaid, InEffect, Holds
<1> QED BY <1>6, <1>7, <1>8, <1>9, <1>11

\* A step of a settings proposal leaves the plugins alone.
LEMMA SettingsStep ==
  ASSUME IInv, AloneInv, FollowInv,
         NEW a \in Approvals, NEW r \in Call, Takes(a, r),
         UNCHANGED <<up, loaded, doubtful>>, config'.off = config.off,
         proposal[r.of].what.kind = "settings", a \in Under => What(a).kind = "settings"
  PROVE  AloneInv' /\ FollowInv' /\ States' = States
<1>1. /\ Under' = Under \cup {a} /\ approval'[a] = r
      /\ \A b \in Approvals : b # a => approval'[b] = approval[b]
  BY TakesFacts
<1>2. What(a)' = proposal[r.of].what
  BY <1>1 DEF What, Takes
<1>3. \A b \in Approvals : b # a => What(b)' = What(b)
  BY <1>1 DEF What, Takes
<1>4. Under \subseteq Approvals
  BY DEF Under
<1>5. States' = States /\ a \notin States
  <2>1. \A b \in Approvals : b \in States' <=> b \in States
    BY <1>1, <1>2, <1>3 DEF States, Under
  <2> QED BY <2>1, <1>1, <1>2 DEF States, Under
<1>8. AloneInv'
  <2>1. config'.off = config.off /\ doubtful' = doubtful
    OBVIOUS
  <2>2. ASSUME NEW b \in States PROVE approval'[b] = approval[b] /\ What(b)' = What(b)
    BY <1>1, <1>3, <1>5 DEF States
  <2> QED BY <1>5, <2>1, <2>2 DEF AloneInv
<1>9. FollowInv'
  BY <1>1, <1>2, <1>3, <1>4, <1>5 DEF FollowInv, Follows, Holds, States
<1> QED BY <1>5, <1>8, <1>9

\* The records an approval goes on with.
LEMMA GotoFacts ==
  ASSUME IInv, NEW a \in Under, NEW at \in Places \cup Awaits, Goto(a, at), proposal' = proposal
  PROVE  \E r \in Call : Takes(a, r) /\ r = [approval[a] EXCEPT !.at = at] /\ r.at = at
           /\ r.of = approval[a].of /\ r.before = approval[a].before /\ r.old = approval[a].old
           /\ r.wanted = approval[a].wanted /\ r.alone = approval[a].alone
           /\ r.outcome = approval[a].outcome
<1>1. approval[a] \in Call
  BY UnderFacts
<1> DEFINE r == [approval[a] EXCEPT !.at = at]
<1>2. r \in Call /\ r.at = at
           /\ r.of = approval[a].of /\ r.before = approval[a].before /\ r.old = approval[a].old
           /\ r.wanted = approval[a].wanted /\ r.alone = approval[a].alone
           /\ r.outcome = approval[a].outcome
  BY <1>1 DEF Call
<1>3. Takes(a, r)
  BY DEF Takes, Goto, Set
<1> QED BY <1>2, <1>3

LEMMA FailFacts ==
  ASSUME IInv, NEW a \in Under, NEW at \in Places \cup Awaits, Fail(a, at), proposal' = proposal
  PROVE  \E r \in Call : Takes(a, r) /\ r.at = at
           /\ r.of = approval[a].of /\ r.before = approval[a].before /\ r.old = approval[a].old
           /\ r.wanted = approval[a].wanted /\ r.alone = approval[a].alone
           /\ r.outcome = "failed"
<1>1. approval[a] \in Call
  BY UnderFacts
<1> DEFINE r == [approval[a] EXCEPT !.at = at, !.outcome = "failed"]
<1>2. r \in Call /\ r.at = at
           /\ r.of = approval[a].of /\ r.before = approval[a].before /\ r.old = approval[a].old
           /\ r.wanted = approval[a].wanted /\ r.alone = approval[a].alone
           /\ r.outcome = "failed"
  BY <1>1 DEF Call
<1>3. Takes(a, r)
  BY DEF Takes, Fail, Set
<1> QED BY <1>2, <1>3

\* What the files are at the only approval of a prompt.
LEMMA PromptsStep ==
  ASSUME IInv, PlaceInv, NEW a \in Approvals, NEW r \in Call, Takes(a, r), torn' = torn,
         Busy(a) \/ Awaiting, proposal[r.of].what.kind = "prompt",
         ~torn => PromptAt(proposal[r.of].what, r, disk', registry')
  PROVE  PromptInv'
<1>1. /\ Under' = Under \cup {a} /\ approval'[a] = r
      /\ \A b \in Approvals : b # a => approval'[b] = approval[b]
  BY TakesFacts
<1>2. Made' = Made
  BY DEF Made, Takes
<1>3. What(a)' = proposal[r.of].what
  BY <1>1 DEF What, Takes
<1>4. \A b \in Approvals : b # a => What(b)' = What(b)
  BY <1>1 DEF What, Takes
<1>5. \A b \in Under : b # a => What(b).kind = "state"
  BY Others
<1>6. Under \subseteq Approvals
  BY DEF Under
<1>7. \A b \in Under' : What(b)'.kind = "prompt" => b = a
  BY <1>1, <1>4, <1>5, <1>6
<1> QED BY <1>1, <1>2, <1>3, <1>7 DEF PromptInv, PromptAt

LEMMA ApprovePromptJ ==
  ASSUME IInv, JInv, NEW a \in Approvals, NEW i \in Proposals, ApprovePrompt(a, i)
  PROVE  JInv'
<1> DEFINE r == Opened(i, "manifest")
<1>1. /\ r \in Call /\ r.at = "manifest" /\ r.of = i /\ r.old = disk /\ r.outcome = "applied"
  BY OpenedFacts DEF IInv, Places, Opened
<1>2. Takes(a, r) /\ Awaiting /\ a \notin Under /\ up
  BY DEF Takes, ApprovePrompt, Set, MayApprove, Under
<1>3. proposal[i].what.kind = "prompt" /\ proposal[i].what \in Changes
  BY MayFacts DEF ApprovePrompt, MayApprove
<1> HIDE DEF r
<1>4. PlaceInv'
  BY <1>1, <1>2, <1>3, PlaceStep DEF JInv, InPlace, PromptPlaces, Forward, Backward
<1>5. StoredInv' /\ SettingsInv' /\ AloneInv' /\ FollowInv' /\ PromiseInv'
  BY <1>1, <1>2, <1>3, PromptStep DEF JInv, ApprovePrompt
<1>6. \A b \in Under : What(b).kind # "prompt"
  BY <1>2, Others DEF JInv
<1>7. ~torn => PromptAt(proposal[r.of].what, r, disk', registry')
  BY <1>1, <1>2, <1>6 DEF PromptAt, JInv, PromptInv, ApprovePrompt, IInv, TypeOK, Prompts
<1>8. PromptInv'
  BY <1>1, <1>2, <1>3, <1>7, PromptsStep DEF JInv, ApprovePrompt
<1> QED BY <1>4, <1>5, <1>8 DEF JInv

\* What an approval of a prompt shares in all its steps.
LEMMA PromptGoes ==
  ASSUME IInv, JInv, NEW a \in Under, What(a).kind = "prompt", NEW r \in Call, Takes(a, r),
         r.of = approval[a].of, r.at \in PromptPlaces,
         UNCHANGED <<up, file, config, stored, loaded, promised, doubtful, torn>>,
         ~torn => PromptAt(What(a), r, disk', registry')
  PROVE  JInv'
<1>1. a \in Approvals /\ proposal[r.of].what = What(a)
  BY UnderFacts DEF What
<1>2. Busy(a)
  BY <1>1 DEF Busy, Under, JInv, PlaceInv, InPlace, PromptPlaces, Awaits
<1>3. PlaceInv'
  BY <1>1, PlaceStep DEF JInv, InPlace, PromptPlaces, Forward, Backward
<1>4. StoredInv' /\ SettingsInv' /\ AloneInv' /\ FollowInv' /\ PromiseInv'
  BY <1>1, PromptStep DEF JInv
<1>5. PromptInv'
  BY <1>1, <1>2, PromptsStep DEF JInv
<1> QED BY <1>3, <1>4, <1>5 DEF JInv

LEMMA PromptKnown ==
  ASSUME IInv, JInv, NEW a \in Approvals, NEW at, At(a, "prompt", at)
  PROVE  /\ a \in Under /\ What(a).kind = "prompt" /\ approval[a].at = at
         /\ approval[a] \in Call /\ approval[a].old \in Prompts
         /\ ~torn => PromptAt(What(a), approval[a], disk, registry)
<1>1. a \in Under /\ What(a).kind = "prompt" /\ approval[a].at = at
  BY DEF At, Under
<1>2. approval[a] \in Call
  BY <1>1, UnderFacts
<1> QED BY <1>1, <1>2 DEF JInv, PromptInv, Call

LEMMA WriteManifestJ ==
  ASSUME IInv, JInv, NEW a \in Approvals, WriteManifest(a)
  PROVE  JInv'
<1>1. /\ a \in Under /\ What(a).kind = "prompt" /\ approval[a].at = "manifest"
      /\ ~torn => PromptAt(What(a), approval[a], disk, registry)
  BY PromptKnown DEF WriteManifest
<1>2. UNCHANGED <<up, file, config, stored, loaded, promised, doubtful, torn, registry, proposal>>
      /\ disk \in Prompts
  BY DEF WriteManifest, IInv, TypeOK
<1>3. CASE disk' = [disk EXCEPT !.version = What(a).version] /\ Goto(a, "load")
  <2>1. "load" \in Places \cup Awaits
    BY DEF Places
  <2>2. PICK r \in Call : Takes(a, r) /\ r.at = "load" /\ r.of = approval[a].of /\ r.old = approval[a].old
    BY <1>1, <1>2, <1>3, <2>1, GotoFacts
  <2>3. ~torn => PromptAt(What(a), r, disk', registry')
    BY <1>1, <1>2, <1>3, <2>2 DEF PromptAt, Prompts
  <2> QED BY <1>1, <1>2, <2>2, <2>3, PromptGoes DEF PromptPlaces
<1>4. CASE UNCHANGED disk /\ Fail(a, "restore")
  <2>1. "restore" \in Places \cup Awaits
    BY DEF Places
  <2>2. PICK r \in Call : Takes(a, r) /\ r.at = "restore" /\ r.of = approval[a].of /\ r.old = approval[a].old
    BY <1>1, <1>2, <1>4, <2>1, FailFacts
  <2>3. ~torn => PromptAt(What(a), r, disk', registry')
    BY <1>1, <1>2, <1>4, <2>2 DEF PromptAt
  <2> QED BY <1>1, <1>2, <2>2, <2>3, PromptGoes DEF PromptPlaces
<1> QED BY <1>3, <1>4 DEF WriteManifest

\* A prompt that was proposed is one of those that belong together.
LEMMA MadeFacts ==
  ASSUME IInv, NEW a \in Under, What(a).kind = "prompt"
  PROVE  [text |-> What(a).text, version |-> What(a).version] \in Made
<1>1. approval[a].of \in Proposals /\ proposal[approval[a].of] # NULL
  BY UnderFacts
<1> QED BY <1>1 DEF Made, What

LEMMA LoadJ ==
  ASSUME IInv, JInv, NEW a \in Approvals, Load(a)
  PROVE  JInv'
<1>1. /\ a \in Under /\ What(a).kind = "prompt" /\ approval[a].at = "load"
      /\ ~torn => PromptAt(What(a), approval[a], disk, registry)
  BY PromptKnown DEF Load
<1>2. UNCHANGED <<up, file, config, stored, loaded, promised, doubtful, torn, disk, proposal>>
  BY DEF Load
<1>3. CASE registry' = disk /\ Goto(a, "decide")
  <2>1. "decide" \in Places \cup Awaits
    BY DEF Places
  <2>2. PICK r \in Call : Takes(a, r) /\ r.at = "decide" /\ r.of = approval[a].of /\ r.old = approval[a].old
    BY <1>1, <1>2, <1>3, <2>1, GotoFacts
  <2>3. ~torn => PromptAt(What(a), r, disk', registry')
    BY <1>1, <1>2, <1>3, <2>2, MadeFacts DEF PromptAt
  <2> QED BY <1>1, <1>2, <2>2, <2>3, PromptGoes DEF PromptPlaces
<1>4. CASE UNCHANGED registry /\ Fail(a, "restore")
  <2>1. "restore" \in Places \cup Awaits
    BY DEF Places
  <2>2. PICK r \in Call : Takes(a, r) /\ r.at = "restore" /\ r.of = approval[a].of /\ r.old = approval[a].old
    BY <1>1, <1>2, <1>4, <2>1, FailFacts
  <2>3. ~torn => PromptAt(What(a), r, disk', registry')
    BY <1>1, <1>2, <1>4, <2>2 DEF PromptAt
  <2> QED BY <1>1, <1>2, <2>2, <2>3, PromptGoes DEF PromptPlaces
<1> QED BY <1>3, <1>4 DEF Load

LEMMA RestorePartJ ==
  ASSUME IInv, JInv, NEW a \in Approvals, RestorePart(a)
  PROVE  JInv'
<1>1. /\ a \in Under /\ What(a).kind = "prompt" /\ approval[a].at = "restore"
      /\ ~torn => PromptAt(What(a), approval[a], disk, registry)
  BY PromptKnown DEF RestorePart
<1>2. UNCHANGED <<up, file, config, stored, loaded, promised, doubtful, torn, registry, proposal>>
      /\ disk \in Prompts /\ disk' = [disk EXCEPT !.text = approval[a].old.text]
  BY DEF RestorePart, IInv, TypeOK
<1>3. PICK r \in Call : Takes(a, r) /\ r.at = "restoreManifest" /\ r.of = approval[a].of /\ r.old = approval[a].old
  BY <1>1, <1>2, GotoFacts DEF RestorePart, Places
<1>4. ~torn => PromptAt(What(a), r, disk', registry')
  BY <1>1, <1>2, <1>3 DEF PromptAt, Prompts
<1> QED BY <1>1, <1>2, <1>3, <1>4, PromptGoes DEF PromptPlaces

LEMMA RestoreManifestJ ==
  ASSUME IInv, JInv, NEW a \in Approvals, RestoreManifest(a)
  PROVE  JInv'
<1>1. /\ a \in Under /\ What(a).kind = "prompt" /\ approval[a].at = "restoreManifest"
      /\ approval[a].old \in Prompts
      /\ ~torn => PromptAt(What(a), approval[a], disk, registry)
  BY PromptKnown DEF RestoreManifest
<1>2. UNCHANGED <<up, file, config, stored, loaded, promised, doubtful, torn, registry, proposal>>
      /\ disk \in Prompts /\ disk' = [disk EXCEPT !.version = approval[a].old.version]
  BY DEF RestoreManifest, ManifestRestored, IInv, TypeOK
<1>3. PICK r \in Call : Takes(a, r) /\ r.at = "decide" /\ r.of = approval[a].of /\ r.old = approval[a].old
  BY <1>1, <1>2, GotoFacts DEF RestoreManifest, Places
<1>4. ~torn => PromptAt(What(a), r, disk', registry')
  <2>1. ~torn => disk' = approval[a].old
    BY <1>1, <1>2 DEF PromptAt, Prompts
  <2> QED BY <1>1, <1>2, <1>3, <2>1 DEF PromptAt
<1> QED BY <1>1, <1>2, <1>3, <1>4, PromptGoes DEF PromptPlaces

-----------------------------------------------------------------------------
\* Settings and plugin states.

\* A step that neither changes the configuration nor whether it has the change.
LEMMA KeepsConfig ==
  ASSUME IInv, StoredInv, SettingsInv, PromiseInv, NEW a \in Under, NEW r \in Call, Takes(a, r),
         r.of = approval[a].of, r.before = approval[a].before, Holds(r) = Holds(approval[a]),
         UNCHANGED <<up, file, config, stored, promised>>, doubtful \subseteq doubtful'
  PROVE  StoredInv' /\ SettingsInv' /\ PromiseInv'
<1>1. a \in Approvals /\ Under \subseteq Approvals
  BY DEF Under
<1>2. /\ Under' = Under /\ approval'[a] = r
      /\ \A b \in Approvals : b # a => approval'[b] = approval[b]
  BY <1>1, TakesFacts
<1>3. \A b \in Approvals : What(b)' = What(b)
  BY <1>1, <1>2 DEF What, Takes
<1>4. \A b \in Approvals : approval'[b].before = approval[b].before /\ Holds(approval'[b]) = Holds(approval[b])
  BY <1>1, <1>2
<1>5. StoredInv'
  BY DEF StoredInv, Overlaid
<1>6. SettingsInv'
  BY <1>1, <1>2, <1>3, <1>4 DEF SettingsInv, Holds
<1>7. ASSUME NEW x \in Subjects PROVE Concerned(x)' = Concerned(x) /\ Assured(x)' = Assured(x)
  BY <1>1, <1>2, <1>3 DEF Concerned, Assured, Overlaid
<1>8. PromiseInv'
  <2> SUFFICES ASSUME NEW x \in Subjects, promised[x] # NULL, x \notin doubtful
               PROVE  /\ (\A b \in Concerned(x) : ~Holds(approval'[b])) => Assured(x)
                      /\ \A b \in Concerned(x) : promised[x] = InEffect(x, approval'[b].before)
    BY <1>7 DEF PromiseInv, InEffect, Holds
  <2>1. Concerned(x) \subseteq Approvals
    BY <1>1 DEF Concerned
  <2> QED BY <1>4, <2>1 DEF PromiseInv
<1> QED BY <1>5, <1>6, <1>8

LEMMA SettingsGoes ==
  ASSUME IInv, JInv, NEW a \in Under, What(a).kind = "settings", NEW r \in Call, Takes(a, r),
         r.of = approval[a].of, r.before = approval[a].before, Holds(r) = Holds(approval[a]),
         InPlace(What(a), r),
         UNCHANGED <<up, file, config, stored, loaded, disk, registry, promised, doubtful, torn>>
  PROVE  JInv'
<1>1. a \in Approvals /\ proposal[r.of].what = What(a)
  BY UnderFacts DEF What
<1>2. PlaceInv'
  BY <1>1, PlaceStep DEF JInv
<1>3. StoredInv' /\ SettingsInv' /\ PromiseInv'
  BY KeepsConfig DEF JInv
<1>4. AloneInv' /\ FollowInv'
  BY <1>1, SettingsStep DEF JInv
<1>5. PromptInv'
  BY <1>1, NoPromptStep DEF JInv
<1> QED BY <1>2, <1>3, <1>4, <1>5 DEF JInv

LEMMA AtKnown ==
  ASSUME IInv, JInv, NEW a \in Approvals, NEW kind, NEW at, At(a, kind, at)
  PROVE  /\ a \in Under /\ What(a).kind = kind /\ approval[a].at = at
         /\ approval[a] \in Call /\ What(a) \in Changes /\ InPlace(What(a), approval[a])
         /\ up
<1>1. a \in Under /\ What(a).kind = kind /\ approval[a].at = at
  BY DEF At, Under
<1> QED BY <1>1, UnderFacts DEF JInv, PlaceInv

LEMMA ComponentsJ ==
  ASSUME IInv, JInv, NEW a \in Approvals, Components(a)
  PROVE  JInv'
<1>1. /\ a \in Under /\ What(a).kind = "settings" /\ approval[a].at = "components"
      /\ approval[a].outcome = "applied"
  BY AtKnown DEF Components, InPlace, Forward
<1>2. UNCHANGED <<up, file, config, stored, loaded, disk, registry, promised, doubtful, torn, proposal>>
  BY DEF Components
<1>3. CASE Goto(a, "decide")
  <2>1. "decide" \in Places \cup Awaits
    BY DEF Places
  <2>2. PICK r \in Call : Takes(a, r) /\ r.at = "decide" /\ r.of = approval[a].of
                          /\ r.before = approval[a].before /\ r.outcome = "applied"
    BY <1>1, <1>2, <1>3, <2>1, GotoFacts
  <2> QED BY <1>1, <1>2, <2>2, SettingsGoes DEF InPlace, SettingsPlaces, Forward, Backward, Holds
<1>4. CASE Fail(a, "undo")
  <2>1. "undo" \in Places \cup Awaits
    BY DEF Places
  <2>2. PICK r \in Call : Takes(a, r) /\ r.at = "undo" /\ r.of = approval[a].of
                          /\ r.before = approval[a].before /\ r.outcome = "failed"
    BY <1>1, <1>2, <1>4, <2>1, FailFacts
  <2> QED BY <1>1, <1>2, <2>2, SettingsGoes DEF InPlace, SettingsPlaces, Forward, Backward, Holds
<1> QED BY <1>3, <1>4 DEF Components

LEMMA UndoComponentsJ ==
  ASSUME IInv, JInv, NEW a \in Approvals, UndoComponents(a)
  PROVE  JInv'
<1>1. /\ a \in Under /\ What(a).kind = "settings" /\ approval[a].at = "undoComponents"
      /\ approval[a].outcome = "failed"
  BY AtKnown DEF UndoComponents, InPlace, Backward
<1>2. UNCHANGED <<up, file, config, stored, loaded, disk, registry, promised, doubtful, torn, proposal>>
  BY DEF UndoComponents
<1>3. PICK r \in Call : Takes(a, r) /\ r.at = "decide" /\ r.of = approval[a].of
                        /\ r.before = approval[a].before /\ r.outcome = "failed"
  BY <1>1, <1>2, GotoFacts DEF UndoComponents, Places
<1> QED BY <1>1, <1>2, <1>3, SettingsGoes DEF InPlace, SettingsPlaces, Forward, Backward, Holds

\* A step of the only approval of a setting that may change the configuration.
LEMMA SettingsChange ==
  ASSUME IInv, JInv, NEW a \in Approvals, NEW r \in Call, Takes(a, r), Busy(a) \/ Awaiting,
         NEW what, what = proposal[r.of].what, what \in Changes, what.kind = "settings",
         a \in Under => What(a) = what,
         InPlace(what, r), r.before.off = config.off, config'.off = config.off, stored'.off = stored.off,
         \A p \in Paths : p # what.of =>
           /\ stored'.set[p] = stored.set[p] /\ config'.set[p] = config.set[p]
           /\ config.set[p] = r.before.set[p],
         IF Holds(r) THEN config'.set[what.of] = what.to /\ stored'.set[what.of] = what.to
                     ELSE config'.set[what.of] = r.before.set[what.of],
         config'.set[what.of] = Overlaid'.set[what.of],
         promised[what.of] # NULL /\ what.of \notin doubtful =>
           /\ promised[what.of] = r.before.set[what.of]
           /\ ~Holds(r) => promised[what.of] = stored'.set[what.of],
         UNCHANGED <<up, file, loaded, disk, registry, promised, doubtful, torn>>
  PROVE  JInv'
<1>1. /\ Under' = Under \cup {a} /\ approval'[a] = r
      /\ \A b \in Approvals : b # a => approval'[b] = approval[b]
  BY TakesFacts
<1>2. Under \subseteq Approvals
  BY DEF Under
<1>3. What(a)' = what
  BY <1>1 DEF What, Takes
<1>4. \A b \in Approvals : b # a => What(b)' = What(b)
  BY <1>1 DEF What, Takes
<1>5. what.of \in Paths
  BY KindFacts
<1>6. \A b \in Under : b # a => What(b).kind = "state" /\ What(b).of \in Plugins
  <2>1. \A b \in Under : b # a => What(b).kind = "state"
    BY Others DEF JInv
  <2>2. \A b \in Under : What(b) \in Changes
    BY UnderFacts
  <2> QED BY <2>1, <2>2, KindFacts
<1>7. PlaceInv' /\ PromptInv' /\ AloneInv' /\ FollowInv'
  BY PlaceStep, NoPromptStep, SettingsStep DEF JInv
<1>8. Overlaid'.off = Overlaid.off /\ \A p \in Paths : p # what.of => Overlaid'.set[p] = Overlaid.set[p]
  BY DEF Overlaid
<1>9. StoredInv'
  BY <1>5, <1>8 DEF JInv, StoredInv
<1>10. SettingsInv'
  BY <1>1, <1>2, <1>3, <1>4, <1>5, <1>6 DEF SettingsInv, Holds
<1>11. PromiseInv'
  <2> SUFFICES ASSUME NEW x \in Subjects, promised[x] # NULL, x \notin doubtful
               PROVE  /\ (\A b \in Concerned(x)' : ~Holds(approval'[b])) => Assured(x)'
                      /\ \A b \in Concerned(x)' : promised[x] = InEffect(x, approval'[b].before)
    BY DEF PromiseInv, InEffect, Holds
  <2>1. CASE x = what.of
    <3>1. Concerned(x)' = {a}
      BY <1>1, <1>2, <1>3, <1>4, <1>5, <1>6, <2>1, SubjectAssumption DEF Concerned
    <3> QED BY <1>1, <1>5, <2>1, <3>1 DEF Assured, InEffect
  <2>2. CASE x # what.of
    <3>1. Concerned(x)' = Concerned(x) /\ a \notin Concerned(x)
      BY <1>1, <1>2, <1>3, <1>4, <2>2 DEF Concerned
    <3>2. Assured(x)' = Assured(x)
      BY <1>8, <2>2 DEF Assured
    <3>3. \A b \in Concerned(x) : approval'[b] = approval[b]
      BY <1>1, <1>2, <3>1 DEF Concerned
    <3> QED BY <3>1, <3>2, <3>3 DEF JInv, PromiseInv
  <2> QED BY <2>1, <2>2
<1> QED BY <1>7, <1>9, <1>10, <1>11 DEF JInv

\* What is promised of a setting no approval is about is in effect.
LEMMA PromisedSetting ==
  ASSUME IInv, JInv, up, NEW p \in Paths, promised[p] # NULL, p \notin doubtful, Concerned(p) = {}
  PROVE  promised[p] = config.set[p] /\ promised[p] = stored.set[p]
<1>1. promised[p] = stored.set[p]
  BY DEF JInv, PromiseInv, Assured, Subjects
<1>2. config.set[p] = stored.set[p]
  BY <1>1 DEF JInv, StoredInv, Overlaid
<1> QED BY <1>1, <1>2

LEMMA ApproveSettingsJ ==
  ASSUME IInv, JInv, NEW a \in Approvals, NEW i \in Proposals, ApproveSettings(a, i)
  PROVE  JInv'
<1> DEFINE what == proposal[i].what
<1>1. /\ up /\ Awaiting /\ a \notin Under /\ what \in Changes /\ what.of \in Paths /\ what.to \in Values
      /\ what.kind = "settings"
  BY MayFacts, KindFacts DEF ApproveSettings, MayApprove, Under
<1>2. /\ UNCHANGED <<up, file, loaded, disk, registry, promised, doubtful, torn, proposal>>
      /\ config \in Configs /\ stored.set \in [Paths -> Values \cup {NULL}]
  BY DEF ApproveSettings, IInv, TypeOK
<1>3. promised[what.of] # NULL /\ what.of \notin doubtful =>
        promised[what.of] = config.set[what.of] /\ promised[what.of] = stored.set[what.of]
  <2>1. Concerned(what.of) = {}
    <3>1. \A b \in Under : What(b).kind = "state" /\ What(b) \in Changes
      BY <1>1, Others, UnderFacts DEF JInv
    <3>2. \A b \in Under : What(b).of \in Plugins
      BY <3>1, KindFacts
    <3> QED BY <1>1, <3>2, SubjectAssumption DEF Concerned
  <2> QED BY <1>1, <2>1, PromisedSetting
<1>4. CASE what.to \in Refused
  <2> DEFINE r == [Opened(i, "decide") EXCEPT !.outcome = "failed"]
  <2>1. r \in Call /\ r.at = "decide" /\ r.of = i /\ r.outcome = "failed" /\ r.before = config
    BY OpenedFacts DEF IInv, Places, Opened
  <2>2. Takes(a, r) /\ UNCHANGED <<config, stored>>
    BY <1>2, <1>4 DEF ApproveSettings, Set, Takes
  <2> HIDE DEF r
  <2>3. InPlace(what, r) /\ ~Holds(r)
    BY <1>1, <2>1 DEF InPlace, SettingsPlaces, Forward, Backward, Holds
  <2>4. config'.set[what.of] = Overlaid'.set[what.of]
    BY <1>1, <1>2, <2>2 DEF JInv, StoredInv, Overlaid
  <2> HIDE DEF what
  <2>5. what = proposal[r.of].what
    BY <2>1 DEF what
  <2> QED BY <1>1, <1>2, <1>3, <2>1, <2>2, <2>3, <2>4, <2>5, SettingsChange
<1>5. CASE what.to \notin Refused
  <2> DEFINE r == Opened(i, "record")
  <2>1. r \in Call /\ r.at = "record" /\ r.of = i /\ r.outcome = "applied" /\ r.before = config
    BY OpenedFacts DEF IInv, Places, Opened
  <2>2. /\ Takes(a, r) /\ config' = [config EXCEPT !.set[what.of] = what.to]
        /\ stored' = [stored EXCEPT !.set[what.of] = what.to]
    <3>1. Set(a, r) /\ Replace([config EXCEPT !.set[what.of] = what.to],
                               [stored EXCEPT !.set[what.of] = what.to])
      BY <1>5 DEF ApproveSettings
    <3> HIDE DEF r, what
    <3> QED BY <1>2, <3>1 DEF Set, Replace, Takes
  <2> HIDE DEF r, what
  <2>3. InPlace(what, r) /\ Holds(r)
    BY <1>1, <2>1 DEF InPlace, SettingsPlaces, Forward, Backward, Holds
  <2>4. stored \in [set: [Paths -> Values \cup {NULL}], off: (SUBSET Plugins) \cup {NULL}]
    BY DEF IInv, TypeOK
  <2>5. /\ config'.off = config.off /\ config'.set[what.of] = what.to
        /\ \A p \in Paths : p # what.of => config'.set[p] = config.set[p]
    BY <1>1, <1>2, <2>2 DEF Configs
  <2>6. /\ stored'.off = stored.off /\ stored'.set[what.of] = what.to
        /\ \A p \in Paths : p # what.of => stored'.set[p] = stored.set[p]
    BY <1>1, <2>2, <2>4
  <2>7. Overlaid'.set[what.of] = what.to
    BY <1>1, <2>6, ValueAssumption DEF Overlaid
  <2>8. what = proposal[r.of].what
    BY <2>1 DEF what
  <2> QED BY <1>1, <1>2, <1>3, <2>1, <2>2, <2>3, <2>5, <2>6, <2>7, <2>8, SettingsChange
<1> QED BY <1>4, <1>5

LEMMA UndoJ ==
  ASSUME IInv, JInv, NEW a \in Approvals, Undo(a)
  PROVE  JInv'
<1> DEFINE what == What(a)
           before == approval[a].before
<1>1. /\ a \in Under /\ up /\ what.kind = "settings" /\ approval[a].at = "undo" /\ what \in Changes
      /\ approval[a] \in Call /\ approval[a].outcome = "failed"
  BY AtKnown DEF Undo, InPlace, Backward
<1>2. what.of \in Paths /\ before \in Configs
  BY <1>1, KindFacts DEF Call
<1>3. /\ UNCHANGED <<up, file, loaded, disk, registry, promised, doubtful, torn, proposal>>
      /\ config' = before /\ stored' = [stored EXCEPT !.set[what.of] = before.set[what.of]]
  BY DEF Undo, Replace, Previous
<1>4. PICK r \in Call : Takes(a, r) /\ r.at = "undoRecord" /\ r.of = approval[a].of
                        /\ r.before = before /\ r.outcome = "failed"
  BY <1>1, <1>3, GotoFacts DEF Undo, Places
<1>5. /\ config.off = before.off
      /\ \A p \in Paths : p # what.of => config.set[p] = before.set[p]
  BY <1>1 DEF JInv, SettingsInv
<1>6. stored \in [set: [Paths -> Values \cup {NULL}], off: (SUBSET Plugins) \cup {NULL}]
  BY DEF IInv, TypeOK
<1>7. promised[what.of] # NULL /\ what.of \notin doubtful => promised[what.of] = before.set[what.of]
  BY <1>1, <1>2 DEF JInv, PromiseInv, InEffect, Concerned, Subjects
<1>8. before.set[what.of] \in Values
  BY <1>2 DEF Configs
<1>9. Busy(a) /\ what = proposal[r.of].what
  BY <1>1, <1>4 DEF Busy, Under, Awaits, What
<1> HIDE DEF what, before
<1>10. /\ stored'.off = stored.off /\ stored'.set[what.of] = before.set[what.of]
       /\ \A p \in Paths : p # what.of => stored'.set[p] = stored.set[p]
  BY <1>2, <1>3, <1>6
<1>11. Overlaid'.set[what.of] = before.set[what.of]
  BY <1>2, <1>8, <1>10, ValueAssumption DEF Overlaid
<1>12. InPlace(what, r) /\ ~Holds(r)
  BY <1>1, <1>4 DEF InPlace, SettingsPlaces, Forward, Backward, Holds
<1>13. ASSUME NEW v \in Changes, NEW q \in Call, v = what, q = r PROVE JInv'
  <2>1. v = proposal[q.of].what /\ v.kind = "settings" /\ Busy(a) /\ Takes(a, q) /\ InPlace(v, q)
    BY <1>1, <1>4, <1>9, <1>12, <1>13
  <2>2. a \in Under => What(a) = v
    BY <1>13 DEF what
  <2>3. q.before.off = config.off /\ config'.off = config.off /\ stored'.off = stored.off
    BY <1>3, <1>4, <1>5, <1>10, <1>13
  <2>4. \A p \in Paths : p # v.of =>
          /\ stored'.set[p] = stored.set[p] /\ config'.set[p] = config.set[p]
          /\ config.set[p] = q.before.set[p]
    BY <1>3, <1>4, <1>5, <1>10, <1>13
  <2>5. IF Holds(q) THEN config'.set[v.of] = v.to /\ stored'.set[v.of] = v.to
                    ELSE config'.set[v.of] = q.before.set[v.of]
    BY <1>3, <1>4, <1>12, <1>13
  <2>6. config'.set[v.of] = Overlaid'.set[v.of]
    BY <1>3, <1>11, <1>13
  <2>7. promised[v.of] # NULL /\ v.of \notin doubtful =>
          /\ promised[v.of] = q.before.set[v.of]
          /\ ~Holds(q) => promised[v.of] = stored'.set[v.of]
    BY <1>4, <1>7, <1>10, <1>13
  <2>8. UNCHANGED <<up, file, loaded, disk, registry, promised, doubtful, torn>>
    BY <1>3

  <2> QED BY <2>1, <2>2, <2>3, <2>4, <2>5, <2>6, <2>7, <2>8, SettingsChange
<1> QED BY <1>1, <1>13

-----------------------------------------------------------------------------
\* Plugin states.

\* What a step of one approval leaves of who is under way.
LEMMA StatesFacts ==
  ASSUME IInv, NEW a \in Under, What(a).kind = "state", NEW r \in Call, Takes(a, r), r.of = approval[a].of
  PROVE  /\ a \in States /\ States' = States /\ Under' = Under /\ States \subseteq Under
         /\ approval'[a] = r /\ What(a)' = What(a)
         /\ \A b \in Under : b # a => approval'[b] = approval[b] /\ What(b)' = What(b)
         /\ \A b \in States : What(b).of \in Plugins
<1>1. a \in Approvals /\ Under \subseteq Approvals
  BY DEF Under
<1>2. /\ Under' = Under /\ approval'[a] = r
      /\ \A b \in Approvals : b # a => approval'[b] = approval[b]
  BY <1>1, TakesFacts
<1>3. \A b \in Approvals : What(b)' = What(b)
  BY <1>1, <1>2 DEF What, Takes
<1>4. States = {b \in Under : What(b).kind = "state"} /\ States' = {b \in Under' : What(b)'.kind = "state"}
  BY DEF States, Under
<1>5. States' = States /\ a \in States /\ States \subseteq Under
  BY <1>1, <1>2, <1>3, <1>4
<1>6. \A b \in States : What(b) \in Changes /\ What(b).kind = "state"
  BY <1>4, UnderFacts
<1>7. \A b \in States : What(b).of \in Plugins
  BY <1>6, KindFacts
<1> QED BY <1>1, <1>2, <1>3, <1>5, <1>7

LEMMA AloneStep ==
  ASSUME IInv, AloneInv, NEW a \in Under, What(a).kind = "state", NEW r \in Call, Takes(a, r),
         r.of = approval[a].of, r.before = approval[a].before, r.alone = approval[a].alone,
         doubtful \subseteq doubtful',
         r.alone => config'.off = IF Holds(r) THEN Switched(r.before.off, What(a)) ELSE r.before.off,
         r.alone /\ r.at \in {"reloading", "reconciling"} => r.wanted = (What(a).of \notin config'.off)
  PROVE  AloneInv'
<1>1. /\ a \in States /\ States' = States /\ States \subseteq Under
      /\ approval'[a] = r /\ What(a)' = What(a)
      /\ \A b \in Under : b # a => approval'[b] = approval[b] /\ What(b)' = What(b)
  BY StatesFacts
<1> SUFFICES ASSUME NEW b \in States
             PROVE  /\ ~ approval'[b].alone => Plugins \subseteq doubtful'
                    /\ approval'[b].alone =>
                         /\ \A c \in States : c = b
                         /\ config'.off = IF Holds(approval'[b])
                              THEN Switched(approval'[b].before.off, What(b)') ELSE approval'[b].before.off
                         /\ approval'[b].at \in {"reloading", "reconciling"} =>
                              approval'[b].wanted = (What(b)'.of \notin config'.off)
  BY <1>1 DEF AloneInv, Holds, Switched
<1>2. CASE b = a
  <2>1. /\ ~ r.alone => Plugins \subseteq doubtful
        /\ r.alone => \A c \in States : c = b
    BY <1>2 DEF AloneInv
  <2> QED BY <1>1, <1>2, <2>1
<1>3. CASE b # a
  <2>1. approval'[b] = approval[b]
    BY <1>1, <1>3
  <2>2. ~ approval[b].alone
    BY <1>1, <1>3 DEF AloneInv
  <2> QED BY <2>1, <2>2 DEF AloneInv
<1> QED BY <1>2, <1>3

\* What the runtime is after a step: all plugins are doubtful, or the approval is
\* alone and what it says of its plugin holds.
LEMMA FollowStep ==
  ASSUME IInv, AloneInv, FollowInv, NEW a \in Under, What(a).kind = "state", NEW r \in Call, Takes(a, r),
         r.of = approval[a].of, r.before = approval[a].before, r.alone = approval[a].alone,
         doubtful \subseteq doubtful', UNCHANGED up,
         r.alone => \A q \in Plugins : q # What(a).of =>
                      (q \in loaded' <=> q \in loaded) /\ (q \in config'.off <=> q \in config.off),
         r.alone /\ What(a).of \notin doubtful' =>
           IF Holds(r) /\ r.at # "decide"
             THEN What(a).of \in loaded' <=> What(a).of \notin r.before.off
             ELSE What(a).of \in loaded' <=> What(a).of \notin config'.off,
         r.alone /\ r.at = "decide" /\ Holds(r) => (What(a).of \in loaded' <=> What(a).of \notin config'.off)
  PROVE  FollowInv'
<1>1. /\ a \in States /\ States' = States /\ States \subseteq Under
      /\ approval'[a] = r /\ What(a)' = What(a)
      /\ \A b \in Under : b # a => approval'[b] = approval[b] /\ What(b)' = What(b)
      /\ \A b \in States : What(b).of \in Plugins
  BY StatesFacts
<1>2. CASE r.alone
  <2>1. States = {a}
    BY <1>1, <1>2 DEF AloneInv
  <2>2. \A q \in Plugins \ doubtful' : What(a).of # q => (q \in loaded' <=> q \notin config'.off)
    <3>1. up => \A q \in Plugins \ doubtful : What(a).of # q => (q \in loaded <=> q \notin config.off)
      BY <2>1 DEF FollowInv, Follows
    <3>2. up
      BY UnderFacts
    <3> QED BY <1>2, <3>1, <3>2
  <2> QED BY <1>1, <1>2, <2>1, <2>2 DEF FollowInv, Follows, Holds
<1>3. CASE ~ r.alone
  <2>1. Plugins \subseteq doubtful' /\ \A b \in States : What(b)'.of \in doubtful'
    BY <1>1, <1>3 DEF AloneInv
  <2>2. \A b \in States : ~ approval'[b].alone
    BY <1>1, <1>3 DEF AloneInv
  <2> QED BY <1>1, <2>1, <2>2 DEF FollowInv
<1> QED BY <1>2, <1>3

\* A step of a plugin state that leaves the configuration alone.
LEMMA StateGoes ==
  ASSUME IInv, JInv, NEW a \in Under, What(a).kind = "state", NEW r \in Call, Takes(a, r),
         r.of = approval[a].of, r.before = approval[a].before, r.alone = approval[a].alone,
         Holds(r) = Holds(approval[a]), InPlace(What(a), r), doubtful \subseteq doubtful',
         UNCHANGED <<up, file, config, stored, disk, registry, promised, torn>>,
         r.alone /\ r.at \in {"reloading", "reconciling"} => r.wanted = (What(a).of \notin config.off),
         r.alone => \A q \in Plugins : q # What(a).of => (q \in loaded' <=> q \in loaded),
         r.alone /\ What(a).of \notin doubtful' =>
           IF Holds(r) /\ r.at # "decide"
             THEN What(a).of \in loaded' <=> What(a).of \notin r.before.off
             ELSE What(a).of \in loaded' <=> What(a).of \notin config.off,
         r.alone /\ r.at = "decide" /\ Holds(r) => (What(a).of \in loaded' <=> What(a).of \notin config.off)
  PROVE  JInv'
<1>1. a \in Approvals /\ proposal[r.of].what = What(a)
  BY UnderFacts DEF What
<1>2. PlaceInv'
  BY <1>1, PlaceStep DEF JInv
<1>3. StoredInv' /\ SettingsInv' /\ PromiseInv'
  BY KeepsConfig DEF JInv
<1>4. AloneInv'
  <2>1. r.alone => config'.off = IF Holds(r) THEN Switched(r.before.off, What(a)) ELSE r.before.off
    <3>1. a \in States
      BY StatesFacts
    <3> QED BY <3>1 DEF JInv, AloneInv
  <2> QED BY <2>1, AloneStep DEF JInv
<1>5. FollowInv'
  BY FollowStep DEF JInv
<1>6. PromptInv'
  BY <1>1, NoPromptStep DEF JInv
<1> QED BY <1>2, <1>3, <1>4, <1>5, <1>6 DEF JInv

\* What is known of a plugin state under way.
LEMMA StateKnown ==
  ASSUME IInv, JInv, NEW a \in Approvals, NEW at, At(a, "state", at)
  PROVE  /\ a \in Under /\ a \in States /\ What(a).kind = "state" /\ approval[a].at = at /\ up
         /\ approval[a] \in Call /\ What(a).of \in Plugins /\ What(a).to \in BOOLEAN
         /\ InPlace(What(a), approval[a])
         /\ What(a).of \notin doubtful =>
              IF Holds(approval[a]) /\ approval[a].at # "decide"
                THEN What(a).of \in loaded <=> What(a).of \notin approval[a].before.off
                ELSE What(a).of \in loaded <=> What(a).of \notin config.off
         /\ ~ approval[a].alone => Plugins \subseteq doubtful
         /\ approval[a].alone =>
              /\ \A b \in States : b = a
              /\ config.off = IF Holds(approval[a]) THEN Switched(approval[a].before.off, What(a))
                                                    ELSE approval[a].before.off
              /\ approval[a].at \in {"reloading", "reconciling"} =>
                   approval[a].wanted = (What(a).of \notin config.off)
<1>1. a \in Under /\ a \in States /\ What(a).kind = "state" /\ approval[a].at = at
  BY DEF At, Under, States
<1>2. approval[a] \in Call /\ What(a) \in Changes /\ up
  BY <1>1, UnderFacts
<1>3. What(a).of \in Plugins /\ What(a).to \in BOOLEAN
  BY <1>1, <1>2, KindFacts
<1> QED BY <1>1, <1>2, <1>3 DEF JInv, PlaceInv, AloneInv, FollowInv, Follows

LEMMA BeginJ ==
  ASSUME IInv, JInv, NEW a \in Approvals, NEW from \in {"reload", "reconcile"}, NEW to,
         from = "reload" => to = "reloading", from = "reconcile" => to = "reconciling", Begin(a, from, to)
  PROVE  JInv'
<1> DEFINE r == [approval[a] EXCEPT !.at = to, !.wanted = What(a).of \notin config.off]
<1>1. At(a, "state", from)
  BY DEF Begin
<1>2. /\ a \in Under /\ a \in States /\ What(a).kind = "state" /\ approval[a].at = from /\ up
      /\ approval[a] \in Call /\ InPlace(What(a), approval[a])
      /\ What(a).of \notin doubtful =>
           IF Holds(approval[a]) /\ approval[a].at # "decide"
             THEN What(a).of \in loaded <=> What(a).of \notin approval[a].before.off
             ELSE What(a).of \in loaded <=> What(a).of \notin config.off
  BY <1>1, StateKnown
<1>3. /\ r \in Call /\ r.at = to /\ r.of = approval[a].of /\ r.before = approval[a].before
      /\ r.alone = approval[a].alone /\ r.outcome = approval[a].outcome
      /\ r.wanted = (What(a).of \notin config.off)
  <2>1. to \in Places \cup Awaits
    BY DEF Awaits
  <2> QED BY <1>2, <2>1 DEF Call
<1>4. Takes(a, r) /\ UNCHANGED <<up, file, config, stored, loaded, doubtful, disk, registry, promised, torn>>
  BY DEF Begin, Set, Takes
<1> HIDE DEF r
<1>5. InPlace(What(a), r) /\ Holds(r) = Holds(approval[a]) /\ (r.at # "decide") = (approval[a].at # "decide")
  BY <1>2, <1>3 DEF InPlace, StatePlaces, Forward, Backward, Holds
<1> QED BY <1>2, <1>3, <1>4, <1>5, StateGoes

LEMMA RecordJ ==
  ASSUME IInv, JInv, NEW a \in Approvals, NEW from, NEW to,
         \/ from = "record" /\ to = IF What(a).kind = "settings" THEN "components" ELSE "reload"
         \/ from = "undoRecord" /\ to = IF What(a).kind = "settings" THEN "undoComponents" ELSE "reconcile",
         Record(a, from, to)
  PROVE  JInv'
<1>1. a \in Under /\ approval[a].at = from
  BY DEF Record, Under
<1>2. InPlace(What(a), approval[a]) /\ What(a).kind \in {"settings", "state"}
  <2>1. InPlace(What(a), approval[a]) /\ What(a).kind \in {"settings", "state", "prompt"}
    BY <1>1, UnderFacts DEF JInv, PlaceInv
  <2> QED BY <1>1, <2>1 DEF InPlace, PromptPlaces
<1>3. UNCHANGED <<up, file, config, stored, loaded, disk, registry, promised, doubtful, torn, proposal>>
  BY DEF Record
<1>4. PICK r \in Call : Takes(a, r) /\ r.at = to /\ r.of = approval[a].of
                        /\ r.before = approval[a].before /\ r.outcome = approval[a].outcome
                        /\ r.alone = approval[a].alone
  <2>1. to \in Places \cup Awaits
    BY <1>2 DEF Places, Awaits
  <2> QED BY <1>1, <1>3, <2>1, GotoFacts DEF Record
<1>5. InPlace(What(a), r) /\ Holds(r) = Holds(approval[a])
  BY <1>1, <1>2, <1>4 DEF InPlace, SettingsPlaces, StatePlaces, Forward, Backward, Holds
<1>6. CASE What(a).kind = "settings"
  BY <1>1, <1>3, <1>4, <1>5, <1>6, SettingsGoes
<1>7. CASE What(a).kind = "state"
  <2>1. At(a, "state", from)
    BY <1>1, <1>7 DEF At, Under
  <2>2. What(a).of \notin doubtful =>
           IF Holds(approval[a]) /\ approval[a].at # "decide"
             THEN What(a).of \in loaded <=> What(a).of \notin approval[a].before.off
             ELSE What(a).of \in loaded <=> What(a).of \notin config.off
    BY <2>1, StateKnown
  <2>3. r.at \notin {"decide", "reloading", "reconciling"} /\ approval[a].at # "decide"
    BY <1>1, <1>4
  <2> QED BY <1>1, <1>3, <1>4, <1>5, <1>7, <2>2, <2>3, StateGoes
<1> QED BY <1>2, <1>6, <1>7

\* What a reload may do to what the runtime runs.
LEMMA ReloadEffect ==
  ASSUME IInv, NEW a \in Under, NEW now \in SUBSET Plugins, NEW raised \in BOOLEAN, Reloaded(a, now, raised)
  PROVE  /\ loaded' = now /\ doubtful \subseteq doubtful'
         /\ \A q \in Plugins : q # What(a).of => (q \in now <=> q \in loaded)
         /\ raised = FALSE => (What(a).of \in now <=> approval[a].wanted = TRUE)
         /\ raised = TRUE =>
              /\ approval[a].wanted = TRUE
              /\ What(a).of \notin doubtful' => (What(a).of \in now <=> What(a).of \in loaded)
<1>1. approval[a].wanted \in BOOLEAN
  BY UnderFacts DEF Call
<1> SUFFICES ASSUME NEW p, p = What(a).of, NEW w \in BOOLEAN, w = approval[a].wanted
             PROVE  /\ loaded' = now /\ doubtful \subseteq doubtful'
                    /\ \A q \in Plugins : q # p => (q \in now <=> q \in loaded)
                    /\ raised = FALSE => (p \in now <=> w = TRUE)
                    /\ raised = TRUE =>
                         w = TRUE /\ (p \notin doubtful' => (p \in now <=> p \in loaded))
  BY <1>1
<1>2. /\ loaded' = now
      /\ \/ ~w /\ ~raised /\ now = loaded \ {p} /\ doubtful' = doubtful
         \/ w /\ ~raised /\ now = loaded \cup {p} /\ doubtful' = doubtful
         \/ w /\ raised /\ now = loaded /\ doubtful' = doubtful
         \/ w /\ raised /\ now = loaded \ {p} /\ doubtful' = doubtful \cup {p}
  BY Zenon DEF Reloaded
<1> QED BY <1>2

LEMMA ReloadDoneJ ==
  ASSUME IInv, JInv, NEW a \in Approvals, NEW now \in SUBSET Plugins, NEW raised \in BOOLEAN, ReloadDone(a, now, raised)
  PROVE  JInv'
<1> DEFINE p == What(a).of
<1>1. At(a, "state", "reloading")
  BY DEF ReloadDone
<1>2. /\ a \in Under /\ a \in States /\ What(a).kind = "state" /\ approval[a].at = "reloading" /\ up
      /\ approval[a] \in Call /\ p \in Plugins /\ What(a).to \in BOOLEAN
      /\ InPlace(What(a), approval[a])
      /\ p \notin doubtful =>
           IF Holds(approval[a]) /\ approval[a].at # "decide"
             THEN p \in loaded <=> p \notin approval[a].before.off
             ELSE p \in loaded <=> p \notin config.off
      /\ approval[a].alone =>
           /\ config.off = IF Holds(approval[a]) THEN Switched(approval[a].before.off, What(a))
                                                 ELSE approval[a].before.off
           /\ approval[a].at \in {"reloading", "reconciling"} =>
                approval[a].wanted = (p \notin config.off)
  BY <1>1, StateKnown
<1>3. /\ loaded' = now /\ doubtful \subseteq doubtful'
      /\ \A q \in Plugins : q # p => (q \in now <=> q \in loaded)
      /\ raised = FALSE => (p \in now <=> approval[a].wanted = TRUE)
      /\ raised = TRUE =>
           approval[a].wanted = TRUE /\ (p \notin doubtful' => (p \in now <=> p \in loaded))
  <2>1. Reloaded(a, now, raised)
    BY DEF ReloadDone
  <2>2. a \in Under
    BY <1>2
  <2> QED BY <2>1, <2>2, ReloadEffect
<1>4. UNCHANGED <<up, file, config, stored, disk, registry, promised, torn, proposal>>
  BY DEF ReloadDone
<1>5. approval[a].outcome = "applied" /\ Holds(approval[a])
  BY <1>2 DEF InPlace, Forward, Holds
<1>6. approval[a].alone => (p \in config.off <=> What(a).to) /\ approval[a].wanted = ~What(a).to
  BY <1>2, <1>5 DEF Switched
<1>7. CASE ~raised /\ (p \in now <=> ~What(a).to)
  <2>1. "decide" \in Places \cup Awaits
    BY DEF Places
  <2>2. PICK r \in Call : Takes(a, r) /\ r.at = "decide" /\ r.of = approval[a].of
                          /\ r.before = approval[a].before /\ r.outcome = "applied"
                          /\ r.alone = approval[a].alone
    BY <1>2, <1>4, <1>5, <1>7, <2>1, GotoFacts DEF ReloadDone
  <2>3. InPlace(What(a), r) /\ Holds(r)
    BY <1>2, <2>2 DEF InPlace, StatePlaces, Forward, Backward, Holds
  <2>4. r.alone => (p \in loaded' <=> p \notin config.off)
    BY <1>3, <1>6, <1>7, <2>2
  <2> QED BY <1>2, <1>3, <1>4, <1>5, <2>2, <2>3, <2>4, StateGoes
<1>8. CASE ~(~raised /\ (p \in now <=> ~What(a).to))
  <2>1. "compensate" \in Places \cup Awaits
    BY DEF Places
  <2>2. PICK r \in Call : Takes(a, r) /\ r.at = "compensate" /\ r.of = approval[a].of
                          /\ r.before = approval[a].before /\ r.outcome = "failed"
                          /\ r.alone = approval[a].alone
    <3>1. Fail(a, "compensate")
      BY <1>8 DEF ReloadDone
    <3> QED BY <1>2, <1>4, <2>1, <3>1, FailFacts
  <2>3. InPlace(What(a), r) /\ Holds(r)
    BY <1>2, <2>2 DEF InPlace, StatePlaces, Forward, Backward, Holds
  <2>4. r.alone /\ p \notin doubtful' => (p \in loaded' <=> p \notin r.before.off)
    <3>1. r.alone => approval[a].wanted /\ raised
      BY <1>2, <1>3, <1>6, <1>8, <2>2
    <3> QED BY <1>2, <1>3, <1>5, <2>2, <3>1
  <2> QED BY <1>2, <1>3, <1>4, <1>5, <2>2, <2>3, <2>4, StateGoes
<1> QED BY <1>7, <1>8

LEMMA ReconcileDoneJ ==
  ASSUME IInv, JInv, NEW a \in Approvals, NEW now \in SUBSET Plugins, NEW raised \in BOOLEAN, ReconcileDone(a, now, raised)
  PROVE  JInv'
<1> DEFINE p == What(a).of
<1>1. At(a, "state", "reconciling")
  BY DEF ReconcileDone
<1>2. /\ a \in Under /\ a \in States /\ What(a).kind = "state" /\ approval[a].at = "reconciling" /\ up
      /\ approval[a] \in Call /\ p \in Plugins
      /\ InPlace(What(a), approval[a])
      /\ p \notin doubtful =>
           IF Holds(approval[a]) /\ approval[a].at # "decide"
             THEN p \in loaded <=> p \notin approval[a].before.off
             ELSE p \in loaded <=> p \notin config.off
      /\ approval[a].alone => approval[a].wanted = (p \notin config.off)
  BY <1>1, StateKnown
<1>3. /\ loaded' = now /\ doubtful \subseteq doubtful'
      /\ \A q \in Plugins : q # p => (q \in now <=> q \in loaded)
      /\ raised = FALSE => (p \in now <=> approval[a].wanted = TRUE)
      /\ raised = TRUE =>
           approval[a].wanted = TRUE /\ (p \notin doubtful' => (p \in now <=> p \in loaded))
  <2>1. Reloaded(a, now, raised)
    BY DEF ReconcileDone
  <2>2. a \in Under
    BY <1>2
  <2> QED BY <2>1, <2>2, ReloadEffect
<1>4. UNCHANGED <<up, file, config, stored, disk, registry, promised, torn, proposal>>
  BY DEF ReconcileDone
<1>5. approval[a].outcome = "failed" /\ ~Holds(approval[a])
  BY <1>2 DEF InPlace, Backward, Holds
<1>6. "decide" \in Places \cup Awaits
  BY DEF Places
<1>7. PICK r \in Call : Takes(a, r) /\ r.at = "decide" /\ r.of = approval[a].of
                        /\ r.before = approval[a].before /\ r.outcome = "failed"
                        /\ r.alone = approval[a].alone
  BY <1>2, <1>4, <1>5, <1>6, GotoFacts DEF ReconcileDone
<1>8. InPlace(What(a), r) /\ ~Holds(r) /\ Holds(r) = Holds(approval[a])
  BY <1>2, <1>5, <1>7 DEF InPlace, StatePlaces, Forward, Backward, Holds
<1>9. r.alone /\ p \notin doubtful' => (p \in loaded' <=> p \notin config.off)
  BY <1>2, <1>3, <1>5, <1>7
<1> QED BY <1>2, <1>3, <1>4, <1>5, <1>7, <1>8, <1>9, StateGoes

\* A configuration that changes only in what is disabled.
LEMMA OffFacts ==
  ASSUME IInv, StoredInv, up, NEW off \in SUBSET Plugins, file' = file,
         Replace([config EXCEPT !.off = off], [stored EXCEPT !.off = off]), up' = up
  PROVE  /\ config'.off = off /\ config'.set = config.set /\ stored'.set = stored.set
         /\ Overlaid'.off = off /\ Overlaid'.set = Overlaid.set /\ StoredInv'
<1>1. /\ config \in Configs
      /\ stored \in [set: [Paths -> Values \cup {NULL}], off: (SUBSET Plugins) \cup {NULL}]
  BY DEF IInv, TypeOK
<1>2. config'.off = off /\ config'.set = config.set /\ stored'.set = stored.set /\ stored'.off = off
  BY <1>1 DEF Replace, Configs
<1>3. Overlaid'.off = off /\ Overlaid'.set = Overlaid.set
  BY <1>2, SubjectAssumption DEF Overlaid
<1> QED BY <1>2, <1>3 DEF StoredInv

LEMMA CompensateJ ==
  ASSUME IInv, JInv, NEW a \in Approvals, Compensate(a)
  PROVE  JInv'
<1> DEFINE p == What(a).of
           off == approval[a].before.off
<1>1. At(a, "state", "compensate")
  BY DEF Compensate
<1>2. /\ a \in Under /\ a \in States /\ What(a).kind = "state" /\ approval[a].at = "compensate" /\ up
      /\ approval[a] \in Call /\ p \in Plugins /\ approval[a].outcome = "failed"
      /\ InPlace(What(a), approval[a]) /\ Holds(approval[a])
      /\ p \notin doubtful => (p \in loaded <=> p \notin off)
      /\ ~ approval[a].alone => Plugins \subseteq doubtful
      /\ approval[a].alone =>
           /\ \A b \in States : b = a
           /\ config.off = Switched(off, What(a))
  BY <1>1, StateKnown DEF Holds, InPlace, Backward
<1>3. /\ UNCHANGED <<up, file, loaded, doubtful, disk, registry, promised, torn, proposal>>
      /\ Replace([config EXCEPT !.off = off], [stored EXCEPT !.off = off])
  BY DEF Compensate, OffBefore
<1>4. PICK r \in Call : Takes(a, r) /\ r.at = "undoRecord" /\ r.of = approval[a].of
                        /\ r.before = approval[a].before /\ r.outcome = "failed"
                        /\ r.alone = approval[a].alone
  BY <1>2, <1>3, GotoFacts DEF Compensate, Places
<1>5. off \in SUBSET Plugins
  BY <1>2 DEF Call, Configs
<1> HIDE DEF off, p
<1>6. /\ config'.off = off /\ config'.set = config.set /\ stored'.set = stored.set
      /\ Overlaid'.off = off /\ Overlaid'.set = Overlaid.set /\ StoredInv'
  BY <1>2, <1>3, <1>5, OffFacts DEF JInv
<1>7. InPlace(What(a), r) /\ ~Holds(r)
  BY <1>2, <1>4 DEF InPlace, StatePlaces, Forward, Backward, Holds
<1>8. a \in Approvals /\ proposal[r.of].what = What(a)
  BY <1>4 DEF What
<1>9. PlaceInv' /\ PromptInv'
  BY <1>2, <1>3, <1>4, <1>7, <1>8, PlaceStep, NoPromptStep DEF JInv
<1>10. AloneInv'
  BY <1>2, <1>3, <1>4, <1>6, <1>7, AloneStep DEF JInv, off
<1>11. r.alone => \A q \in Plugins : q # p => (q \in config'.off <=> q \in config.off)
  BY <1>2, <1>4, <1>6 DEF Switched, p
<1>12. FollowInv'
  BY <1>2, <1>3, <1>4, <1>6, <1>7, <1>11, FollowStep DEF JInv, p
<1>13. /\ States' = States /\ Under' = Under /\ approval'[a] = r /\ What(a)' = What(a)
       /\ \A b \in Under : b # a => approval'[b] = approval[b] /\ What(b)' = What(b)
       /\ \A b \in States : What(b).of \in Plugins
  BY <1>2, <1>4, StatesFacts
<1>14. \A b \in Under : What(b).kind = "state"
  <2>1. Busy(a)
    BY <1>2 DEF Busy, Under, Awaits
  <2> QED BY <1>2, <2>1, Others DEF JInv
<1>15. SettingsInv'
  BY <1>13, <1>14 DEF SettingsInv
<1>16. PromiseInv'
  <2> SUFFICES ASSUME NEW x \in Subjects, promised[x] # NULL, x \notin doubtful
               PROVE  /\ (\A b \in Concerned(x)' : ~Holds(approval'[b])) => Assured(x)'
                      /\ \A b \in Concerned(x)' : promised[x] = InEffect(x, approval'[b].before)
    BY <1>3 DEF PromiseInv, InEffect, Holds
  <2>1. Concerned(x)' = Concerned(x) /\ Concerned(x) \subseteq States
    BY <1>13, <1>14 DEF Concerned, States, Under
  <2>2. CASE x \in Paths
    <3>1. Concerned(x) = {}
      BY <1>13, <2>1, <2>2, SubjectAssumption DEF Concerned
    <3>2. Assured(x)' = Assured(x)
      BY <1>3, <1>6, <2>2 DEF Assured
    <3> QED BY <2>1, <3>1, <3>2 DEF JInv, PromiseInv
  <2>3. CASE x \in Plugins
    <3>1. x \notin Paths /\ approval[a].alone /\ Concerned(x) \subseteq {a}
      BY <1>2, <2>1, <2>3, SubjectAssumption
    <3>2. CASE x = p
      <4>1. a \in Concerned(x)
        BY <1>2, <3>2 DEF Concerned, p
      <4>2. promised[x] = (x \in off)
        BY <3>1, <4>1 DEF JInv, PromiseInv, InEffect, off
      <4> QED BY <1>3, <1>4, <1>6, <1>13, <2>1, <3>1, <4>2 DEF Assured, InEffect, off
    <3>3. CASE x # p
      <4>1. Concerned(x) = {}
        BY <3>1, <3>3 DEF Concerned, p
      <4>2. promised[x] = (x \in Overlaid.off)
        BY <3>1, <4>1 DEF JInv, PromiseInv, Assured
      <4>3. (x \in off) = (x \in Overlaid.off)
        BY <1>2, <1>4, <1>6, <1>11, <2>3, <3>1, <3>3 DEF JInv, StoredInv
      <4> QED BY <1>3, <1>6, <2>1, <3>1, <4>1, <4>2, <4>3 DEF Assured
    <3> QED BY <3>2, <3>3
  <2> QED BY <2>2, <2>3 DEF Subjects
<1> QED BY <1>6, <1>9, <1>10, <1>12, <1>15, <1>16 DEF JInv

\* An approval of a plugin state begins: those under way are no longer alone.
LEMMA ApproveStateJ ==
  ASSUME IInv, JInv, NEW a \in Approvals, NEW i \in Proposals, ApproveState(a, i)
  PROVE  JInv'
<1> DEFINE what == proposal[i].what
           off == Switched(config.off, what)
           r == Opened(i, "record")
           joined(b) == [approval[b] EXCEPT !.alone = FALSE]
<1>1. /\ up /\ Awaiting /\ a \notin Under /\ what \in Changes /\ what.kind = "state"
      /\ what.of \in Plugins /\ what.to \in BOOLEAN
  BY MayFacts, KindFacts DEF ApproveState, MayApprove, Under
<1>2. /\ Replace([config EXCEPT !.off = off], [stored EXCEPT !.off = off])
      /\ UNCHANGED <<up, file, loaded, disk, registry, promised, torn, proposal>>
      /\ doubtful' = IF States = {} THEN doubtful ELSE doubtful \cup Plugins
      /\ approval' = [b \in Approvals |-> IF b = a THEN r
           ELSE IF b \in States THEN [approval[b] EXCEPT !.alone = FALSE] ELSE approval[b]]
  BY DEF ApproveState
<1>3. off \in SUBSET Plugins
  BY <1>1 DEF Switched, IInv, TypeOK, Configs
<1>4. /\ r \in Call /\ r.at = "record" /\ r.of = i /\ r.outcome = "applied" /\ r.before = config
      /\ r.alone = (States = {})
  BY OpenedFacts DEF IInv, Places, Opened
<1>5. \A b \in Under : What(b).kind = "state" /\ b \in States
  BY <1>1, Others DEF JInv, States, Under
<1>6. States = Under /\ Under \subseteq Approvals /\ \A b \in Under : approval[b] \in Call
  BY <1>5, UnderFacts DEF States, Under
<1>7. /\ approval'[a] = r
      /\ \A b \in Under : b # a /\ approval'[b] = joined(b)
      /\ \A b \in Approvals : b # a /\ b \notin Under => approval'[b] = NULL
  <2> HIDE DEF r
  <2> QED BY <1>1, <1>2, <1>6 DEF Under
<1>8. \A b \in Under : /\ joined(b) \in Call /\ joined(b).of = approval[b].of /\ joined(b).at = approval[b].at
                       /\ joined(b).before = approval[b].before /\ joined(b).outcome = approval[b].outcome
                       /\ joined(b).alone = FALSE
  BY <1>6 DEF Call
<1> HIDE DEF r, off, joined
<1>9. Under' = Under \cup {a} /\ r # NULL
  BY <1>4, <1>6, <1>7, <1>8, NullAssumption DEF Under
<1>10. What(a)' = what /\ \A b \in Under : What(b)' = What(b)
  BY <1>2, <1>4, <1>7, <1>8 DEF What
<1>11. States' = States \cup {a}
  <2>1. \A b \in Under' : What(b)'.kind = "state"
    BY <1>1, <1>5, <1>9, <1>10
  <2> QED BY <1>6, <1>9, <2>1 DEF States, Under
<1>12. /\ config'.off = off /\ config'.set = config.set /\ stored'.set = stored.set
       /\ Overlaid'.off = off /\ Overlaid'.set = Overlaid.set /\ StoredInv'
  BY <1>1, <1>2, <1>3, OffFacts DEF JInv
<1>13. PlaceInv'
  <2> SUFFICES ASSUME NEW b \in Under' PROVE InPlace(What(b)', approval'[b])
    BY DEF PlaceInv
  <2>1. CASE b = a
    BY <1>1, <1>4, <1>7, <1>10, <2>1 DEF InPlace, StatePlaces, Forward, Backward
  <2>2. CASE b \in Under
    BY <1>7, <1>8, <1>10, <2>2 DEF JInv, PlaceInv, InPlace
  <2> QED BY <1>9, <2>1, <2>2
<1>14. SettingsInv'
  BY <1>1, <1>5, <1>9, <1>10 DEF SettingsInv
<1>15. PromptInv'
  <2>1. Made' = Made
    BY <1>2 DEF Made
  <2> QED BY <1>1, <1>2, <1>5, <1>9, <1>10, <2>1 DEF JInv, PromptInv
<1>16. Holds(r)
  BY <1>4 DEF Holds
<1>17. CASE States = {}
  <2>1. States' = {a} /\ doubtful' = doubtful /\ Under = {}
    BY <1>2, <1>6, <1>11, <1>17
  <2>2. \A q \in Plugins \ doubtful : Follows(q)
    BY <1>1, <1>17 DEF JInv, FollowInv
  <2>3. \A q \in Plugins : q # what.of => (q \in off <=> q \in config.off)
    BY DEF off, Switched
  <2>4. AloneInv'
    <3>1. off = Switched(r.before.off, what)
      BY <1>4 DEF off
    <3>2. r.alone = TRUE /\ r.at \notin {"reloading", "reconciling"}
      BY <1>4, <1>17
    <3> SUFFICES ASSUME NEW b \in States'
                 PROVE  /\ ~ approval'[b].alone => Plugins \subseteq doubtful'
                        /\ approval'[b].alone =>
                             /\ \A c \in States' : c = b
                             /\ config'.off = IF Holds(approval'[b]) THEN Switched(approval'[b].before.off, What(b)')
                                                                  ELSE approval'[b].before.off
                             /\ approval'[b].at \in {"reloading", "reconciling"} =>
                                  approval'[b].wanted = (What(b)'.of \notin config'.off)
      BY DEF AloneInv, Holds, Switched
    <3> QED BY <1>7, <1>10, <1>12, <1>16, <2>1, <3>1, <3>2
  <2>5. FollowInv'
    BY <1>1, <1>2, <1>4, <1>7, <1>10, <1>12, <1>16, <2>1, <2>2, <2>3 DEF FollowInv, Follows, Holds
  <2>6. PromiseInv'
    <3> SUFFICES ASSUME NEW x \in Subjects, promised[x] # NULL, x \notin doubtful
                 PROVE  /\ (\A b \in Concerned(x)' : ~Holds(approval'[b])) => Assured(x)'
                        /\ \A b \in Concerned(x)' : promised[x] = InEffect(x, approval'[b].before)
      BY <1>2, <2>1 DEF PromiseInv, InEffect, Holds
    <3>1. Concerned(x)' = IF x = what.of THEN {a} ELSE {}
      BY <1>1, <1>9, <1>10, <2>1 DEF Concerned
    <3>2. Concerned(x) = {} /\ Assured(x)
      <4>1. Concerned(x) = {}
        BY <2>1 DEF Concerned
      <4> QED BY <4>1 DEF JInv, PromiseInv
    <3>3. CASE x \in Paths
      BY <1>1, <1>2, <1>12, <3>1, <3>2, <3>3, SubjectAssumption DEF Assured
    <3>4. CASE x \in Plugins
      <4>1. x \notin Paths /\ promised[x] = (x \in Overlaid.off)
        BY <3>2, <3>4, SubjectAssumption DEF Assured
      <4>2. promised[x] = (x \in config.off)
        BY <1>1, <4>1 DEF JInv, StoredInv
      <4>3. x # what.of => promised[x] = (x \in off)
        BY <2>3, <3>4, <4>2
      <4> QED BY <1>2, <1>4, <1>7, <1>12, <1>16, <3>1, <4>1, <4>2, <4>3 DEF Assured, InEffect
    <3> QED BY <3>3, <3>4 DEF Subjects
  <2> QED BY <1>12, <1>13, <1>14, <1>15, <2>4, <2>5, <2>6 DEF JInv
<1>18. CASE States # {}
  <2>1. Plugins \subseteq doubtful' /\ doubtful \subseteq doubtful'
    BY <1>2, <1>18
  <2>2. \A b \in States' : approval'[b].alone = FALSE /\ What(b)'.of \in Plugins
    <3>1. \A b \in States : What(b).of \in Plugins
      <4>1. \A b \in States : What(b).kind = "state" /\ What(b) \in Changes
        BY <1>5, <1>6, UnderFacts
      <4> QED BY <4>1, KindFacts
    <3>2. r.alone = FALSE
      BY <1>4, <1>18
    <3> QED BY <1>1, <1>6, <1>7, <1>8, <1>10, <1>11, <3>1, <3>2
  <2>3. AloneInv' /\ FollowInv'
    BY <2>1, <2>2 DEF AloneInv, FollowInv
  <2>4. PromiseInv'
    <3> SUFFICES ASSUME NEW x \in Subjects, promised[x] # NULL, x \notin doubtful'
                 PROVE  /\ (\A b \in Concerned(x)' : ~Holds(approval'[b])) => Assured(x)'
                        /\ \A b \in Concerned(x)' : promised[x] = InEffect(x, approval'[b].before)
      BY <1>2 DEF PromiseInv, InEffect, Holds
    <3>1. x \in Paths /\ x \notin Plugins /\ x \notin doubtful
      BY <2>1 DEF Subjects
    <3>2. Concerned(x)' = {} /\ Concerned(x) = {}
      <4>1. \A b \in Under' : What(b)'.of \in Plugins
        BY <1>6, <1>9, <1>11, <2>2
      <4>2. \A b \in Under : What(b).of \in Plugins
        BY <1>9, <1>10, <4>1
      <4> QED BY <3>1, <4>1, <4>2 DEF Concerned
    <3>3. Assured(x)
      BY <3>1, <3>2 DEF JInv, PromiseInv
    <3> QED BY <1>2, <1>12, <3>1, <3>2, <3>3 DEF Assured
  <2> QED BY <1>12, <1>13, <1>14, <1>15, <2>3, <2>4 DEF JInv
<1> QED BY <1>17, <1>18

\* What a decision leaves as it was.
LEMMA DecideFacts ==
  ASSUME IInv, JInv, NEW a \in Approvals, Decide(a)
  PROVE  /\ a \in Under /\ Busy(a) /\ approval[a].at = "decide" /\ up
         /\ approval[a] \in Call /\ What(a) \in Changes /\ Under \subseteq Approvals
         /\ Under' = Under \ {a} /\ States' = States \ {a}
         /\ \A b \in Under' : b # a /\ approval'[b] = approval[b] /\ What(b)' = What(b)
         /\ \A b \in Under' : What(b).kind = "state" /\ b \in States
         /\ Made' = Made
<1>1. a \in Under /\ Busy(a) /\ approval[a].at = "decide" /\ Under \subseteq Approvals
  BY DEF Decide, Busy, Awaits, Under
<1>2. approval[a] \in Call /\ What(a) \in Changes /\ up
  BY <1>1, UnderFacts
<1>3. /\ approval' = [approval EXCEPT ![a] = NULL]
      /\ proposal' = [proposal EXCEPT ![approval[a].of] = [proposal[approval[a].of] EXCEPT !.status = approval[a].outcome]]
  BY DEF Decide, Set
<1>4. /\ \A i \in Proposals : proposal[i] # NULL => proposal'[i].what = proposal[i].what
      /\ \A i \in Proposals : proposal'[i] # NULL <=> proposal[i] # NULL
  <2>1. approval[a].of \in Proposals /\ proposal[approval[a].of] \in Proposal /\ proposal[approval[a].of] # NULL
    BY <1>1, UnderFacts
  <2> DEFINE p == [proposal[approval[a].of] EXCEPT !.status = approval[a].outcome]
  <2>2. p \in Proposal /\ p.what = proposal[approval[a].of].what
    BY <1>2, <2>1 DEF Proposal, Call
  <2>3. p # NULL
    BY <2>2, NullAssumption
  <2>4. proposal \in [Proposals -> {NULL} \cup Proposal] /\ proposal' = [proposal EXCEPT ![approval[a].of] = p]
    BY <1>3 DEF IInv, TypeOK
  <2> HIDE DEF p
  <2> QED BY <2>1, <2>2, <2>3, <2>4
<1>5. approval'[a] = NULL /\ \A b \in Approvals : b # a => approval'[b] = approval[b]
  BY <1>3 DEF IInv, TypeOK
<1>6. Under' = Under \ {a}
  BY <1>5 DEF Under
<1>7. \A b \in Under : proposal[approval[b].of] # NULL /\ approval[b].of \in Proposals
  BY UnderFacts
<1>8. \A b \in Under' : b # a /\ approval'[b] = approval[b] /\ What(b)' = What(b)
  BY <1>1, <1>4, <1>5, <1>6, <1>7 DEF What
<1>9. \A b \in Under' : What(b).kind = "state" /\ b \in States
  BY <1>1, <1>6, Others DEF JInv, States, Under
<1>10. States' = States \ {a}
  <2>1. \A b \in Approvals : b \in States' <=> b \in Under' /\ What(b)'.kind = "state"
    BY DEF States, Under
  <2>2. \A b \in Approvals : b \in States <=> b \in Under /\ What(b).kind = "state"
    BY DEF States, Under
  <2>3. States \subseteq Approvals /\ States' \subseteq Approvals
    BY DEF States
  <2> QED BY <1>6, <1>8, <2>1, <2>2, <2>3
<1>11. Made' = Made
  <2>1. {i \in Proposals : proposal'[i] # NULL /\ proposal'[i].what.kind = "prompt"}
          = {i \in Proposals : proposal[i] # NULL /\ proposal[i].what.kind = "prompt"}
    BY <1>4
  <2> QED BY <1>4, <2>1 DEF Made
<1> QED BY <1>1, <1>2, <1>6, <1>8, <1>9, <1>10, <1>11

\* Whether the subject of a decision is doubtful afterwards.
LEMMA DoubtFacts ==
  ASSUME IInv, JInv, NEW a \in Approvals, Decide(a)
  PROVE  /\ \A x \in Subjects : x # What(a).of => (x \in doubtful' <=> x \in doubtful)
         /\ approval[a].outcome = "failed" \/ What(a).kind = "prompt" \/ approval[a].alone = FALSE =>
              doubtful' = doubtful
         /\ a \in States /\ ~approval[a].alone => Plugins \subseteq doubtful'
         /\ a \in States /\ approval[a].alone => Under' = {} /\ States' = {}
         /\ What(a).kind = "settings" => \A x \in Plugins : x \in doubtful' <=> x \in doubtful
<1>1. /\ a \in Under /\ Under' = Under \ {a} /\ States' = States \ {a} /\ What(a) \in Changes
      /\ \A b \in Under' : b \in States
  BY DecideFacts
<1>2. \A x \in Subjects : x # What(a).of => (x \in doubtful' <=> x \in doubtful)
  BY DEF Decide
<1>3. approval[a].outcome = "failed" \/ What(a).kind = "prompt" \/ approval[a].alone = FALSE =>
        doubtful' = doubtful
  BY DEF Decide
<1>4. a \in States /\ ~approval[a].alone => Plugins \subseteq doubtful'
  BY DEF JInv, AloneInv, Decide
<1>5. a \in States /\ approval[a].alone => Under' = {} /\ States' = {}
  BY <1>1 DEF JInv, AloneInv
<1>6. What(a).kind = "settings" => \A x \in Plugins : x \in doubtful' <=> x \in doubtful
  BY <1>1, <1>2, KindFacts, SubjectAssumption DEF Subjects
<1> QED BY <1>2, <1>3, <1>4, <1>5, <1>6

LEMMA DecideJ ==
  ASSUME IInv, JInv, NEW a \in Approvals, Decide(a)
  PROVE  JInv'
<1> DEFINE what == What(a)
           r == approval[a]
<1>1. /\ a \in Under /\ Busy(a) /\ r.at = "decide" /\ up
      /\ r \in Call /\ what \in Changes /\ Under \subseteq Approvals
      /\ Under' = Under \ {a} /\ States' = States \ {a}
      /\ \A b \in Under' : b # a /\ approval'[b] = approval[b] /\ What(b)' = What(b)
      /\ \A b \in Under' : What(b).kind = "state" /\ b \in States
      /\ Made' = Made
  BY DecideFacts
<1>2. /\ UNCHANGED <<up, file, config, stored, loaded, disk, registry, torn>>
      /\ IF r.outcome = "applied" /\ what.kind # "prompt"
           THEN promised' = [promised EXCEPT ![what.of] = what.to]
           ELSE promised' = promised
  BY DEF Decide
<1>3. /\ \A x \in Subjects : x # what.of => (x \in doubtful' <=> x \in doubtful)
      /\ r.outcome = "failed" \/ what.kind = "prompt" \/ r.alone = FALSE => doubtful' = doubtful
      /\ a \in States /\ ~r.alone => Plugins \subseteq doubtful'
      /\ a \in States /\ r.alone => Under' = {} /\ States' = {}
      /\ what.kind = "settings" => \A x \in Plugins : x \in doubtful' <=> x \in doubtful
  BY DoubtFacts
<1>4. /\ r.outcome \in {"applied", "failed"} /\ Holds(r) = (r.outcome = "applied") /\ r.alone \in BOOLEAN
      /\ what.kind \in {"settings", "state", "prompt"}
  BY <1>1, UnderFacts DEF Holds, Call
<1>5. /\ what.kind = "state" <=> a \in States
      /\ what.kind = "state" => what.of \in Plugins /\ what.to \in BOOLEAN
      /\ what.kind = "settings" => what.of \in Paths
  BY <1>1, KindFacts DEF States, Under
<1>6. \A b \in States : What(b).of \in Plugins
  <2>1. \A b \in States : b \in Under /\ What(b).kind = "state"
    BY DEF States, Under
  <2> QED BY <2>1, UnderFacts, KindFacts
<1>7. PlaceInv'
  BY <1>1 DEF JInv, PlaceInv, InPlace
<1>8. StoredInv'
  BY <1>2 DEF JInv, StoredInv, Overlaid
<1>9. SettingsInv'
  BY <1>1 DEF SettingsInv
<1>10. AloneInv'
  <2> SUFFICES ASSUME NEW b \in States'
               PROVE  /\ ~ approval'[b].alone => Plugins \subseteq doubtful'
                      /\ approval'[b].alone =>
                           /\ \A c \in States' : c = b
                           /\ config'.off = IF Holds(approval'[b]) THEN Switched(approval'[b].before.off, What(b)')
                                                                ELSE approval'[b].before.off
                           /\ approval'[b].at \in {"reloading", "reconciling"} =>
                                approval'[b].wanted = (What(b)'.of \notin config'.off)
    BY DEF AloneInv, Holds, Switched
  <2>0. approval'[b] = approval[b] /\ What(b)' = What(b) /\ config' = config
    <3>1. States' \subseteq Under'
      BY DEF States, Under
    <3> QED BY <1>1, <1>2, <3>1
  <2>1. b \in States /\ b # a
    BY <1>1
  <2>2. ~ approval[b].alone => Plugins \subseteq doubtful'
    <3> SUFFICES ASSUME ~approval[b].alone PROVE Plugins \subseteq doubtful'
      OBVIOUS
    <3>1. Plugins \subseteq doubtful
      BY <2>1 DEF JInv, AloneInv
    <3>2. a \in States => ~r.alone
      BY <2>1 DEF JInv, AloneInv
    <3>3. CASE what.kind = "settings"
      BY <1>3, <3>1, <3>3
    <3>4. CASE what.kind = "prompt"
      BY <1>3, <3>1, <3>4
    <3>5. CASE what.kind = "state"
      BY <1>3, <1>5, <3>2, <3>5
    <3> QED BY <1>4, <3>3, <3>4, <3>5
  <2>3. States' \subseteq States
    BY <1>1
  <2> QED BY <2>0, <2>1, <2>2, <2>3 DEF JInv, AloneInv
<1>11. FollowInv'
  <2>1. \A p \in Plugins : Follows(p)' = Follows(p)
    BY <1>2 DEF Follows
  <2>2. ASSUME NEW p \in Plugins \ doubtful', \A b \in States' : What(b).of # p
        PROVE  Follows(p)
    <3>1. CASE p \in doubtful
      <4>1. p = what.of /\ r.outcome = "applied" /\ r.alone
        BY <1>3, <1>4, <2>2, <3>1 DEF Subjects
      <4>2. a \in States
        BY <1>3, <1>4, <1>5, <2>2, <3>1, <4>1
      <4> QED BY <1>1, <1>4, <4>1, <4>2 DEF JInv, FollowInv
    <3>2. CASE p \notin doubtful
      <4>1. CASE a \in States /\ what.of = p
        BY <1>1, <3>2, <4>1 DEF JInv, FollowInv
      <4>2. CASE ~(a \in States /\ what.of = p)
        <5>1. \A b \in States : What(b).of # p
          BY <1>1, <2>2, <4>2
        <5> QED BY <1>1, <2>2, <3>2, <5>1 DEF JInv, FollowInv
      <4> QED BY <4>1, <4>2
    <3> QED BY <3>1, <3>2
  <2>3. ASSUME NEW b \in States'
        PROVE  /\ What(b).of \notin doubtful' => What(b).of \notin doubtful
               /\ approval[b].alone => a \notin States
    <3>1. b \in States /\ b # a /\ What(b).of \in Plugins
      BY <1>1, <1>6
    <3>2. approval[b].alone => a \notin States
      BY <3>1 DEF JInv, AloneInv
    <3>3. CASE what.kind = "state"
      BY <1>3, <1>5, <3>1, <3>3, <3>2
    <3>4. CASE what.kind # "state"
      BY <1>3, <1>4, <3>1, <3>2, <3>4
    <3> QED BY <3>2, <3>3, <3>4
  <2>4. ASSUME NEW b \in States' PROVE b \in States /\ approval'[b] = approval[b] /\ What(b)' = What(b) /\ What(b).of \in Plugins
    <3>1. b \in Under'
      BY <2>4 DEF States, Under
    <3> QED BY <1>1, <1>6, <3>1
  <2>5. \A b \in States' : What(b).of \notin doubtful' =>
          IF Holds(approval[b]) /\ approval[b].at # "decide"
            THEN What(b).of \in loaded <=> What(b).of \notin approval[b].before.off
            ELSE Follows(What(b).of)
    BY <1>1, <2>3, <2>4 DEF JInv, FollowInv
  <2>6. \A b \in States' : approval[b].alone /\ approval[b].at = "decide" /\ Holds(approval[b]) => Follows(What(b).of)
    BY <1>1, <2>4 DEF JInv, FollowInv
  <2> QED BY <1>2, <2>1, <2>2, <2>4, <2>5, <2>6 DEF FollowInv, Holds
<1>12. PromiseInv'
  <2> SUFFICES ASSUME NEW x \in Subjects, promised'[x] # NULL, x \notin doubtful'
               PROVE  /\ (\A b \in Concerned(x)' : ~Holds(approval'[b])) => Assured(x)'
                      /\ \A b \in Concerned(x)' : promised'[x] = InEffect(x, approval'[b].before)
    BY <1>2 DEF PromiseInv, InEffect, Holds
  <2>1. Concerned(x)' = Concerned(x) \ {a} /\ Concerned(x) \subseteq Under
    BY <1>1 DEF Concerned
  <2>2. \A b \in Concerned(x)' : approval'[b] = approval[b] /\ b \in States
    BY <1>1, <2>1
  <2>3. Overlaid' = Overlaid /\ promised \in [Subjects -> {NULL} \cup Values \cup BOOLEAN]
    BY <1>2 DEF Overlaid, IInv, TypeOK
  <2>4. CASE r.outcome = "applied" /\ what.kind # "prompt" /\ x = what.of
    <3>1. promised'[x] = what.to
      BY <1>2, <2>3, <2>4
    <3>2. CASE what.kind = "settings"
      <4>1. Concerned(x)' = {}
        <5>1. \A b \in Concerned(x)' : What(b).of \in Plugins /\ What(b).of = x
          BY <1>6, <2>1, <2>2 DEF Concerned
        <5> QED BY <1>5, <2>4, <3>2, <5>1, SubjectAssumption
      <4>2. stored.set[x] = what.to
        BY <1>1, <1>4, <2>4, <3>2 DEF JInv, SettingsInv
      <4> QED BY <1>2, <1>5, <2>4, <3>1, <3>2, <4>1, <4>2 DEF Assured
    <3>3. CASE what.kind = "state"
      <4>1. r.alone /\ Concerned(x)' = {}
        BY <1>3, <1>5, <2>4, <3>3 DEF Concerned
      <4>2. config.off = Switched(r.before.off, what)
        BY <1>4, <1>5, <2>4, <3>3, <4>1 DEF JInv, AloneInv
      <4>3. (x \in config.off) = what.to
        BY <1>5, <2>4, <3>3, <4>2 DEF Switched
      <4>4. Overlaid.off = config.off
        BY <1>1 DEF JInv, StoredInv
      <4>5. x \notin Paths
        BY <1>5, <2>4, <3>3, SubjectAssumption
      <4> QED BY <2>3, <3>1, <4>1, <4>3, <4>4, <4>5 DEF Assured
    <3> QED BY <1>4, <2>4, <3>2, <3>3
  <2>5. CASE ~(r.outcome = "applied" /\ what.kind # "prompt" /\ x = what.of)
    <3>1. promised'[x] = promised[x] /\ x \notin doubtful
      BY <1>2, <1>3, <1>4, <2>3, <2>5
    <3>2. a \in Concerned(x) => ~Holds(r)
      BY <1>4, <2>5 DEF Concerned
    <3>3. /\ (\A b \in Concerned(x) : ~Holds(approval[b])) => Assured(x)
          /\ \A b \in Concerned(x) : promised[x] = InEffect(x, approval[b].before)
      BY <3>1 DEF JInv, PromiseInv
    <3>4. Assured(x) => Assured(x)'
      BY <1>2, <2>3, <3>1 DEF Assured
    <3> QED BY <2>1, <2>2, <3>1, <3>2, <3>3, <3>4
  <2> QED BY <2>4, <2>5
<1>13. PromptInv'
  <2> SUFFICES ASSUME ~torn PROVE disk \in Made /\ registry = disk
    BY <1>1, <1>2 DEF PromptInv
  <2>1. CASE what.kind = "prompt"
    BY <1>1, <2>1 DEF JInv, PromptInv, PromptAt
  <2>2. CASE what.kind # "prompt"
    <3>1. \A b \in Under : What(b).kind # "prompt"
      BY <1>1, <2>2
    <3> QED BY <1>1, <3>1 DEF JInv, PromptInv
  <2> QED BY <2>1, <2>2
<1> QED BY <1>7, <1>8, <1>9, <1>10, <1>11, <1>12, <1>13 DEF JInv

\* A step of the proposals alone, which all keep what they ask for.
LEMMA ProposalsStep ==
  ASSUME IInv, JInv,
         UNCHANGED <<up, file, config, stored, disk, registry, loaded, approval, promised, doubtful, torn>>,
         \A i \in Proposals : proposal[i] # NULL =>
           proposal'[i] # NULL /\ proposal'[i].what = proposal[i].what
  PROVE  JInv'
<1>1. Under' = Under
  BY DEF Under
<1>2. \A b \in Under : What(b)' = What(b)
  BY UnderFacts DEF What
<1>3. States' = States /\ States \subseteq Under
  <2>1. \A b \in Approvals : b \in States' <=> b \in Under' /\ What(b)'.kind = "state"
    BY DEF States, Under
  <2>2. \A b \in Approvals : b \in States <=> b \in Under /\ What(b).kind = "state"
    BY DEF States, Under
  <2>3. States \subseteq Under /\ States \subseteq Approvals /\ States' \subseteq Approvals
    BY DEF States, Under
  <2> QED BY <1>1, <1>2, <2>1, <2>2, <2>3
<1>4. Made \subseteq Made'
  BY DEF Made
<1>5. Overlaid' = Overlaid
  BY DEF Overlaid
<1>6. PlaceInv' /\ StoredInv' /\ SettingsInv'
  BY <1>1, <1>2, <1>5 DEF JInv, PlaceInv, StoredInv, SettingsInv, Holds, InPlace
<1>7. AloneInv'
  <2> SUFFICES ASSUME NEW b \in States'
               PROVE  /\ ~ approval'[b].alone => Plugins \subseteq doubtful'
                      /\ approval'[b].alone =>
                           /\ \A c \in States' : c = b
                           /\ config'.off = IF Holds(approval'[b]) THEN Switched(approval'[b].before.off, What(b)')
                                                                ELSE approval'[b].before.off
                           /\ approval'[b].at \in {"reloading", "reconciling"} =>
                                approval'[b].wanted = (What(b)'.of \notin config'.off)
    BY DEF AloneInv, Holds, Switched
  <2>1. b \in States /\ What(b)' = What(b)
    BY <1>2, <1>3
  <2> QED BY <1>3, <2>1 DEF JInv, AloneInv
<1>8. FollowInv'
  BY <1>2, <1>3 DEF JInv, FollowInv, Follows, Holds
<1>9. PromiseInv'
  <2> SUFFICES ASSUME NEW x \in Subjects, promised[x] # NULL, x \notin doubtful
               PROVE  /\ (\A b \in Concerned(x)' : ~Holds(approval[b])) => Assured(x)'
                      /\ \A b \in Concerned(x)' : promised[x] = InEffect(x, approval[b].before)
    BY DEF PromiseInv, InEffect, Holds
  <2>1. Concerned(x)' = Concerned(x)
    BY <1>1, <1>2 DEF Concerned
  <2>2. Assured(x)' = Assured(x)
    BY <1>5 DEF Assured
  <2> QED BY <2>1, <2>2 DEF JInv, PromiseInv
<1>10. PromptInv'
  BY <1>1, <1>2, <1>4 DEF JInv, PromptInv, PromptAt
<1> QED BY <1>6, <1>7, <1>8, <1>9, <1>10 DEF JInv

LEMMA ProposeJ ==
  ASSUME IInv, JInv, NEW i \in Proposals, NEW what \in Offered, Propose(i, what)
  PROVE  JInv'
<1>1. \A j \in Proposals : proposal[j] # NULL =>
        proposal'[j] # NULL /\ proposal'[j].what = proposal[j].what
  BY DEF Propose, IInv, TypeOK
<1> QED BY <1>1, ProposalsStep DEF Propose

LEMMA RejectJ == ASSUME IInv, JInv, NEW i \in Proposals, Reject(i) PROVE JInv'
<1>1. \A j \in Proposals : proposal[j] # NULL =>
        proposal'[j] # NULL /\ proposal'[j].what = proposal[j].what
  <2>1. proposal[i] \in Proposal
    BY DEF IInv, TypeOK, Reject
  <2> DEFINE p == [proposal[i] EXCEPT !.status = "rejected"]
  <2>2. p \in Proposal /\ p.what = proposal[i].what
    BY <2>1 DEF Proposal
  <2>3. proposal' = [proposal EXCEPT ![i] = p]
    BY DEF Reject
  <2> HIDE DEF p
  <2> QED BY <2>2, <2>3, NullAssumption DEF IInv, TypeOK
<1> QED BY <1>1, ProposalsStep DEF Reject

\* The steps of a process that is down find no approval.
LEMMA NoneFacts ==
  ASSUME Under' = {}
  PROVE  /\ States' = {} /\ PlaceInv' /\ SettingsInv' /\ AloneInv'
         /\ \A x \in Subjects : Concerned(x)' = {}
<1>1. States' = {}
  BY DEF States, Under
<1> QED BY <1>1 DEF PlaceInv, SettingsInv, AloneInv, Concerned

LEMMA DownFacts ==
  ASSUME IInv, JInv, ~up
  PROVE  /\ Under = {} /\ \A x \in Subjects : Concerned(x) = {}
         /\ ~torn => disk \in Made
         /\ \A x \in Subjects : promised[x] # NULL /\ x \notin doubtful => Assured(x)
<1>1. Under = {}
  BY DEF IInv, Known, Under
<1>2. \A x \in Subjects : Concerned(x) = {}
  BY <1>1 DEF Concerned
<1> QED BY <1>1, <1>2 DEF JInv, PromptInv, PromiseInv

LEMMA EditJ ==
  ASSUME IInv, JInv, NEW p \in Paths, NEW v \in Values, Edit(p, v)
  PROVE  JInv'
<1>1. ~up /\ UNCHANGED <<up, config, stored, disk, registry, loaded, proposal, approval, promised, doubtful, torn>>
  BY DEF Edit
<1>2. Under' = {}
  BY <1>1, DownFacts DEF Under
<1>3. StoredInv' /\ FollowInv'
  BY <1>1 DEF StoredInv, FollowInv
<1>4. PromiseInv'
  <2>1. Overlaid'.off = Overlaid.off
    BY <1>1 DEF Overlaid
  <2>2. \A x \in Subjects : Assured(x) => Assured(x)'
    BY <1>1, <2>1 DEF Assured
  <2>3. \A x \in Subjects : Concerned(x)' = {}
    BY <1>2, NoneFacts
  <2> QED BY <1>1, <2>2, <2>3, DownFacts DEF PromiseInv, InEffect, Holds
<1>5. PromptInv'
  <2>1. Made' = Made
    BY <1>1 DEF Made
  <2> QED BY <1>1, <1>2, <2>1, DownFacts DEF PromptInv
<1> QED BY <1>2, <1>3, <1>4, <1>5, NoneFacts DEF JInv

\* A crash makes what was under way doubtful, and files between two writes torn.
LEMMA CrashJ == ASSUME IInv, JInv, Crash PROVE JInv'
<1>1. ~up' /\ UNCHANGED <<file, config, stored, disk, registry, proposal, promised>>
  BY DEF Crash
<1>2. Under' = {}
  BY DEF Crash, Under
<1>3. StoredInv' /\ FollowInv'
  BY <1>1 DEF StoredInv, FollowInv
<1>4. PromiseInv'
  <2> SUFFICES ASSUME NEW x \in Subjects, promised[x] # NULL, x \notin doubtful' PROVE Assured(x)'
    <3>1. \A x \in Subjects : Concerned(x)' = {}
      BY <1>2, NoneFacts
    <3> QED BY <1>1, <3>1 DEF PromiseInv, InEffect, Holds
  <2>1. x \notin doubtful /\ Concerned(x) = {}
    BY DEF Crash, Concerned
  <2>2. Assured(x)
    BY <2>1 DEF JInv, PromiseInv
  <2> QED BY <1>1, <2>2 DEF Assured, Overlaid
<1>5. PromptInv'
  <2> SUFFICES ASSUME ~torn' PROVE disk \in Made
    <3>1. Made' = Made
      BY <1>1 DEF Made
    <3> QED BY <1>1, <1>2, <3>1 DEF PromptInv
  <2>1. ~torn /\ \A a \in Under : approval[a].at \notin {"manifest", "restore", "restoreManifest"}
    BY DEF Crash
  <2>2. CASE \A a \in Under : What(a).kind # "prompt"
    BY <2>1, <2>2 DEF JInv, PromptInv
  <2>3. ASSUME NEW a \in Under, What(a).kind = "prompt" PROVE disk \in Made
    <3>1. PromptAt(What(a), approval[a], disk, registry) /\ approval[a].at \in {"load", "decide"}
      BY <2>1, <2>3 DEF JInv, PromptInv, PlaceInv, InPlace, PromptPlaces
    <3> QED BY <2>3, <3>1, MadeFacts DEF PromptAt
  <2> QED BY <2>2, <2>3
<1> QED BY <1>2, <1>3, <1>4, <1>5, NoneFacts DEF JInv

LEMMA BootJ == ASSUME IInv, JInv, NEW starts \in SUBSET Plugins, Boot(starts) PROVE JInv'
<1>1. /\ ~up /\ config' = Overlaid /\ registry' = disk /\ loaded' = starts \ Overlaid.off
      /\ doubtful' = doubtful \cup (Plugins \ (starts \cup Overlaid.off))
      /\ UNCHANGED <<file, stored, disk, proposal, approval, promised, torn>>
  BY DEF Boot
<1>2. Under' = {}
  BY <1>1, DownFacts DEF Under
<1>3. Overlaid' = Overlaid
  BY <1>1 DEF Overlaid
<1>4. StoredInv'
  BY <1>1, <1>3 DEF StoredInv
<1>5. FollowInv'
  <2>1. \A p \in Plugins \ doubtful' : Follows(p)'
    BY <1>1 DEF Follows
  <2>2. States' = {}
    BY <1>2, NoneFacts
  <2> QED BY <2>1, <2>2 DEF FollowInv, Follows
<1>6. PromiseInv'
  <2>1. \A x \in Subjects : Assured(x) => Assured(x)'
    BY <1>1, <1>3 DEF Assured
  <2>2. \A x \in Subjects : Concerned(x)' = {}
    BY <1>2, NoneFacts
  <2> QED BY <1>1, <2>1, <2>2, DownFacts DEF PromiseInv, InEffect, Holds
<1>7. PromptInv'
  <2>1. Made' = Made
    BY <1>1 DEF Made
  <2> QED BY <1>1, <1>2, <2>1, DownFacts DEF PromptInv
<1> QED BY <1>2, <1>4, <1>5, <1>6, <1>7, NoneFacts DEF JInv

LEMMA InitJ == Init => JInv
<1> SUFFICES ASSUME Init PROVE JInv
  OBVIOUS
<1>1. Under = {} /\ States = {} /\ \A x \in Subjects : Concerned(x) = {}
  BY DEF Init, Under, States, Concerned
<1>2. PlaceInv /\ SettingsInv /\ AloneInv
  BY <1>1 DEF PlaceInv, SettingsInv, AloneInv
<1>3. StoredInv
  BY DEF Init, StoredInv, Overlaid
<1>4. FollowInv
  BY <1>1 DEF Init, FollowInv, Follows
<1>5. PromiseInv
  BY DEF Init, PromiseInv
<1>6. PromptInv
  BY <1>1 DEF Init, PromptInv, Made
<1> QED BY <1>2, <1>3, <1>4, <1>5, <1>6 DEF JInv

LEMMA ApprovalStepJ == ASSUME IInv, JInv, NEW a \in Approvals, ApprovalStep(a) PROVE JInv'
<1>1. CASE Record(a, "record", IF What(a).kind = "settings" THEN "components" ELSE "reload")
  BY <1>1, RecordJ
<1>2. CASE Record(a, "undoRecord", IF What(a).kind = "settings" THEN "undoComponents" ELSE "reconcile")
  BY <1>2, RecordJ
<1>3. CASE Components(a) \/ Undo(a) \/ UndoComponents(a)
  BY <1>3, ComponentsJ, UndoJ, UndoComponentsJ
<1>4. CASE Begin(a, "reload", "reloading") \/ Begin(a, "reconcile", "reconciling")
  BY <1>4, BeginJ
<1>5. CASE \E now \in SUBSET Plugins, raised \in BOOLEAN :
             ReloadDone(a, now, raised) \/ ReconcileDone(a, now, raised)
  BY <1>5, ReloadDoneJ, ReconcileDoneJ
<1>6. CASE Compensate(a) \/ WriteManifest(a) \/ Load(a) \/ RestorePart(a) \/ RestoreManifest(a)
  BY <1>6, CompensateJ, WriteManifestJ, LoadJ, RestorePartJ, RestoreManifestJ
<1>7. CASE Decide(a)
  BY <1>7, DecideJ
<1> QED BY <1>1, <1>2, <1>3, <1>4, <1>5, <1>6, <1>7 DEF ApprovalStep

LEMMA NextJ == IInv /\ JInv /\ [Next]_vars => JInv'
<1> SUFFICES ASSUME IInv, JInv, [Next]_vars PROVE JInv'
  OBVIOUS
<1>1. CASE \E i \in Proposals, what \in Offered : Propose(i, what)
  BY <1>1, ProposeJ
<1>2. CASE \E i \in Proposals : Reject(i)
  BY <1>2, RejectJ
<1>3. CASE \E a \in Approvals, i \in Proposals :
             ApproveSettings(a, i) \/ ApproveState(a, i) \/ ApprovePrompt(a, i)
  BY <1>3, ApproveSettingsJ, ApproveStateJ, ApprovePromptJ
<1>4. CASE \E a \in Approvals : ApprovalStep(a)
  BY <1>4, ApprovalStepJ
<1>5. CASE \E p \in Paths, v \in Values : Edit(p, v)
  BY <1>5, EditJ
<1>6. CASE \E starts \in SUBSET Plugins : Boot(starts)
  BY <1>6, BootJ
<1>7. CASE Crash
  BY <1>7, CrashJ
<1>8. CASE UNCHANGED vars
  BY <1>8, ProposalsStep DEF vars
<1> QED BY <1>1, <1>2, <1>3, <1>4, <1>5, <1>6, <1>7, <1>8 DEF Next

-----------------------------------------------------------------------------
\* The theorems.

LEMMA InitInv == Init => IInv
<1> SUFFICES ASSUME Init PROVE IInv
  OBVIOUS
<1>1. config \in Configs /\ file \in [Paths -> Values]
  BY ValueAssumption DEF Init, Configs
<1>2. TypeOK
  <2>1. version \in Nat /\ versions \in Seq(Configs)
    BY <1>1 DEF Init
  <2>2. stored \in [set: [Paths -> Values \cup {NULL}], off: (SUBSET Plugins) \cup {NULL}]
    BY DEF Init
  <2>3. disk \in Prompts /\ registry \in Prompts
    BY PromptAssumption DEF Init, Prompts
  <2>4. /\ proposal \in [Proposals -> {NULL} \cup Proposal]
        /\ approval \in [Approvals -> {NULL} \cup Call]
        /\ promised \in [Subjects -> {NULL} \cup Values \cup BOOLEAN]
    BY DEF Init
  <2>5. restarts \in 0..MaxRestarts /\ edits \in 0..MaxEdits
    BY BoundAssumption DEF Init
  <2>6. up \in BOOLEAN /\ torn \in BOOLEAN /\ loaded \subseteq Plugins /\ doubtful \subseteq Subjects
    BY DEF Init
  <2> QED
    BY <1>1, <2>1, <2>2, <2>3, <2>4, <2>5, <2>6 DEF TypeOK
<1>3. Known /\ OneRuns
  BY DEF Init, Known, OneRuns, Busy
<1>4. LastRow
  BY DEF Init, LastRow, Unrecorded
<1> QED
  BY <1>2, <1>3, <1>4 DEF IInv

LEMMA ApprovalStepInv == ASSUME IInv, NEW a \in Approvals, ApprovalStep(a) PROVE IInv'
<1> DEFINE to == IF What(a).kind = "settings" THEN "components" ELSE "reload"
           undone == IF What(a).kind = "settings" THEN "undoComponents" ELSE "reconcile"
<1>1. CASE Record(a, "record", to) \/ Record(a, "undoRecord", undone)
  <2>1. {to, undone} \subseteq {"components", "undoComponents", "reload", "reconcile"}
    OBVIOUS
  <2> HIDE DEF to, undone
  <2> QED
    BY <1>1, <2>1, RecordInv
<1>2. CASE Components(a) \/ Undo(a) \/ UndoComponents(a)
  BY <1>2, ComponentsInv, UndoInv, UndoComponentsInv
<1>3. CASE Begin(a, "reload", "reloading") \/ Begin(a, "reconcile", "reconciling")
  BY <1>3, BeginInv
<1>4. CASE \E now \in SUBSET Plugins, raised \in BOOLEAN :
             ReloadDone(a, now, raised) \/ ReconcileDone(a, now, raised)
  BY <1>4, ReloadDoneInv, ReconcileDoneInv
<1>5. CASE Compensate(a) \/ WriteManifest(a) \/ Load(a) \/ RestorePart(a) \/ RestoreManifest(a)
  BY <1>5, CompensateInv, WriteManifestInv, LoadInv, RestorePartInv, RestoreManifestInv
<1>6. CASE Decide(a)
  BY <1>6, DecideInv
<1> QED
  BY <1>1, <1>2, <1>3, <1>4, <1>5, <1>6 DEF ApprovalStep

LEMMA NextInv == IInv /\ [Next]_vars => IInv'
<1> SUFFICES ASSUME IInv, [Next]_vars PROVE IInv'
  OBVIOUS
<1>1. CASE \E i \in Proposals, what \in Offered : Propose(i, what)
  BY <1>1, ProposeInv
<1>2. CASE \E i \in Proposals : Reject(i)
  BY <1>2, RejectInv
<1>3. CASE \E a \in Approvals, i \in Proposals :
             ApproveSettings(a, i) \/ ApproveState(a, i) \/ ApprovePrompt(a, i)
  BY <1>3, ApproveSettingsInv, ApproveStateInv, ApprovePromptInv
<1>4. CASE \E a \in Approvals : ApprovalStep(a)
  BY <1>4, ApprovalStepInv
<1>5. CASE \E p \in Paths, v \in Values : Edit(p, v)
  BY <1>5, EditInv
<1>6. CASE \E starts \in SUBSET Plugins : Boot(starts)
  BY <1>6, BootInv
<1>7. CASE Crash
  BY <1>7, CrashInv
<1>8. CASE UNCHANGED vars
  BY <1>8 DEF vars, IInv, TypeOK, Known, OneRuns, Busy, LastRow, Unrecorded
<1> QED
  BY <1>1, <1>2, <1>3, <1>4, <1>5, <1>6, <1>7, <1>8 DEF Next

\* Rows are only added.
LEMMA RowsStay ==
  ASSUME IInv, [Next]_vars
  PROVE  \A v \in DOMAIN versions : v \in DOMAIN versions' /\ versions'[v] = versions[v]
<1>1. CASE \E v \in Nat, c \in Configs : versions' = Recorded(v, c)
  BY <1>1, AppendFacts DEF IInv
<1>2. CASE versions' = versions
  BY <1>2
<1>3. ASSUME NEW a \in Approvals, ApprovalStep(a)
      PROVE  versions' = versions \/ versions' = Recorded(version, config)
  BY <1>3 DEF ApprovalStep, Record, Components, Undo, UndoComponents, Begin, ReloadDone,
              ReconcileDone, Compensate, WriteManifest, Load, RestorePart, RestoreManifest, Decide
<1>4. ASSUME NEW starts \in SUBSET Plugins, Boot(starts)
      PROVE  versions' = Recorded(NextVersion, Overlaid) /\ NextVersion \in Nat
  BY <1>4 DEF Boot, NextVersion, IInv, TypeOK
<1>5. Overlaid \in Configs
  BY OverlaidFacts DEF IInv
<1>6. CASE \/ \E i \in Proposals, what \in Offered : Propose(i, what)
           \/ \E i \in Proposals : Reject(i)
           \/ \E a \in Approvals, i \in Proposals :
                ApproveSettings(a, i) \/ ApproveState(a, i) \/ ApprovePrompt(a, i)
           \/ \E p \in Paths, v \in Values : Edit(p, v)
           \/ Crash \/ UNCHANGED vars
  <2>1. versions' = versions
    BY <1>6 DEF Propose, Reject, ApproveSettings, ApproveState, ApprovePrompt, Edit, Crash, vars
  <2> QED
    BY <1>2, <2>1
<1>7. version \in Nat /\ config \in Configs
  BY DEF IInv, TypeOK
<1> QED
  BY <1>1, <1>2, <1>3, <1>4, <1>5, <1>6, <1>7 DEF Next

\* Settings: every value keeps its type.
THEOREM SettingsTypeCorrect == Spec => []TypeOK
<1>1. IInv => TypeOK
  BY DEF IInv
<1> QED
  BY <1>1, InitInv, NextInv, PTL DEF Spec

\* ConfigCenter: a snapshot taken at any await names a row that holds the
\* configuration in effect, and no row ever changes; whatever proposals are
\* approved side by side, fail and are undone, and wherever crashes strike.
THEOREM SnapshotsAreTrue == Spec => SnapshotsNameTheirConfig
<1>1. IInv /\ [Next]_vars /\ IInv' =>
        [/\ \A v \in DOMAIN versions : v \in DOMAIN versions' /\ versions'[v] = versions[v]
         /\ (up /\ Awaiting => RecordedAs(Snapshot))']_vars
  <2> SUFFICES ASSUME IInv, [Next]_vars, IInv', up', Awaiting'
               PROVE  (RecordedAs(Snapshot))'
    BY RowsStay
  <2>1. ~(\E a \in Approvals : Unrecorded(a))'
    BY DEF Awaiting, Unrecorded, Awaits
  <2>2. version' = Len(versions') /\ version' >= 1 /\ versions'[version'] = config'
    BY <2>1 DEF IInv, LastRow
  <2>3. version' \in DOMAIN versions'
    BY <2>2 DEF IInv, TypeOK
  <2> QED
    BY <2>2, <2>3 DEF RecordedAs, Snapshot
<1> QED
  BY <1>1, InitInv, NextInv, PTL DEF Spec, SnapshotsNameTheirConfig

\* The invariants hold of every state.
LEMMA JHolds == Spec => [](IInv /\ JInv)
  BY InitInv, NextInv, InitJ, NextJ, PTL DEF Spec

\* Control plane, prompts: unless a crash came between its two files, the prompt
\* in use is the one on disk and text and version were shipped or proposed
\* together, whatever write or load of whatever proposal raised.
THEOREM PromptsWhole == Spec => []PromptsAreWhole
<1>1. IInv /\ JInv => PromptsAreWhole
  BY DEF JInv, PromptInv, Made, PromptsAreWhole
<1> QED
  BY <1>1, JHolds, PTL

\* Control plane, plugin states: with no proposal for a plugin's state under way
\* the runtime runs exactly the plugins that the configuration does not disable,
\* after any proposals that were applied, failed and were compensated.
THEOREM RuntimeFollows == Spec => []RuntimeFollowsConfig
<1>1. IInv /\ JInv => RuntimeFollowsConfig
  BY DEF JInv, FollowInv, Follows, RuntimeFollowsConfig
<1> QED
  BY <1>1, JHolds, PTL

\* Control plane and ConfigCenter: what an applied proposal set stays in effect
\* until another is applied, over failed proposals for the same subject, restarts
\* and edits of the configuration file.
THEOREM PromisesKept == Spec => []PromisedIsInEffect
<1>1. IInv /\ JInv => PromisedIsInEffect
  <2> SUFFICES ASSUME IInv, JInv, NEW x \in Subjects, up, promised[x] # NULL, x \notin doubtful,
                      \A a \in Under : What(a).kind = "prompt" \/ What(a).of # x
               PROVE  promised[x] = IF x \in Paths THEN config.set[x] ELSE x \in config.off
    BY DEF PromisedIsInEffect
  <2>1. Concerned(x) = {}
    BY DEF Concerned
  <2>2. Assured(x)
    BY <2>1 DEF JInv, PromiseInv
  <2>3. CASE x \in Paths
    BY <2>1, <2>3, PromisedSetting
  <2>4. CASE x \notin Paths
    BY <2>2, <2>4 DEF Assured, JInv, StoredInv
  <2> QED
    BY <2>3, <2>4
<1> QED
  BY <1>1, JHolds, PTL

=============================================================================
