------------------------ MODULE PluginDeploy_proofs ------------------------
(***************************************************************************)
(* PluginDeploy for any versions, any number of deployments and restarts:  *)
(* what a deployment replaces is never lost, a restart finishes a          *)
(* deployment or undoes it, what is marked applied runs, and an install or *)
(* a rollback that fails is undone.                                        *)
(***************************************************************************)
EXTENDS PluginDeploy, WellFoundedInduction, SequenceTheorems, TLAPS

(***************************************************************************)
(* The inductive invariant.                                                *)
(***************************************************************************)

Last(table) == table[Len(table)]

\* What holds of the rows and of those kept or not committed yet: a deployment
\* refers to an earlier one, and records a backup if it replaced something.
TableInv(table, old) ==
  /\ \A d \in DOMAIN table :
       /\ table[d].prev = NULL \/ table[d].prev < d
       /\ table[d].backup = (old[d] # NULL)
       /\ table[d].status = "pending" => table[d].phase \in {"applying", "files_switched", "failed"}
  /\ table # <<>> /\ Last(table).phase = "applying" => Last(table).status = "pending"

Roll == op.kind = "rollback"

\* Steps of a rollback proposal that come after the copy of the rows.
DraftSteps == {"remove", "restore", "rolledback", "request", "reload", "applied", "compensate",
               "unguard", "copyback", "unrows", "reconcile"}

TablesInv ==
  /\ TableInv(rows, replaced) /\ TableInv(draft, replaced)
  /\ Len(draft) <= Len(rows)
  /\ phase = "files" \/ (Roll /\ pc \in DraftSteps) => Len(draft) = Len(rows)
  /\ \A d \in Deployments : d > Len(rows) => backups[d] = NULL

\* Which steps belong to which proposal.
DeploySteps == {"away", "in", "switch", "supersede", "undo", "markfailed", "settle"}
InstallSteps == {"stage", "deploy"} \cup DeploySteps

KindInv ==
  /\ pc \in InstallSteps => op.kind = "install"
  /\ pc \in {"guard", "unguard", "copyback", "unrows"} => Roll
  /\ pc \in {"stage", "deploy"} => op.version \in Versions
  /\ phase # "up" => pc = "idle"
  /\ phase = "down" => boots < MaxBoots

\* The steps of a deployment.
DeployInv ==
  /\ pc \in {"stage", "deploy"} => was.rows = rows
  /\ pc \in {"stage", "deploy"} => Len(rows) < MaxRows
  /\ pc = "deploy" => staging = op.version
  /\ pc \in DeploySteps => rows # <<>>
  /\ pc \in {"away", "in"} => staging = rows[This].version
  /\ pc \in {"switch", "supersede"} => target = rows[This].version
  /\ pc \in {"away", "in", "switch", "supersede"} =>
       /\ Len(was.rows) = Len(rows) - 1
       /\ \A d \in DOMAIN was.rows : was.rows[d] = rows[d]
  /\ pc = "supersede" => rows[This].phase = "files_switched"
  /\ pc = "settle" => rows[This].phase = "failed"
  /\ pc = "remove" => Current # NULL
  /\ pc \in {"restore", "rolledback"} => dep \in DOMAIN rows

\* The newest deployment is not finished.
Pend == rows # <<>> /\ rows[This].status = "pending"
Switched == rows[This].phase = "files_switched"
\* What it replaced is in its backup; is where it was.
Kept == replaced[This] \in {NULL, backups[This]}
Back == replaced[This] = target

BackSteps == {"away", "markfailed", "settle", "rolledback"}
\* Steps of a rollback in which the rows are not those of its approval.
TakenSteps == {"request", "reload", "compensate", "unguard", "copyback", "unrows"}

UpInv ==
  phase = "up" /\ Pend =>
    /\ backups[This] \in {NULL, replaced[This]}
    /\ pc \in BackSteps => Back
    /\ pc = "undo" => Kept \/ Back
    /\ pc \notin BackSteps \cup {"undo"} => Kept
    /\ Switched => pc = "supersede"
    /\ pc \in {"restore", "rolledback"} => dep = This
    /\ Roll => pc \notin TakenSteps

\* The same of the rows a failing rollback will put back.
DraftPend == draft # <<>> /\ Last(draft).status = "pending"

DraftInv ==
  phase = "up" /\ Roll =>
    /\ pc \in {"remove", "restore", "rolledback"} => draft = rows
    /\ pc \in TakenSteps /\ DraftPend =>
         /\ backups[This] \in {NULL, replaced[This]}
         /\ Last(draft).phase # "files_switched"
         /\ IF pc \in {"copyback", "unrows"} THEN Kept ELSE Back

\* After a crash.
BootInv ==
  phase # "up" /\ Pend =>
    /\ backups[This] \in {NULL, replaced[This]}
    /\ phase = "pending" \/ Switched => Kept
    /\ phase = "pending" /\ Switched => This \in todo
    /\ phase \in {"down", "files"} /\ Incomplete = {This} => Kept \/ Back
    /\ phase = "files" /\ Incomplete = {This} /\ This \notin todo /\ ~ Switched => Back
    /\ Switched /\ IncompleteIn(was.rows) = {} =>
         /\ Incomplete = {This} /\ todo \subseteq {This} /\ target = rows[This].version
         /\ phase = "files" => draft = rows

FilesInv ==
  phase = "files" =>
    /\ todo \subseteq Incomplete
    /\ DraftPend => Pend /\ (This \in todo \/ Switched)

\* What PutBackBackup makes of the backups.
PutBack ==
  IF target # NULL /\ TakesBackup(Guarded) THEN [backups EXCEPT ![Guarded] = target] ELSE backups

\* How a rollback can get back to what there was at its approval.
RollInv ==
  phase = "up" /\ Roll =>
    /\ pc = "guard" => target = was.target /\ backups = was.backups /\ rows = was.rows
    /\ pc \in DraftSteps \ {"applied", "reconcile"} => draft = was.rows
    /\ pc \in DraftSteps \ {"applied", "unrows", "reconcile"} => guard = was.target
    /\ pc \in {"remove", "restore", "copyback", "unrows", "reconcile"} => backups = was.backups
    /\ pc = "restore" => dep = Guarded
    /\ pc \in {"rolledback", "request", "reload", "compensate", "unguard"} => PutBack = was.backups
    /\ pc \in {"unrows", "reconcile"} => target = was.target
    /\ pc = "reconcile" => rows = was.rows

DInv ==
  /\ TypeOK /\ TablesInv /\ KindInv /\ DeployInv
  /\ UpInv /\ DraftInv /\ BootInv /\ FilesInv /\ RollInv

-----------------------------------------------------------------------------
(* Tables, and the newest deployment of a set. *)

\* A set of naturals that is not empty has a least element ...
LEMMA LeastNatural ==
  ASSUME NEW T, T \subseteq Nat, T # {}
  PROVE  \E x \in T : \A y \in T : x <= y
<1>1. IsWellFoundedOn(OpToRel(<, Nat), Nat)
  BY NatLessThanWellFounded
<1>2. PICK x \in T : \A y \in T : ~ (<<y, x>> \in OpToRel(<, Nat))
  BY <1>1, WFMin
<1>3. ASSUME NEW y \in T PROVE x <= y
  <2>1. x \in Nat /\ y \in Nat
    OBVIOUS
  <2>2. ~ (y < x)
    BY <1>2, <2>1, Zenon DEF OpToRel
  <2> QED BY <2>1, <2>2
<1> QED BY <1>2, <1>3

\* ... so Newest is the greatest deployment of a set.
LEMMA NewestFacts ==
  ASSUME NEW n \in Nat, NEW S, S \subseteq 1..n
  PROVE  /\ S = {} => Newest(S) = NULL
         /\ S # {} => Newest(S) \in S /\ \A e \in S : e <= Newest(S)
<1> SUFFICES ASSUME S # {}
             PROVE  Newest(S) \in S /\ \A e \in S : e <= Newest(S)
  BY DEF Newest
<1> DEFINE T == {n - d : d \in S}
<1>1. T \subseteq Nat /\ T # {}
  <2>1. \A d \in S : n - d \in Nat
    OBVIOUS
  <2>2. PICK d \in S : TRUE
    OBVIOUS
  <2> QED BY <2>1, <2>2, Zenon
<1>2. PICK x \in T : \A y \in T : x <= y
  <2> HIDE DEF T
  <2> QED BY <1>1, LeastNatural
<1>3. PICK m \in S : x = n - m
  BY <1>2
<1>4. ASSUME NEW e \in S PROVE e <= m
  <2>1. n - e \in T
    OBVIOUS
  <2>2. n - m <= n - e
    BY <1>2, <1>3, <2>1, Zenon
  <2>3. m \in Int /\ e \in Int
    OBVIOUS
  <2> HIDE DEF T
  <2> QED BY <2>2, <2>3
<1> QED BY <1>4, Zenon DEF Newest

\* A table of rows is a function on its deployments ...
LEMMA TableFacts ==
  ASSUME NEW table \in Seq(Row)
  PROVE  /\ Len(table) \in Nat
         /\ DOMAIN table = 1..Len(table)
         /\ table \in [1..Len(table) -> Row]
         /\ \A d \in DOMAIN table :
              /\ table[d].version \in Versions
              /\ table[d].backup \in BOOLEAN
              /\ table[d].prev \in Deployments \cup {NULL}
<1>1. Len(table) \in Nat /\ DOMAIN table = 1..Len(table) /\ table \in [1..Len(table) -> Row]
  BY LenProperties
<1>2. \A r \in Row : r.version \in Versions /\ r.backup \in BOOLEAN /\ r.prev \in Deployments \cup {NULL}
  BY DEF Row
<1>3. \A d \in DOMAIN table : table[d] \in Row
  BY <1>1
<1> QED BY <1>1, <1>2, <1>3, Zenon

\* ... and such a function is a table.
LEMMA FunctionIsTable ==
  ASSUME NEW n \in Nat, NEW table, table \in [1..n -> Row]
  PROVE  /\ table \in Seq(Row) /\ Len(table) = n /\ DOMAIN table = 1..n
<1>1. table \in Seq(Row)
  BY SeqDef, Zenon
<1>2. DOMAIN table = 1..n
  OBVIOUS
<1>3. Len(table) \in Nat /\ DOMAIN table = 1..Len(table)
  BY <1>1, LenProperties
<1> QED BY <1>1, <1>2, <1>3

Statuses == {"pending", "pending_activation", "active", "superseded", "failed", "rolled_back"}
Phases == {"applying", "files_switched", "active", "failed", "rolled_back"}

\* An update of the status and the phase of one row, which may not be there.
LEMMA SetFacts ==
  ASSUME NEW table \in Seq(Row), NEW d, NEW status \in Statuses, NEW step \in Phases
  PROVE  /\ Set(table, d, status, step) \in Seq(Row)
         /\ Len(Set(table, d, status, step)) = Len(table)
         /\ DOMAIN Set(table, d, status, step) = DOMAIN table
         /\ \A e \in DOMAIN table :
              /\ Set(table, d, status, step)[e].version = table[e].version
              /\ Set(table, d, status, step)[e].backup = table[e].backup
              /\ Set(table, d, status, step)[e].prev = table[e].prev
              /\ Set(table, d, status, step)[e].status = IF e = d THEN status ELSE table[e].status
              /\ Set(table, d, status, step)[e].phase = IF e = d THEN step ELSE table[e].phase
              /\ e # d => Set(table, d, status, step)[e] = table[e]
<1> DEFINE t == Set(table, d, status, step)
<1>1. Len(table) \in Nat /\ DOMAIN table = 1..Len(table)
  BY TableFacts
<1>2. table \in [1..Len(table) -> Row]
  BY TableFacts
<1>3. \A r \in Row : /\ [r EXCEPT !.status = status] \in Row
                     /\ [r EXCEPT !.phase = step] \in Row
  BY DEF Row, Statuses, Phases
<1>4. t \in [1..Len(table) -> Row]
  BY <1>2, <1>1, <1>3 DEF Set
<1>5. t \in Seq(Row) /\ Len(t) = Len(table) /\ DOMAIN t = DOMAIN table
  BY <1>1, <1>4, FunctionIsTable
<1>6. ASSUME NEW e \in DOMAIN table
      PROVE  /\ t[e].version = table[e].version
             /\ t[e].backup = table[e].backup
             /\ t[e].prev = table[e].prev
             /\ t[e].status = IF e = d THEN status ELSE table[e].status
             /\ t[e].phase = IF e = d THEN step ELSE table[e].phase
             /\ e # d => t[e] = table[e]
  <2>1. table[e] \in Row
    BY <1>2, <1>1
  <2> QED BY <1>2, <1>1, <2>1 DEF Set, Row, Statuses, Phases
<1> QED BY <1>5, <1>6

\* An update of the phase alone.
Phased(table, d, step) == [table EXCEPT ![d].phase = step]

LEMMA PhaseFacts ==
  ASSUME NEW table \in Seq(Row), NEW d, NEW step \in Phases
  PROVE  /\ Phased(table, d, step) \in Seq(Row)
         /\ Len(Phased(table, d, step)) = Len(table)
         /\ DOMAIN Phased(table, d, step) = DOMAIN table
         /\ \A e \in DOMAIN table :
              /\ Phased(table, d, step)[e].version = table[e].version
              /\ Phased(table, d, step)[e].backup = table[e].backup
              /\ Phased(table, d, step)[e].prev = table[e].prev
              /\ Phased(table, d, step)[e].status = table[e].status
              /\ Phased(table, d, step)[e].phase = IF e = d THEN step ELSE table[e].phase
<1> DEFINE t == [table EXCEPT ![d].phase = step]
<1>1. Len(table) \in Nat /\ DOMAIN table = 1..Len(table) /\ table \in [1..Len(table) -> Row]
  BY TableFacts
<1>2. \A r \in Row : [r EXCEPT !.phase = step] \in Row
  BY DEF Row, Phases
<1>3. t \in [1..Len(table) -> Row]
  BY <1>1, <1>2
<1>4. t \in Seq(Row) /\ Len(t) = Len(table) /\ DOMAIN t = DOMAIN table
  BY <1>1, <1>3, FunctionIsTable
<1>5. ASSUME NEW e \in DOMAIN table
      PROVE  /\ t[e].version = table[e].version /\ t[e].backup = table[e].backup
             /\ t[e].prev = table[e].prev /\ t[e].status = table[e].status
             /\ t[e].phase = IF e = d THEN step ELSE table[e].phase
  <2>1. table[e] \in Row
    BY <1>1
  <2> QED BY <1>1, <2>1 DEF Row, Phases
<1> QED BY <1>4, <1>5 DEF Phased

\* The outcome of an activation is about one row, which does not become pending.
LEMMA MarkedFacts ==
  ASSUME rows \in Seq(Row), NEW d, NEW good \in BOOLEAN
  PROVE  /\ Marked(d, good) \in Seq(Row)
         /\ Len(Marked(d, good)) = Len(rows)
         /\ DOMAIN Marked(d, good) = DOMAIN rows
         /\ \A e \in DOMAIN rows :
              /\ Marked(d, good)[e].version = rows[e].version
              /\ Marked(d, good)[e].backup = rows[e].backup
              /\ Marked(d, good)[e].prev = rows[e].prev
              /\ \/ e = d /\ Marked(d, good)[e].phase = "active" /\ Marked(d, good)[e].status = "active"
                 \/ e = d /\ Marked(d, good)[e].phase = "failed" /\ Marked(d, good)[e].status = rows[e].status
                 \/ /\ e # d /\ Marked(d, good)[e].phase = rows[e].phase
                    /\ Marked(d, good)[e].status = rows[e].status
<1>1. CASE d = NULL
  <2>1. \A e \in DOMAIN rows : e # NULL
    BY TableFacts, NullAssumption
  <2> QED BY <1>1, <2>1 DEF Marked
<1>2. CASE d # NULL /\ good
  BY <1>2, SetFacts DEF Marked, Statuses, Phases
<1>3. CASE d # NULL /\ ~ good
  <2>1. Marked(d, good) = Phased(rows, d, "failed")
    BY <1>3 DEF Marked, Phased
  <2> QED BY <2>1, PhaseFacts DEF Phases
<1> QED BY <1>1, <1>2, <1>3

\* The newest row of given statuses.
LEMMA NewestWith ==
  ASSUME NEW table \in Seq(Row), NEW S
  PROVE  LET found == {d \in DOMAIN table : table[d].status \in S}
         IN  /\ found = {} => Newest(found) = NULL
             /\ found # {} => Newest(found) \in found /\ \A e \in found : e <= Newest(found)
BY TableFacts, NewestFacts

\* The row that awaits its activation.
LEMMA AwaitingFacts ==
  ASSUME rows \in Seq(Row), Len(rows) <= MaxRows
  PROVE  /\ Awaiting \in Deployments \cup {NULL}
         /\ Awaiting # NULL => /\ Awaiting \in DOMAIN rows
                               /\ rows[Awaiting].status = "pending_activation"
<1> DEFINE found == {d \in DOMAIN rows : rows[d].status \in {"pending_activation"}}
<1>1. Awaiting = Newest(found)
  BY DEF Awaiting, With
<1>2. /\ found = {} => Newest(found) = NULL
      /\ found # {} => Newest(found) \in found /\ \A e \in found : e <= Newest(found)
  BY NewestWith
<1>3. Len(rows) \in Nat /\ DOMAIN rows = 1..Len(rows)
  BY TableFacts
<1> QED BY <1>1, <1>2, <1>3, NullAssumption, BoundAssumption DEF Deployments

\* A rollback takes back the newest row that is live or pending ...
LEMMA CurrentFacts ==
  ASSUME rows \in Seq(Row), Len(rows) <= MaxRows
  PROVE  /\ Current \in Deployments \cup {NULL}
         /\ Current # NULL => Current \in DOMAIN rows
         /\ Awaiting # NULL => Current # NULL
         /\ Pend => Current = This
<1> DEFINE found == {d \in DOMAIN rows : rows[d].status \in Live \cup {"pending"}}
<1>1. Current = Newest(found)
  BY DEF Current, With
<1>2. /\ found = {} => Newest(found) = NULL
      /\ found # {} => Newest(found) \in found /\ \A e \in found : e <= Newest(found)
  BY NewestWith
<1>3. Len(rows) \in Nat /\ DOMAIN rows = 1..Len(rows)
  BY TableFacts
<1>4. Pend => Len(rows) \in found
  BY <1>3, EmptySeq DEF Pend, This, Live
<1>5. found \subseteq 1..Len(rows)
  BY <1>3
<1> HIDE DEF found
<1>6. Current # NULL => found # {} /\ Current \in 1..Len(rows)
  BY <1>1, <1>2, <1>5, Zenon
<1>7. Pend => Len(rows) <= Current /\ Current # NULL
  <2>1. Pend => found # {} /\ Len(rows) <= Newest(found) /\ Newest(found) \in 1..Len(rows)
    BY <1>2, <1>4, <1>5, Zenon
  <2>2. \A d \in 1..Len(rows) : d \in Nat
    BY <1>3
  <2> QED BY <1>1, <2>1, <2>2, NullAssumption, Zenon
<1>8. Awaiting # NULL => Current # NULL
  <2>1. Awaiting # NULL => Awaiting \in DOMAIN rows /\ rows[Awaiting].status = "pending_activation"
    BY AwaitingFacts, Zenon
  <2>2. Awaiting # NULL => Awaiting \in found
    BY <2>1 DEF found, Live
  <2>3. \A d \in 1..Len(rows) : d \in Nat
    BY <1>3
  <2> QED BY <1>1, <1>2, <1>5, <2>2, <2>3, NullAssumption, Zenon
<1> QED BY <1>3, <1>6, <1>7, <1>8, BoundAssumption DEF Deployments, This

\* ... and a failing rollback puts back the backup of the one it kept.
LEMMA GuardedFacts ==
  ASSUME draft \in Seq(Row), Len(draft) <= MaxRows
  PROVE  /\ Guarded \in Deployments \cup {NULL}
         /\ Guarded # NULL => Guarded \in DOMAIN draft
         /\ DraftPend => Guarded = Len(draft)
         /\ draft = rows => Guarded = Current
<1> DEFINE found == {d \in DOMAIN draft : draft[d].status \in Live \cup {"pending"}}
<1>1. Guarded = Newest(found)
  BY DEF Guarded
<1>2. /\ found = {} => Newest(found) = NULL
      /\ found # {} => Newest(found) \in found /\ \A e \in found : e <= Newest(found)
  BY NewestWith
<1>3. Len(draft) \in Nat /\ DOMAIN draft = 1..Len(draft)
  BY TableFacts
<1>4. DraftPend => Len(draft) \in found
  BY <1>3, EmptySeq DEF DraftPend, Last, Live
<1>5. draft = rows => Guarded = Current
  BY DEF Guarded, Current, With
<1>6. found \subseteq 1..Len(draft)
  BY <1>3
<1> HIDE DEF found
<1>7. Guarded # NULL => found # {} /\ Guarded \in 1..Len(draft)
  BY <1>1, <1>2, <1>6, Zenon
<1>8. DraftPend => Len(draft) <= Guarded /\ Guarded # NULL
  <2>1. DraftPend => found # {} /\ Len(draft) <= Newest(found) /\ Newest(found) \in 1..Len(draft)
    BY <1>2, <1>4, <1>6, Zenon
  <2>2. \A d \in 1..Len(draft) : d \in Nat
    BY <1>3
  <2> QED BY <1>1, <2>1, <2>2, NullAssumption, Zenon
<1> QED BY <1>3, <1>5, <1>7, <1>8, BoundAssumption DEF Deployments

\* An update of statuses and phases that makes no row pending.
LEMMA TableInvUpdate ==
  ASSUME NEW old, NEW t \in Seq(Row), NEW u \in Seq(Row), TableInv(t, old), Len(u) = Len(t),
         \A d \in DOMAIN t :
           /\ u[d].prev = t[d].prev /\ u[d].backup = t[d].backup
           /\ u[d].status = "pending" =>
                t[d].status = "pending" /\ u[d].phase \in {t[d].phase, "files_switched", "failed"}
           /\ u[d].phase = "applying" /\ d = Len(t) =>
                t[d].phase = "applying" /\ u[d].status = t[d].status
  PROVE  TableInv(u, old)
<1>1. Len(t) \in Nat /\ DOMAIN t = 1..Len(t) /\ DOMAIN u = DOMAIN t
  BY TableFacts
<1>2. u # <<>> => t # <<>> /\ Len(t) \in DOMAIN t
  BY <1>1, EmptySeq
<1> QED BY <1>1, <1>2 DEF TableInv, Last

\* What a rollback, or a recovery, writes: one row is taken back and the one it
\* followed awaits its activation again.
TakenFrom(table, d, prev, status) ==
  LET t == Set(table, d, status, status)
  IN  IF prev = NULL THEN t ELSE Set(t, prev, "pending_activation", "files_switched")

LEMMA TakenFromFacts ==
  ASSUME NEW table \in Seq(Row), NEW d, NEW prev, NEW status \in {"failed", "rolled_back"}
  PROVE  /\ TakenFrom(table, d, prev, status) \in Seq(Row)
         /\ Len(TakenFrom(table, d, prev, status)) = Len(table)
         /\ DOMAIN TakenFrom(table, d, prev, status) = DOMAIN table
         /\ \A e \in DOMAIN table :
              /\ TakenFrom(table, d, prev, status)[e].version = table[e].version
              /\ TakenFrom(table, d, prev, status)[e].backup = table[e].backup
              /\ TakenFrom(table, d, prev, status)[e].prev = table[e].prev
              /\ TakenFrom(table, d, prev, status)[e].status =
                   IF e = prev THEN "pending_activation" ELSE IF e = d THEN status ELSE table[e].status
              /\ TakenFrom(table, d, prev, status)[e].phase =
                   IF e = prev THEN "files_switched" ELSE IF e = d THEN status ELSE table[e].phase
<1> DEFINE t == Set(table, d, status, status)
<1>1. status \in Statuses /\ status \in Phases /\ "pending_activation" \in Statuses /\ "files_switched" \in Phases
  BY DEF Statuses, Phases
<1>2. /\ t \in Seq(Row) /\ Len(t) = Len(table) /\ DOMAIN t = DOMAIN table
      /\ \A e \in DOMAIN table :
           /\ t[e].version = table[e].version /\ t[e].backup = table[e].backup /\ t[e].prev = table[e].prev
           /\ t[e].status = IF e = d THEN status ELSE table[e].status
           /\ t[e].phase = IF e = d THEN status ELSE table[e].phase
  BY <1>1, SetFacts
<1>3. \A e \in DOMAIN table : e # NULL
  BY TableFacts, NullAssumption
<1>4. TakenFrom(table, d, prev, status) =
        IF prev = NULL THEN t ELSE Set(t, prev, "pending_activation", "files_switched")
  BY DEF TakenFrom
<1> HIDE DEF t
<1>5. CASE prev = NULL
  BY <1>2, <1>3, <1>4, <1>5
<1>6. CASE prev # NULL
  <2> DEFINE u == Set(t, prev, "pending_activation", "files_switched")
  <2>1. /\ u \in Seq(Row) /\ Len(u) = Len(t) /\ DOMAIN u = DOMAIN t
        /\ \A e \in DOMAIN t :
             /\ u[e].version = t[e].version /\ u[e].backup = t[e].backup /\ u[e].prev = t[e].prev
             /\ u[e].status = IF e = prev THEN "pending_activation" ELSE t[e].status
             /\ u[e].phase = IF e = prev THEN "files_switched" ELSE t[e].phase
    BY <1>1, <1>2, SetFacts
  <2>2. TakenFrom(table, d, prev, status) = u
    BY <1>4, <1>6
  <2> HIDE DEF u
  <2> QED BY <1>2, <2>1, <2>2
<1> QED BY <1>5, <1>6

-----------------------------------------------------------------------------
(* What the invariant says of the tables and of the rows the code looks up. *)

TablesKnown ==
  /\ rows \in Seq(Row) /\ Len(rows) \in Nat /\ DOMAIN rows = 1..Len(rows)
  /\ draft \in Seq(Row) /\ Len(draft) \in Nat /\ DOMAIN draft = 1..Len(draft)
  /\ DOMAIN rows \subseteq Deployments /\ DOMAIN draft \subseteq DOMAIN rows
  /\ rows # <<>> => This \in DOMAIN rows
  /\ draft # <<>> => Len(draft) \in DOMAIN draft
  /\ \A d \in DOMAIN rows :
       /\ rows[d].version \in Versions /\ rows[d].backup \in BOOLEAN
       /\ rows[d].prev \in Deployments \cup {NULL}

CurrentKnown ==
  /\ Current \in Deployments \cup {NULL}
  /\ Current # NULL => Current \in DOMAIN rows
  /\ Awaiting \in Deployments \cup {NULL}
  /\ Awaiting # NULL => Current # NULL
  /\ Pend => Current = This

GuardedKnown ==
  /\ Guarded \in Deployments \cup {NULL}
  /\ Guarded # NULL => Guarded \in DOMAIN draft
  /\ DraftPend => Guarded = Len(draft)
  /\ draft = rows => Guarded = Current

LEMMA Tables == ASSUME DInv PROVE TablesKnown
<1>1. /\ rows \in Seq(Row) /\ draft \in Seq(Row)
      /\ Len(rows) <= MaxRows /\ Len(draft) <= Len(rows)
  BY DEF DInv, TypeOK, TablesInv
<1>2. /\ Len(rows) \in Nat /\ DOMAIN rows = 1..Len(rows)
      /\ Len(draft) \in Nat /\ DOMAIN draft = 1..Len(draft)
  BY <1>1, TableFacts
<1>3. \A d \in DOMAIN rows : /\ rows[d].version \in Versions
                             /\ rows[d].backup \in BOOLEAN
                             /\ rows[d].prev \in Deployments \cup {NULL}
  BY <1>1, TableFacts, Zenon
<1>4. /\ rows # <<>> => Len(rows) \in Nat \ {0}
      /\ draft # <<>> => Len(draft) \in Nat \ {0}
  BY <1>1, EmptySeq
<1>5. DOMAIN rows \subseteq Deployments /\ DOMAIN draft \subseteq DOMAIN rows
  BY <1>1, <1>2, BoundAssumption DEF Deployments
<1>6. /\ rows # <<>> => This \in DOMAIN rows
      /\ draft # <<>> => Len(draft) \in DOMAIN draft
  BY <1>2, <1>4 DEF This
<1> QED BY <1>1, <1>2, <1>3, <1>5, <1>6, Zenon DEF TablesKnown

LEMMA CurrentRow == ASSUME DInv PROVE CurrentKnown
<1>1. rows \in Seq(Row) /\ Len(rows) <= MaxRows
  BY DEF DInv, TypeOK
<1> QED BY <1>1, CurrentFacts, AwaitingFacts, Zenon DEF CurrentKnown

LEMMA GuardedRow == ASSUME DInv PROVE GuardedKnown
<1>1. /\ rows \in Seq(Row) /\ draft \in Seq(Row)
      /\ Len(rows) <= MaxRows /\ Len(draft) <= Len(rows)
  BY DEF DInv, TypeOK, TablesInv
<1>2. Len(rows) \in Nat /\ Len(draft) \in Nat
  BY <1>1, TableFacts
<1>3. Len(draft) <= MaxRows
  BY <1>1, <1>2, BoundAssumption
<1> QED BY <1>1, <1>3, GuardedFacts, Zenon DEF GuardedKnown

\* A recovery looks at a row it has yet to look at.
LEMMA NewestTodo == ASSUME DInv, NEW d \in Deployments, d = Newest(todo) PROVE d \in todo
<1>1. todo \subseteq 1..MaxRows /\ MaxRows \in Nat
  BY BoundAssumption DEF DInv, TypeOK, Deployments
<1>2. d # NULL
  BY NullAssumption DEF Deployments
<1> QED BY <1>1, <1>2, NewestFacts

\* Approval remembers the disk and the rows.
LEMMA ApproveDInv ==
  ASSUME DInv, NEW kind \in {"install", "rollback"}, NEW v \in Package,
         kind = "install" => v \in Versions, Approve(kind, v) PROVE DInv'
<1>1. TablesKnown
  BY Tables
<1>2. TypeOK'
  BY DEF DInv, TypeOK, Package, Steps, Approve, Goto, disk
<1>3. TablesInv'
  BY DEF DInv, TablesInv, Roll, DraftSteps, Approve, Goto, disk
<1>4. KindInv'
  BY DEF KindInv, InstallSteps, DeploySteps, Roll, Approve, Goto, disk
<1>5. DeployInv'
  BY DEF DeployInv, DeploySteps, This, Approve, Goto, disk
<1>6. UpInv'
  BY DEF DInv, UpInv, Pend, Switched, Kept, Back, This, BackSteps, TakenSteps, Roll, Approve,
     Goto, disk
<1>7. DraftInv'
  BY DEF DraftInv, DraftPend, Last, Kept, Back, This, TakenSteps, Roll, Approve, Goto, disk
<1>8. BootInv' /\ FilesInv'
  BY DEF BootInv, Approve, Goto, disk, FilesInv
<1>9. RollInv'
  BY DEF RollInv, Roll, DraftSteps, PutBack, TakesBackup, Approve, Goto, disk
<1> QED BY <1>2, <1>3, <1>4, <1>5, <1>6, <1>7, <1>8, <1>9 DEF DInv

LEMMA CandidateChangedDInv == ASSUME DInv, CandidateChanged PROVE DInv'
<1>1. TypeOK'
  BY DEF DInv, TypeOK, Package, Steps, CandidateChanged, Goto, Keep, disk, local, history
<1>2. TablesInv'
  BY DEF DInv, TablesInv, Roll, DraftSteps, CandidateChanged, Goto, Keep, disk, local, history,
     KindInv, InstallSteps, DeploySteps
<1>3. KindInv'
  BY DEF KindInv, InstallSteps, DeploySteps, Roll, CandidateChanged, Goto, Keep, disk, local,
     history
<1>4. DeployInv'
  BY DEF DeployInv, DeploySteps, This, CandidateChanged, Goto, Keep, disk, local, history
<1>5. UpInv'
  BY DEF DInv, UpInv, Pend, Switched, Kept, This, BackSteps, Roll, CandidateChanged, Goto, Keep,
     disk, local, history, KindInv, InstallSteps, DeploySteps
<1>6. DraftInv' /\ RollInv'
  BY DEF DInv, DraftInv, Roll, CandidateChanged, Goto, Keep, local, KindInv, InstallSteps,
     DeploySteps, RollInv
<1>7. BootInv' /\ FilesInv'
  BY DEF BootInv, CandidateChanged, Goto, Keep, disk, local, history, FilesInv
<1> QED BY <1>1, <1>2, <1>3, <1>4, <1>5, <1>6, <1>7 DEF DInv

LEMMA StageDInv == ASSUME DInv, Stage PROVE DInv'
<1>1. TypeOK'
  BY DEF DInv, TypeOK, Package, Steps, Stage, Goto, Keep, local, history
<1>2. TablesInv'
  BY DEF DInv, TablesInv, Roll, DraftSteps, Stage, Goto, Keep, local, history
<1>3. KindInv'
  BY DEF DInv, KindInv, InstallSteps, DeploySteps, Roll, Stage, Goto, Keep, local, history
<1>4. DeployInv'
  BY DEF DInv, DeployInv, DeploySteps, This, Stage, Goto, Keep, local, history
<1>5. UpInv'
  BY DEF DInv, UpInv, Pend, Switched, Kept, This, BackSteps, TakenSteps, Stage, Goto, Keep,
     local, history
<1>6. DraftInv'
  BY DEF DraftInv, DraftPend, Last, Kept, Back, This, TakenSteps, Roll, Stage, Goto, Keep,
     local, history
<1>7. BootInv' /\ FilesInv'
  BY DEF BootInv, Stage, Goto, Keep, local, history, FilesInv
<1>8. RollInv'
  BY DEF RollInv, Roll, DraftSteps, PutBack, TakesBackup, Stage, Goto, Keep, local, history
<1> QED BY <1>1, <1>2, <1>3, <1>4, <1>5, <1>6, <1>7, <1>8 DEF DInv

LEMMA DeployAgainDInv == ASSUME DInv, DeployAgain PROVE DInv'
<1>1. TypeOK'
  BY DEF DInv, TypeOK, Package, Steps, DeployAgain, Goto, Keep, local, history
<1>2. TablesInv'
  BY DEF DInv, TablesInv, Roll, DraftSteps, DeployAgain, Goto, Keep, local, history, KindInv,
     InstallSteps, DeploySteps
<1>3. KindInv'
  BY DEF KindInv, InstallSteps, DeploySteps, Roll, DeployAgain, Goto, Keep, local, history
<1>4. DeployInv'
  BY DEF DeployInv, DeploySteps, This, DeployAgain, Goto, Keep, local, history
<1>5. UpInv'
  BY DEF DInv, UpInv, Pend, Switched, Kept, This, BackSteps, Roll, DeployAgain, Goto, Keep,
     local, history, KindInv, InstallSteps, DeploySteps
<1>6. DraftInv'
  BY DEF DInv, DraftInv, Roll, DeployAgain, Goto, Keep, local, KindInv, InstallSteps,
     DeploySteps
<1>7. BootInv' /\ FilesInv'
  BY DEF BootInv, DeployAgain, Goto, Keep, local, history, FilesInv
<1>8. RollInv'
  BY DEF DInv, RollInv, Roll, DraftSteps, PutBack, TakesBackup, DeployAgain, Goto, Keep, local,
     history, KindInv, InstallSteps, DeploySteps
<1> QED BY <1>1, <1>2, <1>3, <1>4, <1>5, <1>6, <1>7, <1>8 DEF DInv

\* The new row is pending, with what it replaces in the target.
LEMMA InsertDeploymentDInv == ASSUME DInv, InsertDeployment PROVE DInv'
<1>1. TablesKnown
  BY Tables
<1>2. PICK prev \in DOMAIN rows \cup {NULL} : rows' = Inserted(op.version, target # NULL, prev)
  <2>1. \A found : found \subseteq 1..Len(rows) => Newest(found) \in 1..Len(rows) \cup {NULL}
    BY <1>1, NewestFacts DEF TablesKnown
  <2>2. With(Live) \subseteq 1..Len(rows)
    BY <1>1 DEF TablesKnown, With
  <2> QED BY <1>1, <2>1, <2>2 DEF InsertDeployment, TablesKnown
<1> DEFINE row == [version |-> op.version, status |-> "pending", phase |-> "applying",
                   backup |-> target # NULL, prev |-> prev]
<1>3. row \in Row
  BY <1>1 DEF DInv, KindInv, Row, TablesKnown, InsertDeployment, Goto
<1>4. /\ rows' \in Seq(Row) /\ Len(rows') = Len(rows) + 1 /\ DOMAIN rows' = 1..(Len(rows) + 1)
      /\ \A e \in DOMAIN rows : rows'[e] = rows[e]
      /\ rows'[Len(rows) + 1] = row
      /\ rows' # <<>>
  BY <1>1, <1>2, <1>3, AppendProperties DEF TablesKnown, Inserted
<1>5. /\ row.version = op.version /\ row.status = "pending" /\ row.phase = "applying"
      /\ row.backup = (target # NULL) /\ row.prev = prev
  OBVIOUS
<1> HIDE DEF row
<1>6. /\ phase = "up" /\ pc = "deploy" /\ pc' = IF target # NULL THEN "away" ELSE "in"
      /\ replaced' = [replaced EXCEPT ![Len(rows) + 1] = target]
      /\ UNCHANGED <<disk, running, reports, local, phase, boots, todo, was>>
  BY DEF InsertDeployment, Goto
<1>7. Len(rows) < MaxRows /\ Len(rows) + 1 \in Deployments /\ op.version \in Versions
  BY <1>1, <1>6, BoundAssumption DEF DInv, DeployInv, KindInv, TablesKnown, Deployments
<1>8. /\ \A d \in DOMAIN rows : replaced'[d] = replaced[d]
      /\ replaced'[Len(rows) + 1] = target /\ replaced' \in [Deployments -> Package]
  BY <1>1, <1>6, <1>7 DEF DInv, TypeOK, TablesKnown, Deployments
<1>9. TypeOK'
  <2>1. rows' \in Seq(Row) /\ Len(rows') <= MaxRows
    BY <1>1, <1>4, <1>7, BoundAssumption DEF TablesKnown
  <2>2. pc' \in Steps
    BY <1>6 DEF Steps
  <2> QED BY <1>6, <1>8, <2>1, <2>2 DEF DInv, TypeOK, local, disk
<1>10. TablesInv'
  <2>1. TableInv(rows, replaced)'
    <3>1. \A d \in DOMAIN rows : TableInv(rows, replaced) =>
             /\ rows[d].prev = NULL \/ rows[d].prev < d
             /\ rows[d].backup = (replaced[d] # NULL)
             /\ rows[d].status = "pending" => rows[d].phase \in {"applying", "files_switched", "failed"}
      BY DEF TableInv
    <3>2. ASSUME NEW d \in DOMAIN rows'
          PROVE  /\ rows'[d].prev = NULL \/ rows'[d].prev < d
                 /\ rows'[d].backup = (replaced'[d] # NULL)
                 /\ rows'[d].status = "pending" => rows'[d].phase \in {"applying", "files_switched", "failed"}
      <4>1. CASE d \in DOMAIN rows
        BY <1>4, <1>8, <3>1, <4>1 DEF DInv, TablesInv
      <4>2. CASE d = Len(rows) + 1
        BY <1>1, <1>4, <1>5, <1>8, <4>2 DEF TablesKnown
      <4> QED BY <1>1, <1>4, <4>1, <4>2 DEF TablesKnown
    <3> QED BY <1>4, <1>5, <3>2 DEF TableInv, Last
  <2>2. TableInv(draft, replaced)'
    <3>1. draft' = draft /\ \A d \in DOMAIN draft : replaced'[d] = replaced[d]
      BY <1>1, <1>6, <1>8 DEF local, TablesKnown
    <3> QED BY <3>1 DEF DInv, TablesInv, TableInv
  <2>3. Len(draft') <= Len(rows') /\ \A d \in Deployments : d > Len(rows') => backups'[d] = NULL
    <3>1. draft' = draft /\ backups' = backups
      BY <1>6 DEF local, disk
    <3>2. Len(draft) <= Len(rows) /\ \A d \in Deployments : d > Len(rows) => backups[d] = NULL
      BY DEF DInv, TablesInv
    <3> QED BY <1>1, <1>4, <3>1, <3>2 DEF TablesKnown, Deployments
  <2>4. ~ (phase' = "files" \/ (Roll' /\ pc' \in DraftSteps))
    BY <1>6 DEF DraftSteps
  <2> QED BY <2>1, <2>2, <2>3, <2>4 DEF TablesInv
<1>11. KindInv'
  BY <1>1, <1>2, <1>4, <1>5, <1>6, <1>7, <1>8
     DEF DInv, KindInv, InstallSteps, DeploySteps, Roll, Goto, disk, local
<1>12. DeployInv'
  <2>1. was.rows = rows /\ staging = op.version
    BY <1>6 DEF DInv, DeployInv
  <2>2. pc' \in {"away", "in"} /\ was' = was /\ staging' = staging /\ This' = Len(rows) + 1
    BY <1>4, <1>6 DEF disk, This
  <2> QED BY <1>1, <1>4, <1>5, <2>1, <2>2 DEF DeployInv, TablesKnown
<1>13. UpInv'
  <2>1. This' = Len(rows) + 1 /\ target' = target /\ backups' = backups /\ pc' = IF target # NULL THEN "away" ELSE "in"
    BY <1>4, <1>6 DEF disk, This
  <2>2. backups[Len(rows) + 1] = NULL
    <3>1. \A d \in Deployments : d > Len(rows) => backups[d] = NULL
      BY DEF DInv, TablesInv
    <3>2. Len(rows) \in Nat
      BY <1>1 DEF TablesKnown
    <3> QED BY <1>7, <3>1, <3>2
  <2>3. replaced'[This'] = target /\ ~ Switched' /\ op'.kind # "rollback"
    BY <1>4, <1>5, <1>6, <1>8, <2>1 DEF Switched, local, DInv, KindInv, InstallSteps
  <2> QED BY <2>1, <2>2, <2>3 DEF UpInv, BackSteps, Kept, Back, Roll
<1>14. DraftInv'
  BY <1>1, <1>2, <1>4, <1>5, <1>6, <1>7, <1>8
     DEF DraftInv, DraftPend, Last, Kept, Back, This, TakenSteps, Roll, Goto, disk, local
<1>15. BootInv' /\ FilesInv'
  BY <1>1, <1>2, <1>4, <1>5, <1>6, <1>7, <1>8 DEF BootInv, Goto, disk, local, FilesInv
<1>16. RollInv'
  BY <1>1, <1>2, <1>4, <1>5, <1>6, <1>7, <1>8
     DEF RollInv, Roll, DraftSteps, PutBack, TakesBackup, Goto, disk, local
<1> QED BY <1>9, <1>10, <1>11, <1>12, <1>13, <1>14, <1>15, <1>16 DEF DInv

\* What is replaced goes to the backup ...
LEMMA MoveAwayDInv == ASSUME DInv, MoveAway PROVE DInv'
<1>1. TypeOK'
  BY DEF DInv, TypeOK, Package, Steps, MoveAway, Goto, Keep, local, history
<1>2. TablesInv'
  BY DEF DInv, TablesInv, DraftSteps, MoveAway, Goto, Keep, local, history, This
<1>3. KindInv'
  BY DEF DInv, KindInv, InstallSteps, DeploySteps, Roll, MoveAway, Goto, Keep, local, history
<1>4. DeployInv'
  BY DEF DInv, DeployInv, DeploySteps, This, MoveAway, Goto, Keep, local, history
<1>5. UpInv'
  BY DEF DInv, UpInv, Pend, Switched, Kept, Back, This, BackSteps, TakenSteps, MoveAway, Goto,
     Keep, local, history, TypeOK, Deployments
<1>6. DraftInv'
  BY DEF DraftInv, DraftPend, Last, Kept, Back, This, TakenSteps, Roll, MoveAway, Goto, Keep,
     local, history
<1>7. BootInv' /\ FilesInv'
  BY DEF BootInv, MoveAway, Goto, Keep, local, history, FilesInv
<1>8. RollInv'
  BY DEF RollInv, Roll, DraftSteps, PutBack, TakesBackup, MoveAway, Goto, Keep, local, history
<1> QED BY <1>1, <1>2, <1>3, <1>4, <1>5, <1>6, <1>7, <1>8 DEF DInv

\* ... and the staged package takes its place.
LEMMA MoveInDInv == ASSUME DInv, MoveIn PROVE DInv'
<1>1. TypeOK'
  BY DEF DInv, TypeOK, Package, Steps, MoveIn, Goto, Keep, local, history
<1>2. TablesInv'
  BY DEF DInv, TablesInv, Roll, DraftSteps, MoveIn, Goto, Keep, local, history
<1>3. KindInv'
  BY DEF DInv, KindInv, InstallSteps, DeploySteps, Roll, MoveIn, Goto, Keep, local, history
<1>4. DeployInv'
  BY DEF DInv, DeployInv, DeploySteps, This, MoveIn, Goto, Keep, local, history
<1>5. UpInv'
  BY DEF DInv, UpInv, Pend, Switched, Kept, This, BackSteps, TakenSteps, MoveIn, Goto, Keep,
     local, history
<1>6. DraftInv'
  BY DEF DraftInv, DraftPend, Last, Kept, Back, This, TakenSteps, Roll, MoveIn, Goto, Keep,
     local, history
<1>7. BootInv' /\ FilesInv'
  BY DEF BootInv, MoveIn, Goto, Keep, local, history, FilesInv
<1>8. RollInv'
  BY DEF RollInv, Roll, DraftSteps, PutBack, TakesBackup, MoveIn, Goto, Keep, local, history
<1> QED BY <1>1, <1>2, <1>3, <1>4, <1>5, <1>6, <1>7, <1>8 DEF DInv

LEMMA FilesSwitchedDInv == ASSUME DInv, FilesSwitched PROVE DInv'
<1>1. rows' = Phased(rows, This, "files_switched")
  BY DEF FilesSwitched, Phased
<1>2. /\ rows' \in Seq(Row) /\ Len(rows') = Len(rows) /\ DOMAIN rows' = DOMAIN rows
      /\ \A e \in DOMAIN rows :
           /\ rows'[e].version = rows[e].version /\ rows'[e].backup = rows[e].backup
           /\ rows'[e].prev = rows[e].prev /\ rows'[e].status = rows[e].status
           /\ rows'[e].phase = IF e = This THEN "files_switched" ELSE rows[e].phase
  BY <1>1, PhaseFacts DEF DInv, TypeOK, Phases
<1>3. rows # <<>> => rows' # <<>> /\ Len(rows) \in Nat \ {0}
  BY <1>2, EmptySeq DEF DInv, TypeOK
<1>4. Len(rows) \in Nat /\ DOMAIN rows = 1..Len(rows)
  BY TableFacts DEF DInv, TypeOK
<1>5. TypeOK'
  BY <1>2, <1>3, <1>4
     DEF DInv, TypeOK, Package, Steps, FilesSwitched, Goto, Keep, disk, local, history
<1>6. TablesInv'
  <2>1. TableInv(rows, replaced)'
    <3>1. rows \in Seq(Row) /\ TableInv(rows, replaced)
      BY DEF DInv, TypeOK, TablesInv
    <3>2. \A d \in DOMAIN rows :
           /\ rows'[d].prev = rows[d].prev /\ rows'[d].backup = rows[d].backup
           /\ rows'[d].status = "pending" =>
                rows[d].status = "pending" /\ rows'[d].phase \in {rows[d].phase, "files_switched", "failed"}
           /\ rows'[d].phase = "applying" /\ d = Len(rows) =>
                rows[d].phase = "applying" /\ rows'[d].status = rows[d].status
      BY <1>2, <1>3, <1>4 DEF This
    <3>3. replaced' = replaced
      BY DEF FilesSwitched, Keep, history
    <3> QED BY <3>1, <3>2, <3>3, <1>2, <1>3, <1>4, TableInvUpdate
  <2>2. /\ TableInv(draft, replaced)' /\ Len(draft') <= Len(rows')
        /\ \A d \in Deployments : d > Len(rows') => backups'[d] = NULL
    BY <1>2, <1>3, <1>4 DEF DInv, TablesInv, FilesSwitched, Keep, local, history, disk
  <2>3. phase' = "up" /\ pc' \notin DraftSteps \ {"request", "compensate"} /\ op' = op /\ op.kind = "install"
    BY DEF FilesSwitched, Goto, Keep, local, DraftSteps, DInv, KindInv, InstallSteps, DeploySteps
  <2> QED BY <2>1, <2>2, <2>3 DEF TablesInv, Roll
<1>7. KindInv'
  BY DEF DInv, KindInv, InstallSteps, DeploySteps, Roll, FilesSwitched, Goto, Keep, disk, local,
     history
<1>8. DeployInv'
  BY DEF DInv, DeployInv, This, FilesSwitched, Goto, Keep, disk, local, history, TypeOK
<1>9. UpInv'
  BY DEF DInv, UpInv, Pend, Kept, Back, This, BackSteps, TakenSteps, FilesSwitched, Goto, Keep,
     disk, local, history
<1>10. DraftInv'
  BY DEF DraftInv, DraftPend, Last, Kept, Back, This, TakenSteps, Roll, FilesSwitched, Goto,
     Keep, disk, local, history
<1>11. BootInv' /\ FilesInv'
  BY DEF BootInv, FilesSwitched, Goto, Keep, disk, local, history, FilesInv
<1>12. RollInv'
  BY DEF RollInv, Roll, DraftSteps, PutBack, TakesBackup, FilesSwitched, Goto, Keep, disk,
     local, history
<1> QED BY <1>5, <1>6, <1>7, <1>8, <1>9, <1>10, <1>11, <1>12 DEF DInv

LEMMA SupersedeDInv == ASSUME DInv, Supersede PROVE DInv'
<1>1. Len(rows) \in Nat /\ DOMAIN rows = 1..Len(rows) /\ rows \in [1..Len(rows) -> Row]
  BY TableFacts DEF DInv, TypeOK
<1>2. rows' \in [1..Len(rows) -> Row]
  BY <1>1 DEF Supersede, Row
<1>3. rows' \in Seq(Row) /\ Len(rows') = Len(rows) /\ DOMAIN rows' = DOMAIN rows
  BY <1>1, <1>2, FunctionIsTable
<1>4. \A e \in DOMAIN rows :
        /\ rows'[e].version = rows[e].version /\ rows'[e].backup = rows[e].backup
        /\ rows'[e].prev = rows[e].prev /\ rows'[e].phase = rows[e].phase
        /\ rows'[e].status = IF e = This THEN "pending_activation"
                            ELSE IF e \in Superseded THEN "superseded" ELSE rows[e].status
  BY <1>1 DEF Supersede, Row
<1>5. TypeOK'
  BY <1>1, <1>3, <1>4
     DEF DInv, TypeOK, Package, Steps, Supersede, Goto, Keep, disk, local, history, Superseded,
        With, Live
<1>6. TablesInv'
  <2>1. TableInv(rows, replaced)'
    <3>1. rows \in Seq(Row) /\ TableInv(rows, replaced)
      BY DEF DInv, TypeOK, TablesInv
    <3>2. rows[This].phase = "files_switched"
      BY DEF Supersede, Goto, DInv, DeployInv
    <3>3. \A d \in DOMAIN rows :
           /\ rows'[d].prev = rows[d].prev /\ rows'[d].backup = rows[d].backup
           /\ rows'[d].status = "pending" =>
                rows[d].status = "pending" /\ rows'[d].phase \in {rows[d].phase, "files_switched", "failed"}
           /\ rows'[d].phase = "applying" /\ d = Len(rows) =>
                rows[d].phase = "applying" /\ rows'[d].status = rows[d].status
      BY <1>1, <1>3, <1>4, <3>2 DEF This
    <3>4. replaced' = replaced
      BY DEF Supersede, Keep, history
    <3> QED BY <3>1, <3>3, <3>4, <1>1, <1>3, <1>4, TableInvUpdate
  <2>2. /\ TableInv(draft, replaced)' /\ Len(draft') <= Len(rows')
        /\ \A d \in Deployments : d > Len(rows') => backups'[d] = NULL
    BY <1>1, <1>3, <1>4 DEF DInv, TablesInv, Supersede, Keep, local, history, disk
  <2>3. phase' = "up" /\ pc' \notin DraftSteps \ {"request", "compensate"} /\ op' = op /\ op.kind = "install"
    BY DEF Supersede, Goto, Keep, local, DraftSteps, DInv, KindInv, InstallSteps, DeploySteps
  <2> QED BY <2>1, <2>2, <2>3 DEF TablesInv, Roll
<1>7. KindInv'
  BY DEF KindInv, InstallSteps, DeploySteps, Roll, Supersede, Goto, Keep, disk, local, history,
     Superseded, With, Live
<1>8. DeployInv'
  BY DEF DeployInv, DeploySteps, This, Supersede, Goto, Keep, disk, local, history, Superseded,
     With, Live
<1>9. UpInv'
  BY DEF UpInv, Pend, This, Supersede, Goto, Keep, local, Superseded, With, Live
<1>10. DraftInv' /\ RollInv'
  BY DEF DInv, DraftInv, Roll, Supersede, Goto, Keep, local, Superseded, With, Live, KindInv,
     InstallSteps, DeploySteps, RollInv
<1>11. BootInv' /\ FilesInv'
  BY DEF BootInv, Supersede, Goto, Keep, disk, local, history, Superseded, With, Live, FilesInv
<1> QED BY <1>5, <1>6, <1>7, <1>8, <1>9, <1>10, <1>11 DEF DInv

LEMMA DeployFailsDInv == ASSUME DInv, DeployFails PROVE DInv'
<1>1. TypeOK'
  BY DEF DInv, TypeOK, Package, Steps, DeployFails, Goto, Keep, disk, local, history
<1>2. TablesInv'
  BY DEF DInv, TablesInv, Roll, DraftSteps, DeployFails, Goto, Keep, disk, local, history
<1>3. KindInv'
  BY DEF DInv, KindInv, InstallSteps, DeploySteps, Roll, DeployFails, Goto, Keep, disk, local,
     history
<1>4. DeployInv'
  BY DEF DInv, DeployInv, DeploySteps, This, DeployFails, Goto, Keep, disk, local, history
<1>5. UpInv'
  BY DEF DInv, UpInv, Pend, Switched, Kept, Back, This, BackSteps, TakenSteps, DeployFails,
     Goto, Keep, disk, local, history
<1>6. DraftInv'
  BY DEF DraftInv, DraftPend, Last, Kept, Back, This, TakenSteps, Roll, DeployFails, Goto, Keep,
     disk, local, history
<1>7. BootInv' /\ FilesInv'
  BY DEF BootInv, DeployFails, Goto, Keep, disk, local, history, FilesInv
<1>8. RollInv'
  BY DEF RollInv, Roll, DraftSteps, PutBack, TakesBackup, DeployFails, Goto, Keep, disk, local,
     history
<1> QED BY <1>1, <1>2, <1>3, <1>4, <1>5, <1>6, <1>7, <1>8 DEF DInv

\* Wherever the renames stopped, what was replaced is back.
LEMMA UndoDInv == ASSUME DInv, Undo PROVE DInv'
<1>1. TablesKnown
  BY Tables
<1>2. TypeOK'
  BY <1>1
     DEF DInv, TypeOK, KindInv, DeployInv, DeploySteps, InstallSteps, Package, Steps,
        TablesKnown, Undo, Goto, Keep, local, history, Restored, Taken
<1>3. TablesInv'
  BY DEF DInv, TablesInv, Roll, DraftSteps, Undo, Goto, Keep, local, history, Restored, Taken
<1>4. KindInv'
  BY DEF DInv, KindInv, InstallSteps, DeploySteps, Roll, Undo, Goto, Keep, local, history,
     Restored, Taken
<1>5. DeployInv'
  BY DEF DInv, DeployInv, DeploySteps, This, Undo, Goto, Keep, local, history, Restored, Taken
<1>6. UpInv'
  <2> SUFFICES ASSUME Pend' PROVE UpInv'
    BY DEF UpInv
  <2>1. /\ phase = "up" /\ pc = "undo" /\ pc' = "markfailed" /\ rows' = rows /\ replaced' = replaced
        /\ op' = op /\ backups' = Taken(This) /\ target' = Restored(This)
    BY DEF Undo, Goto, Keep, local, history
  <2>2. Pend /\ This \in DOMAIN rows /\ This \in Deployments
    BY <1>1, <2>1 DEF Pend, This, TablesKnown
  <2>3. (Kept \/ Back) /\ ~ Switched /\ backups[This] \in {NULL, replaced[This]} /\ op.kind = "install"
    BY <2>1, <2>2 DEF DInv, UpInv, BackSteps, KindInv, InstallSteps, DeploySteps
  <2>4. rows[This].backup = (replaced[This] # NULL) /\ backups \in [Deployments -> Package]
    BY <2>2 DEF DInv, TablesInv, TableInv, TypeOK
  <2>5. Back'
    BY <2>1, <2>3, <2>4 DEF Back, Kept, Restored, This
  <2>6. backups'[This] \in {NULL, replaced[This]}
    BY <2>1, <2>2, <2>3, <2>4 DEF Taken
  <2> QED BY <2>1, <2>3, <2>5, <2>6 DEF UpInv, BackSteps, TakenSteps, Switched, This, Roll
<1>7. DraftInv'
  BY DEF DraftInv, TakenSteps, Undo, Goto, Keep, local, Restored, Taken
<1>8. BootInv' /\ FilesInv'
  BY DEF BootInv, Undo, Goto, Keep, local, history, Restored, Taken, FilesInv
<1>9. RollInv'
  BY DEF RollInv, Roll, DraftSteps, PutBack, TakesBackup, Undo, Goto, Keep, local, history,
     Restored, Taken
<1> QED BY <1>2, <1>3, <1>4, <1>5, <1>6, <1>7, <1>8, <1>9 DEF DInv

LEMMA MarkFailedDInv == ASSUME DInv, MarkFailed PROVE DInv'
<1>1. rows' = Phased(rows, This, "failed")
  BY DEF MarkFailed, Phased
<1>2. /\ rows' \in Seq(Row) /\ Len(rows') = Len(rows) /\ DOMAIN rows' = DOMAIN rows
      /\ \A e \in DOMAIN rows :
           /\ rows'[e].version = rows[e].version /\ rows'[e].backup = rows[e].backup
           /\ rows'[e].prev = rows[e].prev /\ rows'[e].status = rows[e].status
           /\ rows'[e].phase = IF e = This THEN "failed" ELSE rows[e].phase
  BY <1>1, PhaseFacts DEF DInv, TypeOK, Phases
<1>3. rows # <<>> => rows' # <<>> /\ Len(rows) \in Nat \ {0}
  BY <1>2, EmptySeq DEF DInv, TypeOK
<1>4. Len(rows) \in Nat /\ DOMAIN rows = 1..Len(rows)
  BY TableFacts DEF DInv, TypeOK
<1>5. TypeOK'
  BY <1>2, <1>3, <1>4 DEF DInv, TypeOK, Package, Steps, MarkFailed, Goto, Keep, disk, local, history
<1>6. TablesInv'
  BY DEF DInv, TablesInv, TableInv, Last, FilesInv, DraftSteps, MarkFailed, Goto, Keep, disk,
     local, history
<1>7. KindInv'
  BY DEF DInv, KindInv, InstallSteps, DeploySteps, Roll, MarkFailed, Goto, Keep, disk, local,
     history
<1>8. DeployInv'
  BY DEF DInv, DeployInv, DeploySteps, This, MarkFailed, Goto, Keep, disk, local, history
<1>9. UpInv'
  BY DEF DInv, UpInv, Pend, Switched, Kept, Back, This, BackSteps, TakenSteps, MarkFailed, Goto,
     Keep, disk, local, history
<1>10. DraftInv'
  BY DEF DraftInv, DraftPend, Last, Kept, Back, This, TakenSteps, Roll, MarkFailed, Goto, Keep,
     disk, local, history
<1>11. BootInv' /\ FilesInv'
  BY DEF BootInv, MarkFailed, Goto, Keep, disk, local, history, FilesInv
<1>12. RollInv'
  BY DEF RollInv, Roll, DraftSteps, PutBack, TakesBackup, MarkFailed, Goto, Keep, disk, local,
     history
<1> QED BY <1>5, <1>6, <1>7, <1>8, <1>9, <1>10, <1>11, <1>12 DEF DInv

LEMMA SettleDInv == ASSUME DInv, Settle PROVE DInv'
<1>1. Len(rows) \in Nat /\ DOMAIN rows = 1..Len(rows) /\ rows \in [1..Len(rows) -> Row]
  BY TableFacts DEF DInv, TypeOK
<1>2. rows' \in [1..Len(rows) -> Row]
  BY <1>1 DEF Settle, Row
<1>3. rows' \in Seq(Row) /\ Len(rows') = Len(rows) /\ DOMAIN rows' = DOMAIN rows
  BY <1>1, <1>2, FunctionIsTable
<1>4. \A e \in DOMAIN rows :
        /\ rows'[e].version = rows[e].version /\ rows'[e].backup = rows[e].backup
        /\ rows'[e].prev = rows[e].prev /\ rows'[e].phase = rows[e].phase
        /\ rows'[e].status = IF e = This THEN "failed"
                            ELSE IF e = Prev(This) THEN "active" ELSE rows[e].status
  BY <1>1 DEF Settle, Row
<1>5. TypeOK'
  BY <1>1, <1>3, <1>4
     DEF DInv, TypeOK, Package, Steps, Settle, Goto, Keep, disk, local, history, Prev
<1>6. TablesInv'
  <2>1. TableInv(rows, replaced)'
    <3>1. rows \in Seq(Row) /\ TableInv(rows, replaced)
      BY DEF DInv, TypeOK, TablesInv
    <3>2. rows[This].phase = "failed"
      BY DEF Settle, Goto, DInv, DeployInv
    <3>3. \A d \in DOMAIN rows :
           /\ rows'[d].prev = rows[d].prev /\ rows'[d].backup = rows[d].backup
           /\ rows'[d].status = "pending" =>
                rows[d].status = "pending" /\ rows'[d].phase \in {rows[d].phase, "files_switched", "failed"}
           /\ rows'[d].phase = "applying" /\ d = Len(rows) =>
                rows[d].phase = "applying" /\ rows'[d].status = rows[d].status
      BY <1>1, <1>3, <1>4, <3>2 DEF This
    <3>4. replaced' = replaced
      BY DEF Settle, Keep, history
    <3> QED BY <3>1, <3>3, <3>4, <1>1, <1>3, <1>4, TableInvUpdate
  <2>2. /\ TableInv(draft, replaced)' /\ Len(draft') <= Len(rows')
        /\ \A d \in Deployments : d > Len(rows') => backups'[d] = NULL
    BY <1>1, <1>3, <1>4 DEF DInv, TablesInv, Settle, Keep, local, history, disk
  <2>3. phase' = "up" /\ pc' \notin DraftSteps \ {"request", "compensate"} /\ op' = op /\ op.kind = "install"
    BY DEF Settle, Goto, Keep, local, DraftSteps, DInv, KindInv, InstallSteps, DeploySteps
  <2> QED BY <2>1, <2>2, <2>3 DEF TablesInv, Roll
<1>7. KindInv'
  BY DEF KindInv, InstallSteps, DeploySteps, Roll, Settle, Goto, Keep, disk, local, history,
     Prev
<1>8. DeployInv'
  BY DEF DeployInv, DeploySteps, This, Settle, Goto, Keep, disk, local, history, Prev
<1>9. UpInv'
  BY DEF UpInv, Pend, This, Settle, Goto, Keep, local, Prev
<1>10. DraftInv' /\ RollInv'
  BY DEF DInv, DraftInv, Roll, Settle, Goto, Keep, local, Prev, KindInv, InstallSteps,
     DeploySteps, RollInv
<1>11. BootInv' /\ FilesInv'
  BY DEF BootInv, Settle, Goto, Keep, disk, local, history, Prev, FilesInv
<1> QED BY <1>5, <1>6, <1>7, <1>8, <1>9, <1>10, <1>11 DEF DInv

\* The guard and the rows are what a failed rollback goes back to.
LEMMA KeepGuardDInv == ASSUME DInv, KeepGuard PROVE DInv'
<1>1. TablesKnown
  BY Tables
<1>2. CurrentKnown
  BY CurrentRow
<1>3. Guarded' = Current /\ Current' = Current
  BY DEF KeepGuard, Guarded, Current, With, Keep
<1>4. TypeOK'
  BY DEF DInv, TypeOK, Package, Steps, KeepGuard, Goto, Keep, history
<1>5. TablesInv'
  BY DEF DInv, TablesInv, Roll, DraftSteps, KeepGuard, Goto, Keep, history
<1>6. KindInv'
  BY DEF KindInv, InstallSteps, DeploySteps, Roll, KeepGuard, Goto, Keep, history
<1>7. DeployInv'
  BY <1>2, <1>3, <1>1
     DEF DInv, DeployInv, DeploySteps, This, KeepGuard, Goto, Keep, history, CurrentKnown,
        TablesKnown
<1>8. UpInv'
  BY <1>2, <1>3, NullAssumption
     DEF DInv, UpInv, Pend, Switched, Kept, BackSteps, TakenSteps, This, CurrentKnown,
        KeepGuard, Goto, Keep, history
<1>9. DraftInv'
  BY <1>2, <1>3, NullAssumption
     DEF DInv, Last, DraftInv, FilesInv, RollInv, Pend, TakenSteps, DraftPend, This,
        CurrentKnown, KeepGuard, Goto, Keep
<1>10. BootInv' /\ FilesInv'
  BY DEF BootInv, KeepGuard, Goto, Keep, history, FilesInv
<1>11. RollInv'
  BY <1>2, <1>3, <1>1
     DEF DInv, RollInv, Roll, DraftSteps, PutBack, TakesBackup, KeepGuard, Goto, Keep, history,
        CurrentKnown, TablesKnown
<1> QED BY <1>4, <1>5, <1>6, <1>7, <1>8, <1>9, <1>10, <1>11 DEF DInv

LEMMA RemoveCurrentDInv == ASSUME DInv, RemoveCurrent PROVE DInv'
<1>1. TablesKnown
  BY Tables
<1>2. CurrentKnown
  BY CurrentRow
<1>3. GuardedKnown
  BY GuardedRow
<1>4. Guarded' = Guarded
  BY DEF RemoveCurrent, Guarded
<1>5. TypeOK'
  BY <1>1, <1>2, <1>3, <1>4
     DEF DInv, TypeOK, Package, Steps, RemoveCurrent, Goto, Keep, history, TablesKnown,
        CurrentKnown, GuardedKnown
<1>6. TablesInv'
  BY DEF DInv, TablesInv, Roll, DraftSteps, RemoveCurrent, Goto, Keep, history
<1>7. KindInv'
  BY DEF KindInv, InstallSteps, DeploySteps, Roll, RemoveCurrent, Goto, Keep, history
<1>8. DeployInv'
  BY <1>1, <1>2, <1>3, <1>4
     DEF DInv, DeployInv, DeploySteps, This, RemoveCurrent, Goto, Keep, history, TablesKnown,
        CurrentKnown, GuardedKnown
<1>9. UpInv'
  BY <1>2, <1>4
     DEF DInv, UpInv, Pend, Switched, Kept, This, BackSteps, TakenSteps, RemoveCurrent, Goto,
        Keep, history, CurrentKnown
<1>10. DraftInv'
  BY DEF DInv, DraftInv, DraftPend, Last, Kept, Back, This, TakenSteps, Roll, RemoveCurrent,
     Goto, Keep, history
<1>11. BootInv' /\ FilesInv'
  BY DEF BootInv, RemoveCurrent, Goto, Keep, history, FilesInv
<1>12. RollInv'
  BY <1>3, <1>4
     DEF DInv, RollInv, Roll, DraftSteps, RemoveCurrent, Goto, Keep, history, DraftInv,
        GuardedKnown
<1> QED BY <1>5, <1>6, <1>7, <1>8, <1>9, <1>10, <1>11, <1>12 DEF DInv

\* The backup of the row that is taken back is what the guard can put back.
LEMMA RestoreBackupDInv == ASSUME DInv, RestoreBackup PROVE DInv'
<1>1. TablesKnown
  BY Tables
<1>2. GuardedKnown
  BY GuardedRow
<1>3. Guarded' = Guarded
  BY DEF RestoreBackup, Guarded, local
<1>4. TypeOK'
  BY <1>3, NullAssumption
     DEF DInv, TypeOK, DeployInv, Package, Steps, RestoreBackup, Goto, Keep, local, history,
        Taken
<1>5. TablesInv'
  BY DEF DInv, TablesInv, Roll, DraftSteps, RestoreBackup, Goto, Keep, local, history, Taken
<1>6. KindInv'
  BY DEF KindInv, InstallSteps, DeploySteps, Roll, RestoreBackup, Goto, Keep, local, history,
     Taken
<1>7. DeployInv'
  BY DEF DInv, DeployInv, DeploySteps, This, RestoreBackup, Goto, Keep, local, history, Taken
<1>8. UpInv'
  <2> SUFFICES ASSUME Pend' PROVE UpInv'
    BY DEF UpInv
  <2>1. /\ phase = "up" /\ pc = "restore" /\ pc' = "rolledback" /\ rows' = rows /\ replaced' = replaced
        /\ dep' = dep /\ backups' = Taken(dep) /\ target' = IF rows[dep].backup THEN backups[dep] ELSE NULL
    BY DEF RestoreBackup, Goto, Keep, local, history
  <2>2. Pend /\ This \in DOMAIN rows /\ This \in Deployments
    BY <1>1, <2>1 DEF Pend, This, TablesKnown
  <2>3. Kept /\ dep = This /\ ~ Switched /\ backups[This] \in {NULL, replaced[This]}
    BY <2>1, <2>2 DEF DInv, UpInv, BackSteps
  <2>4. rows[This].backup = (replaced[This] # NULL) /\ backups \in [Deployments -> Package]
    BY <2>2 DEF DInv, TablesInv, TableInv, TypeOK
  <2>5. Back'
    BY <2>1, <2>3, <2>4 DEF Back, Kept, This
  <2>6. backups'[This] \in {NULL, replaced[This]}
    BY <2>1, <2>2, <2>3, <2>4 DEF Taken
  <2> QED BY <2>1, <2>3, <2>5, <2>6 DEF UpInv, BackSteps, TakenSteps, Switched, This
<1>9. DraftInv'
  BY DEF DInv, DraftInv, TakenSteps, Roll, RestoreBackup, Goto, Keep, local, Taken
<1>10. BootInv' /\ FilesInv'
  BY DEF BootInv, RestoreBackup, Goto, Keep, local, history, Taken, FilesInv
<1>11. RollInv'
  <2> SUFFICES ASSUME Roll PROVE RollInv'
    BY DEF RollInv, Roll, RestoreBackup, local
  <2>1. /\ phase = "up" /\ pc = "restore" /\ pc' = "rolledback"
        /\ UNCHANGED <<guard, draft, dep, was>>
        /\ target' = IF rows[dep].backup THEN backups[dep] ELSE NULL
        /\ backups' = Taken(dep)
    BY DEF RestoreBackup, Goto, Keep, local, history
  <2>2. draft = rows /\ draft = was.rows /\ guard = was.target /\ backups = was.backups /\ dep = Guarded
    BY <2>1 DEF DInv, DraftInv, RollInv, DraftSteps
  <2>3. dep \in Deployments /\ dep # NULL /\ backups \in [Deployments -> Package]
    BY <1>1, <2>1, NullAssumption DEF DInv, DeployInv, TypeOK, TablesKnown, Deployments
  <2>4. PutBack' = backups
    <3>1. CASE rows[dep].backup /\ backups[dep] # NULL
      BY <1>3, <2>1, <2>2, <2>3, <3>1 DEF PutBack, TakesBackup, Taken
    <3>2. CASE rows[dep].backup /\ backups[dep] = NULL
      BY <1>3, <2>1, <2>2, <2>3, <3>2 DEF PutBack, TakesBackup, Taken
    <3>3. CASE ~ rows[dep].backup
      BY <1>3, <2>1, <2>2, <2>3, <3>3 DEF PutBack, TakesBackup, Taken
    <3> QED BY <3>1, <3>2, <3>3
  <2> QED BY <2>1, <2>2, <2>4 DEF RollInv, DraftSteps
<1> QED BY <1>4, <1>5, <1>6, <1>7, <1>8, <1>9, <1>10, <1>11 DEF DInv

LEMMA RolledBackDInv == ASSUME DInv, RolledBack PROVE DInv'
<1>1. TablesKnown
  BY Tables
<1>2. rows' = TakenFrom(rows, dep, Prev(dep), "rolled_back")
  BY DEF RolledBack, TakenBack, TakenFrom
<1>3. /\ rows' \in Seq(Row) /\ Len(rows') = Len(rows) /\ DOMAIN rows' = DOMAIN rows
      /\ \A e \in DOMAIN rows :
           /\ rows'[e].version = rows[e].version /\ rows'[e].backup = rows[e].backup
           /\ rows'[e].prev = rows[e].prev
           /\ rows'[e].status = IF e = Prev(dep) THEN "pending_activation"
                            ELSE IF e = dep THEN "rolled_back" ELSE rows[e].status
           /\ rows'[e].phase = IF e = Prev(dep) THEN "files_switched"
                           ELSE IF e = dep THEN "rolled_back" ELSE rows[e].phase
  BY <1>1, <1>2, TakenFromFacts DEF TablesKnown
<1>4. Guarded' = Guarded
  BY DEF RolledBack, Guarded, local
<1>5. /\ Goto("rolledback", IF op.kind = "install" THEN "reconcile" ELSE "request") /\ Keep
      /\ UNCHANGED <<disk, running, reports, local>>
  BY DEF RolledBack
<1>6. rows' # <<>> => rows # <<>>
  BY <1>3, EmptySeq DEF TablesKnown
<1>7. TypeOK'
  BY <1>3, <1>4, <1>5, <1>6 DEF DInv, TypeOK, Steps, Goto, Keep, disk, local, history
<1>8. TablesInv'
  <2>1. TableInv(rows, replaced)'
    <3>1. rows \in Seq(Row) /\ TableInv(rows, replaced)
      BY DEF DInv, TypeOK, TablesInv
    <3>2. \A d \in DOMAIN rows :
           /\ rows'[d].prev = rows[d].prev /\ rows'[d].backup = rows[d].backup
           /\ rows'[d].status = "pending" =>
                rows[d].status = "pending" /\ rows'[d].phase \in {rows[d].phase, "files_switched", "failed"}
           /\ rows'[d].phase = "applying" /\ d = Len(rows) =>
                rows[d].phase = "applying" /\ rows'[d].status = rows[d].status
      BY <1>3
    <3>3. replaced' = replaced
      BY <1>5 DEF Keep, history
    <3> QED BY <3>1, <3>2, <3>3, <1>3, TableInvUpdate
  <2>2. draft' = draft /\ replaced' = replaced /\ backups' = backups /\ op' = op /\ phase' = phase
    BY <1>5 DEF Keep, local, history, disk
  <2>3. /\ TableInv(draft, replaced)' /\ Len(draft') <= Len(rows')
        /\ \A d \in Deployments : d > Len(rows') => backups'[d] = NULL
    BY <1>3, <2>2 DEF DInv, TablesInv
  <2>4. phase' = "files" \/ (Roll' /\ pc' \in DraftSteps) => phase = "files" \/ (Roll /\ pc \in DraftSteps)
    BY <1>5, <2>2 DEF Goto, Roll, DraftSteps
  <2> QED BY <1>3, <2>1, <2>2, <2>3, <2>4 DEF DInv, TablesInv
<1>9. KindInv'
  BY <1>1, <1>3, <1>4, <1>5, <1>6
     DEF KindInv, InstallSteps, DeploySteps, Roll, Goto, Keep, disk, local, history
<1>10. DeployInv'
  BY <1>1, <1>3, <1>4, <1>5, <1>6 DEF DeployInv, DeploySteps, This, Goto, Keep, disk, local, history
<1>11. UpInv'
  <2>1. CASE Pend
    <3>1. dep = This /\ This \in DOMAIN rows
      BY <1>1, <1>5, <2>1 DEF DInv, UpInv, Goto, Pend, TablesKnown
    <3> QED BY <1>3, <3>1 DEF UpInv, Pend, This
  <2>2. CASE ~ Pend
    BY <1>1, <1>3, <1>6, <2>2 DEF UpInv, Pend, This, TablesKnown
  <2> QED BY <2>1, <2>2
<1>12. DraftInv'
  BY <1>3, <1>4, <1>5, <1>6
     DEF DInv, Last, UpInv, DraftInv, FilesInv, Roll, Pend, Switched, Kept, Back, BackSteps,
        DraftPend, This, Goto, Keep, disk, local, history
<1>13. BootInv' /\ FilesInv'
  BY <1>1, <1>3, <1>4, <1>5, <1>6 DEF BootInv, Goto, Keep, disk, local, history, FilesInv
<1>14. RollInv'
  BY <1>1, <1>3, <1>4, <1>5, <1>6
     DEF DInv, RollInv, Roll, DraftSteps, PutBack, TakesBackup, Goto, Keep, disk, local, history
<1> QED BY <1>7, <1>8, <1>9, <1>10, <1>11, <1>12, <1>13, <1>14 DEF DInv

LEMMA RequestDInv == ASSUME DInv, Request PROVE DInv'
<1>1. CurrentKnown
  BY CurrentRow
<1>2. Guarded' = Guarded
  BY DEF Request, Guarded
<1>3. TypeOK'
  BY <1>1, <1>2 DEF DInv, TypeOK, Package, Steps, Request, Goto, Keep, disk, history, CurrentKnown
<1>4. TablesInv'
  BY DEF DInv, TablesInv, Roll, DraftSteps, Request, Goto, Keep, disk, history
<1>5. KindInv'
  BY DEF KindInv, InstallSteps, DeploySteps, Roll, Request, Goto, Keep, disk, history
<1>6. DeployInv'
  BY DEF DeployInv, DeploySteps, This, Request, Goto, Keep, disk, history
<1>7. UpInv'
  BY DEF DInv, UpInv, Pend, Switched, Kept, This, BackSteps, TakenSteps, Roll, Request, Goto,
     Keep, disk, history
<1>8. DraftInv'
  BY DEF DInv, DraftInv, DraftPend, Last, Kept, Back, This, TakenSteps, Roll, Request, Goto,
     Keep, disk, history
<1>9. BootInv' /\ FilesInv'
  BY DEF BootInv, Request, Goto, Keep, disk, history, FilesInv
<1>10. RollInv'
  BY <1>1, <1>2
     DEF DInv, RollInv, Roll, DraftSteps, PutBack, TakesBackup, Request, Goto, Keep, disk,
        history, CurrentKnown
<1> QED BY <1>3, <1>4, <1>5, <1>6, <1>7, <1>8, <1>9, <1>10 DEF DInv

LEMMA ExecuteDInv == ASSUME DInv, Execute PROVE DInv'
<1>1. TablesKnown
  BY Tables
<1>2. PICK ok \in BOOLEAN, to \in Package, good \in BOOLEAN :
        /\ Goto("reload", IF good THEN "applied" ELSE "compensate") /\ Keep
        /\ running' = to
        /\ rows' = Marked(dep, good)
        /\ reports' = IF dep = NULL THEN reports
                      ELSE [reports EXCEPT ![dep] = IF good THEN "ok" ELSE "error"]
        /\ UNCHANGED <<disk, local>>
  BY DEF Execute
<1>3. /\ rows' \in Seq(Row) /\ Len(rows') = Len(rows) /\ DOMAIN rows' = DOMAIN rows
      /\ \A e \in DOMAIN rows :
           /\ rows'[e].version = rows[e].version /\ rows'[e].backup = rows[e].backup
           /\ rows'[e].prev = rows[e].prev
           /\ \/ e = dep /\ rows'[e].phase = "active" /\ rows'[e].status = "active"
              \/ e = dep /\ rows'[e].phase = "failed" /\ rows'[e].status = rows[e].status
              \/ e # dep /\ rows'[e].phase = rows[e].phase /\ rows'[e].status = rows[e].status
  BY <1>1, <1>2, MarkedFacts DEF TablesKnown
<1>4. Guarded' = Guarded
  BY <1>2 DEF Guarded, local
<1>5. rows' # <<>> => rows # <<>>
  BY <1>3, EmptySeq DEF TablesKnown
<1>6. TypeOK'
  <2>1. rows' \in Seq(Row) /\ Len(rows') <= MaxRows
    BY <1>3 DEF DInv, TypeOK
  <2>2. reports' \in [Deployments -> {"none", "ok", "error"}] /\ running' \in Package /\ pc' \in Steps
    BY <1>2 DEF DInv, TypeOK, Goto, Steps
  <2> QED BY <1>2, <2>1, <2>2 DEF DInv, TypeOK, Keep, local, history, disk
<1>7. TablesInv'
  <2>1. TableInv(rows, replaced)'
    <3>1. rows \in Seq(Row) /\ TableInv(rows, replaced)
      BY DEF DInv, TypeOK, TablesInv
    <3>2. \A d \in DOMAIN rows :
           /\ rows'[d].prev = rows[d].prev /\ rows'[d].backup = rows[d].backup
           /\ rows'[d].status = "pending" =>
                rows[d].status = "pending" /\ rows'[d].phase \in {rows[d].phase, "files_switched", "failed"}
           /\ rows'[d].phase = "applying" /\ d = Len(rows) =>
                rows[d].phase = "applying" /\ rows'[d].status = rows[d].status
      BY <1>3
    <3>3. replaced' = replaced
      BY <1>2 DEF Keep, history
    <3> QED BY <3>1, <3>2, <3>3, <1>3, TableInvUpdate
  <2>2. draft' = draft /\ replaced' = replaced /\ backups' = backups /\ op' = op /\ phase' = phase
    BY <1>2 DEF Keep, local, history, disk
  <2>3. /\ TableInv(draft, replaced)' /\ Len(draft') <= Len(rows')
        /\ \A d \in Deployments : d > Len(rows') => backups'[d] = NULL
    BY <1>3, <2>2 DEF DInv, TablesInv
  <2>4. phase' = "files" \/ (Roll' /\ pc' \in DraftSteps) => phase = "files" \/ (Roll /\ pc \in DraftSteps)
    BY <1>2, <2>2 DEF Goto, Roll, DraftSteps
  <2> QED BY <1>3, <2>1, <2>2, <2>3, <2>4 DEF DInv, TablesInv
<1>8. KindInv'
  BY <1>1, <1>2, <1>3, <1>4, <1>5
     DEF KindInv, InstallSteps, DeploySteps, Roll, Goto, Keep, disk, local, history
<1>9. DeployInv'
  BY <1>1, <1>2, <1>3, <1>4, <1>5 DEF DeployInv, DeploySteps, This, Goto, Keep, disk, local, history
<1>10. UpInv'
  <2> SUFFICES ASSUME Pend' PROVE UpInv'
    BY DEF UpInv
  <2>1. /\ phase = "up" /\ pc = "reload" /\ pc' \in {"applied", "compensate"} /\ op' = op
        /\ target' = target /\ backups' = backups /\ replaced' = replaced /\ This' = This
    BY <1>2, <1>3 DEF Goto, Keep, local, history, disk, This
  <2>2. Pend /\ This \in DOMAIN rows
    BY <1>1, <1>3, <1>5 DEF Pend, This, TablesKnown
  <2>3. Kept /\ ~ Switched /\ backups[This] \in {NULL, replaced[This]} /\ ~ Roll
    BY <2>1, <2>2 DEF DInv, UpInv, BackSteps, TakenSteps
  <2>4. Kept' /\ ~ Switched'
    BY <1>3, <2>1, <2>2, <2>3 DEF Kept, Switched
  <2> QED BY <2>1, <2>3, <2>4 DEF UpInv, BackSteps, Roll
<1>11. DraftInv'
  BY <1>1, <1>2, <1>3, <1>4, <1>5
     DEF DInv, DraftInv, DraftPend, Last, Kept, Back, This, TakenSteps, Roll, Goto, Keep, disk,
        local, history
<1>12. BootInv' /\ FilesInv'
  BY <1>1, <1>2, <1>3, <1>4, <1>5 DEF BootInv, Goto, Keep, disk, local, history, FilesInv
<1>13. RollInv'
  BY <1>1, <1>2, <1>3, <1>4, <1>5
     DEF DInv, RollInv, Roll, DraftSteps, PutBack, TakesBackup, Goto, Keep, disk, local, history
<1> QED BY <1>6, <1>7, <1>8, <1>9, <1>10, <1>11, <1>12, <1>13 DEF DInv

LEMMA AppliedDInv == ASSUME DInv, Applied PROVE DInv'
<1>1. TypeOK'
  BY DEF DInv, TypeOK, Package, Steps, Applied, Goto, Keep, local, history
<1>2. TablesInv'
  BY DEF DInv, TablesInv, Roll, DraftSteps, Applied, Goto, Keep, local, history
<1>3. KindInv'
  BY DEF KindInv, InstallSteps, DeploySteps, Roll, Applied, Goto, Keep, local, history
<1>4. DeployInv'
  BY DEF DeployInv, DeploySteps, This, Applied, Goto, Keep, local, history
<1>5. UpInv'
  BY DEF DInv, UpInv, Pend, Switched, Kept, This, BackSteps, TakenSteps, Applied, Goto, Keep,
     local, history
<1>6. DraftInv'
  BY DEF DraftInv, DraftPend, Last, Kept, Back, This, TakenSteps, Roll, Applied, Goto, Keep,
     local, history
<1>7. BootInv' /\ FilesInv'
  BY DEF BootInv, Applied, Goto, Keep, local, history, FilesInv
<1>8. RollInv'
  BY DEF RollInv, Roll, DraftSteps, PutBack, TakesBackup, Applied, Goto, Keep, local, history
<1> QED BY <1>1, <1>2, <1>3, <1>4, <1>5, <1>6, <1>7, <1>8 DEF DInv

LEMMA CompensateDInv == ASSUME DInv, Compensate PROVE DInv'
<1>1. TablesKnown
  BY Tables
<1>2. CurrentKnown
  BY CurrentRow
<1>3. Guarded' = Guarded /\ Current' = Current
  BY DEF Compensate, Guarded, Current, With, local, Keep
<1>4. TypeOK'
  BY DEF DInv, TypeOK, Package, Steps, Compensate, Goto, Keep, disk, local, history
<1>5. TablesInv'
  BY DEF DInv, TablesInv, Roll, DraftSteps, Compensate, Goto, Keep, disk, local, history
<1>6. KindInv'
  BY DEF KindInv, InstallSteps, DeploySteps, Roll, Compensate, Goto, Keep, disk, local, history
<1>7. DeployInv'
  BY <1>1, <1>2, <1>3
     DEF DInv, DeployInv, DeploySteps, This, Compensate, Goto, Keep, disk, local, history,
        TablesKnown, CurrentKnown
<1>8. UpInv'
  BY DEF DInv, UpInv, Pend, Switched, Kept, This, BackSteps, TakenSteps, Roll, Compensate, Goto,
     Keep, disk, local, history
<1>9. DraftInv'
  BY DEF DInv, DraftInv, DraftPend, Kept, Back, This, TakenSteps, Roll, Compensate, Goto, Keep,
     disk, local, history
<1>10. BootInv' /\ FilesInv'
  BY DEF BootInv, Compensate, Goto, Keep, disk, local, history, FilesInv
<1>11. RollInv'
  BY <1>1, <1>2, <1>3
     DEF DInv, RollInv, Roll, DraftSteps, PutBack, TakesBackup, Compensate, Goto, Keep, disk,
        local, history, TablesKnown, CurrentKnown
<1> QED BY <1>4, <1>5, <1>6, <1>7, <1>8, <1>9, <1>10, <1>11 DEF DInv

\* The backup is again what it was at the approval.
LEMMA PutBackBackupDInv == ASSUME DInv, PutBackBackup PROVE DInv'
<1>1. TablesKnown
  BY Tables
<1>2. GuardedKnown
  BY GuardedRow
<1>3. TypeOK'
  BY DEF DInv, TypeOK, Package, Steps, PutBackBackup, Goto, Keep, local, history, TakesBackup
<1>4. TablesInv'
  BY <1>2
     DEF DInv, TypeOK, TablesInv, KindInv, RollInv, DraftSteps, TakesBackup, GuardedKnown,
        PutBackBackup, Goto, Keep, local, history
<1>5. KindInv'
  BY DEF DInv, KindInv, InstallSteps, DeploySteps, Roll, PutBackBackup, Goto, Keep, local,
     history, TakesBackup
<1>6. DeployInv'
  BY DEF DeployInv, DeploySteps, This, PutBackBackup, Goto, Keep, local, history, TakesBackup
<1>7. UpInv'
  BY DEF DInv, UpInv, Pend, This, TakenSteps, PutBackBackup, Goto, Keep, local, KindInv
<1>8. DraftInv'
  BY <1>1, <1>2, NullAssumption
     DEF DInv, TypeOK, TablesInv, TableInv, DraftInv, FilesInv, RollInv, Roll, DraftSteps, Kept,
        Back, TakenSteps, DraftPend, This, TakesBackup, TablesKnown, GuardedKnown,
        PutBackBackup, Goto, Keep, local, history
<1>9. BootInv' /\ FilesInv'
  BY DEF BootInv, PutBackBackup, Goto, Keep, local, history, TakesBackup, FilesInv
<1>10. RollInv'
  BY DEF DInv, RollInv, Roll, DraftSteps, PutBack, TakesBackup, PutBackBackup, Goto, Keep,
     local, history
<1> QED BY <1>3, <1>4, <1>5, <1>6, <1>7, <1>8, <1>9, <1>10 DEF DInv

LEMMA PutBackGuardDInv == ASSUME DInv, PutBackGuard PROVE DInv'
<1>1. TypeOK'
  BY DEF DInv, TypeOK, Package, Steps, PutBackGuard, Goto, Keep, local, history
<1>2. TablesInv'
  BY DEF DInv, TablesInv, Roll, DraftSteps, PutBackGuard, Goto, Keep, local, history
<1>3. KindInv'
  BY DEF DInv, KindInv, InstallSteps, DeploySteps, Roll, PutBackGuard, Goto, Keep, local,
     history
<1>4. DeployInv'
  BY DEF DeployInv, DeploySteps, This, PutBackGuard, Goto, Keep, local, history
<1>5. UpInv'
  BY DEF DInv, UpInv, Pend, Switched, Kept, This, BackSteps, TakenSteps, Roll, PutBackGuard,
     Goto, Keep, local, history
<1>6. DraftInv'
  BY DEF DInv, DraftInv, DraftPend, Last, Kept, Back, This, TakenSteps, Roll, PutBackGuard,
     Goto, Keep, local, history
<1>7. BootInv' /\ FilesInv'
  BY DEF BootInv, PutBackGuard, Goto, Keep, local, history, FilesInv
<1>8. RollInv'
  BY DEF DInv, RollInv, Roll, DraftSteps, PutBack, TakesBackup, PutBackGuard, Goto, Keep, local,
     history
<1> QED BY <1>1, <1>2, <1>3, <1>4, <1>5, <1>6, <1>7, <1>8 DEF DInv

LEMMA PutBackRowsDInv == ASSUME DInv, PutBackRows PROVE DInv'
<1>1. TypeOK'
  BY BoundAssumption
     DEF DInv, TypeOK, TablesInv, Steps, PutBackRows, Goto, Keep, disk, local, history
<1>2. TablesInv'
  BY DEF DInv, TablesInv, Roll, DraftSteps, PutBackRows, Goto, Keep, disk, local, history,
     KindInv, InstallSteps, DeploySteps
<1>3. KindInv'
  BY DEF KindInv, InstallSteps, DeploySteps, Roll, PutBackRows, Goto, Keep, disk, local, history
<1>4. DeployInv'
  BY DEF DeployInv, DeploySteps, This, PutBackRows, Goto, Keep, disk, local, history
<1>5. UpInv'
  BY DEF DInv, TablesInv, Last, KindInv, UpInv, DraftInv, FilesInv, DraftSteps, Pend, Switched,
     Kept, BackSteps, TakenSteps, DraftPend, This, PutBackRows, Goto, Keep, disk, local, history
<1>6. DraftInv'
  BY DEF DraftInv, DraftPend, Last, Kept, Back, This, TakenSteps, Roll, PutBackRows, Goto, Keep,
     disk, local, history
<1>7. BootInv' /\ FilesInv'
  BY DEF BootInv, PutBackRows, Goto, Keep, disk, local, history, FilesInv
<1>8. RollInv'
  BY DEF DInv, RollInv, Roll, DraftSteps, PutBack, TakesBackup, PutBackRows, Goto, Keep, disk,
     local, history
<1> QED BY <1>1, <1>2, <1>3, <1>4, <1>5, <1>6, <1>7, <1>8 DEF DInv

LEMMA ReconcileDInv == ASSUME DInv, Reconcile PROVE DInv'
<1>1. target \in Package /\ running \in Package /\ running' \in Package
  BY DEF DInv, TypeOK, Package, Reconcile, Reloads
<1>2. TypeOK'
  BY <1>1 DEF DInv, TypeOK, Package, Steps, Reconcile, Goto, Keep, local, history
<1>3. TablesInv'
  BY DEF DInv, TablesInv, Roll, DraftSteps, Reconcile, Goto, Keep, local, history
<1>4. KindInv'
  BY DEF KindInv, InstallSteps, DeploySteps, Roll, Reconcile, Goto, Keep, local, history
<1>5. DeployInv'
  BY DEF DeployInv, DeploySteps, This, Reconcile, Goto, Keep, local, history
<1>6. UpInv'
  BY DEF DInv, UpInv, Pend, Switched, Kept, This, BackSteps, TakenSteps, Reconcile, Goto, Keep,
     local, history
<1>7. DraftInv'
  BY DEF DraftInv, DraftPend, Last, Kept, Back, This, TakenSteps, Roll, Reconcile, Goto, Keep,
     local, history
<1>8. BootInv' /\ FilesInv'
  BY DEF BootInv, Reconcile, Goto, Keep, local, history, FilesInv
<1>9. RollInv'
  BY DEF RollInv, Roll, DraftSteps, PutBack, TakesBackup, Reconcile, Goto, Keep, local, history
<1> QED BY <1>2, <1>3, <1>4, <1>5, <1>6, <1>7, <1>8, <1>9 DEF DInv

\* A crash at any step leaves what the recovery needs.
LEMMA CrashDInv == ASSUME DInv, Crash PROVE DInv'
<1>1. TablesKnown
  BY Tables
<1>2. TypeOK'
  <2>1. <<>> \in Seq(Row)
    BY EmptySeq
  <2>2. boots' = boots /\ pc' \in Steps
    BY DEF Crash, Steps
  <2> QED BY <2>1, <2>2 DEF DInv, TypeOK, Crash, Package, history
<1>3. TablesInv'
  <2>1. Len(<<>>) = 0 /\ DOMAIN <<>> = {}
    OBVIOUS
  <2>2. draft' = <<>> /\ rows' = rows /\ replaced' = replaced /\ backups' = backups /\ phase' = "down" /\ pc' = "idle"
    BY DEF Crash, history
  <2>3. TableInv(<<>>, replaced)
    BY DEF TableInv
  <2>4. Len(rows) \in Nat
    BY <1>1 DEF TablesKnown
  <2>5. TableInv(rows, replaced) /\ \A d \in Deployments : d > Len(rows) => backups[d] = NULL
    BY DEF DInv, TablesInv
  <2>6. pc' \notin DraftSteps
    BY <2>2 DEF DraftSteps
  <2> QED BY <2>1, <2>2, <2>3, <2>4, <2>5, <2>6 DEF TablesInv
<1>4. KindInv'
  BY DEF KindInv, InstallSteps, DeploySteps, Roll, Crash, history
<1>5. DeployInv'
  BY DEF DeployInv, DeploySteps, This, Crash, history
<1>6. UpInv'
  BY DEF UpInv, Pend, Switched, Kept, Back, This, BackSteps, TakenSteps, Roll, Crash, history
<1>7. DraftInv'
  BY DEF DraftInv, DraftPend, Last, Kept, Back, This, TakenSteps, Roll, Crash, history
<1>8. BootInv'
  <2> SUFFICES ASSUME Pend PROVE BootInv'
    BY DEF BootInv, Crash, Pend, This
  <2>1. /\ phase # "down" /\ phase' = "down" /\ todo' = {}
        /\ UNCHANGED <<target, backups, rows, replaced, was>>
    BY DEF Crash, history
  <2>2. Incomplete' = Incomplete /\ This' = This /\ (Kept' <=> Kept) /\ (Back' <=> Back) /\ (Switched' <=> Switched)
    BY <2>1 DEF Incomplete, This, Kept, Back, Switched
  <2>3. backups[This] \in {NULL, replaced[This]} /\ phase \in {"up", "files", "pending"}
    BY <2>1 DEF DInv, UpInv, BootInv, TypeOK
  <2>4. Switched => Kept
    BY <2>3 DEF DInv, UpInv, BootInv, BackSteps
  <2>5. Incomplete = {This} => Kept \/ Back
    BY <2>3 DEF DInv, UpInv, BootInv
  <2>6. Switched /\ IncompleteIn(was.rows) = {} => Incomplete = {This} /\ target = rows[This].version
    <3>1. CASE phase = "up"
      <4> SUFFICES ASSUME Switched, IncompleteIn(was.rows) = {}
                   PROVE  Incomplete = {This} /\ target = rows[This].version
        OBVIOUS
      <4>1. pc = "supersede"
        BY <3>1 DEF DInv, UpInv
      <4>2. /\ target = rows[This].version /\ Len(was.rows) = Len(rows) - 1
            /\ \A d \in DOMAIN was.rows : was.rows[d] = rows[d]
        BY <4>1 DEF DInv, DeployInv
      <4>3. DOMAIN was.rows = 1..Len(was.rows)
        <5>1. was.rows \in Seq(Row)
          BY DEF DInv, TypeOK
        <5> QED BY <5>1, TableFacts
      <4>4. \A d \in DOMAIN rows : d = This \/ d \in DOMAIN was.rows
        <5>1. DOMAIN was.rows = 1..(Len(rows) - 1)
          BY <4>2, <4>3
        <5> QED BY <1>1, <5>1 DEF TablesKnown, This
      <4>5. This \in DOMAIN rows
        BY <1>1 DEF TablesKnown, Pend
      <4> QED BY <4>2, <4>4, <4>5 DEF Incomplete, IncompleteIn, Switched
    <3>2. CASE phase # "up"
      BY <3>2 DEF DInv, BootInv
    <3> QED BY <3>1, <3>2
  <2> QED BY <2>1, <2>2, <2>3, <2>4, <2>5, <2>6 DEF BootInv
<1>9. FilesInv'
  BY DEF FilesInv, Crash, history
<1>10. RollInv'
  BY DEF RollInv, Roll, DraftSteps, PutBack, TakesBackup, Crash, history
<1> QED BY <1>2, <1>3, <1>4, <1>5, <1>6, <1>7, <1>8, <1>9, <1>10 DEF DInv

LEMMA RestartDInv == ASSUME DInv, Restart PROVE DInv'
<1>1. TablesKnown
  BY Tables
<1>2. Incomplete' = Incomplete
  BY DEF Restart, Incomplete
<1>3. TypeOK'
  <2>1. /\ running' \in Package /\ boots' \in 0..MaxBoots /\ todo' \in SUBSET Deployments
        /\ phase' \in {"down", "files", "pending", "up"} /\ draft' \in Seq(Row)
    <3>1. Incomplete \subseteq DOMAIN rows
      BY DEF Incomplete, IncompleteIn
    <3>2. todo' \in SUBSET Deployments /\ draft' \in Seq(Row)
      BY <1>1, <3>1 DEF Restart, TablesKnown
    <3>3. target \in Package /\ boots \in 0..MaxBoots
      BY DEF DInv, TypeOK
    <3>4. running' \in Package /\ phase' = "files"
      BY <3>3 DEF Restart, Package
    <3>5. boots' \in 0..MaxBoots
      BY <3>3, BoundAssumption DEF DInv, KindInv, Restart
    <3> QED BY <3>2, <3>4, <3>5
  <2> QED BY <2>1 DEF DInv, TypeOK, Restart, disk, history
<1>4. TablesInv'
  <2>1. rows' = rows /\ draft' = rows /\ replaced' = replaced /\ backups' = backups
    BY DEF Restart, disk, history
  <2>2. Len(rows) \in Nat
    BY <1>1 DEF TablesKnown
  <2>3. TableInv(rows, replaced) /\ \A d \in Deployments : d > Len(rows) => backups[d] = NULL
    BY DEF DInv, TablesInv
  <2> QED BY <2>1, <2>2, <2>3 DEF TablesInv
<1>5. KindInv'
  BY DEF DInv, KindInv, InstallSteps, DeploySteps, Roll, Restart, disk, history
<1>6. DeployInv'
  BY DEF DInv, DeployInv, DeploySteps, This, Restart, disk, history, KindInv, InstallSteps, Roll
<1>7. UpInv'
  BY DEF UpInv, Pend, Switched, Kept, Back, This, BackSteps, TakenSteps, Roll, Restart, disk,
     history
<1>8. DraftInv'
  BY DEF DraftInv, DraftPend, Last, Kept, Back, This, TakenSteps, Roll, Restart, disk, history
<1>9. BootInv'
  BY <1>2 DEF DInv, BootInv, Pend, Switched, Kept, Back, This, Restart, disk, history
<1>10. FilesInv'
  <2>1. rows' = rows /\ draft' = rows /\ todo' = Incomplete
    BY DEF Restart
  <2>2. Pend => This \in Incomplete
    <3>1. Pend => rows[This].phase \in {"applying", "files_switched", "failed"}
      BY <1>1 DEF DInv, TablesInv, TableInv, TablesKnown, Pend
    <3> QED BY <1>1, <3>1 DEF Incomplete, IncompleteIn, TablesKnown, Pend
  <2> QED BY <1>2, <2>1, <2>2 DEF FilesInv, DraftPend, Last, Pend, This
<1>11. RollInv'
  BY DEF RollInv, Roll, DraftSteps, PutBack, TakesBackup, Restart, disk, history
<1> QED BY <1>3, <1>4, <1>5, <1>6, <1>7, <1>8, <1>9, <1>10, <1>11 DEF DInv

LEMMA ClearTargetDInv == ASSUME DInv, NEW d \in Deployments, ClearTarget(d) PROVE DInv'
<1>1. TablesKnown
  BY Tables
<1>2. d \in todo
  BY NewestTodo DEF ClearTarget
<1>3. Incomplete' = Incomplete
  BY DEF ClearTarget, Incomplete
<1>4. TypeOK'
  BY DEF DInv, TypeOK, Package, Steps, ClearTarget, local, history
<1>5. TablesInv'
  BY DEF DInv, TablesInv, Roll, DraftSteps, ClearTarget, local, history
<1>6. KindInv'
  BY DEF DInv, KindInv, InstallSteps, DeploySteps, Roll, ClearTarget, local, history
<1>7. DeployInv'
  BY DEF DInv, DeployInv, DeploySteps, This, ClearTarget, local, history, KindInv, InstallSteps,
     Roll
<1>8. UpInv'
  BY DEF UpInv, Pend, Switched, Kept, Back, This, BackSteps, TakenSteps, Roll, ClearTarget,
     local, history
<1>9. DraftInv'
  BY DEF DraftInv, DraftPend, Last, Kept, Back, This, TakenSteps, Roll, ClearTarget, local,
     history
<1>10. BootInv'
  BY <1>2, <1>3 DEF DInv, BootInv, FilesInv, Pend, Switched, Kept, This, ClearTarget, local, history
<1>11. FilesInv'
  BY <1>2, <1>3 DEF DInv, FilesInv, Pend, Switched, DraftPend, This, ClearTarget, local
<1>12. RollInv'
  BY DEF RollInv, Roll, DraftSteps, PutBack, TakesBackup, ClearTarget, local, history
<1> QED BY <1>4, <1>5, <1>6, <1>7, <1>8, <1>9, <1>10, <1>11, <1>12 DEF DInv

\* A recovery undoes a deployment, or leaves one whose files were switched.
LEMMA RecoverFilesDInv == ASSUME DInv, NEW d \in Deployments, RecoverFiles(d) PROVE DInv'
<1>1. TablesKnown
  BY Tables
<1>2. d \in todo
  BY NewestTodo DEF RecoverFiles
<1>3. Incomplete' = Incomplete
  BY DEF RecoverFiles, Incomplete
<1>4. /\ phase = "files" /\ phase' = "files" /\ todo' = todo \ {d} /\ d \in DOMAIN rows
      /\ UNCHANGED <<guard, rows, boots, running, reports, pc, op, before, dep, was, replaced>>
      /\ This' = This
  BY <1>2 DEF RecoverFiles, history, This, DInv, FilesInv, Incomplete, IncompleteIn
<1>5. CASE rows[d].phase = "files_switched"
  <2>1. UNCHANGED <<target, staging, backups, draft>>
    BY <1>5 DEF RecoverFiles
  <2>2. TypeOK'
    BY <1>2, <1>3, <1>4, <1>5, <2>1 DEF DInv, TypeOK
  <2>3. TablesInv'
    BY <1>2, <1>3, <1>4, <1>5, <2>1 DEF DInv, TypeOK, TablesInv
  <2>4. KindInv'
    BY <1>2, <1>3, <1>4, <1>5, <2>1 DEF DInv, TypeOK, KindInv
  <2>5. DeployInv'
    BY <1>2, <1>3, <1>4, <1>5, <2>1 DEF DInv, TypeOK, DeployInv, DeploySteps, KindInv
  <2>6. UpInv'
    BY <1>2, <1>3, <1>4, <1>5, <2>1 DEF DInv, TypeOK, UpInv
  <2>7. DraftInv'
    BY <1>2, <1>3, <1>4, <1>5, <2>1 DEF DInv, TypeOK, DraftInv
  <2>8. BootInv'
    BY <1>2, <1>3, <1>4, <1>5, <2>1 DEF DInv, TypeOK, BootInv, Pend, Switched, Kept, Back, This
  <2>9. FilesInv'
    BY <1>2, <1>3, <1>4, <1>5, <2>1 DEF DInv, TypeOK, FilesInv, Pend, Switched, DraftPend, Last, This
  <2>10. RollInv'
    BY <1>2, <1>3, <1>4, <1>5, <2>1 DEF DInv, TypeOK, RollInv
  <2> QED BY <2>2, <2>3, <2>4, <2>5, <2>6, <2>7, <2>8, <2>9, <2>10 DEF DInv
<1>6. CASE rows[d].phase # "files_switched"
  <2>1. /\ staging' = NULL /\ target' = Restored(d) /\ backups' = Taken(d)
        /\ draft' = TakenFrom(draft, d, Prev(d), "failed")
    BY <1>6 DEF RecoverFiles, TakenFrom
  <2>2. /\ draft' \in Seq(Row) /\ Len(draft') = Len(draft) /\ DOMAIN draft' = DOMAIN draft
        /\ \A e \in DOMAIN draft :
             /\ draft'[e].version = draft[e].version /\ draft'[e].backup = draft[e].backup
             /\ draft'[e].prev = draft[e].prev
             /\ draft'[e].status = IF e = Prev(d) THEN "pending_activation"
                                ELSE IF e = d THEN "failed" ELSE draft[e].status
             /\ draft'[e].phase = IF e = Prev(d) THEN "files_switched"
                               ELSE IF e = d THEN "failed" ELSE draft[e].phase
    BY <1>1, <2>1, TakenFromFacts DEF TablesKnown
  <2>3. rows[d].backup = (replaced[d] # NULL) /\ backups \in [Deployments -> Package] /\ d \in Deployments
    BY <1>1, <1>4 DEF DInv, TablesInv, TableInv, TypeOK, TablesKnown
  <2>4. TypeOK'
    <3>1. target' \in Package /\ staging' \in Package /\ backups' \in [Deployments -> Package]
      BY <2>1, <2>3 DEF DInv, TypeOK, Restored, Taken, Package
    <3>2. draft' \in Seq(Row) /\ todo' \in SUBSET Deployments
      BY <1>4, <2>2 DEF DInv, TypeOK
    <3> QED BY <1>4, <3>1, <3>2 DEF DInv, TypeOK
  <2>5. TablesInv'
    <3>1. TableInv(draft, replaced)'
      <4>1. draft \in Seq(Row) /\ TableInv(draft, replaced)
        BY DEF DInv, TypeOK, TablesInv
      <4>2. \A e \in DOMAIN draft :
             /\ draft'[e].prev = draft[e].prev /\ draft'[e].backup = draft[e].backup
             /\ draft'[e].status = "pending" =>
                  draft[e].status = "pending" /\ draft'[e].phase \in {draft[e].phase, "files_switched", "failed"}
             /\ draft'[e].phase = "applying" /\ e = Len(draft) =>
                  draft[e].phase = "applying" /\ draft'[e].status = draft[e].status
        BY <2>2
      <4> QED BY <1>4, <2>2, <4>1, <4>2, TableInvUpdate
    <3>2. \A e \in Deployments : e > Len(rows) => backups'[e] = NULL
      BY <2>1, <2>3 DEF Taken, DInv, TablesInv
    <3> QED BY <1>4, <2>2, <3>1, <3>2 DEF DInv, TablesInv
  <2>6. KindInv'
    BY <1>4 DEF DInv, KindInv
  <2>7. DeployInv'
    BY <1>4 DEF DInv, DeployInv, DeploySteps, KindInv
  <2>8. UpInv'
    BY <1>4 DEF DInv, UpInv
  <2>9. DraftInv'
    BY <1>4 DEF DInv, DraftInv
  <2>10. BootInv'
    <3> SUFFICES ASSUME Pend PROVE BootInv'
      BY <1>4 DEF BootInv, Pend
    <3>1. backups[This] \in {NULL, replaced[This]} /\ (Switched => Kept) /\ This \in Deployments
      BY <1>1, <1>4 DEF DInv, BootInv, TablesKnown, Pend
    <3>2. backups'[This] \in {NULL, replaced[This]}
      BY <2>1, <2>3, <3>1 DEF Taken
    <3>3. Switched => backups'[This] = backups[This]
      BY <1>6, <2>1, <3>1 DEF Taken, Switched
    <3>4. Incomplete = {This} => d = This /\ (Kept \/ Back)
      BY <1>2, <1>4 DEF DInv, BootInv, FilesInv
    <3>5. Incomplete = {This} => replaced[This] = target'
      BY <2>1, <2>3, <3>1, <3>4 DEF Kept, Back, Restored
    <3>6. d = This => ~ Switched
      BY <1>6 DEF Switched
    <3>7. Switched /\ IncompleteIn(was.rows) = {} => Incomplete = {This}
      BY <1>4 DEF DInv, BootInv
    <3> QED BY <1>3, <1>4, <3>1, <3>2, <3>3, <3>4, <3>5, <3>6, <3>7 DEF BootInv, Kept, Back, Switched
  <2>11. FilesInv'
    <3>1. Len(draft) = Len(rows) /\ (DraftPend => Pend /\ (This \in todo \/ Switched)) /\ todo \subseteq Incomplete
      BY <1>4 DEF DInv, TablesInv, FilesInv
    <3>2. DraftPend' => DraftPend /\ d # This
      <4>1. draft' # <<>> => draft # <<>>
        BY <2>2, EmptySeq, <1>1 DEF TablesKnown
      <4> QED BY <1>1, <2>2, <3>1, <4>1 DEF DraftPend, Last, TablesKnown, This
    <3>3. Pend' = Pend /\ Switched' = Switched
      BY <1>4 DEF Pend, Switched
    <3> QED BY <1>3, <1>4, <3>1, <3>2, <3>3 DEF FilesInv
  <2>12. RollInv'
    BY <1>4 DEF DInv, RollInv
  <2> QED BY <2>4, <2>5, <2>6, <2>7, <2>8, <2>9, <2>10, <2>11, <2>12 DEF DInv
<1> QED BY <1>5, <1>6

LEMMA CommitRecoveryDInv == ASSUME DInv, CommitRecovery PROVE DInv'
<1>1. TablesKnown
  BY Tables
<1>2. /\ phase = "files" /\ phase' = "pending" /\ todo = {} /\ rows' = draft /\ draft' = <<>>
      /\ todo' = Pending(draft)
      /\ UNCHANGED <<disk, boots, running, reports, pc, op, before, dep, was, replaced>>
  BY DEF CommitRecovery, history
<1>3. Len(draft) = Len(rows) /\ TableInv(draft, replaced) /\ Len(rows) <= MaxRows
  BY <1>2 DEF DInv, TypeOK, TablesInv
<1>4. Pending(draft) \subseteq DOMAIN draft
  BY DEF Pending
<1>5. TypeOK'
  <2>1. rows' \in Seq(Row) /\ Len(rows') <= MaxRows /\ draft' \in Seq(Row)
    BY <1>1, <1>2, <1>3, EmptySeq DEF TablesKnown
  <2>2. todo' \in SUBSET Deployments
    BY <1>1, <1>2, <1>4 DEF TablesKnown
  <2> QED BY <1>2, <2>1, <2>2 DEF DInv, TypeOK, disk
<1>6. TablesInv'
  <2>1. Len(<<>>) = 0 /\ TableInv(<<>>, replaced)
    BY DEF TableInv
  <2>2. \A d \in Deployments : d > Len(rows) => backups[d] = NULL
    BY DEF DInv, TablesInv
  <2>3. pc = "idle" /\ Len(rows) \in Nat /\ backups' = backups
    BY <1>1, <1>2 DEF DInv, KindInv, TablesKnown, disk
  <2> QED BY <1>2, <1>3, <2>1, <2>2, <2>3 DEF TablesInv, DraftSteps
<1>7. KindInv'
  BY <1>1, <1>2 DEF DInv, KindInv, InstallSteps, DeploySteps, Roll, disk, history
<1>8. DeployInv'
  BY <1>1, <1>2
     DEF DInv, DeployInv, DeploySteps, This, disk, history, KindInv, InstallSteps, Roll,
        TablesKnown
<1>9. UpInv'
  BY <1>1, <1>2
     DEF UpInv, Pend, Switched, Kept, Back, This, BackSteps, TakenSteps, Roll, disk, history
<1>10. DraftInv'
  BY <1>1, <1>2 DEF DraftInv, DraftPend, Last, Kept, Back, This, TakenSteps, Roll, disk, history
<1>11. BootInv'
  <2> SUFFICES ASSUME Pend' PROVE BootInv'
    BY DEF BootInv
  <2>1. This' = This /\ UNCHANGED <<target, backups, replaced, was>>
    BY <1>2, <1>3 DEF This, disk
  <2>2. DraftPend
    BY <1>2, <1>3 DEF Pend, DraftPend, Last, This
  <2>3. Pend /\ Switched
    BY <1>2, <2>2 DEF DInv, FilesInv
  <2>4. backups[This] \in {NULL, replaced[This]} /\ Kept
    BY <1>2, <2>3 DEF DInv, BootInv
  <2>5. Switched' => This \in todo'
    BY <1>1, <1>2, <1>3, <2>1, <2>2 DEF Switched, Pending, DraftPend, Last, TablesKnown, This
  <2>6. IncompleteIn(was.rows) = {} =>
          Incomplete = {This} /\ target = rows[This].version /\ draft = rows
    BY <1>2, <2>3 DEF DInv, BootInv
  <2>7. draft = rows => Incomplete' = Incomplete /\ todo' \subseteq Incomplete /\ rows' = rows
    BY <1>2 DEF Incomplete, IncompleteIn, Pending
  <2> QED BY <1>2, <2>1, <2>4, <2>5, <2>6, <2>7 DEF BootInv, Kept, Switched
<1>12. FilesInv'
  BY <1>1, <1>2 DEF FilesInv, disk, history
<1>13. RollInv'
  BY <1>1, <1>2 DEF RollInv, Roll, DraftSteps, PutBack, TakesBackup, disk, history
<1> QED BY <1>5, <1>6, <1>7, <1>8, <1>9, <1>10, <1>11, <1>12, <1>13 DEF DInv

LEMMA RecoverPendingDInv == ASSUME DInv, NEW d \in Deployments, RecoverPending(d) PROVE DInv'
<1>1. TablesKnown
  BY Tables
<1>2. d \in todo
  BY NewestTodo DEF RecoverPending
<1>3. PICK to \in Package, good \in BOOLEAN :
        /\ running' = to
        /\ rows' = Marked(d, good)
        /\ reports' = [reports EXCEPT ![d] = IF good THEN "ok" ELSE "error"]
  BY DEF RecoverPending
<1>4. /\ rows' \in Seq(Row) /\ Len(rows') = Len(rows) /\ DOMAIN rows' = DOMAIN rows
      /\ \A e \in DOMAIN rows :
           /\ rows'[e].version = rows[e].version /\ rows'[e].backup = rows[e].backup
           /\ rows'[e].prev = rows[e].prev
           /\ \/ e = d /\ rows'[e].phase = "active" /\ rows'[e].status = "active"
              \/ e = d /\ rows'[e].phase = "failed" /\ rows'[e].status = rows[e].status
              \/ e # d /\ rows'[e].phase = rows[e].phase /\ rows'[e].status = rows[e].status
  BY <1>1, <1>3, MarkedFacts DEF TablesKnown
<1>5. rows' # <<>> => rows # <<>>
  BY <1>4, EmptySeq DEF TablesKnown
<1>6. /\ phase = "pending" /\ todo' = todo \ {d}
      /\ UNCHANGED <<disk, phase, boots, pc, local, history>>
  BY DEF RecoverPending
<1>7. TypeOK'
  <2>1. rows' \in Seq(Row) /\ Len(rows') <= MaxRows
    BY <1>4 DEF DInv, TypeOK
  <2>2. reports' \in [Deployments -> {"none", "ok", "error"}] /\ running' \in Package
    BY <1>3 DEF DInv, TypeOK
  <2> QED BY <1>6, <2>1, <2>2 DEF DInv, TypeOK, local, history, disk
<1>8. TablesInv'
  <2>1. TableInv(rows, replaced)'
    <3>1. rows \in Seq(Row) /\ TableInv(rows, replaced)
      BY DEF DInv, TypeOK, TablesInv
    <3>2. \A h \in DOMAIN rows :
           /\ rows'[h].prev = rows[h].prev /\ rows'[h].backup = rows[h].backup
           /\ rows'[h].status = "pending" =>
                rows[h].status = "pending" /\ rows'[h].phase \in {rows[h].phase, "files_switched", "failed"}
           /\ rows'[h].phase = "applying" /\ h = Len(rows) =>
                rows[h].phase = "applying" /\ rows'[h].status = rows[h].status
      BY <1>4
    <3>3. replaced' = replaced
      BY <1>6 DEF Keep, history
    <3> QED BY <3>1, <3>2, <3>3, <1>4, TableInvUpdate
  <2>2. draft' = draft /\ replaced' = replaced /\ backups' = backups /\ op' = op /\ phase' = phase
    BY <1>6 DEF Keep, local, history, disk
  <2>3. /\ TableInv(draft, replaced)' /\ Len(draft') <= Len(rows')
        /\ \A h \in Deployments : h > Len(rows') => backups'[h] = NULL
    BY <1>4, <2>2 DEF DInv, TablesInv
  <2>4. phase' = "files" \/ (Roll' /\ pc' \in DraftSteps) => phase = "files" \/ (Roll /\ pc \in DraftSteps)
    BY <1>6, <2>2 DEF Goto, Roll, DraftSteps
  <2> QED BY <1>4, <2>1, <2>2, <2>3, <2>4 DEF DInv, TablesInv
<1>9. KindInv'
  BY <1>1, <1>2, <1>3, <1>4, <1>5, <1>6
     DEF DInv, KindInv, InstallSteps, DeploySteps, Roll, disk, local, history
<1>10. DeployInv'
  BY <1>1, <1>2, <1>3, <1>4, <1>5, <1>6
     DEF DInv, DeployInv, DeploySteps, This, disk, local, history, KindInv, InstallSteps, Roll,
        TablesKnown
<1>11. UpInv'
  BY <1>1, <1>2, <1>3, <1>4, <1>5, <1>6
     DEF UpInv, Pend, Switched, Kept, Back, This, BackSteps, TakenSteps, Roll, disk, local,
        history
<1>12. DraftInv'
  BY <1>1, <1>2, <1>3, <1>4, <1>5, <1>6
     DEF DraftInv, DraftPend, Last, Kept, Back, This, TakenSteps, Roll, disk, local, history
<1>13. BootInv'
  <2> SUFFICES ASSUME Pend' PROVE BootInv'
    BY DEF BootInv
  <2>1. This' = This /\ UNCHANGED <<target, backups, replaced, was>> /\ phase' = "pending"
    BY <1>4, <1>6 DEF This, disk, history
  <2>2. Pend /\ This \in DOMAIN rows
    BY <1>1, <1>4, <1>5, <2>1 DEF Pend, TablesKnown
  <2>3. /\ backups[This] \in {NULL, replaced[This]} /\ Kept
        /\ Switched => This \in todo
    BY <1>6, <2>2 DEF DInv, BootInv
  <2>4. Switched' => Switched /\ d # This
    BY <1>4, <2>1, <2>2 DEF Switched, Pend
  <2>5. ~ (Switched' /\ IncompleteIn(was.rows) = {})
    BY <1>2, <1>6, <2>2, <2>4 DEF DInv, BootInv
  <2>6. Switched' => This \in todo'
    BY <1>6, <2>3, <2>4
  <2> QED BY <2>1, <2>3, <2>5, <2>6 DEF BootInv, Kept
<1>14. FilesInv'
  BY <1>1, <1>2, <1>3, <1>4, <1>5, <1>6 DEF FilesInv, disk, local, history
<1>15. RollInv'
  BY <1>1, <1>2, <1>3, <1>4, <1>5, <1>6
     DEF RollInv, Roll, DraftSteps, PutBack, TakesBackup, disk, local, history
<1> QED BY <1>7, <1>8, <1>9, <1>10, <1>11, <1>12, <1>13, <1>14, <1>15 DEF DInv

LEMMA BootedDInv == ASSUME DInv, Booted PROVE DInv'
<1>1. TypeOK'
  BY DEF DInv, TypeOK, Booted, disk, local, history
<1>2. TablesInv'
  BY DEF DInv, TablesInv, Roll, DraftSteps, Booted, disk, local, history
<1>3. KindInv'
  BY DEF DInv, KindInv, InstallSteps, DeploySteps, Roll, Booted, disk, local, history
<1>4. DeployInv'
  BY DEF DInv, DeployInv, DeploySteps, This, Booted, disk, local, history, KindInv,
     InstallSteps, Roll
<1>5. UpInv'
  BY DEF DInv, UpInv, Pend, Switched, Kept, This, BackSteps, TakenSteps, Booted, disk, local,
     history, BootInv, KindInv
<1>6. DraftInv'
  BY DEF DInv, DraftInv, TakenSteps, Booted, local, KindInv
<1>7. BootInv' /\ FilesInv'
  BY DEF BootInv, Booted, disk, local, history, FilesInv
<1>8. RollInv'
  BY DEF DInv, RollInv, Roll, DraftSteps, PutBack, TakesBackup, Booted, disk, local, history,
     KindInv, InstallSteps, DeploySteps
<1> QED BY <1>1, <1>2, <1>3, <1>4, <1>5, <1>6, <1>7, <1>8 DEF DInv

-----------------------------------------------------------------------------
(* The invariant holds. *)

LEMMA InitDInv == Init => DInv
<1> SUFFICES ASSUME Init PROVE DInv
  OBVIOUS
<1>1. <<>> \in Seq(Row) /\ Len(<<>>) = 0 /\ DOMAIN <<>> = {}
  BY EmptySeq
<1>2. TypeOK
  BY <1>1, BoundAssumption DEF Init, TypeOK, Package, Steps
<1>3. TablesInv /\ KindInv /\ DeployInv
  BY <1>1 DEF Init, TablesInv, TableInv, KindInv, InstallSteps, DeploySteps, DeployInv, Deployments, Roll
<1>4. UpInv /\ DraftInv /\ BootInv /\ FilesInv /\ RollInv
  BY DEF Init, UpInv, Pend, DraftInv, Roll, BootInv, FilesInv, RollInv
<1> QED BY <1>2, <1>3, <1>4 DEF DInv

LEMMA StutterDInv == ASSUME DInv, UNCHANGED vars PROVE DInv'
<1>1. UNCHANGED <<target, staging, backups, guard, rows, phase, boots, running, reports, pc, op, before,
                  dep, draft, todo, was, replaced>>
  BY DEF vars, disk, local, history
<1>2. Guarded' = Guarded /\ Current' = Current /\ Incomplete' = Incomplete
  BY <1>1 DEF Guarded, Current, With, Incomplete
<1>3. TypeOK' /\ TablesInv' /\ KindInv' /\ DeployInv'
  BY <1>1, <1>2 DEF DInv, TypeOK, TablesInv, KindInv, DeployInv, Roll, This
<1>4. UpInv' /\ DraftInv' /\ BootInv' /\ FilesInv' /\ RollInv'
  BY <1>1, <1>2 DEF DInv, UpInv, DraftInv, BootInv, FilesInv, RollInv, Roll, This, Pend, Switched,
    Kept, Back, DraftPend, PutBack, TakesBackup
<1> QED BY <1>3, <1>4 DEF DInv

LEMMA ApproveAnyDInv ==
  ASSUME DInv, NEW proposal \in Proposals, Approve(proposal[1], proposal[2]) PROVE DInv'
<1>1. /\ proposal[1] \in {"install", "rollback"} /\ proposal[2] \in Package
      /\ proposal[1] = "install" => proposal[2] \in Versions
  BY DEF Proposals, Package
<1> QED BY <1>1, ApproveDInv

LEMMA NextDInv == DInv /\ [Next]_vars => DInv'
<1> SUFFICES ASSUME DInv, [Next]_vars PROVE DInv'
  OBVIOUS
<1>1. CASE \E proposal \in Proposals : Approve(proposal[1], proposal[2])
  BY <1>1, ApproveAnyDInv
<1>2. CASE Install
  BY <1>2, CandidateChangedDInv, StageDInv, DeployAgainDInv, InsertDeploymentDInv, MoveAwayDInv,
     MoveInDInv, FilesSwitchedDInv, SupersedeDInv, DeployFailsDInv, UndoDInv, MarkFailedDInv,
     SettleDInv, Zenon DEF Install
<1>3. CASE Rollback
  BY <1>3, KeepGuardDInv, RemoveCurrentDInv, RestoreBackupDInv, RolledBackDInv, Zenon DEF Rollback
<1>4. CASE Activate
  BY <1>4, RequestDInv, ExecuteDInv, AppliedDInv, Zenon DEF Activate
<1>5. CASE Revert
  BY <1>5, CompensateDInv, PutBackBackupDInv, PutBackGuardDInv, PutBackRowsDInv, ReconcileDInv, Zenon
     DEF Revert
<1>6. CASE Boot
  BY <1>6, RestartDInv, CommitRecoveryDInv, BootedDInv, ClearTargetDInv, RecoverFilesDInv,
     RecoverPendingDInv, Zenon DEF Boot
<1>7. CASE Crash
  BY <1>7, CrashDInv
<1>8. CASE UNCHANGED vars
  BY <1>8, StutterDInv
<1> QED BY <1>1, <1>2, <1>3, <1>4, <1>5, <1>6, <1>7, <1>8, Zenon DEF Next

LEMMA DInvHolds == Spec => []DInv
<1>1. Init => DInv
  BY InitDInv
<1>2. DInv /\ [Next]_vars => DInv'
  BY NextDInv
<1> QED BY <1>1, <1>2, PTL DEF Spec

\* Every variable has its type: no step of a deployment, a rollback, a
\* compensation or a recovery writes a row the table has no place for.
THEOREM DeployTypeCorrect == Spec => []TypeOK
<1>1. DInv => TypeOK
  BY DEF DInv
<1> QED BY <1>1, DInvHolds, PTL

-----------------------------------------------------------------------------
(* What is never lost. *)

\* The package that the newest, unfinished deployment replaced is in the target
\* or in its backup, wherever the process died.
THEOREM PackageKept == Spec => []ReplacedPackageIsKept
<1>1. DInv => ReplacedPackageIsKept
  <2> SUFFICES ASSUME DInv, Incomplete = {This}, rows[This].status = "pending"
               PROVE  replaced[This] \in {target, backups[This], NULL}
    BY DEF ReplacedPackageIsKept
  <2>1. TablesKnown
    BY Tables
  <2>2. Pend
    <3>1. This \in DOMAIN rows
      BY DEF Incomplete, IncompleteIn
    <3>2. rows # <<>>
      BY <2>1, <3>1, EmptySeq DEF TablesKnown
    <3> QED BY <3>2 DEF Pend
  <2>3. Kept \/ Back
    <3>1. CASE phase = "up"
      BY <2>2, <3>1 DEF DInv, UpInv
    <3>2. CASE phase # "up"
      BY <2>2, <3>2 DEF DInv, BootInv, TypeOK
    <3> QED BY <3>1, <3>2
  <2> QED BY <2>3 DEF Kept, Back
<1> QED BY <1>1, DInvHolds, PTL

\* The only step that ends the recovery of the directories.
LEMMA RecoveredStep == ASSUME Next, Recovered PROVE CommitRecovery
<1>1. phase = "files" /\ phase' = "pending"
  BY DEF Recovered
<1>2. ~ \E proposal \in Proposals : Approve(proposal[1], proposal[2])
  BY <1>1 DEF Approve, Goto
<1>3. ~ Install
  BY <1>1 DEF Install, CandidateChanged, Stage, DeployAgain, InsertDeployment, MoveAway, MoveIn,
    FilesSwitched, Supersede, DeployFails, Undo, MarkFailed, Settle, Goto
<1>4. ~ Rollback
  BY <1>1 DEF Rollback, KeepGuard, RemoveCurrent, RestoreBackup, RolledBack, Goto
<1>5. ~ Activate
  BY <1>1 DEF Activate, Request, Execute, Applied, Goto
<1>6. ~ Revert
  BY <1>1 DEF Revert, Compensate, PutBackBackup, PutBackGuard, PutBackRows, Reconcile, Goto
<1>7. ~ Crash
  BY <1>1 DEF Crash
<1>8. Boot => CommitRecovery
  BY <1>1 DEF Boot, Restart, Booted, ClearTarget, RecoverFiles, RecoverPending
<1> QED BY <1>2, <1>3, <1>4, <1>5, <1>6, <1>7, <1>8, Zenon DEF Next

\* A restart undoes a deployment whose files were not switched, and leaves the
\* new package of one whose files were.
THEOREM RecoveryCorrect == Spec => RecoveryFinishesOrUndoes
<1> DEFINE Done == Recovered /\ Incomplete = {This} /\ IncompleteIn(was.rows) = {} =>
       /\ rows[This].phase = "applying" => target = replaced[This]
       /\ rows[This].phase = "files_switched" /\ rows[This].status = "pending" =>
            target = rows[This].version
<1>1. DInv /\ [Next]_vars => [Done]_vars
  <2> SUFFICES ASSUME DInv, Next, Recovered, Incomplete = {This}, IncompleteIn(was.rows) = {}
               PROVE  /\ rows[This].phase = "applying" => target = replaced[This]
                      /\ rows[This].phase = "files_switched" /\ rows[This].status = "pending" =>
                           target = rows[This].version
    BY DEF Recovered, vars
  <2>1. phase = "files" /\ todo = {}
    BY RecoveredStep DEF CommitRecovery
  <2>2. TablesKnown
    BY Tables
  <2>3. This \in DOMAIN rows /\ rows # <<>>
    <3>1. This \in DOMAIN rows
      BY DEF Incomplete, IncompleteIn
    <3> QED BY <2>2, <3>1, EmptySeq DEF TablesKnown
  <2>4. rows[This].phase = "applying" => Pend /\ ~ Switched
    BY <2>3 DEF DInv, TablesInv, TableInv, Last, Pend, This, Switched
  <2>5. Pend /\ ~ Switched => Back
    BY <2>1 DEF DInv, BootInv
  <2>6. Pend /\ Switched => target = rows[This].version
    BY <2>1 DEF DInv, BootInv
  <2> QED BY <2>3, <2>4, <2>5, <2>6 DEF Back, Pend, Switched
<1> QED BY <1>1, DInvHolds, PTL DEF Spec, RecoveryFinishesOrUndoes

\* The only step that ends a compensation.
LEMMA RevertedStep == ASSUME DInv, Next, NEW kind, Reverted(kind) PROVE Reconcile
<1>1. pc = "reconcile" /\ phase = "up" /\ phase' = "up"
  BY DEF Reverted, DInv, KindInv
<1>2. ~ \E proposal \in Proposals : Approve(proposal[1], proposal[2])
  BY <1>1 DEF Approve, Goto
<1>3. ~ Install
  BY <1>1 DEF Install, CandidateChanged, Stage, DeployAgain, InsertDeployment, MoveAway, MoveIn,
    FilesSwitched, Supersede, DeployFails, Undo, MarkFailed, Settle, Goto
<1>4. ~ Rollback
  BY <1>1 DEF Rollback, KeepGuard, RemoveCurrent, RestoreBackup, RolledBack, Goto
<1>5. ~ Activate
  BY <1>1 DEF Activate, Request, Execute, Applied, Goto
<1>6. Revert => Reconcile
  BY <1>1 DEF Revert, Compensate, PutBackBackup, PutBackGuard, PutBackRows, Goto
<1>7. ~ Crash
  BY <1>1 DEF Crash
<1>8. ~ Boot
  BY <1>1 DEF Boot, Restart, CommitRecovery, Booted, ClearTarget, RecoverFiles, RecoverPending
<1> QED BY <1>2, <1>3, <1>4, <1>5, <1>6, <1>7, <1>8, Zenon DEF Next

\* A rollback that fails leaves the package, the backups and the rows there were
\* at its approval, and the plugin runs what it ran.
THEOREM RollbackUndone == Spec => FailedRollbackRestores
<1> DEFINE Done == Reverted("rollback") =>
       /\ target = was.target /\ backups = was.backups /\ rows = was.rows
       /\ BackToBefore
<1>1. DInv /\ [Next]_vars => [Done]_vars
  <2> SUFFICES ASSUME DInv, Next, Reverted("rollback")
               PROVE  /\ target = was.target /\ backups = was.backups /\ rows = was.rows
                      /\ BackToBefore
    OBVIOUS
  <2>1. Reconcile
    BY RevertedStep
  <2>2. target = was.target /\ backups = was.backups /\ rows = was.rows
    BY <2>1 DEF Reconcile, Goto, Reverted, DInv, RollInv, Roll, DraftSteps
  <2>3. BackToBefore
    BY <2>1, <2>2 DEF BackToBefore, Reconcile, Reloads
  <2> QED BY <2>2, <2>3
<1> QED BY <1>1, DInvHolds, PTL DEF Spec, FailedRollbackRestores
-----------------------------------------------------------------------------
(* What an applied deployment leaves, and a failed one.  A second invariant: *)
(* which reports and rows an activation can meet, and how a failing install *)
(* gets back to what there was at its approval. *)

\* The newest deployment awaits its activation.
Awaits(table) == table # <<>> /\ Last(table).status = "pending_activation"

\* The deployment of the install under way is the only one that is live.
New == With(Live) = {This} /\ target = rows[This].version /\ target = op.version

\* At rest a deployment that still awaits its activation has failed to
\* activate, so nobody reports it as done; a row there is not has no report.
ReportInv ==
  /\ \A d \in Deployments : d > Len(rows) => reports[d] = "none"
  /\ phase = "up" /\ Awaits(rows) =>
       \/ reports[This] = "error"
       \/ reports[This] = "none" /\ ~ Roll /\ pc \in {"request", "reload"} /\ New
  /\ phase = "up" /\ Roll /\ pc \in DraftSteps \ {"reconcile"} /\ Awaits(draft) =>
       reports[This] = "error"

\* A recovery comes to the newest row if it awaits its activation.
AwaitInv ==
  /\ \A table \in {rows, draft} : Awaits(table) => Last(table).phase \in {"files_switched", "failed"}
  /\ phase = "files" /\ Awaits(draft) => This \in todo \/ Last(draft).phase = "files_switched"
  /\ phase = "files" /\ This \in todo => Last(draft) = rows[This]
  /\ phase = "pending" => todo \subseteq DOMAIN rows
  /\ phase = "pending" /\ Awaits(rows) => This \in todo \/ reports[This] = "error"

\* A rollback does not meet the newest deployment when it activates, and an
\* install meets it before anybody has reported on it.
ActivateInv ==
  /\ pc \in DeploySteps =>
       rows[This].status = "pending" /\ rows[This].version = op.version /\ reports[This] = "none"
  /\ pc = "reload" =>
       dep = Awaiting /\ (dep = This => ~ Roll /\ reports[This] = "none")
  /\ pc = "applied" /\ dep = This =>
       running = rows[This].version /\ target = running /\ With(Live) = {This}
  /\ Roll /\ pc \in {"request", "reload", "applied"} /\ rows # <<>> => rows[This].status \notin Live
  /\ pc \in {"restore", "rolledback"} => dep = Current

KInv == ReportInv /\ AwaitInv /\ ActivateInv

\* What is looked up in the rows changes with them only.
LEMMA SameLookups ==
  ASSUME rows' = rows
  PROVE  /\ With(Live)' = With(Live) /\ Current' = Current /\ Awaiting' = Awaiting
         /\ With({"pending_activation"})' = With({"pending_activation"}) /\ This' = This
BY DEF With, Current, Awaiting, This

\* The newest row, if it awaits its activation, is the one a request is for.
LEMMA AwaitsFacts ==
  ASSUME DInv
  PROVE  /\ Awaits(rows) => This \in DOMAIN rows /\ Last(rows) = rows[This]
         /\ Awaits(rows) => Awaiting = This /\ Current = This
         /\ Awaiting = This => Awaits(rows)
         /\ Awaiting = NULL <=> With({"pending_activation"}) = {}
         /\ Current # NULL => Current \in DOMAIN rows /\ Current <= This
         /\ rows # <<>> /\ Current # This => rows[This].status \notin Live \cup {"pending"}
         /\ NULL # This
<1>1. TablesKnown
  BY Tables
<1>2. rows \in Seq(Row) /\ Len(rows) <= MaxRows /\ Len(rows) \in Nat /\ DOMAIN rows = 1..Len(rows)
  BY <1>1 DEF TablesKnown, DInv, TypeOK
<1> DEFINE waiting == With({"pending_activation"})  found == With(Live \cup {"pending"})
<1>3. /\ waiting = {} => Newest(waiting) = NULL
      /\ waiting # {} => Newest(waiting) \in waiting /\ \A e \in waiting : e <= Newest(waiting)
  BY <1>2, NewestWith DEF With
<1>4. /\ found = {} => Newest(found) = NULL
      /\ found # {} => Newest(found) \in found /\ \A e \in found : e <= Newest(found)
  BY <1>2, NewestWith DEF With
<1>5. Awaiting = Newest(waiting) /\ Current = Newest(found)
  BY DEF Awaiting, Current
<1>6. Awaits(rows) => This \in DOMAIN rows /\ Last(rows) = rows[This]
  BY <1>1 DEF Awaits, TablesKnown, Last, This
<1>7. Awaits(rows) => This \in waiting /\ This \in found
  BY <1>6 DEF Awaits, With, Live
<1>8. waiting \subseteq 1..Len(rows) /\ found \subseteq 1..Len(rows) /\ This = Len(rows)
  BY <1>2 DEF With, This
<1>9. This \in waiting => Awaits(rows)
  <2> SUFFICES ASSUME This \in waiting PROVE Awaits(rows)
    OBVIOUS
  <2>1. This \in DOMAIN rows /\ rows[This].status = "pending_activation"
    BY DEF With
  <2>2. rows # <<>>
    BY <1>2, <2>1, EmptySeq
  <2> QED BY <2>1, <2>2 DEF Awaits, Last, This
<1>10. rows # <<>> /\ rows[This].status \in Live \cup {"pending"} => This \in found
  BY <1>1 DEF TablesKnown, With
<1> HIDE DEF waiting, found
<1>11. NULL # This /\ \A d \in 1..Len(rows) : d # NULL
  BY <1>2, <1>8, NullAssumption
<1>12. ASSUME This \in waiting PROVE Newest(waiting) = This
  <2>1. waiting # {} /\ This <= Newest(waiting) /\ Newest(waiting) \in 1..Len(rows)
    BY <1>3, <1>8, <1>12, Zenon
  <2> QED BY <1>2, <1>8, <2>1
<1>13. ASSUME This \in found PROVE Newest(found) = This
  <2>1. found # {} /\ This <= Newest(found) /\ Newest(found) \in 1..Len(rows)
    BY <1>4, <1>8, <1>13, Zenon
  <2> QED BY <1>2, <1>8, <2>1
<1>14. Awaiting = This => This \in waiting
  BY <1>3, <1>5, <1>11
<1>15. Awaiting = NULL <=> waiting = {}
  BY <1>3, <1>5, <1>8, <1>11
<1>16. Current # NULL => Current \in DOMAIN rows /\ Current <= This
  <2>1. Current # NULL => Current \in 1..Len(rows)
    BY <1>4, <1>5, <1>8, Zenon
  <2> QED BY <1>2, <1>8, <2>1
<1> QED BY <1>5, <1>6, <1>7, <1>9, <1>10, <1>11, <1>12, <1>13, <1>14, <1>15, <1>16 DEF waiting

\* Steps that touch neither rows nor reports.
LEMMA QuietK ==
  ASSUME DInv, KInv, UNCHANGED <<rows, draft, reports, phase, op, todo>>, phase = "up",
         pc \notin {"request", "reload"}, pc' \notin {"reload", "applied"}, pc' = "request" => ~ Roll,
         pc' \in DeploySteps => pc \in DeploySteps,
         pc' \in {"restore", "rolledback"} => dep' = Current,
         Roll /\ pc' \in DraftSteps \ {"reconcile"} => pc \in DraftSteps \ {"reconcile"}
  PROVE  KInv'
<1>1. With(Live)' = With(Live) /\ Current' = Current /\ This' = This
  BY SameLookups
<1>2. ReportInv'
  BY <1>1 DEF KInv, ReportInv, Awaits, Last, Roll
<1>3. AwaitInv'
  BY <1>1 DEF KInv, AwaitInv, Awaits, Last
<1>4. ActivateInv'
  BY <1>1 DEF KInv, ActivateInv, Roll
<1> QED BY <1>2, <1>3, <1>4 DEF KInv

LEMMA QuietSteps ==
  ASSUME DInv, KInv,
         \/ CandidateChanged \/ Stage \/ DeployAgain \/ MoveAway \/ MoveIn \/ DeployFails \/ Undo
         \/ RemoveCurrent \/ RestoreBackup \/ Applied \/ Compensate \/ PutBackBackup \/ PutBackGuard
         \/ Reconcile
  PROVE  KInv'
<1>1. UNCHANGED <<rows, draft, reports, phase, op, todo>> /\ phase = "up"
  BY DEF CandidateChanged, Stage, DeployAgain, MoveAway, MoveIn, DeployFails, Undo, RemoveCurrent,
    RestoreBackup, Applied, Compensate, PutBackBackup, PutBackGuard, Reconcile, Goto, Keep, local
<1>2. pc \notin {"request", "reload"} /\ pc' \notin {"reload", "applied"}
  BY DEF CandidateChanged, Stage, DeployAgain, MoveAway, MoveIn, DeployFails, Undo, RemoveCurrent,
    RestoreBackup, Applied, Compensate, PutBackBackup, PutBackGuard, Reconcile, Goto
<1>3. pc' = "request" => ~ Roll
  BY DEF CandidateChanged, Stage, DeployAgain, MoveAway, MoveIn, DeployFails, Undo, RemoveCurrent,
    RestoreBackup, Applied, Compensate, PutBackBackup, PutBackGuard, Reconcile, Goto,
    DInv, KindInv, InstallSteps, Roll
<1>4. pc' \in DeploySteps => pc \in DeploySteps
  BY DEF CandidateChanged, Stage, DeployAgain, MoveAway, MoveIn, DeployFails, Undo, RemoveCurrent,
    RestoreBackup, Applied, Compensate, PutBackBackup, PutBackGuard, Reconcile, Goto, DeploySteps
<1>5. pc' \in {"restore", "rolledback"} => dep' = Current
  BY DEF CandidateChanged, Stage, DeployAgain, MoveAway, MoveIn, DeployFails, Undo, RemoveCurrent,
    RestoreBackup, Applied, Compensate, PutBackBackup, PutBackGuard, Reconcile, Goto, local,
    KInv, ActivateInv
<1>6. Roll /\ pc' \in DraftSteps \ {"reconcile"} => pc \in DraftSteps \ {"reconcile"}
  BY DEF CandidateChanged, Stage, DeployAgain, MoveAway, MoveIn, DeployFails, Undo, RemoveCurrent,
    RestoreBackup, Applied, Compensate, PutBackBackup, PutBackGuard, Reconcile, Goto,
    DraftSteps, DInv, KindInv, InstallSteps, Roll
<1> QED BY <1>1, <1>2, <1>3, <1>4, <1>5, <1>6, QuietK

\* When a proposal is approved nothing is under way.
LEMMA ApproveK ==
  ASSUME DInv, KInv, NEW kind \in {"install", "rollback"}, NEW v, Approve(kind, v) PROVE KInv'
<1>1. With(Live)' = With(Live) /\ Current' = Current /\ This' = This
  BY SameLookups DEF Approve
<1>2. /\ phase = "up" /\ pc = "idle" /\ pc' \in {"stage", "guard"}
      /\ UNCHANGED <<rows, draft, reports, phase, todo>>
  BY DEF Approve, Goto
<1>3. ReportInv'
  BY <1>1, <1>2 DEF KInv, ReportInv, Awaits, Last, DraftSteps
<1>4. AwaitInv'
  BY <1>1, <1>2 DEF KInv, AwaitInv, Awaits, Last
<1>5. ActivateInv'
  BY <1>2 DEF ActivateInv, DeploySteps
<1> QED BY <1>3, <1>4, <1>5 DEF KInv

LEMMA KeepGuardK == ASSUME DInv, KInv, KeepGuard PROVE KInv'
<1>1. With(Live)' = With(Live) /\ Current' = Current /\ This' = This
  BY SameLookups DEF KeepGuard
<1>2. /\ phase = "up" /\ pc = "guard" /\ pc' \in {"compensate", "remove"} /\ draft' = rows
      /\ UNCHANGED <<rows, reports, phase, op, todo>>
  BY DEF KeepGuard, Goto, Keep
<1>3. ReportInv'
  BY <1>1, <1>2 DEF KInv, ReportInv, Awaits, Last, Roll
<1>4. AwaitInv'
  BY <1>1, <1>2 DEF KInv, AwaitInv, Awaits, Last
<1>5. ActivateInv'
  BY <1>2 DEF ActivateInv, DeploySteps
<1> QED BY <1>3, <1>4, <1>5 DEF KInv

\* The new row is pending, and nobody reported on it.
LEMMA InsertDeploymentK == ASSUME DInv, KInv, InsertDeployment PROVE KInv'
<1>1. TablesKnown /\ DInv'
  BY Tables, InsertDeploymentDInv
<1>2. PICK prev : rows' = Inserted(op.version, target # NULL, prev)
  BY DEF InsertDeployment
<1>3. /\ Len(rows') = Len(rows) + 1 /\ rows'[Len(rows) + 1].status = "pending"
      /\ rows'[Len(rows) + 1].version = op.version
  BY <1>1, <1>2 DEF TablesKnown, Inserted
<1>4. /\ phase = "up" /\ pc = "deploy" /\ pc' \in {"away", "in"} /\ This' = Len(rows) + 1
      /\ UNCHANGED <<draft, reports, phase, op, todo>> /\ ~ Roll
  BY <1>3 DEF InsertDeployment, Goto, local, This, DInv, KindInv, InstallSteps, Roll
<1>5. ~ Awaits(rows)' /\ Len(rows) + 1 \in Deployments /\ Len(rows) \in Nat
  <2>1. Len(rows') <= MaxRows
    BY <1>1 DEF DInv, TypeOK
  <2> QED BY <1>1, <1>3, <2>1, BoundAssumption DEF Awaits, Last, TablesKnown, Deployments
<1>6. reports'[Len(rows) + 1] = "none"
  BY <1>4, <1>5 DEF KInv, ReportInv
<1>7. ReportInv'
  BY <1>3, <1>4, <1>5 DEF KInv, ReportInv, Roll, DraftSteps, Deployments
<1>8. AwaitInv'
  BY <1>4, <1>5 DEF KInv, AwaitInv, Awaits, Last
<1>9. ActivateInv'
  BY <1>3, <1>4, <1>6 DEF ActivateInv, Roll
<1> QED BY <1>7, <1>8, <1>9 DEF KInv

\* A row whose phase is written keeps its status.
LEMMA PhaseWritten ==
  ASSUME DInv, KInv, FilesSwitched \/ MarkFailed PROVE KInv'
<1>1. TablesKnown
  BY Tables
<1>2. PICK step \in {"files_switched", "failed"} : rows' = Phased(rows, This, step)
  BY DEF FilesSwitched, MarkFailed, Phased
<1>3. /\ Len(rows') = Len(rows) /\ DOMAIN rows' = DOMAIN rows
      /\ \A e \in DOMAIN rows : rows'[e].version = rows[e].version /\ rows'[e].status = rows[e].status
  BY <1>1, <1>2, PhaseFacts DEF TablesKnown, Phases
<1>4. /\ phase = "up" /\ pc \in DeploySteps /\ pc' \in {"supersede", "settle"} /\ This' = This
      /\ UNCHANGED <<draft, reports, phase, op, todo>> /\ ~ Roll
  BY <1>3 DEF FilesSwitched, MarkFailed, Goto, Keep, local, This, DInv, KindInv, InstallSteps, DeploySteps, Roll
<1>5. This \in DOMAIN rows
  BY <1>1, <1>4 DEF DInv, DeployInv, TablesKnown
<1>6. ~ Awaits(rows)'
  BY <1>3, <1>4, <1>5 DEF KInv, ActivateInv, Awaits, Last, This
<1>7. ReportInv'
  BY <1>3, <1>4, <1>6 DEF KInv, ReportInv, Roll
<1>8. AwaitInv'
  BY <1>4, <1>6 DEF KInv, AwaitInv, Awaits, Last
<1>9. ActivateInv'
  BY <1>3, <1>4, <1>5 DEF KInv, ActivateInv, Roll, DeploySteps
<1> QED BY <1>7, <1>8, <1>9 DEF KInv

\* The rows after the newest was made to await its activation ...
LEMMA SupersedeRows ==
  ASSUME DInv, Supersede
  PROVE  /\ Len(rows') = Len(rows) /\ DOMAIN rows' = DOMAIN rows /\ This \in DOMAIN rows
         /\ With(Live)' = {This}
         /\ \A e \in DOMAIN rows :
              /\ rows'[e].version = rows[e].version /\ rows'[e].backup = rows[e].backup
              /\ rows'[e].prev = rows[e].prev /\ rows'[e].phase = rows[e].phase
         /\ rows'[This].status = "pending_activation"
<1>1. TablesKnown
  BY Tables
<1>2. rows \in [1..Len(rows) -> Row] /\ Len(rows) \in Nat /\ DOMAIN rows = 1..Len(rows)
  BY TableFacts DEF DInv, TypeOK
<1>3. rows' \in [1..Len(rows) -> Row]
  BY <1>2 DEF Supersede, Row
<1>4. rows' \in Seq(Row) /\ Len(rows') = Len(rows) /\ DOMAIN rows' = DOMAIN rows
  BY <1>2, <1>3, FunctionIsTable
<1>5. \A e \in DOMAIN rows :
        /\ rows'[e].version = rows[e].version /\ rows'[e].backup = rows[e].backup
        /\ rows'[e].prev = rows[e].prev /\ rows'[e].phase = rows[e].phase
        /\ rows'[e].status = IF e = This THEN "pending_activation"
                            ELSE IF e \in Superseded THEN "superseded" ELSE rows[e].status
  BY <1>2 DEF Supersede, Row
<1>6. This \in DOMAIN rows
  BY <1>1 DEF DInv, DeployInv, TablesKnown, Supersede, Goto, DeploySteps
<1>7. With(Live)' = {This}
  <2>1. \A e \in DOMAIN rows : e # This => rows'[e].status \notin Live
    BY <1>5 DEF Superseded, With, Live
  <2>2. rows'[This].status \in Live
    BY <1>5, <1>6 DEF Live
  <2> QED BY <1>4, <1>6, <2>1, <2>2 DEF With
<1> QED BY <1>4, <1>5, <1>6, <1>7

LEMMA SupersedeK == ASSUME DInv, KInv, Supersede PROVE KInv'
<1>1. /\ Len(rows') = Len(rows) /\ This \in DOMAIN rows
      /\ With(Live)' = {This}
      /\ rows'[This].version = rows[This].version /\ rows'[This].phase = rows[This].phase
  BY SupersedeRows
<1>2. /\ phase = "up" /\ pc = "supersede" /\ pc' = "request" /\ This' = This
      /\ UNCHANGED <<target, draft, reports, phase, op, todo>> /\ ~ Roll
  BY <1>1 DEF Supersede, Goto, Keep, disk, local, This, DInv, KindInv, InstallSteps, DeploySteps, Roll
<1>3. /\ rows[This].version = op.version /\ reports[This] = "none" /\ target = rows[This].version
      /\ rows[This].phase = "files_switched"
  BY <1>2 DEF DInv, DeployInv, KInv, ActivateInv, DeploySteps
<1>4. ReportInv'
  BY <1>1, <1>2, <1>3 DEF KInv, ReportInv, Roll, New
<1>5. AwaitInv'
  BY <1>1, <1>2, <1>3 DEF KInv, AwaitInv, Awaits, Last, This
<1>6. ActivateInv'
  BY <1>2 DEF ActivateInv, Roll, DeploySteps
<1> QED BY <1>4, <1>5, <1>6 DEF KInv

\* ... and after a deployment failed.
LEMMA SettleRows ==
  ASSUME DInv, Settle
  PROVE  /\ Len(rows') = Len(rows) /\ DOMAIN rows' = DOMAIN rows /\ This \in DOMAIN rows
         /\ \A e \in DOMAIN rows :
              rows'[e].status = IF e = This THEN "failed"
                                ELSE IF e = Prev(This) THEN "active" ELSE rows[e].status
<1>1. TablesKnown
  BY Tables
<1>2. rows \in [1..Len(rows) -> Row] /\ Len(rows) \in Nat /\ DOMAIN rows = 1..Len(rows)
  BY TableFacts DEF DInv, TypeOK
<1>3. rows' \in [1..Len(rows) -> Row]
  BY <1>2 DEF Settle, Row
<1>4. rows' \in Seq(Row) /\ Len(rows') = Len(rows) /\ DOMAIN rows' = DOMAIN rows
  BY <1>2, <1>3, FunctionIsTable
<1>5. \A e \in DOMAIN rows :
        rows'[e].status = IF e = This THEN "failed"
                          ELSE IF e = Prev(This) THEN "active" ELSE rows[e].status
  BY <1>2 DEF Settle, Row
<1>6. This \in DOMAIN rows
  BY <1>1 DEF DInv, DeployInv, TablesKnown, Settle, Goto, DeploySteps
<1> QED BY <1>4, <1>5, <1>6

LEMMA SettleK == ASSUME DInv, KInv, Settle PROVE KInv'
<1>1. Len(rows') = Len(rows) /\ This \in DOMAIN rows /\ rows'[This].status = "failed"
  BY SettleRows
<1>2. /\ phase = "up" /\ pc = "settle" /\ pc' = "compensate" /\ This' = This
      /\ UNCHANGED <<draft, reports, phase, op, todo>> /\ ~ Roll
  BY <1>1 DEF Settle, Goto, Keep, local, This, DInv, KindInv, InstallSteps, DeploySteps, Roll
<1>3. ~ Awaits(rows)'
  BY <1>1 DEF Awaits, Last, This
<1>4. ReportInv' /\ AwaitInv' /\ ActivateInv'
  BY <1>1, <1>2, <1>3 DEF KInv, ReportInv, AwaitInv, ActivateInv, Awaits, Last, Roll, DeploySteps
<1> QED BY <1>4 DEF KInv

\* After a rollback the newest row is not live: it was taken back, or it was
\* over before.
LEMMA RolledBackRows ==
  ASSUME DInv, KInv, RolledBack
  PROVE  /\ Len(rows') = Len(rows) /\ DOMAIN rows' = DOMAIN rows /\ dep \in DOMAIN rows
         /\ \A e \in DOMAIN rows :
              rows'[e].status = IF e = Prev(dep) THEN "pending_activation"
                                ELSE IF e = dep THEN "rolled_back" ELSE rows[e].status
         /\ This \in DOMAIN rows /\ rows'[This].status \notin Live
         /\ Prev(dep) = NULL \/ (Prev(dep) \in DOMAIN rows /\ Prev(dep) < dep)
<1>1. TablesKnown
  BY Tables
<1>2. rows' = TakenFrom(rows, dep, Prev(dep), "rolled_back")
  BY DEF RolledBack, TakenBack, TakenFrom
<1>3. /\ rows' \in Seq(Row) /\ Len(rows') = Len(rows) /\ DOMAIN rows' = DOMAIN rows
      /\ \A e \in DOMAIN rows :
           rows'[e].status = IF e = Prev(dep) THEN "pending_activation"
                             ELSE IF e = dep THEN "rolled_back" ELSE rows[e].status
  BY <1>1, <1>2, TakenFromFacts DEF TablesKnown
<1>4. pc = "rolledback" /\ dep = Current /\ dep \in DOMAIN rows
  BY DEF RolledBack, Goto, DInv, DeployInv, KInv, ActivateInv
<1>5. rows # <<>> /\ This \in DOMAIN rows
  BY <1>1, <1>4, EmptySeq DEF TablesKnown
<1>6. Prev(dep) = NULL \/ (Prev(dep) \in DOMAIN rows /\ Prev(dep) < dep)
  <2>1. Prev(dep) = NULL \/ Prev(dep) < dep
    BY <1>4 DEF DInv, TablesInv, TableInv, Prev
  <2>2. Prev(dep) \in Deployments \cup {NULL}
    BY <1>1, <1>4 DEF TablesKnown, Prev
  <2> QED BY <1>1, <1>4, <2>1, <2>2, BoundAssumption DEF TablesKnown, Deployments
<1>7. Current <= This /\ (Current # This => rows[This].status \notin Live \cup {"pending"})
  BY <1>1, <1>4, <1>5, NullAssumption, AwaitsFacts DEF TablesKnown
<1>8. This # Prev(dep)
  BY <1>1, <1>4, <1>5, <1>6, <1>7, NullAssumption DEF TablesKnown
<1>9. rows'[This].status \notin Live
  BY <1>3, <1>4, <1>5, <1>7, <1>8 DEF Live
<1> QED BY <1>3, <1>4, <1>5, <1>6, <1>9

LEMMA RolledBackK == ASSUME DInv, KInv, RolledBack PROVE KInv'
<1>1. Len(rows') = Len(rows) /\ This \in DOMAIN rows /\ rows'[This].status \notin Live
  BY RolledBackRows
<1>2. /\ phase = "up" /\ pc = "rolledback" /\ pc' \in {"reconcile", "request"} /\ This' = This
      /\ UNCHANGED <<draft, reports, phase, op, todo>>
  BY <1>1 DEF RolledBack, Goto, Keep, local, This
<1>3. ~ Awaits(rows)'
  BY <1>1 DEF Awaits, Last, This, Live
<1>4. ReportInv'
  BY <1>1, <1>2, <1>3 DEF KInv, ReportInv, Roll, DraftSteps, Awaits, Last
<1>5. AwaitInv' /\ ActivateInv'
  BY <1>1, <1>2, <1>3 DEF KInv, AwaitInv, ActivateInv, Awaits, Last, Roll, DeploySteps
<1> QED BY <1>4, <1>5 DEF KInv

\* The request is for the newest deployment exactly if that awaits its
\* activation.
LEMMA RequestK == ASSUME DInv, KInv, Request PROVE KInv'
<1>1. With(Live)' = With(Live) /\ Current' = Current /\ This' = This /\ Awaiting' = Awaiting
  BY SameLookups DEF Request
<1>2. /\ phase = "up" /\ pc = "request" /\ dep' = Awaiting
      /\ pc' = IF dep' = NULL \/ reports[dep'] = "none" THEN "reload"
               ELSE IF reports[dep'] = "ok" THEN "applied" ELSE "compensate"
      /\ UNCHANGED <<target, rows, draft, reports, phase, op, todo>>
  BY DEF Request, Goto, Keep, disk
<1>3. /\ Awaits(rows) => Awaiting = This
      /\ Awaiting = This => Awaits(rows) /\ rows[This].status = "pending_activation" /\ rows # <<>>
      /\ NULL # This
  BY AwaitsFacts DEF Awaits
<1>4. Awaits(rows) =>
        reports[This] = "error" \/ (reports[This] = "none" /\ ~ Roll /\ New)
  BY <1>2 DEF KInv, ReportInv
<1>5. Roll /\ rows # <<>> => rows[This].status \notin Live
  BY <1>2 DEF KInv, ActivateInv
<1>6. ReportInv'
  <2>1. \A d \in Deployments : d > Len(rows') => reports'[d] = "none"
    BY <1>2 DEF KInv, ReportInv
  <2>2. Awaits(rows)' =>
          \/ reports'[This'] = "error"
          \/ reports'[This'] = "none" /\ ~ Roll' /\ pc' \in {"request", "reload"} /\ New'
    BY <1>1, <1>2, <1>3, <1>4 DEF Awaits, Last, Roll, New
  <2>3. Roll' /\ Awaits(draft)' => reports'[This'] = "error"
    BY <1>1, <1>2 DEF KInv, ReportInv, Awaits, Last, Roll, DraftSteps
  <2> QED BY <2>1, <2>2, <2>3 DEF ReportInv
<1>7. AwaitInv'
  BY <1>1, <1>2 DEF KInv, AwaitInv, Awaits, Last
<1>8. ActivateInv'
  <2>1. pc' = "reload" => dep' = Awaiting' /\ (dep' = This' => ~ Roll' /\ reports'[This'] = "none")
    BY <1>1, <1>2, <1>3, <1>5 DEF Roll, Live
  <2>2. ~ (pc' = "applied" /\ dep' = This')
    BY <1>1, <1>2, <1>3, <1>4
  <2>3. pc' \in {"reload", "applied", "compensate"}
    BY <1>2
  <2> QED BY <1>1, <1>2, <1>5, <2>1, <2>2, <2>3 DEF ActivateInv, Roll, DeploySteps
<1> QED BY <1>6, <1>7, <1>8 DEF KInv

\* An activation succeeds if the version installed came up.
LEMMA ExecuteK == ASSUME DInv, KInv, Execute PROVE KInv'
<1>1. TablesKnown /\ CurrentKnown
  BY Tables, CurrentRow
<1>2. PICK ok \in BOOLEAN, to \in Package, good \in BOOLEAN :
        /\ good => ok /\ (op.kind = "install" => to = op.version)
        /\ Reloads(to, ok)
        /\ pc = "reload" /\ phase = "up" /\ pc' = IF good THEN "applied" ELSE "compensate"
        /\ running' = to
        /\ rows' = Marked(dep, good)
        /\ reports' = IF dep = NULL THEN reports
                      ELSE [reports EXCEPT ![dep] = IF good THEN "ok" ELSE "error"]
        /\ UNCHANGED <<target, draft, dep, phase, op, todo>>
  <2>1. PICK ok \in BOOLEAN, to \in Package :
          LET good == ok /\ IF op.kind = "install" THEN Installed(to) ELSE RolledBackTo(to)
          IN  /\ Reloads(to, ok)
              /\ Goto("reload", IF good THEN "applied" ELSE "compensate")
              /\ running' = to
              /\ rows' = Marked(dep, good)
              /\ reports' = IF dep = NULL THEN reports
                            ELSE [reports EXCEPT ![dep] = IF good THEN "ok" ELSE "error"]
              /\ UNCHANGED <<disk, local>> /\ Keep
    BY DEF Execute
  <2> DEFINE good == ok /\ IF op.kind = "install" THEN Installed(to) ELSE RolledBackTo(to)
  <2>2. good \in BOOLEAN /\ (good => ok /\ (op.kind = "install" => to = op.version))
    BY DEF Installed, Wanted, RolledBackTo
  <2>3. Goto("reload", IF good THEN "applied" ELSE "compensate") /\ Keep /\ UNCHANGED <<disk, local>>
    BY <2>1
  <2> QED BY <2>1, <2>2, <2>3 DEF Goto, Keep, disk, local
<1>3. /\ Len(rows') = Len(rows) /\ DOMAIN rows' = DOMAIN rows
      /\ \A e \in DOMAIN rows :
           /\ rows'[e].version = rows[e].version
           /\ \/ e = dep /\ good /\ rows'[e].status = "active"
              \/ e = dep /\ ~ good /\ rows'[e].phase = "failed" /\ rows'[e].status = rows[e].status
              \/ e # dep /\ rows'[e].phase = rows[e].phase /\ rows'[e].status = rows[e].status
  <2>1. rows \in Seq(Row)
    BY <1>1 DEF TablesKnown
  <2>2. CASE dep = NULL
    BY <1>1, <1>2, <2>2, NullAssumption DEF Marked, TablesKnown
  <2>3. CASE dep # NULL /\ good
    <3>1. rows' = Set(rows, dep, "active", "active")
      BY <1>2, <2>3 DEF Marked
    <3> QED BY <2>1, <2>3, <3>1, SetFacts DEF Statuses, Phases
  <2>4. CASE dep # NULL /\ ~ good
    <3>1. rows' = Phased(rows, dep, "failed")
      BY <1>2, <2>4 DEF Marked, Phased
    <3> QED BY <2>1, <2>4, <3>1, PhaseFacts DEF Phases
  <2> QED BY <2>2, <2>3, <2>4
<1>4. /\ dep = Awaiting /\ (dep = This => ~ Roll /\ reports[This] = "none")
      /\ Roll /\ rows # <<>> => rows[This].status \notin Live
  BY <1>2 DEF KInv, ActivateInv
<1>5. /\ Awaits(rows) => dep = This /\ This \in DOMAIN rows /\ Last(rows) = rows[This]
      /\ dep = This => Awaits(rows)
      /\ NULL # This
  BY <1>4, AwaitsFacts
<1>6. /\ This' = This
      /\ rows' # <<>> => rows # <<>> /\ This \in DOMAIN rows
      /\ dep \in Deployments \cup {NULL} /\ (dep # NULL => dep \in DOMAIN rows)
      /\ reports \in [Deployments -> {"none", "ok", "error"}]
  <2>1. rows' # <<>> => rows # <<>>
    BY <1>1, <1>2, <1>3, EmptySeq, MarkedFacts DEF TablesKnown
  <2>2. rows \in Seq(Row) /\ Len(rows) <= MaxRows
    BY DEF DInv, TypeOK
  <2>3. dep # NULL => dep \in DOMAIN rows
    BY <1>4, <2>2, AwaitingFacts
  <2> QED BY <1>1, <1>3, <1>4, <2>1, <2>3 DEF This, TablesKnown, CurrentKnown, DInv, TypeOK
<1>7. dep = This => New
  BY <1>2, <1>4, <1>5 DEF KInv, ReportInv
<1>8. Awaits(rows)' => Awaits(rows) /\ dep = This /\ ~ good
  <2> SUFFICES ASSUME Awaits(rows)' PROVE Awaits(rows) /\ dep = This /\ ~ good
    OBVIOUS
  <2>1. rows # <<>> /\ This \in DOMAIN rows /\ rows'[This].status = "pending_activation"
    BY <1>3, <1>6 DEF Awaits, Last, This
  <2>2. rows[This].status = "pending_activation" /\ (dep = This => ~ good)
    BY <1>3, <2>1
  <2>3. Awaits(rows)
    BY <2>1, <2>2 DEF Awaits, Last, This
  <2> QED BY <1>5, <2>2, <2>3
<1>9. ReportInv'
  <2>1. \A d \in Deployments : d > Len(rows') => reports'[d] = "none"
    <3>1. \A d \in Deployments : d > Len(rows) => reports[d] = "none"
      BY DEF KInv, ReportInv
    <3> QED BY <1>1, <1>2, <1>3, <1>6, <3>1 DEF TablesKnown, Deployments
  <2>2. Awaits(rows)' => reports'[This'] = "error"
    BY <1>2, <1>5, <1>6, <1>8
  <2>3. Roll' /\ Awaits(draft)' => reports'[This'] = "error"
    <3> SUFFICES ASSUME Roll, Awaits(draft) PROVE reports'[This'] = "error"
      BY <1>2 DEF Roll, Awaits, Last
    <3>1. reports[This] = "error" /\ dep # This
      BY <1>2, <1>4 DEF KInv, ReportInv, DraftSteps
    <3> QED BY <1>2, <1>3, <1>6, <3>1 DEF This
  <2> QED BY <2>1, <2>2, <2>3 DEF ReportInv
<1>10. AwaitInv'
  <2>1. Awaits(rows)' => Last(rows)'.phase \in {"files_switched", "failed"}
    BY <1>3, <1>5, <1>6, <1>8 DEF Last, This
  <2>2. Awaits(draft)' => Last(draft)'.phase \in {"files_switched", "failed"}
    BY <1>2 DEF KInv, AwaitInv, Awaits, Last
  <2> QED BY <1>2, <2>1, <2>2 DEF AwaitInv
<1>11. ActivateInv'
  <2>1. pc' = "applied" /\ dep' = This' =>
          running' = rows'[This'].version /\ target' = running' /\ With(Live)' = {This'}
    <3> SUFFICES ASSUME pc' = "applied", dep' = This'
                 PROVE  running' = rows'[This'].version /\ target' = running' /\ With(Live)' = {This'}
      OBVIOUS
    <3>1. good /\ This' = This /\ dep = This
      BY <1>2, <1>3 DEF This
    <3>2. New /\ ~ Roll /\ This \in DOMAIN rows
      BY <1>4, <1>5, <1>7, <3>1
    <3>3. to = target
      BY <1>2, <3>1 DEF Reloads
    <3>4. With(Live)' = {This}
      <4>1. \A e \in DOMAIN rows : rows[e].status \in Live <=> e = This
        BY <3>2 DEF New, With
      <4>2. rows'[This].status \in Live /\ \A e \in DOMAIN rows : e # This => rows'[e].status = rows[e].status
        BY <1>3, <3>1, <3>2 DEF Live
      <4> QED BY <1>3, <3>2, <4>1, <4>2 DEF With
    <3> QED BY <1>2, <1>3, <3>1, <3>2, <3>3, <3>4 DEF New
  <2>2. Roll' /\ rows' # <<>> => rows'[This'].status \notin Live
    <3> SUFFICES ASSUME Roll, rows' # <<>> PROVE rows'[This'].status \notin Live
      BY <1>2 DEF Roll
    <3>1. rows # <<>> /\ This \in DOMAIN rows /\ dep # This /\ rows[This].status \notin Live
      BY <1>4, <1>6
    <3> QED BY <1>3, <3>1 DEF This
  <2> QED BY <1>2, <2>1, <2>2 DEF ActivateInv, DeploySteps
<1> QED BY <1>9, <1>10, <1>11 DEF KInv

LEMMA PutBackRowsK == ASSUME DInv, KInv, PutBackRows PROVE KInv'
<1>1. /\ phase = "up" /\ pc = "unrows" /\ pc' = "reconcile" /\ rows' = draft /\ Roll
      /\ UNCHANGED <<draft, reports, phase, op, todo>>
  BY DEF PutBackRows, Goto, Keep, local, DInv, KindInv
<1>2. Len(draft) = Len(rows)
  BY <1>1 DEF DInv, TablesInv, DraftSteps
<1>3. This' = This /\ Len(rows') = Len(rows)
  BY <1>1, <1>2 DEF This
<1>4. Awaits(draft) => reports[This] = "error"
  BY <1>1 DEF KInv, ReportInv, DraftSteps
<1>5. ReportInv'
  BY <1>1, <1>3, <1>4 DEF KInv, ReportInv, Awaits, Last
<1>6. AwaitInv' /\ ActivateInv'
  BY <1>1, <1>3 DEF KInv, AwaitInv, ActivateInv, Awaits, Last, DeploySteps
<1> QED BY <1>5, <1>6 DEF KInv

-----------------------------------------------------------------------------
(* The same through crashes and recoveries. *)

LEMMA CrashK == ASSUME DInv, KInv, Crash PROVE KInv'
<1>1. /\ phase' = "down" /\ pc' = "idle" /\ draft' = <<>> /\ rows' = rows
      /\ reports' = [d \in Deployments |-> "none"]
  BY DEF Crash
<1>2. ReportInv' /\ AwaitInv' /\ ActivateInv'
  BY <1>1 DEF KInv, ReportInv, AwaitInv, ActivateInv, Awaits, Last, DeploySteps
<1> QED BY <1>2 DEF KInv

LEMMA RestartK == ASSUME DInv, KInv, Restart PROVE KInv'
<1>1. /\ phase = "down" /\ phase' = "files" /\ pc' = pc /\ draft' = rows /\ rows' = rows /\ todo' = Incomplete
      /\ reports' = reports /\ This' = This
  BY DEF Restart, This
<1>2. pc = "idle"
  BY <1>1 DEF DInv, KindInv
<1>3. Awaits(rows) => This \in DOMAIN rows /\ Last(rows) = rows[This]
  BY AwaitsFacts
<1>4. Awaits(rows) => Last(rows).phase = "files_switched" \/ This \in Incomplete
  BY <1>3 DEF KInv, AwaitInv, Awaits, Incomplete, IncompleteIn
<1>5. ReportInv' /\ ActivateInv'
  BY <1>1, <1>2 DEF KInv, ReportInv, ActivateInv, DeploySteps
<1>6. AwaitInv'
  BY <1>1, <1>4 DEF KInv, AwaitInv, Awaits, Last, This
<1> QED BY <1>5, <1>6 DEF KInv

LEMMA ClearTargetK == ASSUME DInv, KInv, NEW d \in Deployments, ClearTarget(d) PROVE KInv'
<1>1. /\ phase = "files" /\ UNCHANGED <<rows, draft, reports, phase, pc, todo>> /\ This' = This
  BY DEF ClearTarget, local, This
<1>2. pc = "idle"
  BY <1>1 DEF DInv, KindInv
<1>3. ReportInv' /\ AwaitInv' /\ ActivateInv'
  BY <1>1, <1>2 DEF KInv, ReportInv, AwaitInv, ActivateInv, Awaits, Last, DeploySteps
<1> QED BY <1>3 DEF KInv

\* The row of the newest deployment is written when recovery comes to it.
LEMMA RecoverFilesK == ASSUME DInv, KInv, NEW d \in Deployments, RecoverFiles(d) PROVE KInv'
<1>1. TablesKnown
  BY Tables
<1>2. /\ phase = "files" /\ todo' = todo \ {d} /\ UNCHANGED <<rows, reports, phase, pc>> /\ This' = This
      /\ \/ rows[d].phase = "files_switched" /\ draft' = draft
         \/ draft' = TakenFrom(draft, d, Prev(d), "failed")
  BY DEF RecoverFiles, This, TakenFrom
<1>3. pc = "idle" /\ Len(draft) = Len(rows)
  BY <1>2 DEF DInv, KindInv, TablesInv
<1>4. d \in todo /\ d \in DOMAIN rows
  <2>1. d \in todo
    BY NewestTodo DEF RecoverFiles
  <2> QED BY <1>2, <2>1 DEF DInv, FilesInv, Incomplete, IncompleteIn
<1>5. /\ rows # <<>> /\ This \in DOMAIN rows /\ d <= This /\ d \in Int /\ This \in Int
      /\ This \in DOMAIN draft /\ This = Len(draft) /\ draft # <<>>
  BY <1>1, <1>3, <1>4, EmptySeq DEF TablesKnown, This
<1>6. This # Prev(d)
  <2>1. Prev(d) = NULL \/ Prev(d) < d
    BY <1>4 DEF DInv, TablesInv, TableInv, Prev
  <2> QED BY <1>5, <2>1, NullAssumption, <1>1 DEF TablesKnown
<1>7. /\ Len(draft') = Len(draft) /\ draft' # <<>>
      /\ d # This => draft'[This].status = draft[This].status /\ draft'[This].phase = draft[This].phase
      /\ d = This => draft' = draft \/ draft'[This].status # "pending_activation"
  <2>1. CASE draft' = draft
    BY <1>5, <2>1
  <2>2. CASE draft' = TakenFrom(draft, d, Prev(d), "failed")
    <3> DEFINE prev == Prev(d)
    <3> HIDE DEF prev
    <3>1. draft \in Seq(Row) /\ draft' = TakenFrom(draft, d, prev, "failed")
      BY <1>1, <2>2 DEF TablesKnown, prev
    <3>2. /\ draft' \in Seq(Row) /\ Len(draft') = Len(draft)
          /\ \A e \in DOMAIN draft :
               /\ draft'[e].status = IF e = prev THEN "pending_activation"
                                     ELSE IF e = d THEN "failed" ELSE draft[e].status
               /\ draft'[e].phase = IF e = prev THEN "files_switched"
                                    ELSE IF e = d THEN "failed" ELSE draft[e].phase
      BY <3>1, TakenFromFacts
    <3>3. This # prev
      BY <1>6 DEF prev
    <3>4. draft' # <<>>
      BY <1>5, <3>2, EmptySeq, <1>1 DEF TablesKnown
    <3> QED BY <1>5, <3>2, <3>3, <3>4
  <2> QED BY <2>1, <2>2, <1>2
<1>8. d # This => draft'[This] = draft[This]
  <2> SUFFICES ASSUME d # This, draft' = TakenFrom(draft, d, Prev(d), "failed") PROVE draft'[This] = draft[This]
    BY <1>2
  <2> DEFINE t == Set(draft, d, "failed", "failed")
  <2>1. /\ t \in Seq(Row) /\ DOMAIN t = DOMAIN draft /\ t[This] = draft[This]
    <3>1. /\ t \in Seq(Row) /\ DOMAIN t = DOMAIN draft
          /\ \A e \in DOMAIN draft : e # d => t[e] = draft[e]
      BY <1>1, SetFacts DEF TablesKnown, Statuses, Phases
    <3> QED BY <1>5, <3>1
  <2>2. draft' = IF Prev(d) = NULL THEN t ELSE Set(t, Prev(d), "pending_activation", "files_switched")
    BY DEF TakenFrom
  <2> HIDE DEF t
  <2>3. Set(t, Prev(d), "pending_activation", "files_switched")[This] = t[This]
    BY <1>5, <1>6, <2>1, SetFacts DEF Statuses, Phases
  <2> QED BY <2>1, <2>2, <2>3
<1>9. AwaitInv'
  <2>1. Last(draft') = draft'[This] /\ Last(draft) = draft[This]
    BY <1>5, <1>7 DEF Last
  <2>2. This \in todo => Last(draft) = rows[This]
    BY <1>2 DEF KInv, AwaitInv
  <2>3. Awaits(draft)' => Awaits(draft) /\ Last(draft)' = Last(draft)
    <3>1. CASE d = This
      BY <1>5, <1>7, <2>1, <3>1 DEF Awaits, Last
    <3>2. CASE d # This
      BY <1>5, <1>7, <1>8, <2>1, <3>2 DEF Awaits, Last
    <3> QED BY <3>1, <3>2
  <2>4. Awaits(draft)' => This \in todo' \/ Last(draft)'.phase = "files_switched"
    <3> SUFFICES ASSUME Awaits(draft)', This \notin todo' PROVE Last(draft)'.phase = "files_switched"
      OBVIOUS
    <3>1. CASE d = This
      <4>1. draft' = draft
        BY <1>7, <2>1, <3>1 DEF Awaits
      <4>2. rows[This].phase = "files_switched" \/ draft' = TakenFrom(draft, d, Prev(d), "failed")
        BY <1>2, <3>1
      <4>3. draft' # TakenFrom(draft, d, Prev(d), "failed")
        <5>2. TakenFrom(draft, d, Prev(d), "failed")[This].status = "failed"
          BY <1>1, <1>5, <1>6, <3>1, TakenFromFacts DEF TablesKnown
        <5> QED BY <2>1, <5>2 DEF Awaits
      <4> QED BY <1>4, <2>2, <3>1, <4>1, <4>2, <4>3 DEF Last
    <3>2. CASE d # This
      BY <1>2, <2>3, <3>2 DEF KInv, AwaitInv
    <3> QED BY <3>1, <3>2
  <2>5. This \in todo' => Last(draft)' = rows[This]
    BY <1>2, <1>8, <2>1, <2>2
  <2>6. \A table \in {rows, draft} : Awaits(table) => Last(table).phase \in {"files_switched", "failed"}
    BY DEF KInv, AwaitInv
  <2>7. /\ Awaits(rows)' => Last(rows)'.phase \in {"files_switched", "failed"}
        /\ Awaits(draft)' => Last(draft)'.phase \in {"files_switched", "failed"}
    BY <1>2, <2>3, <2>6 DEF Awaits, Last
  <2> QED BY <1>2, <2>4, <2>5, <2>7 DEF AwaitInv
<1>10. ReportInv' /\ ActivateInv'
  BY <1>2, <1>3 DEF KInv, ReportInv, ActivateInv, DeploySteps
<1> QED BY <1>9, <1>10 DEF KInv

LEMMA CommitRecoveryK == ASSUME DInv, KInv, CommitRecovery PROVE KInv'
<1>1. /\ phase = "files" /\ phase' = "pending" /\ todo = {} /\ rows' = draft /\ draft' = <<>>
      /\ todo' = Pending(draft) /\ UNCHANGED <<reports, pc>>
  BY DEF CommitRecovery
<1>2. pc = "idle" /\ Len(draft) = Len(rows) /\ This' = Len(draft) /\ TablesKnown
  BY <1>1, Tables DEF DInv, KindInv, TablesInv, This
<1>3. Awaits(draft) => Last(draft).phase = "files_switched" /\ Len(draft) \in DOMAIN draft
  BY <1>1, <1>2 DEF KInv, AwaitInv, TablesKnown, Awaits
<1>4. Awaits(draft) => This' \in todo'
  BY <1>1, <1>2, <1>3 DEF Pending, Awaits, Last
<1>5. AwaitInv'
  <2>1. todo' \subseteq DOMAIN rows'
    BY <1>1 DEF Pending
  <2> QED BY <1>1, <1>3, <1>4, <2>1 DEF AwaitInv, Awaits, Last
<1>6. ReportInv' /\ ActivateInv'
  BY <1>1, <1>2 DEF KInv, ReportInv, ActivateInv, DeploySteps
<1> QED BY <1>5, <1>6 DEF KInv

LEMMA RecoverPendingK == ASSUME DInv, KInv, NEW d \in Deployments, RecoverPending(d) PROVE KInv'
<1>1. TablesKnown
  BY Tables
<1>2. PICK good \in BOOLEAN :
        /\ phase = "pending" /\ todo' = todo \ {d} /\ rows' = Marked(d, good)
        /\ reports' = [reports EXCEPT ![d] = IF good THEN "ok" ELSE "error"]
        /\ UNCHANGED <<draft, phase, pc>>
  BY DEF RecoverPending, local
<1>3. pc = "idle" /\ reports \in [Deployments -> {"none", "ok", "error"}]
  BY <1>2 DEF DInv, KindInv, TypeOK
<1>4. d # NULL
  BY NullAssumption DEF Deployments
<1>5. /\ Len(rows') = Len(rows) /\ DOMAIN rows' = DOMAIN rows
      /\ \A e \in DOMAIN rows :
           \/ e = d /\ good /\ rows'[e].status = "active"
           \/ e = d /\ ~ good /\ rows'[e].phase = "failed"
           \/ e # d /\ rows'[e].phase = rows[e].phase /\ rows'[e].status = rows[e].status
      /\ rows' # <<>> => rows # <<>>
  <2>1. rows \in Seq(Row)
    BY <1>1 DEF TablesKnown
  <2>2. CASE good
    <3>1. rows' = Set(rows, d, "active", "active")
      BY <1>2, <1>4, <2>2 DEF Marked
    <3> QED BY <2>1, <2>2, <3>1, SetFacts, EmptySeq DEF Statuses, Phases
  <2>3. CASE ~ good
    <3>1. rows' = Phased(rows, d, "failed")
      BY <1>2, <1>4, <2>3 DEF Marked, Phased
    <3> QED BY <2>1, <2>3, <3>1, PhaseFacts, EmptySeq DEF Phases
  <2> QED BY <2>2, <2>3
<1>6. This' = This
  BY <1>5 DEF This
<1>7. Awaits(rows)' =>
        /\ This \in DOMAIN rows /\ Last(rows)' = rows'[This] /\ Last(rows) = rows[This]
        /\ This # d => Awaits(rows) /\ Last(rows)'.phase = Last(rows).phase
        /\ This = d => ~ good /\ Last(rows)'.phase = "failed"
  <2> SUFFICES ASSUME Awaits(rows)'
               PROVE  /\ This \in DOMAIN rows /\ Last(rows)' = rows'[This] /\ Last(rows) = rows[This]
                      /\ This # d => Awaits(rows) /\ Last(rows)'.phase = Last(rows).phase
                      /\ This = d => ~ good /\ Last(rows)'.phase = "failed"
    OBVIOUS
  <2>1. /\ rows # <<>> /\ This \in DOMAIN rows /\ Last(rows)' = rows'[This] /\ Last(rows) = rows[This]
        /\ rows'[This].status = "pending_activation"
    BY <1>1, <1>5 DEF Awaits, Last, This, TablesKnown
  <2> QED BY <1>5, <2>1 DEF Awaits
<1>8. d \in DOMAIN rows
  <2>1. d \in todo
    BY NewestTodo DEF RecoverPending
  <2> QED BY <1>2, <2>1 DEF KInv, AwaitInv, DInv
<1>9. ReportInv'
  <2>1. \A e \in Deployments : e > Len(rows) => reports[e] = "none"
    BY DEF KInv, ReportInv
  <2> QED BY <1>1, <1>2, <1>3, <1>5, <1>8, <2>1 DEF ReportInv, TablesKnown, Deployments
<1>10. AwaitInv'
  <2>1. /\ Awaits(rows) => Last(rows).phase \in {"files_switched", "failed"}
        /\ Awaits(draft) => Last(draft).phase \in {"files_switched", "failed"}
        /\ Awaits(rows) => This \in todo \/ reports[This] = "error"
    BY <1>2 DEF KInv, AwaitInv
  <2>2. Awaits(rows)' => Last(rows)'.phase \in {"files_switched", "failed"}
    BY <1>7, <2>1
  <2>3. Awaits(draft)' => Last(draft)'.phase \in {"files_switched", "failed"}
    BY <1>2, <2>1 DEF Awaits, Last
  <2>4. Awaits(rows)' => This \in todo' \/ reports'[This] = "error"
    BY <1>2, <1>3, <1>7, <2>1
  <2>5. todo' \subseteq DOMAIN rows'
    BY <1>2, <1>5 DEF KInv, AwaitInv
  <2> QED BY <1>2, <1>6, <2>2, <2>3, <2>4, <2>5 DEF AwaitInv
<1>11. ActivateInv'
  BY <1>2, <1>3 DEF ActivateInv, DeploySteps
<1> QED BY <1>9, <1>10, <1>11 DEF KInv

LEMMA BootedK == ASSUME DInv, KInv, Booted PROVE KInv'
<1>1. /\ phase = "pending" /\ phase' = "up" /\ todo = {} /\ UNCHANGED <<rows, draft, reports, pc>> /\ This' = This
  BY DEF Booted, local, This
<1>2. pc = "idle"
  BY <1>1 DEF DInv, KindInv
<1>3. ReportInv' /\ AwaitInv' /\ ActivateInv'
  BY <1>1, <1>2 DEF KInv, ReportInv, AwaitInv, ActivateInv, Awaits, Last, DeploySteps, DraftSteps
<1> QED BY <1>3 DEF KInv

LEMMA InitK == Init => KInv
<1> SUFFICES ASSUME Init PROVE KInv
  OBVIOUS
<1>1. rows = <<>> /\ draft = <<>> /\ phase = "up" /\ pc = "idle" /\ ~ Roll
      /\ \A d \in Deployments : reports[d] = "none"
  BY DEF Init, Roll
<1>2. ReportInv /\ AwaitInv /\ ActivateInv
  BY <1>1 DEF ReportInv, AwaitInv, ActivateInv, Awaits, DeploySteps
<1> QED BY <1>2 DEF KInv

LEMMA StutterK == ASSUME KInv, UNCHANGED vars PROVE KInv'
<1>1. UNCHANGED <<target, rows, phase, running, reports, pc, op, dep, draft, todo>>
  BY DEF vars, disk, local
<1>2. With(Live)' = With(Live) /\ Current' = Current /\ Awaiting' = Awaiting /\ This' = This
  BY <1>1, SameLookups
<1>3. ReportInv'
  BY <1>1, <1>2 DEF KInv, ReportInv, Awaits, Last, Roll, New
<1>4. AwaitInv' /\ ActivateInv'
  BY <1>1, <1>2 DEF KInv, AwaitInv, ActivateInv, Awaits, Last, Roll
<1> QED BY <1>3, <1>4 DEF KInv

LEMMA NextK == ASSUME DInv, KInv, [Next]_vars PROVE KInv'
<1>1. CASE \E proposal \in Proposals : Approve(proposal[1], proposal[2])
  <2>1. \A proposal \in Proposals : proposal[1] \in {"install", "rollback"}
    BY DEF Proposals
  <2> QED BY <1>1, <2>1, ApproveK
<1>2. CASE Install
  BY <1>2, QuietSteps, InsertDeploymentK, PhaseWritten, SupersedeK, SettleK, Zenon DEF Install
<1>3. CASE Rollback
  BY <1>3, QuietSteps, KeepGuardK, RolledBackK, Zenon DEF Rollback
<1>4. CASE Activate
  BY <1>4, QuietSteps, RequestK, ExecuteK, Zenon DEF Activate
<1>5. CASE Revert
  BY <1>5, QuietSteps, PutBackRowsK, Zenon DEF Revert
<1>6. CASE Boot
  BY <1>6, RestartK, CommitRecoveryK, BootedK, ClearTargetK, RecoverFilesK, RecoverPendingK, Zenon DEF Boot
<1>7. CASE Crash
  BY <1>7, CrashK
<1>8. CASE UNCHANGED vars
  BY <1>8, StutterK
<1> QED BY <1>1, <1>2, <1>3, <1>4, <1>5, <1>6, <1>7, <1>8, Zenon DEF Next

LEMMA KInvHolds == Spec => [](DInv /\ KInv)
<1>1. Init => DInv /\ KInv
  BY InitDInv, InitK
<1>2. DInv /\ KInv /\ [Next]_vars => (DInv /\ KInv)'
  BY NextDInv, NextK
<1> QED BY <1>1, <1>2, PTL DEF Spec

\* A new deployment whose proposal is marked applied is what runs, what is
\* installed and the only live one, however many failed or were rolled back
\* before and wherever the process died.
THEOREM DeploymentRuns == Spec => NewDeploymentRuns
<1> DEFINE Done == pc = "applied" /\ phase' = "up" /\ dep = This =>
       /\ running = rows[dep].version /\ target = running
       /\ With(Live) = {dep}
<1>1. DInv /\ KInv /\ [Next]_vars => [Done]_vars
  BY DEF KInv, ActivateInv
<1> QED BY <1>1, KInvHolds, PTL DEF Spec, NewDeploymentRuns

-----------------------------------------------------------------------------
(* How an install that fails gets back to what there was at its approval. *)

\* Package and backups are those of the approval, or can be made so again.
SameFiles == target = was.target /\ backups = was.backups
Saved ==
  /\ Taken(This) = was.backups
  /\ was.target = IF rows[This].backup THEN backups[This] ELSE NULL

\* So is the live deployment: nothing was switched, or the new row can be taken
\* back.
Undone == Latest(rows) = Latest(was.rows) /\ With({"pending_activation"}) = {}
Fresh == Awaits(rows) /\ With(Live) = {This} /\ Prev(This) = Latest(was.rows)

\* The rows are those of the approval and the new one.
OneRowMore ==
  /\ Len(was.rows) = Len(rows) - 1
  /\ \A d \in DOMAIN was.rows : was.rows[d] = rows[d]
  /\ Prev(This) = Latest(was.rows)
  /\ rows[This].backup = (was.target # NULL)

FilesOfInstall ==
  /\ pc \in {"stage", "deploy", "away", "markfailed", "settle", "rolledback", "reconcile"} => SameFiles
  /\ pc \in {"in", "switch", "supersede", "remove", "restore"} => Saved
  /\ pc = "away" => backups[This] = NULL
  /\ pc = "undo" => Saved \/ (SameFiles /\ backups[This] = NULL)

RowsOfInstall ==
  /\ pc \in {"stage", "deploy"} => rows = was.rows
  /\ pc \in DeploySteps => OneRowMore
  /\ pc \in {"remove", "restore", "rolledback"} => Fresh
  /\ pc \in {"restore", "rolledback"} => dep = This
  /\ pc = "reconcile" => Latest(rows) = Latest(was.rows)

\* An install, when no deployment awaited its activation at its approval.
Undoable ==
  /\ phase = "up" /\ ~ Roll
  /\ \A d \in DOMAIN was.rows : was.rows[d].status # "pending_activation"

InstallInv ==
  Undoable =>
    /\ FilesOfInstall /\ RowsOfInstall
    /\ pc \in {"request", "reload", "compensate"} => (SameFiles /\ Undone) \/ (Saved /\ Fresh)

\* What the invariant says where the rows stay.
LEMMA SameTable ==
  ASSUME DInv, UNCHANGED <<rows, was, op, phase>>
  PROVE  /\ Undone' <=> Undone
         /\ Fresh' <=> Fresh
         /\ Undoable' <=> Undoable
         /\ OneRowMore' <=> OneRowMore
         /\ This' = This /\ Latest(rows)' = Latest(rows) /\ Latest(was.rows)' = Latest(was.rows)
<1>1. This' = This /\ Prev(This)' = Prev(This) /\ Latest(rows)' = Latest(rows)
      /\ Latest(was.rows)' = Latest(was.rows) /\ (Awaits(rows)' <=> Awaits(rows))
  BY DEF This, Prev, Latest, Awaits, Last
<1>2. With(Live)' = With(Live) /\ With({"pending_activation"})' = With({"pending_activation"})
  BY SameLookups
<1>3. Undone' <=> Undone
  BY <1>1, <1>2 DEF Undone
<1>4. Fresh' <=> Fresh
  BY <1>1, <1>2 DEF Fresh
<1>5. Undoable' <=> Undoable
  BY DEF Undoable, Roll
<1>6. OneRowMore' <=> OneRowMore
  BY <1>1 DEF OneRowMore
<1> QED BY <1>1, <1>3, <1>4, <1>5, <1>6

\* At the approval nothing has happened yet.
LEMMA ApproveInstall ==
  ASSUME NEW kind \in {"install", "rollback"}, NEW v, Approve(kind, v) PROVE InstallInv'
<1>1. /\ pc' = IF kind = "install" THEN "stage" ELSE "guard"
      /\ op' = [kind |-> kind, version |-> v] /\ rows' = rows
      /\ was' = [target |-> target, backups |-> backups, rows |-> rows]
      /\ target' = target /\ backups' = backups
  BY DEF Approve, Goto, disk
<1>2. SameFiles' /\ rows' = was'.rows
  BY <1>1 DEF SameFiles
<1>3. Undoable' => pc' = "stage"
  BY <1>1 DEF Undoable, Roll
<1>4. Undoable' => FilesOfInstall' /\ RowsOfInstall'
  BY <1>2, <1>3 DEF FilesOfInstall, RowsOfInstall, DeploySteps
<1> QED BY <1>3, <1>4 DEF InstallInv

\* Steps before there is a row.
LEMMA EarlyInstall ==
  ASSUME DInv, InstallInv, CandidateChanged \/ Stage \/ DeployAgain PROVE InstallInv'
<1>1. /\ UNCHANGED <<target, backups, rows, was, op, phase>>
      /\ pc \in {"stage", "deploy"} /\ pc' \in {"deploy", "compensate", "request"}
  BY DEF CandidateChanged, Stage, DeployAgain, Goto, Keep, disk, local, history
<1> SUFFICES ASSUME Undoable'
             PROVE  /\ SameFiles' /\ Undone' /\ rows' = was'.rows
  BY <1>1 DEF InstallInv, FilesOfInstall, RowsOfInstall, DeploySteps
<1>2. Undoable /\ SameFiles /\ rows = was.rows
  BY <1>1, SameTable DEF InstallInv, FilesOfInstall, RowsOfInstall
<1>3. Undone
  BY <1>2 DEF Undone, Undoable, With
<1> QED BY <1>1, <1>2, <1>3, SameTable DEF SameFiles

\* The new row remembers the deployment that was live and whether there was a
\* package.
LEMMA InsertInstall == ASSUME DInv, InstallInv, InsertDeployment PROVE InstallInv'
<1>1. TablesKnown /\ DInv'
  BY Tables, InsertDeploymentDInv
<1>2. /\ UNCHANGED <<target, backups, was, op, phase>> /\ pc = "deploy"
      /\ pc' = IF target # NULL THEN "away" ELSE "in"
      /\ rows' = Inserted(op.version, target # NULL, Newest(With(Live)))
  BY DEF InsertDeployment, Goto, disk, local
<1> SUFFICES ASSUME Undoable' PROVE FilesOfInstall' /\ RowsOfInstall'
  BY <1>2 DEF InstallInv
<1>3. Undoable /\ SameFiles /\ rows = was.rows
  BY <1>2 DEF InstallInv, FilesOfInstall, RowsOfInstall, Undoable, Roll
<1>4. /\ Len(rows') = Len(rows) + 1 /\ This' = Len(rows) + 1
      /\ \A d \in DOMAIN rows : rows'[d] = rows[d]
      /\ rows'[Len(rows) + 1].backup = (target # NULL)
      /\ rows'[Len(rows) + 1].prev = Newest(With(Live))
  BY <1>1, <1>2 DEF TablesKnown, Inserted, This
<1>5. OneRowMore'
  <2>1. Newest(With(Live)) = Latest(was.rows) /\ Latest(was.rows)' = Latest(was.rows)
    BY <1>2, <1>3 DEF With, Latest
  <2>2. Prev(This)' = Newest(With(Live))
    BY <1>4 DEF Prev
  <2>3. Len(was.rows) = Len(rows') - 1 /\ \A d \in DOMAIN was.rows : was.rows[d] = rows'[d]
    BY <1>1, <1>3, <1>4 DEF TablesKnown
  <2>4. rows'[This'].backup = (was.target # NULL)
    BY <1>3, <1>4 DEF SameFiles
  <2> QED BY <1>2, <2>1, <2>2, <2>3, <2>4 DEF OneRowMore
<1>6. backups[Len(rows) + 1] = NULL
  <2>1. Len(rows) + 1 \in Deployments /\ Len(rows) + 1 > Len(rows)
    BY <1>1, <1>4, BoundAssumption DEF TablesKnown, Deployments, DInv, TypeOK
  <2> QED BY <2>1 DEF DInv, TablesInv
<1>7. pc' = "in" => Saved'
  BY <1>2, <1>3, <1>4 DEF Saved, SameFiles, Taken
<1>8. SameFiles' /\ pc' \in {"away", "in"}
  BY <1>2, <1>3 DEF SameFiles
<1>9. FilesOfInstall'
  BY <1>2, <1>4, <1>6, <1>7, <1>8 DEF FilesOfInstall
<1>10. RowsOfInstall'
  BY <1>5, <1>8 DEF RowsOfInstall
<1> QED BY <1>9, <1>10

\* Steps that move directories: where the replaced package is.
LEMMA MoveInstall ==
  ASSUME DInv, InstallInv, MoveAway \/ MoveIn \/ DeployFails \/ Undo PROVE InstallInv'
<1>1. /\ UNCHANGED <<rows, was, op, phase>> /\ pc \in {"away", "in", "undo"}
      /\ pc' \in {"in", "switch", "undo", "markfailed"}
  BY DEF MoveAway, MoveIn, DeployFails, Undo, Goto, Keep, local, history
<1> SUFFICES ASSUME Undoable' PROVE FilesOfInstall' /\ RowsOfInstall'
  BY <1>1 DEF InstallInv
<1>2. Undoable /\ OneRowMore /\ OneRowMore' /\ This' = This
  BY <1>1, SameTable DEF InstallInv, RowsOfInstall, DeploySteps
<1>3. /\ pc = "away" => SameFiles /\ backups[This] = NULL
      /\ pc = "in" => Saved
      /\ pc = "undo" => Saved \/ (SameFiles /\ backups[This] = NULL)
      /\ rows[This].backup = (was.target # NULL)
  BY <1>2 DEF InstallInv, FilesOfInstall, OneRowMore
<1>4. This \in Deployments /\ backups \in [Deployments -> Package]
  <2>1. rows # <<>> /\ TablesKnown
    BY <1>1, Tables DEF DInv, DeployInv, DeploySteps
  <2> QED BY <2>1 DEF TablesKnown, DInv, TypeOK
<1>5. CASE MoveAway
  <2>1. /\ pc = "away" /\ pc' = "in" /\ backups' = [backups EXCEPT ![This] = target]
    BY <1>5 DEF MoveAway, Goto
  <2>2. [backups' EXCEPT ![This] = NULL] = backups /\ backups'[This] = target
    BY <1>3, <1>4, <2>1
  <2>3. target = was.target /\ was.backups = backups
    BY <1>3, <2>1 DEF SameFiles
  <2>4. rows[This].backup <=> target # NULL
    BY <1>3, <2>3
  <2>5. ~ rows[This].backup => backups' = backups
    BY <1>3, <1>4, <2>1, <2>4
  <2>6. Saved'
    BY <1>1, <1>2, <2>2, <2>3, <2>4, <2>5 DEF Saved, Taken
  <2> QED BY <1>2, <2>1, <2>6 DEF FilesOfInstall, RowsOfInstall, DeploySteps
<1>6. CASE MoveIn
  <2>1. pc = "in" /\ pc' = "switch" /\ backups' = backups
    BY <1>6 DEF MoveIn, Goto
  <2>2. Saved'
    BY <1>1, <1>2, <1>3, <2>1 DEF Saved, Taken
  <2> QED BY <1>2, <2>1, <2>2 DEF FilesOfInstall, RowsOfInstall, DeploySteps
<1>7. CASE DeployFails
  <2>1. pc \in {"away", "in"} /\ pc' = "undo" /\ UNCHANGED <<target, backups>>
    BY <1>7 DEF DeployFails, Goto, disk
  <2>2. Saved' \/ (SameFiles' /\ backups'[This'] = NULL)
    BY <1>1, <1>2, <1>3, <2>1 DEF Saved, Taken, SameFiles
  <2> QED BY <1>2, <2>1, <2>2 DEF FilesOfInstall, RowsOfInstall, DeploySteps
<1>8. CASE Undo
  <2>1. pc = "undo" /\ pc' = "markfailed" /\ target' = Restored(This) /\ backups' = Taken(This)
    BY <1>8 DEF Undo, Goto
  <2>2. SameFiles'
    <3>1. CASE Saved
      BY <1>1, <1>3, <2>1, <3>1 DEF Saved, SameFiles, Restored
    <3>2. CASE SameFiles /\ backups[This] = NULL
      <4>1. Taken(This) = backups
        BY <1>4, <3>2 DEF Taken
      <4> QED BY <1>1, <1>3, <2>1, <3>2, <4>1 DEF SameFiles, Restored
    <3> QED BY <1>3, <2>1, <3>1, <3>2
  <2> QED BY <1>2, <2>1, <2>2 DEF FilesOfInstall, RowsOfInstall, DeploySteps
<1> QED BY <1>5, <1>6, <1>7, <1>8

\* The phase of the new row is written.
LEMMA PhaseInstall ==
  ASSUME DInv, InstallInv, FilesSwitched \/ MarkFailed PROVE InstallInv'
<1>1. TablesKnown
  BY Tables
<1>2. /\ UNCHANGED <<target, backups, was, op, phase>>
      /\ \/ pc = "switch" /\ pc' = "supersede"
         \/ pc = "markfailed" /\ pc' = "settle"
  BY DEF FilesSwitched, MarkFailed, Goto, Keep, disk, local, history
<1>3. PICK step \in {"files_switched", "failed"} : rows' = Phased(rows, This, step)
  BY DEF FilesSwitched, MarkFailed, Phased
<1>4. /\ Len(rows') = Len(rows) /\ DOMAIN rows' = DOMAIN rows
      /\ \A e \in DOMAIN rows : rows'[e].backup = rows[e].backup /\ rows'[e].prev = rows[e].prev
  BY <1>1, <1>3, PhaseFacts DEF TablesKnown, Phases
<1>5. \A e \in DOMAIN rows : e # This => rows'[e] = rows[e]
  BY <1>1, <1>3 DEF Phased, TablesKnown
<1> SUFFICES ASSUME Undoable' PROVE FilesOfInstall' /\ RowsOfInstall'
  BY <1>2 DEF InstallInv
<1>6. /\ Undoable /\ OneRowMore
      /\ pc = "switch" => Saved
      /\ pc = "markfailed" => SameFiles
  BY <1>2 DEF InstallInv, FilesOfInstall, RowsOfInstall, DeploySteps, Undoable, Roll
<1>7. This' = This /\ This \in DOMAIN rows /\ This = Len(rows)
  BY <1>1, <1>2, <1>4 DEF This, DInv, DeployInv, DeploySteps, TablesKnown
<1>8. OneRowMore'
  <2>1. Latest(was.rows)' = Latest(was.rows) /\ Prev(This)' = Prev(This)
    BY <1>2, <1>4, <1>7 DEF Latest, Prev
  <2>2. \A d \in DOMAIN was.rows : d \in DOMAIN rows /\ d # This
    <3>1. was.rows \in Seq(Row)
      BY DEF DInv, TypeOK
    <3>2. Len(was.rows) \in Nat /\ DOMAIN was.rows = 1..Len(was.rows)
      BY <3>1, TableFacts
    <3>3. Len(was.rows) = Len(rows) - 1 /\ Len(rows) \in Nat /\ DOMAIN rows = 1..Len(rows)
      BY <1>1, <1>6 DEF OneRowMore, TablesKnown
    <3> QED BY <1>7, <3>2, <3>3
  <2>3. \A d \in DOMAIN was.rows : was.rows[d] = rows'[d]
    BY <1>5, <1>6, <2>2 DEF OneRowMore
  <2> QED BY <1>2, <1>4, <1>6, <1>7, <2>1, <2>3 DEF OneRowMore
<1>9. pc' = "supersede" => Saved'
  BY <1>2, <1>4, <1>6, <1>7 DEF Saved, Taken
<1>10. pc' = "settle" => SameFiles'
  BY <1>2, <1>6 DEF SameFiles
<1> QED BY <1>2, <1>8, <1>9, <1>10 DEF FilesOfInstall, RowsOfInstall, DeploySteps

\* From here on the new row can be taken back.
LEMMA SupersedeInstall == ASSUME DInv, InstallInv, Supersede PROVE InstallInv'
<1>1. /\ UNCHANGED <<target, backups, was, op, phase>> /\ pc = "supersede" /\ pc' = "request"
  BY DEF Supersede, Goto, Keep, disk, local, history
<1> SUFFICES ASSUME Undoable' PROVE Saved' /\ Fresh'
  BY <1>1 DEF InstallInv, FilesOfInstall, RowsOfInstall, DeploySteps
<1>2. OneRowMore /\ Saved
  BY <1>1 DEF InstallInv, FilesOfInstall, RowsOfInstall, DeploySteps, Undoable, Roll
<1>3. /\ Len(rows') = Len(rows) /\ This \in DOMAIN rows /\ With(Live)' = {This}
      /\ rows'[This].backup = rows[This].backup /\ rows'[This].prev = rows[This].prev
      /\ rows'[This].status = "pending_activation"
  BY SupersedeRows
<1>4. This' = This
  BY <1>3 DEF This
<1>5. Saved'
  BY <1>1, <1>2, <1>3, <1>4 DEF Saved, Taken
<1>6. Awaits(rows)'
  <2>1. rows' # <<>>
    BY Tables, SupersedeDInv, <1>1, <1>3, EmptySeq DEF TablesKnown
  <2> QED BY <1>3, <2>1 DEF Awaits, Last, This
<1>7. Prev(This)' = Prev(This) /\ Latest(was.rows)' = Latest(was.rows)
  BY <1>1, <1>3, <1>4 DEF Prev, Latest
<1> QED BY <1>2, <1>3, <1>4, <1>5, <1>6, <1>7 DEF Fresh, OneRowMore

\* A deployment that failed leaves live what was live.
LEMMA SettleInstall == ASSUME DInv, InstallInv, Settle PROVE InstallInv'
<1>1. /\ UNCHANGED <<target, backups, was, op, phase>> /\ pc = "settle" /\ pc' = "compensate"
  BY DEF Settle, Goto, Keep, disk, local, history
<1> SUFFICES ASSUME Undoable' PROVE SameFiles' /\ Undone'
  BY <1>1 DEF InstallInv, FilesOfInstall, RowsOfInstall, DeploySteps
<1>2. OneRowMore /\ SameFiles /\ Undoable
  BY <1>1 DEF InstallInv, FilesOfInstall, RowsOfInstall, DeploySteps, Undoable, Roll
<1>3. /\ DOMAIN rows' = DOMAIN rows /\ This \in DOMAIN rows
      /\ \A e \in DOMAIN rows :
           rows'[e].status = IF e = This THEN "failed"
                             ELSE IF e = Prev(This) THEN "active" ELSE rows[e].status
  BY SettleRows
<1>4. /\ This = Len(rows) /\ DOMAIN rows = 1..Len(rows) /\ Len(rows) \in Nat
      /\ Len(was.rows) \in Nat /\ DOMAIN was.rows = 1..Len(was.rows) /\ was.rows \in Seq(Row)
  BY Tables, TableFacts DEF TablesKnown, This, DInv, TypeOK
<1>5. \A e \in DOMAIN rows : e = This \/ e \in DOMAIN was.rows
  BY <1>2, <1>4 DEF OneRowMore
<1>6. \A e \in DOMAIN was.rows : e \in DOMAIN rows /\ e # This /\ was.rows[e] = rows[e]
  <2>1. Len(was.rows) = Len(rows) - 1
    BY <1>2 DEF OneRowMore
  <2> QED BY <1>2, <1>4, <2>1 DEF OneRowMore
<1> DEFINE old == {d \in DOMAIN was.rows : was.rows[d].status \in Live}
<1>7. Prev(This) = NULL \/ Prev(This) \in old
  <2>1. Prev(This) = Newest(old)
    BY <1>2 DEF OneRowMore, Latest
  <2>2. /\ old = {} => Newest(old) = NULL
        /\ old # {} => Newest(old) \in old
    BY <1>4, NewestWith
  <2> QED BY <2>1, <2>2
<1>8. \A e \in DOMAIN rows : e # NULL
  BY <1>4, NullAssumption
<1>9. With(Live)' = old
  <2>1. ASSUME NEW e \in DOMAIN rows PROVE rows'[e].status \in Live <=> e \in old
    <3>1. CASE e = This
      BY <1>3, <1>6, <3>1 DEF Live
    <3>2. CASE e # This /\ e = Prev(This)
      BY <1>3, <1>7, <1>8, <3>2 DEF Live
    <3>3. CASE e # This /\ e # Prev(This)
      BY <1>3, <1>5, <1>6, <3>3
    <3> QED BY <3>1, <3>2, <3>3
  <2> QED BY <1>3, <1>6, <2>1 DEF With
<1>10. With({"pending_activation"})' = {}
  <2>1. \A e \in DOMAIN rows : rows'[e].status # "pending_activation"
    BY <1>2, <1>3, <1>5, <1>6 DEF Undoable
  <2> QED BY <1>3, <2>1 DEF With
<1>11. Latest(rows)' = Newest(old) /\ Latest(was.rows)' = Newest(old)
  BY <1>1, <1>9 DEF Latest, With
<1> QED BY <1>1, <1>2, <1>10, <1>11 DEF SameFiles, Undone

\* Looking for the deployment to activate, or to take back, changes nothing.
LEMMA LookInstall ==
  ASSUME DInv, InstallInv, Request \/ Compensate \/ RemoveCurrent PROVE InstallInv'
<1>1. UNCHANGED <<backups, rows, was, op, phase>>
  BY DEF Request, Compensate, RemoveCurrent, Keep, disk, local, history
<1> SUFFICES ASSUME Undoable'
             PROVE  /\ FilesOfInstall' /\ RowsOfInstall'
                    /\ pc' \in {"request", "reload", "compensate"} => (SameFiles' /\ Undone') \/ (Saved' /\ Fresh')
  BY DEF InstallInv
<1>2. /\ Undoable /\ (Undone' <=> Undone) /\ (Fresh' <=> Fresh) /\ This' = This
      /\ Latest(rows)' = Latest(rows) /\ Latest(was.rows)' = Latest(was.rows)
  BY <1>1, SameTable
<1>3. Saved' <=> Saved
  BY <1>1, <1>2 DEF Saved, Taken
<1>4. op.kind # "rollback"
  BY <1>2 DEF Undoable, Roll
<1>5. /\ Awaits(rows) => Awaiting = This /\ Current = This
      /\ Awaiting = NULL <=> With({"pending_activation"}) = {}
      /\ NULL # This
  BY AwaitsFacts
<1>6. CASE Request
  <2>1. pc = "request" /\ pc' \in {"reload", "applied", "compensate"} /\ target' = target
    BY <1>6 DEF Request, Goto, disk
  <2>2. (SameFiles' /\ Undone') \/ (Saved' /\ Fresh')
    BY <1>1, <1>2, <1>3, <2>1 DEF InstallInv, SameFiles
  <2> QED BY <2>1, <2>2 DEF FilesOfInstall, RowsOfInstall, DeploySteps
<1>7. CASE Compensate
  <2>1. pc = "compensate" /\ target' = target
        /\ pc' = IF Awaiting = NULL THEN "reconcile" ELSE "remove"
    BY <1>4, <1>7 DEF Compensate, Goto, disk
  <2>2. (SameFiles /\ Undone) \/ (Saved /\ Fresh)
    BY <1>2, <2>1 DEF InstallInv
  <2>3. CASE Awaiting = NULL
    <3>1. SameFiles /\ Undone
      BY <1>5, <2>2, <2>3 DEF Fresh
    <3> QED BY <1>1, <1>2, <2>1, <2>3, <3>1 DEF SameFiles, Undone, FilesOfInstall, RowsOfInstall, DeploySteps
  <2>4. CASE Awaiting # NULL
    <3>1. Saved' /\ Fresh'
      BY <1>2, <1>3, <1>5, <2>2, <2>4 DEF Undone
    <3> QED BY <2>1, <2>4, <3>1 DEF FilesOfInstall, RowsOfInstall, DeploySteps
  <2> QED BY <2>3, <2>4
<1>8. CASE RemoveCurrent
  <2>1. pc = "remove" /\ pc' = "restore" /\ dep' = Current
    BY <1>8 DEF RemoveCurrent, Goto
  <2>2. Saved /\ Fresh
    BY <1>2, <2>1 DEF InstallInv, FilesOfInstall, RowsOfInstall
  <2>3. dep' = This'
    BY <1>2, <1>5, <2>1, <2>2 DEF Fresh
  <2> QED BY <1>2, <1>3, <2>1, <2>2, <2>3 DEF FilesOfInstall, RowsOfInstall, DeploySteps
<1> QED BY <1>6, <1>7, <1>8

\* A failed activation marks the new row, and only that.
LEMMA ExecuteInstall == ASSUME DInv, KInv, InstallInv, Execute PROVE InstallInv'
<1>1. TablesKnown
  BY Tables
<1>2. PICK good \in BOOLEAN :
        /\ pc = "reload" /\ pc' = IF good THEN "applied" ELSE "compensate"
        /\ rows' = Marked(dep, good)
        /\ UNCHANGED <<target, backups, was, op, phase>>
  <2>1. PICK ok \in BOOLEAN, to \in Package :
          LET good == ok /\ IF op.kind = "install" THEN Installed(to) ELSE RolledBackTo(to)
          IN  /\ Goto("reload", IF good THEN "applied" ELSE "compensate")
              /\ rows' = Marked(dep, good)
              /\ UNCHANGED <<disk, local>> /\ Keep
    BY DEF Execute
  <2> DEFINE good == ok /\ IF op.kind = "install" THEN Installed(to) ELSE RolledBackTo(to)
  <2>2. good \in BOOLEAN
    BY DEF Installed, RolledBackTo
  <2>3. Goto("reload", IF good THEN "applied" ELSE "compensate") /\ Keep /\ UNCHANGED <<disk, local>>
    BY <2>1
  <2> QED BY <2>1, <2>2, <2>3 DEF Goto, Keep, disk, local, history
<1>3. good => InstallInv'
  BY <1>2 DEF InstallInv, FilesOfInstall, RowsOfInstall, DeploySteps
<1> SUFFICES ASSUME ~ good, Undoable' PROVE (SameFiles' /\ Undone') \/ (Saved' /\ Fresh')
  BY <1>2, <1>3 DEF InstallInv, FilesOfInstall, RowsOfInstall, DeploySteps
<1>4. Undoable /\ dep = Awaiting
  BY <1>2 DEF Undoable, Roll, KInv, ActivateInv
<1>5. (SameFiles /\ Undone) \/ (Saved /\ Fresh)
  BY <1>2, <1>4 DEF InstallInv
<1>6. /\ Awaits(rows) => Awaiting = This /\ This \in DOMAIN rows
      /\ Awaiting = NULL <=> With({"pending_activation"}) = {}
      /\ NULL # This
  BY AwaitsFacts
<1>7. CASE SameFiles /\ Undone
  <2>1. rows' = rows
    BY <1>2, <1>4, <1>6, <1>7 DEF Undone, Marked
  <2> QED BY <1>2, <1>7, <2>1, SameTable DEF SameFiles
<1>8. CASE Saved /\ Fresh
  <2>1. dep = This /\ rows' = Phased(rows, This, "failed") /\ This \in DOMAIN rows
    BY <1>2, <1>4, <1>6, <1>8 DEF Fresh, Marked, Phased
  <2>2. /\ rows' \in Seq(Row) /\ Len(rows') = Len(rows) /\ DOMAIN rows' = DOMAIN rows
        /\ \A e \in DOMAIN rows :
             /\ rows'[e].backup = rows[e].backup /\ rows'[e].prev = rows[e].prev
             /\ rows'[e].status = rows[e].status
    BY <1>1, <2>1, PhaseFacts DEF TablesKnown, Phases
  <2>3. This' = This /\ This = Len(rows) /\ rows' # <<>>
    BY <1>1, <2>1, <2>2, EmptySeq DEF This, TablesKnown
  <2>4. Saved'
    BY <1>2, <1>8, <2>1, <2>2, <2>3 DEF Saved, Taken
  <2>5. With(Live)' = With(Live)
    BY <2>2 DEF With
  <2>6. Awaits(rows)'
    BY <1>8, <2>1, <2>2, <2>3 DEF Fresh, Awaits, Last
  <2>7. Prev(This)' = Prev(This) /\ Latest(was.rows)' = Latest(was.rows)
    BY <1>2, <2>1, <2>2, <2>3 DEF Prev, Latest
  <2> QED BY <1>8, <2>3, <2>4, <2>5, <2>6, <2>7 DEF Fresh
<1> QED BY <1>5, <1>7, <1>8

\* Package and backup go back where they were ...
LEMMA RestoreInstall == ASSUME DInv, InstallInv, RestoreBackup PROVE InstallInv'
<1>1. /\ UNCHANGED <<rows, was, op, phase, dep>> /\ pc = "restore" /\ pc' = "rolledback"
      /\ target' = (IF rows[dep].backup THEN backups[dep] ELSE NULL) /\ backups' = Taken(dep)
  BY DEF RestoreBackup, Goto, Keep, local, history
<1> SUFFICES ASSUME Undoable' PROVE FilesOfInstall' /\ RowsOfInstall'
  BY <1>1 DEF InstallInv
<1>2. Saved /\ Fresh /\ dep = This
  BY <1>1, SameTable DEF InstallInv, FilesOfInstall, RowsOfInstall
<1>3. SameFiles'
  BY <1>1, <1>2 DEF Saved, SameFiles
<1> QED BY <1>1, <1>2, <1>3, SameTable DEF FilesOfInstall, RowsOfInstall, DeploySteps

\* ... and the deployment that was live is the newest that is live again.
LEMMA RolledBackInstall == ASSUME DInv, KInv, InstallInv, RolledBack PROVE InstallInv'
<1>1. /\ UNCHANGED <<target, backups, was, op, phase, dep>> /\ pc = "rolledback"
      /\ pc' = IF op.kind = "install" THEN "reconcile" ELSE "request"
      /\ op.kind \in {"install", "rollback"}
  BY DEF RolledBack, Goto, Keep, disk, local, history, DInv, TypeOK
<1> SUFFICES ASSUME Undoable' PROVE FilesOfInstall' /\ RowsOfInstall' /\ pc' = "reconcile"
  BY DEF InstallInv
<1>2. Undoable /\ pc' = "reconcile"
  BY <1>1 DEF Undoable, Roll
<1>3. SameFiles /\ Fresh /\ dep = This
  BY <1>1, <1>2 DEF InstallInv, FilesOfInstall, RowsOfInstall
<1>4. /\ DOMAIN rows' = DOMAIN rows /\ This \in DOMAIN rows
      /\ \A e \in DOMAIN rows :
           rows'[e].status = IF e = Prev(This) THEN "pending_activation"
                             ELSE IF e = This THEN "rolled_back" ELSE rows[e].status
      /\ Prev(This) = NULL \/ (Prev(This) \in DOMAIN rows /\ Prev(This) < This)
  BY <1>3, RolledBackRows
<1>5. \A e \in DOMAIN rows : rows[e].status \in Live <=> e = This
  BY <1>3 DEF Fresh, With
<1>6. DOMAIN rows = 1..Len(rows) /\ Len(rows) \in Nat /\ This \in Int /\ \A e \in DOMAIN rows : e # NULL
  BY <1>4, Tables, NullAssumption DEF TablesKnown
<1>7. Newest(With(Live)') = Prev(This)
  <2>1. CASE Prev(This) = NULL
    <3>1. With(Live)' = {}
      BY <1>4, <1>5, <1>6, <2>1 DEF With, Live
    <3> QED BY <2>1, <3>1 DEF Newest
  <2>2. CASE Prev(This) # NULL
    <3>1. \A e \in DOMAIN rows : rows'[e].status \in Live <=> e = Prev(This)
      BY <1>4, <1>5, <1>6 DEF Live
    <3>2. With(Live)' = {Prev(This)}
      BY <1>4, <2>2, <3>1 DEF With
    <3>3. Newest({Prev(This)}) \in {Prev(This)}
      BY <1>4, <1>6, <2>2, NewestFacts
    <3> QED BY <3>2, <3>3
  <2> QED BY <2>1, <2>2
<1>8. Latest(rows)' = Latest(was.rows)'
  <2>1. Latest(rows)' = Newest(With(Live)') /\ Latest(was.rows)' = Latest(was.rows)
    BY <1>1 DEF Latest, With
  <2> QED BY <1>3, <1>7, <2>1 DEF Fresh
<1>9. SameFiles'
  BY <1>1, <1>3 DEF SameFiles
<1> QED BY <1>2, <1>8, <1>9 DEF FilesOfInstall, RowsOfInstall, DeploySteps

\* No other step is one of an install that can fail any more.
LEMMA OtherInstall ==
  ASSUME DInv, InstallInv,
         \/ KeepGuard \/ PutBackBackup \/ PutBackGuard \/ PutBackRows
         \/ Applied \/ Reconcile \/ Crash \/ Boot
  PROVE  InstallInv'
<1>1. CASE KeepGuard \/ PutBackBackup \/ PutBackGuard \/ PutBackRows
  <2>1. pc \in {"guard", "unguard", "copyback", "unrows"} /\ op' = op
    BY <1>1 DEF KeepGuard, PutBackBackup, PutBackGuard, PutBackRows, Goto, local
  <2>2. Roll /\ Roll'
    BY <2>1 DEF DInv, KindInv, Roll
  <2> QED BY <2>2 DEF InstallInv, Undoable
<1>2. CASE Applied \/ Reconcile \/ Crash \/ Boot
  <2>1. phase' = "up" => pc' = "idle"
    <3>1. CASE Applied \/ Reconcile \/ Crash
      BY <3>1 DEF Applied, Reconcile, Crash, Goto
    <3>2. CASE Boot
      <4>1. phase # "up" /\ pc' = pc
        BY <3>2 DEF Boot, Restart, CommitRecovery, Booted, ClearTarget, RecoverFiles, RecoverPending, local
      <4> QED BY <4>1 DEF DInv, KindInv
    <3> QED BY <1>2, <3>1, <3>2
  <2> QED BY <2>1 DEF InstallInv, Undoable, FilesOfInstall, RowsOfInstall, DeploySteps
<1> QED BY <1>1, <1>2

LEMMA StutterInstall == ASSUME DInv, InstallInv, UNCHANGED vars PROVE InstallInv'
<1>1. UNCHANGED <<target, backups, rows, phase, pc, op, dep, was>>
  BY DEF vars, disk, local, history
<1>2. (SameFiles' <=> SameFiles) /\ (Saved' <=> Saved)
  BY <1>1, SameTable DEF SameFiles, Saved, Taken
<1>3. (FilesOfInstall' <=> FilesOfInstall) /\ (RowsOfInstall' <=> RowsOfInstall)
  BY <1>1, <1>2, SameTable DEF FilesOfInstall, RowsOfInstall
<1> QED BY <1>1, <1>2, <1>3, SameTable DEF InstallInv

MInv == DInv /\ KInv /\ InstallInv

LEMMA NextM == MInv /\ [Next]_vars => MInv'
<1> SUFFICES ASSUME DInv, KInv, InstallInv, [Next]_vars PROVE MInv'
  BY DEF MInv
<1>1. DInv' /\ KInv'
  BY NextDInv, NextK
<1>2. InstallInv'
  <2>1. CASE \E proposal \in Proposals : Approve(proposal[1], proposal[2])
    <3>1. \A proposal \in Proposals : proposal[1] \in {"install", "rollback"}
      BY DEF Proposals
    <3> QED BY <2>1, <3>1, ApproveInstall
  <2>2. CASE Install
    BY <2>2, EarlyInstall, InsertInstall, MoveInstall, PhaseInstall, SupersedeInstall, SettleInstall, Zenon
       DEF Install
  <2>3. CASE Rollback
    BY <2>3, OtherInstall, LookInstall, RestoreInstall, RolledBackInstall, Zenon DEF Rollback
  <2>4. CASE Activate
    BY <2>4, LookInstall, ExecuteInstall, OtherInstall, Zenon DEF Activate
  <2>5. CASE Revert
    BY <2>5, LookInstall, OtherInstall, Zenon DEF Revert
  <2>6. CASE Boot \/ Crash
    BY <2>6, OtherInstall, Zenon
  <2>7. CASE UNCHANGED vars
    BY <2>7, StutterInstall
  <2> QED BY <2>1, <2>2, <2>3, <2>4, <2>5, <2>6, <2>7, Zenon DEF Next
<1> QED BY <1>1, <1>2 DEF MInv

LEMMA MInvHolds == Spec => []MInv
<1>1. Init => MInv
  <2>1. Init => pc = "idle"
    BY DEF Init
  <2>2. Init => InstallInv
    BY <2>1 DEF InstallInv, FilesOfInstall, RowsOfInstall, DeploySteps
  <2> QED BY <2>2, InitDInv, InitK DEF MInv
<1>2. MInv /\ [Next]_vars => MInv'
  BY NextM
<1> QED BY <1>1, <1>2, PTL DEF Spec

\* An install that fails, at whichever step, leaves the package, the backups and
\* the live deployment there were at its approval, and the plugin runs what it
\* ran.
THEOREM InstallUndone == Spec => FailedInstallRestores
<1> DEFINE Done == Reverted("install") /\ (\A d \in DOMAIN was.rows : was.rows[d].status # "pending_activation") =>
       /\ target = was.target /\ backups = was.backups
       /\ Latest(rows) = Latest(was.rows)
       /\ BackToBefore
<1>1. MInv /\ [Next]_vars => [Done]_vars
  <2> SUFFICES ASSUME MInv, Next, Reverted("install"),
                      \A d \in DOMAIN was.rows : was.rows[d].status # "pending_activation"
               PROVE  /\ target = was.target /\ backups = was.backups
                      /\ Latest(rows) = Latest(was.rows)
                      /\ BackToBefore
    OBVIOUS
  <2>1. Reconcile /\ pc = "reconcile" /\ phase = "up" /\ op.kind = "install"
    BY RevertedStep DEF Reverted, MInv, DInv, KindInv
  <2>2. Undoable
    BY <2>1 DEF Undoable, Roll
  <2>3. target = was.target /\ backups = was.backups /\ Latest(rows) = Latest(was.rows)
    BY <2>1, <2>2 DEF MInv, InstallInv, FilesOfInstall, RowsOfInstall, SameFiles
  <2>4. BackToBefore
    BY <2>1, <2>3 DEF BackToBefore, Reconcile, Reloads
  <2> QED BY <2>3, <2>4
<1> QED BY <1>1, MInvHolds, PTL DEF Spec, FailedInstallRestores
=============================================================================
