------------------------------ MODULE Artifacts ------------------------------
(***************************************************************************)
(* Resources of messages: they are discovered when a message is recorded,  *)
(* fetched on demand or in the background (ArtifactService.materialize, by *)
(* several coroutines at once), stored under the hash of their content,    *)
(* and uploaded again.                                                     *)
(*                                                                         *)
(* From the end of a fetch to the update of the row nothing awaits, but    *)
(* the process may crash.                                                  *)
(***************************************************************************)
EXTENDS Naturals, ArtifactTable

CONSTANTS
  Tasks,        \* coroutines that materialize or send
  MaxCrashes    \* bound: crashes

ASSUME BoundAssumption == MaxCrashes \in Nat

VARIABLES
  segment,   \* message_segments.artifact_id: "none" (no segment), "bare" or "linked"
  task,      \* locals of the coroutines
  crashes

vars == <<segment, row, disk, task, uploads, crashes>>

TypeOK ==
  /\ segment \in [Artifacts -> {"none", "bare", "linked"}]
  /\ row \in [Artifacts -> {Absent} \cup ArtifactRows]
  /\ disk \subseteq Blobs /\ uploads \subseteq Blobs
  /\ task \in [Tasks -> {Absent} \cup
       [of: Artifacts, at: {"resolve", "download", "import", "upload"}, sends: BOOLEAN,
        path: Blobs \cup {Absent}]]
  /\ crashes \in 0..MaxCrashes
  /\ \A a \in Artifacts : row[a] # Absent /\ row[a].status = "available" => row[a].path # Absent

Init ==
  /\ segment = [a \in Artifacts |-> "none"] /\ row = [a \in Artifacts |-> Absent]
  /\ disk = {} /\ task = [t \in Tasks |-> Absent] /\ uploads = {} /\ crashes = 0

\* No coroutine is between its fetch and the commit of the row.
Awaiting == \A t \in Tasks : task[t] # Absent => task[t].at # "import"

Set(t, r) == task' = [task EXCEPT ![t] = r]
Step(t, step) == Set(t, [task[t] EXCEPT !.at = step])
Status(a, s) == row' = [row EXCEPT ![a].status = s]

-----------------------------------------------------------------------------
\* Recording a message (again, when history or a replay brings it once more)
\* writes its segments afresh, without their artifacts.

\* A known artifact is returned as it is; its new segment stays unlinked.
Discover(a) ==
  IF row[a] # Absent THEN UNCHANGED row /\ segment' = [segment EXCEPT ![a] = "bare"]
  ELSE /\ row' = [row EXCEPT ![a] = [status |-> "discovered", path |-> Absent]]
       /\ segment' = [segment EXCEPT ![a] = "linked"]

\* _project_segments() and discover_message() of one message.
Record(a) ==
  /\ Awaiting
  /\ Discover(a)
  /\ UNCHANGED <<disk, task, uploads, crashes>>

\* A crash between the two: nothing discovers the artifact when the process is
\* back, until the message is recorded again.
RecordCrash(a) ==
  /\ Awaiting /\ crashes < MaxCrashes
  /\ crashes' = crashes + 1
  /\ segment' = [segment EXCEPT ![a] = "bare"]
  /\ task' = [t \in Tasks |-> Absent]
  /\ UNCHANGED <<row, disk, uploads>>

-----------------------------------------------------------------------------
\* materialize(): called by a tool, by send(), or in the background after the
\* message was recorded; nothing keeps two from fetching the same artifact.

\* It is there: returned, and uploaded if that is what it is for.
Available(t, a, sends) ==
  /\ row[a].status = "available" /\ row[a].path # Absent
  /\ IF sends THEN Set(t, [of |-> a, at |-> "upload", sends |-> TRUE, path |-> row[a].path])
     ELSE UNCHANGED task
  /\ UNCHANGED row

Fetch(t, a, sends) ==
  /\ row[a].status = "available" => row[a].path = Absent
  /\ Status(a, "materializing")
  /\ Set(t, [of |-> a, at |-> "resolve", sends |-> sends, path |-> Absent])

Materialize(t, a, sends) ==
  /\ Awaiting /\ task[t] = Absent /\ row[a] # Absent
  /\ Available(t, a, sends) \/ Fetch(t, a, sends)
  /\ UNCHANGED <<segment, disk, uploads, crashes>>

\* NapCat gave an address: the content is downloaded.
Resolve(t) ==
  /\ Awaiting /\ task[t] # Absent /\ task[t].at = "resolve"
  /\ Step(t, "download")
  /\ UNCHANGED <<segment, row, disk, uploads, crashes>>

Updated(a) == [row EXCEPT ![a] = [status |-> "available", path |-> Content[a]]]

\* Mutant: the row is updated before the file has its name.
RowFirst(a) == row' = Updated(a) /\ UNCHANGED disk

\* The bytes, which NapCat gave at once or the download got, get their name; a
\* file of that name is there already when the content is known.
Place(a) == disk' = disk \cup {Content[a]} /\ UNCHANGED row

\* import_stream() up to the commit of the row.
Import(t) ==
  /\ Awaiting /\ task[t] # Absent /\ task[t].at \in {"resolve", "download"}
  /\ Place(task[t].of)
  /\ Step(t, "import")
  /\ UNCHANGED <<segment, uploads, crashes>>

\* The row is committed; send() goes on to the upload.
Commit(t) ==
  /\ task[t] # Absent /\ task[t].at = "import"
  /\ row' = Updated(task[t].of)
  /\ IF task[t].sends
     THEN Set(t, [task[t] EXCEPT !.at = "upload", !.path = Content[task[t].of]])
     ELSE Set(t, Absent)
  /\ UNCHANGED <<segment, disk, uploads, crashes>>

\* fail(): only the status, even when another fetch has made it available since.
Failed(a) == Status(a, "failed")

\* NapCat refuses, the address is not public, the file is too large, ...
Fail(t) ==
  /\ Awaiting /\ task[t] # Absent /\ task[t].at \in {"resolve", "download"}
  /\ Failed(task[t].of) /\ Set(t, Absent)
  /\ UNCHANGED <<segment, disk, uploads, crashes>>

\* send(): the path materialize() returned is uploaded, the row is not read again.
Upload(t) ==
  /\ Awaiting /\ task[t] # Absent /\ task[t].at = "upload"
  /\ uploads' = uploads \cup {task[t].path}
  /\ Set(t, Absent)
  /\ UNCHANGED <<segment, row, disk, crashes>>

\* A cancelled coroutine leaves "materializing" behind: CancelledError is no
\* Exception.
Cancel(t) ==
  /\ Awaiting /\ task[t] # Absent
  /\ Set(t, Absent)
  /\ UNCHANGED <<segment, row, disk, uploads, crashes>>

Crash ==
  /\ crashes < MaxCrashes
  /\ crashes' = crashes + 1
  /\ task' = [t \in Tasks |-> Absent]
  /\ UNCHANGED <<segment, row, disk, uploads>>

Next ==
  \/ Crash
  \/ \E a \in Artifacts : Record(a) \/ RecordCrash(a)
  \/ \E t \in Tasks :
       \/ Resolve(t) \/ Import(t) \/ Commit(t) \/ Fail(t) \/ Upload(t) \/ Cancel(t)
       \/ \E a \in Artifacts, sends \in BOOLEAN : Materialize(t, a, sends)

Spec == Init /\ [][Next]_vars

=============================================================================
