---------------------------- MODULE ArtifactTable ----------------------------
(***************************************************************************)
(* What ArtifactStore keeps: the artifacts table and, under the hash of    *)
(* their content, the files it names.  The coroutines that write both are  *)
(* in Artifacts.                                                           *)
(*                                                                         *)
(* The bytes of an artifact are the Content NapCat has for it; two         *)
(* artifacts may have the same.                                            *)
(***************************************************************************)
CONSTANTS
  Artifacts,    \* the resource segments messages have
  Content,      \* Content[a]: the hash of what NapCat has for it
  Absent        \* no row, no path, no coroutine

ASSUME ContentAssumption == DOMAIN Content = Artifacts /\ Absent \notin Artifacts

VARIABLES
  row,       \* artifacts: status and local_path
  disk,      \* blobs under their final name, complete
  uploads    \* blobs given to NapCat to upload

Blobs == {Content[a] : a \in Artifacts}
Statuses == {"discovered", "materializing", "available", "failed"}
ArtifactRows == [status: Statuses, path: Blobs \cup {Absent}]

\* No row and no path is the absent one.
ASSUME AbsentAssumption == Absent \notin ArtifactRows \cup Blobs

\* A path once stored names a complete file, and no failure, retry or crash
\* takes it away: what is marked available can be read, and what is uploaded is
\* what was fetched, whatever other fetches of the artifact do meanwhile.
PathsAreOnDisk ==
  /\ \A a \in Artifacts : row[a] # Absent /\ row[a].path # Absent => row[a].path \in disk
  /\ uploads \subseteq disk

=============================================================================
