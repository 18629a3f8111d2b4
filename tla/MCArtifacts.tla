----------------------------- MODULE MCArtifacts -----------------------------
(***************************************************************************)
(* Two artifacts with the same content.                                    *)
(***************************************************************************)
EXTENDS Artifacts, TLC

CONSTANTS a1, a2, sha1

MCContent == [a \in {a1, a2} |-> sha1]
TaskSymmetry == Permutations(Tasks)
==============================================================================
