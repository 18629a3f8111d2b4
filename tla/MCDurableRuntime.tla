-------------------------- MODULE MCDurableRuntime --------------------------
(***************************************************************************)
(* DurableRuntime checked by TLC, and shown to implement RunLifecycle.     *)
(***************************************************************************)
EXTENDS DurableLifecycle, TLC

\* Runs are interchangeable: no definition of DurableRuntime orders them.
RunSymmetry == Permutations(Runs)
=============================================================================
