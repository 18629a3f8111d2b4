--------------------------- MODULE MCPluginDeploy ---------------------------
(***************************************************************************)
(* A sturdy version of the plugin and two flaky ones that may be swapped.  *)
(***************************************************************************)
EXTENDS PluginDeploy, TLC

Swaps == Permutations(Flaky)
=============================================================================
