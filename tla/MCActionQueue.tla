---------------------------- MODULE MCActionQueue ----------------------------
(***************************************************************************)
(* A message to a group, one to another, an action without a group, one    *)
(* that bypasses the limits and one that is blocked.                       *)
(***************************************************************************)
EXTENDS ActionQueue

CONSTANTS g1, g2, c1, c2, c3

MCRequests == {
  [list |-> "spam", group |-> g1, text |-> "hello"],
  [list |-> "plain", group |-> g2, text |-> "info"],
  [list |-> "plain", group |-> NULL, text |-> "info"],
  [list |-> "bypass", group |-> NULL, text |-> "login"],
  [list |-> "block", group |-> g1, text |-> "leave"]}
==============================================================================
