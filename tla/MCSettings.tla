------------------------------ MODULE MCSettings ------------------------------
(***************************************************************************)
(* One setting, two plugins, one prompt part.                              *)
(***************************************************************************)
EXTENDS Settings, TLC

CONSTANTS t1, v1, t2, v2, negative, short, long, timeout, p1, p2

MCFirstPrompt == [text |-> t1, version |-> v1]
MCOffered ==
  {[kind |-> "settings", of |-> timeout, to |-> v] : v \in {negative, long, short}}
    \cup {[kind |-> "state", of |-> x, to |-> b] : x \in {p1, p2}, b \in BOOLEAN}
    \cup {[kind |-> "prompt", text |-> t2, version |-> v2]}
MCSymmetry == Permutations(Proposals) \cup Permutations(Approvals) \cup Permutations(Plugins)
===============================================================================
