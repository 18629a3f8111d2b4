--------------------------- MODULE MCPluginRuntime ---------------------------
(***************************************************************************)
(* Two plugins, one of which renames a handler between its two versions;   *)
(* the handlers of the two plugins clash in one name.                      *)
(***************************************************************************)
EXTENDS PluginRuntime

CONSTANTS echo, gate, v1, v2

MCSorted == <<echo, gate>>
MCHandlers == [p \in {echo, gate} |->
  IF p = gate THEN [v \in {v1} |-> {"message:5"}]
  ELSE [v \in {v1, v2} |-> IF v = v1 THEN {"/echo"} ELSE {"/echo", "message:5"}]]

\* Every graph over the two, with self-dependencies, cycles, and a dependency
\* that is nowhere to be found.
MCGraphs == [{echo, gate} -> SUBSET {echo, gate}] \cup
            {[p \in {echo, gate} |-> IF p = echo THEN {"missing"} ELSE {echo}]}

==============================================================================
