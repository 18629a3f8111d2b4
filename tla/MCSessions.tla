------------------------------ MODULE MCSessions ------------------------------
(***************************************************************************)
(* A group chat and a scheduled prompt.                                    *)
(***************************************************************************)
EXTENDS Sessions

CONSTANTS g, s, c1
===============================================================================
