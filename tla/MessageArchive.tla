--------------------------- MODULE MessageArchive ---------------------------
(***************************************************************************)
(* What the message store promises, without commits, replay, history pages *)
(* or connections.  A row of the journal, a source and a message, is       *)
(* accepted, then stored; what is stored of a message is completed by      *)
(* later rows and never replaced; plugins get a message at most once, in   *)
(* the order of the conversation, and only when its live row is stored.    *)
(***************************************************************************)
EXTENDS Integers

CONSTANTS
  Messages,   \* positions in the conversation
  Contents,   \* what may be stored of a message
  NULL

VARIABLES
  accepted,    \* rows <<source, message>> the journal has
  projected,   \* rows whose message is stored
  stored,      \* the archive
  delivered    \* messages plugins were given

vars == <<accepted, projected, stored, delivered>>

Init ==
  /\ accepted = {} /\ projected = {} /\ delivered = {}
  /\ stored = [m \in Messages |-> NULL]

\* Nothing that is stored is lost: not that it came live, not its segments, not
\* whose message it was taken for.
Completes(old, new) ==
  old # NULL =>
    /\ old.from = "live" => new.from = "live"
    /\ old.array # "empty" => new.array = old.array
    /\ new.filed = old.filed

\* What a live event carries is in the archive.
Holds(new, source) == source = "live" => new.from = "live" /\ new.array # "empty"

Accept(source, m) ==
  /\ accepted' = accepted \cup {<<source, m>>}
  /\ UNCHANGED <<projected, stored, delivered>>

Store(source, m) ==
  /\ <<source, m>> \in accepted
  /\ \E new \in Contents :
       /\ Completes(stored[m], new) /\ Holds(new, source)
       /\ stored' = [stored EXCEPT ![m] = new]
  /\ projected' = projected \cup {<<source, m>>}
  /\ UNCHANGED <<accepted, delivered>>

Deliver(m) ==
  /\ <<"live", m>> \in projected
  /\ \A n \in delivered : n < m
  /\ delivered' = delivered \cup {m}
  /\ UNCHANGED <<accepted, projected, stored>>

Next ==
  \E m \in Messages :
    Deliver(m) \/ \E source \in {"live", "backfill"} : Accept(source, m) \/ Store(source, m)

Spec == Init /\ [][Next]_vars
=============================================================================
