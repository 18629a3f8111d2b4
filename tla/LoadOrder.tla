------------------------------ MODULE LoadOrder ------------------------------
(***************************************************************************)
(* In which order discovered plugins are activated, and which are skipped: *)
(* TopologyResolver.resolve over the candidates of discover_candidates,    *)
(* which come sorted by plugin id.                                         *)
(***************************************************************************)
EXTENDS Naturals, Sequences

\* Step 2: a candidate is dropped when a dependency was not discovered at all.
\* One that was discovered and is itself dropped does not count.
Valid(found, compatible, needs) ==
  {p \in found \cap compatible : needs[p] \ {p} \subseteq found}

\* The dependencies a valid candidate waits for (self-dependencies are ignored).
Awaited(p, valid, needs) == (needs[p] \cap valid) \ {p}

Loaded(order) == {order[i] : i \in 1..Len(order)}
\* discover_candidates keeps the first candidate with an id.
Distinct(order) == \A i, j \in DOMAIN order : order[i] = order[j] => i = j

\* The members of a set, in the order of the candidates.
Among(sorted, set) ==
  LET among[n \in 0..Len(sorted)] ==
        IF n = 0 THEN <<>>
        ELSE IF sorted[n] \in set THEN Append(among[n - 1], sorted[n]) ELSE among[n - 1]
  IN among[Len(sorted)]

\* Step 3, one turn of the while loop: the head of the queue is placed, and
\* those whose last dependency it was join the queue.
Place(k, sorted, valid, needs) ==
  IF k.queue = <<>> THEN k
  ELSE LET p == Head(k.queue)
           placed == Append(k.order, p)
           freed == {q \in valid : /\ p \in Awaited(q, valid, needs)
                                   /\ Awaited(q, valid, needs) \subseteq Loaded(placed)}
       IN [queue |-> Tail(k.queue) \o Among(sorted, freed), order |-> placed]

\* Mutant: the candidates in the order they were discovered.
Discovered(sorted, found, compatible, needs) ==
  Among(sorted, Valid(found, compatible, needs))

\* Kahn's algorithm.  Candidates on a cycle, or behind one, never reach
\* in-degree 0 and are left out.
Resolve(sorted, found, compatible, needs) ==
  LET valid == Valid(found, compatible, needs)
      ready == {p \in valid : Awaited(p, valid, needs) = {}}
      turn[n \in 0..Len(sorted)] ==
        IF n = 0 THEN [queue |-> Among(sorted, ready), order |-> <<>>]
        ELSE Place(turn[n - 1], sorted, valid, needs)
  IN turn[Len(sorted)].order

==============================================================================
