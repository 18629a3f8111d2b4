------------------------------- MODULE Sessions -------------------------------
(***************************************************************************)
(* Conversations with the model: SessionManager, AgentLoop and the circuit *)
(* breaker they share.  A session is the list of messages sent with every  *)
(* request; it lives in a cache, and in a row that is written when a run   *)
(* of the agent loop has ended and at shutdown.                            *)
(*                                                                         *)
(* Messages from QQ are handled one after the other (the event loop awaits *)
(* each dispatch); scheduled prompts run beside them, each under a key of  *)
(* its own, and are resubmitted after a crash.  An exception the provider  *)
(* raises and an HTTP error it turns into a text both end the run; a tool  *)
(* answers with a result or an error, and what escapes from the executor   *)
(* is swallowed by the bus, with the rest of the run.                      *)
(*                                                                         *)
(* Messages are only ever appended (and a made-up exchange inserted before *)
(* the first one), so of the list it is enough to know whether every tool  *)
(* call before its last assistant message has a result, and how many calls *)
(* of that one still lack theirs.                                          *)
(***************************************************************************)
EXTENDS Naturals, FiniteSets, Sequences, SequencesExt

CONSTANTS
  Groups,       \* session keys of group chats
  Privates,     \* session keys of private chats
  Prompts,      \* session keys of scheduled prompts, one per task
  Calls,        \* tool calls (name and arguments)
  Ttl,          \* session_ttl, 0 for a new session every time
  MaxTurns,     \* LoopConfig.max_turns
  MaxErrors,    \* CircuitBreaker.max_consecutive_errors
  MaxRepeats,   \* CircuitBreaker.max_same_tool_repeats
  MaxCalls,     \* bound: tool calls of one response
  MaxTriggers,  \* bound: triggers
  MaxTime,      \* bound: the clock
  MaxStops,     \* bound: crashes and shutdowns
  NULL

Live == Groups \cup Privates
Keys == Live \cup Prompts

ASSUME LimitAssumption ==
  /\ Ttl \in Nat /\ MaxTurns \in Nat \ {0} /\ MaxErrors \in Nat \ {0} /\ MaxRepeats \in Nat \ {0}
ASSUME KeyAssumption == Live \cap Prompts = {} /\ NULL \notin Keys \cup Calls
ASSUME BoundAssumption == {MaxCalls, MaxTriggers, MaxTime, MaxStops} \subseteq Nat

VARIABLES
  phase,      \* "up", "stopping" (the main task is cancelled) or "down"
  now,        \* the clock
  cache,      \* SessionManager._cache
  row,        \* the table sessions
  run,        \* locals of the triggers under way
  breaker,    \* the circuit breaker, one for all runs
  last,       \* how the last trigger of a key went (history)
  triggers,
  stops

vars == <<phase, now, cache, row, run, breaker, last, triggers, stops>>

\* whole, open: the messages, as above.  intro: made-up exchanges among them.
\* first: turn_count is 0.  hurt (history): a run left the session in the middle
\* of its tool calls.
Session == [whole: BOOLEAN, open: 0..MaxCalls, intro: 0..MaxTriggers, first: BOOLEAN,
            active: 0..MaxTime, hurt: BOOLEAN]

\* errors, alone (history): the errors of this run, and whether no other ran beside it.
Run == [at: {"ask", "tools", "send", "final", "close"}, turn: 1..MaxTurns, calls: Seq(Calls),
        results: Seq({"ok", "error"}), outcome: {"open", "answered", "errors", "repeats"},
        errors: Nat, alone: BOOLEAN]

\* No session and no run is the absent one.
ASSUME NullAssumption == NULL \notin Session \cup Run

TypeOK ==
  /\ phase \in {"up", "stopping", "down"} /\ now \in 0..MaxTime
  /\ cache \in [Keys -> {NULL} \cup Session] /\ row \in [Keys -> {NULL} \cup Session]
  /\ run \in [Keys -> {NULL} \cup Run]
  /\ breaker \in [errors: Nat, seen: [Calls -> Nat]]
  /\ last \in [Keys -> {"none", "running", "done", "raised", "cancelled", "crashed"}]
  /\ triggers \in 0..MaxTriggers /\ stops \in 0..MaxStops

Reset == [errors |-> 0, seen |-> [c \in Calls |-> 0]]

Init ==
  /\ phase = "up" /\ now = 0 /\ breaker = Reset /\ triggers = 0 /\ stops = 0
  /\ cache = [k \in Keys |-> NULL] /\ row = [k \in Keys |-> NULL] /\ run = [k \in Keys |-> NULL]
  /\ last = [k \in Keys |-> "none"]

Running == {k \in Keys : run[k] # NULL}

\* What the provider demands of a message list: the results follow their calls.
WellFormed(session) == session.whole /\ session.open = 0

\* Appending a message of the user, one with n tool calls, n results.
User(session) == [session EXCEPT !.whole = WellFormed(session), !.open = 0]
Assistant(session, n) == [session EXCEPT !.whole = WellFormed(session), !.open = n]
Results(session, n) == [session EXCEPT !.open = @ - n]

-----------------------------------------------------------------------------
\* A trigger, up to its first request.

Expired(session) == Ttl > 0 /\ now - session.active >= Ttl

\* get_or_create(), after the cache is emptied of the key when ttl is 0.
Reused(k) == Ttl > 0 /\ cache[k] # NULL /\ ~Expired(cache[k])
Opened(k) ==
  IF Reused(k)
    THEN [User(cache[k]) EXCEPT !.active = now]
    ELSE [whole |-> TRUE, open |-> 0, intro |-> 0, first |-> TRUE, active |-> now, hurt |-> FALSE]

\* _inject_recent_history(): a call of query_history and its result, made up.
Injected(session, found) ==
  IF found /\ session.first THEN [session EXCEPT !.intro = @ + 1] ELSE session

\* Handlers of live messages do not overlap; a prompt runs once, and again when
\* a crash interrupted it.
MayStart(k) ==
  /\ run[k] = NULL
  /\ k \in Live => phase = "up" /\ Running \cap Live = {}
  /\ k \in Prompts => phase = "up" /\ last[k] \in {"none", "crashed"}

Started(k) == [at |-> "ask", turn |-> 1, calls |-> <<>>, results |-> <<>>, outcome |-> "open",
               errors |-> 0, alone |-> Running = {}]

\* AgentLoop.run() begins by resetting the breaker, whoever else is counting.
\* (Mutant: only a new bot has a fresh breaker.)
AtStartKept == breaker
AtStart == Reset

Trigger(k, found) ==
  /\ MayStart(k) /\ triggers < MaxTriggers
  /\ found => k \notin Privates
  /\ cache' = [cache EXCEPT ![k] = Injected(Opened(k), found)]
  /\ run' = [j \in Keys |-> IF j = k THEN Started(k)
                            ELSE IF run[j] = NULL THEN NULL ELSE [run[j] EXCEPT !.alone = FALSE]]
  /\ breaker' = AtStart
  /\ last' = [last EXCEPT ![k] = "running"]
  /\ triggers' = triggers + 1
  /\ UNCHANGED <<phase, now, row, stops>>

-----------------------------------------------------------------------------
\* The agent loop.

Set(k, r) == run' = [run EXCEPT ![k] = r]

\* The end of a run: save() writes the row.  (Mutant: only of a run that answered.)
SaveAnswered(k, session, r) ==
  /\ cache' = [cache EXCEPT ![k] = session]
  /\ row' = IF r.outcome = "answered" THEN [row EXCEPT ![k] = session] ELSE row
  /\ Set(k, [r EXCEPT !.at = "close"])
Save(k, session, r) ==
  /\ cache' = [cache EXCEPT ![k] = session]
  /\ row' = [row EXCEPT ![k] = session]
  /\ Set(k, [r EXCEPT !.at = "close"])

\* The session counts the turns of the run and is active again.
Ends(k, session, r) ==
  Save(k, [session EXCEPT !.first = FALSE, !.active = now], r)

Answered(k) == [run[k] EXCEPT !.outcome = "answered"]

\* chat_completion(): a text, the model's own or the one an HTTP error becomes.
Completed(k) == [Answered(k) EXCEPT !.at = "send"]

\* A text: it is sent to the chat, and does not become a message of the session.
Text(k) ==
  /\ run[k] # NULL /\ run[k].at = "ask"
  /\ Set(k, Completed(k))
  /\ UNCHANGED <<phase, now, cache, row, breaker, last, triggers, stops>>

\* The request after the last turn offers no tools; something is always sent.
Final(k) ==
  /\ run[k] # NULL /\ run[k].at = "final"
  /\ Set(k, Completed(k))
  /\ UNCHANGED <<phase, now, cache, row, breaker, last, triggers, stops>>

Sent(k) ==
  /\ run[k] # NULL /\ run[k].at = "send"
  /\ Ends(k, cache[k], run[k])
  /\ UNCHANGED <<phase, now, breaker, last, triggers, stops>>

\* The provider raises, or its text is empty: nothing is sent.
NoText(k) ==
  /\ run[k] # NULL /\ run[k].at = "ask"
  /\ Ends(k, cache[k], Answered(k))
  /\ UNCHANGED <<phase, now, breaker, last, triggers, stops>>

\* Tool calls: the message that makes them is appended before they are executed.
AskTools(k, calls) ==
  /\ run[k] # NULL /\ run[k].at = "ask" /\ calls # <<>>
  /\ cache' = [cache EXCEPT ![k] = Assistant(@, Len(calls))]
  /\ Set(k, [run[k] EXCEPT !.at = "tools", !.calls = calls, !.results = <<>>])
  /\ UNCHANGED <<phase, now, row, breaker, last, triggers, stops>>

\* How many of a list are x.
Count(list, x) == Cardinality({i \in DOMAIN list : list[i] = x})
Errors(results) == Count(results, "error")

\* record_error() trips at result n.
TripsAt(results, n) ==
  results[n] = "error" /\ breaker.errors + Errors(SubSeq(results, 1, n)) >= MaxErrors
Trips(results) == \E n \in DOMAIN results : TripsAt(results, n)

\* The number of results appended: up to the one the breaker trips at.
\* (Mutant: an error is recorded and not appended.)
KeptSucceeded(results) == Len(results) - Errors(results)
Kept(results) ==
  IF Trips(results)
    THEN CHOOSE n \in DOMAIN results :
           TripsAt(results, n) /\ \A m \in 1 .. n - 1 : ~TripsAt(results, m)
    ELSE Len(results)

\* record_tool_call() of each call, up to the one repeated too often.
Over(calls, n) == breaker.seen[calls[n]] + Count(SubSeq(calls, 1, n), calls[n]) > MaxRepeats
Recorded(calls) ==
  CHOOSE n \in DOMAIN calls :
    (n = Len(calls) \/ Over(calls, n)) /\ \A m \in 1 .. n - 1 : ~Over(calls, m)
Repeats(calls) == \E n \in DOMAIN calls : Over(calls, n)

\* All results are there: no await until the next request or the end of the run.
Processed(k, r) ==
  LET kept == Kept(r.results)
      session == Results(cache[k], kept)
      counted == [breaker EXCEPT !.errors = @ + Errors(SubSeq(r.results, 1, kept))]
      seen == [c \in Calls |->
                breaker.seen[c] + Count(SubSeq(r.calls, 1, Recorded(r.calls)), c)]
      faulty == [r EXCEPT !.errors = @ + Errors(SubSeq(r.results, 1, kept)),
                          !.calls = <<>>, !.results = <<>>]
  IN IF Trips(r.results)
       THEN /\ Ends(k, [session EXCEPT !.hurt = @ \/ kept < Len(r.calls)],
                    [faulty EXCEPT !.outcome = "errors"])
            /\ breaker' = counted
       ELSE /\ breaker' = [counted EXCEPT !.seen = seen]
            /\ IF Repeats(r.calls)
                 THEN Ends(k, session, [faulty EXCEPT !.outcome = "repeats"])
                 ELSE /\ cache' = [cache EXCEPT ![k] = session]
                      /\ Set(k, IF r.turn = MaxTurns THEN [faulty EXCEPT !.at = "final"]
                                ELSE [faulty EXCEPT !.at = "ask", !.turn = @ + 1])
                      /\ UNCHANGED row

ToolDone(k, result) ==
  /\ run[k] # NULL /\ run[k].at = "tools"
  /\ LET r == [run[k] EXCEPT !.results = Append(@, result)] IN
       IF Len(r.results) < Len(r.calls)
         THEN Set(k, r) /\ UNCHANGED <<cache, row, breaker>>
         ELSE Processed(k, r)
  /\ UNCHANGED <<phase, now, last, triggers, stops>>

\* The commits that close the durable run of the trigger.
Close(k) ==
  /\ run[k] # NULL /\ run[k].at = "close"
  /\ Set(k, NULL)
  /\ last' = [last EXCEPT ![k] = "done"]
  /\ UNCHANGED <<phase, now, cache, row, breaker, triggers, stops>>

\* An exception escapes from the execution of a tool and is swallowed by the bus:
\* the session stays in the cache as it is.
Interrupted(k) == [cache[k] EXCEPT !.hurt = @ \/ run[k].at = "tools"]

Raise(k) ==
  /\ run[k] # NULL /\ run[k].at = "tools"
  /\ cache' = [cache EXCEPT ![k] = Interrupted(k)]
  /\ Set(k, NULL)
  /\ last' = [last EXCEPT ![k] = "raised"]
  /\ UNCHANGED <<phase, now, row, breaker, triggers, stops>>

-----------------------------------------------------------------------------
\* The process.

Tick ==
  /\ now < MaxTime
  /\ now' = now + 1
  /\ UNCHANGED <<phase, cache, row, run, breaker, last, triggers, stops>>

Cancelled(K) ==
  /\ cache' = [k \in Keys |-> IF k \in K \cap Running THEN Interrupted(k) ELSE cache[k]]
  /\ run' = [k \in Keys |-> IF k \in K THEN NULL ELSE run[k]]
  /\ last' = [k \in Keys |-> IF k \in K \cap Running THEN "cancelled" ELSE last[k]]

\* stop() cancels the main task, with the live run it awaits.
Stop ==
  /\ phase = "up" /\ stops < MaxStops
  /\ phase' = "stopping" /\ stops' = stops + 1
  /\ Cancelled(Live)
  /\ UNCHANGED <<now, row, breaker, triggers>>

\* _cleanup(): the scheduled runs are cancelled, then every cached session is
\* saved, as it is.
Shutdown ==
  /\ phase = "stopping"
  /\ phase' = "down"
  /\ last' = [k \in Keys |-> IF k \in Running THEN "cancelled" ELSE last[k]]
  /\ row' = [k \in Keys |-> IF cache[k] = NULL THEN row[k]
                            ELSE IF k \in Running THEN Interrupted(k) ELSE cache[k]]
  /\ cache' = [k \in Keys |-> NULL] /\ run' = [k \in Keys |-> NULL] /\ breaker' = Reset
  /\ UNCHANGED <<now, triggers, stops>>

Crash ==
  /\ phase # "down" /\ stops < MaxStops
  /\ phase' = "down" /\ stops' = stops + 1
  /\ last' = [k \in Keys |-> IF k \in Running THEN "crashed" ELSE last[k]]
  /\ cache' = [k \in Keys |-> NULL] /\ run' = [k \in Keys |-> NULL] /\ breaker' = Reset
  /\ UNCHANGED <<now, row, triggers>>

\* recover(): the rows that have not expired.
Boot ==
  /\ phase = "down"
  /\ phase' = "up"
  /\ cache' = [k \in Keys |-> IF row[k] = NULL \/ Expired(row[k]) THEN NULL ELSE row[k]]
  /\ UNCHANGED <<now, row, run, breaker, last, triggers, stops>>

LoopStep(k) ==
  \/ Text(k) \/ Final(k) \/ Sent(k) \/ NoText(k) \/ Close(k) \/ Raise(k)
  \/ \E calls \in BoundedSeq(Calls, MaxCalls) : AskTools(k, calls)
  \/ \E result \in {"ok", "error"} : ToolDone(k, result)

Next ==
  \/ \E k \in Keys : LoopStep(k)
  \/ \E k \in Keys, found \in BOOLEAN : Trigger(k, found)
  \/ Tick \/ Stop \/ Shutdown \/ Crash \/ Boot

Spec == Init /\ [][Next]_vars

-----------------------------------------------------------------------------
\* What makes conversations correct.

\* A request has a result for every tool call it mentions, unless a run was
\* left between its calls and their results: by the breaker tripping on an error
\* that is not the last, by an exception or by a cancellation.  The provider
\* refuses anything else, and a session that is malformed once stays so.
RequestsAreWhole == \A k \in Keys :
  run[k] # NULL /\ run[k].at \in {"ask", "final"} /\ ~cache[k].hurt
    => WellFormed(cache[k])

\* A crash loses nothing of a conversation whose last run has ended, whatever
\* ended it: the row is what the cache is.
EndedRunsAreSaved == \A k \in Keys :
  phase # "down" /\ run[k] = NULL /\ last[k] = "done" /\ cache[k] # NULL => row[k] = cache[k]

\* A run beside which no other ran gives up on errors only after MaxErrors of
\* its own: those of an earlier conversation do not count.
TripsOnItsOwnErrors == \A k \in Keys :
  run[k] # NULL /\ run[k].alone /\ run[k].outcome = "errors" => run[k].errors >= MaxErrors

\* A run gives up on errors only after MaxErrors of its own, whatever runs beside
\* it.  (Stated, and not kept by the code: the breaker is shared by all runs.)
TripsOnErrorsOfTheRun == \A k \in Keys :
  run[k] # NULL /\ run[k].outcome = "errors" => run[k].errors >= MaxErrors

\* Every request has a result for every tool call it mentions.  (Stated, and not
\* kept by the code: nothing repairs a session a run was cut short in, and every
\* failing trigger renews its time to live.)
EveryRequestIsWhole == \A k \in Keys :
  run[k] # NULL /\ run[k].at \in {"ask", "final"} => WellFormed(cache[k])
===============================================================================
