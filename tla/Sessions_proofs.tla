--------------------------- MODULE Sessions_proofs ---------------------------
(***************************************************************************)
(* Proofs about Sessions, for any chats and prompts, any time to live, any *)
(* limits of turns, errors and repetitions, any number of triggers, tool   *)
(* calls, crashes and shutdowns.                                           *)
(***************************************************************************)
EXTENDS Sessions, FiniteSetTheorems, SequenceTheorems, WellFoundedInduction, TLAPS

\* Between a message with tool calls and the last of their results.
Between(k) == run[k] # NULL /\ run[k].at = "tools"

\* The session of a run between its calls and their results lacks exactly these.
ToolsInv(k) ==
  Between(k) =>
    /\ Len(run[k].results) < Len(run[k].calls)
    /\ cache[k].open = Len(run[k].calls)
    /\ cache[k].hurt \/ cache[k].whole

\* A run that began alone and still is has counted each error the breaker has.
AloneInv(k) ==
  run[k] # NULL /\ run[k].alone =>
    /\ \A j \in Keys : j # k => run[j] = NULL
    /\ breaker.errors = run[k].errors
    /\ run[k].outcome = "errors" => run[k].errors >= MaxErrors

\* Where a run is, it has a session, which it has saved before it closes.
RunInv(k) ==
  run[k] # NULL =>
    /\ phase # "down" /\ cache[k] # NULL /\ last[k] = "running"
    /\ run[k].at = "close" => row[k] = cache[k]

Sound(session) == session.intro <= triggers /\ (session.hurt \/ WellFormed(session))

\* A session is whole unless a run was left in the middle of it, in the cache
\* as in its row.
StoredInv(k) ==
  /\ cache[k] # NULL => cache[k].intro <= triggers /\ (Between(k) \/ Sound(cache[k]))
  /\ row[k] # NULL => Sound(row[k])

\* After a run, and while the process is down.
RestInv(k) ==
  run[k] = NULL =>
    /\ phase = "down" => cache[k] = NULL
    /\ phase # "down" /\ last[k] = "done" /\ cache[k] # NULL => row[k] = cache[k]

KeyInv(k) == ToolsInv(k) /\ AloneInv(k) /\ RunInv(k) /\ StoredInv(k) /\ RestInv(k)

IInv == TypeOK /\ \A k \in Keys : KeyInv(k)
-----------------------------------------------------------------------------
\* Lists of calls and of results.

LEMMA LeastNatural ==
  ASSUME NEW T, T \subseteq Nat, T # {}
  PROVE  \E x \in T : \A y \in T : x <= y
<1>1. IsWellFoundedOn(OpToRel(<, Nat), Nat)
  BY NatLessThanWellFounded
<1>2. PICK x \in T : \A y \in T : ~ (<<y, x>> \in OpToRel(<, Nat))
  BY <1>1, WFMin
<1>3. \A y \in T : x <= y
  <2> SUFFICES ASSUME NEW y \in T PROVE x <= y
    OBVIOUS
  <2>1. x \in Nat /\ y \in Nat
    OBVIOUS
  <2>2. ~ (y < x)
    BY <1>2, <2>1, Zenon DEF OpToRel
  <2> QED BY <2>1, <2>2
<1> QED BY <1>3

LEMMA CountIsNat ==
  ASSUME NEW S, NEW list \in Seq(S), NEW x
  PROVE  Count(list, x) \in Nat
<1> DEFINE T == {i \in DOMAIN list : list[i] = x}
<1>1. DOMAIN list = 1..Len(list) /\ Len(list) \in Nat
  OBVIOUS
<1>2. IsFiniteSet(1..Len(list))
  BY <1>1, FS_Interval
<1>3. T \in SUBSET (1..Len(list))
  BY <1>1
<1> HIDE DEF T
<1>4. IsFiniteSet(T)
  BY <1>2, <1>3, FS_Subset
<1> QED
  BY <1>4, FS_CardinalityType DEF Count, T

LEMMA PrefixIsList ==
  ASSUME NEW S, NEW list \in Seq(S), NEW n \in 0..Len(list)
  PROVE  SubSeq(list, 1, n) \in Seq(S)
<1>1. \A i \in 1..n : list[i] \in S
  BY ElementOfSeq
<1> QED
  BY <1>1, SubSeqProperties

\* The first place of a list where something holds.
LEMMA FirstPlace ==
  ASSUME NEW S, NEW list \in Seq(S), NEW T \in SUBSET DOMAIN list, T # {}
  PROVE  \E n \in DOMAIN list : n \in T /\ \A m \in 1 .. n - 1 : m \notin T
<1>1. T \subseteq Nat /\ T # {}
  OBVIOUS
<1>2. PICK n \in T : \A y \in T : n <= y
  BY <1>1, LeastNatural
<1> QED
  BY <1>2

Outcomes == {"ok", "error"}

\* The results up to the one the breaker trips at, or all.
LEMMA KeptFacts ==
  ASSUME NEW results \in Seq(Outcomes)
  PROVE  /\ Kept(results) \in 0..Len(results)
         /\ Trips(results) => TripsAt(results, Kept(results))
         /\ ~Trips(results) => Kept(results) = Len(results)
<1> DEFINE T == {n \in DOMAIN results : TripsAt(results, n)}
           First(n) == TripsAt(results, n) /\ \A m \in 1 .. n - 1 : ~TripsAt(results, m)
<1>1. CASE Trips(results)
  <2>1. T # {} /\ T \in SUBSET DOMAIN results
    BY <1>1 DEF Trips
  <2>2. PICK n \in DOMAIN results : n \in T /\ \A m \in 1 .. n - 1 : m \notin T
    <3> HIDE DEF T
    <3> QED BY <2>1, FirstPlace
  <2>3. First(n)
    BY <2>2
  <2>4. Kept(results) = CHOOSE x \in DOMAIN results : First(x)
    BY <1>1 DEF Kept
  <2> HIDE DEF First
  <2>5. Kept(results) \in DOMAIN results /\ First(Kept(results))
    BY <2>3, <2>4
  <2> QED
    BY <1>1, <2>5 DEF First
<1>2. CASE ~Trips(results)
  BY <1>2 DEF Kept
<1> QED
  BY <1>1, <1>2

LEMMA RecordedFacts ==
  ASSUME NEW calls \in Seq(Calls), calls # <<>>
  PROVE  Recorded(calls) \in 1..Len(calls)
<1> DEFINE T == {n \in DOMAIN calls : n = Len(calls) \/ Over(calls, n)}
           First(n) == (n = Len(calls) \/ Over(calls, n)) /\ \A m \in 1 .. n - 1 : ~Over(calls, m)
<1>1. Len(calls) \in T /\ T \in SUBSET DOMAIN calls
  OBVIOUS
<1>2. PICK n \in DOMAIN calls : n \in T /\ \A m \in 1 .. n - 1 : m \notin T
  <2> HIDE DEF T
  <2> QED BY <1>1, FirstPlace
<1>3. First(n)
  BY <1>2
<1>4. Recorded(calls) = CHOOSE x \in DOMAIN calls : First(x)
  BY DEF Recorded
<1> HIDE DEF First
<1>5. Recorded(calls) \in DOMAIN calls
  BY <1>3, <1>4
<1> QED
  BY <1>5

-----------------------------------------------------------------------------
\* A step of one run.

\* What the other keys have stays, and no other run is alone while k runs.
LEMMA OneKeyInv ==
  ASSUME IInv, TypeOK', NEW k \in Keys, run[k] # NULL, KeyInv(k)',
         UNCHANGED <<phase, triggers>>,
         \A j \in Keys : j # k => /\ cache'[j] = cache[j] /\ row'[j] = row[j]
                                  /\ run'[j] = run[j] /\ last'[j] = last[j]
  PROVE  IInv'
<1> SUFFICES ASSUME NEW j \in Keys PROVE KeyInv(j)'
  BY DEF IInv
<1>1. CASE j = k
  BY <1>1
<1>2. CASE j # k
  <2>1. KeyInv(j)
    BY DEF IInv
  <2>2. /\ cache'[j] = cache[j] /\ row'[j] = row[j] /\ run'[j] = run[j] /\ last'[j] = last[j]
        /\ phase' = phase /\ triggers' = triggers
    BY <1>2
  <2>3. ToolsInv(j)' /\ StoredInv(j)' /\ RunInv(j)' /\ RestInv(j)'
    BY <2>1, <2>2 DEF KeyInv, ToolsInv, StoredInv, RunInv, RestInv, Between, Sound, WellFormed
  <2>4. run'[j] # NULL => ~run'[j].alone
    BY <1>2, <2>1, <2>2 DEF KeyInv, AloneInv
  <2> QED
    BY <2>3, <2>4 DEF KeyInv, AloneInv
<1> QED
  BY <1>1, <1>2

LEMMA ConstantFacts ==
  /\ NULL \notin Session /\ NULL \notin Run
  /\ MaxCalls \in Nat /\ MaxTriggers \in Nat /\ MaxTime \in Nat /\ MaxStops \in Nat
  /\ MaxTurns \in Nat /\ MaxTurns > 0 /\ MaxErrors \in Nat
  BY NullAssumption, BoundAssumption, LimitAssumption

\* Parts of what is about a key.
LEMMA KeyFacts ==
  ASSUME IInv, NEW k \in Keys
  PROVE  /\ KeyInv(k)
         /\ cache[k] # NULL => cache[k] \in Session
         /\ row[k] # NULL => row[k] \in Session
         /\ run[k] # NULL => run[k] \in Run /\ cache[k] # NULL /\ phase # "down"
  BY DEF IInv, TypeOK, KeyInv, RunInv

\* A run goes on with its session as it is.
LEMMA SameSessionInv ==
  ASSUME IInv, NEW k \in Keys, run[k] # NULL, run[k].at # "tools",
         run' = [run EXCEPT ![k] = Completed(k)],
         UNCHANGED <<phase, now, cache, row, breaker, last, triggers, stops>>
  PROVE  IInv'
<1>1. run[k] \in Run
  BY KeyFacts
<1>2. /\ Completed(k) \in Run /\ Completed(k) # NULL /\ Completed(k).at = "send"
      /\ Completed(k).alone = run[k].alone /\ Completed(k).errors = run[k].errors
      /\ Completed(k).outcome = "answered"
  BY <1>1, ConstantFacts DEF Completed, Answered, Run
<1>3. TypeOK'
  BY <1>2 DEF IInv, TypeOK
<1>4. run'[k] = Completed(k) /\ \A j \in Keys : j # k => run'[j] = run[j]
  BY DEF IInv, TypeOK
<1>5. KeyInv(k)
  BY KeyFacts
<1>6. ToolsInv(k)' /\ AloneInv(k)' /\ RunInv(k)' /\ StoredInv(k)' /\ RestInv(k)'
  BY <1>2, <1>4, <1>5
     DEF KeyInv, ToolsInv, AloneInv, RunInv, StoredInv, RestInv, Between, Sound, WellFormed
<1> QED
  BY <1>3, <1>4, <1>6, OneKeyInv DEF KeyInv

Ended(session) == [session EXCEPT !.first = FALSE, !.active = now]
Closing(r) == [r EXCEPT !.at = "close"]

LEMMA EndedFacts ==
  ASSUME NEW session \in Session, now \in 0..MaxTime
  PROVE  /\ Ended(session) \in Session /\ Ended(session) # NULL
         /\ Ended(session).intro = session.intro /\ Ended(session).hurt = session.hurt
         /\ Ended(session).whole = session.whole /\ Ended(session).open = session.open
<1>1. Ended(session) \in Session
  BY DEF Ended, Session
<1> QED
  BY <1>1, ConstantFacts DEF Ended, Session

LEMMA ClosingFacts ==
  ASSUME NEW r \in Run
  PROVE  /\ Closing(r) \in Run /\ Closing(r) # NULL /\ Closing(r).at = "close"
         /\ Closing(r).alone = r.alone /\ Closing(r).errors = r.errors
         /\ Closing(r).outcome = r.outcome
<1>1. Closing(r) \in Run
  BY DEF Closing, Run
<1> QED
  BY <1>1, ConstantFacts DEF Closing, Run

LEMMA EndsInv ==
  ASSUME IInv, NEW k \in Keys, run[k] # NULL,
         NEW session \in Session, NEW r \in Run, Ends(k, session, r),
         session.intro <= triggers, session.hurt \/ WellFormed(session),
         r.alone => \A j \in Keys : j # k => run[j] = NULL,
         r.alone => breaker'.errors = r.errors /\ (r.outcome = "errors" => r.errors >= MaxErrors),
         breaker' \in [errors: Nat, seen: [Calls -> Nat]],
         UNCHANGED <<phase, now, last, triggers, stops>>
  PROVE  IInv'
<1>1. now \in 0..MaxTime
  BY DEF IInv, TypeOK
<1>2. PICK ended :
        /\ ended = Ended(session) /\ ended \in Session /\ ended # NULL
        /\ ended.intro = session.intro /\ ended.hurt = session.hurt
        /\ ended.whole = session.whole /\ ended.open = session.open
  BY <1>1, EndedFacts
<1>3. PICK closing :
        /\ closing = Closing(r) /\ closing \in Run /\ closing # NULL /\ closing.at = "close"
        /\ closing.alone = r.alone /\ closing.errors = r.errors /\ closing.outcome = r.outcome
  BY ClosingFacts
<1>4. /\ cache' = [cache EXCEPT ![k] = ended] /\ row' = [row EXCEPT ![k] = ended]
      /\ run' = [run EXCEPT ![k] = closing]
  BY <1>2, <1>3 DEF Ends, Save, Set, Ended, Closing
<1>5. TypeOK'
  BY <1>2, <1>3, <1>4 DEF IInv, TypeOK
<1>6. /\ cache'[k] = ended /\ row'[k] = ended /\ run'[k] = closing
      /\ \A j \in Keys : j # k => cache'[j] = cache[j] /\ row'[j] = row[j] /\ run'[j] = run[j]
  BY <1>4 DEF IInv, TypeOK
<1>7. KeyInv(k)
  BY KeyFacts
<1>8. ended.intro <= triggers' /\ (ended.hurt \/ WellFormed(ended))
  BY <1>2 DEF WellFormed
<1>9. ToolsInv(k)' /\ RunInv(k)' /\ StoredInv(k)' /\ RestInv(k)'
  BY <1>2, <1>3, <1>6, <1>7, <1>8
     DEF KeyInv, ToolsInv, RunInv, StoredInv, RestInv, Between, Sound, WellFormed
<1>10. AloneInv(k)'
  BY <1>3, <1>6 DEF AloneInv
<1> QED
  BY <1>5, <1>6, <1>9, <1>10, OneKeyInv DEF KeyInv

-----------------------------------------------------------------------------
\* The actions of a run.

LEMMA TextInv == ASSUME IInv, NEW k \in Keys, Text(k) \/ Final(k) PROVE IInv'
  BY SameSessionInv DEF Text, Final, Set

\* What a run outside its tool calls hands to its end.
LEMMA BeforeTheEnd ==
  ASSUME IInv, NEW k \in Keys, run[k] # NULL, run[k].at # "tools"
  PROVE  /\ run[k] \in Run /\ cache[k] \in Session
         /\ cache[k].intro <= triggers /\ (cache[k].hurt \/ WellFormed(cache[k]))
         /\ run[k].alone =>
              /\ \A j \in Keys : j # k => run[j] = NULL
              /\ breaker.errors = run[k].errors
              /\ run[k].outcome = "errors" => run[k].errors >= MaxErrors
  BY KeyFacts DEF KeyInv, AloneInv, StoredInv, Between, Sound

LEMMA SentInv == ASSUME IInv, NEW k \in Keys, Sent(k) PROVE IInv'
<1>1. PICK session, r : session = cache[k] /\ r = run[k]
  OBVIOUS
<1>2. run[k] # NULL /\ run[k].at # "tools" /\ Ends(k, session, r)
  BY <1>1 DEF Sent
<1>3. breaker' = breaker /\ breaker \in [errors: Nat, seen: [Calls -> Nat]]
  BY DEF Sent, IInv, TypeOK
<1> QED
  BY <1>1, <1>2, <1>3, BeforeTheEnd, EndsInv DEF Sent

LEMMA NoTextInv == ASSUME IInv, NEW k \in Keys, NoText(k) PROVE IInv'
<1>1. PICK session, r : session = cache[k] /\ r = Answered(k)
  OBVIOUS
<1>2. run[k] # NULL /\ run[k].at # "tools" /\ Ends(k, session, r)
  BY <1>1 DEF NoText
<1>3. run[k] \in Run
  BY <1>2, BeforeTheEnd
<1>4. r \in Run /\ r.alone = run[k].alone /\ r.errors = run[k].errors /\ r.outcome = "answered"
  BY <1>1, <1>3 DEF Answered, Run
<1>5. breaker' = breaker /\ breaker \in [errors: Nat, seen: [Calls -> Nat]]
  BY DEF NoText, IInv, TypeOK
<1> QED
  BY <1>1, <1>2, <1>4, <1>5, BeforeTheEnd, EndsInv DEF NoText

LEMMA BoundedCalls ==
  ASSUME NEW calls \in BoundedSeq(Calls, MaxCalls)
  PROVE  calls \in Seq(Calls) /\ Len(calls) \in 0..MaxCalls
<1>1. PICK m \in 0..MaxCalls : calls \in [1..m -> Calls]
  BY DEF BoundedSeq, SeqOf
<1> QED
  BY <1>1, ConstantFacts

\* Between the calls and the results: the session lacks all of them.
LEMMA ToolsStepInv ==
  ASSUME IInv, NEW k \in Keys, run[k] # NULL,
         NEW r \in Run, r.at = "tools", Len(r.results) < Len(r.calls),
         r.alone = run[k].alone, r.errors = run[k].errors, r.outcome = run[k].outcome,
         NEW session \in Session, session.open = Len(r.calls),
         session.hurt \/ session.whole, session.intro <= triggers,
         run' = [run EXCEPT ![k] = r], cache' = [cache EXCEPT ![k] = session],
         UNCHANGED <<phase, now, row, breaker, last, triggers, stops>>
  PROVE  IInv'
<1>1. TypeOK'
  BY DEF IInv, TypeOK
<1>2. /\ run'[k] = r /\ cache'[k] = session /\ r # NULL /\ session # NULL
      /\ \A j \in Keys : j # k => run'[j] = run[j] /\ cache'[j] = cache[j]
  BY ConstantFacts DEF IInv, TypeOK
<1>3. KeyInv(k)
  BY KeyFacts
<1>4. ToolsInv(k)' /\ AloneInv(k)' /\ RunInv(k)' /\ StoredInv(k)' /\ RestInv(k)'
  BY <1>2, <1>3
     DEF KeyInv, ToolsInv, AloneInv, RunInv, StoredInv, RestInv, Between, Sound, WellFormed
<1> QED
  BY <1>1, <1>2, <1>4, OneKeyInv DEF KeyInv

LEMMA AskToolsInv ==
  ASSUME IInv, NEW k \in Keys, NEW calls \in BoundedSeq(Calls, MaxCalls), AskTools(k, calls)
  PROVE  IInv'
<1>1. PICK r, session : /\ r = [run[k] EXCEPT !.at = "tools", !.calls = calls, !.results = <<>>]
                        /\ session = Assistant(cache[k], Len(calls))
  OBVIOUS
<1>2. run[k] # NULL /\ run[k].at = "ask" /\ calls # <<>>
  BY DEF AskTools
<1>3. calls \in Seq(Calls) /\ Len(calls) \in 0..MaxCalls /\ Len(calls) > 0
  BY <1>2, BoundedCalls
<1>4. run[k] \in Run /\ cache[k] \in Session /\ cache[k].intro <= triggers
      /\ (cache[k].hurt \/ WellFormed(cache[k]))
  BY <1>2, BeforeTheEnd
<1>5. /\ r \in Run /\ r.at = "tools" /\ Len(r.results) < Len(r.calls)
      /\ r.alone = run[k].alone /\ r.errors = run[k].errors /\ r.outcome = run[k].outcome
      /\ r.calls = calls
  <2>1. <<>> \in Seq({"ok", "error"}) /\ Len(<<>>) = 0
    OBVIOUS
  <2>2. r \in Run
    BY <1>1, <1>3, <1>4, <2>1 DEF Run
  <2>3. /\ r.at = "tools" /\ r.calls = calls /\ r.results = <<>> /\ r.alone = run[k].alone
        /\ r.errors = run[k].errors /\ r.outcome = run[k].outcome
    BY <1>1, <1>4 DEF Run
  <2> QED
    BY <1>3, <2>1, <2>2, <2>3
<1>6. /\ session \in Session /\ session.open = Len(calls) /\ session.hurt = cache[k].hurt
      /\ session.whole = WellFormed(cache[k]) /\ session.intro = cache[k].intro
  <2>1. WellFormed(cache[k]) \in BOOLEAN
    BY <1>4 DEF WellFormed, Session
  <2> QED
    BY <1>1, <1>3, <1>4, <2>1 DEF Assistant, Session
<1>7. run' = [run EXCEPT ![k] = r] /\ cache' = [cache EXCEPT ![k] = session]
  BY <1>1 DEF AskTools, Set
<1> QED
  BY <1>2, <1>4, <1>5, <1>6, <1>7, ToolsStepInv DEF AskTools

\* One more result, and more to come.
LEMMA MoreToComeInv ==
  ASSUME IInv, NEW k \in Keys, Between(k), NEW result \in Outcomes,
         NEW r, r = [run[k] EXCEPT !.results = Append(@, result)],
         r \in Run, Len(r.results) < Len(r.calls), run' = [run EXCEPT ![k] = r],
         UNCHANGED <<phase, now, cache, row, breaker, last, triggers, stops>>
  PROVE  IInv'
<1>1. run[k] # NULL /\ run[k].at = "tools" /\ KeyInv(k) /\ run[k] \in Run
  BY KeyFacts DEF Between
<1>2. /\ r.at = "tools" /\ r.calls = run[k].calls /\ r.alone = run[k].alone
      /\ r.errors = run[k].errors /\ r.outcome = run[k].outcome
  BY <1>1 DEF Run
<1>3. PICK session \in Session : session = cache[k]
  BY <1>1, KeyFacts
<1>4. session.open = Len(r.calls) /\ (session.hurt \/ session.whole) /\ session.intro <= triggers
  BY <1>1, <1>2, <1>3, KeyFacts DEF KeyInv, ToolsInv, StoredInv, Between
<1>5. cache' = [cache EXCEPT ![k] = session]
  BY <1>3 DEF IInv, TypeOK
<1> QED
  BY <1>1, <1>2, <1>3, <1>4, <1>5, ToolsStepInv

\* The session after as many results as were kept.
LEMMA KeptSession ==
  ASSUME NEW session \in Session, NEW n \in 0..session.open
  PROVE  /\ Results(session, n) \in Session
         /\ Results(session, n).open = session.open - n
         /\ Results(session, n).whole = session.whole
         /\ Results(session, n).hurt = session.hurt
         /\ Results(session, n).intro = session.intro
<1>1. session.open \in 0..MaxCalls /\ session.open - n \in 0..MaxCalls
  BY ConstantFacts DEF Session
<1> QED
  BY <1>1 DEF Results, Session

\* The run goes on with another request.
LEMMA GoesOnInv ==
  ASSUME IInv, NEW k \in Keys, run[k] # NULL,
         NEW session \in Session, session.intro <= triggers, session.hurt \/ WellFormed(session),
         NEW r \in Run, r.at \in {"ask", "final"}, r.alone = run[k].alone,
         r.alone => breaker'.errors = r.errors /\ (r.outcome = "errors" => r.errors >= MaxErrors),
         breaker' \in [errors: Nat, seen: [Calls -> Nat]],
         run' = [run EXCEPT ![k] = r], cache' = [cache EXCEPT ![k] = session],
         UNCHANGED <<phase, now, row, last, triggers, stops>>
  PROVE  IInv'
<1>1. TypeOK'
  BY DEF IInv, TypeOK
<1>2. /\ run'[k] = r /\ cache'[k] = session /\ r # NULL /\ session # NULL
      /\ \A j \in Keys : j # k => run'[j] = run[j] /\ cache'[j] = cache[j]
  BY ConstantFacts DEF IInv, TypeOK
<1>3. KeyInv(k)
  BY KeyFacts
<1>4. ToolsInv(k)' /\ AloneInv(k)' /\ RunInv(k)' /\ StoredInv(k)' /\ RestInv(k)'
  BY <1>2, <1>3
     DEF KeyInv, ToolsInv, AloneInv, RunInv, StoredInv, RestInv, Between, Sound, WellFormed
<1> QED
  BY <1>1, <1>2, <1>4, OneKeyInv DEF KeyInv

\* The breaker after e errors, and after it has counted calls as well.
Counted(e) == [breaker EXCEPT !.errors = @ + e]
Seen(calls) == [c \in Calls |-> breaker.seen[c] + Count(SubSeq(calls, 1, Recorded(calls)), c)]

LEMMA BreakerFacts ==
  ASSUME IInv, NEW e \in Nat, NEW calls \in Seq(Calls), calls # <<>>
  PROVE  \E counted, seen :
           /\ counted = Counted(e) /\ seen = Seen(calls)
           /\ counted \in [errors: Nat, seen: [Calls -> Nat]]
           /\ [counted EXCEPT !.seen = seen] \in [errors: Nat, seen: [Calls -> Nat]]
           /\ counted.errors = breaker.errors + e
           /\ [counted EXCEPT !.seen = seen].errors = breaker.errors + e
<1>0. PICK counted, seen : counted = Counted(e) /\ seen = Seen(calls)
  OBVIOUS
<1>1. breaker \in [errors: Nat, seen: [Calls -> Nat]]
  BY DEF IInv, TypeOK
<1>2. counted \in [errors: Nat, seen: [Calls -> Nat]] /\ counted.errors = breaker.errors + e
  <2>1. PICK n \in Nat : n = breaker.errors + e
    BY <1>1
  <2>2. counted = [breaker EXCEPT !.errors = n]
    BY <1>0, <2>1 DEF Counted
  <2> QED
    BY <1>1, <2>1, <2>2
<1>3. ASSUME NEW c \in Calls PROVE Count(SubSeq(calls, 1, Recorded(calls)), c) \in Nat
  <2>1. Recorded(calls) \in 0..Len(calls)
    BY RecordedFacts
  <2>2. SubSeq(calls, 1, Recorded(calls)) \in Seq(Calls)
    BY <2>1, PrefixIsList
  <2> QED
    BY <2>2, CountIsNat
<1>4. seen \in [Calls -> Nat]
  BY <1>0, <1>1, <1>3 DEF Seen
<1>5. /\ [counted EXCEPT !.seen = seen] \in [errors: Nat, seen: [Calls -> Nat]]
      /\ [counted EXCEPT !.seen = seen].errors = breaker.errors + e
  BY <1>2, <1>4
<1> QED
  BY <1>0, <1>2, <1>5

\* The run after its results have been looked at: e errors more.
LEMMA FaultyFacts ==
  ASSUME NEW r \in Run, NEW e \in Nat, NEW faulty,
         faulty = [r EXCEPT !.errors = @ + e, !.calls = <<>>, !.results = <<>>]
  PROVE  /\ faulty \in Run /\ faulty.alone = r.alone /\ faulty.errors = r.errors + e
         /\ faulty.outcome = r.outcome /\ faulty.turn = r.turn
<1>1. <<>> \in Seq({"ok", "error"}) /\ <<>> \in Seq(Calls)
  OBVIOUS
<1>2. PICK n \in Nat : n = r.errors + e
  BY DEF Run
<1>3. faulty = [r EXCEPT !.errors = n, !.calls = <<>>, !.results = <<>>]
  BY <1>2
<1>4. faulty \in Run
  BY <1>1, <1>3 DEF Run
<1> QED
  BY <1>2, <1>3, <1>4 DEF Run

\* What is known when the results are all there.
ResultsAreThere(k, r, kept, e, session, faulty) ==
  /\ kept = Kept(r.results) /\ kept \in 0..Len(r.calls)
  /\ e = Errors(SubSeq(r.results, 1, kept)) /\ e \in Nat
  /\ session = Results(cache[k], kept) /\ session \in Session
  /\ session.intro <= triggers /\ session.open = Len(r.calls) - kept
  /\ session.hurt \/ session.whole
  /\ faulty = [r EXCEPT !.errors = @ + e, !.calls = <<>>, !.results = <<>>] /\ faulty \in Run
  /\ faulty.errors = r.errors + e /\ faulty.alone = r.alone
  /\ faulty.outcome = r.outcome /\ faulty.turn = r.turn

LEMMA ResultsFacts ==
  ASSUME IInv, NEW k \in Keys, Between(k), NEW r \in Run, r.calls = run[k].calls,
         Len(r.results) = Len(r.calls)
  PROVE  \E kept, e, session, faulty : ResultsAreThere(k, r, kept, e, session, faulty)
<1>1. KeyInv(k) /\ cache[k] \in Session /\ run[k] \in Run
  BY KeyFacts DEF Between
<1>2. /\ cache[k].open = Len(r.calls) /\ (cache[k].hurt \/ cache[k].whole)
      /\ cache[k].intro <= triggers
  BY <1>1, ConstantFacts DEF KeyInv, ToolsInv, StoredInv, Between, Sound
<1>3. r.results \in Seq(Outcomes) /\ r.calls \in Seq(Calls)
  BY DEF Run, Outcomes
<1>4. PICK kept : kept = Kept(r.results) /\ kept \in 0..Len(r.results)
  BY <1>3, KeptFacts
<1>5. PICK e : e = Errors(SubSeq(r.results, 1, kept)) /\ e \in Nat
  BY <1>3, <1>4, PrefixIsList, CountIsNat DEF Errors
<1>6. PICK session, faulty : /\ session = Results(cache[k], kept)
                             /\ faulty = [r EXCEPT !.errors = @ + e, !.calls = <<>>,
                                                   !.results = <<>>]
  OBVIOUS
<1>7. /\ session \in Session /\ session.open = Len(r.calls) - kept
      /\ session.hurt = cache[k].hurt /\ session.whole = cache[k].whole
      /\ session.intro = cache[k].intro
  BY <1>1, <1>2, <1>4, <1>6, KeptSession
<1>8. /\ faulty \in Run /\ faulty.errors = r.errors + e /\ faulty.alone = r.alone
      /\ faulty.outcome = r.outcome /\ faulty.turn = r.turn
  BY <1>5, <1>6, FaultyFacts
<1>9. ResultsAreThere(k, r, kept, e, session, faulty)
  BY <1>2, <1>4, <1>5, <1>6, <1>7, <1>8 DEF ResultsAreThere
<1> QED
  BY <1>9

LEMMA ProcessedInv ==
  ASSUME IInv, NEW k \in Keys, Between(k), NEW r \in Run, r.calls = run[k].calls,
         r.alone = run[k].alone, r.errors = run[k].errors, r.outcome = run[k].outcome,
         Len(r.results) = Len(r.calls), Processed(k, r),
         UNCHANGED <<phase, now, last, triggers, stops>>
  PROVE  IInv'
<1>1. PICK kept, e, session, faulty : ResultsAreThere(k, r, kept, e, session, faulty)
  BY ResultsFacts
<1>3. KeyInv(k) /\ run[k] # NULL /\ breaker.errors \in Nat
  BY KeyFacts DEF Between, IInv, TypeOK
<1>4. r.calls \in Seq(Calls) /\ r.calls # <<>> /\ r.results \in Seq(Outcomes)
  <2>1. r.calls \in Seq(Calls) /\ r.results \in Seq(Outcomes) /\ run[k].results \in Seq(Outcomes)
    BY <1>3, KeyFacts DEF Run, Outcomes
  <2>2. Len(run[k].results) < Len(r.calls) /\ Len(run[k].results) \in Nat
    BY <1>3, <2>1 DEF KeyInv, ToolsInv, Between
  <2> QED
    BY <2>1, <2>2
<1>5. PICK counted, seen :
        /\ counted = Counted(e) /\ seen = Seen(r.calls)
        /\ counted \in [errors: Nat, seen: [Calls -> Nat]]
        /\ [counted EXCEPT !.seen = seen] \in [errors: Nat, seen: [Calls -> Nat]]
        /\ counted.errors = breaker.errors + e
        /\ [counted EXCEPT !.seen = seen].errors = breaker.errors + e
  <2>1. e \in Nat
    BY <1>1 DEF ResultsAreThere
  <2> QED
    BY <1>4, <2>1, BreakerFacts
<1>6. r.alone => /\ \A j \in Keys : j # k => run[j] = NULL
                 /\ breaker.errors = r.errors
                 /\ r.outcome = "errors" => r.errors >= MaxErrors
  BY <1>3 DEF KeyInv, AloneInv
<1>7. r.errors \in Nat /\ e \in Nat /\ MaxErrors \in Nat
  BY <1>1, ConstantFacts DEF ResultsAreThere, Run
<1>8. CASE Trips(r.results)
  <2>1. PICK left : left = [session EXCEPT !.hurt = @ \/ kept < Len(r.calls)]
    OBVIOUS
  <2>2. PICK stopped : stopped = [faulty EXCEPT !.outcome = "errors"]
    OBVIOUS
  <2>3. Ends(k, left, stopped) /\ breaker' = counted
    BY <1>1, <1>5, <1>8, <2>1, <2>2 DEF Processed, ResultsAreThere, Counted
  <2>4. /\ left \in Session /\ left.intro = session.intro /\ left.open = session.open
        /\ left.whole = session.whole /\ left.hurt = (session.hurt \/ kept < Len(r.calls))
    <3>1. (session.hurt \/ kept < Len(r.calls)) \in BOOLEAN /\ session \in Session
      BY <1>1 DEF ResultsAreThere, Session
    <3> QED
      BY <2>1, <3>1 DEF Session
  <2>5. left.hurt \/ WellFormed(left)
    <3>1. CASE session.hurt \/ kept < Len(r.calls)
      BY <2>4, <3>1
    <3>2. CASE ~session.hurt /\ ~(kept < Len(r.calls))
      <4>1. session.whole /\ session.open = 0
        BY <1>1, <1>4, <3>2 DEF ResultsAreThere
      <4> QED
        BY <2>4, <4>1 DEF WellFormed
    <3> QED
      BY <3>1, <3>2
  <2>6. /\ stopped \in Run /\ stopped.alone = r.alone /\ stopped.errors = r.errors + e
    BY <1>1, <2>2 DEF ResultsAreThere, Run
  <2>7. breaker.errors + e >= MaxErrors
    BY <1>1, <1>4, <1>8, KeptFacts DEF ResultsAreThere, TripsAt
  <2> QED
    BY <1>1, <1>3, <1>5, <1>6, <1>7, <2>3, <2>4, <2>5, <2>6, <2>7, EndsInv DEF ResultsAreThere
<1>9. CASE ~Trips(r.results)
  <2>1. kept = Len(r.calls)
    BY <1>1, <1>4, <1>9, KeptFacts DEF ResultsAreThere
  <2>2. session \in Session /\ session.intro <= triggers /\ (session.hurt \/ WellFormed(session))
    BY <1>1, <1>4, <2>1 DEF ResultsAreThere, WellFormed
  <2>3. breaker' = [counted EXCEPT !.seen = seen]
    BY <1>1, <1>5, <1>9 DEF Processed, ResultsAreThere, Counted, Seen
  <2>4. CASE Repeats(r.calls)
    <3>1. PICK stopped : stopped = [faulty EXCEPT !.outcome = "repeats"]
      OBVIOUS
    <3>2. Ends(k, session, stopped)
      BY <1>1, <1>9, <2>4, <3>1 DEF Processed, ResultsAreThere
    <3>3. /\ stopped \in Run /\ stopped.alone = r.alone /\ stopped.errors = r.errors + e
          /\ stopped.outcome = "repeats"
      BY <1>1, <3>1 DEF ResultsAreThere, Run
    <3> QED
      BY <1>3, <1>5, <1>6, <2>2, <2>3, <3>2, <3>3, EndsInv
  <2>5. CASE ~Repeats(r.calls)
    <3>1. PICK next : next = IF r.turn = MaxTurns THEN [faulty EXCEPT !.at = "final"]
                             ELSE [faulty EXCEPT !.at = "ask", !.turn = @ + 1]
      OBVIOUS
    <3>2. /\ cache' = [cache EXCEPT ![k] = session] /\ run' = [run EXCEPT ![k] = next]
          /\ row' = row
      BY <1>1, <1>9, <2>5, <3>1 DEF Processed, ResultsAreThere, Set
    <3>3. /\ next \in Run /\ next.at \in {"ask", "final"} /\ next.alone = r.alone
          /\ next.errors = r.errors + e /\ next.outcome = r.outcome
      <4>1. faulty \in Run /\ faulty.turn = r.turn /\ r.turn \in 1..MaxTurns
        BY <1>1 DEF ResultsAreThere, Run
      <4>2. r.turn # MaxTurns => faulty.turn + 1 \in 1..MaxTurns
        BY <4>1, ConstantFacts
      <4>3. next \in Run
        BY <3>1, <4>1, <4>2 DEF Run
      <4> QED
        BY <1>1, <3>1, <4>1, <4>3 DEF ResultsAreThere, Run
    <3>4. next.alone => /\ breaker'.errors = next.errors
                        /\ next.outcome = "errors" => next.errors >= MaxErrors
      BY <1>5, <1>6, <1>7, <2>3, <3>3
    <3>5. breaker' \in [errors: Nat, seen: [Calls -> Nat]]
      BY <1>5, <2>3, Zenon
    <3>6. next.alone = run[k].alone /\ UNCHANGED <<phase, now, row, last, triggers, stops>>
      BY <3>2, <3>3
    <3> QED
      BY <1>3, <2>2, <3>2, <3>3, <3>4, <3>5, <3>6, GoesOnInv
  <2> QED
    BY <2>4, <2>5
<1> QED
  BY <1>8, <1>9

LEMMA ToolDoneInv ==
  ASSUME IInv, NEW k \in Keys, NEW result \in Outcomes, ToolDone(k, result)
  PROVE  IInv'
<1>1. PICK r : r = [run[k] EXCEPT !.results = Append(@, result)]
  OBVIOUS
<1>2. Between(k) /\ run[k] \in Run /\ KeyInv(k)
  BY KeyFacts DEF ToolDone, Between
<1>3. /\ Append(run[k].results, result) \in Seq(Outcomes)
      /\ Len(Append(run[k].results, result)) = Len(run[k].results) + 1
      /\ Len(run[k].results) \in Nat /\ Len(run[k].calls) \in Nat
  BY <1>2 DEF Run, Outcomes
<1>4. /\ r \in Run /\ r.results = Append(run[k].results, result) /\ r.calls = run[k].calls
      /\ r.alone = run[k].alone /\ r.errors = run[k].errors /\ r.outcome = run[k].outcome
  <2>1. r \in Run
    BY <1>1, <1>2, <1>3 DEF Run, Outcomes
  <2> QED
    BY <1>1, <1>2, <2>1 DEF Run
<1>5. Len(r.results) <= Len(r.calls)
  BY <1>2, <1>3, <1>4 DEF KeyInv, ToolsInv
<1>6. CASE Len(r.results) < Len(r.calls)
  <2>1. run' = [run EXCEPT ![k] = r]
    BY <1>1, <1>6 DEF ToolDone, Set
  <2>2. UNCHANGED <<phase, now, cache, row, breaker, last, triggers, stops>>
    BY <1>1, <1>6 DEF ToolDone
  <2> QED
    BY <1>1, <1>2, <1>4, <1>6, <2>1, <2>2, MoreToComeInv
<1>7. CASE ~(Len(r.results) < Len(r.calls))
  <2>1. Processed(k, r) /\ UNCHANGED <<phase, now, last, triggers, stops>>
    BY <1>1, <1>7 DEF ToolDone
  <2>2. Len(r.results) = Len(r.calls)
    BY <1>3, <1>4, <1>5, <1>7
  <2> QED
    BY <1>2, <1>4, <2>1, <2>2, ProcessedInv
<1> QED
  BY <1>6, <1>7

LEMMA CloseInv == ASSUME IInv, NEW k \in Keys, Close(k) PROVE IInv'
<1>1. KeyInv(k) /\ run[k] # NULL /\ run[k].at = "close" /\ cache[k] # NULL
  BY KeyFacts DEF Close
<1>2. TypeOK'
  BY DEF Close, Set, IInv, TypeOK
<1>3. /\ run'[k] = NULL /\ last'[k] = "done"
      /\ \A j \in Keys : j # k => run'[j] = run[j] /\ last'[j] = last[j]
      /\ UNCHANGED <<phase, now, cache, row, breaker, triggers, stops>>
  BY DEF Close, Set, IInv, TypeOK
<1>4. ToolsInv(k)' /\ AloneInv(k)' /\ RunInv(k)' /\ StoredInv(k)' /\ RestInv(k)'
  BY <1>1, <1>3
     DEF KeyInv, ToolsInv, AloneInv, RunInv, StoredInv, RestInv, Between, Sound, WellFormed
<1> QED
  BY <1>1, <1>2, <1>3, <1>4, OneKeyInv DEF KeyInv

\* A run that is left in the middle leaves a session of its type, which says so.
LEMMA InterruptedFacts ==
  ASSUME IInv, NEW k \in Keys, run[k] # NULL
  PROVE  /\ Interrupted(k) \in Session /\ Interrupted(k) # NULL
         /\ Interrupted(k).intro <= triggers
         /\ Interrupted(k).hurt \/ WellFormed(Interrupted(k))
<1>1. cache[k] \in Session /\ KeyInv(k) /\ cache[k] # NULL /\ run[k] \in Run
  BY KeyFacts
<1>2. PICK h \in BOOLEAN : h = (cache[k].hurt \/ run[k].at = "tools")
  BY <1>1 DEF Session
<1>3. Interrupted(k) = [cache[k] EXCEPT !.hurt = h]
  BY <1>2 DEF Interrupted
<1>4. /\ Interrupted(k) \in Session /\ Interrupted(k).intro = cache[k].intro
      /\ Interrupted(k).hurt = h /\ Interrupted(k).whole = cache[k].whole
      /\ Interrupted(k).open = cache[k].open
  BY <1>1, <1>3 DEF Session
<1>5. h \/ WellFormed(cache[k])
  BY <1>1, <1>2 DEF KeyInv, StoredInv, Between, Sound
<1> QED
  BY <1>1, <1>4, <1>5, ConstantFacts DEF KeyInv, StoredInv, WellFormed

LEMMA RaiseInv == ASSUME IInv, NEW k \in Keys, Raise(k) PROVE IInv'
<1>1. KeyInv(k) /\ run[k] # NULL
  BY KeyFacts DEF Raise
<1>2. PICK session : /\ session = Interrupted(k) /\ session \in Session /\ session # NULL
                     /\ session.intro <= triggers /\ (session.hurt \/ WellFormed(session))
  BY <1>1, InterruptedFacts
<1>3. TypeOK'
  BY <1>2 DEF Raise, Set, IInv, TypeOK
<1>4. /\ run'[k] = NULL /\ last'[k] = "raised" /\ cache'[k] = session
      /\ \A j \in Keys : j # k => run'[j] = run[j] /\ last'[j] = last[j] /\ cache'[j] = cache[j]
      /\ UNCHANGED <<phase, now, row, breaker, triggers, stops>>
  BY <1>2 DEF Raise, Set, IInv, TypeOK
<1>5. phase # "down"
  BY <1>1 DEF KeyInv, RunInv
<1>6. ToolsInv(k)' /\ AloneInv(k)' /\ RunInv(k)' /\ StoredInv(k)' /\ RestInv(k)'
  BY <1>1, <1>2, <1>4, <1>5
     DEF KeyInv, ToolsInv, AloneInv, RunInv, StoredInv, RestInv, Between, Sound, WellFormed
<1> QED
  BY <1>1, <1>3, <1>4, <1>6, OneKeyInv DEF KeyInv

LEMMA LoopStepInv == ASSUME IInv, NEW k \in Keys, LoopStep(k) PROVE IInv'
  BY TextInv, SentInv, NoTextInv, CloseInv, RaiseInv, AskToolsInv, ToolDoneInv
     DEF LoopStep, Outcomes

-----------------------------------------------------------------------------
\* A trigger.

\* The session it begins with.
LEMMA OpenedFacts ==
  ASSUME IInv, NEW k \in Keys, run[k] = NULL, NEW found \in BOOLEAN, triggers < MaxTriggers
  PROVE  /\ Injected(Opened(k), found) \in Session
         /\ Injected(Opened(k), found).intro <= triggers + 1
         /\ Injected(Opened(k), found).hurt \/ WellFormed(Injected(Opened(k), found))
<1>1. KeyInv(k) /\ (cache[k] # NULL => cache[k] \in Session)
  BY KeyFacts
<1>2. now \in 0..MaxTime /\ triggers \in 0..MaxTriggers
  BY DEF IInv, TypeOK
<1>3. PICK opened : opened = Opened(k)
  OBVIOUS
<1>4. /\ opened \in Session /\ opened.intro <= triggers
      /\ opened.hurt \/ WellFormed(opened)
  <2>1. CASE Reused(k)
    <3>1. cache[k] \in Session /\ cache[k].intro <= triggers
          /\ (cache[k].hurt \/ WellFormed(cache[k]))
      BY <1>1, <2>1 DEF Reused, KeyInv, StoredInv, Between, Sound
    <3>2. PICK w \in BOOLEAN : w = WellFormed(cache[k])
      BY <3>1 DEF WellFormed, Session
    <3>3. opened = [[cache[k] EXCEPT !.whole = w, !.open = 0] EXCEPT !.active = now]
      BY <1>3, <2>1, <3>2 DEF Opened, User
    <3>4. /\ opened \in Session /\ opened.intro = cache[k].intro /\ opened.hurt = cache[k].hurt
          /\ opened.whole = w /\ opened.open = 0
      <4>1. PICK user : user = [cache[k] EXCEPT !.whole = w, !.open = 0]
        OBVIOUS
      <4>2. 0 \in 0..MaxCalls
        BY ConstantFacts
      <4>3. /\ user \in Session /\ user.intro = cache[k].intro /\ user.hurt = cache[k].hurt
            /\ user.whole = w /\ user.open = 0
        BY <3>1, <4>1, <4>2 DEF Session
      <4>4. opened = [user EXCEPT !.active = now]
        BY <3>3, <4>1
      <4> QED
        BY <1>2, <4>3, <4>4 DEF Session
    <3> QED
      BY <3>1, <3>2, <3>4 DEF WellFormed
  <2>2. CASE ~Reused(k)
    <3>1. opened = [whole |-> TRUE, open |-> 0, intro |-> 0, first |-> TRUE, active |-> now,
                    hurt |-> FALSE]
      BY <1>3, <2>2 DEF Opened
    <3> QED
      BY <1>2, <3>1, ConstantFacts DEF Session, WellFormed
  <2> QED
    BY <2>1, <2>2
<1>5. opened.intro \in 0..MaxTriggers
  BY <1>4 DEF Session
<1>6. PICK n : n = opened.intro + 1 /\ n \in 0..MaxTriggers
  BY <1>2, <1>4, <1>5, ConstantFacts
<1>7. Injected(opened, found) = IF found /\ opened.first THEN [opened EXCEPT !.intro = n]
                                ELSE opened
  BY <1>6 DEF Injected
<1>8. /\ Injected(opened, found) \in Session
      /\ Injected(opened, found).intro \in {opened.intro, n}
      /\ Injected(opened, found).hurt = opened.hurt
      /\ Injected(opened, found).whole = opened.whole
      /\ Injected(opened, found).open = opened.open
  BY <1>4, <1>6, <1>7 DEF Session
<1> QED
  BY <1>2, <1>3, <1>4, <1>5, <1>6, <1>8 DEF WellFormed

LEMMA TriggerInv ==
  ASSUME IInv, NEW k \in Keys, NEW found \in BOOLEAN, Trigger(k, found)
  PROVE  IInv'
<1>1. run[k] = NULL /\ phase = "up" /\ triggers < MaxTriggers /\ triggers \in 0..MaxTriggers
  BY DEF Trigger, MayStart, Keys, IInv, TypeOK
<1>2. PICK session : /\ session = Injected(Opened(k), found) /\ session \in Session
                     /\ session.intro <= triggers + 1
                     /\ session.hurt \/ WellFormed(session)
  BY <1>1, OpenedFacts
<1>3. PICK r : r = Started(k)
  OBVIOUS
<1>4. /\ r \in Run /\ r.at = "ask" /\ r.outcome = "open" /\ r.errors = 0
      /\ r.alone <=> Running = {}
  <2>1. <<>> \in Seq({"ok", "error"}) /\ <<>> \in Seq(Calls) /\ 1 \in 1..MaxTurns
    BY ConstantFacts
  <2>2. PICK b \in BOOLEAN : b = (Running = {})
    OBVIOUS
  <2>3. r = [at |-> "ask", turn |-> 1, calls |-> <<>>, results |-> <<>>, outcome |-> "open",
             errors |-> 0, alone |-> b]
    BY <1>3, <2>2 DEF Started
  <2> QED
    BY <2>1, <2>2, <2>3 DEF Run
<1>5. Reset \in [errors: Nat, seen: [Calls -> Nat]] /\ Reset.errors = 0
  BY DEF Reset
<1>6. /\ cache' = [cache EXCEPT ![k] = session]
      /\ run' = [j \in Keys |-> IF j = k THEN r
                                ELSE IF run[j] = NULL THEN NULL ELSE [run[j] EXCEPT !.alone = FALSE]]
      /\ breaker' = Reset /\ last' = [last EXCEPT ![k] = "running"]
      /\ triggers' = triggers + 1
      /\ UNCHANGED <<phase, now, row, stops>>
  BY <1>2, <1>3 DEF Trigger, AtStart
<1>7. ASSUME NEW j \in Keys, j # k, run[j] # NULL
      PROVE  /\ run'[j] \in Run /\ run'[j] # NULL /\ run'[j].at = run[j].at
             /\ run'[j].calls = run[j].calls /\ run'[j].results = run[j].results
             /\ ~run'[j].alone
  <2>1. run[j] \in Run /\ run'[j] = [run[j] EXCEPT !.alone = FALSE]
    BY <1>6, <1>7, KeyFacts
  <2> QED
    BY <2>1, ConstantFacts DEF Run
<1>8. TypeOK'
  <2>1. run' \in [Keys -> {NULL} \cup Run]
    <3>1. \A j \in Keys : run'[j] \in {NULL} \cup Run
      BY <1>4, <1>6, <1>7
    <3> QED
      BY <1>6, <3>1
  <2>2. triggers' \in 0..MaxTriggers
    BY <1>1, <1>6, ConstantFacts
  <2> QED
    BY <1>2, <1>5, <1>6, <2>1, <2>2 DEF IInv, TypeOK
<1>9. KeyInv(k)'
  <2>1. run'[k] = r /\ r # NULL /\ cache'[k] = session /\ session # NULL /\ last'[k] = "running"
        /\ row'[k] = row[k]
    BY <1>2, <1>4, <1>6, ConstantFacts DEF IInv, TypeOK
  <2>2. r.alone => \A j \in Keys : j # k => run'[j] = NULL
    BY <1>4, <1>6 DEF Running
  <2>3. AloneInv(k)'
    BY <1>4, <1>5, <1>6, <2>1, <2>2 DEF AloneInv
  <2>4. KeyInv(k) /\ (row[k] # NULL => row[k] \in Session)
    BY KeyFacts
  <2>5. StoredInv(k)'
    BY <1>1, <1>2, <1>6, <2>1, <2>4 DEF KeyInv, StoredInv, Sound, WellFormed, Session
  <2>6. ToolsInv(k)' /\ RunInv(k)' /\ RestInv(k)'
    BY <1>1, <1>4, <1>6, <2>1 DEF ToolsInv, RunInv, RestInv, Between
  <2> QED
    BY <2>3, <2>5, <2>6 DEF KeyInv
<1>10. ASSUME NEW j \in Keys, j # k PROVE KeyInv(j)'
  <2>1. /\ KeyInv(j)
        /\ cache'[j] = cache[j] /\ row'[j] = row[j] /\ last'[j] = last[j] /\ phase' = phase
        /\ run'[j] = NULL <=> run[j] = NULL
    BY <1>6, <1>7, <1>10, KeyFacts DEF IInv, TypeOK
  <2>2. (cache[j] # NULL => cache[j] \in Session) /\ (row[j] # NULL => row[j] \in Session)
    BY KeyFacts
  <2>3. Between(j)' <=> Between(j)
    BY <1>7, <1>10, <2>1 DEF Between
  <2>4. ToolsInv(j)'
    BY <1>7, <1>10, <2>1, <2>3 DEF KeyInv, ToolsInv, Between
  <2>5. AloneInv(j)'
    BY <1>7, <1>10, <2>1 DEF AloneInv
  <2>6. RunInv(j)' /\ RestInv(j)'
    BY <1>7, <1>10, <2>1 DEF KeyInv, RunInv, RestInv
  <2>7. StoredInv(j)'
    BY <1>1, <1>6, <2>1, <2>2, <2>3 DEF KeyInv, StoredInv, Sound, WellFormed, Session
  <2> QED
    BY <2>4, <2>5, <2>6, <2>7 DEF KeyInv
<1> QED
  BY <1>8, <1>9, <1>10 DEF IInv

-----------------------------------------------------------------------------
\* The process.

LEMMA InitInv == Init => IInv
<1> SUFFICES ASSUME Init PROVE IInv
  OBVIOUS
<1>1. Reset \in [errors: Nat, seen: [Calls -> Nat]]
  BY DEF Reset
<1>2. TypeOK
  BY <1>1, ConstantFacts DEF Init, TypeOK
<1>3. \A k \in Keys : KeyInv(k)
  BY DEF Init, KeyInv, ToolsInv, AloneInv, RunInv, StoredInv, RestInv, Between
<1> QED
  BY <1>2, <1>3 DEF IInv

LEMMA TickInv == ASSUME IInv, Tick PROVE IInv'
<1>1. TypeOK'
  BY ConstantFacts DEF IInv, TypeOK, Tick
<1>2. ASSUME NEW k \in Keys PROVE KeyInv(k)'
  <2>1. KeyInv(k)
    BY KeyFacts
  <2> QED
    BY <2>1 DEF Tick, KeyInv, ToolsInv, AloneInv, RunInv, StoredInv, RestInv, Between, Sound,
                WellFormed
<1> QED
  BY <1>1, <1>2 DEF IInv

LEMMA StopInv == ASSUME IInv, Stop PROVE IInv'
<1>1. ASSUME NEW k \in Keys
      PROVE  cache'[k] = IF k \in Live \cap Running THEN Interrupted(k) ELSE cache[k]
  BY DEF Stop, Cancelled
<1>2. ASSUME NEW k \in Keys
      PROVE  /\ run'[k] = IF k \in Live THEN NULL ELSE run[k]
             /\ last'[k] = IF k \in Live \cap Running THEN "cancelled" ELSE last[k]
  BY DEF Stop, Cancelled
<1>3. phase = "up" /\ phase' = "stopping" /\ UNCHANGED <<now, row, breaker, triggers>>
  BY DEF Stop
<1>4. TypeOK'
  <2>1. ASSUME NEW k \in Keys PROVE cache'[k] \in {NULL} \cup Session
    BY <1>1, <2>1, InterruptedFacts, KeyFacts DEF Running
  <2>2. cache' \in [Keys -> {NULL} \cup Session]
    BY <2>1 DEF Stop, Cancelled
  <2>3. /\ run' \in [Keys -> {NULL} \cup Run]
        /\ last' \in [Keys -> {"none", "running", "done", "raised", "cancelled", "crashed"}]
    BY DEF Stop, Cancelled, IInv, TypeOK
  <2>4. stops' \in 0..MaxStops
    BY ConstantFacts DEF Stop, IInv, TypeOK
  <2> QED
    BY <1>3, <2>2, <2>3, <2>4 DEF IInv, TypeOK
<1>5. ASSUME NEW k \in Keys PROVE KeyInv(k)'
  <2>1. KeyInv(k)
    BY KeyFacts
  <2>2. CASE k \in Live \cap Running
    <3>1. run[k] # NULL
      BY <2>2 DEF Running
    <3>2. PICK session : /\ session = Interrupted(k) /\ session \in Session /\ session # NULL
                         /\ session.intro <= triggers /\ (session.hurt \/ WellFormed(session))
      BY <3>1, InterruptedFacts
    <3>3. cache'[k] = session /\ run'[k] = NULL /\ last'[k] = "cancelled" /\ row'[k] = row[k]
      BY <1>1, <1>2, <1>3, <2>2, <3>2
    <3> QED
      BY <1>3, <2>1, <3>2, <3>3
         DEF KeyInv, ToolsInv, AloneInv, RunInv, StoredInv, RestInv, Between, Sound, WellFormed
  <2>3. CASE k \notin Live \cap Running
    <3>1. cache'[k] = cache[k] /\ run'[k] = run[k] /\ last'[k] = last[k] /\ row'[k] = row[k]
      BY <1>1, <1>2, <1>3, <2>3 DEF Running
    <3>2. \A j \in Keys : run[j] = NULL => run'[j] = NULL
      BY <1>2
    <3> QED
      BY <1>3, <2>1, <3>1, <3>2
         DEF KeyInv, ToolsInv, AloneInv, RunInv, StoredInv, RestInv, Between, Sound, WellFormed
  <2> QED
    BY <2>2, <2>3
<1> QED
  BY <1>4, <1>5 DEF IInv

\* The process goes down: what matters is that the rows are sound.
LEMMA DownInv ==
  ASSUME IInv, phase' = "down", NEW rows \in [Keys -> {NULL} \cup Session], row' = rows,
         \A k \in Keys : rows[k] # NULL => rows[k].intro <= triggers
                                           /\ (rows[k].hurt \/ WellFormed(rows[k])),
         cache' = [k \in Keys |-> NULL], run' = [k \in Keys |-> NULL], breaker' = Reset,
         \/ last' = [k \in Keys |-> IF k \in Running THEN "cancelled" ELSE last[k]]
         \/ last' = [k \in Keys |-> IF k \in Running THEN "crashed" ELSE last[k]],
         UNCHANGED <<now, triggers>>, stops' \in 0..MaxStops
  PROVE  IInv'
<1>1. Reset \in [errors: Nat, seen: [Calls -> Nat]]
  BY DEF Reset
<1>2. TypeOK'
  BY <1>1 DEF IInv, TypeOK
<1>3. ASSUME NEW k \in Keys PROVE KeyInv(k)'
  BY DEF KeyInv, ToolsInv, AloneInv, RunInv, StoredInv, RestInv, Between, Sound, WellFormed
<1> QED
  BY <1>2, <1>3 DEF IInv

LEMMA ShutdownInv == ASSUME IInv, Shutdown PROVE IInv'
<1>1. PICK rows : rows = [k \in Keys |-> IF cache[k] = NULL THEN row[k]
                                         ELSE IF k \in Running THEN Interrupted(k) ELSE cache[k]]
  OBVIOUS
<1>2. ASSUME NEW k \in Keys
      PROVE  /\ rows[k] \in {NULL} \cup Session
             /\ rows[k] # NULL => rows[k].intro <= triggers
                                  /\ (rows[k].hurt \/ WellFormed(rows[k]))
  <2>1. KeyInv(k) /\ (row[k] # NULL => row[k] \in Session) /\ (cache[k] # NULL => cache[k] \in Session)
    BY KeyFacts
  <2>2. CASE cache[k] = NULL
    BY <1>1, <2>1, <2>2 DEF KeyInv, StoredInv, Sound
  <2>3. CASE cache[k] # NULL /\ run[k] # NULL
    <3>1. rows[k] = Interrupted(k)
      BY <1>1, <2>3 DEF Running
    <3> QED
      BY <2>3, <3>1, InterruptedFacts
  <2>4. CASE cache[k] # NULL /\ run[k] = NULL
    <3>1. rows[k] = cache[k]
      BY <1>1, <2>4 DEF Running
    <3> QED
      BY <2>1, <2>4, <3>1 DEF KeyInv, StoredInv, Between, Sound
  <2> QED
    BY <2>2, <2>3, <2>4
<1>3. rows \in [Keys -> {NULL} \cup Session]
  BY <1>1, <1>2
<1>4. row' = rows /\ phase' = "down" /\ UNCHANGED <<now, triggers, stops>>
  BY <1>1 DEF Shutdown
<1>5. stops' \in 0..MaxStops
  BY <1>4 DEF IInv, TypeOK
<1> QED
  BY <1>2, <1>3, <1>4, <1>5, DownInv DEF Shutdown

LEMMA CrashInv == ASSUME IInv, Crash PROVE IInv'
<1>1. PICK rows : rows = row
  OBVIOUS
<1>2. rows \in [Keys -> {NULL} \cup Session] /\ row' = rows
  BY <1>1 DEF Crash, IInv, TypeOK
<1>3. \A k \in Keys : rows[k] # NULL => rows[k].intro <= triggers
                                        /\ (rows[k].hurt \/ WellFormed(rows[k]))
  BY <1>1, KeyFacts DEF KeyInv, StoredInv, Sound
<1>4. stops' \in 0..MaxStops /\ phase' = "down" /\ UNCHANGED <<now, triggers>>
  BY ConstantFacts DEF Crash, IInv, TypeOK
<1> QED
  BY <1>2, <1>3, <1>4, DownInv DEF Crash

LEMMA BootInv == ASSUME IInv, Boot PROVE IInv'
<1>1. /\ phase = "down" /\ phase' = "up"
      /\ UNCHANGED <<now, row, run, breaker, last, triggers, stops>>
      /\ \A k \in Keys : cache'[k] \in {NULL, row[k]}
      /\ cache' \in [Keys -> {NULL} \cup Session]
  BY DEF Boot, IInv, TypeOK
<1>2. TypeOK'
  BY <1>1 DEF IInv, TypeOK
<1>3. ASSUME NEW k \in Keys PROVE KeyInv(k)'
  <2>1. KeyInv(k) /\ run[k] = NULL
    BY <1>1, KeyFacts
  <2> QED
    BY <1>1, <2>1
       DEF KeyInv, ToolsInv, AloneInv, RunInv, StoredInv, RestInv, Between, Sound, WellFormed
<1> QED
  BY <1>2, <1>3 DEF IInv

LEMMA NextInv == IInv /\ [Next]_vars => IInv'
<1> SUFFICES ASSUME IInv, [Next]_vars PROVE IInv'
  OBVIOUS
<1>1. CASE \E k \in Keys : LoopStep(k)
  BY <1>1, LoopStepInv
<1>2. CASE \E k \in Keys, found \in BOOLEAN : Trigger(k, found)
  BY <1>2, TriggerInv
<1>3. CASE Tick \/ Stop \/ Shutdown \/ Crash \/ Boot
  BY <1>3, TickInv, StopInv, ShutdownInv, CrashInv, BootInv
<1>4. CASE UNCHANGED vars
  <2>1. TypeOK'
    BY <1>4 DEF IInv, TypeOK, vars
  <2>2. ASSUME NEW k \in Keys PROVE KeyInv(k)'
    <3>1. KeyInv(k)
      BY KeyFacts
    <3> QED
      BY <1>4, <3>1 DEF vars, KeyInv, ToolsInv, AloneInv, RunInv, StoredInv, RestInv, Between,
                        Sound, WellFormed
  <2> QED
    BY <2>1, <2>2 DEF IInv
<1> QED
  BY <1>1, <1>2, <1>3, <1>4 DEF Next

LEMMA SpecInv == Spec => []IInv
  BY InitInv, NextInv, PTL DEF Spec

-----------------------------------------------------------------------------
\* The types, for every value of the constants.
THEOREM SessionsTypeCorrect == Spec => []TypeOK
<1>1. IInv => TypeOK
  BY DEF IInv
<1> QED
  BY <1>1, SpecInv, PTL

\* A request has a result for every tool call it mentions, unless a run was left
\* between its calls and their results: with any number of calls, results and
\* errors, through saving, loading, expiry and shutdown.
THEOREM RequestsStayWhole == Spec => []RequestsAreWhole
<1>1. IInv => RequestsAreWhole
  <2> SUFFICES ASSUME IInv, NEW k \in Keys, run[k] # NULL, run[k].at \in {"ask", "final"},
                      ~cache[k].hurt
               PROVE  WellFormed(cache[k])
    BY DEF RequestsAreWhole
  <2> QED
    BY BeforeTheEnd
<1> QED
  BY <1>1, SpecInv, PTL

\* A crash loses nothing of a conversation whose last run has ended.
THEOREM EndedRunsStaySaved == Spec => []EndedRunsAreSaved
<1>1. IInv => EndedRunsAreSaved
  BY KeyFacts DEF EndedRunsAreSaved, KeyInv, RestInv
<1> QED
  BY <1>1, SpecInv, PTL

\* A run that no other ran beside gives up on errors only after MaxErrors of its
\* own, whatever the breaker counted before it.
THEOREM LoneRunsTripOnTheirErrors == Spec => []TripsOnItsOwnErrors
<1>1. IInv => TripsOnItsOwnErrors
  BY KeyFacts DEF TripsOnItsOwnErrors, KeyInv, AloneInv
<1> QED
  BY <1>1, SpecInv, PTL

===============================================================================
