------------------------- MODULE ActionQueue_proofs -------------------------
(***************************************************************************)
(* Proofs about ActionQueue, for any number of callers, groups and kinds   *)
(* of request and any interval, cooldown, delay and window.                *)
(***************************************************************************)
EXTENDS ActionQueue, TLAPS

Types ==
  /\ pc \in [Callers -> {"idle", "queued", "calling"} \cup Sleeping]
  /\ request \in [Callers -> Requests \cup {NULL}]
  /\ timer \in Nat
  /\ lastAction \in 0..Old
  /\ groupLast \in [Groups -> 0..Old]

\* The stamps are set where the calls are made.
StampsAreCalls == called = lastAction /\ groupCalled = groupLast

\* Who sleeps holds the semaphore, so only one does.
HolderInv == \A c \in Callers : pc[c] \in Sleeping => holder = c

\* Whatever the caller has slept for is over, or the timer lasts until it is.
GroupRested(c) == Group(c) # NULL => groupLast[Group(c)] >= Cooldown
WaitInv ==
  \A c \in Callers :
    /\ pc[c] # "idle" => request[c] \in Requests
    /\ pc[c] = "global" => timer >= Interval - lastAction
    /\ pc[c] \in {"group", "delay"} => lastAction >= Interval
    /\ pc[c] = "group" /\ Group(c) # NULL => timer >= Cooldown - groupLast[Group(c)]
    /\ pc[c] = "delay" => GroupRested(c)

IInv == Types /\ StampsAreCalls /\ HolderInv /\ WaitInv

-----------------------------------------------------------------------------
\* Arithmetic.

LEMMA MaxOfTwo ==
  ASSUME NEW a \in Int, NEW b \in Int
  PROVE  Max({a, b}) = IF a >= b THEN a ELSE b
<1> DEFINE m == IF a >= b THEN a ELSE b
<1>1. m \in {a, b} /\ \A y \in {a, b} : m >= y
  OBVIOUS
<1>2. \A x \in {a, b} : (\A y \in {a, b} : x >= y) => x = m
  OBVIOUS
<1> QED
  BY <1>1, <1>2 DEF Max

LEMMA MinOfTwo ==
  ASSUME NEW a \in Int, NEW b \in Int
  PROVE  Min({a, b}) = IF a <= b THEN a ELSE b
<1> DEFINE m == IF a <= b THEN a ELSE b
<1>1. m \in {a, b} /\ \A y \in {a, b} : m <= y
  OBVIOUS
<1>2. \A x \in {a, b} : (\A y \in {a, b} : x <= y) => x = m
  OBVIOUS
<1> QED
  BY <1>1, <1>2 DEF Min

LEMMA OldFacts == Old \in Nat /\ Old >= Interval /\ Old >= Cooldown
  BY MaxOfTwo, TimesAssumption DEF Old

\* Ages grow by one, up to Old.
LEMMA OlderFacts ==
  ASSUME NEW age \in 0..Old
  PROVE  /\ Older(age, Old) \in 0..Old /\ Older(age, Old) >= age
         /\ Older(age, Old) = age + 1 \/ Older(age, Old) = Old
<1>1. Older(age, Old) = IF age + 1 <= Old THEN age + 1 ELSE Old
  BY MinOfTwo, OldFacts DEF Older
<1> QED
  BY <1>1, OldFacts

\* The group of whoever asks for something is a group.
LEMMA GroupFacts ==
  ASSUME NEW c \in Callers, request[c] \in Requests, Group(c) # NULL
  PROVE  Group(c) \in Groups
  BY RequestsAssumption DEF Group

-----------------------------------------------------------------------------
\* The limits are met: the call is made.

Ready(c) == lastAction >= Interval /\ GroupRested(c)

LEMMA AdmitInv ==
  ASSUME IInv, NEW c \in Callers, pc[c] # "idle", holder = c \/ holder = NULL,
         Admit(c), UNCHANGED request
  PROVE  IInv'
<1>1. \A d \in Callers : d # c => pc[d] \notin Sleeping
  BY NullAssumption DEF IInv, HolderInv
<1>2. pc' = [pc EXCEPT ![c] = "calling"]
  BY DEF Admit, Terminal, Go
<1>3. 0 \in 0..Old
  BY OldFacts
<1>4. groupLast' \in [Groups -> 0..Old] /\ groupCalled' = groupLast'
  BY <1>3 DEF IInv, Types, StampsAreCalls, Admit
<1>5. Types'
  BY <1>2, <1>3, <1>4 DEF IInv, Types, Admit
<1>6. StampsAreCalls'
  BY <1>4 DEF StampsAreCalls, Admit
<1>7. HolderInv'
  BY <1>1, <1>2 DEF IInv, Types, HolderInv, Sleeping
<1>8. WaitInv'
  BY <1>1, <1>2 DEF IInv, Types, WaitInv, Sleeping, GroupRested, Group
<1> QED
  BY <1>5, <1>6, <1>7, <1>8 DEF IInv

\* A caller goes to sleep for what it must still wait for.
LEMMA SleepInv ==
  ASSUME IInv, NEW c \in Callers, pc[c] # "idle", holder = c \/ holder = NULL,
         NEW step \in Sleeping, NEW ticks \in Nat, Sleep(c, step, ticks), UNCHANGED request,
         step = "global" => ticks >= Interval - lastAction,
         step \in {"group", "delay"} => lastAction >= Interval,
         step = "group" /\ Group(c) # NULL => ticks >= Cooldown - groupLast[Group(c)],
         step = "delay" => GroupRested(c)
  PROVE  IInv'
<1>1. \A d \in Callers : d # c => pc[d] \notin Sleeping
  BY NullAssumption DEF IInv, HolderInv
<1>2. /\ pc' = [pc EXCEPT ![c] = step] /\ holder' = c /\ timer' = ticks
      /\ UNCHANGED <<lastAction, groupLast, called, groupCalled>>
  BY DEF Sleep, Go, limits, calls
<1>3. Types'
  BY <1>2 DEF IInv, Types
<1>4. StampsAreCalls'
  BY <1>2 DEF IInv, StampsAreCalls
<1>5. HolderInv'
  BY <1>1, <1>2 DEF IInv, Types, HolderInv
<1>6. WaitInv'
  <2> SUFFICES ASSUME NEW d \in Callers
               PROVE  /\ pc'[d] # "idle" => request[d] \in Requests
                      /\ pc'[d] = "global" => ticks >= Interval - lastAction
                      /\ pc'[d] \in {"group", "delay"} => lastAction >= Interval
                      /\ pc'[d] = "group" /\ Group(d) # NULL
                           => ticks >= Cooldown - groupLast[Group(d)]
                      /\ pc'[d] = "delay" => GroupRested(d)
    BY <1>2 DEF WaitInv, GroupRested, Group
  <2>1. CASE d = c
    BY <1>2, <2>1 DEF IInv, Types, WaitInv
  <2>2. CASE d # c
    BY <1>1, <1>2, <2>2 DEF IInv, Types, WaitInv, Sleeping
  <2> QED
    BY <2>1, <2>2
<1> QED
  BY <1>3, <1>4, <1>5, <1>6 DEF IInv

LEMMA AfterGroupInv ==
  ASSUME IInv, NEW c \in Callers, pc[c] # "idle", holder = c \/ holder = NULL, Ready(c),
         AfterGroup(c), UNCHANGED request
  PROVE  IInv'
<1>1. CASE Delay > 0
  <2>1. Sleep(c, "delay", Delay)
    BY <1>1 DEF AfterGroup
  <2> QED
    BY <2>1, SleepInv, TimesAssumption DEF Ready, Sleeping
<1>2. CASE ~ Delay > 0
  BY <1>2, AdmitInv DEF AfterGroup
<1> QED
  BY <1>1, <1>2

\* What GroupWait says is left is left, and nothing when it says so.
LEMMA GroupWaitFacts ==
  ASSUME IInv, NEW c \in Callers, request[c] \in Requests
  PROVE  /\ GroupWait(c) \in Nat
         /\ Group(c) # NULL => GroupWait(c) >= Cooldown - groupLast[Group(c)]
         /\ ~ GroupWait(c) > 0 => GroupRested(c)
<1>1. CASE Group(c) = NULL
  BY <1>1 DEF GroupWait, GroupRested
<1>2. CASE Group(c) # NULL
  <2>1. groupLast[Group(c)] \in 0..Old
    BY <1>2, GroupFacts DEF IInv, Types
  <2>2. GroupWait(c) = IF 0 >= Cooldown - groupLast[Group(c)] THEN 0
                       ELSE Cooldown - groupLast[Group(c)]
    BY <1>2, <2>1, MaxOfTwo, OldFacts, TimesAssumption DEF GroupWait
  <2> QED
    BY <2>1, <2>2, OldFacts, TimesAssumption DEF GroupRested
<1> QED
  BY <1>1, <1>2

LEMMA AfterGlobalInv ==
  ASSUME IInv, NEW c \in Callers, pc[c] # "idle", holder = c \/ holder = NULL,
         lastAction >= Interval, AfterGlobal(c), UNCHANGED request
  PROVE  IInv'
<1>1. request[c] \in Requests
  BY DEF IInv, WaitInv
<1>2. CASE GroupWait(c) > 0
  <2>1. Sleep(c, "group", GroupWait(c))
    BY <1>2 DEF AfterGlobal
  <2> QED
    BY <1>1, <2>1, GroupWaitFacts, SleepInv DEF Sleeping
<1>3. CASE ~ GroupWait(c) > 0
  BY <1>1, <1>3, GroupWaitFacts, AfterGroupInv DEF AfterGlobal, Ready
<1> QED
  BY <1>2, <1>3

LEMMA GlobalWaitFacts ==
  ASSUME IInv
  PROVE  /\ GlobalWait \in Nat /\ GlobalWait >= Interval - lastAction
         /\ ~ GlobalWait > 0 => lastAction >= Interval
<1>1. GlobalWait = IF 0 >= Interval - lastAction THEN 0 ELSE Interval - lastAction
  BY MaxOfTwo, OldFacts, TimesAssumption DEF GlobalWait, IInv, Types
<1> QED
  BY <1>1, OldFacts, TimesAssumption DEF IInv, Types

-----------------------------------------------------------------------------
\* The actions.

LEMMA AcquireInv == ASSUME IInv, NEW c \in Callers, Acquire(c) PROVE IInv'
<1>1. pc[c] = "queued" /\ holder = NULL /\ UNCHANGED request
  BY DEF Acquire
<1>2. CASE GlobalWait > 0
  <2>1. Sleep(c, "global", GlobalWait)
    BY <1>2 DEF Acquire
  <2> QED
    BY <1>1, <2>1, GlobalWaitFacts, SleepInv DEF Sleeping
<1>3. CASE ~ GlobalWait > 0
  BY <1>1, <1>3, GlobalWaitFacts, AfterGlobalInv DEF Acquire
<1> QED
  BY <1>2, <1>3

\* A sleeper wakes when its timer has run out, or later.
LEMMA WakeFacts ==
  ASSUME IInv, NEW c \in Callers, Wake(c)
  PROVE  /\ pc[c] \in Sleeping /\ holder = c /\ UNCHANGED request /\ lastAction >= Interval
         /\ pc[c] \in {"group", "delay"} => Ready(c)
<1>1. pc[c] \in Sleeping /\ holder = c /\ timer = 0 /\ UNCHANGED request
  BY DEF Wake, Sleeping
<1>2. request[c] \in Requests
  BY <1>1 DEF IInv, WaitInv, Sleeping
<1>3. lastAction >= Interval
  BY <1>1, OldFacts, TimesAssumption DEF IInv, Types, WaitInv, Sleeping
<1>4. ASSUME pc[c] = "group" PROVE GroupRested(c)
  <2> SUFFICES ASSUME Group(c) # NULL PROVE groupLast[Group(c)] >= Cooldown
    BY DEF GroupRested
  <2>1. groupLast[Group(c)] \in 0..Old
    BY <1>2, GroupFacts DEF IInv, Types
  <2>2. 0 >= Cooldown - groupLast[Group(c)]
    BY <1>1, <1>4 DEF IInv, WaitInv
  <2> QED
    BY <2>1, <2>2, OldFacts, TimesAssumption
<1>5. pc[c] = "delay" => GroupRested(c)
  BY DEF IInv, WaitInv
<1> QED
  BY <1>1, <1>3, <1>4, <1>5 DEF Ready

LEMMA WakeInv == ASSUME IInv, NEW c \in Callers, Wake(c) PROVE IInv'
<1>1. CASE pc[c] = "global" /\ AfterGlobal(c)
  BY <1>1, WakeFacts, AfterGlobalInv DEF Sleeping
<1>2. CASE pc[c] = "group" /\ AfterGroup(c)
  BY <1>2, WakeFacts, AfterGroupInv DEF Sleeping
<1>3. CASE pc[c] = "delay" /\ Admit(c)
  BY <1>3, WakeFacts, AdmitInv DEF Sleeping
<1> QED
  BY <1>1, <1>2, <1>3 DEF Wake

\* Who is not asleep before and after leaves the invariant alone.
LEMMA AwakeInv ==
  ASSUME IInv, NEW c \in Callers, pc[c] \notin Sleeping,
         NEW step \in {"idle", "queued", "calling"}, NEW r \in Requests \cup {NULL},
         step # "idle" => r \in Requests,
         pc' = [pc EXCEPT ![c] = step], request' = [request EXCEPT ![c] = r],
         UNCHANGED <<holder, timer, limits, calls>>
  PROVE  IInv'
<1>1. UNCHANGED <<lastAction, groupLast, called, groupCalled>>
  BY DEF limits, calls
<1>2. Types' /\ StampsAreCalls'
  BY <1>1 DEF IInv, Types, StampsAreCalls
<1>3. HolderInv'
  BY DEF IInv, Types, HolderInv, Sleeping
<1>4. WaitInv'
  BY <1>1 DEF IInv, Types, WaitInv, Sleeping, GroupRested, Group
<1> QED
  BY <1>2, <1>3, <1>4 DEF IInv

LEMMA CancelInv == ASSUME IInv, NEW c \in Callers, Cancel(c) PROVE IInv'
<1>1. CASE holder = c
  <2>1. \A d \in Callers : d # c => pc[d] \notin Sleeping
    BY <1>1 DEF IInv, HolderInv
  <2>2. pc' = [pc EXCEPT ![c] = "idle"] /\ request' = [request EXCEPT ![c] = NULL]
        /\ timer' = 0 /\ UNCHANGED <<lastAction, groupLast, called, groupCalled>>
    BY <1>1 DEF Cancel, Go, limits, calls
  <2>3. Types' /\ StampsAreCalls'
    BY <2>2 DEF IInv, Types, StampsAreCalls
  <2>4. HolderInv'
    BY <2>1, <2>2 DEF IInv, Types, HolderInv, Sleeping
  <2>5. WaitInv'
    BY <2>1, <2>2 DEF IInv, Types, WaitInv, Sleeping, GroupRested, Group
  <2> QED
    BY <2>3, <2>4, <2>5 DEF IInv
<1>2. CASE holder # c
  <2>1. pc[c] \notin Sleeping
    BY <1>2 DEF IInv, HolderInv
  <2> QED
    BY <1>2, <2>1, AwakeInv DEF Cancel, Go, Released
<1> QED
  BY <1>1, <1>2

\* A tick brings ages and timer closer together by the same amount.
LEMMA TickInv == ASSUME IInv, Tick PROVE IInv'
<1>1. /\ lastAction' \in 0..Old /\ lastAction' >= lastAction
      /\ lastAction' = lastAction + 1 \/ lastAction' = Old
  BY OlderFacts DEF IInv, Types, Tick
<1>2. timer' \in Nat /\ timer' >= timer - 1
  <2>1. timer' = IF 0 >= timer - 1 THEN 0 ELSE timer - 1
    BY MaxOfTwo DEF Tick, IInv, Types
  <2> QED
    BY <2>1 DEF IInv, Types
<1>3. \A g \in Groups :
        /\ groupLast'[g] \in 0..Old /\ groupLast'[g] >= groupLast[g]
        /\ groupLast'[g] = groupLast[g] + 1 \/ groupLast'[g] = Old
  BY OlderFacts DEF IInv, Types, Tick
<1>4. Types'
  BY <1>1, <1>2, <1>3 DEF IInv, Types, Tick
<1>5. StampsAreCalls'
  BY DEF IInv, StampsAreCalls, Tick
<1>6. HolderInv'
  BY DEF IInv, HolderInv, Tick
<1>7. ASSUME NEW c \in Callers
      PROVE  /\ pc[c] # "idle" => request[c] \in Requests
             /\ pc[c] = "global" => timer' >= Interval - lastAction'
             /\ pc[c] \in {"group", "delay"} => lastAction' >= Interval
             /\ pc[c] = "group" /\ Group(c) # NULL => timer' >= Cooldown - groupLast'[Group(c)]
             /\ pc[c] = "delay" /\ Group(c) # NULL => groupLast'[Group(c)] >= Cooldown
  <2>1. pc[c] # "idle" => request[c] \in Requests
    BY DEF IInv, WaitInv
  <2>2. pc[c] = "global" => timer' >= Interval - lastAction'
    BY <1>1, <1>2, OldFacts, TimesAssumption DEF IInv, Types, WaitInv
  <2>3. pc[c] \in {"group", "delay"} => lastAction' >= Interval
    BY <1>1, OldFacts, TimesAssumption DEF IInv, Types, WaitInv
  <2>4. ASSUME pc[c] \in {"group", "delay"}, Group(c) # NULL
        PROVE  /\ pc[c] = "group" => timer' >= Cooldown - groupLast'[Group(c)]
               /\ pc[c] = "delay" => groupLast'[Group(c)] >= Cooldown
    <3>1. Group(c) \in Groups
      BY <2>1, <2>4, GroupFacts
    <3>2. groupLast[Group(c)] \in 0..Old
      BY <3>1 DEF IInv, Types
    <3>3. /\ pc[c] = "group" => timer >= Cooldown - groupLast[Group(c)]
          /\ pc[c] = "delay" => groupLast[Group(c)] >= Cooldown
      BY <2>4 DEF IInv, WaitInv, GroupRested
    <3>4. timer \in Nat
      BY DEF IInv, Types
    <3> QED
      BY <1>2, <1>3, <3>1, <3>2, <3>3, <3>4, OldFacts, TimesAssumption
  <2> QED
    BY <2>1, <2>2, <2>3, <2>4
<1>8. WaitInv'
  BY <1>7 DEF WaitInv, GroupRested, Group, Tick
<1> QED
  BY <1>4, <1>5, <1>6, <1>8 DEF IInv

-----------------------------------------------------------------------------
\* The theorem.

LEMMA InitInv == Init => IInv
  BY OldFacts DEF Init, IInv, Types, StampsAreCalls, HolderInv, WaitInv, Sleeping

LEMMA NextInv == IInv /\ [Next]_vars => IInv'
<1> SUFFICES ASSUME IInv, [Next]_vars PROVE IInv'
  OBVIOUS
<1>1. CASE Tick
  BY <1>1, TickInv
<1>2. ASSUME NEW c \in Callers, Acquire(c) \/ Wake(c) \/ Cancel(c) PROVE IInv'
  BY <1>2, AcquireInv, WakeInv, CancelInv
<1>3. ASSUME NEW c \in Callers, Return(c) PROVE IInv'
  BY <1>3, AwakeInv DEF Return, Go, Sleeping
<1>4. ASSUME NEW c \in Callers, NEW r \in Requests, Bypass(c, r) \/ Accept(c, r) PROVE IInv'
  BY <1>4, AwakeInv DEF Bypass, Accept, Terminal, Go, Sleeping
<1>5. CASE UNCHANGED vars
  BY <1>5 DEF vars, limits, calls, IInv, Types, StampsAreCalls, HolderInv, WaitInv, GroupRested,
                 Group
<1> QED
  BY <1>1, <1>2, <1>3, <1>4, <1>5 DEF Next

\* Nobody is admitted before both limits are met.
LEMMA AdmitFacts ==
  ASSUME IInv, NEW c \in Callers, pc[c] # "idle", pc[c] # "calling", pc'[c] = "calling",
         [Next]_vars
  PROVE  Ready(c)
<1>0. pc[c] \in {"queued"} \cup Sleeping
  BY DEF IInv, Types
<1>1. ASSUME NEW d \in Callers, AfterGroup(d), pc[d] # "idle", Ready(d) PROVE Ready(c)
  <2>1. d = c
    BY <1>1 DEF AfterGroup, Sleep, Admit, Terminal, Go, IInv, Types
  <2> QED
    BY <1>1, <2>1
<1>2. ASSUME NEW d \in Callers, AfterGlobal(d), pc[d] # "idle", lastAction >= Interval
      PROVE  Ready(c)
  <2>1. request[d] \in Requests
    BY <1>2 DEF IInv, WaitInv
  <2>2. CASE GroupWait(d) > 0
    BY <1>2, <2>2, <1>0 DEF AfterGlobal, Sleep, Go, IInv, Types
  <2>3. CASE ~ GroupWait(d) > 0
    BY <1>1, <1>2, <2>1, <2>3, GroupWaitFacts DEF AfterGlobal, Ready
  <2> QED
    BY <2>2, <2>3
<1>3. CASE Tick \/ UNCHANGED vars
  BY <1>3 DEF Tick, vars
<1>4. ASSUME NEW d \in Callers, Acquire(d) PROVE Ready(c)
  <2>1. CASE GlobalWait > 0
    BY <1>4, <2>1, <1>0 DEF Acquire, Sleep, Go, IInv, Types
  <2>2. CASE ~ GlobalWait > 0
    BY <1>2, <1>4, <2>2, GlobalWaitFacts DEF Acquire
  <2> QED
    BY <2>1, <2>2
<1>5. ASSUME NEW d \in Callers, Wake(d) PROVE Ready(c)
  <2>1. CASE pc[d] = "global" /\ AfterGlobal(d)
    BY <1>2, <1>5, <2>1, WakeFacts
  <2>2. CASE pc[d] = "group" /\ AfterGroup(d)
    BY <1>1, <1>5, <2>2, WakeFacts
  <2>3. CASE pc[d] = "delay" /\ Admit(d)
    <3>1. d = c
      BY <2>3 DEF Admit, Terminal, Go, IInv, Types
    <3> QED
      BY <1>5, <2>3, <3>1, WakeFacts
  <2> QED
    BY <1>5, <2>1, <2>2, <2>3 DEF Wake
<1>6. ASSUME NEW d \in Callers, Return(d) \/ Cancel(d) PROVE Ready(c)
  BY <1>6 DEF Return, Cancel, Go, IInv, Types
<1>7. ASSUME NEW d \in Callers, NEW r \in Requests, Bypass(d, r) \/ Accept(d, r) PROVE Ready(c)
  BY <1>7 DEF Bypass, Accept, Terminal, Go, IInv, Types
<1> QED
  BY <1>3, <1>4, <1>5, <1>6, <1>7 DEF Next

\* ActionQueue._acquire_rate_limit: however many callers there are, in whatever
\* order they come, sleep late and are cancelled, calls made under the limits
\* keep the interval, and those to one group the cooldown.
THEOREM CallsKeepTheirDistance == Spec => CallsAreSpaced
<1>1. ASSUME IInv, [Next]_vars
      PROVE  [\A c \in Callers : Limited(c) =>
                /\ called >= Interval
                /\ Group(c) # NULL => groupCalled[Group(c)] >= Cooldown]_vars
  BY <1>1, AdmitFacts DEF Limited, Ready, GroupRested, IInv, StampsAreCalls
<1> QED
  BY <1>1, InitInv, NextInv, PTL DEF Spec, CallsAreSpaced
=============================================================================
