------------------------- MODULE PluginRuntime_proofs -------------------------
(***************************************************************************)
(* Safety of PluginRuntime for any plugins, versions, handlers that clash, *)
(* generations and events, with any hook failing anywhere.                 *)
(***************************************************************************)
EXTENDS PluginRuntime, FiniteSetTheorems, SequenceTheorems, WellFoundedInduction, TLAPS

\* The candidates: each after those of them it depends on, and with nothing yet.
TodoInv ==
  /\ todo \in Seq(Plugins) /\ Distinct(todo)
  /\ phase = "boot" =>
       /\ generation = 1
       /\ \A p \in Loaded(todo) : pc[p] = "idle" /\ plugins[p] = 0 /\ object[p][1] = Absent
       /\ \A i, j \in DOMAIN todo : todo[j] \in needs[todo[i]] => j <= i

\* The generations an operation or the runtime refers to.
Referred(p) == {plugins[p], op[p].new, op[p].old}

\* Where an operation has an object of its own, and where it has an old one.
NewPlaces == {"prepare", "setup", "start", "compensate", "undrain", "stopfailed", "faildrain"}
OldPlaces == {"stopold", "drain"}
OpInv(p) ==
  /\ pc[p] = "idle" => op[p].new = 0 /\ op[p].old = 0
  /\ pc[p] \in NewPlaces => op[p].new # 0
  /\ pc[p] \in OldPlaces => op[p].old # 0 /\ op[p].new \in {0, plugins[p]}
  /\ pc[p] # "idle" => plugins[p] \in {0, op[p].new, op[p].old}
  /\ phase = "boot" => op[p].old = 0
  /\ Referred(p) \subseteq 0..generation

\* What the operation has done to its object so far.
PlaceInv(p) ==
  /\ pc[p] \in {"prepare", "setup", "start", "compensate"} => The(New(p)).scope = "open"
  /\ pc[p] = "prepare" => The(New(p)).version \in Packages(p)
  /\ pc[p] \in {"undrain", "faildrain"} => The(New(p)).scope = "closing"
  /\ pc[p] = "stopfailed" => The(New(p)).scope \in {"open", "closed"}
  /\ pc[p] = "faildrain" => The(New(p)).state = "stopped"
  /\ pc[p] = "drain" => The(Old(p)).scope = "closing" /\ The(Old(p)).state = "stopped"

\* Every object of the plugin: generations to come are absent, a scope is closing
\* only while somebody waits for it, tasks run only in an open one, and what
\* nobody refers to is stopped.
ObjectInv(p) == \A g \in Gens :
  /\ g > generation => object[p][g] = Absent
  /\ object[p][g].scope = "closing" =>
       \/ pc[p] \in {"undrain", "faildrain"} /\ g = op[p].new
       \/ pc[p] = "drain" /\ g = op[p].old
  /\ object[p][g].tasks = "running" => object[p][g].scope = "open"
  /\ g \notin Referred(p) /\ object[p][g] # Absent =>
       object[p][g].state = "stopped" /\ object[p][g].scope \in {"none", "closed"}

\* A name has one subscription, of an open scope whose version handles it.
OneEach(s) == \A t, u \in s : t[1] = u[1] => t = u
BusInv ==
  /\ \A s \in subs : The(s[2]).scope = "open" /\ s[1] \in Handlers[s[2][1]][The(s[2]).version]
  /\ OneEach(subs) /\ OneEach(flight)

PluginInv(p) == OpInv(p) /\ PlaceInv(p) /\ ObjectInv(p)

IInv == TypeOK /\ TodoInv /\ BusInv /\ \A p \in Plugins : PluginInv(p)
-----------------------------------------------------------------------------
\* The load order.

\* A set of naturals that is not empty has a least element ...
LEMMA LeastNatural ==
  ASSUME NEW T, T \subseteq Nat, T # {}
  PROVE  \E x \in T : \A y \in T : x <= y
<1>1. IsWellFoundedOn(OpToRel(<, Nat), Nat)
  BY NatLessThanWellFounded
<1>2. PICK x \in T : \A y \in T : ~ (<<y, x>> \in OpToRel(<, Nat))
  BY <1>1, WFMin
<1>3. ASSUME NEW y \in T PROVE x <= y
  <2>1. x \in Nat /\ y \in Nat
    OBVIOUS
  <2>2. ~ (y < x)
    BY <1>2, <2>1, Zenon DEF OpToRel
  <2> QED BY <2>1, <2>2
<1> QED BY <1>2, <1>3

\* ... so what holds at 0 and goes from each number to the next holds up to n ...
LEMMA Upward ==
  ASSUME NEW n \in Nat, NEW S, 0 \in S, \A i \in 1..n : i - 1 \in S => i \in S
  PROVE  0..n \subseteq S
<1> SUFFICES ASSUME (0..n) \ S # {} PROVE FALSE
  OBVIOUS
<1>1. PICK x \in (0..n) \ S : \A y \in (0..n) \ S : x <= y
  <2> DEFINE T == (0..n) \ S
  <2>1. T \subseteq Nat /\ T # {}
    OBVIOUS
  <2> HIDE DEF T
  <2>2. \E x \in T : \A y \in T : x <= y
    BY <2>1, LeastNatural
  <2> QED BY <2>2 DEF T
<1>2. x \in 1..n /\ x - 1 \in 0..n /\ x - 1 < x
  BY <1>1
<1> QED BY <1>1, <1>2

\* ... and a recursive function has a value everywhere.
Recurses(f, n, X, base, step) ==
  f \in [0..n -> X] /\ f[0] = base /\ \A i \in 1..n : f[i] = step[i][f[i - 1]]
\* ... and a definition by recursion from 0 up to n has a value.
LEMMA Recursion ==
  ASSUME NEW n \in Nat, NEW X, NEW base \in X, NEW step \in [1..n -> [X -> X]]
  PROVE  \E f : Recurses(f, n, X, base, step)
<1> DEFINE Up(m) == \E f \in [0..m -> X] : f[0] = base /\ \A i \in 1..m : f[i] = step[i][f[i - 1]]
           S == {m \in 0..n : Up(m)}
<1>1. Up(0)
  <2> DEFINE f == [i \in 0..0 |-> base]
  <2>1. f \in [0..0 -> X] /\ f[0] = base /\ \A i \in 1..0 : f[i] = step[i][f[i - 1]]
    OBVIOUS
  <2> QED BY <2>1
<1>2. ASSUME NEW m \in 1..n, Up(m - 1) PROVE Up(m)
  <2>1. PICK f \in [0..(m - 1) -> X] : f[0] = base /\ \A i \in 1..(m - 1) : f[i] = step[i][f[i - 1]]
    BY <1>2
  <2> DEFINE g == [i \in 0..m |-> IF i = m THEN step[m][f[m - 1]] ELSE f[i]]
  <2>2. step[m][f[m - 1]] \in X
    OBVIOUS
  <2>3. g \in [0..m -> X]
    BY <2>2
  <2>4. g[0] = base /\ \A i \in 1..m : g[i] = step[i][g[i - 1]]
    BY <2>1
  <2> QED BY <2>3, <2>4
<1> HIDE DEF Up
<1>3. 0 \in S /\ \A i \in 1..n : i - 1 \in S => i \in S
  BY <1>1, <1>2
<1>4. n \in S
  <2> HIDE DEF S
  <2>1. 0..n \subseteq S
    BY <1>3, Upward
  <2> QED BY <2>1
<1> QED BY <1>4 DEF Up, Recurses

\* Lists of candidates without repetitions.
LEMMA LoadedFacts ==
  ASSUME NEW P, NEW s \in Seq(P)
  PROVE  /\ Loaded(s) \subseteq P
         /\ \A x : x \in Loaded(s) <=> \E i \in 1..Len(s) : x = s[i]
  BY DEF Loaded

\* One more member at the end.
LEMMA AppendIs ==
  ASSUME NEW P, NEW s \in Seq(P), NEW p \in P
  PROVE  /\ Loaded(Append(s, p)) = Loaded(s) \cup {p}
         /\ Distinct(s) /\ p \notin Loaded(s) => Distinct(Append(s, p))
<1>1. PICK t \in Seq(P) : t = Append(s, p)
  BY AppendProperties
<1>2. PICK n \in Nat : n = Len(s)
  OBVIOUS
<1>3. /\ t = Append(s, p) /\ n = Len(s) /\ Len(t) = n + 1 /\ t[n + 1] = p
      /\ \A i \in 1..n : t[i] = s[i]
  BY <1>1, <1>2
<1>4. \A i \in 1..(n + 1) : i = n + 1 \/ i \in 1..n
  OBVIOUS
<1>5. Loaded(t) = Loaded(s) \cup {p}
  BY <1>3, <1>4 DEF Loaded
<1>6. ASSUME Distinct(s), p \notin Loaded(s) PROVE Distinct(t)
  <2>1. DOMAIN s = 1..n /\ DOMAIN t = 1..(n + 1)
    BY <1>3
  <2>2. \A i \in 1..n : s[i] # p
    BY <1>3, <1>6 DEF Loaded
  <2> QED BY <1>3, <1>4, <1>6, <2>1, <2>2 DEF Distinct
<1> QED BY <1>3, <1>5, <1>6

\* One list after another.
LEMMA ConcatIs ==
  ASSUME NEW P, NEW s \in Seq(P), NEW t \in Seq(P)
  PROVE  /\ s \o t \in Seq(P) /\ Loaded(s \o t) = Loaded(s) \cup Loaded(t)
         /\ Distinct(s) /\ Distinct(t) /\ Loaded(s) \cap Loaded(t) = {} => Distinct(s \o t)
<1>1. PICK u \in Seq(P) : u = s \o t
  BY ConcatProperties
<1>2. PICK n \in Nat, m \in Nat : n = Len(s) /\ m = Len(t)
  OBVIOUS
<1>3. /\ u = s \o t /\ n = Len(s) /\ m = Len(t) /\ Len(u) = n + m
      /\ \A i \in 1..n : u[i] = s[i]
      /\ \A i \in (n + 1)..(n + m) : u[i] = t[i - n]
  BY <1>1, <1>2
<1>4. \A i \in 1..(n + m) : i \in 1..n \/ (i \in (n + 1)..(n + m) /\ i - n \in 1..m)
  OBVIOUS
<1>5. \A i \in 1..m : i + n \in 1..(n + m) /\ u[i + n] = t[i]
  BY <1>3
<1>6. Loaded(u) = Loaded(s) \cup Loaded(t)
  <2>1. Loaded(u) \subseteq Loaded(s) \cup Loaded(t)
    BY <1>3, <1>4 DEF Loaded
  <2>2. Loaded(s) \subseteq Loaded(u)
    <3>1. \A i \in 1..n : i \in 1..(n + m)
      OBVIOUS
    <3> QED BY <1>3, <3>1 DEF Loaded
  <2>3. Loaded(t) \subseteq Loaded(u)
    <3>1. \A x \in Loaded(t) : \E i \in 1..m : x = t[i]
      BY <1>3 DEF Loaded
    <3>2. \A i \in 1..m : t[i] \in Loaded(u)
      BY <1>3, <1>5 DEF Loaded
    <3> QED BY <3>1, <3>2
  <2> QED BY <2>1, <2>2, <2>3
<1>7. ASSUME Distinct(s), Distinct(t), Loaded(s) \cap Loaded(t) = {} PROVE Distinct(u)
  <2>1. DOMAIN s = 1..n /\ DOMAIN t = 1..m /\ DOMAIN u = 1..(n + m)
    BY <1>3
  <2>2. \A i \in 1..n, j \in 1..m : s[i] # t[j]
    BY <1>3, <1>7 DEF Loaded
  <2> SUFFICES ASSUME NEW i \in 1..(n + m), NEW j \in 1..(n + m), u[i] = u[j] PROVE i = j
    BY <2>1 DEF Distinct
  <2>3. CASE i \in 1..n /\ j \in 1..n
    BY <1>3, <1>7, <2>1, <2>3 DEF Distinct
  <2>4. CASE i - n \in 1..m /\ j - n \in 1..m
    <3>1. u[i] = t[i - n] /\ u[j] = t[j - n]
      BY <1>3, <2>4
    <3>2. i - n = j - n
      BY <1>7, <2>1, <2>4, <3>1 DEF Distinct
    <3> QED BY <3>2
  <2>5. CASE i \in 1..n /\ j - n \in 1..m
    BY <1>3, <2>2, <2>5
  <2>6. CASE i - n \in 1..m /\ j \in 1..n
    BY <1>3, <2>2, <2>6
  <2> QED BY <1>4, <2>3, <2>4, <2>5, <2>6
<1> QED BY <1>3, <1>6, <1>7

\* The head leaves.
LEMMA TailIs ==
  ASSUME NEW P, NEW s \in Seq(P), s # <<>>
  PROVE  /\ Loaded(s) = {Head(s)} \cup Loaded(Tail(s))
         /\ Distinct(s) => Head(s) \notin Loaded(Tail(s)) /\ Distinct(Tail(s))
<1>1. PICK t \in Seq(P) : t = Tail(s)
  BY HeadTailProperties
<1>2. PICK n \in Nat : n = Len(t)
  OBVIOUS
<1>3. /\ Head(s) = s[1] /\ Len(s) = n + 1 /\ Len(t) = n
      /\ \A i \in 1..n : t[i] = s[i + 1]
  BY <1>1, <1>2, HeadTailProperties
<1>4. /\ 1 \in 1..(n + 1) /\ \A i \in 1..n : i + 1 \in 1..(n + 1) /\ i + 1 # 1
      /\ \A i \in 1..(n + 1) : i = 1 \/ i - 1 \in 1..n
  OBVIOUS
<1>5. Loaded(s) = {s[1]} \cup Loaded(t)
  <2>1. \A i \in 1..(n + 1) : s[i] \in {s[1]} \cup Loaded(t)
    <3> SUFFICES ASSUME NEW i \in 1..(n + 1), i # 1 PROVE s[i] \in Loaded(t)
      OBVIOUS
    <3>1. i - 1 \in 1..n /\ t[i - 1] = s[(i - 1) + 1] /\ (i - 1) + 1 = i
      BY <1>3, <1>4
    <3> QED BY <1>3, <3>1 DEF Loaded
  <2>2. \A i \in 1..n : t[i] \in Loaded(s)
    BY <1>3, <1>4 DEF Loaded
  <2>3. s[1] \in Loaded(s)
    BY <1>3, <1>4 DEF Loaded
  <2> QED BY <1>3, <2>1, <2>2, <2>3 DEF Loaded
<1>6. ASSUME Distinct(s) PROVE s[1] \notin Loaded(t) /\ Distinct(t)
  <2>1. DOMAIN s = 1..(n + 1) /\ DOMAIN t = 1..n
    BY <1>3
  <2>2. \A i \in 1..n : t[i] # s[1]
    BY <1>3, <1>4, <1>6, <2>1 DEF Distinct
  <2>3. \A i, j \in 1..n : t[i] = t[j] => i = j
    <3> SUFFICES ASSUME NEW i \in 1..n, NEW j \in 1..n, t[i] = t[j] PROVE i = j
      OBVIOUS
    <3>1. i + 1 = j + 1
      BY <1>3, <1>4, <1>6, <2>1 DEF Distinct
    <3> QED BY <3>1
  <2> QED BY <1>3, <2>1, <2>2, <2>3 DEF Distinct, Loaded
<1> QED BY <1>1, <1>3, <1>5, <1>6

\* The recursion of Among.
Selects(f, P, sorted, set) ==
  /\ f \in [0..Len(sorted) -> Seq(P)] /\ f[0] = <<>> /\ f[Len(sorted)] = Among(sorted, set)
  /\ \A n \in 1..Len(sorted) :
       f[n] = IF sorted[n] \in set THEN Append(f[n - 1], sorted[n]) ELSE f[n - 1]
\* Among as it is computed, one candidate after another.
LEMMA AmongFacts ==
  ASSUME NEW P, NEW sorted \in Seq(P), NEW set
  PROVE  \E f : Selects(f, P, sorted, set)
<1>1. PICK N \in Nat : N = Len(sorted)
  OBVIOUS
<1>2. PICK X : X = Seq(P)
  OBVIOUS
<1>3. PICK base \in X : base = <<>>
  BY <1>2, EmptySeq
<1>4. PICK step \in [1..N -> [X -> X]] :
        \A n \in 1..N, s \in X : step[n][s] = IF sorted[n] \in set THEN Append(s, sorted[n]) ELSE s
  <2> DEFINE step == [n \in 1..N |-> [s \in X |-> IF sorted[n] \in set THEN Append(s, sorted[n]) ELSE s]]
  <2>1. \A n \in 1..N, s \in X : (IF sorted[n] \in set THEN Append(s, sorted[n]) ELSE s) \in X
    BY <1>1, <1>2
  <2>2. step \in [1..N -> [X -> X]]
    BY <2>1
  <2> QED BY <2>2
<1>5. PICK f : Recurses(f, N, X, base, step)
  BY Recursion
<1>6. f \in [0..N -> X] /\ f[0] = base /\ \A n \in 1..N : f[n] = step[n][f[n - 1]]
  BY <1>5 DEF Recurses
<1> DEFINE Body(g) == [n \in 0..N |-> IF n = 0 THEN <<>>
                         ELSE IF sorted[n] \in set THEN Append(g[n - 1], sorted[n]) ELSE g[n - 1]]
           F == CHOOSE g : g = Body(g)
<1>7. f = Body(f)
  <2>1. \A n \in 1..N : n - 1 \in 0..N /\ f[n - 1] \in X
    BY <1>6
  <2>2. \A n \in 1..N : f[n] = IF sorted[n] \in set THEN Append(f[n - 1], sorted[n]) ELSE f[n - 1]
    BY <1>4, <1>6, <2>1
  <2>3. f[0] = <<>>
    BY <1>3, <1>6
  <2>4. \A n \in 0..N : n # 0 => n \in 1..N
    OBVIOUS
  <2>5. \A n \in 0..N : f[n] = Body(f)[n]
    BY <2>2, <2>3, <2>4, Zenon
  <2>6. f = [n \in 0..N |-> f[n]]
    BY <1>6
  <2>7. Body(f) = [n \in 0..N |-> Body(f)[n]]
    BY Zenon
  <2> HIDE DEF Body
  <2> QED BY <2>5, <2>6, <2>7, Zenon
<1>8. F = Body(F) /\ Among(sorted, set) = F[N]
  <2>1. F = Body(F)
    <3> HIDE DEF Body
    <3> QED BY <1>7
  <2> QED BY <1>1, <2>1 DEF Among
<1> HIDE DEF F
<1>9. /\ F = [n \in 0..N |-> F[n]] /\ F[0] = <<>>
      /\ \A n \in 1..N :
           F[n] = IF sorted[n] \in set THEN Append(F[n - 1], sorted[n]) ELSE F[n - 1]
  <2>1. F = [n \in 0..N |-> F[n]]
    BY <1>8, Zenon
  <2>2. 0 \in 0..N /\ \A n \in 1..N : n \in 0..N /\ n # 0
    OBVIOUS
  <2>3. \A n \in 0..N : F[n] = Body(F)[n]
    <3> HIDE DEF Body
    <3> QED BY <1>8, Zenon
  <2>4. F[0] = <<>>
    BY <2>2, <2>3, Zenon
  <2>5. \A n \in 1..N :
           F[n] = IF sorted[n] \in set THEN Append(F[n - 1], sorted[n]) ELSE F[n - 1]
    BY <2>2, <2>3, Zenon
  <2> QED BY <2>1, <2>4, <2>5
<1>10. F \in [0..N -> X]
  <2> DEFINE S == {n \in 0..N : F[n] \in X}
  <2>1. 0 \in S
    <3>1. F[0] = base /\ 0 \in 0..N
      BY <1>3, <1>9
    <3> QED BY <3>1
  <2>2. \A n \in 1..N : n - 1 \in S => n \in S
    <3> SUFFICES ASSUME NEW n \in 1..N, F[n - 1] \in X PROVE n \in 0..N /\ F[n] \in X
      OBVIOUS
    <3>1. PICK s \in Seq(P) : s = F[n - 1]
      BY <1>2
    <3>2. Append(s, sorted[n]) \in Seq(P)
      BY <1>1
    <3>3. F[n] = IF sorted[n] \in set THEN Append(s, sorted[n]) ELSE s
      BY <1>9, <3>1, Zenon
    <3> QED BY <1>2, <3>2, <3>3
  <2> HIDE DEF S
  <2>3. 0..N \subseteq S
    BY <2>1, <2>2, Upward
  <2> QED BY <1>9, <2>3 DEF S
<1> QED BY <1>1, <1>2, <1>8, <1>9, <1>10 DEF Selects

\* Among keeps the order, so that nothing comes twice, and all there is.
LEMMA AmongIs ==
  ASSUME NEW P, NEW sorted \in Seq(P), Distinct(sorted), NEW set
  PROVE  /\ Among(sorted, set) \in Seq(P) /\ Distinct(Among(sorted, set))
         /\ Loaded(Among(sorted, set)) = Loaded(sorted) \cap set
<1>1. PICK N \in Nat : N = Len(sorted)
  OBVIOUS
<1>2. PICK f : Selects(f, P, sorted, set)
  BY AmongFacts
<1>3. /\ f \in [0..N -> Seq(P)] /\ f[0] = <<>> /\ f[N] = Among(sorted, set)
     /\ \A n \in 1..N : f[n] = IF sorted[n] \in set THEN Append(f[n - 1], sorted[n]) ELSE f[n - 1]
  BY <1>1, <1>2 DEF Selects
<1> DEFINE Upto(n) == {sorted[i] : i \in 1..n}
           S == {n \in 0..N : Distinct(f[n]) /\ Loaded(f[n]) = Upto(n) \cap set}
<1>4. 0 \in S
  <2>1. Distinct(<<>>) /\ Loaded(<<>>) = {} /\ Upto(0) = {}
    BY DEF Distinct, Loaded
  <2> QED BY <1>3, <2>1
<1>5. ASSUME NEW n \in 1..N, n - 1 \in S PROVE n \in S
  <2>1. n - 1 \in 0..N /\ sorted[n] \in P
    BY <1>1
  <2>2. f[n - 1] \in Seq(P)
    BY <1>3, <2>1
  <2>3. PICK s \in Seq(P), p \in P : s = f[n - 1] /\ p = sorted[n]
    BY <2>1, <2>2
  <2>4. Distinct(s) /\ Loaded(s) = Upto(n - 1) \cap set
    BY <1>5, <2>3
  <2>5. Upto(n) = Upto(n - 1) \cup {p} /\ p \notin Upto(n - 1)
    <3>1. \A i \in 1..n : i = n \/ i \in 1..(n - 1)
      OBVIOUS
    <3>2. Upto(n) = Upto(n - 1) \cup {p}
      BY <2>3, <3>1
    <3>3. DOMAIN sorted = 1..N /\ n \in 1..N /\ \A i \in 1..(n - 1) : i \in 1..N /\ i # n
      BY <1>1
    <3> QED BY <2>3, <3>2, <3>3 DEF Distinct
  <2> HIDE DEF Upto
  <2>6. CASE p \in set
    <3>1. f[n] = Append(s, p)
      BY <1>3, <2>3, <2>6
    <3>2. p \notin Loaded(s)
      BY <2>4, <2>5
    <3>3. Distinct(Append(s, p)) /\ Loaded(Append(s, p)) = Loaded(s) \cup {p}
      BY <2>4, <3>2, AppendIs
    <3>4. Loaded(Append(s, p)) = Upto(n) \cap set
      BY <2>4, <2>5, <2>6, <3>3
    <3>5. n \in 0..N
      OBVIOUS
    <3> QED BY <3>1, <3>3, <3>4, <3>5, Zenon
  <2>7. CASE p \notin set
    <3>1. f[n] = s
      BY <1>3, <2>3, <2>7
    <3> QED BY <2>4, <2>5, <2>7, <3>1 DEF S
  <2> QED BY <2>6, <2>7
<1>6. N \in S
  <2> HIDE DEF S
  <2>1. 0..N \subseteq S
    BY <1>4, <1>5, Upward
  <2> QED BY <2>1
<1>7. Upto(N) = Loaded(sorted)
  BY <1>1 DEF Loaded
<1> QED BY <1>3, <1>6, <1>7

\* Kahn's algorithm, after any number of turns: whoever is placed or queued is
\* ready, comes once, and is placed after all it waits for.
Lists(P) == [queue: Seq(P), order: Seq(P)]
Follows(order, valid, graph) ==
  \A i, j \in DOMAIN order : order[j] \in Awaited(order[i], valid, graph) => j < i
Kahn(k, valid, graph) ==
  /\ Distinct(k.queue) /\ Distinct(k.order) /\ Loaded(k.queue) \cap Loaded(k.order) = {}
  /\ Loaded(k.queue) \cup Loaded(k.order) =
       {p \in valid : Awaited(p, valid, graph) \subseteq Loaded(k.order)}
  /\ Follows(k.order, valid, graph)

\* A queue and an order make a state of the algorithm.
LEMMA ListsHas ==
  ASSUME NEW P, NEW queue \in Seq(P), NEW order \in Seq(P)
  PROVE  \E k \in Lists(P) : /\ k = [queue |-> queue, order |-> order]
                            /\ k.queue = queue /\ k.order = order
<1> DEFINE k == [queue |-> queue, order |-> order]
<1>1. k \in Lists(P) /\ k.queue = queue /\ k.order = order
  BY DEF Lists
<1> QED BY <1>1

\* A turn places the head of the queue.
LEMMA PlaceKahn ==
  ASSUME NEW P, NEW sorted \in Seq(P), Distinct(sorted), NEW graph,
         NEW valid, valid \subseteq Loaded(sorted),
         NEW k \in Lists(P), Kahn(k, valid, graph)
  PROVE  /\ Place(k, sorted, valid, graph) \in Lists(P)
         /\ Kahn(Place(k, sorted, valid, graph), valid, graph)
         /\ \/ k.queue = <<>> /\ Place(k, sorted, valid, graph) = k
            \/ k.queue # <<>> /\ Len(Place(k, sorted, valid, graph).order) = Len(k.order) + 1
<1>1. CASE k.queue = <<>>
  BY <1>1 DEF Place
<1>2. CASE k.queue # <<>>
  <2>1. PICK queue \in Seq(P), order \in Seq(P) : queue = k.queue /\ order = k.order
    BY DEF Lists
  <2>2. PICK p \in P, rest \in Seq(P) : p = Head(queue) /\ rest = Tail(queue)
    BY <1>2, <2>1, HeadTailProperties
  <2>3. PICK placed \in Seq(P) : placed = Append(order, p)
    BY AppendProperties
  <2> DEFINE D(q) == Awaited(q, valid, graph)
             freed == {q \in valid : p \in D(q) /\ D(q) \subseteq Loaded(placed)}
  <2>4. PICK more \in Seq(P) : /\ more = Among(sorted, freed) /\ Distinct(more)
                               /\ Loaded(more) = freed
    <3>1. freed \subseteq Loaded(sorted)
      OBVIOUS
    <3>2. /\ Among(sorted, freed) \in Seq(P) /\ Distinct(Among(sorted, freed))
          /\ Loaded(Among(sorted, freed)) = Loaded(sorted) \cap freed
      <4> HIDE DEF freed
      <4> QED BY AmongIs
    <3> HIDE DEF freed
    <3> QED BY <3>1, <3>2
  <2>5. Place(k, sorted, valid, graph) = [queue |-> rest \o more, order |-> placed]
    BY <1>2, <2>1, <2>2, <2>3, <2>4 DEF Place
  <2>6. /\ Distinct(queue) /\ Distinct(order) /\ Loaded(queue) \cap Loaded(order) = {}
        /\ Loaded(queue) \cup Loaded(order) = {q \in valid : D(q) \subseteq Loaded(order)}
        /\ Follows(order, valid, graph)
    BY <2>1 DEF Kahn
  <2>7. /\ Loaded(queue) = {p} \cup Loaded(rest) /\ p \notin Loaded(rest) /\ Distinct(rest)
    BY <1>2, <2>1, <2>2, <2>6, TailIs
  <2>8. p \in valid /\ D(p) \subseteq Loaded(order) /\ p \notin Loaded(order) /\ p \notin D(p)
    BY <2>6, <2>7 DEF Awaited
  <2>9. Loaded(placed) = Loaded(order) \cup {p} /\ Distinct(placed)
    BY <2>3, <2>6, <2>8, AppendIs
  <2>10. \A q \in freed : q \notin Loaded(queue) /\ q \notin Loaded(order) /\ q # p
    BY <2>6, <2>8
  <2>11. /\ rest \o more \in Seq(P) /\ Distinct(rest \o more)
         /\ Loaded(rest \o more) = Loaded(rest) \cup freed
    <3>1. Loaded(rest) \cap Loaded(more) = {}
      BY <2>4, <2>7, <2>10
    <3> HIDE DEF freed
    <3> QED BY <2>4, <2>7, <3>1, ConcatIs
  <2>12. Loaded(rest \o more) \cap Loaded(placed) = {}
    BY <2>6, <2>7, <2>9, <2>10, <2>11
  <2>13. Loaded(rest \o more) \cup Loaded(placed) = {q \in valid : D(q) \subseteq Loaded(placed)}
    <3>1. ASSUME NEW q \in valid, D(q) \subseteq Loaded(placed), q \notin freed
          PROVE  q \in Loaded(rest) \cup Loaded(placed)
      <4>1. D(q) \subseteq Loaded(order)
        BY <2>9, <3>1
      <4> QED BY <2>6, <2>7, <2>9, <4>1
    <3>2. Loaded(rest) \cup Loaded(placed) \subseteq {q \in valid : D(q) \subseteq Loaded(placed)}
      BY <2>6, <2>7, <2>8, <2>9
    <3> QED BY <2>11, <3>1, <3>2
  <2>14. Follows(placed, valid, graph)
    <3>1. PICK n \in Nat : n = Len(order)
      OBVIOUS
    <3>2. /\ DOMAIN order = 1..n /\ DOMAIN placed = 1..(n + 1) /\ placed[n + 1] = p
          /\ \A i \in 1..n : placed[i] = order[i]
      BY <2>3, <3>1, AppendProperties
    <3>3. \A i \in 1..n : p \notin D(order[i])
      <4>1. \A i \in 1..n : order[i] \in Loaded(order)
        BY <3>1 DEF Loaded
      <4> QED BY <2>6, <2>8, <4>1
    <3>4. \A i, j \in 1..n : order[j] \in D(order[i]) => j < i
      BY <2>6, <3>2 DEF Follows
    <3>5. \A i, j \in 1..(n + 1) : placed[j] \in D(placed[i]) => j < i
      <4> SUFFICES ASSUME NEW i \in 1..(n + 1), NEW j \in 1..(n + 1), placed[j] \in D(placed[i])
                   PROVE  j < i
        OBVIOUS
      <4>1. CASE i \in 1..n /\ j \in 1..n
        BY <3>2, <3>4, <4>1
      <4>2. CASE i = n + 1
        <5>1. j # n + 1
          BY <2>8, <3>2, <4>2
        <5> QED BY <4>2, <5>1
      <4>3. CASE i \in 1..n /\ j = n + 1
        BY <3>2, <3>3, <4>3
      <4>4. (i = n + 1 \/ i \in 1..n) /\ (j = n + 1 \/ j \in 1..n)
        OBVIOUS
      <4> QED BY <4>1, <4>2, <4>3, <4>4
    <3> QED BY <3>2, <3>5 DEF Follows
  <2>15. PICK k2 \in Lists(P) : /\ k2 = [queue |-> rest \o more, order |-> placed]
                                /\ k2.queue = rest \o more /\ k2.order = placed
    <3>1. PICK q2 \in Seq(P) : q2 = rest \o more
      BY <2>11
    <3>2. PICK k2 \in Lists(P) : k2 = [queue |-> q2, order |-> placed] /\ k2.queue = q2 /\ k2.order = placed
      BY ListsHas
    <3> QED BY <3>1, <3>2
  <2>16. Kahn(k2, valid, graph)
    BY <2>9, <2>11, <2>12, <2>13, <2>14, <2>15 DEF Kahn
  <2>17. Len(k2.order) = Len(k.order) + 1
    BY <2>1, <2>3, <2>15, AppendProperties
  <2> QED BY <1>2, <2>5, <2>15, <2>16, <2>17
<1> QED BY <1>1, <1>2

\* The order of a boot: no plugin twice, each after those it waits for.
LEMMA ResolveKahn ==
  ASSUME NEW P, NEW sorted \in Seq(P), Distinct(sorted), NEW compatible, NEW graph
  PROVE  \E k \in Lists(P) :
           /\ k.order = Resolve(sorted, Loaded(sorted), compatible, graph)
           /\ Kahn(k, Valid(Loaded(sorted), compatible, graph), graph)
           /\ \/ k.queue = <<>>
              \/ Len(k.order) = Len(sorted)
<1>1. PICK N \in Nat : N = Len(sorted)
  OBVIOUS
<1>2. PICK valid : valid = Valid(Loaded(sorted), compatible, graph) /\ valid \subseteq Loaded(sorted)
  BY DEF Valid
<1> DEFINE ready == {p \in valid : Awaited(p, valid, graph) = {}}
<1>3. PICK first \in Seq(P) : first = Among(sorted, ready) /\ Distinct(first) /\ Loaded(first) = ready
  <2>1. ready \subseteq Loaded(sorted)
    BY <1>2
  <2> HIDE DEF ready
  <2>2. /\ Among(sorted, ready) \in Seq(P) /\ Distinct(Among(sorted, ready))
        /\ Loaded(Among(sorted, ready)) = Loaded(sorted) \cap ready
    BY AmongIs
  <2> QED BY <2>1, <2>2
<1>4. PICK X : X = Lists(P)
  OBVIOUS
<1>5. PICK base \in X : base = [queue |-> first, order |-> <<>>] /\ base.queue = first /\ base.order = <<>>
  <2>1. PICK none \in Seq(P) : none = <<>>
    BY EmptySeq
  <2>2. PICK k \in Lists(P) : k = [queue |-> first, order |-> none] /\ k.queue = first /\ k.order = none
    BY ListsHas
  <2> QED BY <1>4, <2>1, <2>2
<1>6. Kahn(base, valid, graph)
  <2>1. /\ Loaded(<<>>) = {} /\ Distinct(<<>>) /\ Follows(<<>>, valid, graph)
    BY DEF Loaded, Distinct, Follows
  <2>2. ready = {p \in valid : Awaited(p, valid, graph) \subseteq {}}
    OBVIOUS
  <2> HIDE DEF ready
  <2> QED BY <1>3, <1>5, <2>1, <2>2 DEF Kahn
<1> DEFINE Good == {k \in X : Kahn(k, valid, graph)}
<1>7. PICK G : G = Good
  OBVIOUS
<1>8. PICK step \in [1..N -> [G -> G]] : \A n \in 1..N, k \in G : step[n][k] = Place(k, sorted, valid, graph)
  <2> DEFINE step == [n \in 1..N |-> [k \in G |-> Place(k, sorted, valid, graph)]]
  <2>1. \A k \in G : Place(k, sorted, valid, graph) \in G
    BY <1>2, <1>4, <1>7, PlaceKahn
  <2>2. step \in [1..N -> [G -> G]]
    BY <2>1
  <2> QED BY <2>2
<1>9. base \in G
  BY <1>5, <1>6, <1>7
<1>10. PICK f : Recurses(f, N, G, base, step)
  BY <1>9, Recursion
<1>11. f \in [0..N -> G] /\ f[0] = base /\ \A n \in 1..N : f[n] = step[n][f[n - 1]]
  BY <1>10 DEF Recurses
<1> DEFINE Body(g) == [n \in 0..N |-> IF n = 0 THEN [queue |-> Among(sorted, ready), order |-> <<>>]
                         ELSE Place(g[n - 1], sorted, valid, graph)]
           F == CHOOSE g : g = Body(g)
<1>12. f = Body(f)
  <2>1. \A n \in 1..N : n - 1 \in 0..N /\ f[n - 1] \in G
    BY <1>11
  <2>2. \A n \in 1..N : f[n] = Place(f[n - 1], sorted, valid, graph)
    BY <1>8, <1>11, <2>1
  <2>3. f[0] = [queue |-> Among(sorted, ready), order |-> <<>>]
    BY <1>3, <1>5, <1>11, Zenon
  <2>4. \A n \in 0..N : n # 0 => n \in 1..N
    OBVIOUS
  <2>5. \A n \in 0..N : f[n] = Body(f)[n]
    <3> HIDE DEF ready
    <3> QED BY <2>2, <2>3, <2>4, Zenon
  <2>6. f = [n \in 0..N |-> f[n]]
    BY <1>11
  <2>7. Body(f) = [n \in 0..N |-> Body(f)[n]]
    BY Zenon
  <2> HIDE DEF Body
  <2> QED BY <2>5, <2>6, <2>7, Zenon
<1>13. F = Body(F)
  <2> HIDE DEF Body
  <2> QED BY <1>12
<1>14. Resolve(sorted, Loaded(sorted), compatible, graph) = F[N].order
  BY <1>1, <1>2, <1>13, Zenon DEF Resolve
<1> HIDE DEF F
<1>15. /\ F[0] = base
       /\ \A n \in 1..N : F[n] = Place(F[n - 1], sorted, valid, graph)
  <2>1. 0 \in 0..N /\ \A n \in 1..N : n \in 0..N /\ n # 0
    OBVIOUS
  <2>2. \A n \in 0..N : F[n] = Body(F)[n]
    <3> HIDE DEF Body
    <3> QED BY <1>13, Zenon
  <2>3. F[0] = [queue |-> Among(sorted, ready), order |-> <<>>]
    <3> HIDE DEF ready
    <3> QED BY <2>1, <2>2, Zenon
  <2>4. \A n \in 1..N : F[n] = Place(F[n - 1], sorted, valid, graph)
    <3> HIDE DEF ready
    <3> QED BY <2>1, <2>2, Zenon
  <2>5. F[0] = base
    <3> HIDE DEF ready
    <3> QED BY <1>3, <1>5, <2>3, Zenon
  <2> QED BY <2>4, <2>5
<1>16. F[N] \in G /\ (F[N].queue = <<>> \/ Len(F[N].order) = N)
  <2> DEFINE S == {n \in 0..N : F[n] \in G /\ (F[n].queue = <<>> \/ Len(F[n].order) = n)}
  <2>1. 0 \in S
    BY <1>5, <1>9, <1>15, EmptySeq
  <2>2. \A n \in 1..N : n - 1 \in S => n \in S
    <3> SUFFICES ASSUME NEW n \in 1..N, F[n - 1] \in G,
                        F[n - 1].queue = <<>> \/ Len(F[n - 1].order) = n - 1
                 PROVE  n \in 0..N /\ F[n] \in G /\ (F[n].queue = <<>> \/ Len(F[n].order) = n)
      OBVIOUS
    <3>1. PICK k \in G : k = F[n - 1] /\ (k.queue = <<>> \/ Len(k.order) = n - 1)
      OBVIOUS
    <3>2. /\ Place(k, sorted, valid, graph) \in G
          /\ \/ k.queue = <<>> /\ Place(k, sorted, valid, graph) = k
             \/ k.queue # <<>> /\ Len(Place(k, sorted, valid, graph).order) = Len(k.order) + 1
      <4>1. PICK c \in Lists(P) : c = k /\ Kahn(c, valid, graph)
        BY <1>4, <1>7
      <4>2. /\ Place(c, sorted, valid, graph) \in Lists(P)
            /\ Kahn(Place(c, sorted, valid, graph), valid, graph)
            /\ \/ c.queue = <<>> /\ Place(c, sorted, valid, graph) = c
               \/ c.queue # <<>> /\ Len(Place(c, sorted, valid, graph).order) = Len(c.order) + 1
        BY <1>2, <4>1, PlaceKahn
      <4> QED BY <1>4, <1>7, <4>1, <4>2
    <3>3. F[n] = Place(k, sorted, valid, graph)
      BY <1>15, <3>1
    <3>4. Place(k, sorted, valid, graph).queue = <<>> \/ Len(Place(k, sorted, valid, graph).order) = n
      <4>1. CASE k.queue = <<>>
        BY <3>2, <4>1
      <4>2. CASE k.queue # <<>>
        <5>1. Len(k.order) = n - 1 /\ Len(Place(k, sorted, valid, graph).order) = Len(k.order) + 1
          BY <3>1, <3>2, <4>2
        <5>2. n \in Int
          OBVIOUS
        <5> QED BY <5>1, <5>2
      <4> QED BY <4>1, <4>2
    <3> QED BY <3>2, <3>3, <3>4
  <2> HIDE DEF S
  <2>3. 0..N \subseteq S
    BY <2>1, <2>2, Upward
  <2> QED BY <2>3 DEF S
<1> QED BY <1>1, <1>2, <1>4, <1>7, <1>14, <1>16

\* A list without repetitions has as many members as places.
LEMMA LoadedCount ==
  ASSUME NEW P, NEW s \in Seq(P), Distinct(s)
  PROVE  IsFiniteSet(Loaded(s)) /\ Cardinality(Loaded(s)) = Len(s)
<1>1. PICK n \in Nat : n = Len(s) /\ DOMAIN s = 1..n
  OBVIOUS
<1>2. PICK T : T = Loaded(s)
  OBVIOUS
<1> DEFINE f == [i \in 1..n |-> s[i]]
<1>3. f \in Bijection(1..n, T)
  <2>1. f \in [1..n -> T]
    BY <1>1, <1>2 DEF Loaded
  <2>2. \A i, j \in 1..n : f[i] = f[j] => i = j
    BY <1>1 DEF Distinct
  <2>3. \A x \in T : \E i \in 1..n : f[i] = x
    BY <1>1, <1>2 DEF Loaded
  <2> HIDE DEF f
  <2>4. f \in Injection(1..n, T)
    BY <2>1, <2>2 DEF Injection, IsInjective
  <2>5. f \in Surjection(1..n, T)
    BY <2>1, <2>3 DEF Surjection
  <2> QED BY <2>4, <2>5 DEF Bijection
<1>4. ExistsBijection(1..n, T)
  <2> HIDE DEF f
  <2> QED BY <1>3 DEF ExistsBijection
<1>5. IsFiniteSet(T) /\ Cardinality(T) = n
  BY <1>4, FS_NatBijection, FS_CountingElements
<1> QED BY <1>1, <1>2, <1>5

\* The same of resolve alone, with what it leaves out: the loop has a turn for each
\* candidate, so it ends with an empty queue.
LEMMA ResolveFacts ==
  ASSUME NEW P, NEW sorted \in Seq(P), Distinct(sorted), NEW compatible, NEW graph, NEW order,
         order = Resolve(sorted, Loaded(sorted), compatible, graph)
  PROVE  /\ order \in Seq(P) /\ Distinct(order)
         /\ \A i, j \in DOMAIN order : order[j] \in graph[order[i]] => j <= i
         /\ LET valid == Valid(Loaded(sorted), compatible, graph)
            IN Loaded(order) = {p \in valid : Awaited(p, valid, graph) \subseteq Loaded(order)}
<1>1. PICK valid : valid = Valid(Loaded(sorted), compatible, graph)
  OBVIOUS
<1>2. PICK k \in Lists(P) :
        k.order = order /\ Kahn(k, valid, graph) /\ (k.queue = <<>> \/ Len(k.order) = Len(sorted))
  BY <1>1, ResolveKahn
<1>3. order \in Seq(P) /\ Distinct(order) /\ Follows(order, valid, graph) /\ Loaded(order) \subseteq valid
  BY <1>2 DEF Lists, Kahn
<1>4. ASSUME NEW i \in DOMAIN order, NEW j \in DOMAIN order, order[j] \in graph[order[i]], ~ (j <= i)
      PROVE  FALSE
  <2>1. DOMAIN order = 1..Len(order)
    BY <1>3
  <2>2. order[j] \in valid /\ order[j] # order[i] /\ i \in Int /\ j \in Int
    <3>1. i \in Int /\ j \in Int /\ i # j
      BY <1>4, <2>1
    <3>2. order[j] \in Loaded(order)
      BY <2>1 DEF Loaded
    <3>3. order[j] # order[i]
      BY <1>3, <3>1 DEF Distinct
    <3> QED BY <1>3, <3>1, <3>2, <3>3
  <2>3. order[j] \in Awaited(order[i], valid, graph)
    BY <1>4, <2>2 DEF Awaited
  <2> QED BY <1>3, <1>4, <2>2, <2>3 DEF Follows
<1>5. Loaded(k.queue) = {}
  <2>1. CASE k.queue = <<>>
    BY <2>1 DEF Loaded
  <2>2. CASE Len(order) = Len(sorted)
    <3>1. PICK S, T : S = Loaded(sorted) /\ T = Loaded(order)
      OBVIOUS
    <3>2. IsFiniteSet(S) /\ Cardinality(S) = Cardinality(T)
      BY <1>3, <2>2, <3>1, LoadedCount
    <3>3. T \in SUBSET S
      BY <1>1, <1>3, <3>1 DEF Valid
    <3>4. S = T
      BY <3>2, <3>3, FS_Subset
    <3>5. Loaded(k.queue) \subseteq S /\ Loaded(k.queue) \cap T = {}
      BY <1>1, <1>2, <3>1 DEF Kahn, Valid
    <3> QED BY <3>4, <3>5
  <2> QED BY <1>2, <2>1, <2>2
<1>6. Loaded(order) = {p \in valid : Awaited(p, valid, graph) \subseteq Loaded(order)}
  BY <1>2, <1>5 DEF Kahn
<1> QED BY <1>1, <1>3, <1>4, <1>6

\* TopologyResolver.resolve, step 3: the while loop leaves out a valid candidate
\* only because of a dependency it leaves out as well, so those left out are on a
\* cycle or behind one.
THEOREM LoadOrderIsComplete ==
  ASSUME NEW compatible \in SUBSET Plugins, NEW graph \in Graphs
  PROVE  LET valid == Valid(Plugins, compatible, graph)
             order == Resolve(Sorted, Plugins, compatible, graph)
         IN Loaded(order) = {p \in valid : Awaited(p, valid, graph) \subseteq Loaded(order)}
BY OrderAssumption, ResolveFacts


-----------------------------------------------------------------------------
\* The pieces.

\* Its types, but for the candidates (TodoInv has them).
LEMMA ObjectFacts ==
  ASSUME IInv, NEW p \in Plugins, NEW g \in Gens, NEW r \in Object,
         object' = ObjectSet(<<p, g>>, r)
  PROVE  /\ object' \in [Plugins -> [Gens -> Object]]
         /\ object'[p][g] = r
         /\ \A q \in Plugins, h \in Gens : q # p \/ h # g => object'[q][h] = object[q][h]
         /\ \A q \in Plugins : q # p => object'[q] = object[q]
<1>1. object \in [Plugins -> [Gens -> Object]]
  BY DEF IInv, TypeOK
<1> DEFINE of == [object[p] EXCEPT ![g] = r]
<1>2. object' = [object EXCEPT ![p] = of]
  BY DEF ObjectSet
<1>3. of \in [Gens -> Object] /\ of[g] = r /\ \A h \in Gens : h # g => of[h] = object[p][h]
  BY <1>1
<1> HIDE DEF of
<1> QED BY <1>1, <1>2, <1>3

\* An object, by its owner.
LEMMA TheFacts ==
  ASSUME IInv, NEW p \in Plugins, NEW g \in Gens
  PROVE  The(<<p, g>>) = object[p][g] /\ object[p][g] \in Object
  BY DEF IInv, TypeOK, The

\* What was never made.
LEMMA AbsentFacts ==
  /\ Absent \in Object /\ Absent.scope = "none" /\ Absent.tasks = "none"
  /\ \A state \in States :
       LET r == [Absent EXCEPT !.state = state]
       IN r \in Object /\ r.scope = "none" /\ r.tasks = "none" /\ r.state = state
  BY DEF Absent, Object, States

\* close_scope up to its await.
LEMMA ClosingFacts ==
  ASSUME NEW r \in Object
  PROVE  /\ Closing(r) \in Object /\ Closing(r).scope = "closing" /\ Closing(r).state = r.state
         /\ Closing(r).tasks # "running" /\ Closing(r).version = r.version
  BY DEF Closing, Object

\* What is published has the type of a snapshot.
LEMMA SnapshotFacts ==
  ASSUME NEW managed \in Snapshots, NEW obj
  PROVE  Snapshot(managed, obj) \in Snapshots
  BY DEF Snapshot, Snapshots

\* Another plugin is not concerned.
LEMMA OtherPlugin ==
  ASSUME NEW q \in Plugins, PluginInv(q),
         object'[q] = object[q], pc'[q] = pc[q], op'[q] = op[q], plugins'[q] = plugins[q],
         phase' = "boot" => phase = "boot", generation' >= generation,
         generation \in Nat, generation' \in Nat
  PROVE  PluginInv(q)'
<1>1. OpInv(q)'
  BY DEF PluginInv, OpInv, Referred
<1>2. PlaceInv(q)'
  BY DEF PluginInv, PlaceInv, The, New, Old
<1>3. ObjectInv(q)'
  BY DEF PluginInv, ObjectInv, Gens, Referred
<1> QED BY <1>1, <1>2, <1>3 DEF PluginInv

\* The candidates are not concerned.
LEMMA TodoKept ==
  ASSUME IInv, todo' = todo,
         phase' = "boot" =>
           /\ phase = "boot" /\ generation' = generation /\ needs' = needs
           /\ \A p \in Loaded(todo) :
                pc'[p] = pc[p] /\ plugins'[p] = plugins[p] /\ object'[p][1] = object[p][1]
  PROVE  TodoInv'
  BY DEF IInv, TodoInv

\* The candidates are plugins.
LEMMA TodoPlugins == ASSUME TodoInv PROVE Loaded(todo) \subseteq Plugins
  BY DEF TodoInv, Loaded

\* An object changes that keeps its scope open, if it was.
LEMMA BusKept ==
  ASSUME IInv, NEW p \in Plugins, NEW g \in Gens, NEW o \in Object, object[p][g] = o, NEW r \in Object,
         object' = ObjectSet(<<p, g>>, r), UNCHANGED <<subs, flight>>,
         o.scope = "open" => r.scope = "open" /\ r.version = o.version
  PROVE  BusInv'
<1>1. /\ object'[p][g] = r
      /\ \A q \in Plugins, h \in Gens : q # p \/ h # g => object'[q][h] = object[q][h]
  BY ObjectFacts
<1>2. ASSUME NEW s \in subs
      PROVE  /\ object'[s[2][1]][s[2][2]].scope = "open"
             /\ s[1] \in Handlers[s[2][1]][object'[s[2][1]][s[2][2]].version]
  <2>1. s[2][1] \in Plugins /\ s[2][2] \in Gens
    BY DEF IInv, TypeOK, Owner
  <2>2. object[s[2][1]][s[2][2]].scope = "open" /\ s[1] \in Handlers[s[2][1]][object[s[2][1]][s[2][2]].version]
    BY DEF IInv, BusInv, The
  <2> QED BY <1>1, <2>1, <2>2
<1> QED BY <1>2 DEF IInv, BusInv, OneEach, The

\* A scope is closed: whatever it subscribed goes.
LEMMA BusClosed ==
  ASSUME IInv, NEW p \in Plugins, NEW g \in Gens, NEW r \in Object,
         object' = ObjectSet(<<p, g>>, r), flight' = flight,
         subs' = Unsubscribed(subs, <<p, g>>)
  PROVE  BusInv' /\ subs' \subseteq Names \X Owner
<1>1. \A q \in Plugins, h \in Gens : q # p \/ h # g => object'[q][h] = object[q][h]
  BY ObjectFacts
<1>2. subs' = {t \in subs : t[1] \notin Handlers[p][object[p][g].version]}
  BY DEF Unsubscribed
<1>3. ASSUME NEW s \in subs'
      PROVE  /\ object'[s[2][1]][s[2][2]].scope = "open"
             /\ s[1] \in Handlers[s[2][1]][object'[s[2][1]][s[2][2]].version]
  <2>1. s \in subs /\ s[2][1] \in Plugins /\ s[2][2] \in Gens /\ s[1] \notin Handlers[p][object[p][g].version]
    BY <1>2 DEF IInv, TypeOK, Owner
  <2>2. object[s[2][1]][s[2][2]].scope = "open" /\ s[1] \in Handlers[s[2][1]][object[s[2][1]][s[2][2]].version]
    BY <2>1 DEF IInv, BusInv, The
  <2> QED BY <1>1, <2>1, <2>2
<1>4. OneEach(subs') /\ OneEach(flight') /\ subs' \subseteq Names \X Owner
  BY <1>2 DEF IInv, TypeOK, BusInv, OneEach
<1> QED BY <1>3, <1>4 DEF BusInv, OneEach, The

\* The subscriptions of an object whose scope is open.
LEMMA BusOpened ==
  ASSUME IInv, NEW p \in Plugins, NEW g \in Gens, NEW o \in Object, object[p][g] = o,
         NEW r \in Object, object' = ObjectSet(<<p, g>>, r), flight' = flight,
         o.scope = "open", r.scope = "open", r.version = o.version, r.version \in Packages(p),
         subs' = Subscribed(subs, Handlers[p][r.version], <<p, g>>)
  PROVE  BusInv' /\ subs' \subseteq Names \X Owner
<1>1. /\ object'[p][g] = r
      /\ \A q \in Plugins, h \in Gens : q # p \/ h # g => object'[q][h] = object[q][h]
  BY ObjectFacts
<1> DEFINE names == Handlers[p][r.version]
<1>2. subs' = {t \in subs : t[1] \notin names} \cup (names \X {<<p, g>>})
  BY DEF Subscribed
<1>3. names \subseteq Names
  BY DEF Names
<1> HIDE DEF names
<1>4. subs' \subseteq Names \X Owner
  <2>1. <<p, g>> \in Owner
    BY DEF Owner
  <2> QED BY <1>2, <1>3, <2>1 DEF IInv, TypeOK
<1>5. ASSUME NEW s \in subs'
      PROVE  /\ object'[s[2][1]][s[2][2]].scope = "open"
             /\ s[1] \in Handlers[s[2][1]][object'[s[2][1]][s[2][2]].version]
  <2>1. CASE s \in names \X {<<p, g>>}
    BY <1>1, <2>1 DEF names
  <2>2. CASE s \in subs
    <3>1. s[2][1] \in Plugins /\ s[2][2] \in Gens
      BY <2>2 DEF IInv, TypeOK, Owner
    <3>2. object[s[2][1]][s[2][2]].scope = "open" /\ s[1] \in Handlers[s[2][1]][object[s[2][1]][s[2][2]].version]
      BY <2>2 DEF IInv, BusInv, The
    <3> QED BY <1>1, <3>1, <3>2
  <2> QED BY <1>2, <2>1, <2>2
<1>6. OneEach(subs')
  BY <1>2 DEF IInv, BusInv, OneEach
<1> QED BY <1>4, <1>5, <1>6 DEF IInv, BusInv, OneEach, The

-----------------------------------------------------------------------------
\* An operation goes on.

Places == {"idle"} \cup NewPlaces \cup OldPlaces
Ops == [new: Gens \cup {0}, old: Gens \cup {0}, saved: Snapshots]

\* The operations' variables, by plugin.
LEMMA TypeFacts ==
  ASSUME IInv
  PROVE  /\ pc \in [Plugins -> Places] /\ op \in [Plugins -> Ops] /\ plugins \in Snapshots
         /\ published \in Snapshots /\ generation \in Nat
  BY BoundAssumption DEF IInv, TypeOK, Places, NewPlaces, OldPlaces, Ops

\* What the operation on p has, by its place.
LEMMA PlaceFacts ==
  ASSUME IInv, NEW p \in Plugins
  PROVE  /\ op[p] \in Ops /\ plugins[p] \in Gens \cup {0}
         /\ op[p].new \in Gens \cup {0} /\ op[p].old \in Gens \cup {0} /\ op[p].saved \in Snapshots
         /\ pc[p] \in NewPlaces => op[p].new \in Gens /\ The(New(p)) = object[p][op[p].new]
                                   /\ The(New(p)) \in Object
         /\ pc[p] \in OldPlaces => op[p].old \in Gens /\ The(Old(p)) = object[p][op[p].old]
                                   /\ The(Old(p)) \in Object
         /\ OpInv(p) /\ PlaceInv(p) /\ ObjectInv(p)
<1>1. op[p] \in Ops /\ plugins[p] \in Gens \cup {0}
  BY TypeFacts DEF Snapshots
<1>2. OpInv(p) /\ PlaceInv(p) /\ ObjectInv(p)
  BY DEF IInv, PluginInv
<1>3. \A g \in Gens : object[p][g] \in Object
  BY TheFacts
<1> QED BY <1>1, <1>2, <1>3 DEF Ops, OpInv, The, New, Old

\* The operation on p, working on its object g, makes it r and goes to this place,
\* with these locals and this managed generation.
Works(p, g) ==
  \/ pc[p] \in NewPlaces /\ g = op[p].new
  \/ pc[p] \in OldPlaces /\ g = op[p].old

Legal(p, g, r, place, locals, managed) ==
  /\ place = "idle" => locals.new = 0 /\ locals.old = 0
  /\ place \in NewPlaces => locals.new = g
  /\ place \in OldPlaces => locals.old # 0 /\ locals.new \in {0, managed}
  /\ place # "idle" => managed \in {0, locals.new, locals.old}
  /\ phase = "boot" => locals.old = 0
  /\ place # "prepare"
  /\ place \in {"setup", "start", "compensate"} => r.scope = "open"
  /\ place \in {"undrain", "faildrain"} => r.scope = "closing"
  /\ place = "stopfailed" => r.scope \in {"open", "closed"}
  /\ place = "faildrain" => r.state = "stopped"
  /\ place = "drain" => g = locals.old /\ r.scope = "closing" /\ r.state = "stopped"
  /\ r.scope = "closing" => place \in {"undrain", "faildrain", "drain"}
  /\ r.tasks = "running" => r.scope = "open"
  /\ \/ g \in {managed, locals.new, locals.old}
     \/ r.state = "stopped" /\ r.scope \in {"none", "closed"}
  /\ Referred(p) \subseteq {0, g, managed, locals.new, locals.old}
  /\ {managed, locals.new, locals.old} \subseteq {0} \cup Referred(p)

\* A legal step of the operation on p keeps the invariant of p.
LEMMA ObjectStep ==
  ASSUME IInv, NEW p \in Plugins, NEW g \in Gens, Works(p, g), NEW r \in Object,
         object' = ObjectSet(<<p, g>>, r), NEW place \in Places, pc'[p] = place,
         NEW locals \in Ops, op'[p] = locals, NEW managed \in Gens \cup {0}, plugins'[p] = managed,
         generation' = generation, phase' = phase, Legal(p, g, r, place, locals, managed)
  PROVE  PluginInv(p)'
<1>1. object'[p][g] = r /\ \A h \in Gens : h # g => object'[p][h] = object[p][h]
  BY ObjectFacts
<1>2. OpInv(p) /\ ObjectInv(p)
  BY PlaceFacts
<1>3. Referred(p)' = {managed, locals.new, locals.old}
  BY DEF Referred
<1>4. g \in Referred(p) /\ g <= generation /\ generation \in Nat
  BY <1>2, TypeFacts DEF Works, OpInv, Referred
<1>5. OpInv(p)'
  <2>1. Referred(p)' \subseteq 0..generation
    BY <1>2, <1>3, <1>4 DEF Legal, OpInv
  <2>2. place \in NewPlaces => locals.new # 0
    BY DEF Legal, Gens
  <2> QED BY <2>1, <2>2 DEF OpInv, Legal
<1>6. PlaceInv(p)'
  <2>1. place \in NewPlaces => The(New(p))' = r
    BY <1>1 DEF Legal, The, New
  <2>2. place = "drain" => The(Old(p))' = r
    BY <1>1 DEF Legal, The, Old
  <2> QED BY <2>1, <2>2 DEF PlaceInv, Legal, NewPlaces
<1>7. \A h \in Gens : h # g => object[p][h].scope # "closing"
  BY <1>2 DEF ObjectInv, Works, NewPlaces, OldPlaces
<1>8. ASSUME NEW h \in Gens
      PROVE  /\ h > generation => object'[p][h] = Absent
             /\ object'[p][h].scope = "closing" =>
                  \/ place \in {"undrain", "faildrain"} /\ h = locals.new
                  \/ place = "drain" /\ h = locals.old
             /\ object'[p][h].tasks = "running" => object'[p][h].scope = "open"
             /\ h \notin Referred(p)' /\ object'[p][h] # Absent =>
                  object'[p][h].state = "stopped" /\ object'[p][h].scope \in {"none", "closed"}
  <2>1. CASE h = g
    BY <1>1, <1>3, <1>4, <2>1 DEF Gens, Legal, NewPlaces
  <2>2. CASE h # g
    <3>1. h \notin Referred(p)' => h \notin Referred(p)
      BY <1>3, <2>2 DEF Gens, Legal
    <3> QED BY <1>1, <1>2, <1>7, <2>2, <3>1 DEF ObjectInv
  <2> QED BY <2>1, <2>2
<1>9. ObjectInv(p)'
  BY <1>8 DEF ObjectInv
<1> QED BY <1>5, <1>6, <1>9 DEF PluginInv

\* A step of one plugin: the others are as they were.
LEMMA OfOnePlugin ==
  ASSUME IInv, NEW p \in Plugins,
         object' \in [Plugins -> [Gens -> Object]],
         \A q \in Plugins : q # p => object'[q] = object[q],
         NEW place \in Places, At(p, place),
         NEW locals \in Ops, op' = [op EXCEPT ![p] = locals],
         NEW managed \in Gens \cup {0}, plugins' = Managed(p, managed), published' \in Snapshots,
         generation' \in 0..MaxGen, generation' >= generation,
         UNCHANGED <<phase, needs, flight, events>>,
         TodoInv', BusInv', subs' \subseteq Names \X Owner, PluginInv(p)'
  PROVE  IInv'
<1>1. /\ pc' \in [Plugins -> Places] /\ op' \in [Plugins -> Ops]
      /\ \A q \in Plugins : q # p => pc'[q] = pc[q] /\ op'[q] = op[q]
  BY TypeFacts DEF At
<1>2. plugins' \in Snapshots /\ \A q \in Plugins : q # p => plugins'[q] = plugins[q]
  BY TypeFacts DEF Managed, Snapshots
<1>3. TypeOK'
  <2>1. Loaded(todo') \subseteq Plugins
    BY DEF TodoInv, Loaded
  <2> QED BY <1>1, <1>2, <2>1 DEF IInv, TypeOK, Places, NewPlaces, OldPlaces, Ops
<1>4. ASSUME NEW q \in Plugins, q # p PROVE PluginInv(q)'
  <2>1. PluginInv(q) /\ generation \in Nat /\ generation' \in Nat /\ phase' = phase
    BY TypeFacts DEF IInv
  <2> QED BY <1>1, <1>2, <1>4, <2>1, OtherPlugin
<1> QED BY <1>3, <1>4 DEF IInv

\* ... and so the whole invariant.
LEMMA Goes ==
  ASSUME IInv, NEW p \in Plugins,
         NEW g \in Gens, Works(p, g), NEW r \in Object, object' = ObjectSet(<<p, g>>, r),
         NEW place \in Places, At(p, place),
         NEW locals \in Ops, op' = [op EXCEPT ![p] = locals],
         NEW managed \in Gens \cup {0}, plugins' = Managed(p, managed), published' \in Snapshots,
         UNCHANGED <<phase, needs, todo, generation, flight, events>>,
         BusInv', subs' \subseteq Names \X Owner, Legal(p, g, r, place, locals, managed)
  PROVE  IInv'
<1>1. /\ object' \in [Plugins -> [Gens -> Object]]
      /\ \A q \in Plugins : q # p => object'[q] = object[q]
  BY ObjectFacts
<1>2. /\ pc'[p] = place /\ op'[p] = locals /\ plugins'[p] = managed
      /\ \A q \in Plugins : q # p => pc'[q] = pc[q] /\ plugins'[q] = plugins[q]
  BY TypeFacts DEF At, Managed, Snapshots
<1>3. TodoInv'
  <2>1. phase = "boot" => \A q \in Loaded(todo) : q # p /\ q \in Plugins
    BY TodoPlugins DEF IInv, TodoInv, Works, NewPlaces, OldPlaces
  <2> QED BY <1>1, <1>2, <2>1, TodoKept
<1>4. PluginInv(p)'
  BY <1>2, ObjectStep
<1>5. generation' \in 0..MaxGen /\ generation' >= generation
  BY BoundAssumption DEF IInv, TypeOK
<1> QED BY <1>1, <1>3, <1>4, <1>5, OfOnePlugin

\* A record's state or scope is set.
LEMMA RecordFacts ==
  \A o \in Object :
    /\ o.state \in States
    /\ \A state \in States : \E r \in Object :
         /\ r = [o EXCEPT !.state = state]
         /\ r.state = state /\ r.scope = o.scope /\ r.tasks = o.tasks /\ r.version = o.version
    /\ \E r \in Object :
         /\ r = [o EXCEPT !.scope = "closed"]
         /\ r.state = o.state /\ r.scope = "closed" /\ r.tasks = o.tasks /\ r.version = o.version
<1> SUFFICES ASSUME NEW o \in Object PROVE
    /\ o.state \in States
    /\ \A state \in States : \E r \in Object :
         /\ r = [o EXCEPT !.state = state]
         /\ r.state = state /\ r.scope = o.scope /\ r.tasks = o.tasks /\ r.version = o.version
    /\ \E r \in Object :
         /\ r = [o EXCEPT !.scope = "closed"]
         /\ r.state = o.state /\ r.scope = "closed" /\ r.tasks = o.tasks /\ r.version = o.version
  OBVIOUS
<1>1. o.state \in States
  BY DEF Object
<1>2. ASSUME NEW state \in States
      PROVE  \E r \in Object :
               /\ r = [o EXCEPT !.state = state]
               /\ r.state = state /\ r.scope = o.scope /\ r.tasks = o.tasks /\ r.version = o.version
  <2> DEFINE r == [o EXCEPT !.state = state]
  <2>1. r \in Object /\ r.state = state /\ r.scope = o.scope /\ r.tasks = o.tasks /\ r.version = o.version
    BY DEF Object
  <2> QED BY <2>1
<1>3. \E r \in Object :
        /\ r = [o EXCEPT !.scope = "closed"]
        /\ r.state = o.state /\ r.scope = "closed" /\ r.tasks = o.tasks /\ r.version = o.version
  <2> DEFINE r == [o EXCEPT !.scope = "closed"]
  <2>1. r \in Object /\ r.state = o.state /\ r.scope = "closed" /\ r.tasks = o.tasks /\ r.version = o.version
    BY DEF Object
  <2> QED BY <2>1
<1> QED BY <1>1, <1>2, <1>3

\* The object an operation makes.
LEMMA NewOf ==
  ASSUME IInv, NEW p \in Plugins, pc[p] \in NewPlaces
  PROVE  \E g \in Gens, o \in Object, l \in Ops, m \in Gens \cup {0} :
           /\ op[p] = l /\ plugins[p] = m /\ l.new = g /\ New(p) = <<p, g>> /\ Works(p, g)
           /\ The(New(p)) = o /\ object[p][g] = o
           /\ m \in {0, l.new, l.old} /\ Referred(p) = {m, l.new, l.old}
           /\ phase = "boot" => l.old = 0
  BY PlaceFacts DEF New, Works, OpInv, Referred, NewPlaces, OldPlaces

\* The object it replaces.
LEMMA OldOf ==
  ASSUME IInv, NEW p \in Plugins, pc[p] \in OldPlaces
  PROVE  \E g \in Gens, o \in Object, l \in Ops, m \in Gens \cup {0} :
           /\ op[p] = l /\ plugins[p] = m /\ l.old = g /\ Old(p) = <<p, g>> /\ Works(p, g)
           /\ The(Old(p)) = o /\ object[p][g] = o
           /\ m \in {0, l.new, l.old} /\ Referred(p) = {m, l.new, l.old}
           /\ phase # "boot" /\ l.new \in {0, m}
  BY PlaceFacts DEF Old, Works, OpInv, Referred, NewPlaces, OldPlaces

\* No operation.
LEMMA IdleFacts == Idle \in Ops /\ Idle.new = 0 /\ Idle.old = 0
  BY DEF Idle, Ops, None, Snapshots

\* The parts of the state an action leaves alone, in the forms Goes has.
LEMMA KeptFacts ==
  ASSUME IInv, NEW p \in Plugins
  PROVE  /\ op' = op => op' = [op EXCEPT ![p] = op[p]]
         /\ plugins' = plugins => plugins' = Managed(p, plugins[p])
         /\ published \in Snapshots
         /\ subs \subseteq Names \X Owner
         /\ \A g \in Gens : object' = object => object' = ObjectSet(<<p, g>>, object[p][g])
  BY DEF IInv, TypeOK, Managed, Snapshots, ObjectSet

\* One lemma per action of an operation.
LEMMA RegisterStep == ASSUME IInv, NEW p \in Plugins, Register(p) PROVE IInv'
<1>1. pc[p] = "prepare" /\ pc[p] \in NewPlaces
  BY DEF Register, NewPlaces
<1>2. PICK g \in Gens, o \in Object, l \in Ops, m \in Gens \cup {0} :
        /\ op[p] = l /\ plugins[p] = m /\ l.new = g /\ New(p) = <<p, g>> /\ Works(p, g)
        /\ The(New(p)) = o /\ object[p][g] = o
        /\ m \in {0, l.new, l.old} /\ Referred(p) = {m, l.new, l.old}
        /\ phase = "boot" => l.old = 0
  BY <1>1, NewOf
<1>3. o.scope = "open" /\ o.version \in Packages(p)
  BY <1>1, <1>2, PlaceFacts DEF PlaceInv
<1>4. PICK r \in Object : /\ r = [o EXCEPT !.state = "starting"]
                          /\ r.state = "starting" /\ r.scope = o.scope
                          /\ r.tasks = o.tasks /\ r.version = o.version
  BY <1>2, RecordFacts DEF States
<1>5. /\ r.scope = o.scope /\ r.tasks = o.tasks /\ r.version = o.version
      /\ o.scope = "open" => r.scope = "open" /\ r.version = o.version
  BY <1>4
<1>6. /\ object' = ObjectSet(<<p, g>>, r) /\ At(p, "setup") /\ flight' = flight
      /\ subs' = Subscribed(subs, Handlers[p][r.version], <<p, g>>)
  BY <1>2, <1>4 DEF Register, OnBus, bus
<1>7. BusInv' /\ subs' \subseteq Names \X Owner
  BY <1>2, <1>3, <1>5, <1>6, BusOpened
<1>8. Legal(p, g, r, "setup", l, m)
  BY <1>2, <1>3, <1>5 DEF Legal, NewPlaces, OldPlaces
<1>9. /\ op' = [op EXCEPT ![p] = l] /\ plugins' = Managed(p, m) /\ published' \in Snapshots
      /\ UNCHANGED <<phase, needs, todo, generation, flight, events>> /\ "setup" \in Places
  BY <1>2, KeptFacts DEF Register, bus, Places, NewPlaces
<1> QED BY <1>2, <1>6, <1>7, <1>8, <1>9, Goes

LEMMA PrepareFailsStep == ASSUME IInv, NEW p \in Plugins, PrepareFails(p) PROVE IInv'
<1>1. pc[p] = "prepare" /\ pc[p] \in NewPlaces
  BY DEF PrepareFails, NewPlaces
<1>2. PICK g \in Gens, o \in Object, l \in Ops, m \in Gens \cup {0} :
        /\ op[p] = l /\ plugins[p] = m /\ l.new = g /\ New(p) = <<p, g>> /\ Works(p, g)
        /\ The(New(p)) = o /\ object[p][g] = o
        /\ m \in {0, l.new, l.old} /\ Referred(p) = {m, l.new, l.old}
        /\ phase = "boot" => l.old = 0
  BY <1>1, NewOf
<1>3. o.scope = "open"
  BY <1>1, <1>2, PlaceFacts DEF PlaceInv
<1>4. PICK r \in Object : /\ r = [o EXCEPT !.state = "failed"]
                          /\ r.state = "failed" /\ r.scope = o.scope
                          /\ r.tasks = o.tasks /\ r.version = o.version
  BY <1>2, RecordFacts DEF States
<1>5. /\ r.scope = o.scope /\ r.tasks = o.tasks /\ r.version = o.version
      /\ o.scope = "open" => r.scope = "open" /\ r.version = o.version
  BY <1>4
<1>6. /\ object' = ObjectSet(<<p, g>>, r) /\ plugins' = Managed(p, g)
      /\ UNCHANGED <<phase, needs, todo, generation, subs, flight, events>>
  BY <1>2, <1>4 DEF PrepareFails, bus
<1>7. BusInv' /\ subs' \subseteq Names \X Owner
  BY <1>2, <1>5, <1>6, BusKept, KeptFacts
<1>8. PICK place \in Places, locals \in Ops :
        /\ At(p, place) /\ op' = [op EXCEPT ![p] = locals]
        /\ \/ phase = "boot" /\ place = "idle" /\ locals = Idle
           \/ phase # "boot" /\ place = "stopfailed" /\ locals = l
  BY <1>2, IdleFacts, KeptFacts DEF PrepareFails, Places, NewPlaces
<1>9. Legal(p, g, r, place, locals, g)
  BY <1>2, <1>3, <1>5, <1>8, IdleFacts DEF Legal, NewPlaces, OldPlaces
<1>10. published' \in Snapshots /\ g \in Gens \cup {0}
  BY <1>2, KeptFacts DEF PrepareFails
<1> QED BY <1>2, <1>6, <1>7, <1>8, <1>9, <1>10, Goes

LEMMA SetupDoneStep == ASSUME IInv, NEW p \in Plugins, SetupDone(p) PROVE IInv'
<1>1. pc[p] = "setup" /\ pc[p] \in NewPlaces
  BY DEF SetupDone, NewPlaces
<1>2. PICK g \in Gens, o \in Object, l \in Ops, m \in Gens \cup {0} :
        /\ op[p] = l /\ plugins[p] = m /\ l.new = g /\ New(p) = <<p, g>> /\ Works(p, g)
        /\ The(New(p)) = o /\ object[p][g] = o
        /\ m \in {0, l.new, l.old} /\ Referred(p) = {m, l.new, l.old}
        /\ phase = "boot" => l.old = 0
  BY <1>1, NewOf
<1>3. PICK r \in Object : r = o /\ r.scope = "open"
  BY <1>1, <1>2, PlaceFacts DEF PlaceInv
<1>4. /\ object' = ObjectSet(<<p, g>>, r) /\ At(p, "start")
      /\ UNCHANGED <<phase, needs, todo, generation, subs, flight, events>>
  BY <1>2, <1>3, KeptFacts DEF SetupDone, bus
<1>5. BusInv' /\ subs' \subseteq Names \X Owner
  BY <1>2, <1>3, <1>4, BusKept, KeptFacts
<1>6. Legal(p, g, r, "start", l, m)
  BY <1>2, <1>3 DEF Legal, NewPlaces, OldPlaces
<1>7. /\ op' = [op EXCEPT ![p] = l] /\ plugins' = Managed(p, m) /\ published' \in Snapshots
      /\ "start" \in Places
  BY <1>2, KeptFacts DEF SetupDone, Places, NewPlaces
<1> QED BY <1>2, <1>4, <1>5, <1>6, <1>7, Goes

LEMMA HookFailsStep == ASSUME IInv, NEW p \in Plugins, HookFails(p) PROVE IInv'
<1>1. pc[p] \in {"setup", "start"} /\ pc[p] \in NewPlaces
  BY DEF HookFails, NewPlaces
<1>2. PICK g \in Gens, o \in Object, l \in Ops, m \in Gens \cup {0} :
        /\ op[p] = l /\ plugins[p] = m /\ l.new = g /\ New(p) = <<p, g>> /\ Works(p, g)
        /\ The(New(p)) = o /\ object[p][g] = o
        /\ m \in {0, l.new, l.old} /\ Referred(p) = {m, l.new, l.old}
        /\ phase = "boot" => l.old = 0
  BY <1>1, NewOf
<1>3. o.scope = "open"
  BY <1>1, <1>2, PlaceFacts DEF PlaceInv
<1>4. PICK r \in Object : /\ r = [o EXCEPT !.state = "failed"]
                          /\ r.state = "failed" /\ r.scope = o.scope
                          /\ r.tasks = o.tasks /\ r.version = o.version
  BY <1>2, RecordFacts DEF States
<1>5. /\ r.scope = o.scope /\ r.tasks = o.tasks /\ r.version = o.version
      /\ o.scope = "open" => r.scope = "open" /\ r.version = o.version
  BY <1>4
<1>6. /\ object' = ObjectSet(<<p, g>>, r) /\ At(p, "compensate")
      /\ UNCHANGED <<phase, needs, todo, generation, subs, flight, events>>
  BY <1>2, <1>4 DEF HookFails, bus
<1>7. BusInv' /\ subs' \subseteq Names \X Owner
  BY <1>2, <1>5, <1>6, BusKept, KeptFacts
<1>8. Legal(p, g, r, "compensate", l, m)
  BY <1>2, <1>3, <1>5 DEF Legal, NewPlaces, OldPlaces
<1>9. /\ op' = [op EXCEPT ![p] = l] /\ plugins' = Managed(p, m) /\ published' \in Snapshots
      /\ "compensate" \in Places
  BY <1>2, KeptFacts DEF HookFails, Places, NewPlaces
<1> QED BY <1>2, <1>6, <1>7, <1>8, <1>9, Goes

LEMMA StartDoneStep == ASSUME IInv, NEW p \in Plugins, StartDone(p) PROVE IInv'
<1>1. pc[p] = "start" /\ pc[p] \in NewPlaces
  BY DEF StartDone, NewPlaces
<1>2. PICK g \in Gens, o \in Object, l \in Ops, m \in Gens \cup {0} :
        /\ op[p] = l /\ plugins[p] = m /\ l.new = g /\ New(p) = <<p, g>> /\ Works(p, g)
        /\ The(New(p)) = o /\ object[p][g] = o
        /\ m \in {0, l.new, l.old} /\ Referred(p) = {m, l.new, l.old}
        /\ phase = "boot" => l.old = 0
  BY <1>1, NewOf
<1>3. o.scope = "open"
  BY <1>1, <1>2, PlaceFacts DEF PlaceInv
<1>4. PICK r \in Object : /\ r = [o EXCEPT !.state = "active"]
                          /\ r.state = "active" /\ r.scope = o.scope
                          /\ r.tasks = o.tasks /\ r.version = o.version
  BY <1>2, RecordFacts DEF States
<1>5. /\ r.scope = o.scope /\ r.tasks = o.tasks /\ r.version = o.version
      /\ o.scope = "open" => r.scope = "open" /\ r.version = o.version
  BY <1>4
<1>6. /\ object' = ObjectSet(<<p, g>>, r) /\ plugins' = Managed(p, g)
      /\ UNCHANGED <<phase, needs, todo, generation, subs, flight, events>>
  BY <1>2, <1>4 DEF StartDone, bus
<1>7. BusInv' /\ subs' \subseteq Names \X Owner
  BY <1>2, <1>5, <1>6, BusKept, KeptFacts
<1>8. PICK place \in Places, locals \in Ops :
        /\ At(p, place) /\ op' = [op EXCEPT ![p] = locals]
        /\ \/ l.old # 0 /\ place = "stopold" /\ locals = l
           \/ l.old = 0 /\ place = "idle" /\ locals = Idle
  BY <1>2, IdleFacts, KeptFacts DEF StartDone, Places, OldPlaces
<1>9. Legal(p, g, r, place, locals, g)
  BY <1>2, <1>3, <1>5, <1>8, IdleFacts DEF Legal, NewPlaces, OldPlaces
<1>10. published' \in Snapshots /\ g \in Gens \cup {0}
  <2>1. plugins' \in Snapshots
    BY <1>6, TypeFacts DEF Managed, Snapshots
  <2>2. Snapshot(plugins', object') \in Snapshots
    BY <2>1 DEF Snapshot, Snapshots
  <2> QED BY <2>2, KeptFacts DEF StartDone
<1> QED BY <1>2, <1>6, <1>7, <1>8, <1>9, <1>10, Goes

LEMMA CompensatedStep == ASSUME IInv, NEW p \in Plugins, Compensated(p) PROVE IInv'
<1>1. pc[p] = "compensate" /\ pc[p] \in NewPlaces
  BY DEF Compensated, NewPlaces
<1>2. PICK g \in Gens, o \in Object, l \in Ops, m \in Gens \cup {0} :
        /\ op[p] = l /\ plugins[p] = m /\ l.new = g /\ New(p) = <<p, g>> /\ Works(p, g)
        /\ The(New(p)) = o /\ object[p][g] = o
        /\ m \in {0, l.new, l.old} /\ Referred(p) = {m, l.new, l.old}
        /\ phase = "boot" => l.old = 0
  BY <1>1, NewOf
<1>3. PICK r \in Object : r = Closing(o) /\ r.scope = "closing" /\ r.tasks # "running"
  BY <1>2, ClosingFacts
<1>4. r.scope = "closing" /\ r.tasks # "running"
  BY <1>3
<1>5. /\ object' = ObjectSet(<<p, g>>, r) /\ At(p, "undrain") /\ subs' = Unsubscribed(subs, <<p, g>>)
      /\ UNCHANGED <<phase, needs, todo, generation, flight, events>>
  BY <1>2, <1>3 DEF Compensated, bus
<1>6. BusInv' /\ subs' \subseteq Names \X Owner
  BY <1>5, BusClosed
<1>7. Legal(p, g, r, "undrain", l, m)
  BY <1>2, <1>4 DEF Legal, NewPlaces, OldPlaces
<1>8. /\ op' = [op EXCEPT ![p] = l] /\ plugins' = Managed(p, m) /\ published' \in Snapshots
      /\ "undrain" \in Places
  BY <1>2, KeptFacts DEF Compensated, Places, NewPlaces
<1> QED BY <1>2, <1>5, <1>6, <1>7, <1>8, Goes

LEMMA UndrainedStep == ASSUME IInv, NEW p \in Plugins, Undrained(p) PROVE IInv'
<1>1. pc[p] = "undrain" /\ pc[p] \in NewPlaces
  BY DEF Undrained, NewPlaces
<1>2. PICK g \in Gens, o \in Object, l \in Ops, m \in Gens \cup {0} :
        /\ op[p] = l /\ plugins[p] = m /\ l.new = g /\ New(p) = <<p, g>> /\ Works(p, g)
        /\ The(New(p)) = o /\ object[p][g] = o
        /\ m \in {0, l.new, l.old} /\ Referred(p) = {m, l.new, l.old}
        /\ phase = "boot" => l.old = 0
  BY <1>1, NewOf
<1>3. o.scope = "closing" /\ o.tasks # "running"
  BY <1>1, <1>2, PlaceFacts DEF PlaceInv, ObjectInv
<1>4. PICK r \in Object : /\ r = [o EXCEPT !.scope = "closed"]
                          /\ r.state = o.state /\ r.scope = "closed"
                          /\ r.tasks = o.tasks /\ r.version = o.version
  BY RecordFacts
<1>5. r.scope = "closed" /\ r.tasks # "running" /\ (o.scope = "open" => r.scope = "open" /\ r.version = o.version)
  BY <1>3, <1>4
<1>6. /\ object' = ObjectSet(<<p, g>>, r) /\ plugins' = Managed(p, g)
      /\ UNCHANGED <<phase, needs, todo, generation, subs, flight, events>>
  BY <1>2, <1>4 DEF Undrained, bus
<1>7. BusInv' /\ subs' \subseteq Names \X Owner
  BY <1>2, <1>5, <1>6, BusKept, KeptFacts
<1>8. PICK place \in Places, locals \in Ops :
        /\ At(p, place) /\ op' = [op EXCEPT ![p] = locals]
        /\ \/ phase = "boot" /\ place = "idle" /\ locals = Idle
           \/ phase # "boot" /\ place = "stopfailed" /\ locals = l
  BY <1>2, IdleFacts, KeptFacts DEF Undrained, Places, NewPlaces
<1>9. Legal(p, g, r, place, locals, g)
  BY <1>2, <1>5, <1>8, IdleFacts DEF Legal, NewPlaces, OldPlaces
<1>10. published' \in Snapshots /\ g \in Gens \cup {0}
  BY KeptFacts DEF Undrained
<1> QED BY <1>2, <1>6, <1>7, <1>8, <1>9, <1>10, Goes

LEMMA StopFailedStep == ASSUME IInv, NEW p \in Plugins, StopFailed(p) PROVE IInv'
<1>1. pc[p] = "stopfailed" /\ pc[p] \in NewPlaces
  BY DEF StopFailed, NewPlaces
<1>2. PICK g \in Gens, o \in Object, l \in Ops, m \in Gens \cup {0} :
        /\ op[p] = l /\ plugins[p] = m /\ l.new = g /\ New(p) = <<p, g>> /\ Works(p, g)
        /\ The(New(p)) = o /\ object[p][g] = o
        /\ m \in {0, l.new, l.old} /\ Referred(p) = {m, l.new, l.old}
        /\ phase = "boot" => l.old = 0
  BY <1>1, NewOf
<1>3. o.scope # "closing" /\ (o.tasks = "running" => o.scope = "open") /\ ObjectInv(p) /\ PlaceInv(p)
  BY <1>1, <1>2, PlaceFacts DEF ObjectInv, PlaceInv
<1>4. PICK s \in Object : /\ s = [o EXCEPT !.state = "stopped"]
                          /\ s.state = "stopped" /\ s.scope = o.scope
                          /\ s.tasks = o.tasks /\ s.version = o.version
  BY RecordFacts DEF States
<1>5. /\ s.state = "stopped" /\ s.scope = o.scope /\ s.scope # "closing"
      /\ s.scope \in {"none", "open", "closed"}
      /\ s.tasks = "running" => s.scope = "open"
      /\ o.scope = "open" => s.scope = "open" /\ s.version = o.version
  BY <1>3, <1>4 DEF Object
<1>6. UNCHANGED <<phase, needs, todo, generation, flight, events>>
  BY DEF StopFailed, bus
<1>7. CASE s.scope = "open"
  <2>1. PICK r \in Object : r = Closing(s) /\ r.scope = "closing" /\ r.state = "stopped" /\ r.tasks # "running"
    BY <1>5, ClosingFacts
  <2>2. r.scope = "closing" /\ r.state = "stopped" /\ r.tasks # "running"
    BY <2>1
  <2>3. /\ object' = ObjectSet(<<p, g>>, r) /\ At(p, "faildrain") /\ subs' = Unsubscribed(subs, <<p, g>>)
        /\ UNCHANGED <<op, plugins, published>>
    BY <1>2, <1>4, <1>7, <2>1 DEF StopFailed
  <2>4. BusInv' /\ subs' \subseteq Names \X Owner
    BY <1>6, <2>3, BusClosed
  <2>5. Legal(p, g, r, "faildrain", l, m)
    BY <1>2, <2>2 DEF Legal, NewPlaces, OldPlaces, Gens
  <2>6. /\ op' = [op EXCEPT ![p] = l] /\ plugins' = Managed(p, m) /\ published' \in Snapshots
        /\ "faildrain" \in Places
    BY <1>2, <2>3, KeptFacts DEF Places, NewPlaces, OldPlaces
  <2> QED BY <1>2, <1>6, <2>3, <2>4, <2>5, <2>6, Goes
<1>8. CASE s.scope # "open"
  <2>1. /\ object' = ObjectSet(<<p, g>>, s) /\ At(p, "idle") /\ subs' = subs
        /\ op' = [op EXCEPT ![p] = Idle]
    BY <1>2, <1>4, <1>8 DEF Restore, StopFailed
  <2>2. BusInv' /\ subs' \subseteq Names \X Owner
    BY <1>2, <1>5, <1>6, <2>1, BusKept, KeptFacts
  <2>3. plugins' = Managed(p, l.old) /\ published' \in Snapshots /\ l.old \in Gens \cup {0}
    BY <1>2, <1>4, <1>8 DEF StopFailed, Restore, Ops
  <2>4. PICK managed \in Gens \cup {0} : managed = l.old
    BY <2>3
  <2>5. Legal(p, g, s, "idle", Idle, managed)
    BY <1>2, <1>5, <1>8, <2>4, IdleFacts DEF Legal, NewPlaces, OldPlaces
  <2> QED BY <1>2, <1>6, <2>1, <2>2, <2>3, <2>4, <2>5, IdleFacts, Goes DEF Places
<1> QED BY <1>7, <1>8

LEMMA FailedDrainedStep == ASSUME IInv, NEW p \in Plugins, FailedDrained(p) PROVE IInv'
<1>1. pc[p] = "faildrain" /\ pc[p] \in NewPlaces
  BY DEF FailedDrained, NewPlaces
<1>2. PICK g \in Gens, o \in Object, l \in Ops, m \in Gens \cup {0} :
        /\ op[p] = l /\ plugins[p] = m /\ l.new = g /\ New(p) = <<p, g>> /\ Works(p, g)
        /\ The(New(p)) = o /\ object[p][g] = o
        /\ m \in {0, l.new, l.old} /\ Referred(p) = {m, l.new, l.old}
        /\ phase = "boot" => l.old = 0
  BY <1>1, NewOf
<1>3. o.scope = "closing" /\ o.state = "stopped" /\ o.tasks # "running"
  BY <1>1, <1>2, PlaceFacts DEF PlaceInv, ObjectInv
<1>4. PICK r \in Object : /\ r = [o EXCEPT !.scope = "closed"]
                          /\ r.state = o.state /\ r.scope = "closed"
                          /\ r.tasks = o.tasks /\ r.version = o.version
  BY RecordFacts
<1>5. /\ r.scope = "closed" /\ r.state = "stopped" /\ r.tasks # "running"
      /\ o.scope = "open" => r.scope = "open" /\ r.version = o.version
  BY <1>3, <1>4
<1>6. /\ object' = ObjectSet(<<p, g>>, r) /\ At(p, "idle") /\ op' = [op EXCEPT ![p] = Idle]
      /\ UNCHANGED <<phase, needs, todo, generation, subs, flight, events>>
  BY <1>2, <1>4 DEF FailedDrained, bus, Restore
<1>7. BusInv' /\ subs' \subseteq Names \X Owner
  BY <1>2, <1>5, <1>6, BusKept, KeptFacts
<1>8. plugins' = Managed(p, l.old) /\ published' \in Snapshots /\ l.old \in Gens \cup {0}
  BY <1>2 DEF FailedDrained, Restore, Ops
<1>9. PICK managed \in Gens \cup {0} : managed = l.old
  BY <1>8
<1>10. Legal(p, g, r, "idle", Idle, managed)
  BY <1>2, <1>5, <1>9, IdleFacts DEF Legal, NewPlaces, OldPlaces
<1> QED BY <1>2, <1>6, <1>7, <1>8, <1>9, <1>10, IdleFacts, Goes DEF Places

LEMMA StopOldStep == ASSUME IInv, NEW p \in Plugins, StopOld(p) PROVE IInv'
<1>1. pc[p] = "stopold" /\ pc[p] \in OldPlaces
  BY DEF StopOld, OldPlaces
<1>2. PICK g \in Gens, o \in Object, l \in Ops, m \in Gens \cup {0} :
        /\ op[p] = l /\ plugins[p] = m /\ l.old = g /\ Old(p) = <<p, g>> /\ Works(p, g)
        /\ The(Old(p)) = o /\ object[p][g] = o
        /\ m \in {0, l.new, l.old} /\ Referred(p) = {m, l.new, l.old}
        /\ phase # "boot" /\ l.new \in {0, m}
  BY <1>1, OldOf
<1>3. o.scope # "closing" /\ (o.tasks = "running" => o.scope = "open") /\ ObjectInv(p) /\ PlaceInv(p)
  BY <1>1, <1>2, PlaceFacts DEF ObjectInv, PlaceInv
<1>4. PICK s \in Object : /\ s = [o EXCEPT !.state = "stopped"]
                          /\ s.state = "stopped" /\ s.scope = o.scope
                          /\ s.tasks = o.tasks /\ s.version = o.version
  BY RecordFacts DEF States
<1>5. /\ s.state = "stopped" /\ s.scope = o.scope /\ s.scope # "closing"
      /\ s.scope \in {"none", "open", "closed"}
      /\ s.tasks = "running" => s.scope = "open"
      /\ o.scope = "open" => s.scope = "open" /\ s.version = o.version
  BY <1>3, <1>4 DEF Object
<1>6. UNCHANGED <<phase, needs, todo, generation, flight, events>>
  BY DEF StopOld, bus
<1>7. CASE s.scope = "open"
  <2>1. PICK r \in Object : r = Closing(s) /\ r.scope = "closing" /\ r.state = "stopped" /\ r.tasks # "running"
    BY <1>5, ClosingFacts
  <2>2. r.scope = "closing" /\ r.state = "stopped" /\ r.tasks # "running"
    BY <2>1
  <2>3. /\ object' = ObjectSet(<<p, g>>, r) /\ At(p, "drain") /\ subs' = Unsubscribed(subs, <<p, g>>)
        /\ UNCHANGED <<op, plugins, published>>
    BY <1>2, <1>4, <1>7, <2>1 DEF StopOld
  <2>4. BusInv' /\ subs' \subseteq Names \X Owner
    BY <1>6, <2>3, BusClosed
  <2>5. Legal(p, g, r, "drain", l, m)
    BY <1>2, <2>2 DEF Legal, NewPlaces, OldPlaces, Gens
  <2>6. /\ op' = [op EXCEPT ![p] = l] /\ plugins' = Managed(p, m) /\ published' \in Snapshots
        /\ "drain" \in Places
    BY <1>2, <2>3, KeptFacts DEF Places, NewPlaces, OldPlaces
  <2> QED BY <1>2, <1>6, <2>3, <2>4, <2>5, <2>6, Goes
<1>8. CASE s.scope # "open"
  <2>1. /\ object' = ObjectSet(<<p, g>>, s) /\ At(p, "idle") /\ subs' = subs
        /\ op' = [op EXCEPT ![p] = Idle]
    BY <1>2, <1>4, <1>8 DEF StopOld
  <2>2. BusInv' /\ subs' \subseteq Names \X Owner
    BY <1>2, <1>5, <1>6, <2>1, BusKept, KeptFacts
  <2>3. plugins' = Managed(p, m) /\ published' \in Snapshots
    BY <1>2, KeptFacts DEF StopOld
  <2>4. Legal(p, g, s, "idle", Idle, m)
    BY <1>2, <1>5, <1>8, IdleFacts DEF Legal, NewPlaces, OldPlaces
  <2> QED BY <1>2, <1>6, <2>1, <2>2, <2>3, <2>4, IdleFacts, Goes DEF Places
<1> QED BY <1>7, <1>8

LEMMA DrainedStep == ASSUME IInv, NEW p \in Plugins, Drained(p) PROVE IInv'
<1>1. pc[p] = "drain" /\ pc[p] \in OldPlaces
  BY DEF Drained, OldPlaces
<1>2. PICK g \in Gens, o \in Object, l \in Ops, m \in Gens \cup {0} :
        /\ op[p] = l /\ plugins[p] = m /\ l.old = g /\ Old(p) = <<p, g>> /\ Works(p, g)
        /\ The(Old(p)) = o /\ object[p][g] = o
        /\ m \in {0, l.new, l.old} /\ Referred(p) = {m, l.new, l.old}
        /\ phase # "boot" /\ l.new \in {0, m}
  BY <1>1, OldOf
<1>3. o.scope = "closing" /\ o.state = "stopped" /\ o.tasks # "running"
  BY <1>1, <1>2, PlaceFacts DEF PlaceInv, ObjectInv
<1>4. PICK r \in Object : /\ r = [o EXCEPT !.scope = "closed"]
                          /\ r.state = o.state /\ r.scope = "closed"
                          /\ r.tasks = o.tasks /\ r.version = o.version
  BY RecordFacts
<1>5. /\ r.scope = "closed" /\ r.state = "stopped" /\ r.tasks # "running"
      /\ o.scope = "open" => r.scope = "open" /\ r.version = o.version
  BY <1>3, <1>4
<1>6. /\ object' = ObjectSet(<<p, g>>, r) /\ At(p, "idle") /\ op' = [op EXCEPT ![p] = Idle]
      /\ UNCHANGED <<phase, needs, todo, generation, subs, flight, events>>
  BY <1>2, <1>4 DEF Drained, bus
<1>7. BusInv' /\ subs' \subseteq Names \X Owner
  BY <1>2, <1>5, <1>6, BusKept, KeptFacts
<1>8. plugins' = Managed(p, m) /\ published' \in Snapshots
  BY <1>2, KeptFacts DEF Drained
<1>9. Legal(p, g, r, "idle", Idle, m)
  BY <1>2, <1>5, IdleFacts DEF Legal, NewPlaces, OldPlaces
<1> QED BY <1>2, <1>6, <1>7, <1>8, <1>9, IdleFacts, Goes DEF Places

-----------------------------------------------------------------------------
\* The other actions.

\* A plugin starts a task: nothing but its object's tasks changes.
LEMMA StartTaskStep == ASSUME IInv, NEW p \in Plugins, StartTask(p) PROVE IInv'
<1>1. PICK g \in Gens : /\ object[p][g].scope = "open" /\ object[p][g].tasks = "none"
                        /\ object' = [object EXCEPT ![p][g].tasks = "running"]
  BY DEF StartTask
<1>2. PICK o \in Object : o = object[p][g] /\ o.scope = "open"
  BY <1>1, TheFacts
<1>3. PICK r \in Object : r = [o EXCEPT !.tasks = "running"]
  <2> DEFINE r == [o EXCEPT !.tasks = "running"]
  <2>1. r \in Object
    BY DEF Object
  <2> QED BY <2>1
<1>4. /\ r.scope = "open" /\ r.version = o.version /\ r.state = o.state /\ r # Absent
      /\ o.scope = "open" => r.scope = "open" /\ r.version = o.version
  BY <1>2, <1>3, AbsentFacts DEF Object
<1>5. object' = ObjectSet(<<p, g>>, r)
  BY <1>1, <1>2, <1>3 DEF ObjectSet, IInv, TypeOK
<1>6. UNCHANGED <<phase, needs, todo, generation, plugins, published, subs, pc, op, flight, events>>
  BY DEF StartTask, work, bus
<1>7. BusInv'
  BY <1>2, <1>4, <1>5, <1>6, BusKept
<1>8. /\ object' \in [Plugins -> [Gens -> Object]] /\ object'[p][g] = r
      /\ \A q \in Plugins, h \in Gens : q # p \/ h # g => object'[q][h] = object[q][h]
      /\ \A q \in Plugins : q # p => object'[q] = object[q]
  BY <1>5, ObjectFacts
<1>9. TypeOK'
  BY <1>6, <1>8 DEF IInv, TypeOK
<1>10. object[p][g] # Absent
  BY <1>1, AbsentFacts
<1>11. TodoInv'
  <2>1. phase = "boot" => \A q \in Loaded(todo) : q \in Plugins /\ object'[q][1] = object[q][1]
    BY <1>8, <1>10, TodoPlugins, BoundAssumption DEF IInv, TodoInv, Gens
  <2> QED BY <1>6, <2>1, TodoKept
<1>12. ASSUME NEW q \in Plugins, q # p PROVE PluginInv(q)'
  <2>1. /\ PluginInv(q) /\ generation \in Nat /\ generation' = generation /\ generation' >= generation
        /\ phase' = phase /\ object'[q] = object[q]
    BY <1>6, <1>8, <1>12, TypeFacts DEF IInv
  <2> QED BY <1>6, <2>1, OtherPlugin
<1>13. PluginInv(p)'
  <2>1. OpInv(p) /\ PlaceInv(p) /\ ObjectInv(p)
    BY PlaceFacts
  <2>2. OpInv(p)' /\ Referred(p)' = Referred(p)
    BY <1>6, <2>1 DEF OpInv, Referred
  <2>3. \A h \in Gens : /\ object'[p][h].scope = object[p][h].scope
                        /\ object'[p][h].state = object[p][h].state
                        /\ object'[p][h].version = object[p][h].version
                        /\ \/ object'[p][h] = object[p][h]
                           \/ object[p][h].scope = "open" /\ object[p][h] # Absent
    BY <1>2, <1>4, <1>8, <1>10
  <2>4. PlaceInv(p)'
    <3>1. pc[p] \in NewPlaces => op[p].new \in Gens
      BY PlaceFacts
    <3>2. pc[p] \in OldPlaces => op[p].old \in Gens
      BY PlaceFacts
    <3> QED BY <1>6, <2>1, <2>3, <3>1, <3>2 DEF PlaceInv, The, New, Old, NewPlaces, OldPlaces
  <2>5. ObjectInv(p)'
    BY <1>6, <2>1, <2>2, <2>3 DEF ObjectInv
  <2> QED BY <2>2, <2>4, <2>5 DEF PluginInv
<1> QED BY <1>7, <1>9, <1>11, <1>12, <1>13 DEF IInv

\* The plugins are left alone.
LEMMA PluginsAlone ==
  ASSUME IInv, UNCHANGED <<generation, object, plugins, pc, op>>, phase' = "boot" => phase = "boot"
  PROVE  \A p \in Plugins : PluginInv(p)'
<1> SUFFICES ASSUME NEW p \in Plugins PROVE PluginInv(p)'
  OBVIOUS
<1>1. PluginInv(p) /\ generation \in Nat /\ generation' >= generation
  BY TypeFacts DEF IInv
<1> QED BY <1>1, OtherPlugin

\* Actions that touch no plugin.
LEMMA ArriveStep == ASSUME IInv, Arrive PROVE IInv'
<1>1. UNCHANGED <<phase, needs, todo, generation, object, plugins, published, subs, pc, op>>
  BY DEF Arrive, work
<1>2. flight' = subs /\ events' = events + 1 /\ events < MaxEvents
  BY DEF Arrive
<1>3. TypeOK'
  BY <1>1, <1>2, BoundAssumption DEF IInv, TypeOK
<1>4. BusInv'
  BY <1>1, <1>2 DEF IInv, BusInv, OneEach, The
<1>5. TodoInv'
  BY <1>1, TodoKept
<1>6. \A p \in Plugins : PluginInv(p)'
  BY <1>1, PluginsAlone
<1> QED BY <1>3, <1>4, <1>5, <1>6 DEF IInv

LEMMA HandleStep == ASSUME IInv, Handle PROVE IInv'
<1>1. UNCHANGED <<phase, needs, todo, generation, object, plugins, published, subs, pc, op, events>>
  BY DEF Handle, work
<1>2. flight' \subseteq flight
  BY DEF Handle
<1>3. TypeOK'
  BY <1>1, <1>2 DEF IInv, TypeOK
<1>4. BusInv'
  BY <1>1, <1>2 DEF IInv, BusInv, OneEach, The
<1>5. TodoInv'
  BY <1>1, TodoKept
<1>6. \A p \in Plugins : PluginInv(p)'
  BY <1>1, PluginsAlone
<1> QED BY <1>3, <1>4, <1>5, <1>6 DEF IInv

LEMMA ShutDownStep == ASSUME IInv, ShutDown PROVE IInv'
<1>1. UNCHANGED <<needs, todo, generation, object, plugins, published, subs, pc, op, flight, events>>
  BY DEF ShutDown, work, bus
<1>2. phase' = "down"
  BY DEF ShutDown
<1>3. TypeOK'
  BY <1>1, <1>2 DEF IInv, TypeOK
<1>4. BusInv'
  BY <1>1 DEF IInv, BusInv, OneEach, The
<1>5. TodoInv'
  BY <1>1, <1>2, TodoKept
<1>6. \A p \in Plugins : PluginInv(p)'
  BY <1>1, <1>2, PluginsAlone
<1> QED BY <1>3, <1>4, <1>5, <1>6 DEF IInv

LEMMA ShutDownDoneStep == ASSUME IInv, ShutDownDone PROVE IInv'
<1>1. UNCHANGED <<phase, needs, todo, generation, object, plugins, subs, pc, op, flight, events>>
  BY DEF ShutDownDone, work, bus
<1>2. published' \in Snapshots
  BY DEF ShutDownDone, None, Snapshots
<1>3. TypeOK'
  BY <1>1, <1>2 DEF IInv, TypeOK
<1>4. BusInv'
  BY <1>1 DEF IInv, BusInv, OneEach, The
<1>5. TodoInv'
  BY <1>1, TodoKept
<1>6. \A p \in Plugins : PluginInv(p)'
  BY <1>1, PluginsAlone
<1> QED BY <1>3, <1>4, <1>5, <1>6 DEF IInv

LEMMA BootPublishStep == ASSUME IInv, BootPublish PROVE IInv'
<1>1. UNCHANGED <<todo, generation, object, plugins, subs, pc, op, flight, events>>
  BY DEF BootPublish, work, bus
<1>2. phase' = "up" /\ needs' = NoNeeds /\ published' \in Snapshots
  BY TypeFacts, SnapshotFacts DEF BootPublish
<1>3. TypeOK'
  BY <1>1, <1>2 DEF IInv, TypeOK
<1>4. BusInv'
  BY <1>1 DEF IInv, BusInv, OneEach, The
<1>5. TodoInv'
  BY <1>1, <1>2, TodoKept
<1>6. \A p \in Plugins : PluginInv(p)'
  BY <1>1, <1>2, PluginsAlone
<1> QED BY <1>3, <1>4, <1>5, <1>6 DEF IInv

-----------------------------------------------------------------------------
\* An operation starts.

\* Where nothing is under way.
LEMMA RestFacts ==
  ASSUME IInv, NEW p \in Plugins, pc[p] = "idle"
  PROVE  \E l \in Ops, m \in Gens \cup {0} :
           /\ op[p] = l /\ plugins[p] = m /\ l.new = 0 /\ l.old = 0 /\ Referred(p) = {0, m}
           /\ m <= generation
           /\ \A g \in Gens : object[p][g].scope # "closing"
           /\ ObjectInv(p)
BY PlaceFacts DEF OpInv, ObjectInv, Referred

\* The managed object is going to be stopped.
LEMMA Stopping ==
  ASSUME IInv, NEW p \in Plugins, pc[p] = "idle", plugins[p] # 0, phase # "boot",
         op' = [op EXCEPT ![p].old = plugins[p]], At(p, "stopold"),
         NEW managed \in {0, plugins[p]}, plugins' = Managed(p, managed), published' \in Snapshots,
         generation' \in 0..MaxGen, generation' >= generation,
         UNCHANGED <<phase, needs, todo, object, subs, flight, events>>
  PROVE  IInv'
<1>1. PICK l \in Ops, m \in Gens \cup {0} :
        /\ op[p] = l /\ plugins[p] = m /\ l.new = 0 /\ l.old = 0 /\ Referred(p) = {0, m}
        /\ m <= generation
        /\ \A g \in Gens : object[p][g].scope # "closing"
        /\ ObjectInv(p)
  BY RestFacts
<1>2. PICK locals \in Ops : locals = [l EXCEPT !.old = m] /\ locals.new = 0 /\ locals.old = m
  <2> DEFINE locals == [l EXCEPT !.old = m]
  <2>1. locals \in Ops /\ locals.new = 0 /\ locals.old = m
    BY <1>1 DEF Ops
  <2> QED BY <2>1
<1>3. locals.new = 0 /\ locals.old = m
  BY <1>2
<1>4. op' = [op EXCEPT ![p] = locals]
  BY <1>1, <1>2, TypeFacts
<1>5. pc'[p] = "stopold" /\ op'[p] = locals /\ plugins'[p] = managed
  BY <1>4, TypeFacts DEF At, Managed, Snapshots
<1>6. Referred(p)' = {0, m} /\ m \in Gens /\ managed \in Gens \cup {0}
  BY <1>1, <1>3, <1>5 DEF Referred
<1>7. OpInv(p)'
  BY <1>1, <1>3, <1>5, <1>6, TypeFacts DEF OpInv, NewPlaces, OldPlaces, Gens
<1>8. PlaceInv(p)'
  BY <1>5 DEF PlaceInv
<1>9. ObjectInv(p)'
  BY <1>1, <1>6, TypeFacts DEF ObjectInv, Gens
<1>10. TodoInv'
  BY TodoKept
<1>11. /\ BusInv' /\ subs' \subseteq Names \X Owner
       /\ object' \in [Plugins -> [Gens -> Object]] /\ "stopold" \in Places
  BY DEF IInv, TypeOK, BusInv, OneEach, The, Places, OldPlaces
<1>12. PluginInv(p)'
  BY <1>7, <1>8, <1>9 DEF PluginInv
<1> QED BY <1>4, <1>6, <1>10, <1>11, <1>12, OfOnePlugin

\* Actions that start an operation.
LEMMA ShutDownNextStep == ASSUME IInv, NEW p \in Plugins, ShutDownNext(p) PROVE IInv'
<1>1. /\ pc[p] = "idle" /\ plugins[p] # 0 /\ phase # "boot"
      /\ op' = [op EXCEPT ![p].old = plugins[p]] /\ At(p, "stopold")
      /\ UNCHANGED <<phase, needs, todo, object, subs, flight, events, generation>>
  BY DEF ShutDownNext, bus
<1>2. /\ plugins' = Managed(p, plugins[p]) /\ published' \in Snapshots
      /\ generation' \in 0..MaxGen /\ generation' >= generation
  BY <1>1, KeptFacts, BoundAssumption DEF ShutDownNext, IInv, TypeOK
<1>3. PICK managed \in {0, plugins[p]} : managed = plugins[p]
  OBVIOUS
<1> QED BY <1>1, <1>2, <1>3, Stopping

LEMMA RemoveStep == ASSUME IInv, NEW p \in Plugins, Remove(p) PROVE IInv'
<1>1. /\ phase # "boot" /\ pc[p] = "idle" /\ generation < MaxGen /\ generation' = generation + 1
      /\ UNCHANGED <<phase, needs, todo, object, subs, flight, events>>
  BY DEF Remove, MayReload, bus
<1>2. generation' \in 0..MaxGen /\ generation' >= generation /\ generation' \in Nat
  BY <1>1, BoundAssumption DEF IInv, TypeOK
<1>3. CASE plugins[p] = 0
  <2>1. UNCHANGED <<plugins, published, pc, op>>
    BY <1>3 DEF Remove, work
  <2>2. TypeOK'
    BY <1>1, <1>2, <2>1 DEF IInv, TypeOK
  <2>3. BusInv'
    BY <1>1, <2>1 DEF IInv, BusInv, OneEach, The
  <2>4. TodoInv'
    BY <1>1, TodoKept
  <2>5. ASSUME NEW q \in Plugins PROVE PluginInv(q)'
    <3>1. PluginInv(q) /\ generation \in Nat
      BY TypeFacts DEF IInv
    <3> QED BY <1>1, <1>2, <2>1, <3>1, OtherPlugin
  <2> QED BY <2>2, <2>3, <2>4, <2>5 DEF IInv
<1>4. CASE plugins[p] # 0
  <2>1. /\ plugins' = Managed(p, 0) /\ op' = [op EXCEPT ![p].old = plugins[p]] /\ At(p, "stopold")
        /\ published' = Snapshot(plugins', object)
    BY <1>4 DEF Remove
  <2>2. published' \in Snapshots
    <3>1. plugins' \in Snapshots
      BY <2>1, TypeFacts DEF Managed, Snapshots
    <3> QED BY <2>1, <3>1 DEF Snapshot, Snapshots
  <2>3. PICK managed \in {0, plugins[p]} : managed = 0
    OBVIOUS
  <2> QED BY <1>1, <1>2, <1>4, <2>1, <2>2, <2>3, Stopping
<1> QED BY <1>3, <1>4

\* A new object, of a generation nothing was of so far.
LEMMA Creating ==
  ASSUME IInv, NEW p \in Plugins, pc[p] = "idle", NEW gen \in Gens, object[p][gen] = Absent,
         NEW v \in Packages(p), Create(p, v, plugins[p], gen), generation' = gen, generation <= gen,
         phase = "boot" => plugins[p] = 0,
         UNCHANGED <<phase, needs, plugins, published, subs, flight, events>>, TodoInv'
  PROVE  IInv'
<1>1. PICK l \in Ops, m \in Gens \cup {0} :
        /\ op[p] = l /\ plugins[p] = m /\ l.new = 0 /\ l.old = 0 /\ Referred(p) = {0, m}
        /\ m <= generation
        /\ \A g \in Gens : object[p][g].scope # "closing"
        /\ ObjectInv(p)
  BY RestFacts
<1>2. PICK r \in Object : /\ r = [version |-> v, state |-> "loaded", scope |-> "open", tasks |-> "none"]
                          /\ r.version = v /\ r.scope = "open" /\ r.tasks = "none"
  <2> DEFINE r == [version |-> v, state |-> "loaded", scope |-> "open", tasks |-> "none"]
  <2>1. v \in Versions
    BY PackagesAssumption
  <2>2. r \in Object
    BY <2>1 DEF Object, States
  <2> QED BY <2>2
<1>3. PICK locals \in Ops : /\ locals = [new |-> gen, old |-> plugins[p], saved |-> published]
                            /\ locals.new = gen /\ locals.old = m
  <2> DEFINE locals == [new |-> gen, old |-> plugins[p], saved |-> published]
  <2>1. locals \in Ops
    BY <1>1, TypeFacts DEF Ops
  <2> QED BY <1>1, <2>1
<1>4. object' = ObjectSet(<<p, gen>>, r) /\ op' = [op EXCEPT ![p] = locals] /\ At(p, "prepare")
  BY <1>2, <1>3 DEF Create
<1>5. /\ object' \in [Plugins -> [Gens -> Object]] /\ object'[p][gen] = r
      /\ \A q \in Plugins, h \in Gens : q # p \/ h # gen => object'[q][h] = object[q][h]
      /\ \A q \in Plugins : q # p => object'[q] = object[q]
  BY <1>4, ObjectFacts
<1>6. r.version = v /\ r.scope = "open" /\ r.tasks = "none" /\ locals.new = gen /\ locals.old = m
  BY <1>2, <1>3
<1>7. BusInv'
  <2>1. PICK o \in Object : object[p][gen] = o /\ o.scope # "open"
    BY AbsentFacts
  <2> QED BY <1>4, <2>1, BusKept
<1>8. /\ pc'[p] = "prepare" /\ op'[p] = locals /\ plugins'[p] = m /\ generation \in Nat
      /\ generation' = gen /\ gen \in Nat /\ plugins' = Managed(p, m)
  BY <1>1, <1>4, TypeFacts DEF At, Gens, Managed, Snapshots
<1>9. Referred(p)' = {m, gen}
  BY <1>6, <1>8 DEF Referred
<1>10. OpInv(p)'
  BY <1>1, <1>6, <1>8, <1>9 DEF OpInv, NewPlaces, OldPlaces, Gens
<1>11. PlaceInv(p)'
  BY <1>5, <1>6, <1>8 DEF PlaceInv, The, New
<1>12. ObjectInv(p)'
  <2>1. \A h \in Gens : h # gen => /\ h > gen => object[p][h] = Absent
                                   /\ object[p][h].scope # "closing"
                                   /\ object[p][h].tasks = "running" => object[p][h].scope = "open"
                                   /\ h # m /\ object[p][h] # Absent =>
                                        /\ object[p][h].state = "stopped"
                                        /\ object[p][h].scope \in {"none", "closed"}
    BY <1>1, <1>8 DEF ObjectInv, Gens
  <2> QED BY <1>5, <1>6, <1>8, <1>9, <2>1 DEF ObjectInv, Gens
<1>13. PluginInv(p)'
  BY <1>10, <1>11, <1>12 DEF PluginInv
<1>14. /\ subs' \subseteq Names \X Owner /\ published' \in Snapshots /\ "prepare" \in Places
       /\ generation' \in 0..MaxGen /\ generation' >= generation
  BY <1>8, BoundAssumption DEF IInv, TypeOK, Places, NewPlaces, Gens
<1> QED BY <1>4, <1>5, <1>7, <1>8, <1>13, <1>14, OfOnePlugin

LEMMA ReloadStep == ASSUME IInv, NEW p \in Plugins, Reload(p) PROVE IInv'
<1>1. /\ phase # "boot" /\ pc[p] = "idle" /\ generation < MaxGen /\ generation' = generation + 1
      /\ UNCHANGED <<phase, needs, todo, plugins, published, subs, flight, events>>
  BY DEF Reload, MayReload, bus
<1>2. PICK gen \in Gens : gen = generation + 1 /\ gen > generation
  BY <1>1, TypeFacts, BoundAssumption DEF Gens
<1>3. object[p][gen] = Absent
  BY <1>2, PlaceFacts DEF ObjectInv
<1>4. PICK v \in Packages(p) : Create(p, v, plugins[p], gen)
  BY <1>2 DEF Reload
<1>5. TodoInv'
  BY <1>1, TodoKept
<1>6. generation <= gen /\ generation' = gen /\ (phase = "boot" => plugins[p] = 0)
  BY <1>1, <1>2, TypeFacts DEF Gens
<1> QED BY <1>1, <1>3, <1>4, <1>5, <1>6, Creating

\* A new object whose import failed: it has no scope.
LEMMA ImportFailing ==
  ASSUME IInv, NEW p \in Plugins, pc[p] = "idle", NEW gen \in Gens, object[p][gen] = Absent,
         NEW r \in Object, r.scope = "none", r.tasks = "none",
         object' = ObjectSet(<<p, gen>>, r),
         NEW managed \in Gens \cup {0}, plugins' = Managed(p, managed), plugins[p] \in {0, managed},
         managed = gen \/ (managed = plugins[p] /\ r.state = "stopped"),
         generation' = gen, generation <= gen,
         UNCHANGED <<phase, needs, published, subs, pc, op, flight, events>>, TodoInv'
  PROVE  IInv'
<1>1. PICK l \in Ops, m \in Gens \cup {0} :
        /\ op[p] = l /\ plugins[p] = m /\ l.new = 0 /\ l.old = 0 /\ Referred(p) = {0, m}
        /\ m <= generation
        /\ \A g \in Gens : object[p][g].scope # "closing"
        /\ ObjectInv(p)
  BY RestFacts
<1>2. op' = [op EXCEPT ![p] = l] /\ At(p, "idle")
  BY <1>1, TypeFacts DEF At
<1>3. /\ object' \in [Plugins -> [Gens -> Object]] /\ object'[p][gen] = r
      /\ \A q \in Plugins, h \in Gens : q # p \/ h # gen => object'[q][h] = object[q][h]
      /\ \A q \in Plugins : q # p => object'[q] = object[q]
  BY ObjectFacts
<1>4. BusInv'
  <2>1. PICK o \in Object : object[p][gen] = o /\ o.scope # "open"
    BY AbsentFacts
  <2> QED BY <2>1, BusKept
<1>5. /\ pc'[p] = "idle" /\ op'[p] = l /\ plugins'[p] = managed
      /\ generation \in Nat /\ generation' = gen /\ gen \in Nat
  BY <1>1, <1>2, TypeFacts DEF At, Gens, Managed, Snapshots
<1>6. Referred(p)' = {0, managed} /\ managed \in 0..gen
  BY <1>1, <1>5 DEF Referred, Gens
<1>7. OpInv(p)'
  BY <1>1, <1>5, <1>6, PlaceFacts DEF OpInv, NewPlaces, OldPlaces
<1>8. PlaceInv(p)'
  BY <1>5 DEF PlaceInv
<1>9. ObjectInv(p)'
  <2>1. \A h \in Gens : h # gen => /\ h > gen => object[p][h] = Absent
                                   /\ object[p][h].scope # "closing"
                                   /\ object[p][h].tasks = "running" => object[p][h].scope = "open"
                                   /\ h # managed /\ object[p][h] # Absent =>
                                        /\ object[p][h].state = "stopped"
                                        /\ object[p][h].scope \in {"none", "closed"}
    BY <1>1, <1>5 DEF ObjectInv, Gens
  <2> QED BY <1>3, <1>5, <1>6, <2>1 DEF ObjectInv, Gens
<1>10. PluginInv(p)'
  BY <1>7, <1>8, <1>9 DEF PluginInv
<1>11. /\ subs' \subseteq Names \X Owner /\ published' \in Snapshots /\ "idle" \in Places
       /\ generation' \in 0..MaxGen /\ generation' >= generation
  BY <1>5, BoundAssumption DEF IInv, TypeOK, Places, Gens
<1> QED BY <1>2, <1>3, <1>4, <1>10, <1>11, OfOnePlugin

LEMMA ReloadImportFailsStep == ASSUME IInv, NEW p \in Plugins, ReloadImportFails(p) PROVE IInv'
<1>1. /\ phase # "boot" /\ pc[p] = "idle" /\ generation < MaxGen /\ generation' = generation + 1
      /\ UNCHANGED <<phase, needs, todo, plugins, published, subs, pc, op, flight, events>>
  BY DEF ReloadImportFails, MayReload, work, bus
<1>2. PICK gen \in Gens : gen = generation + 1 /\ gen > generation
  BY <1>1, TypeFacts, BoundAssumption DEF Gens
<1>3. object[p][gen] = Absent
  BY <1>2, PlaceFacts DEF ObjectInv
<1>4. PICK r \in Object : /\ r = [Absent EXCEPT !.state = "stopped"]
                          /\ r.scope = "none" /\ r.tasks = "none" /\ r.state = "stopped"
  BY AbsentFacts DEF States
<1>5. object' = ObjectSet(<<p, gen>>, r) /\ r.scope = "none" /\ r.tasks = "none" /\ r.state = "stopped"
  BY <1>2, <1>4 DEF ReloadImportFails
<1>6. PICK managed \in Gens \cup {0} : managed = plugins[p]
  BY PlaceFacts
<1>7. plugins' = Managed(p, managed)
  BY <1>1, <1>6, KeptFacts
<1>8. TodoInv'
  BY <1>1, TodoKept
<1>9. generation <= gen /\ generation' = gen
  BY <1>1, <1>2, TypeFacts DEF Gens
<1> QED BY <1>1, <1>3, <1>5, <1>6, <1>7, <1>8, <1>9, ImportFailing

\* The next candidate, and those after it.
LEMMA Candidate ==
  ASSUME IInv, phase = "boot", todo # <<>>
  PROVE  /\ Head(todo) \in Plugins /\ generation = 1 /\ 1 \in Gens
         /\ pc[Head(todo)] = "idle" /\ plugins[Head(todo)] = 0 /\ object[Head(todo)][1] = Absent
         /\ Tail(todo) \in Seq(Plugins) /\ Distinct(Tail(todo))
         /\ \A i, j \in DOMAIN Tail(todo) : Tail(todo)[j] \in needs[Tail(todo)[i]] => j <= i
         /\ Loaded(Tail(todo)) \cap needs[Head(todo)] = {}
         /\ \A q \in Loaded(Tail(todo)) : q \in Loaded(todo) /\ q # Head(todo) /\ q \in Plugins
<1>1. /\ todo \in Seq(Plugins) /\ Distinct(todo)
      /\ \A i, j \in DOMAIN todo : todo[j] \in needs[todo[i]] => j <= i
  BY DEF IInv, TodoInv
<1>2. Head(todo) = todo[1] /\ 1 \in DOMAIN todo /\ Len(todo) >= 1
  BY <1>1
<1>3. Head(todo) \in Loaded(todo) /\ Head(todo) \in Plugins
  BY <1>1, <1>2 DEF Loaded
<1>4. /\ Tail(todo) \in Seq(Plugins)
      /\ \A i \in DOMAIN Tail(todo) : Tail(todo)[i] = todo[i + 1] /\ i + 1 \in DOMAIN todo /\ i \in Nat \ {0}
  BY <1>1, <1>2
<1>5. Distinct(Tail(todo))
  BY <1>1, <1>4 DEF Distinct
<1>6. \A q \in Loaded(Tail(todo)) : q \in Loaded(todo) /\ q # Head(todo) /\ q \in Plugins
  BY <1>1, <1>2, <1>4 DEF Loaded, Distinct
<1>7. 1 \in Gens
  BY BoundAssumption DEF Gens
<1>8. \A i, j \in DOMAIN Tail(todo) : Tail(todo)[j] \in needs[Tail(todo)[i]] => j <= i
  <2> SUFFICES ASSUME NEW i \in DOMAIN Tail(todo), NEW j \in DOMAIN Tail(todo),
                      Tail(todo)[j] \in needs[Tail(todo)[i]]
               PROVE  j <= i
    OBVIOUS
  <2>1. j + 1 <= i + 1
    BY <1>1, <1>4
  <2> QED BY <1>4, <2>1
<1>9. ASSUME NEW q \in Loaded(Tail(todo)), q \in needs[Head(todo)] PROVE FALSE
  <2>1. PICK j \in DOMAIN Tail(todo) : q = Tail(todo)[j]
    <3>1. PICK t \in Seq(Plugins) : t = Tail(todo)
      BY <1>4
    <3>2. PICK j \in 1..Len(t) : q = t[j]
      BY <1>9, <3>1 DEF Loaded
    <3>3. DOMAIN t = 1..Len(t)
      OBVIOUS
    <3> QED BY <3>1, <3>2, <3>3
  <2>2. j + 1 <= 1
    BY <1>1, <1>2, <1>4, <1>9, <2>1
  <2> QED BY <1>4, <2>2
<1> QED BY <1>3, <1>4, <1>5, <1>6, <1>7, <1>8, <1>9 DEF IInv, TodoInv

\* The boot takes its next candidate, which is after all it depends on.
LEMMA BootNextStep == ASSUME IInv, BootNext PROVE IInv'
<1>1. phase = "boot" /\ todo # <<>>
  BY DEF BootNext
<1>2. PICK p \in Plugins, gen \in Gens :
        /\ p = Head(todo) /\ gen = generation /\ gen = 1
        /\ pc[p] = "idle" /\ plugins[p] = 0 /\ object[p][gen] = Absent
  BY <1>1, Candidate
<1>3. PICK v \in Packages(p) : Create(p, v, 0, gen)
  BY <1>2 DEF BootNext
<1>4. Create(p, v, plugins[p], gen) /\ generation <= gen /\ (phase = "boot" => plugins[p] = 0)
  BY <1>2, <1>3
<1>5. UNCHANGED <<phase, needs, generation, plugins, published, subs, flight, events>>
  BY DEF BootNext, bus
<1>6. TodoInv'
  <2>1. todo' = Tail(todo)
    BY DEF BootNext
  <2>2. ASSUME NEW q \in Loaded(Tail(todo))
        PROVE  pc'[q] = "idle" /\ plugins'[q] = 0 /\ object'[q][1] = Absent
    <3>1. q \in Plugins /\ q # p /\ pc[q] = "idle" /\ plugins[q] = 0 /\ object[q][1] = Absent
      BY <1>1, <1>2, Candidate DEF IInv, TodoInv
    <3>2. pc'[q] = pc[q] /\ object'[q] = object[q]
      BY <1>3, <3>1, TypeFacts DEF Create, At, ObjectSet, IInv, TypeOK
    <3> QED BY <1>5, <3>1, <3>2
  <2> QED BY <1>1, <1>2, <1>5, <2>1, <2>2, Candidate DEF TodoInv
<1>7. generation' = gen
  BY <1>2, <1>5
<1> QED BY <1>2, <1>4, <1>5, <1>6, <1>7, Creating

LEMMA BootImportFailsStep == ASSUME IInv, BootImportFails PROVE IInv'
<1>1. phase = "boot" /\ todo # <<>>
  BY DEF BootImportFails
<1>2. PICK p \in Plugins, gen \in Gens :
        /\ p = Head(todo) /\ gen = generation /\ gen = 1
        /\ pc[p] = "idle" /\ plugins[p] = 0 /\ object[p][gen] = Absent
  BY <1>1, Candidate
<1>3. PICK r \in Object : /\ r = [Absent EXCEPT !.state = "failed"]
                          /\ r.scope = "none" /\ r.tasks = "none" /\ r.state = "failed"
  BY AbsentFacts DEF States
<1>4. /\ object' = ObjectSet(<<p, gen>>, r) /\ r.scope = "none" /\ r.tasks = "none"
      /\ plugins' = Managed(p, gen) /\ todo' = Tail(todo)
      /\ UNCHANGED <<phase, needs, generation, published, subs, pc, op, flight, events>>
  BY <1>2, <1>3 DEF BootImportFails, work, bus
<1>5. TodoInv'
  <2>1. ASSUME NEW q \in Loaded(Tail(todo))
        PROVE  pc'[q] = "idle" /\ plugins'[q] = 0 /\ object'[q][1] = Absent
    <3>1. q \in Plugins /\ q # p /\ pc[q] = "idle" /\ plugins[q] = 0 /\ object[q][1] = Absent
      BY <1>1, <1>2, Candidate DEF IInv, TodoInv
    <3>2. plugins'[q] = plugins[q] /\ object'[q] = object[q]
      BY <1>4, <3>1, TypeFacts DEF Managed, ObjectSet, Snapshots, IInv, TypeOK
    <3> QED BY <1>4, <3>1, <3>2
  <2> QED BY <1>1, <1>2, <1>4, <2>1, Candidate DEF TodoInv
<1>6. generation <= gen /\ generation' = gen /\ gen \in Gens \cup {0} /\ plugins[p] \in {0, gen}
  <2>1. generation = 1 /\ gen = 1 /\ plugins[p] = 0
    BY <1>2
  <2>2. generation' = generation
    BY <1>4
  <2> QED BY <2>1, <2>2
<1> QED BY <1>2, <1>4, <1>5, <1>6, ImportFailing

-----------------------------------------------------------------------------
\* The whole.

\* The first state: nothing is loaded, and the candidates are in load order.
LEMMA InitInv == ASSUME Init PROVE IInv
<1>1. /\ todo \in Seq(Plugins) /\ Distinct(todo)
      /\ \A i, j \in DOMAIN todo : todo[j] \in needs[todo[i]] => j <= i
  <2>1. PICK compatible \in SUBSET Plugins : todo = Resolve(Sorted, Plugins, compatible, needs)
    BY DEF Init
  <2>2. Sorted \in Seq(Plugins) /\ Loaded(Sorted) = Plugins /\ Distinct(Sorted)
    BY OrderAssumption
  <2> QED BY <2>1, <2>2, ResolveFacts
<1>2. Loaded(todo) \subseteq Plugins
  BY <1>1 DEF Loaded
<1>3. \A p \in Plugins, g \in Gens : object[p][g] = Absent
  BY DEF Init
<1>4. \A p \in Plugins : /\ pc[p] = "idle" /\ plugins[p] = 0
                         /\ op[p].new = 0 /\ op[p].old = 0 /\ Referred(p) = {0}
  BY DEF Init, Idle, None, Referred
<1>5. TypeOK
  <2>1. object \in [Plugins -> [Gens -> Object]]
    BY AbsentFacts DEF Init
  <2>2. op \in [Plugins -> [new: Gens \cup {0}, old: Gens \cup {0}, saved: Snapshots]]
    BY IdleFacts DEF Init, Ops
  <2>3. generation \in 0..MaxGen /\ events \in 0..MaxEvents
    BY BoundAssumption DEF Init
  <2> QED BY <1>2, <2>1, <2>2, <2>3 DEF Init, TypeOK, None, Snapshots
<1>6. TodoInv
  <2>1. 1 \in Gens /\ generation = 1
    BY BoundAssumption DEF Init, Gens
  <2> QED BY <1>1, <1>2, <1>3, <1>4, <2>1 DEF TodoInv
<1>7. BusInv
  BY DEF Init, BusInv, OneEach
<1>8. ASSUME NEW p \in Plugins PROVE PluginInv(p)
  <2>1. OpInv(p)
    BY <1>4 DEF OpInv, NewPlaces, OldPlaces, Init
  <2>2. PlaceInv(p)
    BY <1>4 DEF PlaceInv
  <2>3. ObjectInv(p)
    BY <1>3, AbsentFacts DEF ObjectInv
  <2> QED BY <2>1, <2>2, <2>3 DEF PluginInv
<1> QED BY <1>5, <1>6, <1>7, <1>8 DEF IInv

\* Every step.
LEMMA NextInv == ASSUME IInv, [Next]_vars PROVE IInv'
<1>1. CASE UNCHANGED vars
  <2>1. /\ UNCHANGED <<phase, needs, todo, generation, object, plugins, published, subs>>
        /\ UNCHANGED <<pc, op, flight, events>>
    BY <1>1 DEF vars, work, bus
  <2>2. TypeOK'
    BY <2>1 DEF IInv, TypeOK
  <2>3. BusInv'
    BY <2>1 DEF IInv, BusInv, OneEach, The
  <2>4. TodoInv'
    BY <2>1, TodoKept
  <2>5. \A p \in Plugins : PluginInv(p)'
    BY <2>1, PluginsAlone
  <2> QED BY <2>2, <2>3, <2>4, <2>5 DEF IInv
<1>2. CASE BootNext \/ BootImportFails \/ BootPublish
  BY <1>2, BootNextStep, BootImportFailsStep, BootPublishStep
<1>3. ASSUME NEW p \in Plugins, Continue(p) PROVE IInv'
  BY <1>3, RegisterStep, PrepareFailsStep, SetupDoneStep, HookFailsStep, StartDoneStep,
     CompensatedStep, UndrainedStep, StopFailedStep, FailedDrainedStep, StopOldStep, DrainedStep
     DEF Continue
<1>4. ASSUME NEW p \in Plugins, Reload(p) \/ ReloadImportFails(p) \/ Remove(p)
      PROVE  IInv'
  BY <1>4, ReloadStep, ReloadImportFailsStep, RemoveStep
<1>5. ASSUME NEW p \in Plugins, StartTask(p) \/ ShutDownNext(p)
      PROVE  IInv'
  BY <1>5, StartTaskStep, ShutDownNextStep
<1>6. CASE Arrive \/ Handle \/ ShutDown \/ ShutDownDone
  BY <1>6, ArriveStep, HandleStep, ShutDownStep, ShutDownDoneStep
<1> QED BY <1>1, <1>2, <1>3, <1>4, <1>5, <1>6 DEF Next

LEMMA SpecInv == Spec => []IInv
<1>1. Init => IInv
  BY InitInv
<1>2. IInv /\ [Next]_vars => IInv'
  BY NextInv
<1> QED BY <1>1, <1>2, PTL DEF Spec

\* Every variable has its type in every state: the objects of a plugin its record
\* of state, scope and tasks, each operation under way its two objects.
THEOREM PluginTypeCorrect == Spec => []TypeOK
<1>1. IInv => TypeOK
  BY DEF IInv
<1> QED BY <1>1, SpecInv, PTL

\* SubscriptionScope.close() takes all of a plugin's subscriptions off the bus,
\* though it goes by name and others may have subscribed the same names before it
\* or since: a subscription is always of an object whose scope is open.
THEOREM PluginClosedScopeIsSilent == Spec => []ClosedScopeIsSilent
<1>1. IInv => ClosedScopeIsSilent
  BY DEF IInv, BusInv, ClosedScopeIsSilent, The
<1> QED BY <1>1, SpecInv, PTL

\* Whatever fails in a reload or a boot and wherever: once the operation is over,
\* every generation that is not the managed one is stopped, its scope closed and
\* its tasks not running.
THEOREM PluginRetiredIsStopped == Spec => []RetiredIsStopped
<1>1. IInv => RetiredIsStopped
  <2> SUFFICES ASSUME IInv, NEW p \in Plugins, NEW g \in Gens,
                      Settled(p), g # plugins[p], object[p][g] # Absent
               PROVE  /\ object[p][g].state = "stopped"
                      /\ object[p][g].scope \in {"none", "closed"}
                      /\ object[p][g].tasks # "running"
    BY DEF RetiredIsStopped
  <2>1. pc[p] = "idle"
    BY DEF Settled
  <2>2. g \notin Referred(p) /\ ObjectInv(p)
    BY <2>1, RestFacts DEF Gens
  <2> QED BY <2>2 DEF ObjectInv
<1> QED BY <1>1, SpecInv, PTL

\* subscribe() replaces the subscription of a name, so dispatch()'s copy has one
\* per name: no reload makes two generations handle one event under one name.
THEOREM PluginEventHasOneGeneration == Spec => []EventHasOneGeneration
<1>1. IInv => EventHasOneGeneration
  BY DEF IInv, BusInv, OneEach, EventHasOneGeneration
<1> QED BY <1>1, SpecInv, PTL

\* TopologyResolver.resolve: whatever the manifests say, cycles included, a boot
\* activates a plugin only when no dependency of it is left among the candidates.
THEOREM PluginDependenciesFirst == Spec => DependenciesFirst
<1>1. IInv /\ [Next]_vars =>
        [\A p \in Plugins :
           phase = "boot" /\ pc[p] = "idle" /\ pc'[p] # "idle" =>
             Loaded(todo') \cap needs[p] \subseteq {p}]_vars
  <2> SUFFICES ASSUME IInv, Next, NEW p \in Plugins,
                      phase = "boot", pc[p] = "idle", pc'[p] # "idle"
               PROVE  Loaded(todo') \cap needs[p] \subseteq {p}
    BY Zenon
  <2>1. CASE BootNext
    <3>1. todo # <<>> /\ todo' = Tail(todo) /\ pc' = [pc EXCEPT ![Head(todo)] = "prepare"]
      BY <2>1 DEF BootNext, Create, At
    <3>2. p = Head(todo)
      BY <3>1, TypeFacts
    <3> QED BY <3>1, <3>2, Candidate
  <2>2. ASSUME NEW q \in Plugins, Continue(q) PROVE FALSE
    <3>1. pc[q] # "idle"
      BY <2>2 DEF Continue, Register, PrepareFails, SetupDone, HookFails, StartDone, Compensated,
                  Undrained, StopFailed, FailedDrained, StopOld, Drained
    <3>2. \E place \in Places : pc' = [pc EXCEPT ![q] = place]
      BY <2>2 DEF Continue, Register, PrepareFails, SetupDone, HookFails, StartDone, Compensated,
                  Undrained, StopFailed, FailedDrained, StopOld, Drained, At, Restore, Places,
                  NewPlaces, OldPlaces
    <3> QED BY <3>1, <3>2, TypeFacts
  <2>3. ASSUME NEW q \in Plugins, Reload(q) \/ ReloadImportFails(q) \/ Remove(q) PROVE FALSE
    BY <2>3 DEF Reload, ReloadImportFails, Remove, MayReload
  <2>4. ASSUME NEW q \in Plugins, StartTask(q) \/ ShutDownNext(q) PROVE FALSE
    BY <2>4 DEF StartTask, ShutDownNext, work
  <2>5. CASE BootImportFails \/ BootPublish \/ Arrive \/ Handle \/ ShutDown \/ ShutDownDone
    BY <2>5 DEF BootImportFails, BootPublish, Arrive, Handle, ShutDown, ShutDownDone, work
  <2> QED BY <2>1, <2>2, <2>3, <2>4, <2>5 DEF Next
<1> QED BY <1>1, SpecInv, PTL DEF Spec, DependenciesFirst

=============================================================================
