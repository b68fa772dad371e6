--------------------------- MODULE LazyInitProofs ---------------------------
(***************************************************************************)
(* The lazy start of the runtime is right for any threads, any generated    *)
(* files and any interleaving.                                              *)
(*                                                                          *)
(* The invariant has three layers.  What one thread still has to do is well *)
(* ordered (Orderly): a step that needs a pointer comes after one that sets *)
(* it, once objects are asked for inside closures of a higher level only,   *)
(* tables are touched under the mutex just taken.  Each body that replaces  *)
(* a call keeps that order (Replaces), which is shown body by body and      *)
(* lifted to every sequence by the Splice lemmas.  Across the threads, a    *)
(* closure that is being executed is one thread's (Objects), a mutex is one *)
(* thread's (Exclusive), and what is listed for shutdown, registered or     *)
(* still to be added is so once (Noted, Unique, Starting, Started).         *)
(***************************************************************************)
EXTENDS LazyInit, FiniteSetTheorems, FunctionTheorems, SequenceTheorems, TLAPS

Pool == "generated_pool"
Factory == "generated_factory"
List == "shutdown_functions"

Steps ==
    [do : {"once", "swap", "spin", "make", "done", "use"}, on : Onces]
    \union [do : {"lock", "unlock"}, on : Singletons]
    \union [do : {"encode", "file", "adddesc", "find", "peek", "register", "type"}, on : Files]
    \union [do : {"push"}, on : Onces \ {List}]
    \union [do : {"main"}, on : {Main}]

All(x) == {x[i] : i \in DOMAIN x}
Rest(x) == {x[i] : i \in 2 .. Len(x)}
Is(s, do, on) == s.do = do /\ s.on = on

-----------------------------------------------------------------------------
(* What one thread has to do is well ordered, M being the pointers that are *)
(* set and L the mutexes it holds.                                          *)

\* What a step needs, and what a closure must have made when it is done.
Wants(s) == IF s.do = "done" THEN {s.on} ELSE Needs(s)

\* After this step its pointer is set.
Gives(s, o) == s.on = o /\ s.do \in {"once", "swap", "spin", "make"}

Met(x, M) ==
    \A i \in DOMAIN x : \A o \in Wants(x[i]) : o \in M \/ \E j \in 1 .. i - 1 : Gives(x[j], o)

\* A thread swaps or spins now, not later.
Fresh(x) == \A i \in DOMAIN x : x[i].do \in {"swap", "spin"} => i = 1

\* Which once objects a closure may ask for: those of a lower level.
Rank(o) == IF o = List THEN 1 ELSE IF o \in Files THEN 4 ELSE 2
Level(s) ==
    CASE s.do \in {"once", "swap", "spin", "done"} -> Rank(s.on)
      [] s.do = "adddesc" -> 3
      [] s.do \in {"peek", "register"} -> 5
      [] OTHER -> 0

Nested(x) == \A i, k \in DOMAIN x : i < k /\ x[k].do = "done" => Level(x[i]) < Level(x[k])

\* What belongs to a closure comes before its end, and what is made is listed.
Within(x) ==
    \A i \in DOMAIN x :
        /\ x[i].do = "make" => \E k \in DOMAIN x : i < k /\ x[k] = Step("done", x[i].on)
        /\ x[i].do = "push" /\ x[i].on \in Singletons =>
              \E k \in DOMAIN x : i < k /\ x[k] = Step("done", x[i].on)
        /\ x[i].do = "make" /\ x[i].on \in {Pool, Factory} =>
              \E k \in DOMAIN x : i < k /\ x[k] = Step("push", x[i].on)

Single(x) ==
    \A i, k \in DOMAIN x : i < k /\ x[i].do = "push" /\ x[i].on \in Singletons => x[k] # x[i]

\* The mutex over the table a step touches.
Mutex(s) ==
    CASE s.do = "find" -> Pool
      [] s.do = "push" -> List
      [] OTHER -> Factory

Guarded(x, L) ==
    \A i \in DOMAIN x : x[i].do \in {"find", "push", "peek", "register"} =>
        IF i = 1 THEN Mutex(x[i]) \in L ELSE Is(x[i - 1], "lock", Mutex(x[i]))

\* Types are registered before the factory's mutex is let go, one file a call.
Registers(x, L) ==
    \A i \in DOMAIN x :
        /\ x[i].do = "peek" => i = Len(x)
        /\ x[i].do = "register" => i = Len(x) - 1
        /\ x[i].do = "type" =>
              /\ i = Len(x) - 1
              /\ Factory \in L
              /\ \A k \in 1 .. i - 1 : ~ Is(x[k], "unlock", Factory)

Orderly(x, M, L) ==
    /\ Met(x, M) /\ Fresh(x) /\ Nested(x) /\ Within(x) /\ Single(x)
    /\ Guarded(x, L) /\ Registers(x, L)

Holds(t) == {m \in Singletons : t \in holder[m]}

-----------------------------------------------------------------------------
(* What the threads have to do together.                                    *)
Typed ==
    /\ once \in [Onces -> {"uninitialized", "executing", "done"}]
    /\ made \subseteq Onces
    /\ holder \in [Singletons -> SUBSET Threads]
    /\ todo \in [Threads -> Seq(Steps)]
    /\ started \in BOOLEAN /\ ended \in BOOLEAN
    /\ database \in Seq(Files) /\ fileMap \in Seq(Files)
    /\ built \in Seq(Files) /\ typeMap \in Seq(Files)
    /\ shutdown \in Seq(Onces \ {List})

InOrder == \A t \in Threads : Orderly(todo[t], made, Holds(t))

\* A closure being executed is one thread's, and what is done is made.
Objects ==
    /\ \A t \in Threads, o \in Onces :
          /\ Doing(t, o, "done") => once[o] = "executing"
          /\ Doing(t, o, "spin") => once[o] # "uninitialized"
    /\ \A t, u \in Threads, o \in Onces : Doing(t, o, "done") /\ Doing(u, o, "done") => t = u
    /\ \A o \in Onces :
          /\ once[o] = "executing" => \E t \in Threads : Doing(t, o, "done")
          /\ once[o] = "done" /\ ~ ended => o \in made
          /\ o \in made => once[o] # "uninitialized"

Exclusive == \A m \in Singletons : \A t, u \in holder[m] : t = u

Unique ==
    /\ IsInjective(database) /\ IsInjective(fileMap) /\ IsInjective(built)
    /\ IsInjective(typeMap) /\ IsInjective(shutdown)

NewTypes == \A t \in Threads, f \in Files : Doing(t, f, "type") => f \notin ToSet(typeMap)

\* The pool and the factory are listed for shutdown by their own closures.
Noted ==
    /\ \A o \in {Pool, Factory} :
          /\ \A t \in Threads : Doing(t, o, "push") => o \notin ToSet(shutdown)
          /\ o \in ToSet(shutdown) => once[o] # "uninitialized"
          /\ o \in made => o \in ToSet(shutdown) \/ \E t \in Threads : Doing(t, o, "push")
    /\ shutdown # <<>> => List \in made

Finished ==
    ended =>
        /\ started /\ made = {} /\ shutdown = <<>> /\ once[List] = "done"
        /\ \A t \in Threads : todo[t] = <<>>

-----------------------------------------------------------------------------
(* Static initialization: each file is still to be added, or was.           *)
Adds(s, a, f) == Is(s, "adddesc", f) \/ Is(s, a, f)

Table(a) == CASE a = "encode" -> database [] a = "file" -> fileMap [] OTHER -> shutdown

AddedOnce(x) ==
    \A a \in {"encode", "file", "push"}, f \in Files : \A i, k \in DOMAIN x :
        i < k /\ Adds(x[i], a, f) => ~ Adds(x[k], a, f)

Static(s) ==
    \/ s.do \in {"adddesc", "encode", "file", "push", "lock", "unlock", "main"}
    \/ s.do \in {"once", "swap", "spin", "make", "done"} /\ s.on \in Singletons

Begun(x) ==
    /\ x # <<>> /\ AddedOnce(x)
    /\ \A i \in DOMAIN x : Static(x[i]) /\ (x[i].do = "main" <=> i = Len(x))

Starting ==
    ~ started =>
        /\ \A t \in Threads \ {Main} : todo[t] = <<>>
        /\ Begun(todo[Main])
        /\ \A a \in {"encode", "file", "push"}, f \in Files :
              f \in ToSet(Table(a)) <=> \A s \in All(todo[Main]) : ~ Adds(s, a, f)

AfterStart(s) == s.do \notin {"encode", "file", "main"} /\ ~ (s.do = "push" /\ s.on \in Files)

Started ==
    started =>
        /\ \A t \in Threads : \A s \in All(todo[t]) : AfterStart(s)
        /\ ~ ended => Files \subseteq ToSet(shutdown)
        /\ Files \subseteq ToSet(database) /\ Files \subseteq ToSet(fileMap)

LazyInv ==
    /\ Typed /\ InOrder /\ Objects /\ Exclusive /\ Unique /\ NewTypes /\ Noted /\ Finished
    /\ Starting /\ Started

-----------------------------------------------------------------------------
(* The steps of a body take the place of the one that called it.            *)
Splice(S, x) == S \o Tail(x)

LEMMA SpliceAt ==
    ASSUME NEW x \in Seq(Steps), x # <<>>, NEW S \in Seq(Steps)
    PROVE  /\ Splice(S, x) \in Seq(Steps)
           /\ Len(Splice(S, x)) = Len(S) + Len(x) - 1
           /\ DOMAIN Splice(S, x) = 1 .. Len(S) + Len(x) - 1
           /\ Len(x) \in Nat \ {0} /\ Len(S) \in Nat
           /\ DOMAIN x = 1 .. Len(x) /\ DOMAIN S = 1 .. Len(S)
           /\ 1 \in DOMAIN x /\ Head(x) = x[1]
           /\ \A i \in DOMAIN x : i \in Nat /\ x[i] \in Steps
           /\ \A i \in DOMAIN S : i \in Nat /\ S[i] \in Steps
           /\ \A i \in DOMAIN Splice(S, x) : i \in Nat
           /\ \A i \in 1 .. Len(S) : Splice(S, x)[i] = S[i]
           /\ \A i \in 2 .. Len(x) : Splice(S, x)[Len(S) + i - 1] = x[i]
BY DEF Splice

LEMMA SpliceOf ==
    ASSUME NEW x \in Seq(Steps), x # <<>>, NEW S \in Seq(Steps),
           NEW i \in DOMAIN Splice(S, x)
    PROVE  \/ i \in 1 .. Len(S) /\ Splice(S, x)[i] = S[i]
           \/ /\ i - Len(S) + 1 \in 2 .. Len(x)
              /\ Splice(S, x)[i] = x[i - Len(S) + 1]
<1> DEFINE y == Splice(S, x)
           m == Len(S)
           n == Len(x)
<1>1. /\ i \in 1 .. m + n - 1 /\ m \in Nat /\ n \in Nat \ {0}
      /\ \A k \in 1 .. m : y[k] = S[k]
      /\ \A k \in 2 .. n : y[m + k - 1] = x[k]
    BY SpliceAt
<1> HIDE DEF y, m, n
<1>2. CASE i > m
  <2> DEFINE k == i - m + 1
  <2>1. k \in 2 .. n /\ m + k - 1 = i
      BY <1>1, <1>2
  <2>2. y[m + k - 1] = x[k]
      BY <2>1, <1>1
  <2> QED BY <2>1, <2>2 DEF y, m, n
<1>3. CASE ~ (i > m)
  <2>1. i \in 1 .. m
      BY <1>1, <1>3
  <2> QED BY <2>1, <1>1 DEF y, m
<1> QED BY <1>2, <1>3

LEMMA SpliceAll ==
    ASSUME NEW x \in Seq(Steps), x # <<>>, NEW S \in Seq(Steps)
    PROVE  /\ All(Splice(S, x)) = All(S) \union Rest(x)
           /\ All(x) = {Head(x)} \union Rest(x)
           /\ Rest(x) \subseteq Steps
<1>1. All(x) = {Head(x)} \union Rest(x) /\ Rest(x) \subseteq Steps
    BY DEF All, Rest
<1>2. ASSUME NEW s \in All(Splice(S, x)) PROVE s \in All(S) \union Rest(x)
  <2>1. PICK i \in DOMAIN Splice(S, x) : s = Splice(S, x)[i]
      BY DEF All
  <2>2. CASE i \in 1 .. Len(S) /\ Splice(S, x)[i] = S[i]
      BY <2>1, <2>2 DEF All
  <2>3. CASE i - Len(S) + 1 \in 2 .. Len(x) /\ Splice(S, x)[i] = x[i - Len(S) + 1]
      BY <2>1, <2>3 DEF Rest
  <2> QED BY <2>2, <2>3, SpliceOf
<1>3. ASSUME NEW s \in All(S) PROVE s \in All(Splice(S, x))
  <2>1. PICK i \in 1 .. Len(S) : s = S[i]
      BY DEF All
  <2>2. Splice(S, x)[i] = s
      BY <2>1, SpliceAt
  <2>3. i \in 1 .. Len(S) + Len(x) - 1
      BY SpliceAt
  <2>4. DOMAIN Splice(S, x) = 1 .. Len(S) + Len(x) - 1
      BY SpliceAt
  <2> QED BY <2>2, <2>3, <2>4 DEF All
<1>4. ASSUME NEW s \in Rest(x) PROVE s \in All(Splice(S, x))
  <2>1. PICK i \in 2 .. Len(x) : s = x[i]
      BY DEF Rest
  <2>2. Splice(S, x)[Len(S) + i - 1] = s
      BY <2>1, SpliceAt
  <2>3. Len(S) \in Nat /\ Len(x) \in Nat /\ DOMAIN Splice(S, x) = 1 .. Len(S) + Len(x) - 1
      BY SpliceAt
  <2>4. Len(S) + i - 1 \in 1 .. Len(S) + Len(x) - 1
      BY <2>3
  <2> QED BY <2>2, <2>3, <2>4 DEF All
<1> QED BY <1>1, <1>2, <1>3, <1>4

-----------------------------------------------------------------------------
(* When a body S may replace a step s: M2 and L2 are the pointers set and   *)
(* the mutexes held afterwards, L the mutexes held before.                  *)
KeepsMet(S, s, M2) ==
    /\ Met(S, M2)
    /\ \A o \in Onces : Gives(s, o) => o \in M2 \/ \E j \in DOMAIN S : Gives(S[j], o)

KeepsNested(S, s) == Nested(S) /\ \A j \in DOMAIN S : Level(S[j]) <= Level(s)

KeepsSingle(S, s) ==
    /\ Single(S)
    /\ \A j \in DOMAIN S : S[j].do = "push" /\ S[j].on \in Singletons => s = Step("swap", S[j].on)

KeepsGuarded(S, s, L2) ==
    /\ Guarded(S, {})
    /\ s.do = "lock" => S = <<>> /\ s.on \in L2

KeepsRegisters(S, s, L, L2) ==
    /\ \A j \in DOMAIN S :
          /\ S[j].do # "peek"
          /\ S[j].do = "register" => s.do = "peek" /\ j = Len(S) - 1
          /\ S[j].do = "type" =>
                /\ s.do = "register" /\ j = Len(S) /\ Factory \in L2
          /\ s.do # "peek" => ~ Is(S[j], "unlock", Factory)
    /\ Factory \in L /\ ~ Is(s, "unlock", Factory) => Factory \in L2

Replaces(S, s, M2, L, L2) ==
    /\ KeepsMet(S, s, M2) /\ Fresh(S) /\ KeepsNested(S, s) /\ Within(S) /\ KeepsSingle(S, s)
    /\ KeepsGuarded(S, s, L2) /\ KeepsRegisters(S, s, L, L2)

LEMMA WantsOnces ==
    ASSUME LazyAssumption, NEW s \in Steps
    PROVE  Wants(s) \subseteq Onces
BY DEF LazyAssumption, Wants, Needs, Steps, Onces, Singletons

LEMMA SpliceMet ==
    ASSUME LazyAssumption, NEW x \in Seq(Steps), x # <<>>, NEW S \in Seq(Steps),
           NEW M, NEW M2, M \subseteq M2, Met(x, M), KeepsMet(S, Head(x), M2)
    PROVE  Met(Splice(S, x), M2)
<1> DEFINE y == Splice(S, x)
           m == Len(S)
           n == Len(x)
<1>1. /\ m \in Nat /\ n \in Nat \ {0} /\ DOMAIN y = 1 .. m + n - 1
      /\ DOMAIN S = 1 .. m /\ DOMAIN x = 1 .. n
      /\ \A k \in 1 .. m : y[k] = S[k]
      /\ \A k \in 2 .. n : y[m + k - 1] = x[k]
    BY SpliceAt
<1>2. SUFFICES ASSUME NEW i \in DOMAIN y, NEW o \in Wants(y[i]), o \notin M2
               PROVE  \E j \in 1 .. i - 1 : Gives(y[j], o)
    BY DEF Met
<1>3. \/ i \in 1 .. m /\ y[i] = S[i]
      \/ i - m + 1 \in 2 .. n /\ y[i] = x[i - m + 1]
    BY SpliceOf
<1>4. Head(x) = x[1]
    OBVIOUS
<1>5. x[i - m + 1] \in Steps \/ i - m + 1 \notin 2 .. n
    BY <1>1
<1> HIDE DEF y, m, n
<1>6. CASE i \in 1 .. m /\ y[i] = S[i]
  <2>1. PICK j \in 1 .. i - 1 : Gives(S[j], o)
      BY <1>1, <1>2, <1>6 DEF KeepsMet, Met
  <2>2. j \in 1 .. m
      BY <1>1, <1>6
  <2> QED BY <2>1, <2>2, <1>1
<1>7. CASE i - m + 1 \in 2 .. n /\ y[i] = x[i - m + 1]
  <2> DEFINE k == i - m + 1
  <2>1. k \in 2 .. n /\ k \in 1 .. n /\ i = m + k - 1 /\ i \in Nat
      BY <1>1, <1>7, <1>2
  <2>2. PICK j \in 1 .. k - 1 : Gives(x[j], o)
      BY <2>1, <1>1, <1>2, <1>7 DEF Met
  <2> HIDE DEF k
  <2>3. CASE j = 1
    <3>1. o \in Onces
        BY <1>5, <1>7, <1>2, WantsOnces
    <3>2. PICK h \in 1 .. m : Gives(S[h], o)
        BY <2>2, <2>3, <3>1, <1>1, <1>2, <1>4 DEF KeepsMet
    <3>3. h \in 1 .. i - 1 /\ y[h] = S[h]
        BY <1>1, <2>1
    <3> QED BY <3>2, <3>3
  <2>4. CASE j # 1
    <3>1. j \in 2 .. n /\ m + j - 1 \in 1 .. i - 1
        BY <2>1, <2>4, <1>1
    <3> QED BY <3>1, <2>2, <1>1
  <2> QED BY <2>3, <2>4
<1> QED BY <1>3, <1>6, <1>7

LEMMA SpliceFrom ==
    ASSUME NEW x \in Seq(Steps), x # <<>>, NEW S \in Seq(Steps),
           NEW i \in DOMAIN Splice(S, x)
    PROVE  \/ i \in DOMAIN S /\ i <= Len(S) /\ i >= 1 /\ Splice(S, x)[i] = S[i]
           \/ \E k \in DOMAIN x :
                 k \in Nat /\ k > 1 /\ i = Len(S) + k - 1 /\ Splice(S, x)[i] = x[k]
<1>1. /\ Len(S) \in Nat /\ Len(x) \in Nat /\ i \in Nat
      /\ DOMAIN x = 1 .. Len(x) /\ DOMAIN S = 1 .. Len(S)
    BY SpliceAt
<1> DEFINE m == Len(S)
           n == Len(x)
           k == i - m + 1
<1> HIDE DEF m, n, k
<1>2. CASE k \in 2 .. n /\ Splice(S, x)[i] = x[k]
  <2>1. k \in Nat /\ k > 1 /\ i = m + k - 1 /\ k \in 1 .. n
      BY <1>1, <1>2 DEF k, m, n
  <2> QED BY <2>1, <1>1, <1>2 DEF m, n
<1>3. CASE i \in 1 .. Len(S) /\ Splice(S, x)[i] = S[i]
    BY <1>1, <1>3
<1> QED BY <1>2, <1>3, SpliceOf DEF k, m, n

LEMMA SpliceTo ==
    ASSUME NEW x \in Seq(Steps), x # <<>>, NEW S \in Seq(Steps)
    PROVE  /\ \A k \in DOMAIN S : k \in DOMAIN Splice(S, x) /\ Splice(S, x)[k] = S[k]
           /\ \A k \in DOMAIN x : k > 1 =>
                 Len(S) + k - 1 \in DOMAIN Splice(S, x) /\ Splice(S, x)[Len(S) + k - 1] = x[k]
<1> DEFINE y == Splice(S, x)
           m == Len(S)
           n == Len(x)
<1>1. /\ m \in Nat /\ n \in Nat \ {0} /\ DOMAIN y = 1 .. m + n - 1
      /\ DOMAIN S = 1 .. m /\ DOMAIN x = 1 .. n
      /\ \A k \in 1 .. m : y[k] = S[k]
      /\ \A k \in 2 .. n : y[m + k - 1] = x[k]
    BY SpliceAt
<1> HIDE DEF y, m, n
<1>2. ASSUME NEW k \in DOMAIN S PROVE k \in DOMAIN y /\ y[k] = S[k]
    BY <1>1
<1>3. ASSUME NEW k \in DOMAIN x, k > 1 PROVE m + k - 1 \in DOMAIN y /\ y[m + k - 1] = x[k]
    BY <1>1, <1>3
<1> QED BY <1>2, <1>3 DEF y, m

LEMMA SpliceFresh ==
    ASSUME NEW x \in Seq(Steps), x # <<>>, NEW S \in Seq(Steps), Fresh(x), Fresh(S)
    PROVE  Fresh(Splice(S, x))
<1> SUFFICES ASSUME NEW i \in DOMAIN Splice(S, x), Splice(S, x)[i].do \in {"swap", "spin"}
             PROVE  i = 1
    BY DEF Fresh
<1>1. CASE i \in DOMAIN S /\ Splice(S, x)[i] = S[i]
    BY <1>1 DEF Fresh
<1>2. ASSUME NEW k \in DOMAIN x, k \in Nat, k > 1, Splice(S, x)[i] = x[k] PROVE FALSE
    BY <1>2 DEF Fresh
<1> QED BY <1>1, <1>2, SpliceFrom

LEMMA LevelNat == \A s \in Steps : Level(s) \in Nat
BY DEF Level, Rank

LEMMA SpliceNested ==
    ASSUME NEW x \in Seq(Steps), x # <<>>, NEW S \in Seq(Steps),
           Nested(x), KeepsNested(S, Head(x))
    PROVE  Nested(Splice(S, x))
<1> DEFINE y == Splice(S, x)
<1> SUFFICES ASSUME NEW i \in DOMAIN y, NEW k \in DOMAIN y, i < k, y[k].do = "done"
             PROVE  Level(y[i]) < Level(y[k])
    BY DEF Nested
<1>1. /\ Len(S) \in Nat /\ Head(x) = x[1] /\ 1 \in DOMAIN x
      /\ \A j \in DOMAIN x : x[j] \in Steps
      /\ \A j \in DOMAIN S : S[j] \in Steps
    BY SpliceAt
<1>2. CASE k \in DOMAIN S /\ k <= Len(S) /\ k >= 1 /\ y[k] = S[k]
  <2>1. i \in DOMAIN S /\ y[i] = S[i]
    <3>1. ASSUME NEW h \in DOMAIN x, h \in Nat, h > 1, i = Len(S) + h - 1 PROVE FALSE
      <4>1. i \in Nat /\ k \in Nat
          BY SpliceAt
      <4> QED BY <3>1, <4>1, <1>1, <1>2
    <3> QED BY <3>1, SpliceFrom
  <2> QED BY <2>1, <1>2 DEF KeepsNested, Nested
<1>3. ASSUME NEW h \in DOMAIN x, h \in Nat, h > 1, k = Len(S) + h - 1, y[k] = x[h]
      PROVE  Level(y[i]) < Level(y[k])
  <2>1. ASSUME i \in DOMAIN S, y[i] = S[i] PROVE Level(y[i]) < Level(y[k])
    <3>1. Level(S[i]) <= Level(x[1])
        BY <2>1, <1>1 DEF KeepsNested
    <3>2. Level(x[1]) < Level(x[h])
        BY <1>1, <1>3 DEF Nested
    <3>3. Level(S[i]) \in Nat /\ Level(x[1]) \in Nat /\ Level(x[h]) \in Nat
        BY <2>1, <1>1, <1>3, LevelNat
    <3> QED BY <3>1, <3>2, <3>3, <2>1, <1>3
  <2>2. ASSUME NEW j \in DOMAIN x, j \in Nat, j > 1, i = Len(S) + j - 1, y[i] = x[j]
        PROVE  Level(y[i]) < Level(y[k])
    <3>1. j < h
        BY <2>2, <1>3, <1>1
    <3> QED BY <3>1, <2>2, <1>3 DEF Nested
  <2> QED BY <2>1, <2>2, SpliceFrom
<1> QED BY <1>2, <1>3, SpliceFrom

LEMMA SpliceWithin ==
    ASSUME NEW x \in Seq(Steps), x # <<>>, NEW S \in Seq(Steps), Within(x), Within(S)
    PROVE  Within(Splice(S, x))
<1> DEFINE y == Splice(S, x)
           Later(z, i, do) == \E k \in DOMAIN z : i < k /\ z[k] = Step(do, z[i].on)
<1>1. ASSUME NEW i \in DOMAIN y, NEW do, i \in DOMAIN S, y[i] = S[i], Later(S, i, do)
      PROVE  Later(y, i, do)
    BY <1>1, SpliceTo
<1>2. ASSUME NEW i \in DOMAIN y, NEW do,
             NEW h \in DOMAIN x, h \in Nat, h > 1, i = Len(S) + h - 1, y[i] = x[h], Later(x, h, do)
      PROVE  Later(y, i, do)
  <2>1. PICK k \in DOMAIN x : h < k /\ x[k] = Step(do, x[h].on)
      BY <1>2
  <2>2. k \in Nat /\ Len(S) \in Nat
      BY SpliceAt
  <2>3. k > 1 /\ i < Len(S) + k - 1
      BY <2>1, <2>2, <1>2
  <2>4. Len(S) + k - 1 \in DOMAIN y /\ y[Len(S) + k - 1] = x[k]
      BY <2>3, SpliceTo
  <2> QED BY <2>1, <2>3, <2>4, <1>2
<1>3. ASSUME NEW z, Within(z), NEW i \in DOMAIN z
      PROVE  /\ z[i].do = "make" => Later(z, i, "done")
             /\ z[i].do = "push" /\ z[i].on \in Singletons => Later(z, i, "done")
             /\ z[i].do = "make" /\ z[i].on \in {Pool, Factory} => Later(z, i, "push")
    BY <1>3 DEF Within
<1>4. ASSUME NEW i \in DOMAIN y
      PROVE  /\ y[i].do = "make" => Later(y, i, "done")
             /\ y[i].do = "push" /\ y[i].on \in Singletons => Later(y, i, "done")
             /\ y[i].do = "make" /\ y[i].on \in {Pool, Factory} => Later(y, i, "push")
  <2> HIDE DEF Later
  <2>1. CASE i \in DOMAIN S /\ y[i] = S[i]
      BY <2>1, <1>1, <1>3
  <2>2. ASSUME NEW h \in DOMAIN x, h \in Nat, h > 1, i = Len(S) + h - 1, y[i] = x[h]
        PROVE  <1>4!2
      BY <2>2, <1>2, <1>3
  <2> QED BY <2>1, <2>2, SpliceFrom
<1> QED BY <1>4 DEF Within

LEMMA SpliceSingle ==
    ASSUME NEW x \in Seq(Steps), x # <<>>, NEW S \in Seq(Steps),
           Single(x), Within(x), Nested(x), KeepsSingle(S, Head(x))
    PROVE  Single(Splice(S, x))
<1> DEFINE y == Splice(S, x)
<1> SUFFICES ASSUME NEW i \in DOMAIN y, NEW k \in DOMAIN y, i < k,
                    y[i].do = "push", y[i].on \in Singletons, y[k] = y[i]
             PROVE  FALSE
    BY DEF Single
<1>1. /\ Len(S) \in Nat /\ Head(x) = x[1] /\ 1 \in DOMAIN x /\ i \in Nat /\ k \in Nat
      /\ \A j \in DOMAIN x : j \in Nat /\ x[j] \in Steps
    BY SpliceAt
<1>2. CASE k \in DOMAIN S /\ k <= Len(S) /\ k >= 1 /\ y[k] = S[k]
  <2>1. i \in DOMAIN S /\ y[i] = S[i]
    <3>1. ASSUME NEW h \in DOMAIN x, h \in Nat, h > 1, i = Len(S) + h - 1 PROVE FALSE
        BY <3>1, <1>1, <1>2
    <3> QED BY <3>1, SpliceFrom
  <2> QED BY <2>1, <1>2 DEF KeepsSingle, Single
<1>3. ASSUME NEW h \in DOMAIN x, h \in Nat, h > 1, k = Len(S) + h - 1, y[k] = x[h] PROVE FALSE
  <2>1. ASSUME i \in DOMAIN S, y[i] = S[i] PROVE FALSE
    <3>1. x[1] = Step("swap", y[i].on)
        BY <2>1, <1>1 DEF KeepsSingle
    <3>2. PICK j \in DOMAIN x : h < j /\ x[j] = Step("done", x[h].on)
        BY <1>3 DEF Within
    <3>3. 1 < j
        BY <3>2, <1>3, <1>1
    <3>4. Level(x[1]) < Level(x[j])
        BY <3>2, <3>3, <1>1 DEF Nested, Step
    <3>5. Level(x[1]) = Level(x[j])
        BY <3>1, <3>2, <1>3 DEF Level, Step
    <3> QED BY <3>4, <3>5, <1>1, LevelNat
  <2>2. ASSUME NEW j \in DOMAIN x, j \in Nat, j > 1, i = Len(S) + j - 1, y[i] = x[j] PROVE FALSE
    <3>1. j < h
        BY <2>2, <1>3, <1>1
    <3> QED BY <3>1, <2>2, <1>3 DEF Single
  <2> QED BY <2>1, <2>2, SpliceFrom
<1> QED BY <1>2, <1>3, SpliceFrom

LEMMA SpliceGuarded ==
    ASSUME NEW x \in Seq(Steps), x # <<>>, NEW S \in Seq(Steps), NEW L, NEW L2,
           Guarded(x, L), KeepsGuarded(S, Head(x), L2)
    PROVE  Guarded(Splice(S, x), L2)
<1> DEFINE y == Splice(S, x)
<1> SUFFICES ASSUME NEW i \in DOMAIN y, y[i].do \in {"find", "push", "peek", "register"}
             PROVE  IF i = 1 THEN Mutex(y[i]) \in L2 ELSE Is(y[i - 1], "lock", Mutex(y[i]))
    BY DEF Guarded
<1>1. /\ Len(S) \in Nat /\ Head(x) = x[1] /\ 1 \in DOMAIN x /\ i \in Nat
      /\ DOMAIN S = 1 .. Len(S) /\ DOMAIN x = 1 .. Len(x) /\ Len(x) \in Nat
    BY SpliceAt
<1>2. CASE i \in DOMAIN S /\ i <= Len(S) /\ i >= 1 /\ y[i] = S[i]
  <2>1. i # 1 /\ Is(S[i - 1], "lock", Mutex(S[i]))
      BY <1>2 DEF KeepsGuarded, Guarded
  <2>2. i - 1 \in DOMAIN S
      BY <2>1, <1>1, <1>2
  <2>3. y[i - 1] = S[i - 1]
      BY <2>2, SpliceTo
  <2> QED BY <2>1, <2>3, <1>2
<1>3. ASSUME NEW h \in DOMAIN x, h \in Nat, h > 1, i = Len(S) + h - 1, y[i] = x[h]
      PROVE  IF i = 1 THEN Mutex(y[i]) \in L2 ELSE Is(y[i - 1], "lock", Mutex(y[i]))
  <2>1. Is(x[h - 1], "lock", Mutex(x[h]))
      BY <1>3 DEF Guarded
  <2>2. CASE h = 2
    <3>1. S = <<>> /\ Mutex(x[h]) \in L2
        BY <2>1, <2>2, <1>1 DEF KeepsGuarded, Is
    <3>2. i = 1
        BY <3>1, <2>2, <1>3
    <3> QED BY <3>1, <3>2, <1>3
  <2>3. CASE h # 2
    <3>1. h - 1 \in DOMAIN x /\ h - 1 > 1 /\ Len(S) + (h - 1) - 1 = i - 1 /\ i # 1
        BY <2>3, <1>3, <1>1
    <3>2. y[Len(S) + (h - 1) - 1] = x[h - 1]
        BY <3>1, SpliceTo
    <3> QED BY <3>1, <3>2, <2>1, <1>3
  <2> QED BY <2>2, <2>3
<1> QED BY <1>2, <1>3, SpliceFrom

LEMMA SpliceRegisters ==
    ASSUME NEW x \in Seq(Steps), x # <<>>, NEW S \in Seq(Steps), NEW L, NEW L2,
           Guarded(x, L), Registers(x, L), KeepsRegisters(S, Head(x), L, L2)
    PROVE  Registers(Splice(S, x), L2)
<1> DEFINE y == Splice(S, x)
           m == Len(S)
           n == Len(x)
           Right(i) == /\ y[i].do = "peek" => i = Len(y)
                       /\ y[i].do = "register" => i = Len(y) - 1
                       /\ y[i].do = "type" =>
                             /\ i = Len(y) - 1
                             /\ Factory \in L2
                             /\ \A k \in 1 .. i - 1 : ~ Is(y[k], "unlock", Factory)
<1> SUFFICES ASSUME NEW i \in DOMAIN y PROVE Right(i)
    BY DEF Registers
<1>1. /\ m \in Nat /\ n \in Nat \ {0} /\ Len(y) = m + n - 1 /\ Head(x) = x[1] /\ 1 \in DOMAIN x
      /\ DOMAIN S = 1 .. m /\ DOMAIN x = 1 .. n /\ i \in Nat /\ DOMAIN y = 1 .. m + n - 1
    BY SpliceAt
<1>2. ASSUME i \in DOMAIN S, i <= m, i >= 1, y[i] = S[i]
      PROVE  Right(i)
  <2>1. S[i].do # "peek"
      BY <1>2 DEF KeepsRegisters
  <2>2. S[i].do = "register" => i = Len(y) - 1
    <3> SUFFICES ASSUME S[i].do = "register" PROVE i = Len(y) - 1
        OBVIOUS
    <3>1. x[1].do = "peek" /\ i = m - 1
        BY <1>2, <1>1 DEF KeepsRegisters
    <3>2. n = 1
        BY <3>1, <1>1 DEF Registers
    <3> QED BY <3>1, <3>2, <1>1
  <2>3. ASSUME S[i].do = "type"
        PROVE  /\ i = Len(y) - 1
               /\ Factory \in L2
               /\ \A k \in 1 .. i - 1 : ~ Is(y[k], "unlock", Factory)
    <3>1. x[1].do = "register" /\ i = m /\ Factory \in L2
        BY <2>3, <1>2, <1>1 DEF KeepsRegisters
    <3>2. 1 = n - 1
        BY <3>1, <1>1 DEF Registers
    <3>3. ASSUME NEW k \in 1 .. i - 1 PROVE ~ Is(y[k], "unlock", Factory)
      <4>1. k \in DOMAIN S
          BY <1>1, <3>1
      <4>2. y[k] = S[k]
          BY <4>1, SpliceTo
      <4> QED BY <4>1, <4>2, <3>1, <1>1 DEF KeepsRegisters
    <3>4. i = Len(y) - 1
      <4> HIDE DEF y, m, n
      <4> QED BY <3>1, <3>2, <1>1
    <3> QED BY <3>1, <3>3, <3>4
  <2> QED BY <2>1, <2>2, <2>3, <1>2
<1>3. ASSUME NEW h \in DOMAIN x, h \in Nat, h > 1, i = m + h - 1, y[i] = x[h]
      PROVE  Right(i)
  <2>1. /\ x[h].do = "peek" => h = n
        /\ x[h].do = "register" => h = n - 1
      BY DEF Registers
  <2>2. ASSUME x[h].do = "type"
        PROVE  /\ i = Len(y) - 1
               /\ Factory \in L2
               /\ \A k \in 1 .. i - 1 : ~ Is(y[k], "unlock", Factory)
    <3>1. h = n - 1 /\ Factory \in L /\ \A k \in 1 .. h - 1 : ~ Is(x[k], "unlock", Factory)
        BY <2>2 DEF Registers
    <3>2. ~ Is(x[1], "unlock", Factory) /\ x[1].do # "peek"
      <4>1. 1 \in 1 .. h - 1 /\ n # 1
          BY <3>1, <1>3, <1>1
      <4> QED BY <3>1, <4>1, <1>1 DEF Registers
    <3>3. Factory \in L2
        BY <3>1, <3>2, <1>1 DEF KeepsRegisters
    <3>4. ASSUME NEW k \in 1 .. i - 1 PROVE ~ Is(y[k], "unlock", Factory)
      <4>1. k \in DOMAIN y /\ k \in Nat
          BY <1>1
      <4>2. CASE k \in DOMAIN S /\ y[k] = S[k]
          BY <4>2, <3>2, <1>1 DEF KeepsRegisters
      <4>3. ASSUME NEW j \in DOMAIN x, j \in Nat, j > 1, k = m + j - 1, y[k] = x[j]
            PROVE  ~ Is(y[k], "unlock", Factory)
        <5>1. j \in 1 .. h - 1
            BY <4>3, <1>3, <1>1
        <5> QED BY <5>1, <4>3, <3>1
      <4> QED BY <4>1, <4>2, <4>3, SpliceFrom
    <3> QED BY <3>1, <3>3, <3>4, <1>1, <1>3
  <2> QED BY <2>1, <2>2, <1>3, <1>1
<1> QED BY <1>2, <1>3, SpliceFrom

LEMMA SpliceOrderly ==
    ASSUME LazyAssumption, NEW x \in Seq(Steps), x # <<>>, NEW S \in Seq(Steps),
           NEW M, NEW M2, M \subseteq M2, NEW L, NEW L2,
           Orderly(x, M, L), Replaces(S, Head(x), M2, L, L2)
    PROVE  Orderly(Splice(S, x), M2, L2)
BY SpliceMet, SpliceFresh, SpliceNested, SpliceWithin, SpliceSingle, SpliceGuarded, SpliceRegisters
   DEF Orderly, Replaces, KeepsNested, KeepsSingle

-----------------------------------------------------------------------------
(* The bodies, spelled out.                                                 *)
LEMMA StepTypes ==
    ASSUME LazyAssumption
    PROVE  /\ Files \subseteq Onces /\ Singletons = {Pool, Factory, List}
           /\ Pool \in Onces /\ Factory \in Onces /\ List \in Onces
           /\ \A f \in Files : f \notin {Pool, Factory, List}
           /\ \A o \in Onces : /\ Once(o) \in Steps
                               /\ \A do \in {"swap", "spin", "make", "done", "use"} : Step(do, o) \in Steps
           /\ \A m \in Singletons : Lock(m) \in Steps /\ Unlock(m) \in Steps
           /\ \A f \in Files :
                 \A do \in {"encode", "file", "adddesc", "find", "peek", "register", "type", "push"} :
                    Step(do, f) \in Steps
           /\ Step("push", Pool) \in Steps /\ Step("push", Factory) \in Steps
           /\ Step("main", Main) \in Steps
BY DEF LazyAssumption, Onces, Singletons, Pool, Factory, List, Once, Lock, Unlock, Step, Steps

LEMMA RunOfList ==
    ASSUME LazyAssumption
    PROVE  /\ Run(List) \in Seq(Steps) /\ Len(Run(List)) = 2
           /\ Run(List)[1] = Step("make", List) /\ Run(List)[2] = Step("done", List)
<1>1. Run(List) = <<Step("make", List)>> \o <<Step("done", List)>>
    BY StepTypes DEF Run, Closure, List
<1>2. Step("make", List) \in Steps /\ Step("done", List) \in Steps
    BY StepTypes
<1> QED BY <1>1, <1>2

LEMMA RunOfFile ==
    ASSUME LazyAssumption, NEW f \in Files
    PROVE  /\ Run(f) \in Seq(Steps) /\ Len(Run(f)) = 9
           /\ Run(f)[1] = Step("adddesc", f) /\ Run(f)[2] = Once(Pool)
           /\ Run(f)[3] = Lock(Pool) /\ Run(f)[4] = Step("find", f) /\ Run(f)[5] = Unlock(Pool)
           /\ Run(f)[6] = Once(Pool) /\ Run(f)[7] = Once(Factory)
           /\ Run(f)[8] = Step("make", f) /\ Run(f)[9] = Step("done", f)
<1>1. Run(f) = (<<Step("adddesc", f), Once(Pool)>> \o <<Lock(Pool), Step("find", f), Unlock(Pool)>>
                \o <<Once(Pool), Once(Factory), Step("make", f)>>) \o <<Step("done", f)>>
    BY StepTypes DEF Run, Closure, AssignDesc, FindFile, Pool, Factory, List
<1>2. /\ Step("adddesc", f) \in Steps /\ Once(Pool) \in Steps /\ Lock(Pool) \in Steps
      /\ Step("find", f) \in Steps /\ Unlock(Pool) \in Steps /\ Once(Factory) \in Steps
      /\ Step("make", f) \in Steps /\ Step("done", f) \in Steps
    BY StepTypes
<1> QED BY <1>1, <1>2

LEMMA RunOfSingleton ==
    ASSUME LazyAssumption, NEW o \in {Pool, Factory}
    PROVE  /\ Run(o) \in Seq(Steps) /\ Len(Run(o)) = 6
           /\ Run(o)[1] = Step("make", o) /\ Run(o)[2] = Once(List) /\ Run(o)[3] = Lock(List)
           /\ Run(o)[4] = Step("push", o) /\ Run(o)[5] = Unlock(List) /\ Run(o)[6] = Step("done", o)
<1>1. Run(o) = (<<Step("make", o)>> \o <<Once(List), Lock(List), Step("push", o), Unlock(List)>>)
               \o <<Step("done", o)>>
    BY StepTypes DEF Run, Closure, OnShutdown, Pool, Factory, List
<1>2. /\ Step("make", o) \in Steps /\ Once(List) \in Steps /\ Lock(List) \in Steps
      /\ Step("push", o) \in Steps /\ Unlock(List) \in Steps /\ Step("done", o) \in Steps
    BY StepTypes
<1> QED BY <1>1, <1>2

LEMMA AddDescOf ==
    ASSUME LazyAssumption, NEW f \in Files
    PROVE  /\ AddDesc(f) \in Seq(Steps) /\ Len(AddDesc(f)) = 8
           /\ AddDesc(f)[1] = Once(Pool) /\ AddDesc(f)[2] = Step("encode", f)
           /\ AddDesc(f)[3] = Once(Factory) /\ AddDesc(f)[4] = Step("file", f)
           /\ AddDesc(f)[5] = Once(List) /\ AddDesc(f)[6] = Lock(List)
           /\ AddDesc(f)[7] = Step("push", f) /\ AddDesc(f)[8] = Unlock(List)
<1>1. AddDesc(f) = <<Once(Pool), Step("encode", f), Once(Factory), Step("file", f)>>
                   \o <<Once(List), Lock(List), Step("push", f), Unlock(List)>>
    BY DEF AddDesc, OnShutdown, Pool, Factory, List
<1>2. /\ Once(Pool) \in Steps /\ Step("encode", f) \in Steps /\ Once(Factory) \in Steps
      /\ Step("file", f) \in Steps /\ Once(List) \in Steps /\ Lock(List) \in Steps
      /\ Step("push", f) \in Steps /\ Unlock(List) \in Steps
    BY StepTypes
<1> QED BY <1>1, <1>2

LEMMA RunOfFileReplaces ==
    ASSUME LazyAssumption, NEW f \in Files, NEW M2, NEW L
    PROVE  Replaces(Run(f), Step("swap", f), M2, L, L)
<1> DEFINE S == Run(f)
<1>1. /\ S \in Seq(Steps) /\ Len(S) = 9 /\ DOMAIN S = 1 .. 9
      /\ S[1] = Step("adddesc", f) /\ S[2] = Step("once", Pool) /\ S[3] = Step("lock", Pool)
      /\ S[4] = Step("find", f) /\ S[5] = Step("unlock", Pool) /\ S[6] = Step("once", Pool)
      /\ S[7] = Step("once", Factory) /\ S[8] = Step("make", f) /\ S[9] = Step("done", f)
    BY RunOfFile DEF Once, Lock, Unlock
<1>2. /\ Pool # Factory /\ Pool # List /\ Factory # List /\ Singletons = {Pool, Factory, List}
      /\ \A g \in Files : g \notin {Pool, Factory, List}
    BY StepTypes DEF Pool, Factory, List
<1>3. \A i \in DOMAIN S : i \in 1 .. 9 /\ (i = 1 \/ i = 2 \/ i = 3 \/ i = 4 \/ i = 5 \/ i = 6 \/ i = 7 \/ i = 8 \/ i = 9)
    BY <1>1
<1> HIDE DEF S
<1>4. KeepsMet(S, Step("swap", f), M2)
  <2>1. Wants(S[1]) = {} /\ Wants(S[2]) = {} /\ Wants(S[3]) = {Pool} /\ Wants(S[4]) = {Pool} /\ Wants(S[5]) = {Pool} /\ Wants(S[6]) = {} /\ Wants(S[7]) = {} /\ Wants(S[8]) = {} /\ Wants(S[9]) = {f}
      BY <1>1, <1>2 DEF Wants, Needs, Step, Pool, Factory, List
  <2>2. Gives(S[2], Pool) /\ Gives(S[8], f)
      BY <1>1 DEF Gives, Step
  <2>3. \A i \in DOMAIN S : \A w \in Wants(S[i]) : w \in M2 \/ \E j \in 1 .. i - 1 : Gives(S[j], w)
      BY <2>1, <2>2, <1>3
  <2> QED BY <2>2, <2>3, <1>1 DEF KeepsMet, Met, Gives, Step
<1>5. Fresh(S)
    BY <1>1, <1>3 DEF Fresh, Step
<1>6. KeepsNested(S, Step("swap", f))
  <2>1. /\ Level(S[1]) = 3 /\ Level(S[2]) = 2 /\ Level(S[3]) = 0 /\ Level(S[4]) = 0 /\ Level(S[5]) = 0 /\ Level(S[6]) = 2 /\ Level(S[7]) = 2 /\ Level(S[8]) = 0 /\ Level(S[9]) = 4
        /\ Level(Step("swap", f)) = 4
      BY <1>1, <1>2 DEF Level, Rank, Step
  <2>2. \A i \in DOMAIN S : S[i].do = "done" => i = 9
      BY <1>1, <1>3 DEF Step
  <2> QED BY <2>1, <2>2, <1>3, <1>1 DEF KeepsNested, Nested
<1>7. Within(S)
    BY <1>1, <1>2, <1>3 DEF Within, Step
<1>8. KeepsSingle(S, Step("swap", f))
    BY <1>1, <1>2, <1>3 DEF KeepsSingle, Single, Step
<1>9. KeepsGuarded(S, Step("swap", f), L)
    BY <1>1, <1>2, <1>3 DEF KeepsGuarded, Guarded, Step, Is, Mutex
<1>10. KeepsRegisters(S, Step("swap", f), L, L)
    BY <1>1, <1>2, <1>3 DEF KeepsRegisters, Step, Is
<1> QED BY <1>4, <1>5, <1>6, <1>7, <1>8, <1>9, <1>10 DEF Replaces, S

LEMMA RunOfSingletonReplaces ==
    ASSUME LazyAssumption, NEW o \in {Pool, Factory}, NEW M2, NEW L
    PROVE  Replaces(Run(o), Step("swap", o), M2, L, L)
<1> DEFINE S == Run(o)
<1>1. /\ S \in Seq(Steps) /\ Len(S) = 6 /\ DOMAIN S = 1 .. 6
      /\ S[1] = Step("make", o) /\ S[2] = Step("once", List) /\ S[3] = Step("lock", List)
      /\ S[4] = Step("push", o) /\ S[5] = Step("unlock", List) /\ S[6] = Step("done", o)
    BY RunOfSingleton DEF Once, Lock, Unlock
<1>2. /\ Pool # Factory /\ Pool # List /\ Factory # List /\ Singletons = {Pool, Factory, List}
      /\ \A g \in Files : g \notin {Pool, Factory, List}
    BY StepTypes DEF Pool, Factory, List
<1>3. \A i \in DOMAIN S : i \in 1 .. 6 /\ (i = 1 \/ i = 2 \/ i = 3 \/ i = 4 \/ i = 5 \/ i = 6)
    BY <1>1
<1> HIDE DEF S
<1>4. KeepsMet(S, Step("swap", o), M2)
  <2>1. Wants(S[1]) = {} /\ Wants(S[2]) = {} /\ Wants(S[3]) = {List} /\ Wants(S[4]) = {List} /\ Wants(S[5]) = {List} /\ Wants(S[6]) = {o}
      BY <1>1, <1>2 DEF Wants, Needs, Step, Pool, Factory, List
  <2>2. Gives(S[1], o) /\ Gives(S[2], List)
      BY <1>1 DEF Gives, Step
  <2>3. \A i \in DOMAIN S : \A w \in Wants(S[i]) : w \in M2 \/ \E j \in 1 .. i - 1 : Gives(S[j], w)
      BY <2>1, <2>2, <1>3
  <2> QED BY <2>2, <2>3, <1>1 DEF KeepsMet, Met, Gives, Step
<1>5. Fresh(S)
    BY <1>1, <1>3 DEF Fresh, Step
<1>6. KeepsNested(S, Step("swap", o))
  <2>1. /\ Level(S[1]) = 0 /\ Level(S[2]) = 1 /\ Level(S[3]) = 0 /\ Level(S[4]) = 0 /\ Level(S[5]) = 0 /\ Level(S[6]) = 2
        /\ Level(Step("swap", o)) = 2
      BY <1>1, <1>2 DEF Level, Rank, Step
  <2>2. \A i \in DOMAIN S : S[i].do = "done" => i = 6
      BY <1>1, <1>3 DEF Step
  <2> QED BY <2>1, <2>2, <1>3, <1>1 DEF KeepsNested, Nested
<1>7. Within(S)
    BY <1>1, <1>2, <1>3 DEF Within, Step
<1>8. KeepsSingle(S, Step("swap", o))
    BY <1>1, <1>2, <1>3 DEF KeepsSingle, Single, Step
<1>9. KeepsGuarded(S, Step("swap", o), L)
    BY <1>1, <1>2, <1>3 DEF KeepsGuarded, Guarded, Step, Is, Mutex
<1>10. KeepsRegisters(S, Step("swap", o), L, L)
    BY <1>1, <1>2, <1>3 DEF KeepsRegisters, Step, Is
<1> QED BY <1>4, <1>5, <1>6, <1>7, <1>8, <1>9, <1>10 DEF Replaces, S

LEMMA RunOfListReplaces ==
    ASSUME LazyAssumption, NEW M2, NEW L
    PROVE  Replaces(Run(List), Step("swap", List), M2, L, L)
<1> DEFINE S == Run(List)
<1>1. /\ S \in Seq(Steps) /\ Len(S) = 2 /\ DOMAIN S = 1 .. 2
      /\ S[1] = Step("make", List) /\ S[2] = Step("done", List)
    BY RunOfList
<1>2. /\ Pool # Factory /\ Pool # List /\ Factory # List /\ Singletons = {Pool, Factory, List}
      /\ \A g \in Files : g \notin {Pool, Factory, List}
    BY StepTypes DEF Pool, Factory, List
<1>3. \A i \in DOMAIN S : i \in 1 .. 2 /\ (i = 1 \/ i = 2)
    BY <1>1
<1> HIDE DEF S
<1>4. KeepsMet(S, Step("swap", List), M2)
  <2>1. Wants(S[1]) = {} /\ Wants(S[2]) = {List}
      BY <1>1, <1>2 DEF Wants, Needs, Step, Pool, Factory, List
  <2>2. Gives(S[1], List)
      BY <1>1 DEF Gives, Step
  <2>3. \A i \in DOMAIN S : \A w \in Wants(S[i]) : w \in M2 \/ \E j \in 1 .. i - 1 : Gives(S[j], w)
      BY <2>1, <2>2, <1>3
  <2> QED BY <2>2, <2>3, <1>1 DEF KeepsMet, Met, Gives, Step
<1>5. Fresh(S)
    BY <1>1, <1>3 DEF Fresh, Step
<1>6. KeepsNested(S, Step("swap", List))
  <2>1. /\ Level(S[1]) = 0 /\ Level(S[2]) = 1
        /\ Level(Step("swap", List)) = 1
      BY <1>1, <1>2 DEF Level, Rank, Step
  <2>2. \A i \in DOMAIN S : S[i].do = "done" => i = 2
      BY <1>1, <1>3 DEF Step
  <2> QED BY <2>1, <2>2, <1>3, <1>1 DEF KeepsNested, Nested
<1>7. Within(S)
    BY <1>1, <1>2, <1>3 DEF Within, Step
<1>8. KeepsSingle(S, Step("swap", List))
    BY <1>1, <1>2, <1>3 DEF KeepsSingle, Single, Step
<1>9. KeepsGuarded(S, Step("swap", List), L)
    BY <1>1, <1>2, <1>3 DEF KeepsGuarded, Guarded, Step, Is, Mutex
<1>10. KeepsRegisters(S, Step("swap", List), L, L)
    BY <1>1, <1>2, <1>3 DEF KeepsRegisters, Step, Is
<1> QED BY <1>4, <1>5, <1>6, <1>7, <1>8, <1>9, <1>10 DEF Replaces, S

LEMMA AddDescReplaces ==
    ASSUME LazyAssumption, NEW f \in Files, NEW M2, NEW L
    PROVE  Replaces(AddDesc(f), Step("adddesc", f), M2, L, L)
<1> DEFINE S == AddDesc(f)
<1>1. /\ S \in Seq(Steps) /\ Len(S) = 8 /\ DOMAIN S = 1 .. 8
      /\ S[1] = Step("once", Pool) /\ S[2] = Step("encode", f)
      /\ S[3] = Step("once", Factory) /\ S[4] = Step("file", f) /\ S[5] = Step("once", List)
      /\ S[6] = Step("lock", List) /\ S[7] = Step("push", f) /\ S[8] = Step("unlock", List)
    BY AddDescOf DEF Once, Lock, Unlock
<1>2. /\ Pool # Factory /\ Pool # List /\ Factory # List /\ Singletons = {Pool, Factory, List}
      /\ \A g \in Files : g \notin {Pool, Factory, List}
    BY StepTypes DEF Pool, Factory, List
<1>3. \A i \in DOMAIN S : i \in 1 .. 8 /\ (i = 1 \/ i = 2 \/ i = 3 \/ i = 4 \/ i = 5 \/ i = 6 \/ i = 7 \/ i = 8)
    BY <1>1
<1> HIDE DEF S
<1>4. KeepsMet(S, Step("adddesc", f), M2)
  <2>1. Wants(S[1]) = {} /\ Wants(S[2]) = {Pool} /\ Wants(S[3]) = {} /\ Wants(S[4]) = {Factory} /\ Wants(S[5]) = {} /\ Wants(S[6]) = {List} /\ Wants(S[7]) = {List} /\ Wants(S[8]) = {List}
      BY <1>1, <1>2 DEF Wants, Needs, Step, Pool, Factory, List
  <2>2. Gives(S[1], Pool) /\ Gives(S[3], Factory) /\ Gives(S[5], List)
      BY <1>1 DEF Gives, Step
  <2>3. \A i \in DOMAIN S : \A w \in Wants(S[i]) : w \in M2 \/ \E j \in 1 .. i - 1 : Gives(S[j], w)
      BY <2>1, <2>2, <1>3
  <2> QED BY <2>2, <2>3, <1>1 DEF KeepsMet, Met, Gives, Step
<1>5. Fresh(S)
    BY <1>1, <1>3 DEF Fresh, Step
<1>6. KeepsNested(S, Step("adddesc", f))
  <2>1. /\ Level(S[1]) = 2 /\ Level(S[2]) = 0 /\ Level(S[3]) = 2 /\ Level(S[4]) = 0 /\ Level(S[5]) = 1 /\ Level(S[6]) = 0 /\ Level(S[7]) = 0 /\ Level(S[8]) = 0
        /\ Level(Step("adddesc", f)) = 3
      BY <1>1, <1>2 DEF Level, Rank, Step
  <2>2. \A i \in DOMAIN S : S[i].do # "done"
      BY <1>1, <1>3 DEF Step
  <2> QED BY <2>1, <2>2, <1>3, <1>1 DEF KeepsNested, Nested
<1>7. Within(S)
    BY <1>1, <1>2, <1>3 DEF Within, Step
<1>8. KeepsSingle(S, Step("adddesc", f))
    BY <1>1, <1>2, <1>3 DEF KeepsSingle, Single, Step
<1>9. KeepsGuarded(S, Step("adddesc", f), L)
    BY <1>1, <1>2, <1>3 DEF KeepsGuarded, Guarded, Step, Is, Mutex
<1>10. KeepsRegisters(S, Step("adddesc", f), L, L)
    BY <1>1, <1>2, <1>3 DEF KeepsRegisters, Step, Is
<1> QED BY <1>4, <1>5, <1>6, <1>7, <1>8, <1>9, <1>10 DEF Replaces, S

LEMMA SwapReplaces ==
    ASSUME LazyAssumption, NEW o \in Onces, NEW M2, NEW L
    PROVE  Replaces(<<Step("swap", o)>>, Step("once", o), M2, L, L)
<1> DEFINE S == <<Step("swap", o)>>
<1>1. /\ S \in Seq(Steps) /\ Len(S) = 1 /\ DOMAIN S = 1 .. 1
      /\ S[1] = Step("swap", o)
    BY StepTypes
<1>2. /\ Pool # Factory /\ Pool # List /\ Factory # List /\ Singletons = {Pool, Factory, List}
      /\ \A g \in Files : g \notin {Pool, Factory, List}
    BY StepTypes DEF Pool, Factory, List
<1>3. \A i \in DOMAIN S : i \in 1 .. 1 /\ (i = 1)
    BY <1>1
<1> HIDE DEF S
<1>4. KeepsMet(S, Step("once", o), M2)
  <2>1. Wants(S[1]) = {}
      BY <1>1, <1>2 DEF Wants, Needs, Step, Pool, Factory, List
  <2>2. Gives(S[1], o)
      BY <1>1 DEF Gives, Step
  <2>3. \A i \in DOMAIN S : \A w \in Wants(S[i]) : w \in M2 \/ \E j \in 1 .. i - 1 : Gives(S[j], w)
      BY <2>1, <2>2, <1>3
  <2> QED BY <2>2, <2>3, <1>1 DEF KeepsMet, Met, Gives, Step
<1>5. Fresh(S)
    BY <1>1, <1>3 DEF Fresh, Step
<1>6. KeepsNested(S, Step("once", o))
  <2>1. /\ Level(S[1]) = Rank(o)
        /\ Level(Step("once", o)) = Rank(o)
      BY <1>1, <1>2 DEF Level, Rank, Step
  <2>2. \A i \in DOMAIN S : S[i].do # "done"
      BY <1>1, <1>3 DEF Step
  <2> QED BY <2>1, <2>2, <1>3, <1>1 DEF KeepsNested, Nested, Rank
<1>7. Within(S)
    BY <1>1, <1>2, <1>3 DEF Within, Step
<1>8. KeepsSingle(S, Step("once", o))
    BY <1>1, <1>2, <1>3 DEF KeepsSingle, Single, Step
<1>9. KeepsGuarded(S, Step("once", o), L)
    BY <1>1, <1>2, <1>3 DEF KeepsGuarded, Guarded, Step, Is, Mutex
<1>10. KeepsRegisters(S, Step("once", o), L, L)
    BY <1>1, <1>2, <1>3 DEF KeepsRegisters, Step, Is
<1> QED BY <1>4, <1>5, <1>6, <1>7, <1>8, <1>9, <1>10 DEF Replaces, S

LEMMA SpinReplaces ==
    ASSUME LazyAssumption, NEW o \in Onces, NEW M2, NEW L
    PROVE  Replaces(<<Step("spin", o)>>, Step("swap", o), M2, L, L)
<1> DEFINE S == <<Step("spin", o)>>
<1>1. /\ S \in Seq(Steps) /\ Len(S) = 1 /\ DOMAIN S = 1 .. 1
      /\ S[1] = Step("spin", o)
    BY StepTypes
<1>2. /\ Pool # Factory /\ Pool # List /\ Factory # List /\ Singletons = {Pool, Factory, List}
      /\ \A g \in Files : g \notin {Pool, Factory, List}
    BY StepTypes DEF Pool, Factory, List
<1>3. \A i \in DOMAIN S : i \in 1 .. 1 /\ (i = 1)
    BY <1>1
<1> HIDE DEF S
<1>4. KeepsMet(S, Step("swap", o), M2)
  <2>1. Wants(S[1]) = {}
      BY <1>1, <1>2 DEF Wants, Needs, Step, Pool, Factory, List
  <2>2. Gives(S[1], o)
      BY <1>1 DEF Gives, Step
  <2>3. \A i \in DOMAIN S : \A w \in Wants(S[i]) : w \in M2 \/ \E j \in 1 .. i - 1 : Gives(S[j], w)
      BY <2>1, <2>2, <1>3
  <2> QED BY <2>2, <2>3, <1>1 DEF KeepsMet, Met, Gives, Step
<1>5. Fresh(S)
    BY <1>1, <1>3 DEF Fresh, Step
<1>6. KeepsNested(S, Step("swap", o))
  <2>1. /\ Level(S[1]) = Rank(o)
        /\ Level(Step("swap", o)) = Rank(o)
      BY <1>1, <1>2 DEF Level, Rank, Step
  <2>2. \A i \in DOMAIN S : S[i].do # "done"
      BY <1>1, <1>3 DEF Step
  <2> QED BY <2>1, <2>2, <1>3, <1>1 DEF KeepsNested, Nested, Rank
<1>7. Within(S)
    BY <1>1, <1>2, <1>3 DEF Within, Step
<1>8. KeepsSingle(S, Step("swap", o))
    BY <1>1, <1>2, <1>3 DEF KeepsSingle, Single, Step
<1>9. KeepsGuarded(S, Step("swap", o), L)
    BY <1>1, <1>2, <1>3 DEF KeepsGuarded, Guarded, Step, Is, Mutex
<1>10. KeepsRegisters(S, Step("swap", o), L, L)
    BY <1>1, <1>2, <1>3 DEF KeepsRegisters, Step, Is
<1> QED BY <1>4, <1>5, <1>6, <1>7, <1>8, <1>9, <1>10 DEF Replaces, S

LEMMA UnlockReplaces ==
    ASSUME LazyAssumption, NEW f \in Files, NEW M2, NEW L, Factory \in M2
    PROVE  Replaces(<<Unlock(Factory)>>, Step("peek", f), M2, L, L)
<1> DEFINE S == <<Unlock(Factory)>>
<1>1. /\ S \in Seq(Steps) /\ Len(S) = 1 /\ DOMAIN S = 1 .. 1
      /\ S[1] = Step("unlock", Factory)
    BY StepTypes DEF Unlock
<1>2. /\ Pool # Factory /\ Pool # List /\ Factory # List /\ Singletons = {Pool, Factory, List}
      /\ \A g \in Files : g \notin {Pool, Factory, List}
    BY StepTypes DEF Pool, Factory, List
<1>3. \A i \in DOMAIN S : i \in 1 .. 1 /\ (i = 1)
    BY <1>1
<1> HIDE DEF S
<1>4. KeepsMet(S, Step("peek", f), M2)
  <2>1. Wants(S[1]) = {Factory}
      BY <1>1, <1>2 DEF Wants, Needs, Step, Pool, Factory, List
  <2>3. \A i \in DOMAIN S : \A w \in Wants(S[i]) : w \in M2
      BY <2>1, <1>3
  <2> QED BY <2>3, <1>1 DEF KeepsMet, Met, Gives, Step
<1>5. Fresh(S)
    BY <1>1, <1>3 DEF Fresh, Step
<1>6. KeepsNested(S, Step("peek", f))
  <2>1. /\ Level(S[1]) = 0
        /\ Level(Step("peek", f)) = 5
      BY <1>1, <1>2 DEF Level, Rank, Step
  <2>2. \A i \in DOMAIN S : S[i].do # "done"
      BY <1>1, <1>3 DEF Step
  <2> QED BY <2>1, <2>2, <1>3, <1>1 DEF KeepsNested, Nested
<1>7. Within(S)
    BY <1>1, <1>2, <1>3 DEF Within, Step
<1>8. KeepsSingle(S, Step("peek", f))
    BY <1>1, <1>2, <1>3 DEF KeepsSingle, Single, Step
<1>9. KeepsGuarded(S, Step("peek", f), L)
    BY <1>1, <1>2, <1>3 DEF KeepsGuarded, Guarded, Step, Is, Mutex
<1>10. KeepsRegisters(S, Step("peek", f), L, L)
    BY <1>1, <1>2, <1>3 DEF KeepsRegisters, Step, Is
<1> QED BY <1>4, <1>5, <1>6, <1>7, <1>8, <1>9, <1>10 DEF Replaces, S

LEMMA PeekedReplaces ==
    ASSUME LazyAssumption, NEW f \in Files, NEW M2, NEW L, Factory \in M2
    PROVE  Replaces(<<Unlock(Factory), Once(Pool), Lock(Factory), Step("register", f), Unlock(Factory)>>, Step("peek", f), M2, L, L)
<1> DEFINE S == <<Unlock(Factory), Once(Pool), Lock(Factory), Step("register", f), Unlock(Factory)>>
<1>1. /\ S \in Seq(Steps) /\ Len(S) = 5 /\ DOMAIN S = 1 .. 5
      /\ S[1] = Step("unlock", Factory) /\ S[2] = Step("once", Pool)
      /\ S[3] = Step("lock", Factory) /\ S[4] = Step("register", f)
      /\ S[5] = Step("unlock", Factory)
    BY StepTypes DEF Unlock, Once, Lock
<1>2. /\ Pool # Factory /\ Pool # List /\ Factory # List /\ Singletons = {Pool, Factory, List}
      /\ \A g \in Files : g \notin {Pool, Factory, List}
    BY StepTypes DEF Pool, Factory, List
<1>3. \A i \in DOMAIN S : i \in 1 .. 5 /\ (i = 1 \/ i = 2 \/ i = 3 \/ i = 4 \/ i = 5)
    BY <1>1
<1> HIDE DEF S
<1>4. KeepsMet(S, Step("peek", f), M2)
  <2>1. Wants(S[1]) = {Factory} /\ Wants(S[2]) = {} /\ Wants(S[3]) = {Factory} /\ Wants(S[4]) = {Factory} /\ Wants(S[5]) = {Factory}
      BY <1>1, <1>2 DEF Wants, Needs, Step, Pool, Factory, List
  <2>3. \A i \in DOMAIN S : \A w \in Wants(S[i]) : w \in M2
      BY <2>1, <1>3
  <2> QED BY <2>3, <1>1 DEF KeepsMet, Met, Gives, Step
<1>5. Fresh(S)
    BY <1>1, <1>3 DEF Fresh, Step
<1>6. KeepsNested(S, Step("peek", f))
  <2>1. /\ Level(S[1]) = 0 /\ Level(S[2]) = 2 /\ Level(S[3]) = 0 /\ Level(S[4]) = 5 /\ Level(S[5]) = 0
        /\ Level(Step("peek", f)) = 5
      BY <1>1, <1>2 DEF Level, Rank, Step
  <2>2. \A i \in DOMAIN S : S[i].do # "done"
      BY <1>1, <1>3 DEF Step
  <2> QED BY <2>1, <2>2, <1>3, <1>1 DEF KeepsNested, Nested
<1>7. Within(S)
    BY <1>1, <1>2, <1>3 DEF Within, Step
<1>8. KeepsSingle(S, Step("peek", f))
    BY <1>1, <1>2, <1>3 DEF KeepsSingle, Single, Step
<1>9. KeepsGuarded(S, Step("peek", f), L)
    BY <1>1, <1>2, <1>3 DEF KeepsGuarded, Guarded, Step, Is, Mutex
<1>10. KeepsRegisters(S, Step("peek", f), L, L)
    BY <1>1, <1>2, <1>3 DEF KeepsRegisters, Step, Is
<1> QED BY <1>4, <1>5, <1>6, <1>7, <1>8, <1>9, <1>10 DEF Replaces, S

LEMMA TypesReplaces ==
    ASSUME LazyAssumption, NEW f \in Files, NEW M2, NEW L, Factory \in L
    PROVE  Replaces(<<Once(f), Once(Factory), Step("type", f)>>, Step("register", f), M2, L, L)
<1> DEFINE S == <<Once(f), Once(Factory), Step("type", f)>>
<1>1. /\ S \in Seq(Steps) /\ Len(S) = 3 /\ DOMAIN S = 1 .. 3
      /\ S[1] = Step("once", f) /\ S[2] = Step("once", Factory) /\ S[3] = Step("type", f)
    BY StepTypes DEF Once
<1>2. /\ Pool # Factory /\ Pool # List /\ Factory # List /\ Singletons = {Pool, Factory, List}
      /\ \A g \in Files : g \notin {Pool, Factory, List}
    BY StepTypes DEF Pool, Factory, List
<1>3. \A i \in DOMAIN S : i \in 1 .. 3 /\ (i = 1 \/ i = 2 \/ i = 3)
    BY <1>1
<1> HIDE DEF S
<1>4. KeepsMet(S, Step("register", f), M2)
  <2>1. Wants(S[1]) = {} /\ Wants(S[2]) = {} /\ Wants(S[3]) = {Factory}
      BY <1>1, <1>2 DEF Wants, Needs, Step, Pool, Factory, List
  <2>2. Gives(S[2], Factory)
      BY <1>1 DEF Gives, Step
  <2>3. \A i \in DOMAIN S : \A w \in Wants(S[i]) : w \in M2 \/ \E j \in 1 .. i - 1 : Gives(S[j], w)
      BY <2>1, <2>2, <1>3
  <2> QED BY <2>2, <2>3, <1>1 DEF KeepsMet, Met, Gives, Step
<1>5. Fresh(S)
    BY <1>1, <1>3 DEF Fresh, Step
<1>6. KeepsNested(S, Step("register", f))
  <2>1. /\ Level(S[1]) = 4 /\ Level(S[2]) = 2 /\ Level(S[3]) = 0
        /\ Level(Step("register", f)) = 5
      BY <1>1, <1>2 DEF Level, Rank, Step
  <2>2. \A i \in DOMAIN S : S[i].do # "done"
      BY <1>1, <1>3 DEF Step
  <2> QED BY <2>1, <2>2, <1>3, <1>1 DEF KeepsNested, Nested
<1>7. Within(S)
    BY <1>1, <1>2, <1>3 DEF Within, Step
<1>8. KeepsSingle(S, Step("register", f))
    BY <1>1, <1>2, <1>3 DEF KeepsSingle, Single, Step
<1>9. KeepsGuarded(S, Step("register", f), L)
    BY <1>1, <1>2, <1>3 DEF KeepsGuarded, Guarded, Step, Is, Mutex
<1>10. KeepsRegisters(S, Step("register", f), L, L)
    BY <1>1, <1>2, <1>3 DEF KeepsRegisters, Step, Is
<1> QED BY <1>4, <1>5, <1>6, <1>7, <1>8, <1>9, <1>10 DEF Replaces, S

LEMMA EmptyReplaces ==
    ASSUME NEW s \in Steps, NEW M2, NEW L, NEW L2,
           \A o \in Onces : Gives(s, o) => o \in M2,
           s.do = "lock" => s.on \in L2,
           Factory \in L /\ ~ Is(s, "unlock", Factory) => Factory \in L2
    PROVE  Replaces(<<>>, s, M2, L, L2)
BY DEF Replaces, KeepsMet, Met, Fresh, KeepsNested, Nested, Within, KeepsSingle, Single,
       KeepsGuarded, Guarded, KeepsRegisters

-----------------------------------------------------------------------------
(* What every step of a thread has in common: t replaces its first step.    *)
Advances(t, S) ==
    /\ t \in Threads /\ todo[t] # <<>>
    /\ S \in Seq(Steps)
    /\ todo' = [todo EXCEPT ![t] = Splice(S, todo[t])]

LEMMA MetGrows ==
    ASSUME NEW x, NEW M, NEW M2, M \subseteq M2, Met(x, M) PROVE Met(x, M2)
BY DEF Met

LEMMA AdvanceTyped ==
    ASSUME NEW t, NEW S, todo \in [Threads -> Seq(Steps)], Advances(t, S)
    PROVE  /\ todo' \in [Threads -> Seq(Steps)]
           /\ todo'[t] = Splice(S, todo[t])
           /\ \A u \in Threads : u # t => todo'[u] = todo[u]
           /\ todo[t] \in Seq(Steps) /\ Head(todo[t]) \in Steps
<1>1. todo[t] \in Seq(Steps) /\ todo[t] # <<>> /\ t \in Threads
    BY DEF Advances
<1>2. Splice(S, todo[t]) \in Seq(Steps) /\ Head(todo[t]) \in Steps
    BY <1>1, SpliceAt DEF Advances
<1> QED BY <1>1, <1>2 DEF Advances

LEMMA AdvanceInOrder ==
    ASSUME LazyAssumption, Typed, InOrder, NEW t, NEW S, Advances(t, S), made \subseteq made',
           Replaces(S, Head(todo[t]), made', Holds(t), Holds(t)'),
           \A u \in Threads : u # t => Holds(u)' = Holds(u)
    PROVE  InOrder'
<1>1. /\ todo[t] \in Seq(Steps) /\ todo[t] # <<>> /\ S \in Seq(Steps) /\ t \in Threads
      /\ todo'[t] = Splice(S, todo[t])
      /\ \A u \in Threads : u # t => todo'[u] = todo[u]
    BY AdvanceTyped DEF Advances, Typed
<1>2. Orderly(todo'[t], made', Holds(t)')
    BY <1>1, SpliceOrderly DEF InOrder
<1>3. ASSUME NEW u \in Threads, u # t PROVE Orderly(todo'[u], made', Holds(u)')
  <2>1. Orderly(todo[u], made', Holds(u))
      BY MetGrows DEF InOrder, Orderly
  <2> QED BY <2>1, <1>1, <1>3
<1> QED BY <1>2, <1>3 DEF InOrder

LEMMA DoingAll == \A u \in Threads : \A o, do : Doing(u, o, do) <=> Step(do, o) \in All(todo[u])
BY DEF Doing, All

LEMMA DoingSteps ==
    ASSUME Typed, NEW t, NEW S, Advances(t, S), NEW u \in Threads, NEW o, NEW do
    PROVE  /\ Doing(u, o, do)' <=>
                 IF u = t THEN Step(do, o) \in All(S) \union Rest(todo[t]) ELSE Doing(u, o, do)
           /\ Doing(t, o, do) <=> Step(do, o) \in {Head(todo[t])} \union Rest(todo[t])
<1>1. /\ todo[t] \in Seq(Steps) /\ todo[t] # <<>> /\ S \in Seq(Steps) /\ t \in Threads
      /\ todo'[t] = Splice(S, todo[t])
      /\ \A v \in Threads : v # t => todo'[v] = todo[v]
    BY AdvanceTyped DEF Advances, Typed
<1>2. All(Splice(S, todo[t])) = All(S) \union Rest(todo[t])
      /\ All(todo[t]) = {Head(todo[t])} \union Rest(todo[t])
    BY <1>1, SpliceAll
<1>3. Doing(u, o, do)' <=> Step(do, o) \in All(todo'[u])
    BY DEF Doing, All
<1>4. Doing(u, o, do) <=> Step(do, o) \in All(todo[u])
    BY DoingAll
<1>5. Doing(t, o, do) <=> Step(do, o) \in All(todo[t])
    BY DoingAll, <1>1
<1> QED BY <1>1, <1>2, <1>3, <1>4, <1>5

\* No step of this kind comes or goes.
LEMMA DoingKept ==
    ASSUME Typed, NEW t, NEW S, Advances(t, S), NEW do,
           \A s \in All(S) : s.do # do
    PROVE  /\ \A u \in Threads : \A o : Doing(u, o, do)' => Doing(u, o, do)
           /\ \A u \in Threads : \A o :
                 Head(todo[t]) # Step(do, o) => (Doing(u, o, do)' <=> Doing(u, o, do))
<1> SUFFICES ASSUME NEW u \in Threads, NEW o
             PROVE  /\ Doing(u, o, do)' => Doing(u, o, do)
                    /\ Head(todo[t]) # Step(do, o) => (Doing(u, o, do)' <=> Doing(u, o, do))
    OBVIOUS
<1>1. Step(do, o) \notin All(S)
    BY DEF Step
<1>2. t \in Threads
    BY DEF Advances
<1>3. CASE u = t
    BY <1>1, <1>2, <1>3, DoingSteps
<1>4. CASE u # t
    BY <1>4, DoingSteps
<1> QED BY <1>3, <1>4

-----------------------------------------------------------------------------
(* Preservation, part by part.                                              *)
LEMMA ObjectsKept ==
    ASSUME Objects,
           \A u \in Threads : \A o \in Onces :
              /\ Doing(u, o, "done")' <=> Doing(u, o, "done")
              /\ Doing(u, o, "spin")' => Doing(u, o, "spin") \/ once[o] # "uninitialized",
           once' = once, made \subseteq made', ended' = ended,
           \A o \in made' \ made : once[o] # "uninitialized", made' \subseteq Onces
    PROVE  Objects'
BY DEF Objects

LEMMA NotedKept ==
    ASSUME LazyAssumption, Noted,
           \A u \in Threads : \A o \in {Pool, Factory} : Doing(u, o, "push")' <=> Doing(u, o, "push"),
           shutdown' = shutdown, made' = made,
           \A o \in Onces : once[o] # "uninitialized" => once'[o] # "uninitialized"
    PROVE  Noted'
BY StepTypes DEF Noted

LEMMA NewTypesKept ==
    ASSUME NewTypes, typeMap' = typeMap,
           \A u \in Threads : \A f \in Files : Doing(u, f, "type")' =>
                                            Doing(u, f, "type") \/ f \notin ToSet(typeMap)
    PROVE  NewTypes'
BY DEF NewTypes

LEMMA SpliceAddedOnce ==
    ASSUME NEW x \in Seq(Steps), x # <<>>, NEW S \in Seq(Steps), AddedOnce(x), AddedOnce(S),
           \A s \in All(S) : \A a \in {"encode", "file", "push"}, f \in Files :
              Adds(s, a, f) => Adds(Head(x), a, f)
    PROVE  AddedOnce(Splice(S, x))
<1> DEFINE y == Splice(S, x)
<1> SUFFICES ASSUME NEW a \in {"encode", "file", "push"}, NEW f \in Files,
                    NEW i \in DOMAIN y, NEW k \in DOMAIN y, i < k,
                    Adds(y[i], a, f), Adds(y[k], a, f)
             PROVE  FALSE
    BY DEF AddedOnce
<1>1. /\ Len(S) \in Nat /\ Head(x) = x[1] /\ 1 \in DOMAIN x /\ i \in Nat /\ k \in Nat
    BY SpliceAt
<1>2. CASE k \in DOMAIN S /\ k <= Len(S) /\ k >= 1 /\ y[k] = S[k]
  <2>1. i \in DOMAIN S /\ y[i] = S[i]
    <3>1. ASSUME NEW h \in DOMAIN x, h \in Nat, h > 1, i = Len(S) + h - 1 PROVE FALSE
        BY <3>1, <1>1, <1>2
    <3> QED BY <3>1, SpliceFrom
  <2> QED BY <2>1, <1>2 DEF AddedOnce
<1>3. ASSUME NEW h \in DOMAIN x, h \in Nat, h > 1, k = Len(S) + h - 1, y[k] = x[h] PROVE FALSE
  <2>1. ASSUME i \in DOMAIN S, y[i] = S[i] PROVE FALSE
    <3>1. Adds(x[1], a, f)
        BY <2>1, <1>1 DEF All
    <3> QED BY <3>1, <1>1, <1>3 DEF AddedOnce
  <2>2. ASSUME NEW j \in DOMAIN x, j \in Nat, j > 1, i = Len(S) + j - 1, y[i] = x[j] PROVE FALSE
    <3>1. j < h
        BY <2>2, <1>3, <1>1
    <3> QED BY <3>1, <2>2, <1>3 DEF AddedOnce
  <2> QED BY <2>1, <2>2, SpliceFrom
<1> QED BY <1>2, <1>3, SpliceFrom

LEMMA SpliceBegun ==
    ASSUME NEW x \in Seq(Steps), x # <<>>, NEW S \in Seq(Steps),
           Begun(x), Head(x).do # "main", AddedOnce(S),
           \A s \in All(S) : Static(s) /\ s.do # "main",
           \A s \in All(S) : \A a \in {"encode", "file", "push"}, f \in Files :
              Adds(s, a, f) => Adds(Head(x), a, f)
    PROVE  Begun(Splice(S, x))
<1> DEFINE y == Splice(S, x)
           m == Len(S)
           n == Len(x)
<1>1. /\ m \in Nat /\ n \in Nat \ {0} /\ Len(y) = m + n - 1 /\ Head(x) = x[1] /\ 1 \in DOMAIN x
      /\ DOMAIN S = 1 .. m /\ DOMAIN x = 1 .. n /\ y \in Seq(Steps)
    BY SpliceAt
<1>2. n # 1
    BY <1>1 DEF Begun
<1>3. y # <<>>
  <2>1. Len(y) # 0
    <3> HIDE DEF y, m, n
    <3> QED BY <1>1, <1>2
  <2> QED BY <2>1, <1>1
<1>4. AddedOnce(y)
    BY SpliceAddedOnce DEF Begun
<1>5. ASSUME NEW i \in DOMAIN y PROVE Static(y[i]) /\ (y[i].do = "main" <=> i = Len(y))
  <2>1. ASSUME i \in DOMAIN S, i <= m, y[i] = S[i]
        PROVE  Static(y[i]) /\ (y[i].do = "main" <=> i = Len(y))
    <3>1. S[i] \in All(S)
        BY <2>1 DEF All
    <3>2. i # Len(y)
      <4> HIDE DEF y, m, n
      <4> QED BY <2>1, <1>1, <1>2
    <3> QED BY <3>1, <3>2, <2>1
  <2>2. ASSUME NEW h \in DOMAIN x, h \in Nat, h > 1, i = m + h - 1, y[i] = x[h]
        PROVE  Static(y[i]) /\ (y[i].do = "main" <=> i = Len(y))
    <3>1. Static(x[h]) /\ (x[h].do = "main" <=> h = n)
        BY DEF Begun
    <3>2. i = Len(y) <=> h = n
      <4> HIDE DEF y, m, n
      <4> QED BY <2>2, <1>1
    <3> QED BY <3>1, <3>2, <2>2
  <2> QED BY <2>1, <2>2, SpliceFrom
<1> QED BY <1>3, <1>4, <1>5 DEF Begun

LEMMA StartingKept ==
    ASSUME LazyAssumption, Typed, Starting, NEW t, NEW S, Advances(t, S), started' = started,
           Head(todo[t]).do # "main",
           ~ started =>
              /\ AddedOnce(S)
              /\ \A s \in All(S) : Static(s) /\ s.do # "main"
              /\ \A s \in All(S) : \A a \in {"encode", "file", "push"}, f \in Files :
                    Adds(s, a, f) => Adds(Head(todo[t]), a, f)
              /\ \A a \in {"encode", "file", "push"}, f \in Files :
                    f \in ToSet(Table(a)') <=>
                       \/ f \in ToSet(Table(a))
                       \/ Adds(Head(todo[t]), a, f) /\ \A s \in All(S) : ~ Adds(s, a, f)
    PROVE  Starting'
<1> SUFFICES ASSUME ~ started PROVE Starting'
    BY DEF Starting
<1>1. t = Main
    BY DEF Advances, Starting
<1>2. /\ todo[Main] \in Seq(Steps) /\ todo[Main] # <<>> /\ S \in Seq(Steps)
      /\ todo'[Main] = Splice(S, todo[Main])
      /\ \A u \in Threads : u # Main => todo'[u] = todo[u]
    BY <1>1, AdvanceTyped DEF Advances, Typed
<1>3. Begun(todo'[Main])
    BY <1>1, <1>2, SpliceBegun DEF Starting
<1>4. /\ All(todo'[Main]) = All(S) \union Rest(todo[Main])
      /\ All(todo[Main]) = {Head(todo[Main])} \union Rest(todo[Main])
    BY <1>2, SpliceAll
<1>5. ASSUME NEW a \in {"encode", "file", "push"}, NEW f \in Files
      PROVE  f \in ToSet(Table(a)') <=> \A s \in All(todo'[Main]) : ~ Adds(s, a, f)
  <2>1. Adds(Head(todo[Main]), a, f) => \A s \in Rest(todo[Main]) : ~ Adds(s, a, f)
    <3>0. /\ Head(todo[Main]) = todo[Main][1] /\ DOMAIN todo[Main] = 1 .. Len(todo[Main])
          /\ Len(todo[Main]) \in Nat /\ 1 \in DOMAIN todo[Main]
        BY <1>2
    <3> SUFFICES ASSUME Adds(todo[Main][1], a, f), NEW i \in 2 .. Len(todo[Main])
                 PROVE  ~ Adds(todo[Main][i], a, f)
        BY <3>0 DEF Rest
    <3>1. i \in DOMAIN todo[Main] /\ 1 \in DOMAIN todo[Main] /\ 1 < i
        BY <3>0
    <3> QED BY <3>1 DEF Starting, Begun, AddedOnce
  <2>2. f \in ToSet(Table(a)) <=>
            ~ Adds(Head(todo[Main]), a, f) /\ \A s \in Rest(todo[Main]) : ~ Adds(s, a, f)
      BY <1>4 DEF Starting
  <2> QED BY <2>1, <2>2, <1>4, <1>1
<1>6. \A u \in Threads \ {Main} : todo'[u] = <<>>
    BY <1>2 DEF Starting
<1> QED BY <1>3, <1>5, <1>6 DEF Starting

LEMMA StartedKept ==
    ASSUME Typed, Started, NEW t, NEW S, Advances(t, S), started' = started, ended' = ended,
           started => \A s \in All(S) : AfterStart(s),
           ToSet(database) \subseteq ToSet(database'), ToSet(fileMap) \subseteq ToSet(fileMap'),
           ToSet(shutdown) \subseteq ToSet(shutdown')
    PROVE  Started'
<1> SUFFICES ASSUME started PROVE Started'
    BY DEF Started
<1>1. ASSUME NEW u \in Threads, NEW s \in All(todo'[u]) PROVE AfterStart(s)
  <2>1. /\ todo[t] \in Seq(Steps) /\ todo[t] # <<>> /\ S \in Seq(Steps) /\ t \in Threads
        /\ todo'[t] = Splice(S, todo[t])
        /\ \A v \in Threads : v # t => todo'[v] = todo[v]
      BY AdvanceTyped DEF Advances, Typed
  <2>2. All(Splice(S, todo[t])) \subseteq All(S) \union All(todo[t])
      BY <2>1, SpliceAll
  <2>3. CASE u = t
      BY <2>1, <2>2, <2>3 DEF Started
  <2>4. CASE u # t
      BY <2>1, <2>4 DEF Started
  <2> QED BY <2>3, <2>4
<1> QED BY <1>1 DEF Started

(* A step that sets and notes nothing.                                      *)
LEMMA QuietStep ==
    ASSUME LazyAssumption, LazyInv, NEW t, NEW S, Advances(t, S),
           once' = once, made' = made, started' = started, ended' = ended,
           database' = database, fileMap' = fileMap, typeMap' = typeMap, shutdown' = shutdown,
           built' \in Seq(Files), IsInjective(built'),
           holder' \in [Singletons -> SUBSET Threads], Exclusive',
           \A u \in Threads : u # t => Holds(u)' = Holds(u),
           Replaces(S, Head(todo[t]), made, Holds(t), Holds(t)'),
           Head(todo[t]).do \notin {"done", "push", "encode", "file", "adddesc", "main"},
           \A s \in All(S) :
              /\ s.do \notin {"done", "push", "encode", "file", "adddesc", "main"}
              /\ s.do = "spin" => once[s.on] # "uninitialized"
              /\ s.do = "type" => s.on \notin ToSet(typeMap)
              /\ ~ started => Static(s)
    PROVE  LazyInv'
<1>1. Typed /\ t \in Threads /\ todo[t] # <<>>
    BY DEF LazyInv, Advances
<1>2. Typed'
    BY <1>1, AdvanceTyped DEF Typed
<1>3. InOrder'
    BY <1>1, AdvanceInOrder DEF LazyInv
<1>4. \A o, do : do \in {"done", "push"} => Head(todo[t]) # Step(do, o)
    BY DEF Step
<1>5. ASSUME NEW do, NEW u \in Threads, NEW o, Doing(u, o, do)', ~ Doing(u, o, do)
      PROVE  Step(do, o) \in All(S)
    BY <1>1, <1>5, DoingSteps
<1>6. \A u \in Threads : \A o \in Onces :
         /\ Doing(u, o, "done")' <=> Doing(u, o, "done")
         /\ Doing(u, o, "spin")' => Doing(u, o, "spin") \/ once[o] # "uninitialized"
  <2>1. \A u \in Threads : \A o \in Onces : Doing(u, o, "done")' <=> Doing(u, o, "done")
      BY <1>1, <1>4, DoingKept
  <2>2. \A u \in Threads : \A o \in Onces :
           Doing(u, o, "spin")' => Doing(u, o, "spin") \/ once[o] # "uninitialized"
    <3> SUFFICES ASSUME NEW u \in Threads, NEW o \in Onces, Doing(u, o, "spin")', ~ Doing(u, o, "spin")
                 PROVE  once[o] # "uninitialized"
        OBVIOUS
    <3>1. Step("spin", o) \in All(S)
        BY <1>5
    <3> QED BY <3>1 DEF Step
  <2> QED BY <2>1, <2>2
<1>7. Objects'
    BY <1>6, <1>1, ObjectsKept DEF LazyInv, Typed
<1>8. Noted'
  <2>1. \A u \in Threads : \A o \in {Pool, Factory} : Doing(u, o, "push")' <=> Doing(u, o, "push")
      BY <1>1, <1>4, DoingKept
  <2> QED BY <2>1, NotedKept DEF LazyInv
<1>9. NewTypes'
  <2>1. \A u \in Threads : \A f \in Files :
           Doing(u, f, "type")' => Doing(u, f, "type") \/ f \notin ToSet(typeMap)
    <3> SUFFICES ASSUME NEW u \in Threads, NEW f \in Files, Doing(u, f, "type")', ~ Doing(u, f, "type")
                 PROVE  f \notin ToSet(typeMap)
        OBVIOUS
    <3>1. Step("type", f) \in All(S)
        BY <1>5
    <3> QED BY <3>1 DEF Step
  <2> QED BY <2>1, NewTypesKept DEF LazyInv
<1>10. Unique' /\ Finished' /\ Exclusive'
    BY <1>1 DEF LazyInv, Unique, Finished
<1>11. Starting'
  <2>1. ~ started => AddedOnce(S)
      BY DEF AddedOnce, Adds, Is, All
  <2>2. /\ \A s \in All(S) : \A a \in {"encode", "file", "push"}, f \in Files : ~ Adds(s, a, f)
        /\ \A a \in {"encode", "file", "push"}, f \in Files : ~ Adds(Head(todo[t]), a, f)
      BY DEF Adds, Is
  <2>3. \A a \in {"encode", "file", "push"} : Table(a)' = Table(a)
      BY DEF Table
  <2> QED BY <2>1, <2>2, <2>3, <1>1, StartingKept DEF LazyInv
<1>12. Started'
    BY <1>1, StartedKept DEF LazyInv, AfterStart
<1> QED BY <1>2, <1>3, <1>7, <1>8, <1>9, <1>10, <1>11, <1>12 DEF LazyInv

LEMMA GoesAdvances ==
    ASSUME Typed, NEW t \in Threads, NEW do, Due(t, do), NEW S \in Seq(Steps), Goes(t, S)
    PROVE  Advances(t, S)
BY DEF Due, Goes, Advances, Splice, Typed

LEMMA EmptyBody == <<>> \in Seq(Steps) /\ All(<<>>) = {}
BY DEF All

\* The step that is next: what it needs is there.
LEMMA HeadReady ==
    ASSUME LazyAssumption, LazyInv, NEW t \in Threads, NEW do, Due(t, do)
    PROVE  /\ todo[t] \in Seq(Steps) /\ todo[t] # <<>> /\ Head(todo[t]) = todo[t][1]
           /\ 1 \in DOMAIN todo[t] /\ ~ ended
           /\ Head(todo[t]) \in Steps /\ Head(todo[t]) = Step(do, On(t))
           /\ Wants(Head(todo[t])) \subseteq made
           /\ do \in {"find", "push", "peek", "register"} => Mutex(Head(todo[t])) \in Holds(t)
           /\ do = "type" => Factory \in Holds(t)
           /\ Doing(t, On(t), do)
<1>1. todo[t] \in Seq(Steps) /\ todo[t] # <<>>
    BY DEF LazyInv, Typed, Due
<1>2. Head(todo[t]) = todo[t][1] /\ 1 \in DOMAIN todo[t] /\ Head(todo[t]) \in Steps
    BY <1>1
<1>3. Head(todo[t]) = Step(do, On(t))
    BY <1>2 DEF Steps, Due, On, Step
<1>4. ~ ended
    BY <1>1 DEF LazyInv, Finished
<1>5. Orderly(todo[t], made, Holds(t))
    BY DEF LazyInv, InOrder
<1>6. Wants(Head(todo[t])) \subseteq made
    BY <1>2, <1>5 DEF Orderly, Met
<1>7. do \in {"find", "push", "peek", "register"} => Mutex(Head(todo[t])) \in Holds(t)
    BY <1>2, <1>3, <1>5 DEF Orderly, Guarded, Step
<1>8. do = "type" => Factory \in Holds(t)
    BY <1>2, <1>3, <1>5 DEF Orderly, Registers, Step
<1>9. Doing(t, On(t), do)
    BY <1>2, <1>3 DEF Doing
<1> QED BY <1>1, <1>2, <1>3, <1>4, <1>6, <1>7, <1>8, <1>9

\* Nothing takes the place of the step, and nothing else changes.
LEMMA DropStep ==
    ASSUME LazyAssumption, LazyInv, NEW t \in Threads, NEW do, Due(t, do), Continue(t),
           do \notin {"done", "push", "encode", "file", "adddesc", "main", "lock", "unlock"},
           do \in {"once", "swap", "spin", "make"} => On(t) \in made,
           UNCHANGED <<once, made, holder, started, ended, database, fileMap, typeMap, shutdown>>,
           built' \in Seq(Files), IsInjective(built')
    PROVE  LazyInv'
<1>1. Advances(t, <<>>)
    BY EmptyBody, GoesAdvances DEF Continue, LazyInv
<1>2. \A u \in Threads : Holds(u)' = Holds(u)
    BY DEF Holds
<1>3. Head(todo[t]) \in Steps /\ Head(todo[t]) = Step(do, On(t))
    BY HeadReady
<1>4. \A o \in Onces : Gives(Head(todo[t]), o) => o \in made
    BY <1>3 DEF Gives, Step
<1>5. Replaces(<<>>, Head(todo[t]), made, Holds(t), Holds(t)')
    BY <1>2, <1>3, <1>4, EmptyReplaces DEF Step
<1>6. holder' \in [Singletons -> SUBSET Threads] /\ Exclusive'
    BY DEF LazyInv, Typed, Exclusive
<1>7. Head(todo[t]).do \notin {"done", "push", "encode", "file", "adddesc", "main"}
    BY <1>3 DEF Step
<1> QED BY <1>1, <1>2, <1>5, <1>6, <1>7, EmptyBody, QuietStep

LEMMA OnOnces ==
    ASSUME LazyAssumption, LazyInv, NEW t \in Threads, NEW do, Due(t, do)
    PROVE  /\ do \in {"once", "swap", "spin", "make", "done", "use"} => On(t) \in Onces
           /\ do \in {"lock", "unlock"} => On(t) \in Singletons
           /\ do \in {"encode", "file", "adddesc", "find", "peek", "register", "type"} => On(t) \in Files
           /\ do = "push" => On(t) \in Onces \ {List}
           /\ do = "main" => On(t) = Main
<1>1. Head(todo[t]) \in Steps /\ Head(todo[t]) = Step(do, On(t))
    BY HeadReady
<1> QED BY <1>1 DEF Steps, Step

LEMMA LoadKeeps == ASSUME LazyAssumption, LazyInv, NEW t \in Threads, Load(t) PROVE LazyInv'
<1>1. Due(t, "once") /\ On(t) \in Onces /\ ~ ended
    BY OnOnces, HeadReady DEF Load
<1>2. CASE once[On(t)] = "done"
  <2>1. On(t) \in made
      BY <1>1, <1>2 DEF LazyInv, Objects
  <2> QED BY <1>1, <1>2, <2>1, DropStep DEF Load, tables, Continue, LazyInv, Typed, Unique
<1>3. CASE once[On(t)] # "done"
  <2> DEFINE S == <<Step("swap", On(t))>>
  <2>1. S \in Seq(Steps) /\ All(S) = {Step("swap", On(t))}
    <3>1. Step("swap", On(t)) \in Steps
        BY <1>1, StepTypes
    <3> QED BY <3>1 DEF All
  <2>2. Advances(t, S)
      BY <1>1, <1>3, <2>1, GoesAdvances DEF Load, LazyInv
  <2>3. \A u \in Threads : Holds(u)' = Holds(u)
      BY DEF Holds, Load
  <2>4. Head(todo[t]) = Step("once", On(t))
      BY <1>1, HeadReady
  <2>5. Replaces(S, Head(todo[t]), made, Holds(t), Holds(t)')
      BY <1>1, <2>3, <2>4, SwapReplaces
  <2>6. Head(todo[t]).do \notin {"done", "push", "encode", "file", "adddesc", "main"}
      BY <2>4 DEF Step
  <2>7. ~ started => Static(Step("swap", On(t)))
    <3> SUFFICES ASSUME ~ started PROVE Static(Step("swap", On(t)))
        OBVIOUS
    <3>1. t = Main /\ Begun(todo[t])
        BY <1>1 DEF LazyInv, Starting, Due
    <3>2. Static(todo[t][1]) /\ todo[t][1] = Step("once", On(t))
        BY <1>1, <2>4, <3>1, HeadReady DEF Begun
    <3> QED BY <3>2 DEF Static, Step
  <2>8. \A s \in All(S) :
              /\ s.do \notin {"done", "push", "encode", "file", "adddesc", "main", "spin", "type"}
              /\ ~ started => Static(s)
      BY <2>1, <2>7 DEF Step
  <2>9. holder' \in [Singletons -> SUBSET Threads] /\ Exclusive' /\ built' \in Seq(Files)
        /\ IsInjective(built')
      BY DEF LazyInv, Typed, Exclusive, Load, tables, Unique
  <2> HIDE DEF S
  <2> QED BY <2>2, <2>3, <2>5, <2>6, <2>8, <2>9, QuietStep DEF Load, tables
<1> QED BY <1>2, <1>3

LEMMA HeadStatic ==
    ASSUME LazyAssumption, LazyInv, NEW t \in Threads, NEW do, Due(t, do), ~ started
    PROVE  t = Main /\ Begun(todo[t]) /\ Static(Step(do, On(t)))
<1>1. t = Main /\ Begun(todo[t])
    BY DEF LazyInv, Starting, Due
<1> QED BY <1>1, HeadReady DEF Begun

LEMMA LostSwapKeeps ==
    ASSUME LazyAssumption, LazyInv, NEW t \in Threads, Swap(t), once[On(t)] # "uninitialized"
    PROVE  LazyInv'
<1>1. Due(t, "swap") /\ On(t) \in Onces /\ ~ ended
    BY OnOnces, HeadReady DEF Swap
<1>2. CASE once[On(t)] # "executing"
  <2>1. On(t) \in made
      BY <1>1, <1>2 DEF LazyInv, Objects, Typed
  <2>2. Continue(t)
      BY <1>2 DEF Swap, LostSwap, Continue
  <2> QED BY <1>1, <1>2, <2>1, <2>2, DropStep DEF Swap, tables, LazyInv, Typed, Unique
<1>3. CASE once[On(t)] = "executing"
  <2> DEFINE S == <<Step("spin", On(t))>>
  <2>1. S \in Seq(Steps) /\ All(S) = {Step("spin", On(t))}
    <3>1. Step("spin", On(t)) \in Steps
        BY <1>1, StepTypes
    <3> QED BY <3>1 DEF All
  <2>2. Advances(t, S)
      BY <1>1, <1>3, <2>1, GoesAdvances DEF Swap, LostSwap, LazyInv
  <2>3. \A u \in Threads : Holds(u)' = Holds(u)
      BY DEF Holds, Swap
  <2>4. Head(todo[t]) = Step("swap", On(t))
      BY <1>1, HeadReady
  <2>5. Replaces(S, Head(todo[t]), made, Holds(t), Holds(t)')
      BY <1>1, <2>3, <2>4, SpinReplaces
  <2>6. Head(todo[t]).do \notin {"done", "push", "encode", "file", "adddesc", "main"}
      BY <2>4 DEF Step
  <2>7. ~ started => Static(Step("spin", On(t)))
      BY <1>1, HeadStatic DEF Static, Step
  <2>8. \A s \in All(S) :
              /\ s.do \notin {"done", "push", "encode", "file", "adddesc", "main", "type"}
              /\ s.do = "spin" => once[s.on] # "uninitialized"
              /\ ~ started => Static(s)
      BY <2>1, <2>7, <1>3 DEF Step
  <2>9. holder' \in [Singletons -> SUBSET Threads] /\ Exclusive' /\ built' \in Seq(Files)
        /\ IsInjective(built')
      BY DEF LazyInv, Typed, Exclusive, Swap, tables, Unique
  <2>10. once' = once
      BY <1>3 DEF Swap
  <2> HIDE DEF S
  <2> QED BY <2>2, <2>3, <2>5, <2>6, <2>8, <2>9, <2>10, QuietStep DEF Swap, tables
<1> QED BY <1>2, <1>3

LEMMA SpinKeeps == ASSUME LazyAssumption, LazyInv, NEW t \in Threads, Spin(t) PROVE LazyInv'
<1>1. Due(t, "spin") /\ On(t) \in Onces /\ ~ ended /\ Doing(t, On(t), "spin")
    BY OnOnces, HeadReady DEF Spin
<1>2. once[On(t)] = "done"
    BY <1>1 DEF LazyInv, Objects, Typed, Spin
<1>3. On(t) \in made
    BY <1>1, <1>2 DEF LazyInv, Objects
<1> QED BY <1>1, <1>3, DropStep DEF Spin, tables, LazyInv, Typed, Unique

LEMMA UseKeeps == ASSUME LazyAssumption, LazyInv, NEW t \in Threads, Use(t) PROVE LazyInv'
BY DropStep DEF Use, tables, LazyInv, Typed, Unique

LEMMA AppendNew ==
    ASSUME NEW T, NEW s \in Seq(T), IsInjective(s), NEW f \in T, f \notin ToSet(s)
    PROVE  /\ IsInjective(Append(s, f)) /\ Append(s, f) \in Seq(T)
           /\ ToSet(Append(s, f)) = ToSet(s) \union {f}
<1>1. /\ Append(s, f) \in Seq(T) /\ Len(s) \in Nat /\ Len(Append(s, f)) = Len(s) + 1
      /\ \A i \in 1 .. Len(s) : Append(s, f)[i] = s[i]
      /\ Append(s, f)[Len(s) + 1] = f
      /\ DOMAIN s = 1 .. Len(s) /\ DOMAIN Append(s, f) = 1 .. Len(s) + 1
    BY AppendProperties
<1> DEFINE r == Append(s, f)
           n == Len(s)
<1>2. \A i \in 1 .. n : s[i] # f
    BY <1>1 DEF ToSet
<1>3. IsInjective(r)
  <2> HIDE DEF r, n
  <2> SUFFICES ASSUME NEW i \in 1 .. n + 1, NEW k \in 1 .. n + 1, r[i] = r[k] PROVE i = k
      BY <1>1 DEF IsInjective, r, n
  <2>1. CASE i \in 1 .. n /\ k \in 1 .. n
      BY <2>1, <1>1 DEF IsInjective, r, n
  <2>2. CASE i = n + 1 /\ k \in 1 .. n
      BY <2>2, <1>1, <1>2 DEF r, n
  <2>3. CASE i \in 1 .. n /\ k = n + 1
      BY <2>3, <1>1, <1>2 DEF r, n
  <2> QED BY <2>1, <2>2, <2>3, <1>1 DEF n
<1>4. ToSet(r) = ToSet(s) \union {f}
  <2> HIDE DEF r
  <2>1. ToSet(r) = {r[i] : i \in 1 .. n + 1} /\ ToSet(s) = {s[i] : i \in 1 .. n}
      BY <1>1 DEF ToSet, r
  <2>2. \A i \in 1 .. n + 1 : i \in 1 .. n \/ i = n + 1
      BY <1>1
  <2>3. n + 1 \in 1 .. n + 1 /\ \A i \in 1 .. n : i \in 1 .. n + 1
      BY <1>1
  <2>4. (\A i \in 1 .. n : r[i] = s[i]) /\ r[n + 1] = f
      BY <1>1 DEF r
  <2> HIDE DEF n
  <2> QED BY <2>1, <2>2, <2>3, <2>4
<1> QED BY <1>1, <1>3, <1>4

LEMMA FindOrBuildKeeps ==
    ASSUME LazyAssumption, LazyInv, NEW t \in Threads, FindOrBuild(t) PROVE LazyInv'
<1>1. Due(t, "find") /\ On(t) \in Files /\ Continue(t)
    BY OnOnces DEF FindOrBuild, AllocateOptions, Continue
<1>2. built \in Seq(Files) /\ IsInjective(built)
    BY DEF LazyInv, Typed, Unique
<1>3. built' \in Seq(Files) /\ IsInjective(built')
  <2>1. CASE On(t) \in ToSet(built)
      BY <2>1, <1>2 DEF FindOrBuild
  <2>2. CASE On(t) \notin ToSet(built)
    <3>1. built' = Append(built, On(t))
        BY <2>2 DEF FindOrBuild
    <3> QED BY <3>1, <2>2, <1>1, <1>2, AppendNew
  <2> QED BY <2>1, <2>2
<1> QED BY <1>1, <1>3, DropStep DEF FindOrBuild

\* The steps of a body change nothing by themselves.
LEMMA BodyStep ==
    ASSUME LazyAssumption, LazyInv, NEW t \in Threads, NEW do, Due(t, do),
           NEW S \in Seq(Steps), Goes(t, S),
           UNCHANGED <<once, made, holder, started, tables, ended>>,
           Replaces(S, Head(todo[t]), made, Holds(t), Holds(t)),
           do \in {"once", "swap", "peek", "register"},
           \A s \in All(S) :
              /\ s.do \notin {"done", "push", "encode", "file", "adddesc", "main"}
              /\ s.do = "spin" => once[s.on] # "uninitialized"
              /\ s.do = "type" => s.on \notin ToSet(typeMap)
              /\ ~ started => Static(s)
    PROVE  LazyInv'
<1>1. Advances(t, S)
    BY GoesAdvances DEF LazyInv
<1>2. \A u \in Threads : Holds(u)' = Holds(u)
    BY DEF Holds
<1>3. holder' \in [Singletons -> SUBSET Threads] /\ Exclusive' /\ built' \in Seq(Files)
      /\ IsInjective(built')
    BY DEF LazyInv, Typed, Exclusive, tables, Unique
<1>4. Head(todo[t]).do \notin {"done", "push", "encode", "file", "adddesc", "main"}
  <2>1. Head(todo[t]) = Step(do, On(t))
      BY HeadReady
  <2> QED BY <2>1 DEF Step
<1> QED BY <1>1, <1>2, <1>3, <1>4, QuietStep DEF tables

LEMMA PeekKeeps == ASSUME LazyAssumption, LazyInv, NEW t \in Threads, Peek(t) PROVE LazyInv'
<1> DEFINE f == On(t)
           S == Peeked(f)
<1>1. Due(t, "peek") /\ f \in Files /\ Head(todo[t]) = Step("peek", f) /\ Factory \in made
    BY OnOnces, HeadReady DEF Peek, Wants, Needs, Step, Factory
<1>2. started
    BY <1>1, HeadStatic DEF Static, Step
<1>3. CASE f \in ToSet(typeMap)
  <2>1. S = <<Unlock(Factory)>>
      BY <1>3 DEF Peeked, Factory
  <2>2. Unlock(Factory) \in Steps
      BY StepTypes
  <2>3. S \in Seq(Steps) /\ All(S) = {Unlock(Factory)}
      BY <2>1, <2>2 DEF All
  <2>4. Replaces(S, Head(todo[t]), made, Holds(t), Holds(t))
      BY <1>1, <2>1, UnlockReplaces
  <2> QED BY <1>1, <1>2, <2>3, <2>4, BodyStep DEF Peek, Unlock, Step
<1>4. CASE f \notin ToSet(typeMap)
  <2>1. S = <<Unlock(Factory), Once(Pool), Lock(Factory), Step("register", f), Unlock(Factory)>>
      BY <1>4 DEF Peeked, Factory, Pool
  <2>2. Unlock(Factory) \in Steps /\ Once(Pool) \in Steps /\ Lock(Factory) \in Steps
        /\ Step("register", f) \in Steps
      BY <1>1, StepTypes
  <2>3. S \in Seq(Steps) /\ Len(S) = 5
      BY <2>1, <2>2
  <2>4. All(S) = {Unlock(Factory), Once(Pool), Lock(Factory), Step("register", f)}
      BY <2>1 DEF All
  <2>5. Replaces(S, Head(todo[t]), made, Holds(t), Holds(t))
      BY <1>1, <2>1, PeekedReplaces
  <2> QED BY <1>1, <1>2, <2>3, <2>4, <2>5, BodyStep DEF Peek, Unlock, Once, Lock, Step
<1> QED BY <1>3, <1>4

LEMMA RecheckKeeps == ASSUME LazyAssumption, LazyInv, NEW t \in Threads, Recheck(t) PROVE LazyInv'
<1> DEFINE f == On(t)
           S == RegisterTypes(f)
<1>1. /\ Due(t, "register") /\ f \in Files /\ Head(todo[t]) = Step("register", f)
      /\ Factory \in Holds(t)
    BY OnOnces, HeadReady DEF Recheck, Mutex, Step
<1>2. started
    BY <1>1, HeadStatic DEF Static, Step
<1>3. CASE f \in ToSet(typeMap)
  <2>1. Continue(t)
      BY <1>3 DEF Recheck, RegisterTypes, Continue
  <2> QED BY <1>1, <2>1, DropStep DEF Recheck, tables, LazyInv, Typed, Unique
<1>4. CASE f \notin ToSet(typeMap)
  <2>1. S = <<Once(f), Once(Factory), Step("type", f)>>
      BY <1>4 DEF RegisterTypes, Factory
  <2>2. Once(f) \in Steps /\ Once(Factory) \in Steps /\ Step("type", f) \in Steps
      BY <1>1, StepTypes
  <2>3. S \in Seq(Steps) /\ Len(S) = 3
      BY <2>1, <2>2
  <2>4. All(S) = {Once(f), Once(Factory), Step("type", f)}
      BY <2>1 DEF All
  <2>5. Replaces(S, Head(todo[t]), made, Holds(t), Holds(t))
      BY <1>1, <2>1, TypesReplaces
  <2> QED BY <1>1, <1>2, <1>4, <2>3, <2>4, <2>5, BodyStep DEF Recheck, Once, Step
<1> QED BY <1>3, <1>4

LEMMA LockStep ==
    ASSUME LazyAssumption, LazyInv, NEW t \in Threads, NEW do \in {"lock", "unlock"}, Due(t, do),
           Continue(t), UNCHANGED <<once, made, started, tables, ended>>,
           holder' \in [Singletons -> SUBSET Threads], Exclusive',
           \A u \in Threads : u # t => Holds(u)' = Holds(u),
           do = "lock" => On(t) \in Holds(t)',
           \A m \in Holds(t) : (do = "unlock" /\ m = On(t)) \/ m \in Holds(t)'
    PROVE  LazyInv'
<1>1. Advances(t, <<>>)
    BY EmptyBody, GoesAdvances DEF Continue, LazyInv
<1>2. Head(todo[t]) \in Steps /\ Head(todo[t]) = Step(do, On(t))
    BY HeadReady
<1>3. Replaces(<<>>, Head(todo[t]), made, Holds(t), Holds(t)')
    BY <1>2, EmptyReplaces DEF Step, Gives, Is
<1>4. built' \in Seq(Files) /\ IsInjective(built')
    BY DEF LazyInv, Typed, tables, Unique
<1>5. Head(todo[t]).do \notin {"done", "push", "encode", "file", "adddesc", "main"}
    BY <1>2 DEF Step
<1> QED BY <1>1, <1>3, <1>4, <1>5, EmptyBody, QuietStep DEF tables

LEMMA TakeLockKeeps == ASSUME LazyAssumption, LazyInv, NEW t \in Threads, TakeLock(t) PROVE LazyInv'
<1>1. Due(t, "lock") /\ On(t) \in Singletons /\ holder \in [Singletons -> SUBSET Threads]
    BY OnOnces DEF TakeLock, LazyInv, Typed
<1>2. holder' = [holder EXCEPT ![On(t)] = {t}] /\ holder[On(t)] = {}
    BY DEF TakeLock
<1>3. holder' \in [Singletons -> SUBSET Threads] /\ Exclusive'
    BY <1>1, <1>2 DEF LazyInv, Exclusive
<1>4. /\ \A u \in Threads : u # t => Holds(u)' = Holds(u)
      /\ On(t) \in Holds(t)' /\ Holds(t) \subseteq Holds(t)'
    BY <1>1, <1>2 DEF Holds
<1> QED BY <1>1, <1>3, <1>4, LockStep DEF TakeLock

LEMMA ReleaseLockKeeps ==
    ASSUME LazyAssumption, LazyInv, NEW t \in Threads, ReleaseLock(t) PROVE LazyInv'
<1>1. Due(t, "unlock") /\ On(t) \in Singletons /\ holder \in [Singletons -> SUBSET Threads]
    BY OnOnces DEF ReleaseLock, LazyInv, Typed
<1>2. holder' = [holder EXCEPT ![On(t)] = @ \ {t}]
    BY DEF ReleaseLock
<1>3. holder' \in [Singletons -> SUBSET Threads] /\ Exclusive'
    BY <1>1, <1>2 DEF LazyInv, Exclusive
<1>4. /\ \A u \in Threads : u # t => Holds(u)' = Holds(u)
      /\ \A m \in Holds(t) : m = On(t) \/ m \in Holds(t)'
    BY <1>1, <1>2 DEF Holds
<1> QED BY <1>1, <1>3, <1>4, LockStep DEF ReleaseLock

\* What a closure consists of.
LEMMA RunSteps ==
    ASSUME LazyAssumption, NEW o \in Onces, NEW M2, NEW L
    PROVE  /\ Run(o) \in Seq(Steps) /\ Replaces(Run(o), Step("swap", o), M2, L, L)
           /\ Step("done", o) \in All(Run(o))
           /\ o \in {Pool, Factory} => Step("push", o) \in All(Run(o))
           /\ \A s \in All(Run(o)) :
                 /\ s.do \notin {"swap", "spin", "type", "encode", "file", "main"}
                 /\ s.do = "done" => s.on = o
                 /\ s.do = "push" => s.on = o /\ o \in {Pool, Factory}
                 /\ o \in Singletons => Static(s) /\ s.do # "adddesc"
<1> DEFINE S == Run(o)
<1>1. CASE o \in Files
  <2>1. /\ S \in Seq(Steps) /\ DOMAIN S = 1 .. 9
        /\ S[1] = Step("adddesc", o) /\ S[2] = Step("once", Pool)
        /\ S[3] = Step("lock", Pool) /\ S[4] = Step("find", o) /\ S[5] = Step("unlock", Pool)
        /\ S[6] = Step("once", Pool) /\ S[7] = Step("once", Factory)
        /\ S[8] = Step("make", o) /\ S[9] = Step("done", o)
      BY <1>1, RunOfFile DEF Once, Lock, Unlock
  <2>2. o \notin Singletons /\ o \notin {Pool, Factory}
      BY <1>1, StepTypes
  <2>3. Replaces(S, Step("swap", o), M2, L, L)
      BY <1>1, RunOfFileReplaces
  <2>4. All(S) = {S[1], S[2], S[3], S[4], S[5], S[6], S[7], S[8], S[9]}
    <3> HIDE DEF S
    <3> QED BY <2>1 DEF All
  <2> HIDE DEF S
  <2> QED BY <2>1, <2>2, <2>3, <2>4 DEF Step, S
<1>2. CASE o \in {Pool, Factory}
  <2>1. /\ S \in Seq(Steps) /\ DOMAIN S = 1 .. 6
        /\ S[1] = Step("make", o) /\ S[2] = Step("once", List) /\ S[3] = Step("lock", List)
        /\ S[4] = Step("push", o) /\ S[5] = Step("unlock", List) /\ S[6] = Step("done", o)
      BY <1>2, RunOfSingleton DEF Once, Lock, Unlock
  <2>2. o \in Singletons /\ List \in Singletons
      BY <1>2, StepTypes
  <2>3. Replaces(S, Step("swap", o), M2, L, L)
      BY <1>2, RunOfSingletonReplaces
  <2>4. All(S) = {S[1], S[2], S[3], S[4], S[5], S[6]}
    <3> HIDE DEF S
    <3> QED BY <2>1 DEF All
  <2> HIDE DEF S
  <2> QED BY <1>2, <2>1, <2>2, <2>3, <2>4 DEF Step, S, Static
<1>3. CASE o = List
  <2>1. S \in Seq(Steps) /\ DOMAIN S = 1 .. 2 /\ S[1] = Step("make", List) /\ S[2] = Step("done", List)
      BY <1>3, RunOfList
  <2>2. List \in Singletons /\ o \notin {Pool, Factory}
      BY <1>3, StepTypes DEF Pool, Factory, List
  <2>3. Replaces(S, Step("swap", o), M2, L, L)
      BY <1>3, RunOfListReplaces
  <2>4. All(S) = {S[1], S[2]}
    <3> HIDE DEF S
    <3> QED BY <2>1 DEF All
  <2> HIDE DEF S
  <2> QED BY <1>3, <2>1, <2>2, <2>3, <2>4 DEF Step, S, Static
<1> QED BY <1>1, <1>2, <1>3, StepTypes DEF Onces

LEMMA WonSwapKeeps ==
    ASSUME LazyAssumption, LazyInv, NEW t \in Threads, Swap(t), once[On(t)] = "uninitialized"
    PROVE  LazyInv'
<1> DEFINE o == On(t)
           S == Run(o)
<1>1. Due(t, "swap") /\ o \in Onces /\ Head(todo[t]) = Step("swap", o) /\ ~ ended
    BY OnOnces, HeadReady DEF Swap
<1>2. /\ once' = [once EXCEPT ![o] = "executing"] /\ Goes(t, S)
      /\ UNCHANGED <<made, holder, called, started, tables, ended>>
    BY DEF Swap
<1>3. /\ S \in Seq(Steps) /\ Step("done", o) \in All(S)
      /\ o \in {Pool, Factory} => Step("push", o) \in All(S)
      /\ \A s \in All(S) :
            /\ s.do \notin {"swap", "spin", "type", "encode", "file", "main"}
            /\ s.do = "done" => s.on = o
            /\ s.do = "push" => s.on = o /\ o \in {Pool, Factory}
            /\ o \in Singletons => Static(s) /\ s.do # "adddesc"
    BY <1>1, RunSteps
<1> HIDE DEF S, o
<1>4. Typed /\ Advances(t, S)
    BY <1>1, <1>2, <1>3, GoesAdvances DEF LazyInv
<1>5. Typed'
    BY <1>1, <1>2, <1>4, AdvanceTyped DEF Typed, tables
<1>6. InOrder'
  <2>1. \A u \in Threads : Holds(u)' = Holds(u)
      BY <1>2 DEF Holds
  <2>2. Replaces(S, Head(todo[t]), made', Holds(t), Holds(t)')
      BY <1>1, <2>1, RunSteps DEF S, o
  <2> QED BY <1>2, <1>4, <2>1, <2>2, AdvanceInOrder DEF LazyInv
<1>7. ASSUME NEW u \in Threads, NEW p, NEW do \in {"done", "spin", "push", "type"}
      PROVE  Doing(u, p, do)' <=> Doing(u, p, do) \/ (u = t /\ Step(do, p) \in All(S))
  <2>1. Head(todo[t]) # Step(do, p)
      BY <1>1 DEF Step
  <2>2. CASE u = t
      BY <1>4, <2>1, <2>2, DoingSteps
  <2>3. CASE u # t
      BY <1>4, <2>3, DoingSteps
  <2> QED BY <2>2, <2>3
<1>8. \A p : /\ Step("done", p) \in All(S) => p = o
             /\ Step("push", p) \in All(S) => p = o /\ o \in {Pool, Factory}
             /\ Step("spin", p) \notin All(S) /\ Step("type", p) \notin All(S)
    BY <1>3 DEF Step
<1>9. once[o] = "uninitialized" /\ once \in [Onces -> {"uninitialized", "executing", "done"}]
    BY <1>4 DEF Typed, o
<1>10. Objects'
  <2>1. \A u \in Threads, p \in Onces : Doing(u, p, "done")' <=> Doing(u, p, "done") \/ (u = t /\ p = o)
      BY <1>3, <1>7, <1>8
  <2>2. \A u \in Threads, p \in Onces : Doing(u, p, "spin")' <=> Doing(u, p, "spin")
      BY <1>7, <1>8
  <2>3. \A u \in Threads : ~ Doing(u, o, "done")
      BY <1>1, <1>9 DEF LazyInv, Objects
  <2>4. \A p \in Onces : once'[p] = IF p = o THEN "executing" ELSE once[p]
      BY <1>2, <1>9
  <2>5. made' = made /\ ended' = ended
      BY <1>2
  <2> QED BY <1>1, <1>9, <2>1, <2>2, <2>3, <2>4, <2>5 DEF LazyInv, Objects
<1>11. Noted'
  <2>1. \A u \in Threads, p \in {Pool, Factory} :
           Doing(u, p, "push")' <=> Doing(u, p, "push") \/ (u = t /\ p = o)
      BY <1>3, <1>7, <1>8
  <2>2. \A p \in Onces : once'[p] = IF p = o THEN "executing" ELSE once[p]
      BY <1>2, <1>9
  <2>3. made' = made /\ shutdown' = shutdown
      BY <1>2 DEF tables
  <2> QED BY <1>1, <1>9, <2>1, <2>2, <2>3, StepTypes DEF LazyInv, Noted
<1>12. NewTypes'
  <2>1. \A u \in Threads, f \in Files : Doing(u, f, "type")' <=> Doing(u, f, "type")
      BY <1>7, <1>8
  <2> QED BY <1>2, <2>1, NewTypesKept DEF LazyInv, tables
<1>13. Unique' /\ Finished' /\ Exclusive'
    BY <1>1, <1>2 DEF LazyInv, Unique, Finished, Exclusive, tables
<1>14. Starting'
  <2>1. CASE started
      BY <2>1, <1>2 DEF Starting
  <2>2. CASE ~ started
    <3>1. o \in Singletons
        BY <1>1, <2>2, HeadStatic DEF Static, Step, o
    <3>2. \A s \in All(S) : \A a \in {"encode", "file", "push"}, f \in Files : ~ Adds(s, a, f)
        BY <3>1, <1>3, StepTypes DEF Adds, Is
    <3>3. \A a \in {"encode", "file", "push"}, f \in Files : ~ Adds(Head(todo[t]), a, f)
        BY <1>1 DEF Adds, Is, Step
    <3>4. AddedOnce(S)
        BY <3>2 DEF AddedOnce, All
    <3>5. \A a \in {"encode", "file", "push"} : Table(a)' = Table(a)
        BY <1>2 DEF Table, tables
    <3>6. Head(todo[t]).do # "main"
        BY <1>1 DEF Step
    <3> QED BY <1>2, <1>3, <1>4, <3>1, <3>2, <3>3, <3>4, <3>5, <3>6, StartingKept DEF LazyInv
  <2> QED BY <2>1, <2>2
<1>15. Started'
  <2>1. \A s \in All(S) : AfterStart(s)
      BY <1>3, StepTypes DEF AfterStart
  <2> QED BY <1>2, <1>4, <2>1, StartedKept DEF LazyInv, tables
<1> QED BY <1>5, <1>6, <1>10, <1>11, <1>12, <1>13, <1>14, <1>15 DEF LazyInv

\* A step that is done with: what is left.
LEMMA DropFacts ==
    ASSUME LazyAssumption, LazyInv, NEW t \in Threads, NEW do, Due(t, do), Continue(t),
           holder' = holder, made \subseteq made', do \notin {"lock", "unlock"},
           do \in {"once", "swap", "spin", "make"} => On(t) \in made'
    PROVE  /\ Advances(t, <<>>) /\ todo' \in [Threads -> Seq(Steps)] /\ InOrder'
           /\ \A u \in Threads : \A p, k :
                 /\ Doing(u, p, k)' => Doing(u, p, k)
                 /\ k # do \/ p # On(t) \/ u # t => (Doing(u, p, k)' <=> Doing(u, p, k))
           /\ \A p, k : Doing(t, p, k)' <=> Step(k, p) \in Rest(todo[t])
<1>1. Advances(t, <<>>) /\ Typed
    BY EmptyBody, GoesAdvances DEF Continue, LazyInv
<1>2. todo' \in [Threads -> Seq(Steps)]
    BY <1>1, AdvanceTyped DEF Typed
<1>3. Head(todo[t]) \in Steps /\ Head(todo[t]) = Step(do, On(t))
    BY HeadReady
<1>4. InOrder'
  <2>1. \A u \in Threads : Holds(u)' = Holds(u)
      BY DEF Holds
  <2>2. \A o \in Onces : Gives(Head(todo[t]), o) => o \in made'
      BY <1>3 DEF Gives, Step
  <2>3. Replaces(<<>>, Head(todo[t]), made', Holds(t), Holds(t)')
      BY <1>3, <2>1, <2>2, EmptyReplaces DEF Step
  <2> QED BY <1>1, <2>1, <2>3, AdvanceInOrder DEF LazyInv
<1>5. ASSUME NEW u \in Threads, NEW p, NEW k
      PROVE  /\ Doing(u, p, k)' => Doing(u, p, k)
             /\ k # do \/ p # On(t) \/ u # t => (Doing(u, p, k)' <=> Doing(u, p, k))
             /\ u = t => (Doing(u, p, k)' <=> Step(k, p) \in Rest(todo[t]))
  <2>1. Step(k, p) = Step(do, On(t)) => k = do /\ p = On(t)
      BY DEF Step
  <2>2. CASE u = t
      BY <1>1, <1>3, <2>1, <2>2, DoingSteps, EmptyBody
  <2>3. CASE u # t
      BY <1>1, <2>3, DoingSteps
  <2> QED BY <2>2, <2>3
<1> QED BY <1>1, <1>2, <1>4, <1>5

LEMMA DropStarting ==
    ASSUME LazyAssumption, LazyInv, NEW t \in Threads, NEW do, Due(t, do), Advances(t, <<>>),
           do \notin {"adddesc", "main"}, started' = started, ended' = ended,
           \A a \in {"encode", "file", "push"} :
              ToSet(Table(a)') = ToSet(Table(a)) \union (IF a = do THEN {On(t)} ELSE {})
    PROVE  Starting' /\ Started'
<1>1. Head(todo[t]) = Step(do, On(t))
    BY HeadReady
<1>2. \A a \in {"encode", "file", "push"}, f \in Files :
          Adds(Head(todo[t]), a, f) <=> a = do /\ f = On(t)
    BY <1>1 DEF Adds, Is, Step
<1>3. \A a \in {"encode", "file", "push"}, f \in Files :
          f \in ToSet(Table(a)') <=> f \in ToSet(Table(a)) \/ Adds(Head(todo[t]), a, f)
    BY <1>2
<1>4. AddedOnce(<<>>)
    BY DEF AddedOnce
<1>5. Head(todo[t]).do # "main"
    BY <1>1 DEF Step
<1>6. Starting'
    BY <1>3, <1>4, <1>5, EmptyBody, StartingKept DEF LazyInv
<1>7. /\ ToSet(database) \subseteq ToSet(database') /\ ToSet(fileMap) \subseteq ToSet(fileMap')
      /\ ToSet(shutdown) \subseteq ToSet(shutdown')
    BY DEF Table
<1>8. Started'
    BY <1>7, EmptyBody, StartedKept DEF LazyInv
<1> QED BY <1>6, <1>8

\* No second end of a closure is left behind the first.
LEMMA DoneOnce ==
    ASSUME LazyAssumption, LazyInv, NEW t \in Threads, Due(t, "done")
    PROVE  Step("done", On(t)) \notin Rest(todo[t])
<1> SUFFICES ASSUME NEW i \in 2 .. Len(todo[t]), todo[t][i] = Step("done", On(t)) PROVE FALSE
    BY DEF Rest
<1>1. /\ todo[t] \in Seq(Steps) /\ todo[t] # <<>> /\ todo[t][1] = Step("done", On(t))
      /\ todo[t][1] \in Steps
    BY HeadReady
<1>2. i \in DOMAIN todo[t] /\ 1 \in DOMAIN todo[t] /\ 1 < i
    BY <1>1
<1>3. Level(todo[t][1]) < Level(todo[t][i])
    BY <1>2 DEF LazyInv, InOrder, Orderly, Nested, Step
<1> QED BY <1>1, <1>3, LevelNat

LEMMA DoneKeeps == ASSUME LazyAssumption, LazyInv, NEW t \in Threads, Done(t) PROVE LazyInv'
<1>0. PICK o \in Onces : o = On(t)
    BY OnOnces DEF Done
<1>1. /\ Due(t, "done") /\ o \in Onces /\ Head(todo[t]) = Step("done", o) /\ ~ ended
      /\ Doing(t, o, "done") /\ o \in made /\ Continue(t)
    BY <1>0, HeadReady DEF Done, Wants, Step
<1>2. /\ once' = [once EXCEPT ![o] = "done"]
      /\ UNCHANGED <<made, holder, called, started, tables, ended>>
    BY <1>0 DEF Done
<1>3. /\ Advances(t, <<>>) /\ todo' \in [Threads -> Seq(Steps)] /\ InOrder'
      /\ \A u \in Threads : \A p, k :
            /\ Doing(u, p, k)' => Doing(u, p, k)
            /\ k # "done" \/ p # o \/ u # t => (Doing(u, p, k)' <=> Doing(u, p, k))
      /\ \A p, k : Doing(t, p, k)' <=> Step(k, p) \in Rest(todo[t])
    BY <1>0, <1>1, <1>2, DropFacts
<1>4. ~ Doing(t, o, "done")'
  <2>1. Step("done", o) \notin Rest(todo[t])
      BY <1>0, <1>1, DoneOnce
  <2> QED BY <2>1, <1>3
<1>5. once \in [Onces -> {"uninitialized", "executing", "done"}]
    BY DEF LazyInv, Typed
<1>6. \A p \in Onces : once'[p] = IF p = o THEN "done" ELSE once[p]
    BY <1>1, <1>2, <1>5
<1>7. Typed'
    BY <1>1, <1>2, <1>3, <1>5 DEF LazyInv, Typed, tables
<1>8. Objects'
  <2>1. \A u \in Threads : ~ Doing(u, o, "done")'
    <3>1. \A u \in Threads : Doing(u, o, "done") => u = t
        BY <1>1 DEF LazyInv, Objects
    <3> QED BY <3>1, <1>3, <1>4
  <2>2. \A u \in Threads, p \in Onces : p # o => (Doing(u, p, "done")' <=> Doing(u, p, "done"))
      BY <1>3
  <2>3. \A u \in Threads, p \in Onces : Doing(u, p, "spin")' <=> Doing(u, p, "spin")
      BY <1>3
  <2>4. made' = made /\ ended' = ended
      BY <1>2
  <2>5. \A u \in Threads, p \in Onces :
           /\ Doing(u, p, "done")' => once'[p] = "executing"
           /\ Doing(u, p, "spin")' => once'[p] # "uninitialized"
    <3> SUFFICES ASSUME NEW u \in Threads, NEW p \in Onces
                 PROVE  /\ Doing(u, p, "done")' => once'[p] = "executing"
                        /\ Doing(u, p, "spin")' => once'[p] # "uninitialized"
        OBVIOUS
    <3>1. Doing(u, p, "done") => once[p] = "executing"
        BY DEF LazyInv, Objects
    <3>2. Doing(u, p, "spin") => once[p] # "uninitialized"
        BY DEF LazyInv, Objects
    <3> QED BY <3>1, <3>2, <1>6, <2>1, <2>2, <2>3
  <2>6. \A u, v \in Threads, p \in Onces : Doing(u, p, "done")' /\ Doing(v, p, "done")' => u = v
      BY <2>1, <2>2 DEF LazyInv, Objects
  <2>7. ASSUME NEW p \in Onces
        PROVE  /\ once'[p] = "executing" => \E u \in Threads : Doing(u, p, "done")'
               /\ once'[p] = "done" /\ ~ ended' => p \in made'
               /\ p \in made' => once'[p] # "uninitialized"
    <3>1. /\ once[p] = "executing" => \E u \in Threads : Doing(u, p, "done")
          /\ once[p] = "done" /\ ~ ended => p \in made
          /\ p \in made => once[p] # "uninitialized"
        BY DEF LazyInv, Objects
    <3> QED BY <3>1, <1>1, <1>6, <2>2, <2>4
  <2> QED BY <2>5, <2>6, <2>7 DEF Objects
<1>9. Noted'
  <2>1. \A u \in Threads : \A p \in {Pool, Factory} : Doing(u, p, "push")' <=> Doing(u, p, "push")
      BY <1>3
  <2> QED BY <1>2, <1>6, <2>1, NotedKept DEF LazyInv, tables
<1>10. NewTypes'
    BY <1>2, <1>3, NewTypesKept DEF LazyInv, tables
<1>11. Unique' /\ Finished' /\ Exclusive'
    BY <1>1, <1>2 DEF LazyInv, Unique, Finished, Exclusive, tables
<1>12. Starting' /\ Started'
    BY <1>1, <1>2, <1>3, DropStarting DEF tables, Table
<1> QED BY <1>3, <1>7, <1>8, <1>9, <1>10, <1>11, <1>12 DEF LazyInv

LEMMA MakeKeeps == ASSUME LazyAssumption, LazyInv, NEW t \in Threads, Make(t) PROVE LazyInv'
<1>0. PICK o \in Onces : o = On(t)
    BY OnOnces DEF Make
<1>1. /\ Due(t, "make") /\ Head(todo[t]) = Step("make", o) /\ ~ ended /\ Continue(t)
      /\ todo[t][1] = Step("make", o) /\ 1 \in DOMAIN todo[t]
    BY <1>0, HeadReady DEF Make
<1>2. /\ made' = made \union {o}
      /\ UNCHANGED <<once, holder, called, started, tables, ended>>
    BY <1>0 DEF Make
<1>3. /\ Advances(t, <<>>) /\ todo' \in [Threads -> Seq(Steps)] /\ InOrder'
      /\ \A u \in Threads : \A p, k : k # "make" => (Doing(u, p, k)' <=> Doing(u, p, k))
    BY <1>0, <1>1, <1>2, DropFacts
<1>4. Doing(t, o, "done") /\ (o \in {Pool, Factory} => Doing(t, o, "push"))
  <2>1. Within(todo[t])
      BY DEF LazyInv, InOrder, Orderly
  <2>2. (\E k \in DOMAIN todo[t] : todo[t][k] = Step("done", o))
        /\ (o \in {Pool, Factory} => \E k \in DOMAIN todo[t] : todo[t][k] = Step("push", o))
      BY <2>1, <1>1 DEF Within, Step
  <2> QED BY <2>2 DEF Doing
<1>5. once[o] = "executing"
    BY <1>4 DEF LazyInv, Objects
<1>6. Typed'
    BY <1>2, <1>3 DEF LazyInv, Typed, tables
<1>7. Objects'
  <2>1. \A p \in made' \ made : once[p] # "uninitialized"
      BY <1>2, <1>5
  <2> QED BY <1>2, <1>3, <1>6, <2>1, ObjectsKept DEF LazyInv, Typed
<1>8. Noted'
    BY <1>2, <1>3, <1>4 DEF LazyInv, Noted, tables
<1>9. NewTypes'
    BY <1>2, <1>3, NewTypesKept DEF LazyInv, tables
<1>10. Unique' /\ Finished' /\ Exclusive'
    BY <1>1, <1>2 DEF LazyInv, Unique, Finished, Exclusive, tables
<1>11. Starting' /\ Started'
    BY <1>1, <1>2, <1>3, DropStarting DEF tables, Table
<1> QED BY <1>3, <1>6, <1>7, <1>8, <1>9, <1>10, <1>11 DEF LazyInv

\* What a static initializer is about to add is not there yet.
LEMMA NotAdded ==
    ASSUME LazyAssumption, LazyInv, NEW t \in Threads, NEW a \in {"encode", "file", "push"}, Due(t, a),
           On(t) \in Files
    PROVE  On(t) \notin ToSet(Table(a)) /\ ~ started
<1>1. Head(todo[t]) = Step(a, On(t)) /\ Head(todo[t]) \in All(todo[t])
    BY HeadReady DEF All
<1>2. ~ started
    BY <1>1 DEF LazyInv, Started, AfterStart, Step
<1>3. t = Main /\ Adds(Head(todo[t]), a, On(t))
    BY <1>1, <1>2, HeadStatic DEF Adds, Is, Step
<1> QED BY <1>1, <1>2, <1>3 DEF LazyInv, Starting

LEMMA EncodeKeeps == ASSUME LazyAssumption, LazyInv, NEW t \in Threads, Encode(t) PROVE LazyInv'
<1>0. PICK f \in Files : f = On(t)
    BY OnOnces DEF Encode
<1>1. Due(t, "encode") /\ ~ ended /\ Continue(t)
    BY HeadReady DEF Encode
<1>2. /\ database' = Append(database, f)
      /\ UNCHANGED <<once, made, holder, called, started, fileMap, built, typeMap, shutdown, ended>>
    BY <1>0 DEF Encode
<1>3. /\ Advances(t, <<>>) /\ todo' \in [Threads -> Seq(Steps)] /\ InOrder'
      /\ \A u \in Threads : \A p, k : k # "encode" => (Doing(u, p, k)' <=> Doing(u, p, k))
    BY <1>0, <1>1, <1>2, DropFacts
<1>4. f \notin ToSet(database)
    BY <1>0, <1>1, NotAdded DEF Table
<1>5. database \in Seq(Files) /\ IsInjective(database)
    BY DEF LazyInv, Typed, Unique
<1>6. IsInjective(database') /\ database' \in Seq(Files) /\ ToSet(database') = ToSet(database) \union {f}
    BY <1>2, <1>4, <1>5, AppendNew
<1>7. Typed'
    BY <1>2, <1>3, <1>6 DEF LazyInv, Typed
<1>8. Objects'
    BY <1>2, <1>3, ObjectsKept DEF LazyInv, Typed
<1>9. Noted' /\ NewTypes'
    BY <1>2, <1>3, NewTypesKept, NotedKept DEF LazyInv
<1>10. Unique' /\ Finished' /\ Exclusive'
    BY <1>1, <1>2, <1>6 DEF LazyInv, Unique, Finished, Exclusive
<1>11. Starting' /\ Started'
    BY <1>0, <1>1, <1>2, <1>3, <1>6, DropStarting DEF Table
<1> QED BY <1>3, <1>7, <1>8, <1>9, <1>10, <1>11 DEF LazyInv

LEMMA RegisterFileKeeps ==
    ASSUME LazyAssumption, LazyInv, NEW t \in Threads, RegisterFile(t) PROVE LazyInv'
<1>0. PICK f \in Files : f = On(t)
    BY OnOnces DEF RegisterFile
<1>1. Due(t, "file") /\ ~ ended /\ Continue(t)
    BY HeadReady DEF RegisterFile
<1>2. /\ fileMap' = Append(fileMap, f)
      /\ UNCHANGED <<once, made, holder, called, started, database, built, typeMap, shutdown, ended>>
    BY <1>0 DEF RegisterFile
<1>3. /\ Advances(t, <<>>) /\ todo' \in [Threads -> Seq(Steps)] /\ InOrder'
      /\ \A u \in Threads : \A p, k : k # "file" => (Doing(u, p, k)' <=> Doing(u, p, k))
    BY <1>0, <1>1, <1>2, DropFacts
<1>4. f \notin ToSet(fileMap)
    BY <1>0, <1>1, NotAdded DEF Table
<1>5. fileMap \in Seq(Files) /\ IsInjective(fileMap)
    BY DEF LazyInv, Typed, Unique
<1>6. IsInjective(fileMap') /\ fileMap' \in Seq(Files) /\ ToSet(fileMap') = ToSet(fileMap) \union {f}
    BY <1>2, <1>4, <1>5, AppendNew
<1>7. Typed'
    BY <1>2, <1>3, <1>6 DEF LazyInv, Typed
<1>8. Objects'
    BY <1>2, <1>3, ObjectsKept DEF LazyInv, Typed
<1>9. Noted' /\ NewTypes'
    BY <1>2, <1>3, NewTypesKept, NotedKept DEF LazyInv
<1>10. Unique' /\ Finished' /\ Exclusive'
    BY <1>1, <1>2, <1>6 DEF LazyInv, Unique, Finished, Exclusive
<1>11. Starting' /\ Started'
    BY <1>0, <1>1, <1>2, <1>3, <1>6, DropStarting DEF Table
<1> QED BY <1>3, <1>7, <1>8, <1>9, <1>10, <1>11 DEF LazyInv

LEMMA PushKeeps == ASSUME LazyAssumption, LazyInv, NEW t \in Threads, Push(t) PROVE LazyInv'
<1>0. PICK o \in Onces \ {List} : o = On(t)
    BY OnOnces DEF Push
<1>1. /\ Due(t, "push") /\ ~ ended /\ Continue(t) /\ List \in made
      /\ Head(todo[t]) = Step("push", o) /\ Doing(t, o, "push")
      /\ todo[t] \in Seq(Steps) /\ todo[t] # <<>> /\ todo[t][1] = Step("push", o)
    BY <1>0, HeadReady DEF Push, Wants, Needs, Step, List
<1>2. /\ shutdown' = Append(shutdown, o)
      /\ UNCHANGED <<once, made, holder, called, started, database, fileMap, built, typeMap, ended>>
    BY <1>0 DEF Push
<1>3. /\ Advances(t, <<>>) /\ todo' \in [Threads -> Seq(Steps)] /\ InOrder'
      /\ \A u \in Threads : \A p, k :
            /\ Doing(u, p, k)' => Doing(u, p, k)
            /\ k # "push" \/ p # o \/ u # t => (Doing(u, p, k)' <=> Doing(u, p, k))
      /\ \A p, k : Doing(t, p, k)' <=> Step(k, p) \in Rest(todo[t])
    BY <1>0, <1>1, <1>2, DropFacts
<1>4. o \in Files \/ o \in {Pool, Factory}
    BY StepTypes DEF Onces
<1>5. o \notin ToSet(shutdown)
  <2>1. CASE o \in Files
      BY <2>1, <1>0, <1>1, NotAdded DEF Table
  <2>2. CASE o \in {Pool, Factory}
      BY <2>2, <1>1 DEF LazyInv, Noted
  <2> QED BY <2>1, <2>2, <1>4
<1>6. /\ IsInjective(shutdown') /\ shutdown' \in Seq(Onces \ {List})
      /\ ToSet(shutdown') = ToSet(shutdown) \union {o}
  <2>1. shutdown \in Seq(Onces \ {List}) /\ IsInjective(shutdown)
      BY DEF LazyInv, Typed, Unique
  <2> QED BY <2>1, <1>2, <1>5, AppendNew
<1>7. Typed'
    BY <1>2, <1>3, <1>6 DEF LazyInv, Typed
<1>8. Objects'
    BY <1>2, <1>3, ObjectsKept DEF LazyInv, Typed
<1>9. NewTypes'
    BY <1>2, <1>3, NewTypesKept DEF LazyInv
\* a closure lists its object once
<1>10. o \in {Pool, Factory} => once[o] = "executing" /\ \A u \in Threads : ~ Doing(u, o, "push")'
  <2> SUFFICES ASSUME o \in {Pool, Factory}
               PROVE  once[o] = "executing" /\ \A u \in Threads : ~ Doing(u, o, "push")'
      OBVIOUS
  <2>1. ASSUME NEW u \in Threads, Doing(u, o, "push") PROVE Doing(u, o, "done")
    <3>1. PICK i \in DOMAIN todo[u] : todo[u][i] = Step("push", o)
        BY <2>1 DEF Doing
    <3>2. o \in Singletons
        BY StepTypes
    <3>3. \E k \in DOMAIN todo[u] : todo[u][k] = Step("done", o)
        BY <3>1, <3>2 DEF LazyInv, InOrder, Orderly, Within, Step
    <3> QED BY <3>3 DEF Doing
  <2>2. once[o] = "executing"
      BY <1>1, <2>1 DEF LazyInv, Objects
  <2>3. \A u \in Threads : Doing(u, o, "push") => u = t
      BY <1>1, <2>1 DEF LazyInv, Objects
  <2>4. Step("push", o) \notin Rest(todo[t])
    <3> SUFFICES ASSUME NEW i \in 2 .. Len(todo[t]), todo[t][i] = Step("push", o) PROVE FALSE
        BY DEF Rest
    <3>1. i \in DOMAIN todo[t] /\ 1 \in DOMAIN todo[t] /\ 1 < i
        BY <1>1
    <3>2. Single(todo[t]) /\ o \in Singletons
        BY StepTypes DEF LazyInv, InOrder, Orderly
    <3> QED BY <3>1, <3>2, <1>1 DEF Single, Step
  <2> QED BY <2>2, <2>3, <2>4, <1>3
<1>11. Noted'
  <2>1. ASSUME NEW p \in {Pool, Factory}
        PROVE  /\ \A u \in Threads : Doing(u, p, "push")' => p \notin ToSet(shutdown')
               /\ p \in ToSet(shutdown') => once'[p] # "uninitialized"
               /\ p \in made' => p \in ToSet(shutdown') \/ \E u \in Threads : Doing(u, p, "push")'
    <3>1. /\ \A u \in Threads : Doing(u, p, "push") => p \notin ToSet(shutdown)
          /\ p \in ToSet(shutdown) => once[p] # "uninitialized"
          /\ p \in made => p \in ToSet(shutdown) \/ \E u \in Threads : Doing(u, p, "push")
        BY DEF LazyInv, Noted
    <3>2. CASE p = o
        BY <3>1, <3>2, <1>2, <1>6, <1>10
    <3>3. CASE p # o
        BY <3>1, <3>3, <1>2, <1>3, <1>6
    <3> QED BY <3>2, <3>3
  <2>2. List \in made'
      BY <1>1, <1>2
  <2> QED BY <2>1, <2>2 DEF Noted
<1>12. Unique' /\ Finished' /\ Exclusive'
    BY <1>1, <1>2, <1>6 DEF LazyInv, Unique, Finished, Exclusive
<1>13. Starting' /\ Started'
    BY <1>0, <1>1, <1>2, <1>3, <1>6, DropStarting DEF Table
<1> QED BY <1>3, <1>7, <1>8, <1>9, <1>11, <1>12, <1>13 DEF LazyInv

LEMMA RegisterTypeKeeps ==
    ASSUME LazyAssumption, LazyInv, NEW t \in Threads, RegisterType(t) PROVE LazyInv'
<1>0. PICK f \in Files : f = On(t)
    BY OnOnces DEF RegisterType
<1>1. /\ Due(t, "type") /\ ~ ended /\ Continue(t) /\ Factory \in Holds(t) /\ Doing(t, f, "type")
      /\ todo[t] \in Seq(Steps) /\ todo[t] # <<>> /\ todo[t][1] = Step("type", f)
    BY <1>0, HeadReady DEF RegisterType
<1>2. /\ typeMap' = Append(typeMap, f)
      /\ UNCHANGED <<once, made, holder, called, started, database, fileMap, built, shutdown, ended>>
    BY <1>0 DEF RegisterType
<1>3. /\ Advances(t, <<>>) /\ todo' \in [Threads -> Seq(Steps)] /\ InOrder'
      /\ \A u \in Threads : \A p, k : Doing(u, p, k)' => Doing(u, p, k)
      /\ \A u \in Threads : \A p, k : k # "type" => (Doing(u, p, k)' <=> Doing(u, p, k))
      /\ \A p, k : Doing(t, p, k)' <=> Step(k, p) \in Rest(todo[t])
    BY <1>0, <1>1, <1>2, DropFacts
<1>4. f \notin ToSet(typeMap)
    BY <1>1 DEF LazyInv, NewTypes
<1>5. typeMap \in Seq(Files) /\ IsInjective(typeMap)
    BY DEF LazyInv, Typed, Unique
<1>6. IsInjective(typeMap') /\ typeMap' \in Seq(Files) /\ ToSet(typeMap') = ToSet(typeMap) \union {f}
    BY <1>2, <1>4, <1>5, AppendNew
<1>7. Typed'
    BY <1>2, <1>3, <1>6 DEF LazyInv, Typed
<1>8. Objects'
    BY <1>2, <1>3, ObjectsKept DEF LazyInv, Typed
<1>9. Noted'
    BY <1>2, <1>3, NotedKept DEF LazyInv
\* no one else, and nothing later, is registering a type
<1>10. ASSUME NEW u \in Threads, NEW g PROVE ~ Doing(u, g, "type")'
  <2> SUFFICES ASSUME Doing(u, g, "type")' PROVE FALSE
      OBVIOUS
  <2>1. PICK i \in DOMAIN todo[u] : todo[u][i] = Step("type", g)
      BY <1>3 DEF Doing
  <2>2. Factory \in Holds(u) /\ i = Len(todo[u]) - 1
      BY <2>1 DEF LazyInv, InOrder, Orderly, Registers, Step
  <2>3. u = t
      BY <1>1, <2>2 DEF Holds, LazyInv, Exclusive
  <2>4. PICK k \in 2 .. Len(todo[t]) : todo[t][k] = Step("type", g)
      BY <1>3, <2>3 DEF Rest
  <2>5. k \in DOMAIN todo[t] /\ 1 \in DOMAIN todo[t] /\ k # 1
      BY <1>1
  <2>6. k = Len(todo[t]) - 1 /\ 1 = Len(todo[t]) - 1
      BY <1>1, <2>4, <2>5 DEF LazyInv, InOrder, Orderly, Registers, Step
  <2> QED BY <2>5, <2>6
<1>11. NewTypes'
    BY <1>10 DEF NewTypes
<1>12. Unique' /\ Finished' /\ Exclusive'
    BY <1>1, <1>2, <1>6 DEF LazyInv, Unique, Finished, Exclusive
<1>13. Starting' /\ Started'
    BY <1>0, <1>1, <1>2, <1>3, DropStarting DEF Table
<1> QED BY <1>3, <1>7, <1>8, <1>9, <1>11, <1>12, <1>13 DEF LazyInv

LEMMA AddDescSteps ==
    ASSUME LazyAssumption, NEW f \in Files
    PROVE  /\ AddedOnce(AddDesc(f))
           /\ \A a \in {"encode", "file", "push"} : \E s \in All(AddDesc(f)) : Adds(s, a, f)
           /\ \A s \in All(AddDesc(f)) :
                 /\ s.do \notin {"swap", "done", "spin", "type", "adddesc", "main"}
                 /\ s.do \in {"encode", "file", "push"} => s.on = f
                 /\ Static(s)
<1> DEFINE S == AddDesc(f)
<1>1. /\ S \in Seq(Steps) /\ Len(S) = 8 /\ DOMAIN S = 1 .. 8
      /\ S[1] = Step("once", Pool) /\ S[2] = Step("encode", f)
      /\ S[3] = Step("once", Factory) /\ S[4] = Step("file", f) /\ S[5] = Step("once", List)
      /\ S[6] = Step("lock", List) /\ S[7] = Step("push", f) /\ S[8] = Step("unlock", List)
    BY AddDescOf DEF Once, Lock, Unlock
<1> HIDE DEF S
<1>2. \A i \in DOMAIN S : i = 1 \/ i = 2 \/ i = 3 \/ i = 4 \/ i = 5 \/ i = 6 \/ i = 7 \/ i = 8
    BY <1>1
<1>3. {Pool, Factory, List} \subseteq Singletons
    BY StepTypes
<1>4. \A i \in DOMAIN S :
         /\ S[i].do \notin {"swap", "done", "spin", "type", "adddesc", "main"}
         /\ S[i].do \in {"encode", "file", "push"} => S[i].on = f
         /\ Static(S[i])
    BY <1>1, <1>2, <1>3 DEF Step, Static
<1>5. AddedOnce(S)
  <2>1. \A i \in DOMAIN S :
           /\ S[i].do # "adddesc"
           /\ S[i].do = "encode" => i = 2
           /\ S[i].do = "file" => i = 4
           /\ S[i].do = "push" => i = 7
      BY <1>1, <1>2 DEF Step
  <2> SUFFICES ASSUME NEW a \in {"encode", "file", "push"}, NEW g \in Files,
                      NEW i \in DOMAIN S, NEW k \in DOMAIN S, i < k, Adds(S[i], a, g), Adds(S[k], a, g)
               PROVE  FALSE
      BY DEF AddedOnce
  <2>2. S[i].do = a /\ S[k].do = a
      BY <2>1 DEF Adds, Is
  <2> QED BY <2>1, <2>2
<1>6. Adds(S[2], "encode", f) /\ Adds(S[4], "file", f) /\ Adds(S[7], "push", f)
    BY <1>1 DEF Adds, Is, Step
<1>7. S[2] \in All(S) /\ S[4] \in All(S) /\ S[7] \in All(S)
    BY <1>1 DEF All
<1>8. \A a \in {"encode", "file", "push"} : \E s \in All(S) : Adds(s, a, f)
    BY <1>6, <1>7
<1> QED BY <1>4, <1>5, <1>8 DEF All, S

LEMMA AddDescOnceKeeps ==
    ASSUME LazyAssumption, LazyInv, NEW t \in Threads, AddDescOnce(t) PROVE LazyInv'
<1>0. PICK f \in Files : f = On(t)
    BY OnOnces DEF AddDescOnce
<1>1. /\ Due(t, "adddesc") /\ ~ ended /\ Head(todo[t]) = Step("adddesc", f)
      /\ Head(todo[t]) \in All(todo[t]) /\ Head(todo[t]) \in Steps
    BY <1>0, HeadReady DEF AddDescOnce, All
<1> DEFINE S == IF f \in ToSet(database) THEN <<>> ELSE AddDesc(f)
<1>2. /\ S \in Seq(Steps) /\ Goes(t, S)
      /\ UNCHANGED <<once, made, holder, called, started, tables, ended>>
    BY <1>0, AddDescOf DEF AddDescOnce
\* once static initialization is over, nothing is left to add
<1>3. f \in ToSet(database) <=> started
  <2>1. started => f \in ToSet(database)
      BY DEF LazyInv, Started
  <2>2. ASSUME ~ started PROVE f \notin ToSet(database)
    <3>0. t = Main
        BY <1>1, <2>2, HeadStatic
    <3>1. t = Main /\ Adds(Head(todo[t]), "encode", f)
        BY <1>1, <3>0 DEF Adds, Is, Step
    <3>2. f \notin ToSet(Table("encode"))
        BY <1>1, <2>2, <3>1 DEF LazyInv, Starting
    <3> QED BY <3>2 DEF Table
  <2> QED BY <2>1, <2>2
<1>4. \A u \in Threads : Holds(u)' = Holds(u)
    BY <1>2 DEF Holds
<1>5. Replaces(S, Head(todo[t]), made', Holds(t), Holds(t)')
  <2>1. CASE started
      BY <1>1, <1>3, <1>4, <2>1, EmptyReplaces DEF Step, Gives
  <2>2. CASE ~ started
      BY <1>1, <1>3, <1>4, <2>2, AddDescReplaces
  <2> QED BY <2>1, <2>2
<1>6. /\ AddedOnce(S)
      /\ \A s \in All(S) :
            /\ s.do \notin {"swap", "done", "spin", "type", "adddesc", "main"}
            /\ s.do \in {"encode", "file", "push"} => s.on = f /\ ~ started
            /\ Static(s)
      /\ ~ started => \A a \in {"encode", "file", "push"} : \E s \in All(S) : Adds(s, a, f)
  <2>1. CASE started
      BY <1>3, <2>1, EmptyBody DEF AddedOnce
  <2>2. CASE ~ started
      BY <1>3, <2>2, AddDescSteps
  <2> QED BY <2>1, <2>2
<1> HIDE DEF S
<1>7. Typed /\ Advances(t, S)
    BY <1>1, <1>2, GoesAdvances DEF LazyInv
<1>8. Typed'
    BY <1>2, <1>7, AdvanceTyped DEF Typed, tables
<1>9. InOrder'
    BY <1>2, <1>4, <1>5, <1>7, AdvanceInOrder DEF LazyInv
<1>10. \A do \in {"done", "spin", "type"} : \A u \in Threads : \A p :
          Doing(u, p, do)' <=> Doing(u, p, do)
  <2>1. \A do \in {"done", "spin", "type"} : \A p : Head(todo[t]) # Step(do, p)
      BY <1>1 DEF Step
  <2> QED BY <1>6, <1>7, <2>1, DoingKept
<1>11. \A u \in Threads : \A p \in {Pool, Factory} : Doing(u, p, "push")' <=> Doing(u, p, "push")
  <2> SUFFICES ASSUME NEW u \in Threads, NEW p \in {Pool, Factory}
               PROVE  Doing(u, p, "push")' <=> Doing(u, p, "push")
      OBVIOUS
  <2>1. Head(todo[t]) # Step("push", p)
      BY <1>1 DEF Step
  <2>2. Step("push", p) \notin All(S)
      BY <1>6, StepTypes DEF Step
  <2>3. CASE u = t
      BY <1>7, <2>1, <2>2, <2>3, DoingSteps
  <2>4. CASE u # t
      BY <1>7, <2>4, DoingSteps
  <2> QED BY <2>3, <2>4
<1>12. Objects'
    BY <1>2, <1>10, ObjectsKept DEF LazyInv, Typed
<1>13. Noted'
    BY <1>2, <1>11, NotedKept DEF LazyInv, tables
<1>14. NewTypes'
    BY <1>2, <1>10, NewTypesKept DEF LazyInv, tables
<1>15. Unique' /\ Finished' /\ Exclusive'
    BY <1>1, <1>2 DEF LazyInv, Unique, Finished, Exclusive, tables
<1>16. Starting'
  <2>1. \A a \in {"encode", "file", "push"} : Table(a)' = Table(a)
      BY <1>2 DEF Table, tables
  <2>2. Head(todo[t]).do = "adddesc" /\ Head(todo[t]).on = f
      BY <1>1 DEF Step
  <2>3. \A a \in {"encode", "file", "push"}, g \in Files : Adds(Head(todo[t]), a, g) <=> g = f
      BY <2>2 DEF Adds, Is
  <2>4. \A s \in All(S) : \A a \in {"encode", "file", "push"}, g \in Files : Adds(s, a, g) => g = f
      BY <1>6 DEF Adds, Is
  <2>5. ~ started => \A s \in All(S) : Static(s) /\ s.do # "main"
      BY <1>6
  <2>6. ~ started => \A a \in {"encode", "file", "push"}, g \in Files :
           ~ (Adds(Head(todo[t]), a, g) /\ \A s \in All(S) : ~ Adds(s, a, g))
      BY <1>6, <2>3
  <2>7. ~ started => \A a \in {"encode", "file", "push"}, g \in Files :
           g \in ToSet(Table(a)') <=>
              \/ g \in ToSet(Table(a))
              \/ Adds(Head(todo[t]), a, g) /\ \A s \in All(S) : ~ Adds(s, a, g)
      BY <2>1, <2>6
  <2>8. \A s \in All(S) : \A a \in {"encode", "file", "push"}, g \in Files :
           Adds(s, a, g) => Adds(Head(todo[t]), a, g)
      BY <2>3, <2>4
  <2> QED BY <1>2, <1>6, <1>7, <2>2, <2>5, <2>7, <2>8, StartingKept DEF LazyInv
<1>17. Started'
  <2>1. started => \A s \in All(S) : AfterStart(s)
      BY <1>6 DEF AfterStart
  <2> QED BY <1>2, <1>7, <2>1, StartedKept DEF LazyInv, tables
<1> QED BY <1>8, <1>9, <1>12, <1>13, <1>14, <1>15, <1>16, <1>17 DEF LazyInv

(* Static initialization is over: the initializers have added every file.   *)
LEMMA EnterMainKeeps == ASSUME LazyAssumption, LazyInv, EnterMain PROVE LazyInv'
<1>0. Main \in Threads
    BY DEF LazyAssumption
<1>1. /\ Due(Main, "main") /\ ~ ended /\ Continue(Main) /\ Head(todo[Main]) = Step("main", On(Main))
      /\ todo[Main] \in Seq(Steps) /\ todo[Main] # <<>> /\ Head(todo[Main]) = todo[Main][1]
      /\ 1 \in DOMAIN todo[Main]
    BY <1>0, HeadReady DEF EnterMain
<1>2. /\ started' = TRUE
      /\ UNCHANGED <<once, made, holder, called, tables, ended>>
    BY DEF EnterMain
<1>3. /\ Advances(Main, <<>>) /\ todo' \in [Threads -> Seq(Steps)] /\ InOrder'
      /\ \A u \in Threads : \A p, k : k # "main" => (Doing(u, p, k)' <=> Doing(u, p, k))
    BY <1>0, <1>1, <1>2, DropFacts
<1>4. ~ started
  <2>1. Head(todo[Main]) \in All(todo[Main]) /\ ~ AfterStart(Head(todo[Main]))
      BY <1>1 DEF All, AfterStart, Step
  <2> QED BY <1>0, <2>1 DEF LazyInv, Started
<1>5. Len(todo[Main]) = 1
  <2>1. Begun(todo[Main]) /\ todo[Main][1].do = "main"
      BY <1>1, <1>4 DEF LazyInv, Starting, Step
  <2> QED BY <1>1, <2>1 DEF Begun
<1>6. \A u \in Threads : todo'[u] = <<>>
  <2>1. Splice(<<>>, todo[Main]) = <<>>
    <3>1. Tail(todo[Main]) \in Seq(Steps) /\ Len(Tail(todo[Main])) = 0
        BY <1>1, <1>5
    <3>2. Tail(todo[Main]) = <<>>
        BY <3>1, EmptySeq
    <3>3. <<>> \o <<>> = <<>>
        OBVIOUS
    <3> QED BY <3>2, <3>3 DEF Splice
  <2>2. \A u \in Threads : u # Main => todo'[u] = todo[u]
      BY <1>3 DEF Advances, LazyInv, Typed
  <2>3. todo'[Main] = <<>>
      BY <1>0, <1>3, <2>1 DEF Advances, LazyInv, Typed
  <2> QED BY <1>4, <2>2, <2>3 DEF LazyInv, Starting
<1>7. \A a \in {"encode", "file", "push"} : Files \subseteq ToSet(Table(a))
  <2>1. All(todo[Main]) = {Head(todo[Main])}
      BY <1>1, <1>5 DEF All
  <2>2. \A a \in {"encode", "file", "push"}, f \in Files : ~ Adds(Head(todo[Main]), a, f)
      BY <1>1 DEF Adds, Is, Step
  <2> QED BY <1>4, <2>1, <2>2 DEF LazyInv, Starting
<1>8. Typed'
    BY <1>2, <1>3 DEF LazyInv, Typed, tables
<1>9. Objects'
    BY <1>2, <1>3, ObjectsKept DEF LazyInv, Typed
<1>10. Noted' /\ NewTypes'
    BY <1>2, <1>3, NewTypesKept, NotedKept DEF LazyInv, tables
<1>11. Unique' /\ Finished' /\ Exclusive'
    BY <1>1, <1>2 DEF LazyInv, Unique, Finished, Exclusive, tables
<1>12. Starting'
    BY <1>2 DEF Starting
<1>13. Started'
  <2>1. \A u \in Threads : All(todo'[u]) = {}
      BY <1>6 DEF All
  <2>2. /\ Files \subseteq ToSet(database) /\ Files \subseteq ToSet(fileMap)
        /\ Files \subseteq ToSet(shutdown)
    <3>1. Table("encode") = database /\ Table("file") = fileMap /\ Table("push") = shutdown
        BY DEF Table
    <3> QED BY <3>1, <1>7
  <2> QED BY <1>2, <2>1, <2>2 DEF Started, tables
<1> QED BY <1>3, <1>8, <1>9, <1>10, <1>11, <1>12, <1>13 DEF LazyInv

(* Nobody runs: what is set is on the list.                                 *)
LEMMA AllNoted ==
    ASSUME LazyAssumption, LazyInv, started, ~ ended, \A t \in Threads : todo[t] = <<>>
    PROVE  /\ List \in made /\ made \ {List} \subseteq ToSet(shutdown)
           /\ \A o \in Onces : once[o] # "executing"
<1>1. \A t \in Threads : \A o, do : ~ Doing(t, o, do)
    BY DEF Doing
<1>2. Files \subseteq ToSet(shutdown)
    BY DEF LazyInv, Started
<1>3. shutdown # <<>>
  <2>1. OptionsFile \in ToSet(shutdown)
      BY <1>2 DEF LazyAssumption
  <2> QED BY <2>1 DEF ToSet
<1>4. List \in made
    BY <1>3 DEF LazyInv, Noted
<1>5. \A o \in {Pool, Factory} : o \in made => o \in ToSet(shutdown)
    BY <1>1 DEF LazyInv, Noted
<1>6. made \ {List} \subseteq ToSet(shutdown)
    BY <1>2, <1>5, StepTypes DEF LazyInv, Typed, Onces
<1>7. \A o \in Onces : once[o] # "executing"
    BY <1>1 DEF LazyInv, Objects
<1> QED BY <1>4, <1>6, <1>7

LEMMA ShutdownKeeps == ASSUME LazyAssumption, LazyInv, Shutdown PROVE LazyInv'
<1>1. /\ started /\ started' = started /\ ended' = TRUE
      /\ \A t \in Threads : todo[t] = <<>> /\ todo'[t] = <<>>
      /\ once' = [once EXCEPT ![List] = "done"]
      /\ UNCHANGED <<holder, todo, database, fileMap, built, typeMap>>
    BY DEF Shutdown, List
<1>2. \A t \in Threads : \A o, do : ~ Doing(t, o, do) /\ ~ Doing(t, o, do)'
    BY <1>1 DEF Doing
<1>3. made' = {} /\ shutdown' = <<>>
  <2>1. CASE ended
    <3>1. made = {} /\ shutdown = <<>>
        BY <2>1 DEF LazyInv, Finished
    <3> QED BY <3>1 DEF Shutdown
  <2>2. CASE ~ ended
    <3>1. List \in made /\ made \ {List} \subseteq ToSet(shutdown)
        BY <1>1, <2>2, AllNoted
    <3> QED BY <3>1 DEF Shutdown, List
  <2> QED BY <2>1, <2>2
<1>4. Typed'
  <2>1. once' \in [Onces -> {"uninitialized", "executing", "done"}]
      BY <1>1 DEF LazyInv, Typed
  <2>2. shutdown' \in Seq(Onces \ {List}) /\ made' \subseteq Onces
      BY <1>3
  <2> QED BY <1>1, <2>1, <2>2 DEF LazyInv, Typed
<1>5. InOrder'
    BY <1>1 DEF InOrder, Orderly, Met, Fresh, Nested, Within, Single, Guarded, Registers
<1>6. Objects'
  <2>1. \A o \in Onces : once'[o] # "executing"
    <3>1. \A o \in Onces : once[o] # "executing"
        BY <1>2 DEF LazyInv, Objects
    <3> QED BY <1>1, <3>1 DEF LazyInv, Typed
  <2> QED BY <1>1, <1>2, <1>3, <2>1 DEF Objects
<1>7. Exclusive'
    BY <1>1 DEF LazyInv, Exclusive
<1>8. Unique'
  <2>1. IsInjective(<<>>)
      BY DEF IsInjective
  <2> QED BY <1>1, <1>3, <2>1 DEF LazyInv, Unique
<1>9. NewTypes' /\ Noted'
  <2>1. ToSet(<<>>) = {}
      BY DEF ToSet
  <2> QED BY <1>2, <1>3, <2>1 DEF NewTypes, Noted
<1>10. Finished' /\ Starting'
  <2>1. once'[List] = "done"
      BY <1>1, StepTypes DEF LazyInv, Typed
  <2> QED BY <1>1, <1>3, <2>1 DEF Finished, Starting
<1>11. Started'
  <2>1. \A u \in Threads : All(todo'[u]) = {}
      BY <1>1 DEF All
  <2> QED BY <1>1, <2>1 DEF LazyInv, Started
<1> QED BY <1>4, <1>5, <1>6, <1>7, <1>8, <1>9, <1>10, <1>11 DEF LazyInv

-----------------------------------------------------------------------------
(* The calls of the program are in order.                                   *)
CallSteps == {"once", "use", "lock", "peek", "find", "unlock"}

LEMMA CallToUse ==
    ASSUME LazyAssumption, NEW f \in Files, NEW M, NEW L, NEW S \in Seq(Steps), Len(S) = 2,
           S[1] = Step("once", f), S[2] = Step("use", f)
    PROVE  Orderly(S, M, L) /\ \A s \in All(S) : s.do \in CallSteps
<1>1. DOMAIN S = 1 .. 2
    OBVIOUS
<1>2. /\ Pool # Factory /\ Pool # List /\ Factory # List /\ Singletons = {Pool, Factory, List}
      /\ \A g \in Files : g \notin {Pool, Factory, List}
    BY StepTypes DEF Pool, Factory, List
<1>3. \A i \in DOMAIN S : i = 1 \/ i = 2
    BY <1>1
<1>4. Met(S, M)
  <2>1. Wants(S[1]) = {} /\ Wants(S[2]) = {f}
      BY <1>1, <1>2 DEF Wants, Needs, Step, Pool, Factory, List
  <2>2. Gives(S[1], f)
      BY <1>1 DEF Gives, Step
  <2> QED BY <2>1, <2>2, <1>3 DEF Met
<1>5. Fresh(S) /\ Nested(S) /\ Within(S) /\ Single(S)
  <2>1. \A i \in DOMAIN S : S[i].do \notin {"swap", "spin", "done", "make", "push"}
      BY <1>1, <1>3 DEF Step
  <2> QED BY <2>1 DEF Fresh, Nested, Within, Single
<1>6. Guarded(S, L)
    BY <1>1, <1>2, <1>3 DEF Guarded, Step, Is, Mutex
<1>7. Registers(S, L)
    BY <1>1, <1>3 DEF Registers, Step
<1>8. \A s \in All(S) : s.do \in CallSteps
    BY <1>1, <1>3 DEF All, CallSteps, Step
<1> QED BY <1>4, <1>5, <1>6, <1>7, <1>8 DEF Orderly

LEMMA CallForPrototype ==
    ASSUME LazyAssumption, NEW f \in Files, NEW M, NEW L, NEW S \in Seq(Steps), Len(S) = 5,
           S[1] = Step("once", f), S[2] = Step("use", f), S[3] = Step("once", Factory),
           S[4] = Step("lock", Factory), S[5] = Step("peek", f)
    PROVE  Orderly(S, M, L) /\ \A s \in All(S) : s.do \in CallSteps
<1>1. DOMAIN S = 1 .. 5
    OBVIOUS
<1>2. /\ Pool # Factory /\ Pool # List /\ Factory # List /\ Singletons = {Pool, Factory, List}
      /\ \A g \in Files : g \notin {Pool, Factory, List}
    BY StepTypes DEF Pool, Factory, List
<1>3. \A i \in DOMAIN S : i = 1 \/ i = 2 \/ i = 3 \/ i = 4 \/ i = 5
    BY <1>1
<1>4. Met(S, M)
  <2>1. Wants(S[1]) = {} /\ Wants(S[2]) = {f} /\ Wants(S[3]) = {} /\ Wants(S[4]) = {Factory} /\ Wants(S[5]) = {Factory}
      BY <1>1, <1>2 DEF Wants, Needs, Step, Pool, Factory, List
  <2>2. Gives(S[1], f) /\ Gives(S[3], Factory)
      BY <1>1 DEF Gives, Step
  <2> QED BY <2>1, <2>2, <1>3 DEF Met
<1>5. Fresh(S) /\ Nested(S) /\ Within(S) /\ Single(S)
  <2>1. \A i \in DOMAIN S : S[i].do \notin {"swap", "spin", "done", "make", "push"}
      BY <1>1, <1>3 DEF Step
  <2> QED BY <2>1 DEF Fresh, Nested, Within, Single
<1>6. Guarded(S, L)
    BY <1>1, <1>2, <1>3 DEF Guarded, Step, Is, Mutex
<1>7. Registers(S, L)
    BY <1>1, <1>3 DEF Registers, Step
<1>8. \A s \in All(S) : s.do \in CallSteps
    BY <1>1, <1>3 DEF All, CallSteps, Step
<1> QED BY <1>4, <1>5, <1>6, <1>7, <1>8 DEF Orderly

LEMMA CallToFind ==
    ASSUME LazyAssumption, NEW f \in Files, NEW M, NEW L, NEW S \in Seq(Steps), Len(S) = 5,
           S[1] = Step("once", Pool), S[2] = Step("use", Pool), S[3] = Step("lock", Pool),
           S[4] = Step("find", f), S[5] = Step("unlock", Pool)
    PROVE  Orderly(S, M, L) /\ \A s \in All(S) : s.do \in CallSteps
<1>1. DOMAIN S = 1 .. 5
    OBVIOUS
<1>2. /\ Pool # Factory /\ Pool # List /\ Factory # List /\ Singletons = {Pool, Factory, List}
      /\ \A g \in Files : g \notin {Pool, Factory, List}
    BY StepTypes DEF Pool, Factory, List
<1>3. \A i \in DOMAIN S : i = 1 \/ i = 2 \/ i = 3 \/ i = 4 \/ i = 5
    BY <1>1
<1>4. Met(S, M)
  <2>1. Wants(S[1]) = {} /\ Wants(S[2]) = {Pool} /\ Wants(S[3]) = {Pool} /\ Wants(S[4]) = {Pool} /\ Wants(S[5]) = {Pool}
      BY <1>1, <1>2 DEF Wants, Needs, Step, Pool, Factory, List
  <2>2. Gives(S[1], Pool)
      BY <1>1 DEF Gives, Step
  <2> QED BY <2>1, <2>2, <1>3 DEF Met
<1>5. Fresh(S) /\ Nested(S) /\ Within(S) /\ Single(S)
  <2>1. \A i \in DOMAIN S : S[i].do \notin {"swap", "spin", "done", "make", "push"}
      BY <1>1, <1>3 DEF Step
  <2> QED BY <2>1 DEF Fresh, Nested, Within, Single
<1>6. Guarded(S, L)
    BY <1>1, <1>2, <1>3 DEF Guarded, Step, Is, Mutex
<1>7. Registers(S, L)
    BY <1>1, <1>3 DEF Registers, Step
<1>8. \A s \in All(S) : s.do \in CallSteps
    BY <1>1, <1>3 DEF All, CallSteps, Step
<1> QED BY <1>4, <1>5, <1>6, <1>7, <1>8 DEF Orderly

LEMMA CallInOrder ==
    ASSUME LazyAssumption, NEW f \in Files, NEW call \in Calls(f), NEW M, NEW L
    PROVE  call \in Seq(Steps) /\ Orderly(call, M, L) /\ \A s \in All(call) : s.do \in CallSteps
<1>0. /\ Step("once", f) \in Steps /\ Step("use", f) \in Steps /\ Step("once", Factory) \in Steps
      /\ Step("lock", Factory) \in Steps /\ Step("peek", f) \in Steps
      /\ Step("once", Pool) \in Steps /\ Step("use", Pool) \in Steps /\ Step("lock", Pool) \in Steps
      /\ Step("find", f) \in Steps /\ Step("unlock", Pool) \in Steps
    BY StepTypes DEF Once, Lock, Unlock
<1>1. CASE call = <<Once(f), Step("use", f)>>
  <2>1. /\ call \in Seq(Steps) /\ Len(call) = 2
        /\ call[1] = Step("once", f) /\ call[2] = Step("use", f)
      BY <1>0, <1>1 DEF Once
  <2> QED BY <2>1, CallToUse
<1>2. CASE call = <<Once(f), Step("use", f)>> \o GetPrototype(f)
  <2>1. call = <<Step("once", f), Step("use", f)>>
               \o <<Step("once", Factory), Step("lock", Factory), Step("peek", f)>>
      BY <1>2 DEF Once, Lock, GetPrototype, Factory
  <2>2. /\ call \in Seq(Steps) /\ Len(call) = 5
        /\ call[1] = Step("once", f) /\ call[2] = Step("use", f) /\ call[3] = Step("once", Factory)
        /\ call[4] = Step("lock", Factory) /\ call[5] = Step("peek", f)
      BY <2>1, <1>0
  <2> QED BY <2>2, CallForPrototype
<1>3. CASE call = <<Once(Pool), Step("use", Pool)>> \o FindFile(f)
  <2>1. call = <<Step("once", Pool), Step("use", Pool)>>
               \o <<Step("lock", Pool), Step("find", f), Step("unlock", Pool)>>
      BY <1>3 DEF Once, Lock, Unlock, FindFile, Pool
  <2>2. /\ call \in Seq(Steps) /\ Len(call) = 5
        /\ call[1] = Step("once", Pool) /\ call[2] = Step("use", Pool) /\ call[3] = Step("lock", Pool)
        /\ call[4] = Step("find", f) /\ call[5] = Step("unlock", Pool)
      BY <2>1, <1>0
  <2> QED BY <2>2, CallToFind
<1> QED BY <1>1, <1>2, <1>3 DEF Calls, Pool

LEMMA CalledSteps ==
    ASSUME LazyAssumption, LazyInv, NEW t \in Threads, Call(t)
    PROVE  \A s \in All(todo'[t]) : s.do \in CallSteps
<1>1. PICK f \in Files : \E call \in Calls(f) : todo' = [todo EXCEPT ![t] = call]
    BY DEF Call
<1>2. PICK call \in Calls(f) : todo' = [todo EXCEPT ![t] = call]
    BY <1>1
<1>3. todo'[t] = call
    BY <1>2 DEF LazyInv, Typed
<1> QED BY <1>3, CallInOrder

LEMMA CallKeeps == ASSUME LazyAssumption, LazyInv, NEW t \in Threads, Call(t) PROVE LazyInv'
<1>0. PICK f \in Files : \E call \in Calls(f) : todo' = [todo EXCEPT ![t] = call]
    BY DEF Call
<1>1. PICK call \in Calls(f) : todo' = [todo EXCEPT ![t] = call]
    BY <1>0
<1>2. /\ started /\ ~ ended /\ todo[t] = <<>> /\ todo \in [Threads -> Seq(Steps)]
      /\ UNCHANGED <<once, made, holder, started, tables, ended>>
    BY DEF Call, LazyInv, Typed
<1>3. call \in Seq(Steps) /\ Orderly(call, made, Holds(t)) /\ \A s \in All(call) : s.do \in CallSteps
    BY CallInOrder
<1>4. /\ todo' \in [Threads -> Seq(Steps)] /\ todo'[t] = call
      /\ \A u \in Threads : u # t => todo'[u] = todo[u]
    BY <1>1, <1>2, <1>3
<1>5. \A do \in {"done", "spin", "push", "type"} : \A u \in Threads : \A o :
         Doing(u, o, do)' <=> Doing(u, o, do)
  <2> SUFFICES ASSUME NEW do \in {"done", "spin", "push", "type"}, NEW u \in Threads, NEW o
               PROVE  Doing(u, o, do)' <=> Doing(u, o, do)
      OBVIOUS
  <2>1. CASE u = t
    <3>1. ~ Doing(t, o, do)
        BY <1>2 DEF Doing
    <3>2. \A k \in DOMAIN call : call[k].do \in CallSteps
        BY <1>3 DEF All
    <3>3. ~ Doing(t, o, do)'
        BY <3>2, <1>4 DEF Doing, CallSteps, Step
    <3> QED BY <2>1, <3>1, <3>3
  <2>2. CASE u # t
      BY <2>2, <1>4 DEF Doing
  <2> QED BY <2>1, <2>2
<1>6. Typed'
    BY <1>2, <1>4 DEF LazyInv, Typed, tables
<1>7. InOrder'
  <2>1. \A u \in Threads : Holds(u)' = Holds(u)
      BY <1>2 DEF Holds
  <2> QED BY <1>2, <1>3, <1>4, <2>1 DEF LazyInv, InOrder
<1>8. Objects'
    BY <1>2, <1>5, ObjectsKept DEF LazyInv, Typed
<1>9. Noted' /\ NewTypes'
    BY <1>2, <1>5, NewTypesKept, NotedKept DEF LazyInv, tables
<1>10. Unique' /\ Finished' /\ Exclusive' /\ Starting'
    BY <1>2 DEF LazyInv, Unique, Finished, Exclusive, Starting, tables
<1>11. Started'
  <2>1. \A s \in All(call) : AfterStart(s)
      BY <1>3 DEF AfterStart, CallSteps
  <2>2. \A u \in Threads : \A s \in All(todo'[u]) : AfterStart(s)
      BY <1>2, <1>4, <2>1 DEF LazyInv, Started
  <2> QED BY <1>2, <2>2 DEF LazyInv, Started, tables
<1> QED BY <1>6, <1>7, <1>8, <1>9, <1>10, <1>11 DEF LazyInv

(* Before anything ran: one static initializer for each file.               *)
LEMMA InitKeeps ==
    ASSUME LazyAssumption, StartInit
    PROVE  /\ LazyInv
           /\ \A t \in Threads : \A i \in DOMAIN todo[t] : todo[t][i].do \in {"adddesc", "main"}
<1> DEFINE n == Cardinality(Files)
<1>0. n \in Nat /\ Main \in Threads
    BY FS_CardinalityType DEF LazyAssumption
<1>1. PICK order \in [1 .. n -> Files] :
         /\ IsInjective(order)
         /\ todo = [t \in Threads |->
               IF t = Main
               THEN [k \in DOMAIN order |-> Step("adddesc", order[k])] \o <<Step("main", Main)>>
               ELSE <<>>]
    BY DEF StartInit
<1> HIDE DEF n
<1> DEFINE y == [k \in 1 .. n |-> Step("adddesc", order[k])]
           x == y \o <<Step("main", Main)>>
<1>2. /\ once = [o \in Onces |-> "uninitialized"] /\ made = {} /\ holder = [m \in Singletons |-> {}]
      /\ started = FALSE /\ ended = FALSE
      /\ database = <<>> /\ fileMap = <<>> /\ built = <<>> /\ typeMap = <<>> /\ shutdown = <<>>
    BY DEF StartInit
<1>3. \A f \in Files : \E k \in 1 .. n : order[k] = f
  <2>1. IsFiniteSet(1 .. n) /\ Cardinality(1 .. n) = n
      BY <1>0, FS_Interval
  <2>2. order \in Injection(1 .. n, Files)
      BY <1>1 DEF Injection
  <2>3. order \in Surjection(1 .. n, Files)
      BY <2>1, <2>2, FS_Injection DEF LazyAssumption, n
  <2> QED BY <2>3 DEF Surjection
<1>4. /\ x \in Seq(Steps) /\ Len(x) = n + 1 /\ DOMAIN x = 1 .. n + 1
      /\ \A k \in 1 .. n : x[k] = Step("adddesc", order[k])
      /\ x[n + 1] = Step("main", Main)
  <2>1. y \in Seq(Steps) /\ Len(y) = n
      BY <1>0, StepTypes
  <2>2. <<Step("main", Main)>> \in Seq(Steps)
      BY StepTypes
  <2> QED BY <1>0, <2>1, <2>2
<1>41. \A i \in DOMAIN x :
          \/ i \in 1 .. n /\ x[i].do = "adddesc" /\ x[i].on = order[i]
          \/ i = n + 1 /\ x[i].do = "main" /\ x[i].on = Main
  <2> HIDE DEF x, y
  <2> SUFFICES ASSUME NEW i \in 1 .. n + 1
               PROVE  \/ i \in 1 .. n /\ x[i].do = "adddesc" /\ x[i].on = order[i]
                      \/ i = n + 1 /\ x[i].do = "main" /\ x[i].on = Main
      BY <1>4
  <2>1. CASE i = n + 1
      BY <1>4, <2>1 DEF Step
  <2>2. CASE i \in 1 .. n
    <3>1. x[i] = Step("adddesc", order[i])
        BY <1>4, <2>2
    <3> QED BY <2>2, <3>1 DEF Step
  <2> QED BY <1>0, <2>1, <2>2
<1>5. todo[Main] = x /\ \A t \in Threads \ {Main} : todo[t] = <<>>
    BY <1>0, <1>1
<1> HIDE DEF x, y
<1>6. todo \in [Threads -> Seq(Steps)]
  <2>1. \A t \in Threads : todo[t] \in Seq(Steps)
      BY <1>4, <1>5, EmptyBody
  <2>2. todo = [t \in Threads |-> todo[t]]
      BY <1>1
  <2> QED BY <2>1, <2>2
<1>7. \A t \in Threads : \A i \in DOMAIN todo[t] : todo[t][i].do \in {"adddesc", "main"}
  <2>1. \A i \in DOMAIN x : x[i].do \in {"adddesc", "main"}
      BY <1>41
  <2> QED BY <1>5, <2>1
<1>8. \A t \in Threads : \A o : \A do \in {"done", "spin", "push", "type"} : ~ Doing(t, o, do)
    BY <1>7 DEF Doing, Step
<1>9. Typed
  <2>1. /\ once \in [Onces -> {"uninitialized", "executing", "done"}]
        /\ holder \in [Singletons -> SUBSET Threads]
      BY <1>2
  <2>2. /\ <<>> \in Seq(Files) /\ <<>> \in Seq(Onces \ {List})
      BY EmptySeq
  <2> QED BY <1>2, <1>6, <2>1, <2>2 DEF Typed
<1>10. InOrder
  <2> SUFFICES ASSUME NEW t \in Threads PROVE Orderly(todo[t], made, Holds(t))
      BY DEF InOrder
  <2>1. Met(todo[t], made)
      BY <1>7 DEF Met, Wants, Needs
  <2> QED BY <2>1, <1>7 DEF Orderly, Fresh, Nested, Within, Single, Guarded, Registers
<1>11. Objects /\ Exclusive /\ NewTypes /\ Finished /\ Started
    BY <1>2, <1>8 DEF Objects, Exclusive, NewTypes, Finished, Started
<1>12. Unique
    BY <1>2 DEF Unique, IsInjective
<1>13. Noted
  <2>1. ToSet(<<>>) = {}
      BY DEF ToSet
  <2> QED BY <1>2, <2>1 DEF Noted
<1>14. Starting
  <2>1. Begun(x)
    <3>1. x # <<>>
        BY <1>0, <1>4
    <3>2. AddedOnce(x)
      <4> SUFFICES ASSUME NEW a \in {"encode", "file", "push"}, NEW f \in Files,
                          NEW i \in DOMAIN x, NEW k \in DOMAIN x, i < k, Adds(x[i], a, f), Adds(x[k], a, f)
                   PROVE  FALSE
          BY DEF AddedOnce
      <4>1. i \in 1 .. n /\ k \in 1 .. n /\ order[i] = f /\ order[k] = f
          BY <1>41 DEF Adds, Is
      <4> QED BY <4>1, <1>1, <1>0 DEF IsInjective
    <3>3. \A i \in DOMAIN x : Static(x[i]) /\ (x[i].do = "main" <=> i = Len(x))
        BY <1>0, <1>4, <1>41 DEF Static
    <3> QED BY <3>1, <3>2, <3>3 DEF Begun
  <2>2. \A a \in {"encode", "file", "push"} : ToSet(Table(a)) = {}
      BY <1>2 DEF Table, ToSet
  <2>3. \A a \in {"encode", "file", "push"}, f \in Files : \E s \in All(x) : Adds(s, a, f)
    <3> SUFFICES ASSUME NEW a \in {"encode", "file", "push"}, NEW f \in Files
                 PROVE  \E s \in All(x) : Adds(s, a, f)
        OBVIOUS
    <3>1. PICK k \in 1 .. n : order[k] = f
        BY <1>3
    <3>2. x[k] \in All(x) /\ x[k] = Step("adddesc", f)
        BY <1>0, <1>4, <3>1 DEF All
    <3> QED BY <3>2 DEF Adds, Is, Step
  <2> QED BY <1>5, <2>1, <2>2, <2>3 DEF Starting
<1> QED BY <1>7, <1>9, <1>10, <1>11, <1>12, <1>13, <1>14 DEF LazyInv

-----------------------------------------------------------------------------
LEMMA StutterKeeps == ASSUME LazyInv, UNCHANGED startVars PROVE LazyInv'
<1>1. /\ UNCHANGED <<once, made, holder, todo, started, database, fileMap, built, typeMap, shutdown, ended>>
      /\ \A t \in Threads : Holds(t)' = Holds(t)
      /\ \A t \in Threads : \A o, do : Doing(t, o, do)' <=> Doing(t, o, do)
    BY DEF startVars, Holds, Doing
<1>2. Typed' /\ InOrder' /\ Exclusive' /\ Unique' /\ NewTypes'
    BY <1>1 DEF LazyInv, Typed, InOrder, Exclusive, Unique, NewTypes
<1>3. Objects' /\ Noted'
    BY <1>1 DEF LazyInv, Objects, Noted
<1>4. Finished'
    BY <1>1 DEF LazyInv, Finished
<1>5. Starting' /\ Started'
    BY <1>1 DEF LazyInv, Starting, Started, Table
<1> QED BY <1>2, <1>3, <1>4, <1>5 DEF LazyInv

LEMMA StepKeeps == ASSUME LazyAssumption, LazyInv, [StartNext]_startVars PROVE LazyInv'
<1>1. CASE UNCHANGED startVars
    BY <1>1, StutterKeeps
<1>2. CASE EnterMain
    BY <1>2, EnterMainKeeps
<1>3. CASE Shutdown
    BY <1>3, ShutdownKeeps
<1>4. ASSUME NEW t \in Threads, Call(t) PROVE LazyInv'
    BY <1>4, CallKeeps
<1>5. ASSUME NEW t \in Threads, ThreadStep(t) PROVE LazyInv'
  <2>1. CASE Swap(t)
      BY <2>1, WonSwapKeeps, LostSwapKeeps
  <2>2. CASE Load(t) \/ Spin(t) \/ Done(t) \/ Make(t) \/ TakeLock(t) \/ ReleaseLock(t)
      BY <2>2, LoadKeeps, SpinKeeps, DoneKeeps, MakeKeeps, TakeLockKeeps, ReleaseLockKeeps
  <2>3. CASE Push(t) \/ Encode(t) \/ RegisterFile(t) \/ AddDescOnce(t)
      BY <2>3, PushKeeps, EncodeKeeps, RegisterFileKeeps, AddDescOnceKeeps
  <2>4. CASE FindOrBuild(t) \/ Peek(t) \/ Recheck(t) \/ RegisterType(t) \/ Use(t)
      BY <2>4, FindOrBuildKeeps, PeekKeeps, RecheckKeeps, RegisterTypeKeeps, UseKeeps
  <2> QED BY <1>5, <2>1, <2>2, <2>3, <2>4 DEF ThreadStep
<1> QED BY <1>1, <1>2, <1>3, <1>4, <1>5 DEF StartNext

-----------------------------------------------------------------------------
LEMMA InvFromSpec == ASSUME LazyAssumption PROVE StartSpec => []LazyInv
<1>1. StartInit => LazyInv
    BY InitKeeps
<1>2. LazyInv /\ [StartNext]_startVars => LazyInv'
    BY StepKeeps
<1> QED BY <1>1, <1>2, PTL DEF StartSpec

(* However many threads start however many files, and in whatever order the *)
(* static initializers ran: whoever follows a lazily set pointer finds it   *)
(* set, and the tables of the pool and the factory are touched by the one   *)
(* thread that holds their mutex (FindFileByName, GetPrototype, OnShutdown; *)
(* descriptor.cc:905-977, message.cc:271-340, stubs/common.cc:350-363).     *)
THEOREM NothingIsReadEarly ==
    ASSUME LazyAssumption
    PROVE  StartSpec => []PointersAreSet
<1>1. LazyInv => PointersAreSet
  <2> SUFFICES ASSUME LazyInv, NEW t \in Threads, todo[t] # <<>>
               PROVE  /\ Needs(Head(todo[t])) \subseteq made
                      /\ Head(todo[t]).do = "find" => holder["generated_pool"] = {t}
                      /\ Head(todo[t]).do \in {"peek", "register", "type"} => holder["generated_factory"] = {t}
                      /\ Head(todo[t]).do = "push" => holder["shutdown_functions"] = {t}
      BY DEF PointersAreSet, NeedsAreMet, TablesAreLocked
  <2>1. Due(t, Head(todo[t]).do)
      BY DEF Due
  <2>2. Needs(Head(todo[t])) \subseteq made
    <3>1. Needs(Head(todo[t])) \subseteq Wants(Head(todo[t]))
        BY DEF Wants, Needs
    <3> QED BY <2>1, <3>1, HeadReady
  <2>3. \A m \in Singletons : m \in Holds(t) => holder[m] = {t}
      BY DEF Holds, LazyInv, Exclusive
  <2>4. Head(todo[t]).do \in {"find", "push", "peek", "register"} => Mutex(Head(todo[t])) \in Holds(t)
      BY <2>1, HeadReady
  <2>5. Head(todo[t]).do = "type" => Factory \in Holds(t)
      BY <2>1, HeadReady
  <2> QED BY <2>2, <2>3, <2>4, <2>5 DEF Mutex, Holds, Pool, Factory, List
<1> QED BY <1>1, InvFromSpec, PTL

(* Every table holds everything once, also after any race for it; and what  *)
(* was built is on the list of the functions to run at shutdown, which      *)
(* leaves nothing made (InternalAddGeneratedFile, RegisterType, OnShutdown, *)
(* ShutdownProtobufLibrary; message.cc:276-298, stubs/common.cc:350-384).   *)
THEOREM TablesHoldOnce ==
    ASSUME LazyAssumption
    PROVE  StartSpec => []EverythingOnce
<1>1. LazyInv => EverythingOnce
  <2> SUFFICES ASSUME LazyInv PROVE EverythingOnce
      OBVIOUS
  <2>1. NothingTwice
      BY DEF LazyInv, Unique, NothingTwice
  <2>2. NothingIsLeaked
      BY AllNoted DEF NothingIsLeaked, LazyInv, Finished, List
  <2> QED BY <2>1, <2>2 DEF EverythingOnce
<1> QED BY <1>1, InvFromSpec, PTL

-----------------------------------------------------------------------------
(* Each once object by itself.                                              *)
Marks == {"done", "swap", "spin"}

LEMMA PlaceIs ==
    ASSUME NEW t, NEW o,
           \A k, m \in Marks : Doing(t, o, k) /\ Doing(t, o, m) => k = m
    PROVE  /\ Doing(t, o, "done") => Place(t, o) = "run"
           /\ Doing(t, o, "swap") => Place(t, o) = "swap"
           /\ Doing(t, o, "spin") => Place(t, o) = "spin"
           /\ (\A k \in Marks : ~ Doing(t, o, k)) => Place(t, o) = "out"
BY DEF Place, Marks

LEMMA PlaceKept ==
    ASSUME LazyInv, NEW t, NEW S, Advances(t, S), NEW u \in Threads, NEW p,
           u # t \/ \A do \in Marks : Head(todo[t]) # Step(do, p) /\ Step(do, p) \notin All(S)
    PROVE  Place(u, p)' = Place(u, p)
<1>1. \A do \in Marks : Doing(u, p, do)' <=> Doing(u, p, do)
    BY DoingSteps DEF LazyInv
<1> QED BY <1>1 DEF Place, Marks

\* Where a thread is with other objects does not change, nor where others are.
LEMMA ElsewhereKept ==
    ASSUME LazyInv, NEW t, NEW S, Advances(t, S), NEW o,
           Head(todo[t]).do \in Marks => Head(todo[t]).on = o,
           \A s \in All(S) : s.do \in Marks => s.on = o
    PROVE  \A u \in Threads, p \in Onces : u # t \/ p # o => Place(u, p)' = Place(u, p)
<1>1. \A p, do : do \in Marks /\ p # o => Head(todo[t]) # Step(do, p) /\ Step(do, p) \notin All(S)
    BY DEF Step
<1> QED BY <1>1, PlaceKept

LEMMA ObjectStays ==
    ASSUME NEW p, once'[p] = once[p], \A u \in Threads : Place(u, p)' = Place(u, p)
    PROVE  [Object(p)!Next]_(Object(p)!vars)
BY DEF Object!vars

LEMMA QuietObjects ==
    ASSUME LazyInv, NEW t, NEW S, Advances(t, S), once' = once,
           Head(todo[t]).do \notin Marks, \A s \in All(S) : s.do \notin Marks
    PROVE  \A p \in Onces : [Object(p)!Next]_(Object(p)!vars)
<1>1. \A u \in Threads, p \in Onces : Place(u, p)' = Place(u, p)
  <2>1. \A p, do : do \in Marks => Head(todo[t]) # Step(do, p) /\ Step(do, p) \notin All(S)
      BY DEF Step
  <2> QED BY <2>1, PlaceKept
<1> QED BY <1>1, ObjectStays

\* A thread is in one place of a once object at a time.
LEMMA HeadPlace ==
    ASSUME LazyAssumption, LazyInv, NEW t \in Threads, NEW do \in {"once", "swap", "spin", "done"},
           Due(t, do)
    PROVE  /\ \A k \in Marks : Step(k, On(t)) \notin Rest(todo[t])
           /\ Place(t, On(t)) = CASE do = "once" -> "out" [] do = "swap" -> "swap"
                                  [] do = "spin" -> "spin" [] do = "done" -> "run"
<1>0. PICK o \in Onces : o = On(t)
    BY OnOnces
<1>1. /\ todo[t] \in Seq(Steps) /\ todo[t] # <<>> /\ Head(todo[t]) = Step(do, o)
      /\ todo[t][1] = Step(do, o) /\ 1 \in DOMAIN todo[t] /\ todo[t][1] \in Steps
    BY <1>0, HeadReady
<1>2. ASSUME NEW k \in Marks, Step(k, o) \in Rest(todo[t]) PROVE FALSE
  <2>1. PICK i \in 2 .. Len(todo[t]) : todo[t][i] = Step(k, o)
      BY <1>2 DEF Rest
  <2>2. i \in DOMAIN todo[t] /\ i # 1 /\ 1 < i
      BY <1>1
  <2>3. k = "done"
      BY <1>2, <2>1, <2>2 DEF LazyInv, InOrder, Orderly, Fresh, Step, Marks
  <2>4. Level(todo[t][1]) < Level(todo[t][i])
      BY <1>1, <2>1, <2>2, <2>3 DEF LazyInv, InOrder, Orderly, Nested, Step
  <2>5. Level(todo[t][1]) = Rank(o) /\ Level(todo[t][i]) = Rank(o) /\ Rank(o) \in Nat
      BY <1>1, <2>1, <2>3 DEF Level, Step, Rank
  <2> QED BY <2>4, <2>5
<1>3. \A k : Doing(t, o, k) <=> Step(k, o) = Step(do, o) \/ Step(k, o) \in Rest(todo[t])
  <2>1. All(todo[t]) = {Head(todo[t])} \union Rest(todo[t])
      BY <1>1, SpliceAll, EmptyBody
  <2> QED BY <1>1, <2>1, DoingAll
<1>4. \A k \in Marks : Doing(t, o, k) <=> k = do
    BY <1>2, <1>3 DEF Step
<1> QED BY <1>0, <1>2, <1>4, PlaceIs DEF Marks

LEMMA PlaceAfter ==
    ASSUME LazyInv, NEW t \in Threads, NEW S, Advances(t, S), NEW o,
           \A k \in Marks : Step(k, o) \notin Rest(todo[t]),
           \A k, m \in Marks : Step(k, o) \in All(S) /\ Step(m, o) \in All(S) => k = m
    PROVE  /\ Step("done", o) \in All(S) => Place(t, o)' = "run"
           /\ Step("swap", o) \in All(S) => Place(t, o)' = "swap"
           /\ Step("spin", o) \in All(S) => Place(t, o)' = "spin"
           /\ (\A k \in Marks : Step(k, o) \notin All(S)) => Place(t, o)' = "out"
<1>1. \A k \in Marks : Doing(t, o, k)' <=> Step(k, o) \in All(S)
    BY DoingSteps DEF LazyInv
<1>2. \A k, m \in Marks : Doing(t, o, k)' /\ Doing(t, o, m)' => k = m
    BY <1>1
<1> QED BY <1>1, <1>2 DEF Place, Marks

LEMMA ObjectMoves ==
    ASSUME NEW t \in Threads, NEW p \in Onces, once \in [Onces -> {"uninitialized", "executing", "done"}],
           \A u \in Threads : u # t => Place(u, p)' = Place(u, p),
           \/ /\ Place(t, p) = "out" /\ once[p] # "done"
              /\ once'[p] = once[p] /\ Place(t, p)' = "swap"
           \/ /\ Place(t, p) = "swap" /\ once[p] = "uninitialized"
              /\ once'[p] = "executing" /\ Place(t, p)' = "run"
           \/ /\ Place(t, p) = "swap" /\ once[p] # "uninitialized"
              /\ once'[p] = once[p]
              /\ Place(t, p)' = IF once[p] = "executing" THEN "spin" ELSE "out"
           \/ /\ Place(t, p) = "run" /\ once[p] = "executing"
              /\ once'[p] = "done" /\ Place(t, p)' = "out"
           \/ /\ Place(t, p) = "spin" /\ once[p] # "executing"
              /\ once'[p] = once[p] /\ Place(t, p)' = "out"
    PROVE  Object(p)!Next
<1> DEFINE pc == [u \in Threads |-> Place(u, p)]
<1>1. \A q : Place(t, p)' = q => pc' = [pc EXCEPT ![t] = q]
    OBVIOUS
<1>2. pc[t] = Place(t, p)
    OBVIOUS
<1> HIDE DEF pc
<1>3. Object(p)!Step(t)
  <2>1. CASE /\ Place(t, p) = "out" /\ once[p] # "done"
             /\ once'[p] = once[p] /\ Place(t, p)' = "swap"
      BY <1>1, <1>2, <2>1 DEF pc, Object!Step, Object!Load
  <2>2. CASE /\ Place(t, p) = "swap" /\ once[p] = "uninitialized"
             /\ once'[p] = "executing" /\ Place(t, p)' = "run"
      BY <1>1, <1>2, <2>2 DEF pc, Object!Step, Object!Win
  <2>3. CASE /\ Place(t, p) = "swap" /\ once[p] # "uninitialized"
             /\ once'[p] = once[p]
             /\ Place(t, p)' = IF once[p] = "executing" THEN "spin" ELSE "out"
      BY <1>1, <1>2, <2>3 DEF pc, Object!Step, Object!Lose
  <2>4. CASE /\ Place(t, p) = "run" /\ once[p] = "executing"
             /\ once'[p] = "done" /\ Place(t, p)' = "out"
      BY <1>1, <1>2, <2>4 DEF pc, Object!Step, Object!Finish
  <2>5. CASE /\ Place(t, p) = "spin" /\ once[p] # "executing"
             /\ once'[p] = once[p] /\ Place(t, p)' = "out"
      BY <1>1, <1>2, <2>5 DEF pc, Object!Step, Object!Spin
  <2> QED BY <2>1, <2>2, <2>3, <2>4, <2>5
<1> QED BY <1>3 DEF Object!Next

LEMMA LoadObjects ==
    ASSUME LazyAssumption, LazyInv, NEW t \in Threads, Load(t)
    PROVE  \A p \in Onces : [Object(p)!Next]_(Object(p)!vars)
<1>0. PICK o \in Onces : o = On(t)
    BY OnOnces DEF Load
<1>1. /\ Due(t, "once") /\ once' = once /\ Head(todo[t]) = Step("once", o)
      /\ once \in [Onces -> {"uninitialized", "executing", "done"}]
    BY <1>0, HeadReady DEF Load, LazyInv, Typed
<1>2. Head(todo[t]).do \notin Marks
    BY <1>1 DEF Step, Marks
<1>3. CASE once[o] = "done"
  <2>1. Goes(t, <<>>)
      BY <1>0, <1>3 DEF Load
  <2>2. Advances(t, <<>>)
      BY <1>1, <2>1, GoesAdvances, EmptyBody DEF LazyInv
  <2> QED BY <1>1, <1>2, <2>2, EmptyBody, QuietObjects
<1>4. CASE once[o] # "done"
  <2> DEFINE S == <<Step("swap", o)>>
  <2>1. S \in Seq(Steps) /\ All(S) = {Step("swap", o)}
    <3>1. Step("swap", o) \in Steps
        BY StepTypes
    <3> QED BY <3>1 DEF All
  <2>2. Goes(t, S)
      BY <1>0, <1>4 DEF Load
  <2> HIDE DEF S
  <2>3. Advances(t, S)
      BY <1>1, <2>1, <2>2, GoesAdvances DEF LazyInv
  <2>4. \A u \in Threads, p \in Onces : u # t \/ p # o => Place(u, p)' = Place(u, p)
      BY <1>2, <2>1, <2>3, ElsewhereKept DEF Step
  <2>5. Place(t, o) = "out" /\ \A k \in Marks : Step(k, o) \notin Rest(todo[t])
      BY <1>0, <1>1, HeadPlace
  <2>6. Place(t, o)' = "swap"
    <3>1. \A k \in Marks : Step(k, o) \in All(S) <=> k = "swap"
        BY <2>1 DEF Step
    <3> QED BY <2>3, <2>5, <3>1, PlaceAfter DEF Marks
  <2>7. Object(o)!Next
      BY <1>1, <1>4, <2>4, <2>5, <2>6, ObjectMoves
  <2>8. \A p \in Onces : p # o => [Object(p)!Next]_(Object(p)!vars)
      BY <1>1, <2>4, ObjectStays
  <2> QED BY <2>7, <2>8
<1> QED BY <1>3, <1>4

LEMMA SwapObjects ==
    ASSUME LazyAssumption, LazyInv, NEW t \in Threads, Swap(t)
    PROVE  \A p \in Onces : [Object(p)!Next]_(Object(p)!vars)
<1>0. PICK o \in Onces : o = On(t)
    BY OnOnces DEF Swap
<1>1. /\ Due(t, "swap") /\ Head(todo[t]) = Step("swap", o)
      /\ once \in [Onces -> {"uninitialized", "executing", "done"}]
    BY <1>0, HeadReady DEF Swap, LazyInv, Typed
<1>2. Head(todo[t]).do \in Marks /\ Head(todo[t]).on = o
    BY <1>1 DEF Step, Marks
<1>3. Place(t, o) = "swap" /\ \A k \in Marks : Step(k, o) \notin Rest(todo[t])
    BY <1>0, <1>1, HeadPlace
<1>4. CASE once[o] = "uninitialized"
  <2> DEFINE S == Run(o)
  <2>1. /\ S \in Seq(Steps) /\ Step("done", o) \in All(S)
        /\ \A s \in All(S) : s.do \notin {"swap", "spin"} /\ (s.do = "done" => s.on = o)
      BY RunSteps
  <2>2. Goes(t, S) /\ once' = [once EXCEPT ![o] = "executing"]
      BY <1>0, <1>4 DEF Swap
  <2> HIDE DEF S
  <2>3. Advances(t, S)
      BY <1>1, <2>1, <2>2, GoesAdvances DEF LazyInv
  <2>4. \A u \in Threads, p \in Onces : u # t \/ p # o => Place(u, p)' = Place(u, p)
    <3>1. \A s \in All(S) : s.do \in Marks => s.on = o
        BY <2>1 DEF Marks
    <3> QED BY <1>2, <2>3, <3>1, ElsewhereKept
  <2>5. Place(t, o)' = "run"
    <3>1. \A k \in Marks : Step(k, o) \in All(S) <=> k = "done"
        BY <2>1 DEF Step, Marks
    <3> QED BY <1>3, <2>3, <3>1, PlaceAfter DEF Marks
  <2>6. once'[o] = "executing" /\ \A p \in Onces : p # o => once'[p] = once[p]
      BY <1>1, <2>2
  <2>7. Object(o)!Next
      BY <1>1, <1>3, <1>4, <2>4, <2>5, <2>6, ObjectMoves
  <2>8. \A p \in Onces : p # o => [Object(p)!Next]_(Object(p)!vars)
      BY <2>4, <2>6, ObjectStays
  <2> QED BY <2>7, <2>8
<1>5. CASE once[o] # "uninitialized"
  <2> DEFINE S == LostSwap(o)
  <2>1. /\ S \in Seq(Steps)
        /\ once[o] = "executing" => All(S) = {Step("spin", o)}
        /\ once[o] # "executing" => All(S) = {}
    <3>1. Step("spin", o) \in Steps
        BY StepTypes
    <3> QED BY <3>1, EmptyBody DEF All, LostSwap
  <2>2. Goes(t, S) /\ once' = once
      BY <1>0, <1>5 DEF Swap
  <2> HIDE DEF S
  <2>3. Advances(t, S)
      BY <1>1, <2>1, <2>2, GoesAdvances DEF LazyInv
  <2>4. \A u \in Threads, p \in Onces : u # t \/ p # o => Place(u, p)' = Place(u, p)
    <3>1. \A s \in All(S) : s.on = o
        BY <2>1 DEF Step
    <3> QED BY <1>2, <2>3, <3>1, ElsewhereKept
  <2>5. Place(t, o)' = IF once[o] = "executing" THEN "spin" ELSE "out"
    <3>1. \A k \in Marks : Step(k, o) \in All(S) <=> k = "spin" /\ once[o] = "executing"
        BY <2>1 DEF Step, Marks
    <3> QED BY <1>3, <2>3, <3>1, PlaceAfter DEF Marks
  <2>6. Object(o)!Next
      BY <1>1, <1>3, <1>5, <2>2, <2>4, <2>5, ObjectMoves
  <2>7. \A p \in Onces : p # o => [Object(p)!Next]_(Object(p)!vars)
      BY <2>2, <2>4, ObjectStays
  <2> QED BY <2>6, <2>7
<1> QED BY <1>4, <1>5

LEMMA EndObjects ==
    ASSUME LazyAssumption, LazyInv, NEW t \in Threads, Spin(t) \/ Done(t)
    PROVE  \A p \in Onces : [Object(p)!Next]_(Object(p)!vars)
<1>0. PICK do \in {"spin", "done"} : Due(t, do) /\ (do = "spin" => Spin(t)) /\ (do = "done" => Done(t))
    BY DEF Spin, Done
<1>1. PICK o \in Onces : o = On(t)
    BY <1>0, OnOnces
<1>2. /\ Head(todo[t]) = Step(do, o) /\ Continue(t) /\ Doing(t, o, do)
      /\ once \in [Onces -> {"uninitialized", "executing", "done"}]
    BY <1>0, <1>1, HeadReady DEF Spin, Done, LazyInv, Typed
<1>3. Head(todo[t]).do \in Marks /\ Head(todo[t]).on = o
    BY <1>0, <1>2 DEF Step, Marks
<1>4. /\ Place(t, o) = IF do = "spin" THEN "spin" ELSE "run"
      /\ \A k \in Marks : Step(k, o) \notin Rest(todo[t])
    BY <1>0, <1>1, HeadPlace
<1>5. Advances(t, <<>>)
    BY <1>0, <1>2, GoesAdvances, EmptyBody DEF LazyInv, Continue
<1>6. \A u \in Threads, p \in Onces : u # t \/ p # o => Place(u, p)' = Place(u, p)
  <2>1. PICK S : S = <<>>
      OBVIOUS
  <2>2. Advances(t, S) /\ \A s \in All(S) : s.do \in Marks => s.on = o
      BY <1>5, <2>1, EmptyBody
  <2> QED BY <1>3, <2>2, ElsewhereKept
<1>7. Place(t, o)' = "out"
    BY <1>4, <1>5, EmptyBody, PlaceAfter
<1>8. /\ do = "spin" => once[o] # "executing" /\ once'[o] = once[o]
      /\ do = "done" => once[o] = "executing" /\ once'[o] = "done"
      /\ \A p \in Onces : p # o => once'[p] = once[p]
  <2>1. CASE do = "spin"
      BY <1>0, <1>1, <2>1 DEF Spin
  <2>2. CASE do = "done"
    <3>1. once[o] = "executing"
        BY <1>2, <2>2 DEF LazyInv, Objects
    <3>2. once' = [once EXCEPT ![o] = "done"]
        BY <1>0, <1>1, <2>2 DEF Done
    <3> QED BY <1>2, <2>2, <3>1, <3>2
  <2> QED BY <1>0, <2>1, <2>2
<1>9. Object(o)!Next
    BY <1>0, <1>2, <1>4, <1>6, <1>7, <1>8, ObjectMoves
<1>10. \A p \in Onces : p # o => [Object(p)!Next]_(Object(p)!vars)
    BY <1>6, <1>8, ObjectStays
<1> QED BY <1>9, <1>10

LEMMA OtherObjects ==
    ASSUME LazyAssumption, LazyInv, NEW t \in Threads,
           ThreadStep(t), ~ (Load(t) \/ Swap(t) \/ Spin(t) \/ Done(t))
    PROVE  \A p \in Onces : [Object(p)!Next]_(Object(p)!vars)
<1> SUFFICES \E S \in Seq(Steps) : /\ Goes(t, S) /\ \A s \in All(S) : s.do \notin Marks
                                   /\ \E do : do \notin Marks /\ Due(t, do)
                                   /\ once' = once
  <2>1. PICK S \in Seq(Steps) : /\ Goes(t, S) /\ \A s \in All(S) : s.do \notin Marks
                                /\ \E do : do \notin Marks /\ Due(t, do)
                                /\ once' = once
      OBVIOUS
  <2>2. Advances(t, S) /\ Head(todo[t]).do \notin Marks
      BY <2>1, GoesAdvances DEF LazyInv, Due
  <2> QED BY <2>1, <2>2, QuietObjects
<1>1. CASE \/ Make(t) \/ TakeLock(t) \/ ReleaseLock(t) \/ Push(t) \/ Encode(t) \/ RegisterFile(t)
           \/ FindOrBuild(t) \/ RegisterType(t) \/ Use(t)
  <2>1. Goes(t, <<>>) /\ once' = once
      BY <1>1 DEF Make, TakeLock, ReleaseLock, Push, Encode, RegisterFile, FindOrBuild, RegisterType,
                  Use, Continue, AllocateOptions
  <2>2. \E do : do \notin Marks /\ Due(t, do)
      BY <1>1 DEF Make, TakeLock, ReleaseLock, Push, Encode, RegisterFile, FindOrBuild, RegisterType,
                  Use, Marks
  <2> QED BY <2>1, <2>2, EmptyBody
<1>2. CASE AddDescOnce(t)
  <2>1. PICK f \in Files : f = On(t)
      BY <1>2, OnOnces DEF AddDescOnce
  <2>2. /\ Due(t, "adddesc") /\ once' = once
        /\ Goes(t, IF f \in ToSet(database) THEN <<>> ELSE AddDesc(f))
      BY <1>2, <2>1 DEF AddDescOnce
  <2>3. CASE f \in ToSet(database)
      BY <2>2, <2>3, EmptyBody DEF Marks
  <2>4. CASE f \notin ToSet(database)
      BY <2>2, <2>4, AddDescOf, AddDescSteps DEF Marks
  <2> QED BY <2>3, <2>4
<1>3. CASE Peek(t)
  <2>1. PICK f \in Files : f = On(t)
      BY <1>3, OnOnces DEF Peek
  <2>2. Due(t, "peek") /\ once' = once /\ Goes(t, Peeked(f))
      BY <1>3, <2>1 DEF Peek
  <2>3. Peeked(f) \in Seq(Steps) /\ \A s \in All(Peeked(f)) : s.do \notin Marks
    <3>1. /\ Unlock(Factory) \in Steps /\ Once(Pool) \in Steps /\ Lock(Factory) \in Steps
          /\ Step("register", f) \in Steps
        BY StepTypes
    <3>2. CASE f \in ToSet(typeMap)
        BY <3>1, <3>2 DEF Peeked, Factory, All, Unlock, Step, Marks
    <3>3. CASE f \notin ToSet(typeMap)
        BY <3>1, <3>3 DEF Peeked, Factory, Pool, All, Unlock, Lock, Once, Step, Marks
    <3> QED BY <3>2, <3>3
  <2> QED BY <2>2, <2>3 DEF Marks
<1>4. CASE Recheck(t)
  <2>1. PICK f \in Files : f = On(t)
      BY <1>4, OnOnces DEF Recheck
  <2>2. Due(t, "register") /\ once' = once /\ Goes(t, RegisterTypes(f))
      BY <1>4, <2>1 DEF Recheck
  <2>3. RegisterTypes(f) \in Seq(Steps) /\ \A s \in All(RegisterTypes(f)) : s.do \notin Marks
    <3>1. Once(f) \in Steps /\ Once(Factory) \in Steps /\ Step("type", f) \in Steps
        BY StepTypes
    <3> QED BY <3>1, EmptyBody DEF RegisterTypes, Factory, All, Once, Step, Marks
  <2> QED BY <2>2, <2>3 DEF Marks
<1> QED BY <1>1, <1>2, <1>3, <1>4 DEF ThreadStep

LEMMA StepObjects ==
    ASSUME LazyAssumption, LazyInv, [StartNext]_startVars
    PROVE  \A p \in Onces : [Object(p)!Next]_(Object(p)!vars)
<1>1. CASE UNCHANGED startVars
    BY <1>1, ObjectStays DEF startVars, Place, Doing
<1>2. CASE EnterMain
  <2>1. Main \in Threads /\ Due(Main, "main") /\ Goes(Main, <<>>) /\ once' = once
      BY <1>2 DEF EnterMain, Continue, LazyAssumption
  <2>2. Advances(Main, <<>>) /\ Head(todo[Main]).do \notin Marks
      BY <2>1, GoesAdvances, EmptyBody DEF LazyInv, Due, Marks
  <2> QED BY <2>1, <2>2, EmptyBody, QuietObjects
\* the object of the shutdown list is done already when the list is deleted
<1>3. CASE Shutdown
  <2>1. /\ started /\ \A t \in Threads : todo[t] = <<>>
        /\ todo' = todo /\ once' = [once EXCEPT ![List] = "done"]
      BY <1>3 DEF Shutdown, List
  <2>2. once[List] = "done"
    <3>1. CASE ended
        BY <3>1 DEF LazyInv, Finished
    <3>2. CASE ~ ended
      <4>1. List \in made /\ once[List] # "executing"
          BY <2>1, <3>2, AllNoted, StepTypes
      <4>2. once[List] # "uninitialized"
          BY <4>1, StepTypes DEF LazyInv, Objects
      <4> QED BY <4>1, <4>2, StepTypes DEF LazyInv, Typed
    <3> QED BY <3>1, <3>2
  <2>3. once' = once
      BY <2>1, <2>2 DEF LazyInv, Typed
  <2> QED BY <2>1, <2>3, ObjectStays DEF Place, Doing
<1>4. ASSUME NEW t \in Threads, Call(t) PROVE \A p \in Onces : [Object(p)!Next]_(Object(p)!vars)
  <2>1. /\ once' = once /\ \A u \in Threads : u # t => todo'[u] = todo[u]
        /\ \E f \in Files : \E call \in Calls(f) : todo'[t] = call
        /\ todo[t] = <<>>
      BY <1>4 DEF Call, LazyInv, Typed
  <2>2. \A p, do : do \in Marks => ~ Doing(t, p, do)
      BY <2>1 DEF Doing
  <2>3. \A p, do : do \in Marks => ~ Doing(t, p, do)'
    <3>1. \A s \in All(todo'[t]) : s.do \in CallSteps
        BY <1>4, CalledSteps
    <3> QED BY <3>1 DEF Doing, All, CallSteps, Marks, Step
  <2>4. \A u \in Threads, p \in Onces : Place(u, p)' = Place(u, p)
    <3> SUFFICES ASSUME NEW u \in Threads, NEW p \in Onces PROVE Place(u, p)' = Place(u, p)
        OBVIOUS
    <3>1. \A do \in Marks : Doing(u, p, do)' <=> Doing(u, p, do)
      <4>1. CASE u = t
          BY <4>1, <2>2, <2>3
      <4>2. CASE u # t
          BY <4>2, <2>1 DEF Doing
      <4> QED BY <4>1, <4>2
    <3> QED BY <3>1 DEF Place, Marks
  <2> QED BY <2>1, <2>4, ObjectStays
<1>5. ASSUME NEW t \in Threads, ThreadStep(t) PROVE \A p \in Onces : [Object(p)!Next]_(Object(p)!vars)
    BY <1>5, LoadObjects, SwapObjects, EndObjects, OtherObjects
<1> QED BY <1>1, <1>2, <1>3, <1>4, <1>5 DEF StartNext

LEMMA ObjectsInit ==
    ASSUME LazyAssumption, StartInit, NEW o \in Onces
    PROVE  Object(o)!Init
<1>1. \A t \in Threads, do \in Marks : ~ Doing(t, o, do)
    BY InitKeeps DEF Doing, Step, Marks
<1>2. once[o] = "uninitialized"
    BY DEF StartInit
<1>3. \A t \in Threads : Place(t, o) = "out"
    BY <1>1 DEF Place, Marks
<1> QED BY <1>2, <1>3 DEF Object!Init

(* The start of the runtime, with its closures that call other once         *)
(* objects, take mutexes and are themselves run under mutexes, leaves each  *)
(* once object what it is by itself: every step of every thread is a step   *)
(* of OnceInit for that object or none (GoogleOnceInitImpl, once.cc:65-94), *)
(* so what is proved of OnceInit holds of each of them.                     *)
THEOREM EachObjectIsOnce ==
    ASSUME LazyAssumption
    PROVE  StartSpec => ObjectsAreOnce
<1>1. StartInit => \A o \in Onces : Object(o)!Init
    BY ObjectsInit
<1>2. LazyInv /\ [StartNext]_startVars => \A o \in Onces : [Object(o)!Next]_(Object(o)!vars)
    BY StepObjects
<1> QED BY <1>1, <1>2, InvFromSpec, PTL DEF StartSpec, ObjectsAreOnce
=============================================================================
