---------------------------- MODULE PoliteProofs ----------------------------
(***************************************************************************)
(* Users who take turns.  At any time one client drives the session and the *)
(* others wait: the driver's history is the log and what it has still to    *)
(* send, a waiting client's is the part of the log it has been handed, and  *)
(* nobody waits with an undo half done.  From this follow that every undo   *)
(* becomes one redoable step, and, when one character at a time is typed,   *)
(* that all clients come back to the same history and the same text.        *)
(***************************************************************************)
EXTENDS WatchingProofs, WellFoundedInduction

USE DEF serviceVars, screenVars, burstVars, stackVars, buttonVars, undoVars,
        historyVars, handlerVars
-----------------------------------------------------------------------------
(* Replay is a fold, which CHOOSEs the function it recurs with: such a      *)
(* function exists for every history, by a least counterexample, and Replay *)
(* of a history with one more event applies that event.                     *)

LEMMA LeastNumber ==
    ASSUME NEW T, T \subseteq Nat, T # {}
    PROVE  \E n \in T : \A m \in T : n <= m
<1>1. PICK n \in T : \A m \in T : ~ (<<m, n>> \in OpToRel(<, Nat))
    BY NatLessThanWellFounded, WFMin
<1>2. ASSUME NEW m \in T PROVE n <= m
    <2>1. n \in Nat /\ m \in Nat
        OBVIOUS
    <2>2. ~ (m < n)
        BY <1>1, <2>1 DEF OpToRel
    <2> QED
        BY <2>1, <2>2
<1> QED
    BY <1>2

LEMMA LargestNumber ==
    ASSUME NEW n \in Nat, NEW t, t \subseteq 1 .. n, t # {}
    PROVE  Max(t) \in t /\ \A y \in t : y <= Max(t)
<1> DEFINE T == {m \in Nat : \A y \in t : y <= m}
<1>1. n \in T
    OBVIOUS
<1>2. PICK m \in T : \A k \in T : m <= k
    BY <1>1, LeastNumber
<1>3. m \in t
    <2>1. SUFFICES ASSUME m \notin t PROVE FALSE
        OBVIOUS
    <2>2. \A y \in t : y \in 1 .. n /\ y <= m /\ y # m
        BY <2>1
    <2>3. m \in Nat /\ m > 0
        <3>1. PICK y \in t : TRUE
            OBVIOUS
        <3> QED
            BY <2>2, <3>1
    <2>4. ASSUME NEW y \in t PROVE y <= m - 1
        BY <2>2, <2>3
    <2>5. m - 1 \in T
        BY <2>3, <2>4
    <2> QED
        BY <1>2, <2>3, <2>5
<1>4. \A y \in t : m >= y
    OBVIOUS
<1>5. Max(t) \in t /\ \A y \in t : Max(t) >= y
    BY <1>3, <1>4 DEF Max
<1> QED
    BY <1>5

-----------------------------------------------------------------------------
(* The text of a log, event by event.                                       *)
Unfolds(s, f) ==
    f = [t \in SUBSET (1 .. Len(s)) |->
            IF t = {} THEN <<>> ELSE ApplyEvent(f[t \ {Max(t)}], s[Max(t)])]

LEMMA ReplayUnfolds ==
    ASSUME NEW s \in Seq(Event)
    PROVE  Replay(s) = (CHOOSE f : Unfolds(s, f))[1 .. Len(s)]
<1>1. DOMAIN s = 1 .. Len(s)
    OBVIOUS
<1> QED
    BY <1>1, Zenon DEF Replay, FoldLeft, MapThenFoldSet, Unfolds

LEMMA UnfoldsExtended ==
    ASSUME NEW s \in Seq(Event), NEW e \in Event, NEW f, Unfolds(s, f)
    PROVE  \E g : Unfolds(Append(s, e), g)
<1> DEFINE n == Len(s)
           r == Append(s, e)
           g == [t \in SUBSET (1 .. n + 1) |->
                    IF t = {} THEN <<>>
                    ELSE IF n + 1 \in t THEN ApplyEvent(f[t \ {n + 1}], e) ELSE f[t]]
<1>1. n \in Nat /\ Len(r) = n + 1 /\ r[n + 1] = e /\ \A i \in 1 .. n : r[i] = s[i]
    OBVIOUS
<1> HIDE DEF n, r
<1>2. \A t \in SUBSET (1 .. n) :
          f[t] = IF t = {} THEN <<>> ELSE ApplyEvent(f[t \ {Max(t)}], s[Max(t)])
    BY Zenon DEF Unfolds, n
<1>3. \A t \in SUBSET (1 .. n) : t \in SUBSET (1 .. n + 1) /\ n + 1 \notin t
    BY <1>1
<1>4. f[{}] = <<>>
    BY <1>2
<1>5. \A t \in SUBSET (1 .. n) : g[t] = f[t]
    BY <1>3, <1>4
<1> HIDE DEF g
<1>6. ASSUME NEW t \in SUBSET (1 .. n + 1)
      PROVE  g[t] = IF t = {} THEN <<>> ELSE ApplyEvent(g[t \ {Max(t)}], r[Max(t)])
    <2>1. CASE t = {}
        BY <2>1 DEF g
    <2>2. CASE n + 1 \in t
        <3>1. Max(t) \in t /\ \A y \in t : y <= Max(t)
            <4>1. n + 1 \in Nat /\ t \subseteq 1 .. n + 1 /\ t # {}
                BY <1>1, <2>2
            <4> QED
                BY <4>1, LargestNumber
        <3>2. Max(t) = n + 1
            <4>1. Max(t) \in 1 .. n + 1 /\ n + 1 <= Max(t)
                BY <2>2, <3>1
            <4> QED
                BY <1>1, <4>1
        <3>3. t \ {n + 1} \in SUBSET (1 .. n)
            BY <1>1
        <3>4. g[t] = ApplyEvent(f[t \ {n + 1}], e)
            BY <2>2 DEF g
        <3> QED
            BY <1>1, <1>5, <2>2, <3>2, <3>3, <3>4
    <2>3. CASE t # {} /\ n + 1 \notin t
        <3>1. t \in SUBSET (1 .. n)
            BY <1>1, <2>3
        <3>2. Max(t) \in 1 .. n
            BY <1>1, <2>3, <3>1, LargestNumber
        <3>3. t \ {Max(t)} \in SUBSET (1 .. n)
            BY <3>1
        <3>4. f[t] = ApplyEvent(f[t \ {Max(t)}], s[Max(t)])
            BY <1>2, <2>3, <3>1
        <3> QED
            BY <1>1, <1>5, <2>3, <3>1, <3>2, <3>3, <3>4
    <2> QED
        BY <2>1, <2>2, <2>3
<1>7. g = [t \in SUBSET (1 .. n + 1) |-> g[t]]
    BY DEF g
<1>8. g = [t \in SUBSET (1 .. n + 1) |->
              IF t = {} THEN <<>> ELSE ApplyEvent(g[t \ {Max(t)}], r[Max(t)])]
    BY <1>6, <1>7, Zenon
<1>9. Unfolds(r, g)
    BY <1>1, <1>8, Zenon DEF Unfolds
<1> QED
    BY <1>9 DEF r

LEMMA EverythingUnfolds ==
    ASSUME NEW s \in Seq(Event)
    PROVE  \E f : Unfolds(s, f)
<1> DEFINE Stuck(n) == \E r \in Seq(Event) : Len(r) = n /\ ~ \E f : Unfolds(r, f)
           T == {n \in Nat : Stuck(n)}
<1>1. SUFFICES ASSUME ~ \E f : Unfolds(s, f) PROVE FALSE
    OBVIOUS
<1>2. Len(s) \in T
    BY <1>1
<1>3. PICK n \in T : \A m \in T : n <= m
    BY <1>2, LeastNumber
<1>4. PICK r \in Seq(Event) : Len(r) = n /\ ~ \E f : Unfolds(r, f)
    OBVIOUS
<1>5. CASE n = 0
    <2> DEFINE f == [t \in {{}} |-> <<>>]
    <2>1. SUBSET (1 .. Len(r)) = {{}}
        BY <1>4, <1>5
    <2>2. \A t \in {{}} : t = {}
        OBVIOUS
    <2>3. f = [t \in {{}} |-> IF t = {} THEN <<>> ELSE ApplyEvent(f[t \ {Max(t)}], r[Max(t)])]
        BY <2>2
    <2>4. Unfolds(r, f)
        BY <2>1, <2>3 DEF Unfolds
    <2> QED
        BY <1>4, <2>4
<1>6. CASE n # 0
    <2> DEFINE p == Front(r)
    <2>1. r # <<>> /\ n - 1 \in Nat
        BY <1>4, <1>6
    <2>2. p \in Seq(Event) /\ Len(p) = n - 1
        BY <1>4, <2>1, FrontType
    <2>3. n - 1 \notin T
        BY <1>3, <2>1
    <2> HIDE DEF p
    <2>4. PICK f : Unfolds(p, f)
        BY <2>1, <2>2, <2>3
    <2>5. r = Append(p, Last(r)) /\ Last(r) \in Event
        BY <2>1, LastType DEF p, Front, Last
    <2> QED
        BY <1>4, <2>2, <2>4, <2>5, UnfoldsExtended
<1> QED
    BY <1>5, <1>6

-----------------------------------------------------------------------------
LEMMA ReplayEmpty == Replay(<<>>) = <<>>
<1> DEFINE f == CHOOSE f : Unfolds(<<>>, f)
<1>1. <<>> \in Seq(Event) /\ Len(<<>>) = 0
    OBVIOUS
<1>2. Unfolds(<<>>, f)
    BY <1>1, EverythingUnfolds, Zenon
<1>3. Replay(<<>>) = f[1 .. Len(<<>>)]
    BY <1>1, ReplayUnfolds, Zenon
<1> HIDE DEF f
<1>4. 1 .. Len(<<>>) = {}
    BY <1>1
<1>5. f[{}] = <<>>
    BY <1>2 DEF Unfolds
<1> QED
    BY <1>3, <1>4, <1>5, Zenon

LEMMA UnfoldsStep ==
    ASSUME NEW s \in Seq(Event), NEW f, Unfolds(s, f)
    PROVE  /\ f[1 .. 0] = <<>>
           /\ \A k \in 1 .. Len(s) : f[1 .. k] = ApplyEvent(f[1 .. k - 1], s[k])
<1>1. \A t \in SUBSET (1 .. Len(s)) :
          f[t] = IF t = {} THEN <<>> ELSE ApplyEvent(f[t \ {Max(t)}], s[Max(t)])
    BY Zenon DEF Unfolds
<1>2. f[1 .. 0] = <<>>
    <2>1. 1 .. 0 = {}
        OBVIOUS
    <2> QED
        BY <1>1, <2>1
<1>3. ASSUME NEW k \in 1 .. Len(s) PROVE f[1 .. k] = ApplyEvent(f[1 .. k - 1], s[k])
    <2>1. k \in Nat /\ 1 .. k \subseteq 1 .. k /\ 1 .. k # {} /\ 1 .. k \in SUBSET (1 .. Len(s))
        <3>1. Len(s) \in Nat /\ k \in Nat /\ 1 <= k /\ k <= Len(s)
            OBVIOUS
        <3>2. k \in 1 .. k
            BY <3>1
        <3>3. \A i \in 1 .. k : i \in 1 .. Len(s)
            BY <3>1
        <3> QED
            BY <3>1, <3>2, <3>3
    <2>2. Max(1 .. k) \in 1 .. k /\ \A y \in 1 .. k : y <= Max(1 .. k)
        BY <2>1, LargestNumber
    <2>3. Max(1 .. k) = k
        BY <2>1, <2>2
    <2>4. (1 .. k) \ {k} = 1 .. k - 1
        BY <2>1
    <2>5. f[1 .. k] = ApplyEvent(f[(1 .. k) \ {k}], s[k])
        BY <1>1, <2>1, <2>3
    <2> QED
        BY <2>4, <2>5
<1> QED
    BY <1>2, <1>3

(* The text after one more event.                                           *)
LEMMA ReplayNext ==
    ASSUME NEW s \in Seq(Event), NEW e \in Event
    PROVE  Replay(Append(s, e)) = ApplyEvent(Replay(s), e)
<1> DEFINE r == Append(s, e)
           n == Len(s)
           f == CHOOSE h : Unfolds(s, h)
           g == CHOOSE h : Unfolds(r, h)
<1>1. r \in Seq(Event) /\ n \in Nat /\ Len(r) = n + 1 /\ r[n + 1] = e /\ \A i \in 1 .. n : r[i] = s[i]
    OBVIOUS
<1> HIDE DEF r
<1>2. Unfolds(s, f) /\ Unfolds(r, g)
    BY <1>1, EverythingUnfolds, Zenon
<1>3. Replay(s) = f[1 .. n] /\ Replay(r) = g[1 .. Len(r)]
    BY <1>1, ReplayUnfolds, Zenon
<1> HIDE DEF f, g
<1>4. f[1 .. 0] = <<>> /\ \A k \in 1 .. n : f[1 .. k] = ApplyEvent(f[1 .. k - 1], s[k])
    BY <1>2, UnfoldsStep, Zenon
<1>5. g[1 .. 0] = <<>> /\ \A k \in 1 .. Len(r) : g[1 .. k] = ApplyEvent(g[1 .. k - 1], r[k])
    BY <1>1, <1>2, UnfoldsStep, Zenon
<1>6. f[1 .. n] = g[1 .. n]
    <2> DEFINE T == {k \in 0 .. n : f[1 .. k] # g[1 .. k]}
    <2>1. SUFFICES ASSUME T # {} PROVE FALSE
        BY <1>1
    <2>2. PICK k \in T : \A m \in T : k <= m
        <3>1. T \subseteq Nat
            BY <1>1
        <3> QED
            BY <2>1, <3>1, LeastNumber
    <2>3. CASE k = 0
        BY <1>4, <1>5, <2>3
    <2>4. CASE k # 0
        <3>1. k \in 1 .. n /\ k \in 1 .. Len(r) /\ k - 1 \in 0 .. n /\ k - 1 < k
            BY <1>1, <2>4
        <3>2. k - 1 \notin T
            BY <2>2, <3>1
        <3>3. f[1 .. k - 1] = g[1 .. k - 1]
            BY <3>1, <3>2
        <3>4. f[1 .. k] = ApplyEvent(f[1 .. k - 1], s[k]) /\ g[1 .. k] = ApplyEvent(g[1 .. k - 1], r[k])
            BY <1>4, <1>5, <3>1
        <3>5. f[1 .. k] = g[1 .. k]
            BY <1>1, <3>1, <3>3, <3>4
        <3> QED
            BY <2>2, <3>5
    <2> QED
        BY <2>3, <2>4
<1>7. g[1 .. n + 1] = ApplyEvent(g[1 .. n], e)
    <2>1. n + 1 \in 1 .. Len(r) /\ (n + 1) - 1 = n
        BY <1>1
    <2>2. g[1 .. n + 1] = ApplyEvent(g[1 .. (n + 1) - 1], r[n + 1])
        BY <1>5, <2>1
    <2> QED
        BY <1>1, <2>1, <2>2
<1> QED
    BY <1>1, <1>3, <1>6, <1>7 DEF r

-----------------------------------------------------------------------------
(* A burst is one event, however many keys made it.                         *)

LEMMA ConcatEmpty ==
    ASSUME NEW S, NEW a \in Seq(S)
    PROVE  a \o <<>> = a /\ <<>> \o a = a
OBVIOUS

(* The text once r is typed at loc, and once what is before loc is erased.  *)
Keyed(t, loc, r) == SubSeq(t, 1, loc) \o r \o SubSeq(t, loc + 1, Len(t))
Erased(t, loc) == SubSeq(t, 1, loc - 1) \o <<>> \o SubSeq(t, loc + 1, Len(t))

(* Typing r at a place, seen as one event.                                  *)
LEMMA KeyAlone ==
    ASSUME NEW t \in Seq(Char), NEW r \in Seq(Char), NEW loc \in 0 .. Len(t),
           NEW u, NEW n
    PROVE  /\ InText(t, MakeEvent(u, INSERT, loc, n, r))
           /\ ApplyEvent(t, MakeEvent(u, INSERT, loc, n, r)) = Keyed(t, loc, r)
<1> DEFINE e == MakeEvent(u, INSERT, loc, n, r)
           a == SubSeq(t, 1, loc)
           b == SubSeq(t, loc + 1, Len(t))
<1>1. e.init = loc /\ e.type = INSERT /\ e.text = r /\ INSERT # REMOVE
    BY DEF MakeEvent, INSERT, REMOVE
<1>2. a \in Seq(Char) /\ b \in Seq(Char)
    BY SplitAt
<1>3. InText(t, e)
    BY <1>1 DEF InText
<1>4. ApplyEvent(t, e) = a \o (r \o b)
    BY <1>1, Zenon DEF ApplyEvent
<1> HIDE DEF a, b
<1>5. (a \o r) \o b = a \o (r \o b)
    BY <1>2
<1>6. ApplyEvent(t, e) = (a \o r) \o b
    BY <1>4, <1>5, Zenon
<1> QED
    BY <1>3, <1>6 DEF a, b, Keyed

(* Typing r right after what a burst has inserted lengthens the burst.      *)
LEMMA KeyJoins ==
    ASSUME NEW h \in Seq(Char), NEW s \in Seq(Char), NEW r \in Seq(Char),
           NEW i \in 0 .. Len(h), NEW u, NEW n, NEW m
    PROVE  ApplyEvent(h, MakeEvent(u, INSERT, i, m, s \o r))
             = Keyed(ApplyEvent(h, MakeEvent(u, INSERT, i, n, s)), i + Len(s), r)
<1> DEFINE a == SubSeq(h, 1, i)
           b == SubSeq(h, i + 1, Len(h))
           t == ApplyEvent(h, MakeEvent(u, INSERT, i, n, s))
           v == ApplyEvent(h, MakeEvent(u, INSERT, i, m, s \o r))
           k == i + Len(s)
<1>1. a \in Seq(Char) /\ b \in Seq(Char) /\ Len(a) = i
    BY SplitAt
<1>2. t = a \o (s \o b) /\ v = a \o ((s \o r) \o b)
    BY DEF ApplyEvent, MakeEvent, INSERT, REMOVE
<1> HIDE DEF a, b, t, v
<1>3. a \o s \in Seq(Char) /\ Len(a \o s) = k /\ s \o r \in Seq(Char) /\ r \o b \in Seq(Char)
    BY <1>1, ConcatType, ConcatLen
<1>4. t = (a \o s) \o b
    BY <1>1, <1>2
<1>5. SubSeq(t, 1, k) = a \o s
    BY <1>1, <1>3, <1>4, FirstPart, Zenon
<1>6. SubSeq(t, k + 1, Len(t)) = b
    BY <1>1, <1>3, <1>4, SecondPart, Zenon
<1>7. (a \o s) \o r \o b = (a \o s) \o (r \o b)
    BY <1>1
<1>8. (a \o s) \o (r \o b) = a \o (s \o (r \o b))
    BY <1>1
<1>9. (s \o r) \o b = s \o (r \o b)
    BY <1>1
<1>10. v = SubSeq(t, 1, k) \o r \o SubSeq(t, k + 1, Len(t))
    BY <1>2, <1>5, <1>6, <1>7, <1>8, <1>9, Zenon
<1> QED
    BY <1>10, Zenon DEF t, v, k, Keyed

(* A burst in which nothing was typed changes nothing.                      *)
LEMMA EmptyBurst ==
    ASSUME NEW h \in Seq(Char), NEW i \in 0 .. Len(h), NEW u, NEW type \in EventType
    PROVE  /\ InText(h, MakeEvent(u, type, i, i, <<>>))
           /\ ApplyEvent(h, MakeEvent(u, type, i, i, <<>>)) = h
<1> DEFINE e == MakeEvent(u, type, i, i, <<>>)
           a == SubSeq(h, 1, i)
           b == SubSeq(h, i + 1, Len(h))
<1>1. InText(h, e)
    BY DEF InText, MakeEvent
<1>2. a \in Seq(Char) /\ b \in Seq(Char) /\ a \o b = h
    BY SplitAt
<1>3. <<>> \o b = b
    BY <1>2
<1>4. e.init = i /\ e.new = i /\ e.text = <<>>
    BY DEF MakeEvent
<1>5. ApplyEvent(h, e) = a \o IF e.type = INSERT THEN <<>> \o b ELSE b
    BY <1>4, Zenon DEF ApplyEvent
<1> HIDE DEF a, b
<1>6. ApplyEvent(h, e) = a \o b
    BY <1>3, <1>5
<1> QED
    BY <1>1, <1>2, <1>6

(* A backspace, seen as one event.                                          *)
LEMMA EraseAlone ==
    ASSUME NEW t \in Seq(Char), NEW loc \in 1 .. Len(t), NEW u, NEW s
    PROVE  /\ InText(t, MakeEvent(u, REMOVE, loc - 1, loc, s))
           /\ ApplyEvent(t, MakeEvent(u, REMOVE, loc - 1, loc, s)) = Erased(t, loc)
<1> DEFINE e == MakeEvent(u, REMOVE, loc - 1, loc, s)
<1>1. e.init = loc - 1 /\ e.type = REMOVE /\ e.new = loc /\ INSERT # REMOVE
    BY DEF MakeEvent, INSERT, REMOVE
<1>2. InText(t, e)
    BY <1>1 DEF InText
<1>3. SubSeq(t, 1, loc - 1) \in Seq(Char)
    BY SplitAt
<1>4. SubSeq(t, 1, loc - 1) \o <<>> = SubSeq(t, 1, loc - 1)
    BY <1>3, ConcatEmpty, Zenon
<1>5. ApplyEvent(t, e) = SubSeq(t, 1, loc - 1) \o SubSeq(t, loc + 1, Len(t))
    BY <1>1, Zenon DEF ApplyEvent
<1> QED
    BY <1>2, <1>4, <1>5 DEF Erased

(* A backspace right before what a burst has removed lengthens the burst.   *)
LEMMA EraseJoins ==
    ASSUME NEW h \in Seq(Char), NEW loc \in 1 .. Len(h), NEW n \in Nat, loc + n <= Len(h),
           NEW u, NEW s, NEW v
    PROVE  ApplyEvent(h, MakeEvent(u, REMOVE, loc - 1, loc + n, v))
             = Erased(ApplyEvent(h, MakeEvent(u, REMOVE, loc, loc + n, s)), loc)
<1> DEFINE a == SubSeq(h, 1, loc)
           b == SubSeq(h, loc + n + 1, Len(h))
           d == SubSeq(h, 1, loc - 1)
           t == ApplyEvent(h, MakeEvent(u, REMOVE, loc, loc + n, s))
           w == ApplyEvent(h, MakeEvent(u, REMOVE, loc - 1, loc + n, v))
<1>1. a \in Seq(Char) /\ Len(a) = loc /\ d \in Seq(Char) /\ Len(d) = loc - 1
    BY SplitAt
<1>2. b \in Seq(Char)
    <2>1. loc + n \in 0 .. Len(h)
        OBVIOUS
    <2> QED
        BY <2>1, SplitAt
<1>3. t = a \o b /\ w = d \o b
    BY DEF ApplyEvent, MakeEvent, INSERT, REMOVE
<1>4. \A k \in 1 .. loc - 1 : d[k] = a[k]
    BY SMTT(30)
<1> HIDE DEF a, b, d, t, w
<1>5. t \in Seq(Char) /\ Len(t) = loc + Len(b) /\ \A k \in 1 .. loc : t[k] = a[k]
    <2>1. a \o b \in Seq(Char) /\ Len(a \o b) = Len(a) + Len(b)
        BY <1>1, <1>2, ConcatType, ConcatLen
    <2>2. \A k \in 1 .. Len(a) : (a \o b)[k] = a[k]
        BY <1>1, <1>2
    <2> QED
        BY <1>1, <1>3, <2>1, <2>2
<1>6. SubSeq(t, 1, loc - 1) = d
    <2>1. loc - 1 \in 0 .. Len(t)
        BY <1>2, <1>5
    <2>2. /\ SubSeq(t, 1, loc - 1) \in Seq(Char) /\ Len(SubSeq(t, 1, loc - 1)) = loc - 1
          /\ \A k \in 1 .. loc - 1 : SubSeq(t, 1, loc - 1)[k] = t[k]
        BY <1>5, <2>1
    <2>3. \A k \in 1 .. loc - 1 : SubSeq(t, 1, loc - 1)[k] = d[k]
        BY <1>4, <1>5, <2>2
    <2> QED
        BY <1>1, <2>2, <2>3, SeqEqual
<1>7. SubSeq(t, loc + 1, Len(t)) = b
    BY <1>1, <1>2, <1>3, SecondPart, Zenon
<1>8. d \o <<>> = d
    BY <1>1, ConcatEmpty, Zenon
<1>9. w = SubSeq(t, 1, loc - 1) \o <<>> \o SubSeq(t, loc + 1, Len(t))
    BY <1>3, <1>6, <1>7, <1>8, Zenon
<1> QED
    BY <1>9, Zenon DEF t, w, Erased

(* More typed at the end of what the burst has inserted.                    *)
LEMMA TypedBurst ==
    ASSUME NEW h \in Seq(Char), NEW i \in Int, NEW r \in Seq(Char), NEW b \in Seq(Char),
           NEW u, NEW loc, NEW new,
           InText(h, MakeEvent(u, INSERT, i, loc, b))
    PROVE  /\ InText(h, MakeEvent(u, INSERT, i, new, b \o r))
           /\ ApplyEvent(h, MakeEvent(u, INSERT, i, new, b \o r))
                = Keyed(ApplyEvent(h, MakeEvent(u, INSERT, i, loc, b)), i + Len(b), r)
<1>1. i \in 0 .. Len(h)
    BY DEF InText, MakeEvent
<1>2. InText(h, MakeEvent(u, INSERT, i, new, b \o r))
    BY <1>1 DEF InText, MakeEvent, INSERT, REMOVE
<1>3. ApplyEvent(h, MakeEvent(u, INSERT, i, new, b \o r))
        = Keyed(ApplyEvent(h, MakeEvent(u, INSERT, i, loc, b)), i + Len(b), r)
    <2>1. ASSUME NEW k \in 0 .. Len(h)
          PROVE  ApplyEvent(h, MakeEvent(u, INSERT, k, new, b \o r))
                   = Keyed(ApplyEvent(h, MakeEvent(u, INSERT, k, loc, b)), k + Len(b), r)
        BY KeyJoins
    <2> QED
        BY <1>1, <2>1, Zenon
<1> QED
    BY <1>2, <1>3

(* One more backspace before what the burst has removed.                    *)
LEMMA ErasedBurst ==
    ASSUME NEW h \in Seq(Char), NEW loc \in Nat \ {0},
           NEW n \in Nat, NEW u, NEW s, NEW v,
           InText(h, MakeEvent(u, REMOVE, loc, loc + n, s))
    PROVE  /\ InText(h, MakeEvent(u, REMOVE, loc - 1, loc + n, v))
           /\ ApplyEvent(h, MakeEvent(u, REMOVE, loc - 1, loc + n, v))
                = Erased(ApplyEvent(h, MakeEvent(u, REMOVE, loc, loc + n, s)), loc)
<1>1. loc \in 0 .. Len(h) /\ loc + n \in 0 .. Len(h)
    BY DEF InText, MakeEvent, INSERT, REMOVE
<1>2. InText(h, MakeEvent(u, REMOVE, loc - 1, loc + n, v))
    BY <1>1 DEF InText, MakeEvent, INSERT, REMOVE
<1>3. loc \in 1 .. Len(h) /\ loc + n <= Len(h)
    BY <1>1
<1>4. ApplyEvent(h, MakeEvent(u, REMOVE, loc - 1, loc + n, v))
        = Erased(ApplyEvent(h, MakeEvent(u, REMOVE, loc, loc + n, s)), loc)
    <2>1. ASSUME NEW j \in 1 .. Len(h), j + n <= Len(h)
          PROVE  ApplyEvent(h, MakeEvent(u, REMOVE, j - 1, j + n, v))
                   = Erased(ApplyEvent(h, MakeEvent(u, REMOVE, j, j + n, s)), j)
        BY <2>1, EraseJoins
    <2> QED
        BY <1>3, <2>1, Zenon
<1> QED
    BY <1>2, <1>4

-----------------------------------------------------------------------------
(* With polite users one client drives the session and the others wait.     *)

OwnOutbox(c) == \A i \in 1 .. Len(outbox[c]) : outbox[c][i].user = c

(* An undo or redo that has not set its trigger yet.                        *)
Ahead(c) == method[c].step \in {"remove", "find", "measure", "shift"}

(* A method under way has its client to itself: no handler runs meanwhile,  *)
(* what it holds or is about to find is the client's own, and an undo or    *)
(* redo meets no trigger and no burst.                                      *)
MethodAlone(c) ==
    /\ HandlerIdle(c) \/ MethodDone(c)
    /\ method[c].step \in Holding => method[c].event.user = c
    /\ method[c].step \in {"remove", "find"} =>
          method[c].begin <= Len(globalStack[c]) /\ globalStack[c][method[c].begin].user = c
    /\ Ahead(c) => ~ undo_trigger[c] /\ ~ redo_trigger[c]
    /\ Reverses(c) /\ ~ MethodDone(c) => ~ eventDelay[c]

Driving(c) ==
    /\ OwnOutbox(c)
    /\ alive[c] => WriterOK(c) /\ EchoesOK(c) /\ mainQueue[c] = <<>> /\ MethodAlone(c)

Waiting(c) ==
    /\ outbox[c] = <<>>
    /\ alive[c] =>
          /\ WatcherOK(c) /\ tempStack[c] = <<>>
          /\ MethodDone(c) /\ ~ eventDelay[c]
          /\ ~ undo_trigger[c] /\ ~ redo_trigger[c]

(* What a client has still to receive, or is receiving, is the driver's.    *)
Handled(c) == IF HandlerIdle(c) THEN delivered[c] ELSE delivered[c] - 1

Receives(c, a) ==
    alive[c] => \A i \in 1 .. Len(log) : i > Handled(c) => log[i].user = a

(* An undo under way will turn into an id on the redo stack, and a redo     *)
(* begun takes one off.                                                     *)
Pending(c) ==
    Bit(Ahead(c) /\ method[c].kind = "undo") + Bit(undo_trigger[c] /\ pc[c] # "clearUndo")

RedoTaken(c) == method[c].step = "remove" /\ method[c].kind = "redo"

RedoFed(c) ==
    alive[c] => Len(redoStack[c]) + Pending(c) + used[c]["redo"]
                  = used[c]["undo"] + Bit(RedoTaken(c))

Drives(a) ==
    /\ Driving(a)
    /\ \A d \in Clients \ {a} : Waiting(d)
    /\ \A d \in Clients : Receives(d, a) /\ RedoFed(d)

PoliteInv == Clients = {} \/ \E a \in Clients : Drives(a)

(* The steps of a client itself, its user's apart.                          *)
OwnThreads(c) ==
    \/ HandlerIdle(c) /\ MainThread(c)
    \/ MethodDone(c) /\ ReceiveEvent(c)
    \/ ReceiveHandler(c)

-----------------------------------------------------------------------------
(* A client that nothing of happens to.                                     *)

LEMMA UntouchedDriver ==
    ASSUME NEW d \in Clients, Driving(d), Untouched(d), log' = log
    PROVE  Driving(d)'
<1>1. /\ Recorded(d)' = Recorded(d) /\ Unrecorded(d)' = Unrecorded(d)
      /\ Owed(d)' = Owed(d) /\ Triggers(d)' = Triggers(d) /\ Clearing(d)' = Clearing(d)
    BY DEF Untouched, Recorded, Deciding, Unrecorded, Owed, Awaited, Unsent, Reverses, Triggers,
           Clearing
<1>2. OwnOutbox(d)'
    BY DEF Driving, OwnOutbox, Untouched
<1>3. alive[d] => WriterOK(d)' /\ EchoesOK(d)'
    BY <1>1 DEF Driving, WriterOK, EchoesOK, Untouched
<1>4. alive[d] => mainQueue'[d] = <<>> /\ MethodAlone(d)'
    BY DEF Driving, MethodAlone, Ahead, Reverses, HandlerIdle, MethodDone, Untouched
<1> QED
    BY <1>2, <1>3, <1>4 DEF Driving, Untouched

LEMMA UntouchedWaits ==
    ASSUME TypeOK, [Next]_vars, NEW d \in Clients, Waiting(d), Untouched(d), log' = log
    PROVE  Waiting(d)'
<1>1. CASE alive[d]
    <2>1. WatcherOK(d)'
        BY <1>1, UntouchedWatcher DEF Waiting
    <2> QED
        BY <1>1, <2>1 DEF Waiting, Untouched, MethodDone
<1>2. CASE ~ alive[d]
    BY <1>2 DEF Waiting, Untouched
<1> QED
    BY <1>1, <1>2

LEMMA HandledGrows ==
    ASSUME TypeOK, [Next]_vars, NEW d \in Clients
    PROVE  Handled(d)' \in Int /\ Handled(d) \in Int /\ Handled(d) <= Handled(d)'
<1>1. /\ delivered[d] \in Nat /\ delivered \in [Clients -> Nat] /\ pc \in [Clients -> Label]
    BY DEF TypeOK, ServiceTypes, HandlerTypes
<1>2. CASE delivered'[d] = delivered[d] /\ pc'[d] = pc[d]
    BY <1>1, <1>2 DEF Handled, HandlerIdle
<1>3. CASE delivered'[d] = delivered[d] /\ pc[d] # "idle"
    BY <1>1, <1>3 DEF Handled, HandlerIdle
<1>4. CASE ReceiveEvent(d)
    <2>1. pc'[d] = "check" /\ pc[d] = "idle" /\ delivered'[d] = delivered[d] + 1
        BY <1>1, <1>4 DEF ReceiveEvent, At, Goto, Deliver
    <2> QED
        BY <1>1, <2>1 DEF Handled, HandlerIdle
<1>5. CASE ReceiveHandler(d)
    BY <1>3, <1>5, HandlerMoves
<1>6. CASE UserInput(d) \/ MainThread(d)
    BY <1>2, <1>6, MainThreadKeeps
<1>7. ASSUME NEW c \in Clients, Service(c)
      PROVE  delivered'[d] = delivered[d] /\ pc'[d] = pc[d]
    BY <1>7, ServiceKeeps
<1>8. ASSUME NEW c \in Clients, c # d,
             UserInput(c) \/ MainThread(c) \/ ReceiveEvent(c) \/ ReceiveHandler(c)
      PROVE  delivered'[d] = delivered[d] /\ pc'[d] = pc[d]
    BY <1>8, StepUntouched DEF Untouched
<1>9. CASE UNCHANGED vars
    BY <1>2, <1>9 DEF vars
<1> QED
    BY <1>2, <1>4, <1>5, <1>6, <1>7, <1>8, <1>9 DEF Next, ClientStep

LEMMA StillReceives ==
    ASSUME TypeOK, [Next]_vars, NEW d \in Clients, NEW a, Receives(d, a), log' = log,
           alive'[d] => alive[d]
    PROVE  Receives(d, a)'
<1>1. Handled(d)' \in Int /\ Handled(d) \in Int /\ Handled(d) <= Handled(d)'
    BY HandledGrows
<1>2. Len(log) \in Nat
    BY DEF TypeOK, ServiceTypes
<1> QED
    BY <1>1, <1>2 DEF Receives

LEMMA StillFed ==
    ASSUME NEW d \in Clients, RedoFed(d), redoStack'[d] = redoStack[d], used'[d] = used[d],
           Pending(d)' = Pending(d), RedoTaken(d)' = RedoTaken(d), alive'[d] => alive[d]
    PROVE  RedoFed(d)'
BY DEF RedoFed

LEMMA UntouchedFed ==
    ASSUME NEW d \in Clients, RedoFed(d), Untouched(d)
    PROVE  RedoFed(d)'
<1>1. Pending(d)' = Pending(d) /\ RedoTaken(d)' = RedoTaken(d)
    BY DEF Untouched, Pending, RedoTaken, Ahead
<1> QED
    BY <1>1, StillFed DEF Untouched

-----------------------------------------------------------------------------
(* When everything is quiet anybody may take over.                          *)

LEMMA QuietDriver ==
    ASSUME TypeOK, NEW a \in Clients, Driving(a), Settled(a), alive[a]
    PROVE  /\ delivered[a] = Len(log) /\ Recorded(a) = Len(log) /\ globalStack[a] = log
           /\ ~ undo_trigger[a] /\ ~ redo_trigger[a]
<1>1. /\ outbox[a] = <<>> /\ delivered[a] = Len(log) /\ pc[a] = "idle" /\ MethodDone(a)
      /\ WriterOK(a) /\ EchoesOK(a)
    BY DEF Settled, HandlerIdle, Driving
<1>2. Recorded(a) = Len(log)
    BY <1>1 DEF Recorded, Deciding
<1>3. log \in Seq(Event) /\ Len(log) \in Nat /\ globalStack[a] \in Seq(Event)
    BY DEF TypeOK, ServiceTypes, HistoryTypes
<1>4. log \o <<>> = log /\ globalStack[a] \o <<>> = globalStack[a]
    BY <1>3
<1>5. Unrecorded(a) = <<>> /\ ~ Unsent(a) /\ ~ Clearing(a)
    BY <1>1 DEF Unrecorded, Unsent, MethodDone, Clearing
<1>6. Owed(a) = 0 /\ Bit(Clearing(a)) = 0
    BY <1>1, <1>2, <1>3, <1>5 DEF Owed, Awaited, Bit
<1>7. undo_trigger[a] \in BOOLEAN /\ redo_trigger[a] \in BOOLEAN
    BY DEF TypeOK, StackTypes
<1>8. Triggers(a) <= 0 + 0
    BY <1>1, <1>6 DEF EchoesOK
<1>9. ~ undo_trigger[a] /\ ~ redo_trigger[a]
    BY <1>7, <1>8 DEF Triggers, Bit
<1> QED
    BY <1>1, <1>2, <1>4, <1>5, <1>9 DEF WriterOK

LEMMA QuietWaiter ==
    ASSUME TypeOK, NEW d \in Clients, Waiting(d), Settled(d), alive[d]
    PROVE  /\ delivered[d] = Len(log) /\ Recorded(d) = Len(log) /\ globalStack[d] = log
<1>1. /\ delivered[d] = Len(log) /\ pc[d] = "idle" /\ WatcherOK(d)
    BY DEF Settled, HandlerIdle, Waiting
<1>2. Recorded(d) = Len(log)
    BY <1>1 DEF Recorded, Deciding
<1>3. SubSeq(log, 1, Len(log)) = log
    BY SubSeqFull DEF TypeOK, ServiceTypes
<1> QED
    BY <1>1, <1>2, <1>3 DEF WatcherOK

LEMMA DriverMayWait ==
    ASSUME TypeOK, NEW a \in Clients, Driving(a), Settled(a), alive[a] => ~ eventDelay[a]
    PROVE  Waiting(a)
<1>1. outbox[a] = <<>>
    BY DEF Settled
<1>2. ASSUME alive[a]
      PROVE  /\ WatcherOK(a) /\ tempStack[a] = <<>>
             /\ MethodDone(a) /\ ~ eventDelay[a]
             /\ ~ undo_trigger[a] /\ ~ redo_trigger[a]
    <2>1. /\ delivered[a] = Len(log) /\ Recorded(a) = Len(log) /\ globalStack[a] = log
          /\ ~ undo_trigger[a] /\ ~ redo_trigger[a]
        BY <1>2, QuietDriver
    <2>2. pc[a] = "idle" /\ mainQueue[a] = <<>> /\ MethodDone(a) /\ tempStack[a] = <<>>
        BY <1>2 DEF Settled, HandlerIdle, Driving, WriterOK
    <2>3. SubSeq(log, 1, Len(log)) = log
        BY SubSeqFull DEF TypeOK, ServiceTypes
    <2>4. Len(mainQueue[a]) = 0 /\ Len(log) \in Nat
        BY <2>2 DEF TypeOK, ServiceTypes
    <2>5. Shown(a) = Len(log) - 0 - 0
        BY <1>2, <2>1, <2>2, <2>4 DEF Shown, Dispatched
    <2>6. Shown(a) \in Nat /\ 1 .. Len(mainQueue[a]) = {}
        BY <2>4, <2>5
    <2>7. WatcherOK(a)
        BY <2>1, <2>2, <2>3, <2>6 DEF WatcherOK, WatchLabel
    <2> QED
        BY <1>2, <2>1, <2>2, <2>7
<1> QED
    BY <1>1, <1>2 DEF Waiting

LEMMA WaiterMayDrive ==
    ASSUME TypeOK, NEW c \in Clients, Waiting(c), Settled(c)
    PROVE  Driving(c)
<1>1. outbox[c] = <<>>
    BY DEF Settled
<1>2. OwnOutbox(c)
    BY <1>1 DEF OwnOutbox
<1>3. ASSUME alive[c]
      PROVE  WriterOK(c) /\ EchoesOK(c) /\ mainQueue[c] = <<>> /\ MethodAlone(c)
    <2>1. Recorded(c) = Len(log) /\ globalStack[c] = log
        BY <1>3, QuietWaiter
    <2>2. pc[c] = "idle" /\ mainQueue[c] = <<>> /\ MethodDone(c)
        BY <1>3 DEF Settled, HandlerIdle
    <2>3. tempStack[c] = <<>> /\ ~ undo_trigger[c] /\ ~ redo_trigger[c] /\ ~ eventDelay[c]
        BY <1>3 DEF Waiting
    <2>4. log \o <<>> = log /\ Len(log) \in Nat
        BY DEF TypeOK, ServiceTypes
    <2>5. Unrecorded(c) = <<>> /\ ~ Unsent(c)
        BY <2>2 DEF Unrecorded, Unsent, MethodDone
    <2>6. WriterOK(c)
        BY <1>1, <2>1, <2>2, <2>3, <2>4, <2>5 DEF WriterOK, SoloLabel
    <2>7. Triggers(c) = 0 /\ Owed(c) = 0 /\ Bit(Clearing(c)) = 0
        BY <1>1, <2>1, <2>2, <2>3, <2>4, <2>5 DEF Triggers, Owed, Awaited, Bit, Clearing
    <2>8. EchoesOK(c)
        BY <2>2, <2>7 DEF EchoesOK
    <2>9. MethodAlone(c)
        BY <2>2, <2>3 DEF MethodAlone, MethodDone, HandlerIdle, Holding, Ahead
    <2> QED
        BY <2>2, <2>6, <2>8, <2>9
<1> QED
    BY <1>2, <1>3 DEF Driving

LEMMA HandOver ==
    ASSUME TypeOK, NEW a \in Clients, Drives(a), Quiet, NEW c \in Clients,
           \A d \in Clients \ {c} : alive[d] => ~ eventDelay[d]
    PROVE  Drives(c)
<1>1. \A d \in Clients : Settled(d)
    BY DEF Quiet
<1>2. CASE c = a
    BY <1>2
<1>3. CASE c # a
    <2>1. Driving(c)
        BY <1>1, <1>3, WaiterMayDrive DEF Drives
    <2>2. \A d \in Clients \ {c} : Waiting(d)
        BY <1>1, <1>3, DriverMayWait DEF Drives
    <2>3. ASSUME NEW d \in Clients, alive[d] PROVE Handled(d) = Len(log)
        BY <1>1, <2>3 DEF Settled, Handled
    <2>4. \A d \in Clients : Receives(d, c)
        <3>1. Len(log) \in Nat
            BY DEF TypeOK, ServiceTypes
        <3> QED
            BY <2>3, <3>1 DEF Receives
    <2> QED
        BY <2>1, <2>2, <2>4 DEF Drives
<1> QED
    BY <1>2, <1>3

-----------------------------------------------------------------------------
(* What the driver does.                                                    *)

LEMMA OutboxGrows ==
    ASSUME TypeOK, NEW c \in Clients, OwnOutbox(c),
           \/ outbox'[c] = outbox[c]
           \/ \E e \in Event : outbox'[c] = Append(outbox[c], e) /\ e.user = c
    PROVE  OwnOutbox(c)'
<1>1. CASE outbox'[c] = outbox[c]
    BY <1>1 DEF OwnOutbox
<1>2. ASSUME NEW e \in Event, outbox'[c] = Append(outbox[c], e), e.user = c PROVE OwnOutbox(c)'
    <2>1. outbox[c] \in Seq(Event)
        BY DEF TypeOK, ServiceTypes
    <2>2. /\ Len(outbox'[c]) = Len(outbox[c]) + 1 /\ Len(outbox[c]) \in Nat
          /\ \A i \in 1 .. Len(outbox[c]) : outbox'[c][i] = outbox[c][i]
          /\ outbox'[c][Len(outbox[c]) + 1] = e
        BY <1>2, <2>1
    <2> QED
        BY <1>2, <2>2 DEF OwnOutbox
<1> QED
    BY <1>1, <1>2

LEMMA BurstSent ==
    ASSUME TypeOK, Accepted, NEW c \in Clients, OwnOutbox(c), NEW kind, SendBurst(c, kind)
    PROVE  OwnOutbox(c)'
<1>1. BurstEvent(c) \in Event /\ BurstEvent(c).user = c
    BY BurstEventType, BurstUser
<1>2. outbox'[c] = Append(outbox[c], BurstEvent(c))
    BY BroadcastJoins DEF SendBurst
<1> QED
    BY <1>1, <1>2, OutboxGrows

LEMMA MainThreadSent ==
    ASSUME TypeOK, Accepted, NEW c \in Clients, OwnOutbox(c), MethodAlone(c),
           UserInput(c) \/ MainThread(c)
    PROVE  OwnOutbox(c)'
<1>1. ASSUME NEW type \in EventType, FlushBurst(c, type) PROVE OwnOutbox(c)'
    BY <1>1, BurstSent DEF FlushBurst
<1>2. CASE TimerFires(c)
    BY <1>2, BurstSent DEF TimerFires
<1>3. CASE SendReversal(c)
    <2>1. method[c].event \in Event /\ method[c].event.user = c
        BY <1>3, MethodType DEF SendReversal, Doing, MethodAlone, Holding, Fits
    <2>2. outbox'[c] = Append(outbox[c], method[c].event)
        BY <1>3, BroadcastJoins DEF SendReversal
    <2> QED
        BY <2>1, <2>2, OutboxGrows
<1>4. \/ \E type \in EventType : FlushBurst(c, type)
      \/ TimerFires(c) \/ SendReversal(c) \/ UNCHANGED outbox
    BY DEF UserInput, TypeText, DeleteText, RefuseBackspace, MoveCursor, Undo, Redo, StartReversal,
           MainThread, RunBlock, ContinueMethod, ReadOrderID, WriteOrderID, RecordBurst, ResumeKey,
           RemoveID, FindEvent, MeasureHistory, ShiftReversal, SetTrigger, ApplyReversal, TestStack,
           DisableButton, EnableButton
<1> QED
    BY <1>1, <1>2, <1>3, <1>4, OutboxGrows

LEMMA PoliteIsInput ==
    ASSUME NEW c \in Clients, PoliteInput(c)
    PROVE  /\ UserInput(c) /\ HandlerIdle(c) /\ alive[c] /\ MethodDone(c)
           /\ Settled(c) /\ Quiet
<1>1. Quiet /\ Settled(c)
    BY DEF PoliteInput, Quiet
<1>2. UserInput(c)
    BY DEF PoliteInput, UserInput
<1>3. alive[c]
    BY <1>2, OwnThreadAlive
<1>4. HandlerIdle(c) /\ MethodDone(c)
    BY <1>1, <1>3 DEF Settled
<1> QED
    BY <1>1, <1>2, <1>3, <1>4

(* The id a polite user takes off a stack names an own event.               *)
LEMMA OwnIds ==
    ASSUME TypeOK, StackInv, NEW c \in Clients, Recorded(c) = Len(log), globalStack[c] = log,
           NEW stack \in {undoStack[c], redoStack[c]}, stack # <<>>
    PROVE  /\ Last(stack) \in Nat /\ Last(stack) < Len(globalStack[c])
           /\ globalStack[c][Last(stack) + 1].user = c
<1>1. stack \in Seq(Nat)
    BY DEF TypeOK, StackTypes
<1>2. Owned(c, stack)
    BY DEF StackInv, StackOK, IdsOK
<1>3. Last(stack) = stack[Len(stack)] /\ Len(stack) \in 1 .. Len(stack)
    BY <1>1, EmptySeq DEF Last
<1>4. Last(stack) \in Nat
    BY <1>1, <1>3
<1> QED
    BY <1>2, <1>3, <1>4 DEF Owned

LEMMA ReversalStarts ==
    ASSUME TypeOK, NEW c \in Clients, Undo(c) \/ Redo(c)
    PROVE  /\ method'[c].step = "remove"
           /\ \E stack \in {undoStack[c], redoStack[c]} :
                 stack # <<>> /\ method'[c].begin = Last(stack) + 1
           /\ Undo(c) => method'[c].kind = "undo"
           /\ Redo(c) => method'[c].kind = "redo"
           /\ UNCHANGED <<globalStack, eventDelay, undo_trigger, redo_trigger, redoStack, alive>>
<1>1. method \in [Clients -> Method]
    BY MethodType
<1>2. ASSUME NEW kind, NEW enabled, NEW stack, StartReversal(c, kind, enabled, stack)
      PROVE  /\ method'[c].step = "remove" /\ method'[c].begin = Last(stack) + 1
             /\ method'[c].kind = kind /\ stack # <<>>
             /\ UNCHANGED <<globalStack, eventDelay, undo_trigger, redo_trigger, redoStack, alive>>
    BY <1>1, <1>2 DEF StartReversal, Free
<1>3. Undo(c) => method'[c].kind = "undo"
    BY <1>2 DEF Undo
<1>4. Redo(c) => method'[c].kind = "redo"
    BY <1>2 DEF Redo
<1>5. /\ method'[c].step = "remove"
      /\ UNCHANGED <<globalStack, eventDelay, undo_trigger, redo_trigger, redoStack, alive>>
    BY <1>2 DEF Undo, Redo
<1>6. \E stack \in {undoStack[c], redoStack[c]} :
         stack # <<>> /\ method'[c].begin = Last(stack) + 1
    BY <1>2 DEF Undo, Redo
<1> QED
    BY <1>3, <1>4, <1>5, <1>6

LEMMA BurstAlone ==
    ASSUME TypeOK, NEW c \in Clients, HandlerIdle(c), pc' = pc,
           NEW kind \in {"timer"} \cup EventType, SendBurst(c, kind)
    PROVE  MethodAlone(c)'
<1>1. method'[c].step = "count" /\ method'[c].kind = kind /\ method'[c].event = BurstEvent(c)
    BY MethodType DEF SendBurst, Free
<1>2. BurstEvent(c).user = c
    BY BurstUser
<1>3. kind \notin {"undo", "redo"}
    BY DEF EventType, INSERT, REMOVE
<1> QED
    BY <1>1, <1>2, <1>3 DEF MethodAlone, HandlerIdle, MethodDone, Ahead, Reverses

LEMMA DriverInput ==
    ASSUME TypeOK, StackInv, Accepted, NEW c \in Clients, Driving(c), PoliteInput(c)
    PROVE  Driving(c)'
<1>1. /\ UserInput(c) /\ HandlerIdle(c) /\ alive[c] /\ MethodDone(c) /\ Settled(c)
      /\ OwnOutbox(c) /\ WriterOK(c) /\ EchoesOK(c) /\ mainQueue[c] = <<>> /\ MethodAlone(c)
    BY PoliteIsInput DEF Driving
<1>2. OwnOutbox(c)' /\ WriterOK(c)' /\ EchoesOK(c)'
    BY <1>1, MainThreadSent, MainThreadWriter, MainThreadEchoes
<1>3. UNCHANGED <<mainQueue, undo_trigger, redo_trigger, pc>>
    BY <1>1 DEF UserInput, FlushBurst, TypeText, DeleteText, RefuseBackspace, KeyPressed, MoveCursor,
                Undo, Redo, StartReversal
<1>4. ~ undo_trigger[c] /\ ~ redo_trigger[c] /\ Recorded(c) = Len(log) /\ globalStack[c] = log
    BY <1>1, QuietDriver
<1>5. MethodAlone(c)'
    <2>1. CASE UNCHANGED method
        BY <1>1, <1>3, <2>1 DEF MethodAlone, HandlerIdle, MethodDone, Ahead, Holding
    <2>2. CASE (Undo(c) \/ Redo(c)) /\ ~ eventDelay[c]
        <3>1. PICK stack \in {undoStack[c], redoStack[c]} :
                 stack # <<>> /\ method'[c].begin = Last(stack) + 1
            BY <2>2, ReversalStarts
        <3>2. /\ method'[c].begin <= Len(globalStack[c])
              /\ globalStack[c][method'[c].begin].user = c
            <4>1. Len(globalStack[c]) \in Nat
                BY DEF TypeOK, HistoryTypes
            <4> QED
                BY <1>4, <3>1, <4>1, OwnIds
        <3>3. method'[c].step = "remove" /\ UNCHANGED <<globalStack, eventDelay>>
            BY <2>2, ReversalStarts
        <3> QED
            BY <1>1, <1>3, <1>4, <2>2, <3>2, <3>3 DEF MethodAlone, HandlerIdle, Holding
    <2>3. ASSUME NEW type \in EventType, FlushBurst(c, type) PROVE MethodAlone(c)'
        BY <1>1, <1>3, <2>3, BurstAlone DEF FlushBurst
    <2>4. \/ UNCHANGED method \/ ((Undo(c) \/ Redo(c)) /\ ~ eventDelay[c])
          \/ \E type \in EventType : FlushBurst(c, type)
        BY DEF PoliteInput, TypeText, DeleteText, RefuseBackspace, MoveCursor
    <2> QED
        BY <2>1, <2>2, <2>3, <2>4
<1> QED
    BY <1>1, <1>2, <1>3, <1>5 DEF Driving

(* A step of a method that keeps what the method holds.                     *)
LEMMA AloneKept ==
    ASSUME NEW c \in Clients, MethodAlone(c), HandlerIdle(c),
           UNCHANGED <<pc, eventDelay, globalStack, undo_trigger, redo_trigger>>,
           method[c].step # "free", method'[c].kind = method[c].kind,
           method'[c].step \in Holding => method'[c].event.user = c,
           method'[c].step = "find" =>
              method[c].step = "remove" /\ method'[c].begin = method[c].begin,
           method'[c].step # "remove",
           Ahead(c)' => Ahead(c)
    PROVE  MethodAlone(c)'
<1>1. Reverses(c)' = Reverses(c)
    BY DEF Reverses
<1> QED
    BY <1>1 DEF MethodAlone, HandlerIdle, MethodDone

LEMMA HeldAlone ==
    ASSUME TypeOK, NEW c \in Clients, MethodAlone(c), HandlerIdle(c),
           FindEvent(c) \/ ShiftReversal(c), alive'[c]
    PROVE  MethodAlone(c)'
<1>1. /\ method \in [Clients -> Method] /\ method[c].begin \in Nat
      /\ Fits(method[c], undoStack[c], redoStack[c])
    BY MethodType
<1>2. globalStack[c] \in Seq(Event)
    BY DEF TypeOK, HistoryTypes
<1>3. CASE FindEvent(c)
    <2>1. method[c].begin <= Len(globalStack[c])
        BY <1>3 DEF FindEvent, MethodAlone, Doing
    <2>2. /\ method'[c].event = globalStack[c][method[c].begin]
          /\ method'[c].step = "measure" /\ method'[c].kind = method[c].kind
          /\ UNCHANGED <<pc, eventDelay, globalStack, undo_trigger, redo_trigger>>
        BY <1>1, <1>3, <2>1 DEF FindEvent, Method
    <2>3. globalStack[c][method[c].begin].user = c /\ method[c].step = "find"
        BY <1>3 DEF FindEvent, MethodAlone, Doing
    <2> QED
        BY <2>2, <2>3, AloneKept DEF Ahead
<1>4. CASE ShiftReversal(c)
    <2> DEFINE check == globalStack[c][method[c].begin + 1]
    <2>1. method[c].step = "shift" /\ method[c].event \in Event /\ method[c].event.user = c
        BY <1>1, <1>4 DEF ShiftReversal, Doing, Fits, MethodAlone, Holding
    <2>2. CASE method[c].begin < Len(globalStack[c])
        <3>1. check \in Event
            BY <1>1, <1>2, <2>2
        <3>2. ShiftPast(check, method[c].event).user = c
            BY <2>1, <3>1, ShiftPastType
        <3>3. /\ method'[c].event = ShiftPast(check, method[c].event)
              /\ method'[c].step = method[c].step /\ method'[c].kind = method[c].kind
              /\ UNCHANGED <<pc, eventDelay, globalStack, undo_trigger, redo_trigger>>
            BY <1>1, <1>4, <2>2 DEF ShiftReversal, Method
        <3> QED
            BY <2>1, <3>2, <3>3, AloneKept DEF Ahead
    <2>3. CASE ~ (method[c].begin < Len(globalStack[c]))
        <3>1. ~ alive'[c]
            BY <1>4, <2>3 DEF ShiftReversal, Crash, TypeOK, OtherTypes
        <3> QED
            BY <3>1
    <2> QED
        BY <2>2, <2>3
<1> QED
    BY <1>3, <1>4

LEMMA MainThreadAlone ==
    ASSUME TypeOK, NEW c \in Clients, MethodAlone(c), HandlerIdle(c), MainThread(c),
           ~ RunBlock(c), alive'[c]
    PROVE  MethodAlone(c)'
<1>1. /\ method \in [Clients -> Method] /\ method[c] \in Method
      /\ Fits(method[c], undoStack[c], redoStack[c])
    BY MethodType
<1>2. CASE TimerFires(c)
    BY <1>2, BurstAlone DEF TimerFires
<1>3. CASE ReadOrderID(c) \/ WriteOrderID(c)
    <2>1. /\ method[c].step \in {"count", "increment"}
          /\ method'[c].event = method[c].event /\ method'[c].kind = method[c].kind
          /\ method'[c].step \in {"increment", "send", "append"}
          /\ UNCHANGED <<pc, eventDelay, globalStack, undo_trigger, redo_trigger>>
        BY <1>1, <1>3 DEF ReadOrderID, WriteOrderID, Doing, Method
    <2> QED
        BY <2>1, AloneKept DEF MethodAlone, Holding, Ahead
<1>4. CASE RecordBurst(c)
    <2>1. /\ method'[c].step \in {"free", "key"} /\ ~ Reverses(c)'
          /\ pc' = pc
        BY <1>1, <1>4 DEF RecordBurst, Free, Reverses
    <2> QED
        BY <2>1 DEF MethodAlone, HandlerIdle, Holding, Ahead
<1>5. CASE ResumeKey(c) \/ EnableButton(c)
    <2>1. method'[c].step = "free" /\ pc' = pc
        BY <1>1, <1>5 DEF ResumeKey, EnableButton, Return, Free
    <2> QED
        BY <2>1 DEF MethodAlone, HandlerIdle, MethodDone, Holding, Ahead
<1>6. CASE RemoveID(c)
    <2>1. /\ method[c].step = "remove" /\ method'[c].step = "find"
          /\ method'[c].begin = method[c].begin /\ method'[c].kind = method[c].kind
          /\ UNCHANGED <<pc, eventDelay, globalStack, undo_trigger, redo_trigger>>
        BY <1>1, <1>6 DEF RemoveID, Doing, Then, Method
    <2> QED
        BY <2>1, AloneKept DEF Holding, Ahead
<1>7. CASE MeasureHistory(c)
    <2>1. /\ method[c].step = "measure" /\ method'[c].step = "shift"
          /\ method'[c].event = method[c].event /\ method'[c].kind = method[c].kind
          /\ UNCHANGED <<pc, eventDelay, globalStack, undo_trigger, redo_trigger>>
        BY <1>1, <1>7 DEF MeasureHistory, Doing, Method
    <2> QED
        BY <2>1, AloneKept DEF MethodAlone, Holding, Ahead
<1>8. CASE FindEvent(c) \/ ShiftReversal(c)
    BY <1>8, HeldAlone
<1>9. CASE SetTrigger(c)
    <2>1. /\ method[c].step = "shift" /\ method[c].event \in Event /\ method[c].event.user = c
          /\ Reverses(c)
        BY <1>1, <1>9 DEF SetTrigger, Doing, Fits, MethodAlone, Holding, Reverses
    <2>2. ReverseEvent(method[c].event).user = c
        BY <2>1, ReverseEventType
    <2>3. /\ method'[c].step = "count" /\ method'[c].event = ReverseEvent(method[c].event)
          /\ method'[c].kind = method[c].kind
          /\ UNCHANGED <<pc, eventDelay>>
        BY <1>1, <1>9 DEF SetTrigger, Free
    <2> QED
        BY <2>1, <2>2, <2>3 DEF MethodAlone, HandlerIdle, MethodDone, Ahead
<1>10. CASE SendReversal(c)
    <2>1. /\ method[c].step = "send" /\ method'[c].step = "append"
          /\ method'[c].event = method[c].event /\ method'[c].kind = method[c].kind
          /\ UNCHANGED <<pc, eventDelay, globalStack, undo_trigger, redo_trigger>>
        BY <1>1, <1>10 DEF SendReversal, Doing, Then, Method
    <2> QED
        BY <2>1, AloneKept DEF MethodAlone, Holding, Ahead
<1>11. CASE ApplyReversal(c)
    <2>1. InText(text[c], method[c].event)
        BY <1>11 DEF ApplyReversal, Crash, TypeOK, OtherTypes
    <2>2. /\ method[c].step = "append" /\ Reverses(c)
          /\ method'[c].step = "test" /\ UNCHANGED <<pc, eventDelay>>
        BY <1>1, <1>11, <2>1 DEF ApplyReversal, Doing, Free
    <2> QED
        BY <2>2 DEF MethodAlone, HandlerIdle, MethodDone, Holding, Ahead
<1>12. CASE TestStack(c) \/ DisableButton(c)
    <2>1. /\ method[c].step \in {"test", "disable"} /\ method'[c].step \in {"disable", "enable"}
          /\ method'[c].kind = method[c].kind
          /\ UNCHANGED <<pc, eventDelay, globalStack, undo_trigger, redo_trigger>>
        BY <1>1, <1>12 DEF TestStack, DisableButton, Doing, Then, Method
    <2> QED
        BY <2>1, AloneKept DEF Holding, Ahead
<1> QED
    BY <1>2, <1>3, <1>4, <1>5, <1>6, <1>7, <1>8, <1>9, <1>10, <1>11, <1>12
       DEF MainThread, ContinueMethod

LEMMA DriverRuns ==
    ASSUME TypeOK, Accepted, NEW c \in Clients, Driving(c), HandlerIdle(c), MainThread(c)
    PROVE  Driving(c)' /\ ~ RunBlock(c)
<1>1. alive[c]
    BY OwnThreadAlive
<1>2. OwnOutbox(c) /\ WriterOK(c) /\ EchoesOK(c) /\ mainQueue[c] = <<>> /\ MethodAlone(c)
    BY <1>1 DEF Driving
<1>3. OwnOutbox(c)' /\ WriterOK(c)' /\ EchoesOK(c)'
    BY <1>2, MainThreadSent, MainThreadWriter, MainThreadEchoes
<1>4. ~ RunBlock(c)
    BY <1>2 DEF RunBlock
<1>5. UNCHANGED mainQueue
    BY <1>4 DEF MainThread, TimerFires, ContinueMethod, ReadOrderID, WriteOrderID, RecordBurst,
                ResumeKey, RemoveID, FindEvent, MeasureHistory, ShiftReversal, SetTrigger,
                SendReversal, ApplyReversal, TestStack, DisableButton, EnableButton
<1>6. alive'[c] => MethodAlone(c)'
    BY <1>2, <1>4, MainThreadAlone
<1> QED
    BY <1>2, <1>3, <1>4, <1>5, <1>6 DEF Driving

LEMMA DriverHandles ==
    ASSUME TypeOK, NEW c \in Clients, Driving(c), Receives(c, c),
           (MethodDone(c) /\ ReceiveEvent(c)) \/ ReceiveHandler(c)
    PROVE  /\ Driving(c)' /\ WriterOK(c) /\ HandsOwn(c) /\ EchoesOK(c) /\ MethodDone(c)
           /\ UNCHANGED <<alive, method, used, text, selection, currentEventString, currentEventType,
                          eventDelay, mainQueue>>
<1>1. alive[c] /\ (ReceiveEvent(c) \/ pc[c] # "idle")
    BY HandlerMoves DEF ReceiveEvent, At
<1>2. OwnOutbox(c) /\ WriterOK(c) /\ EchoesOK(c) /\ mainQueue[c] = <<>> /\ MethodAlone(c)
    BY <1>1 DEF Driving
<1>3. MethodDone(c)
    BY <1>1, <1>2, HandlerMoves DEF MethodAlone, HandlerIdle
<1>4. HandsOwn(c)
    <2> SUFFICES ASSUME pc[c] # "idle"
                 PROVE  Received(c).user = c /\ ~ Conflict(c)
        BY DEF HandsOwn
    <2>1. /\ delivered[c] \in Nat /\ delivered[c] \in 1 .. Len(log) /\ Handled(c) = delivered[c] - 1
        BY OrderIDType DEF Handled, HandlerIdle
    <2>2. Received(c).user = c
        BY <1>1, <2>1 DEF Receives, Received
    <2>3. log \in Seq(Event) /\ outbox[c] \in Seq(Event) /\ globalStack[c] \in Seq(Event)
        BY DEF TypeOK, ServiceTypes, HistoryTypes
    <2>4. globalStack[c] = log \o outbox[c]
        <3>1. Unrecorded(c) = <<>>
            BY <1>3 DEF Unrecorded, MethodDone
        <3>2. globalStack[c] \o <<>> = globalStack[c]
            BY <2>3
        <3> QED
            BY <1>1, <1>2, <3>1, <3>2 DEF WriterOK
    <2>5. globalStack[c][delivered[c]] = log[delivered[c]]
        BY <2>1, <2>3, <2>4, ConcatElements
    <2> QED
        BY <2>2, <2>5 DEF Conflict, Received
<1>5. /\ UNCHANGED <<log, outbox, globalStack, alive, method>>
      /\ ReceiveEvent(c) \/ CheckConflict(c) \/ RouteOwn(c) \/ RouteRedone(c) \/ RecordOwn(c)
         \/ ClearTrigger(c) \/ Counts(c)
    BY <1>2, <1>4, WriterHandles
<1>6. /\ UNCHANGED <<used, text, selection, currentEventString, currentEventType, eventDelay>>
    BY HandlerMoves DEF ReceiveEvent
<1>7. UNCHANGED mainQueue
    BY <1>5, CountsFrame DEF ReceiveEvent, CheckConflict, RouteOwn, RouteRedone, RecordOwn, ClearTrigger
<1>8. OwnOutbox(c)' /\ WriterOK(c)' /\ EchoesOK(c)'
    BY <1>2, <1>4, <1>5, HandlerWriter, HandlerEchoes DEF OwnOutbox
<1>9. MethodAlone(c)'
    BY <1>3, <1>5 DEF MethodAlone, MethodDone, Holding, Ahead
<1> QED
    BY <1>2, <1>3, <1>4, <1>5, <1>6, <1>7, <1>8, <1>9 DEF Driving

LEMMA DriverSends ==
    ASSUME TypeOK, NEW c \in Clients, Driving(c), Service(c)
    PROVE  /\ Driving(c)' /\ \E e \in Event : log' = Append(log, e) /\ e.user = c
<1>1. /\ log \in Seq(Event) /\ outbox[c] \in Seq(Event) /\ outbox[c] # <<>>
      /\ log' = Append(log, Head(outbox[c])) /\ outbox'[c] = Tail(outbox[c])
      /\ UNCHANGED <<globalStack, pc, tempStack, alive, mainQueue, method, undo_trigger,
                     redo_trigger, eventDelay>>
    BY DEF Service, Order, TypeOK, ServiceTypes
<1>2. Head(outbox[c]) = outbox[c][1] /\ Head(outbox[c]) \in Event /\ 1 \in 1 .. Len(outbox[c])
    BY <1>1, EmptySeq
<1>3. Head(outbox[c]).user = c
    BY <1>2 DEF Driving, OwnOutbox
<1>4. /\ Len(Tail(outbox[c])) = Len(outbox[c]) - 1 /\ Len(outbox[c]) \in Nat
      /\ \A i \in 1 .. Len(outbox[c]) - 1 : Tail(outbox[c])[i] = outbox[c][i + 1]
    BY <1>1
<1>5. OwnOutbox(c)'
    BY <1>1, <1>4 DEF Driving, OwnOutbox
<1>6. Append(log, Head(outbox[c])) \o Tail(outbox[c]) = log \o outbox[c]
    BY <1>1, ConcatMoved
<1>7. ASSUME alive[c] PROVE WriterOK(c)' /\ EchoesOK(c)' /\ mainQueue'[c] = <<>> /\ MethodAlone(c)'
    <2>1. Unrecorded(c)' = Unrecorded(c)
        BY <1>1 DEF Unrecorded, Reverses
    <2>2. WriterOK(c)'
        BY <1>1, <1>6, <1>7, <2>1 DEF Driving, WriterOK
    <2>3. EchoesOK(c)'
        BY <1>7, ServiceEchoes DEF Driving
    <2>4. MethodAlone(c)'
        BY <1>1, <1>7 DEF Driving, MethodAlone, HandlerIdle, MethodDone, Ahead, Reverses
    <2> QED
        BY <1>1, <1>7, <2>2, <2>3, <2>4 DEF Driving
<1> QED
    BY <1>1, <1>2, <1>3, <1>5, <1>7 DEF Driving

LEMMA OnlyDies ==
    ASSUME TypeOK, NEW d \in Clients, NEW c \in Clients,
           UserInput(c) \/ MainThread(c) \/ ReceiveEvent(c) \/ ReceiveHandler(c) \/ Service(c)
    PROVE  alive'[d] => alive[d]
<1>1. UserInput(c) \/ MainThread(c) => alive[c]
    BY OwnThreadAlive
<1>2. ReceiveEvent(c) \/ ReceiveHandler(c) \/ Service(c) => alive' = alive
    BY HandlerMoves, ServiceKeeps DEF ReceiveEvent
<1>3. d # c => alive'[d] = alive[d] \/ Service(c)
    BY StepUntouched DEF Untouched
<1> QED
    BY <1>1, <1>2, <1>3

-----------------------------------------------------------------------------
(* The redo stack.                                                          *)

LEMMA FedTypes ==
    ASSUME TypeOK, NEW c \in Clients
    PROVE  /\ redoStack[c] \in Seq(Nat) /\ Len(redoStack[c]) \in Nat
           /\ used[c]["undo"] \in Nat /\ used[c]["redo"] \in Nat
           /\ Pending(c) \in Nat /\ Bit(RedoTaken(c)) \in Nat
<1>1. redoStack[c] \in Seq(Nat) /\ used[c] \in [InputKind -> Nat]
    BY DEF TypeOK, StackTypes, OtherTypes
<1>2. Pending(c) \in Nat
    BY DEF Pending, Bit
<1>3. Bit(RedoTaken(c)) \in Nat
    BY DEF Bit
<1> QED
    BY <1>1, <1>2, <1>3 DEF InputKind

LEMMA FedMoved ==
    ASSUME TypeOK, NEW c \in Clients, alive[c], RedoFed(c),
           NEW dl \in -1 .. 1, NEW dp \in -1 .. 1, NEW du \in 0 .. 1, NEW dr \in 0 .. 1,
           NEW dt \in -1 .. 1,
           Len(redoStack'[c]) = Len(redoStack[c]) + dl, Pending(c)' = Pending(c) + dp,
           used'[c]["undo"] = used[c]["undo"] + du, used'[c]["redo"] = used[c]["redo"] + dr,
           Bit(RedoTaken(c))' = Bit(RedoTaken(c)) + dt,
           dl + dp + dr = du + dt
    PROVE  RedoFed(c)'
<1> DEFINE l == Len(redoStack[c])
           p == Pending(c)
           u == used[c]["undo"]
           r == used[c]["redo"]
           t == Bit(RedoTaken(c))
<1>1. l \in Nat /\ p \in Nat /\ u \in Nat /\ r \in Nat /\ t \in Nat
    BY FedTypes, Zenon
<1>2. l + p + r = u + t
    BY DEF RedoFed
<1>3. /\ Len(redoStack'[c]) = l + dl /\ Pending(c)' = p + dp
      /\ used'[c]["undo"] = u + du /\ used'[c]["redo"] = r + dr
      /\ Bit(RedoTaken(c))' = t + dt
    OBVIOUS
<1> HIDE DEF l, p, u, r, t
<1>4. (l + dl) + (p + dp) + (r + dr) = (u + du) + (t + dt)
    BY <1>1, <1>2
<1> QED
    BY <1>3, <1>4 DEF RedoFed

LEMMA Spent ==
    ASSUME TypeOK, NEW c \in Clients, NEW kind \in InputKind, Input(c, kind)
    PROVE  /\ used'[c][kind] = used[c][kind] + 1
           /\ \A k \in InputKind \ {kind} : used'[c][k] = used[c][k]
BY DEF Input, TypeOK, OtherTypes

LEMMA FedInput ==
    ASSUME TypeOK, NEW c \in Clients, Driving(c), RedoFed(c), PoliteInput(c)
    PROVE  RedoFed(c)'
<1>1. /\ alive[c] /\ MethodDone(c) /\ Settled(c) /\ HandlerIdle(c)
      /\ UserInput(c)
    BY PoliteIsInput
<1>2. ~ undo_trigger[c]
    BY <1>1, QuietDriver
<1>3. Len(redoStack[c]) \in Nat /\ used[c]["undo"] \in Nat /\ used[c]["redo"] \in Nat
    BY FedTypes
<1>4. Pending(c) = 0 /\ Bit(RedoTaken(c)) = 0
    BY <1>1, <1>2 DEF Pending, Bit, Ahead, RedoTaken, MethodDone
<1>5. UNCHANGED <<undo_trigger, redoStack>>
    BY <1>1 DEF UserInput, FlushBurst, TypeText, DeleteText, RefuseBackspace, KeyPressed, MoveCursor,
                Undo, Redo, StartReversal
<1>6. ASSUME ~ Ahead(c)', Input(c, "key") \/ Input(c, "move")
      PROVE  RedoFed(c)'
    <2>1. used'[c]["undo"] = used[c]["undo"] + 0 /\ used'[c]["redo"] = used[c]["redo"] + 0
        BY <1>3, <1>6, Spent DEF InputKind
    <2>2. Pending(c)' = Pending(c) + 0 /\ Len(redoStack'[c]) = Len(redoStack[c]) + 0
        BY <1>2, <1>3, <1>4, <1>5, <1>6 DEF Pending, Bit
    <2>3. Bit(RedoTaken(c))' = Bit(RedoTaken(c)) + 0
        BY <1>4, <1>6 DEF RedoTaken, Ahead, Bit
    <2> QED
        BY <1>1, <2>1, <2>2, <2>3, FedMoved
<1>7. CASE Undo(c)
    <2>1. method'[c].step = "remove" /\ method'[c].kind = "undo"
        BY <1>7, ReversalStarts
    <2>2. Pending(c)' = Pending(c) + 1 /\ Bit(RedoTaken(c))' = Bit(RedoTaken(c)) + 0
        BY <1>2, <1>4, <1>5, <2>1 DEF Pending, Bit, Ahead, RedoTaken
    <2>3. used'[c]["undo"] = used[c]["undo"] + 1 /\ used'[c]["redo"] = used[c]["redo"] + 0
        BY <1>3, <1>7, Spent DEF Undo, StartReversal, InputKind
    <2>4. Len(redoStack'[c]) = Len(redoStack[c]) + 0
        BY <1>3, <1>5
    <2> QED
        BY <1>1, <2>2, <2>3, <2>4, FedMoved
<1>8. CASE Redo(c)
    <2>1. method'[c].step = "remove" /\ method'[c].kind = "redo"
        BY <1>8, ReversalStarts
    <2>2. Pending(c)' = Pending(c) + 0 /\ Bit(RedoTaken(c))' = Bit(RedoTaken(c)) + 1
        BY <1>2, <1>4, <1>5, <2>1 DEF Pending, Bit, RedoTaken
    <2>3. used'[c]["undo"] = used[c]["undo"] + 0 /\ used'[c]["redo"] = used[c]["redo"] + 1
        BY <1>3, <1>8, Spent DEF Redo, StartReversal, InputKind
    <2>4. Len(redoStack'[c]) = Len(redoStack[c]) + 0
        BY <1>3, <1>5
    <2> QED
        BY <1>1, <2>2, <2>3, <2>4, FedMoved
<1>9. CASE \/ \E t \in EventType : FlushBurst(c, t)
           \/ \E t \in Replacements : TypeText(c, t)
           \/ DeleteText(c) \/ RefuseBackspace(c) \/ MoveCursor(c)
    <2>1. Input(c, "key") \/ Input(c, "move")
        BY <1>9 DEF FlushBurst, TypeText, DeleteText, RefuseBackspace, KeyPressed, MoveCursor
    <2>2. method' = method \/ method'[c].step = "count"
        BY <1>9, MethodType DEF FlushBurst, SendBurst, Free, TypeText, DeleteText, RefuseBackspace,
                                MoveCursor
    <2> QED
        BY <1>1, <1>6, <2>1, <2>2 DEF Ahead, MethodDone
<1> QED
    BY <1>7, <1>8, <1>9 DEF PoliteInput

LEMMA FedRuns ==
    ASSUME TypeOK, NEW c \in Clients, MethodAlone(c), HandlerIdle(c), RedoFed(c), MainThread(c),
           ~ RunBlock(c)
    PROVE  RedoFed(c)'
<1>1. UNCHANGED <<used, pc>> /\ alive[c]
    BY OwnThreadAlive DEF MainThread, TimerFires, ContinueMethod, ReadOrderID, WriteOrderID,
       RecordBurst, ResumeKey, RemoveID, FindEvent, MeasureHistory, ShiftReversal, SetTrigger,
       SendReversal, ApplyReversal, TestStack, DisableButton, EnableButton
<1>2. method \in [Clients -> Method] /\ Fits(method[c], undoStack[c], redoStack[c])
    BY MethodType
<1>3. pc[c] = "idle" /\ pc'[c] = "idle"
    BY <1>1 DEF HandlerIdle
<1>4. Len(redoStack[c]) \in Nat /\ used[c]["undo"] \in Nat /\ used[c]["redo"] \in Nat
    BY FedTypes
<1>5. CASE RemoveID(c)
    <2>1. /\ method[c].step = "remove" /\ method'[c].step = "find"
          /\ method'[c].kind = method[c].kind /\ undo_trigger' = undo_trigger
          /\ redoStack'[c] = IF method[c].kind = "redo" THEN Front(redoStack[c]) ELSE redoStack[c]
        BY <1>2, <1>5 DEF RemoveID, Doing, Then, Popped, Method, TypeOK, StackTypes
    <2>2. Pending(c)' = Pending(c) + 0
        BY <1>3, <2>1 DEF Pending, Ahead, Bit
    <2>3. used'[c]["undo"] = used[c]["undo"] + 0 /\ used'[c]["redo"] = used[c]["redo"] + 0
        BY <1>1, <1>4
    <2>4. CASE method[c].kind = "redo"
        <3>1. redoStack[c] \in Seq(Nat) /\ redoStack[c] # <<>>
            BY <1>2, <2>1, <2>4 DEF Fits, TypeOK, StackTypes
        <3>2. Len(redoStack'[c]) = Len(redoStack[c]) - 1
            BY <2>1, <2>4, <3>1, FrontType
        <3>3. Len(redoStack'[c]) = Len(redoStack[c]) + (-1)
            BY <1>4, <3>2
        <3>4. Bit(RedoTaken(c))' = Bit(RedoTaken(c)) + (-1)
            BY <2>1, <2>4 DEF RedoTaken, Bit
        <3>5. Pending(c)' = Pending(c) + 0 /\ (-1) + 0 + 0 = 0 + (-1)
            BY <2>2
        <3>6. /\ -1 \in -1 .. 1 /\ 0 \in -1 .. 1 /\ 0 \in 0 .. 1
            OBVIOUS
        <3>7. ASSUME NEW dl \in -1 .. 1, dl = -1
              PROVE  RedoFed(c)'
            BY <1>1, <2>3, <3>3, <3>4, <3>5, <3>6, <3>7, FedMoved
        <3> QED
            BY <3>6, <3>7
    <2>5. CASE method[c].kind # "redo"
        <3>1. RedoTaken(c)' = RedoTaken(c)
            BY <2>1, <2>5 DEF RedoTaken
        <3>2. Pending(c)' = Pending(c)
            BY <2>2, FedTypes
        <3> QED
            BY <1>1, <2>1, <2>5, <3>1, <3>2, StillFed
    <2> QED
        BY <2>4, <2>5
<1>6. CASE SetTrigger(c)
    <2>1. /\ method[c].step = "shift" /\ method'[c].step = "count" /\ redoStack' = redoStack
          /\ undo_trigger'[c] = (undo_trigger[c] \/ method[c].kind = "undo")
        BY <1>2, <1>6 DEF SetTrigger, Doing, Free, TypeOK, StackTypes
    <2>2. ~ undo_trigger[c]
        BY <2>1 DEF MethodAlone, Ahead
    <2>3. RedoTaken(c)' = RedoTaken(c)
        BY <2>1 DEF RedoTaken
    <2>4. Pending(c)' = Pending(c)
        <3>1. CASE method[c].kind = "undo"
            <4>1. Bit(Ahead(c) /\ method[c].kind = "undo") = 1
                BY <2>1, <3>1 DEF Ahead, Bit
            <4>2. Bit(undo_trigger[c] /\ pc[c] # "clearUndo") = 0
                BY <2>2 DEF Bit
            <4>3. Bit(Ahead(c) /\ method[c].kind = "undo")' = 0
                BY <2>1 DEF Ahead, Bit
            <4>4. Bit(undo_trigger[c] /\ pc[c] # "clearUndo")' = 1
                BY <1>3, <2>1, <3>1 DEF Bit
            <4> QED
                BY <4>1, <4>2, <4>3, <4>4 DEF Pending
        <3>2. CASE method[c].kind # "undo"
            BY <2>1, <2>2, <3>2 DEF Pending, Ahead, Bit
        <3> QED
            BY <3>1, <3>2
    <2> QED
        BY <1>1, <2>1, <2>3, <2>4, StillFed
<1>7. CASE TimerFires(c) \/ RecordBurst(c) \/ ResumeKey(c) \/ ApplyReversal(c) \/ EnableButton(c)
    <2>1. /\ UNCHANGED <<redoStack, undo_trigger>>
          /\ method[c].step \in {"free", "append", "key", "enable"}
          /\ method' = method \/ method'[c].step \in {"count", "free", "key", "test"}
        <3>1. CASE TimerFires(c)
            BY <1>2, <3>1 DEF TimerFires, Responsive, SendBurst, Free
        <3>2. CASE RecordBurst(c)
            BY <1>2, <3>2 DEF RecordBurst, Doing, Free
        <3>3. CASE ResumeKey(c) \/ EnableButton(c)
            BY <1>2, <3>3 DEF ResumeKey, EnableButton, Return, Doing, Free
        <3>4. CASE ApplyReversal(c)
            <4>1. /\ UNCHANGED <<redoStack, undo_trigger>> /\ method[c].step = "append"
                  /\ \/ method' = method
                     \/ method' = [method EXCEPT ![c] =
                            [Free EXCEPT !.kind = method[c].kind, !.step = "test"]]
                BY <3>4 DEF ApplyReversal, Doing
            <4> QED
                BY <1>2, <4>1 DEF Free
        <3> QED
            BY <1>7, <3>1, <3>2, <3>3, <3>4
    <2>2. Pending(c)' = Pending(c) /\ RedoTaken(c)' = RedoTaken(c)
        BY <1>3, <2>1 DEF Pending, RedoTaken, Ahead
    <2> QED
        BY <1>1, <2>1, <2>2, StillFed
<1>8. CASE ReadOrderID(c) \/ WriteOrderID(c) \/ SendReversal(c) \/ TestStack(c) \/ DisableButton(c)
    <2>1. /\ UNCHANGED <<redoStack, undo_trigger>>
          /\ method[c].step \in {"count", "increment", "send", "test", "disable"}
          /\ method'[c].step \in {"increment", "send", "append", "disable", "enable"}
        BY <1>2, <1>8 DEF ReadOrderID, WriteOrderID, SendReversal, TestStack, DisableButton, Then,
                          Doing, Method
    <2>2. Pending(c)' = Pending(c) /\ RedoTaken(c)' = RedoTaken(c)
        BY <1>3, <2>1 DEF Pending, RedoTaken, Ahead
    <2> QED
        BY <1>1, <2>1, <2>2, StillFed
<1>9. CASE FindEvent(c) \/ MeasureHistory(c) \/ ShiftReversal(c)
    <2>1. /\ UNCHANGED <<redoStack, undo_trigger>>
          /\ method[c].step \in {"find", "measure", "shift"}
          /\ method'[c].step \in {"find", "measure", "shift"}
          /\ method'[c].kind = method[c].kind
        BY <1>2, <1>9 DEF FindEvent, MeasureHistory, ShiftReversal, Doing, Method
    <2>2. Pending(c)' = Pending(c) /\ RedoTaken(c)' = RedoTaken(c)
        BY <1>3, <2>1 DEF Pending, RedoTaken, Ahead
    <2> QED
        BY <1>1, <2>1, <2>2, OnlyDies, StillFed
<1> QED
    BY <1>5, <1>6, <1>7, <1>8, <1>9 DEF MainThread, ContinueMethod

LEMMA FedHandles ==
    ASSUME TypeOK, NEW c \in Clients, WriterOK(c), HandsOwn(c), EchoesOK(c), RedoFed(c),
           MethodDone(c), ReceiveEvent(c) \/ ReceiveHandler(c)
    PROVE  RedoFed(c)'
<1>1. /\ UNCHANGED <<alive, method, used>>
      /\ \/ ReceiveEvent(c) /\ pc'[c] = "check"
         \/ CheckConflict(c) /\ pc'[c] = "dispatch"
         \/ RouteOwn(c) /\ pc'[c] = IF undo_trigger[c] THEN "undone" ELSE "route"
         \/ RouteRedone(c) /\ pc'[c] = IF redo_trigger[c] THEN "redone" ELSE "typed"
         \/ RecordOwn(c) /\ pc'[c] = CASE pc[c] = "undone" -> "clearUndo"
                                       [] pc[c] = "redone" -> "clearRedo"
                                       [] pc[c] = "typed"  -> "count"
         \/ ClearTrigger(c) /\ pc'[c] = "count"
         \/ Counts(c) /\ pc'[c] \in TailLabel \cup {"idle"}
    BY WriterHandles, HandlerMoves DEF ReceiveEvent
<1>2. RedoTaken(c)' = RedoTaken(c) /\ ~ Ahead(c) /\ ~ Ahead(c)'
    BY <1>1 DEF RedoTaken, Ahead, MethodDone
<1>3. undo_trigger[c] \in BOOLEAN
    BY DEF TypeOK, StackTypes
<1>4. CASE ReceiveEvent(c) \/ CheckConflict(c) \/ RouteOwn(c) \/ RouteRedone(c) \/ Counts(c)
    <2>1. UNCHANGED <<redoStack, undo_trigger>>
        BY <1>4, HandlerMoves, CountsFrame DEF ReceiveEvent, CheckConflict, RouteOwn, RouteRedone,
           Counts, CountReceived, AdvanceOrderID, CountUndoStack, SetUndoButton, CountRedoStack,
           SetRedoButton
    <2>2. pc[c] # "clearUndo" /\ pc'[c] # "clearUndo"
        BY <1>1, <1>4, CountsFrame DEF ReceiveEvent, CheckConflict, RouteOwn, RouteRedone, At, Goto,
           RecordOwn, ClearTrigger, TailLabel
    <2>3. Pending(c)' = Pending(c)
        BY <1>2, <2>1, <2>2 DEF Pending
    <2> QED
        BY <1>1, <1>2, <2>1, <2>3, StillFed
<1>5. CASE RecordOwn(c)
    <2>1. /\ pc[c] \in {"undone", "redone", "typed"} /\ alive[c] /\ undo_trigger' = undo_trigger
        BY <1>5 DEF RecordOwn
    <2>2. Len(redoStack[c]) \in Nat /\ used[c]["undo"] \in Nat /\ used[c]["redo"] \in Nat
          /\ Pending(c) \in Nat
        BY FedTypes
    <2>3. CASE pc[c] = "undone"
        <3>1. undo_trigger[c] /\ pc'[c] = "clearUndo"
            BY <1>5, <2>3 DEF EchoesOK, RecordOwn, Goto, TypeOK, HandlerTypes
        <3>2. Pending(c)' = Pending(c) + (-1)
            BY <1>2, <2>1, <2>3, <3>1 DEF Pending, Bit
        <3>3. redoStack'[c] = Append(redoStack[c], RecordedID(c))
            BY <1>5, <2>3 DEF RecordOwn, TypeOK, StackTypes
        <3>4. redoStack[c] \in Seq(Nat) /\ RecordedID(c) \in Nat
            BY DEF TypeOK, StackTypes, HistoryTypes, RecordedID
        <3>5. Len(redoStack'[c]) = Len(redoStack[c]) + 1
            BY <3>3, <3>4
        <3>6. used'[c]["undo"] = used[c]["undo"] + 0 /\ used'[c]["redo"] = used[c]["redo"] + 0
            BY <1>1, <2>2
        <3>7. Bit(RedoTaken(c))' = Bit(RedoTaken(c)) + 0
            BY <1>2, FedTypes
        <3> QED
            BY <2>1, <3>2, <3>5, <3>6, <3>7, FedMoved
    <2>4. CASE pc[c] # "undone"
        <3>1. pc'[c] # "clearUndo"
            BY <1>5, <2>1, <2>4 DEF RecordOwn, Goto, TypeOK, HandlerTypes
        <3>2. redoStack'[c] = redoStack[c]
            BY <1>5, <2>4 DEF RecordOwn
        <3>3. Pending(c)' = Pending(c)
            BY <1>2, <2>1, <3>1 DEF Pending
        <3> QED
            BY <1>1, <1>2, <3>2, <3>3, StillFed
    <2> QED
        BY <2>3, <2>4
<1>6. CASE ClearTrigger(c)
    <2>1. /\ redoStack' = redoStack /\ pc[c] \in {"clearUndo", "clearRedo"} /\ pc'[c] = "count"
          /\ undo_trigger'[c] = (undo_trigger[c] /\ pc[c] # "clearUndo")
        BY <1>6 DEF ClearTrigger, Clears, Goto, TypeOK, StackTypes, HandlerTypes
    <2>2. Pending(c)' = Pending(c)
        BY <1>2, <1>3, <2>1 DEF Pending
    <2> QED
        BY <1>1, <1>2, <2>1, <2>2, StillFed
<1> QED
    BY <1>1, <1>4, <1>5, <1>6

-----------------------------------------------------------------------------
(* What a waiting client does.                                              *)

LEMMA WaiterHandles ==
    ASSUME TypeOK, NEW c \in Clients, NEW a \in Clients, c # a, Waiting(c), Receives(c, a),
           ReceiveEvent(c) \/ ReceiveHandler(c)
    PROVE  /\ Waiting(c)' /\ Shown(c)' = Shown(c) /\ alive[c]
           /\ UNCHANGED <<alive, text, selection, used, method, redoStack, undo_trigger,
                          currentEventString, eventDelay>>
           /\ pc[c] \in WatchLabel /\ pc'[c] \in WatchLabel
<1>1. alive[c]
    BY HandlerMoves DEF ReceiveEvent, At
<1>2. WatcherOK(c) /\ tempStack[c] = <<>> /\ outbox[c] = <<>> /\ MethodDone(c)
      /\ ~ undo_trigger[c] /\ ~ redo_trigger[c] /\ ~ eventDelay[c]
    BY <1>1 DEF Waiting
<1>3. HandsForeign(c)
    <2> SUFFICES ASSUME pc[c] # "idle" PROVE Received(c).user # c
        BY DEF HandsForeign
    <2>1. /\ delivered[c] \in Nat /\ delivered[c] \in 1 .. Len(log) /\ Handled(c) = delivered[c] - 1
        BY OrderIDType DEF Handled, HandlerIdle
    <2> QED
        BY <1>1, <2>1 DEF Receives, Received
<1>4. WatcherOK(c)' /\ Shown(c)' = Shown(c) /\ UNCHANGED <<log, alive, text>>
    BY <1>2, <1>3, WatcherHandles
<1>5. \/ ReceiveEvent(c) \/ CheckConflict(c) \/ DispatchForeign(c) \/ AppendForeign(c)
      \/ Counts(c)
    <2>1. pc[c] \in WatchLabel /\ (pc[c] # "idle" => Received(c).user # c)
        BY <1>2, <1>3 DEF WatcherOK, HandsForeign
    <2>2. /\ ~ PopConflict(c) /\ ~ SavePopped(c) /\ ~ RemovePopped(c) /\ ~ DropPopped(c)
          /\ ~ RouteRedone(c) /\ ~ RecordOwn(c) /\ ~ ClearTrigger(c)
        BY <2>1 DEF PopConflict, SavePopped, RemovePopped, DropPopped, RouteRedone, RecordOwn,
                    ClearTrigger, At, WatchLabel, TailLabel
    <2>3. ~ DispatchPopped(c) /\ ~ RouteOwn(c)
        BY <2>1 DEF DispatchPopped, RouteOwn, At
    <2> QED
        BY <2>2, <2>3 DEF ReceiveHandler, Counts
<1>6. UNCHANGED <<selection, used, method, outbox, currentEventString, eventDelay>>
    BY HandlerMoves DEF ReceiveEvent, Deliver
<1>7. UNCHANGED <<redoStack, undo_trigger, redo_trigger>>
    <2>1. ~ RecordOwn(c) /\ ~ ClearTrigger(c)
        BY <1>2 DEF WatcherOK, RecordOwn, ClearTrigger, WatchLabel, TailLabel
    <2> QED
        BY <2>1, HandlerMoves DEF ReceiveEvent
<1>8. tempStack'[c] = <<>>
    BY <1>2, <1>5, CountsFrame DEF ReceiveEvent, CheckConflict, DispatchForeign, AppendForeign
<1>9. Waiting(c)'
    BY <1>1, <1>2, <1>4, <1>6, <1>7, <1>8 DEF Waiting, MethodDone
<1> QED
    BY <1>1, <1>2, <1>4, <1>6, <1>7, <1>9 DEF WatcherOK

LEMMA WaiterRuns ==
    ASSUME TypeOK, NEW c \in Clients, Waiting(c), MainThread(c)
    PROVE  Waiting(c)' /\ RunBlock(c) /\ WatcherOK(c)
<1>1. alive[c]
    BY OwnThreadAlive
<1>2. WatcherOK(c) /\ ~ eventDelay[c] /\ method[c].step = "free"
    BY <1>1 DEF Waiting, MethodDone
<1>3. RunBlock(c)
    BY <1>2 DEF MainThread, TimerFires, TimerDue, ContinueMethod, Doing, ReadOrderID, WriteOrderID,
                RecordBurst, ResumeKey, RemoveID, FindEvent, MeasureHistory, ShiftReversal,
                SetTrigger, SendReversal, ApplyReversal, TestStack, DisableButton, EnableButton
<1>4. WatcherOK(c)'
    BY <1>2, <1>3, WatcherRuns
<1>5. UNCHANGED <<outbox, tempStack, method, eventDelay, undo_trigger, redo_trigger>>
    BY <1>3 DEF RunBlock
<1> QED
    BY <1>1, <1>2, <1>3, <1>4, <1>5 DEF Waiting, MethodDone

-----------------------------------------------------------------------------
(* The invariant, step by step.                                             *)

LEMMA PoliteIsSerial ==
    ASSUME [PoliteNext]_vars
    PROVE  [SerialNext]_vars
<1>1. ASSUME NEW c \in Clients, PoliteInput(c) PROVE SerialNext
    BY <1>1, PoliteIsInput DEF SerialNext, SerialStep
<1> QED
    BY <1>1 DEF PoliteNext, PoliteStep, SerialNext, SerialStep

(* A step of one client, seen by all the others.                            *)
LEMMA OthersDrive ==
    ASSUME TypeOK, [Next]_vars, NEW a \in Clients, Drives(a), NEW c \in Clients,
           UserInput(c) \/ MainThread(c) \/ ReceiveEvent(c) \/ ReceiveHandler(c)
    PROVE  /\ log' = log
           /\ \A d \in Clients \ {c} :
                 /\ Untouched(d)
                 /\ d = a => Driving(d)'
                 /\ d # a => Waiting(d)'
                 /\ Receives(d, a)' /\ RedoFed(d)'
<1>1. ASSUME NEW d \in Clients, d # c PROVE Untouched(d) /\ log' = log
    BY <1>1, StepUntouched
<1>2. log' = log
    BY OthersKeepLog
<1>3. ASSUME NEW d \in Clients, d # c
      PROVE  /\ d = a => Driving(d)'
             /\ d # a => Waiting(d)'
             /\ Receives(d, a)' /\ RedoFed(d)'
    <2>1. d = a => Driving(d)'
        BY <1>1, <1>2, <1>3, UntouchedDriver DEF Drives
    <2>2. d # a => Waiting(d)'
        BY <1>1, <1>2, <1>3, UntouchedWaits DEF Drives
    <2>3. Receives(d, a)'
        BY <1>1, <1>2, <1>3, StillReceives DEF Drives, Untouched
    <2>4. RedoFed(d)'
        BY <1>1, <1>2, <1>3, UntouchedFed DEF Drives
    <2> QED
        BY <2>1, <2>2, <2>3, <2>4
<1> QED
    BY <1>1, <1>2, <1>3

LEMMA DriverDrives ==
    ASSUME TypeOK, StackInv, Accepted, [Next]_vars, NEW a \in Clients, Drives(a),
           PoliteInput(a) \/ OwnThreads(a)
    PROVE  Drives(a)'
<1>1. Driving(a) /\ Receives(a, a) /\ RedoFed(a)
    BY DEF Drives
<1>2. UserInput(a) \/ MainThread(a) \/ ReceiveEvent(a) \/ ReceiveHandler(a)
    BY PoliteIsInput DEF OwnThreads
<1>3. /\ log' = log
      /\ \A d \in Clients \ {a} : Waiting(d)' /\ Receives(d, a)' /\ RedoFed(d)'
    BY <1>2, OthersDrive
<1>4. Receives(a, a)'
    BY <1>1, <1>2, <1>3, OnlyDies, StillReceives
<1>5. CASE PoliteInput(a)
    <2>1. Driving(a)' /\ RedoFed(a)'
        BY <1>1, <1>5, DriverInput, FedInput
    <2> QED
        BY <1>3, <1>4, <2>1 DEF Drives
<1>6. CASE HandlerIdle(a) /\ MainThread(a)
    <2>1. Driving(a)' /\ ~ RunBlock(a)
        BY <1>1, <1>6, DriverRuns
    <2>2. MethodAlone(a)
        BY <1>1, <1>6, OwnThreadAlive DEF Driving
    <2>3. RedoFed(a)'
        BY <1>1, <1>6, <2>1, <2>2, FedRuns
    <2> QED
        BY <1>3, <1>4, <2>1, <2>3 DEF Drives
<1>7. CASE (MethodDone(a) /\ ReceiveEvent(a)) \/ ReceiveHandler(a)
    <2>1. Driving(a)' /\ WriterOK(a) /\ HandsOwn(a) /\ EchoesOK(a) /\ MethodDone(a)
        BY <1>1, <1>7, DriverHandles
    <2>2. RedoFed(a)'
        BY <1>1, <1>7, <2>1, FedHandles
    <2> QED
        BY <1>3, <1>4, <2>1, <2>2 DEF Drives
<1> QED
    BY <1>5, <1>6, <1>7 DEF OwnThreads

LEMMA WaiterLets ==
    ASSUME TypeOK, [Next]_vars, NEW a \in Clients, Drives(a), NEW c \in Clients \ {a},
           OwnThreads(c)
    PROVE  Drives(a)'
<1>1. Waiting(c) /\ Receives(c, a) /\ RedoFed(c) /\ c \in Clients /\ c # a
    BY DEF Drives
<1>2. MainThread(c) \/ ReceiveEvent(c) \/ ReceiveHandler(c)
    BY DEF OwnThreads
<1>3. /\ log' = log
      /\ Driving(a)'
      /\ \A d \in Clients \ {a, c} : Waiting(d)'
      /\ \A d \in Clients \ {c} : Receives(d, a)' /\ RedoFed(d)'
    BY <1>1, <1>2, OthersDrive
<1>4. Waiting(c)'
    BY <1>1, <1>2, WaiterRuns, WaiterHandles
<1>5. alive'[c] => alive[c]
    BY <1>1, <1>2, OnlyDies
<1>6. Receives(c, a)'
    BY <1>1, <1>3, <1>5, StillReceives
<1>7. RedoFed(c)'
    <2>1. CASE MainThread(c)
        <3>1. RunBlock(c)
            BY <1>1, <2>1, WaiterRuns
        <3>2. UNCHANGED <<redoStack, used, undo_trigger, method, pc>>
            BY <3>1 DEF RunBlock
        <3>3. Pending(c)' = Pending(c) /\ RedoTaken(c)' = RedoTaken(c)
            BY <3>2 DEF Pending, RedoTaken, Ahead
        <3> QED
            BY <1>1, <1>5, <3>2, <3>3, StillFed
    <2>2. CASE ReceiveEvent(c) \/ ReceiveHandler(c)
        <3>1. /\ UNCHANGED <<redoStack, used, undo_trigger, method>>
              /\ pc[c] \in WatchLabel /\ pc'[c] \in WatchLabel
            BY <1>1, <2>2, WaiterHandles
        <3>2. pc[c] # "clearUndo" /\ pc'[c] # "clearUndo"
            BY <3>1 DEF WatchLabel, TailLabel
        <3>3. Pending(c)' = Pending(c) /\ RedoTaken(c)' = RedoTaken(c)
            BY <3>1, <3>2 DEF Pending, RedoTaken, Ahead
        <3> QED
            BY <1>1, <1>5, <3>1, <3>3, StillFed
    <2> QED
        BY <1>2, <2>1, <2>2
<1> QED
    BY <1>3, <1>4, <1>6, <1>7 DEF Drives

LEMMA DriverIsHeard ==
    ASSUME TypeOK, [Next]_vars, NEW a \in Clients, Drives(a), NEW c \in Clients, Service(c)
    PROVE  Drives(a)' /\ c = a
<1>1. c = a
    BY DEF Service, Order, Drives, Waiting
<1>2. /\ outbox' = [outbox EXCEPT ![a] = Tail(@)]
      /\ UNCHANGED <<delivered, screenVars, burstVars, undoVars, method, historyVars, handlerVars,
                     alive, used>>
    BY <1>1, ServiceKeeps DEF Service, Order
<1>3. UNCHANGED <<pc, tempStack, globalStack, mainQueue, redoStack, undo_trigger, redo_trigger,
                  eventDelay>>
    BY <1>2 DEF screenVars, burstVars, undoVars, stackVars, historyVars, handlerVars
<1>4. Driving(a)' /\ \E e \in Event : log' = Append(log, e) /\ e.user = a
    BY <1>1, DriverSends DEF Drives
<1>5. PICK e \in Event : log' = Append(log, e) /\ e.user = a
    BY <1>4
<1>6. ASSUME NEW d \in Clients \ {a} PROVE Waiting(d)'
    <2>1. outbox'[d] = outbox[d]
        BY <1>2 DEF TypeOK, ServiceTypes
    <2>2. WatcherOK(d) => WatcherOK(d)'
        BY <1>2, <1>3, <1>5, WatcherFrame
    <2> QED
        BY <1>2, <1>3, <1>6, <2>1, <2>2 DEF Drives, Waiting, MethodDone
<1>7. ASSUME NEW d \in Clients PROVE Receives(d, a)' /\ RedoFed(d)'
    <2>1. log \in Seq(Event)
        BY DEF TypeOK, ServiceTypes
    <2>2. /\ Len(log') = Len(log) + 1 /\ Len(log) \in Nat
          /\ \A i \in 1 .. Len(log) : log'[i] = log[i]
          /\ log'[Len(log) + 1] = e
        BY <1>5, <2>1
    <2>3. Handled(d)' = Handled(d) /\ Pending(d)' = Pending(d) /\ RedoTaken(d)' = RedoTaken(d)
        BY <1>2, <1>3 DEF Handled, HandlerIdle, Pending, RedoTaken, Ahead
    <2>4. Receives(d, a)'
        BY <1>2, <1>5, <2>2, <2>3 DEF Drives, Receives
    <2>5. RedoFed(d)'
        BY <1>2, <1>3, <2>3, StillFed DEF Drives
    <2> QED
        BY <2>4, <2>5
<1> QED
    BY <1>1, <1>4, <1>6, <1>7 DEF Drives

LEMMA UnchangedDrives ==
    ASSUME TypeOK, NEW a \in Clients, Drives(a), UNCHANGED vars
    PROVE  Drives(a)'
<1>1. UNCHANGED <<log, delivered, alive>> /\ \A d \in Clients : Untouched(d)
    BY DEF vars, serviceVars, screenVars, burstVars, undoVars, stackVars, buttonVars, historyVars,
           handlerVars, Untouched
<1>2. Driving(a)'
    BY <1>1, UntouchedDriver DEF Drives
<1>3. \A d \in Clients \ {a} : Waiting(d)'
    BY <1>1, UntouchedWaits DEF Drives
<1>4. \A d \in Clients : Receives(d, a)' /\ RedoFed(d)'
    BY <1>1, StillReceives, UntouchedFed DEF Drives
<1> QED
    BY <1>2, <1>3, <1>4 DEF Drives

LEMMA StepPolite ==
    ASSUME TypeOK, StackInv, Accepted, [PoliteNext]_vars, NEW b \in Clients, Drives(b)
    PROVE  \E a \in Clients : Drives(a)'
<1>1. [Next]_vars
    BY PoliteIsSerial, SerialIsNext
<1>2. CASE UNCHANGED vars
    BY <1>2, UnchangedDrives
<1>3. ASSUME NEW c \in Clients, PoliteInput(c) PROVE Drives(c)'
    <2>1. \A d \in Clients \ {c} : alive[d] => ~ eventDelay[d]
        BY <1>3 DEF PoliteInput
    <2>2. Drives(c)
        BY <1>3, <2>1, PoliteIsInput, HandOver
    <2> QED
        BY <1>1, <1>3, <2>2, DriverDrives
<1>4. ASSUME NEW c \in Clients, OwnThreads(c) PROVE Drives(b)'
    BY <1>1, <1>4, DriverDrives, WaiterLets
<1>5. ASSUME NEW c \in Clients, Service(c) PROVE Drives(b)'
    BY <1>1, <1>5, DriverIsHeard
<1> QED
    BY <1>2, <1>3, <1>4, <1>5 DEF PoliteNext, PoliteStep, RunsByItself, OwnThreads

LEMMA InitPolite ==
    ASSUME Init, NEW a \in Clients
    PROVE  Drives(a)
<1>1. TypeOK
    BY InitTypes
<1>2. \A d \in Clients : WatcherOK(d)
    BY InitScreens
<1>3. ASSUME NEW d \in Clients PROVE Settled(d) /\ Waiting(d) /\ Receives(d, a) /\ RedoFed(d)
    <2>1. /\ outbox[d] = <<>> /\ delivered[d] = 0 /\ log = <<>> /\ Len(log) = 0
          /\ pc[d] = "idle" /\ mainQueue[d] = <<>> /\ method[d] = Free /\ tempStack[d] = <<>>
          /\ ~ eventDelay[d] /\ ~ undo_trigger[d] /\ ~ redo_trigger[d]
          /\ redoStack[d] = <<>> /\ used[d]["undo"] = 0 /\ used[d]["redo"] = 0
        BY DEF Init, ServiceInit, InputKind
    <2>2. method[d].step = "free"
        BY <2>1 DEF Free
    <2>3. Settled(d) /\ Waiting(d)
        BY <1>2, <2>1, <2>2 DEF Settled, HandlerIdle, MethodDone, Waiting
    <2>4. Receives(d, a)
        BY <2>1 DEF Receives
    <2>5. Pending(d) = 0 /\ Bit(RedoTaken(d)) = 0 /\ Len(redoStack[d]) = 0
        BY <2>1, <2>2 DEF Pending, Bit, Ahead, RedoTaken
    <2>6. RedoFed(d)
        BY <2>1, <2>5 DEF RedoFed
    <2> QED
        BY <2>3, <2>4, <2>6
<1>4. Driving(a)
    BY <1>1, <1>3, WaiterMayDrive
<1> QED
    BY <1>3, <1>4 DEF Drives

LEMMA PoliteTypes == PoliteSafety => []TypeOK /\ []StackInv
<1>1. Init => TypeOK /\ StackInv
    BY InitTypes, InitStack
<1>2. TypeOK /\ StackInv /\ [PoliteNext]_vars => TypeOK' /\ StackInv'
    BY PoliteIsSerial, SerialIsNext, StepTypes, SerialStack
<1> QED
    BY <1>1, <1>2, PTL DEF PoliteSafety

LEMMA QuietFeeds ==
    ASSUME TypeOK, PoliteInv
    PROVE  UndoFeedsRedo
<1> SUFFICES ASSUME Quiet, NEW c \in Clients, alive[c]
             PROVE  Len(redoStack[c]) = used[c]["undo"] - used[c]["redo"]
    BY DEF UndoFeedsRedo
<1>1. PICK a \in Clients : Drives(a)
    BY DEF PoliteInv
<1>2. Settled(c) /\ MethodDone(c)
    BY DEF Quiet, Settled
<1>3. ~ undo_trigger[c]
    BY <1>1, <1>2, QuietDriver DEF Drives, Waiting
<1>4. Pending(c) = 0 /\ Bit(RedoTaken(c)) = 0
    BY <1>2, <1>3 DEF Pending, Bit, Ahead, RedoTaken, MethodDone
<1>5. Len(redoStack[c]) + 0 + used[c]["redo"] = used[c]["undo"] + 0
    BY <1>1, <1>4 DEF Drives, RedoFed
<1>6. Len(redoStack[c]) \in Nat /\ used[c]["undo"] \in Nat /\ used[c]["redo"] \in Nat
    BY FedTypes
<1> QED
    BY <1>5, <1>6

(* Users who take turns find one redoable step for every undo they have not *)
(* redone, whatever they do and for as long as they like: no two undos ever *)
(* share a trigger (ViewController.mm:317-331, 528, 599).                   *)
THEOREM PoliteUndo == ASSUME Accepted PROVE PoliteSafety => []UndoFeedsRedo
<1>1. Init => PoliteInv
    BY InitPolite DEF PoliteInv
<1>2. TypeOK /\ StackInv /\ PoliteInv /\ [PoliteNext]_vars => PoliteInv'
    <2> SUFFICES ASSUME TypeOK, StackInv, PoliteInv, [PoliteNext]_vars PROVE PoliteInv'
        OBVIOUS
    <2> QED
        BY StepPolite DEF PoliteInv
<1>3. TypeOK /\ PoliteInv => UndoFeedsRedo
    <2>1. CASE Clients = {}
        BY <2>1 DEF UndoFeedsRedo
    <2>2. CASE \E a \in Clients : Drives(a)
        BY <2>2, QuietFeeds DEF PoliteInv
    <2> QED
        BY <2>1, <2>2 DEF PoliteInv
<1> QED
    BY <1>1, <1>2, <1>3, PoliteTypes, PTL DEF PoliteSafety

-----------------------------------------------------------------------------
(* The screens, when one character at a time is typed and nothing selected. *)
(* Of a paste and of an erased selection the code sends something else than *)
(* what it shows (ViewController.mm:236, 255), so no more can be asked.     *)

PlainUse == MaxSelection = 0 /\ \A r \in Replacements : Len(r) = 1

(* The text of the history, with a burst that was sent and is about to be   *)
(* recorded.                                                                *)
Sent(c) == ~ Reverses(c) /\ method[c].step \in {"count", "increment", "send", "append"}
Base(c) == IF Sent(c) THEN ApplyEvent(Replay(globalStack[c]), method[c].event)
                      ELSE Replay(globalStack[c])

Interrupted(c) == method[c].kind \in EventType /\ ~ MethodDone(c)

(* The driver's screen is that and the burst it has not sent; a key that    *)
(* ended a burst has yet to begin the next.                                 *)
DriverShows(c) ==
    LET h == Base(c)
    IN  alive[c] =>
            /\ h \in Seq(Char)
            /\ eventDelay[c] => InText(h, BurstEvent(c)) /\ text[c] = ApplyEvent(h, BurstEvent(c))
            /\ ~ eventDelay[c] => currentEventString[c] = <<>> /\ text[c] = h
            /\ Interrupted(c) => eventDelay[c] /\ currentEventString[c] = <<>>

WaiterShows(c) ==
    alive[c] => currentEventString[c] = <<>> /\ text[c] = Replay(SubSeq(log, 1, Shown(c)))

Shows(a) ==
    /\ DriverShows(a)
    /\ \A d \in Clients \ {a} : WaiterShows(d)
    /\ \A d \in Clients : selection[d].len = 0

PlainInv == Clients = {} \/ \E a \in Clients : Drives(a) /\ Shows(a)

LEMMA NothingSelected ==
    ASSUME TypeOK, PlainUse, [Next]_vars, NEW d \in Clients, selection[d].len = 0
    PROVE  selection'[d].len = 0
<1>1. selection \in [Clients -> Selection]
    BY DEF TypeOK, ScreenTypes
<1>2. ASSUME NEW c \in Clients, NEW t, NEW loc, Display(c, t, loc) PROVE selection'[d].len = 0
    BY <1>1, <1>2 DEF Display
<1>3. CASE UNCHANGED selection
    BY <1>3
<1>4. ASSUME NEW c \in Clients, MoveCursor(c) PROVE selection'[d].len = 0
    <2>1. PICK loc \in 0 .. Len(text[c]), len \in 0 .. MaxSelection :
              selection' = [selection EXCEPT ![c] = [loc |-> loc, len |-> len]]
        BY <1>4 DEF MoveCursor
    <2>2. len = 0
        BY <2>1 DEF PlainUse
    <2> QED
        BY <1>1, <2>1, <2>2
<1>5. ASSUME NEW c \in Clients, Erase(c) \/ \E r \in Replacements : Insert(c, r)
      PROVE  selection'[d].len = 0
    BY <1>2, <1>3, <1>5 DEF Erase, Insert, Replace
<1>6. ASSUME NEW c \in Clients, UserInput(c) PROVE selection'[d].len = 0
    BY <1>3, <1>4, <1>5, <1>6
       DEF UserInput, FlushBurst, TypeText, DeleteText, RefuseBackspace, Undo, Redo, StartReversal,
           screenVars
<1>7. ASSUME NEW c \in Clients, ResumeKey(c) PROVE selection'[d].len = 0
    BY <1>5, <1>7 DEF ResumeKey
<1>8. ASSUME NEW c \in Clients, RunBlock(c) \/ ApplyReversal(c) PROVE selection'[d].len = 0
    BY <1>2, <1>3, <1>8 DEF RunBlock, ApplyReversal
<1>9. ASSUME NEW c \in Clients, MainThread(c) PROVE selection'[d].len = 0
    <2>1. CASE TimerFires(c) \/ ReadOrderID(c) \/ WriteOrderID(c) \/ RecordBurst(c) \/ RemoveID(c)
        BY <1>3, <2>1 DEF TimerFires, ReadOrderID, WriteOrderID, RecordBurst, RemoveID, screenVars
    <2>2. CASE \/ FindEvent(c) \/ MeasureHistory(c) \/ ShiftReversal(c) \/ SetTrigger(c)
               \/ SendReversal(c) \/ TestStack(c) \/ DisableButton(c) \/ EnableButton(c)
        BY <1>3, <2>2 DEF FindEvent, MeasureHistory, ShiftReversal, SetTrigger, SendReversal,
                          TestStack, DisableButton, EnableButton, screenVars
    <2> QED
        BY <1>7, <1>8, <1>9, <2>1, <2>2 DEF MainThread, ContinueMethod
<1>10. ASSUME NEW c \in Clients, ReceiveEvent(c) \/ ReceiveHandler(c) \/ Service(c)
       PROVE  UNCHANGED selection
    BY <1>10, HandlerMoves, ServiceKeeps DEF ReceiveEvent, screenVars
<1> QED
    BY <1>3, <1>6, <1>9, <1>10 DEF Next, ClientStep, vars, screenVars

-----------------------------------------------------------------------------
(* The burst.                                                               *)

LEMMA BurstFields ==
    ASSUME TypeOK, NEW c \in Clients
    PROVE  LET s == currentEventString[c]
               loc == selection[c].loc
           IN  /\ s \in Seq(Char) /\ Len(s) \in Nat /\ loc \in Nat
               /\ currentEventType[c] \in {INSERT, REMOVE} /\ INSERT # REMOVE
               /\ currentEventType[c] = INSERT
                    => BurstEvent(c) = MakeEvent(c, INSERT, loc - Len(s), loc, s)
               /\ currentEventType[c] = REMOVE
                    => BurstEvent(c) = MakeEvent(c, REMOVE, loc, loc + Len(s), s)
<1>1. currentEventString[c] \in Seq(Char) /\ selection[c] \in Selection
    BY DEF TypeOK, BurstTypes, ScreenTypes
<1>2. currentEventType[c] \in {INSERT, REMOVE} /\ INSERT # REMOVE
    BY DEF TypeOK, BurstTypes, EventType, INSERT, REMOVE
<1> QED
    BY <1>1, <1>2 DEF BurstEvent, Selection

(* A burst in which nothing was typed shows nothing.                        *)
LEMMA NothingTyped ==
    ASSUME TypeOK, NEW c \in Clients, alive[c], DriverShows(c), currentEventString[c] = <<>>
    PROVE  text[c] = Base(c)
<1> DEFINE h == Base(c)
           loc == selection[c].loc
<1>1. CASE ~ eventDelay[c]
    BY <1>1 DEF DriverShows
<1>2. CASE eventDelay[c]
    <2>1. h \in Seq(Char) /\ InText(h, BurstEvent(c)) /\ text[c] = ApplyEvent(h, BurstEvent(c))
        BY <1>2 DEF DriverShows
    <2>2. Len(currentEventString[c]) = 0 /\ loc \in Nat
        BY BurstFields
    <2>3. PICK type \in EventType : BurstEvent(c) = MakeEvent(c, type, loc, loc, <<>>)
        BY <2>2, BurstFields DEF EventType
    <2>4. loc \in 0 .. Len(h)
        BY <2>1, <2>3 DEF InText, MakeEvent
    <2> HIDE DEF h, loc
    <2>5. ApplyEvent(h, MakeEvent(c, type, loc, loc, <<>>)) = h
        BY <2>1, <2>4, EmptyBurst
    <2> QED
        BY <2>1, <2>3, <2>5 DEF h
<1> QED
    BY <1>1, <1>2

(* A key that does not end the burst either lengthens it or meets a screen  *)
(* without one.                                                             *)
LEMMA KeyMeets ==
    ASSUME TypeOK, NEW c \in Clients, alive[c], DriverShows(c),
           NEW type \in EventType, ~ EndsBurst(c, type)
    PROVE  LET h == Base(c)
           IN  /\ h \in Seq(Char)
               /\ \/ currentEventString[c] = <<>> /\ text[c] = h
                  \/ /\ currentEventType[c] = type
                     /\ InText(h, BurstEvent(c)) /\ text[c] = ApplyEvent(h, BurstEvent(c))
<1>1. Base(c) \in Seq(Char)
    BY DEF DriverShows
<1>2. CASE currentEventString[c] = <<>>
    BY <1>1, <1>2, NothingTyped
<1>3. CASE currentEventString[c] # <<>>
    BY <1>1, <1>3 DEF EndsBurst, DriverShows
<1> QED
    BY <1>2, <1>3

LEMMA TypedShows ==
    ASSUME TypeOK, TypeOK', PlainUse, NEW c \in Clients, alive[c], DriverShows(c),
           selection[c].len = 0, NEW r \in Replacements, ~ EndsBurst(c, INSERT), Insert(c, r),
           eventDelay'[c] = TRUE, MethodDone(c)', Base(c)' = Base(c)
    PROVE  DriverShows(c)'
<1> DEFINE t == text[c]
           loc == selection[c].loc
           b == currentEventString[c]
           h == Base(c)
           s == currentEventString'[c]
<1>1. r \in Seq(Char) /\ r = <<Head(r)>> /\ Head(r) \in Char
    BY ReplacementsAssumption DEF PlainUse
<1>2. t \in Seq(Char) /\ loc \in 0 .. Len(t) /\ loc \in Nat
    BY DEF TypeOK, ScreenTypes, SelectionFits, Selection
<1>3. /\ text'[c] = Keyed(t, loc, r)
      /\ selection'[c].loc = loc + Len(r)
    <2>1. /\ text' = [text EXCEPT ![c] = SubSeq(t, 1, loc) \o r \o SubSeq(t, loc + 0 + 1, Len(t))]
          /\ selection' = [selection EXCEPT ![c] = [loc |-> loc + Len(r), len |-> 0]]
        BY DEF Insert, Replace, Display
    <2>2. loc + 0 + 1 = loc + 1
        BY <1>2
    <2> QED
        BY <2>1, <2>2 DEF TypeOK, ScreenTypes, Keyed
<1>4. s = Append(b, Head(r)) /\ currentEventType'[c] = INSERT
    BY DEF Insert, TypeOK, BurstTypes
<1>5. b \in Seq(Char)
    BY DEF TypeOK, BurstTypes
<1>6. BurstEvent(c)' = MakeEvent(c, INSERT, selection'[c].loc - Len(s), selection'[c].loc, s)
    BY <1>4 DEF BurstEvent, INSERT, REMOVE
<1>7. /\ h \in Seq(Char)
      /\ \/ b = <<>> /\ t = h
         \/ /\ currentEventType[c] = INSERT
            /\ InText(h, BurstEvent(c)) /\ t = ApplyEvent(h, BurstEvent(c))
    BY KeyMeets DEF EventType
<1>8. currentEventType[c] = INSERT => BurstEvent(c) = MakeEvent(c, INSERT, loc - Len(b), loc, b)
    BY BurstFields
<1> DEFINE k == Head(r)
           e == BurstEvent(c)
           f == BurstEvent(c)'
           shown == text'[c]
<1> HIDE DEF b, t, loc, s, h, k, e, f, shown
<1>9. s = b \o r
    <2>1. Append(b, k) = b \o <<k>>
        BY <1>1, <1>5 DEF k
    <2> QED
        BY <1>1, <1>4, <2>1, Zenon DEF k
<1>10. Len(r) \in Nat /\ Len(b) \in Nat /\ Len(s) \in Nat /\ Len(s) = Len(b) + Len(r)
    <2>1. r \in Seq(Char)
        BY <1>1
    <2>2. Len(b \o r) = Len(b) + Len(r)
        BY <1>5, <2>1, ConcatLen
    <2> QED
        BY <1>5, <1>9, <2>1, <2>2
<1>11. r \in Seq(Char) /\ h \in Seq(Char)
    BY <1>1, <1>7
<1> DEFINE i == loc - Len(b)
<1>12. i \in Int /\ i + Len(b) = loc /\ (loc + Len(r)) - Len(s) = i
    BY <1>2, <1>10
<1>13. currentEventType[c] = INSERT => e = MakeEvent(c, INSERT, i, loc, b)
    BY <1>8 DEF e
<1> HIDE DEF i
<1>14. \E new : f = MakeEvent(c, INSERT, i, new, s)
    BY <1>3, <1>6, <1>12, Zenon DEF f
<1>15. PICK new : f = MakeEvent(c, INSERT, i, new, s)
    BY <1>14
<1>16. InText(h, f) /\ shown = ApplyEvent(h, f)
    <2>1. CASE b = <<>> /\ t = h
        <3>1. s = r
            BY <1>9, <1>11, <2>1, ConcatEmpty
        <3>2. i = loc
            BY <1>2, <2>1 DEF i
        <3>3. f = MakeEvent(c, INSERT, loc, new, r)
            BY <1>15, <3>1, <3>2, Zenon
        <3>4. /\ InText(t, MakeEvent(c, INSERT, loc, new, r))
              /\ ApplyEvent(t, MakeEvent(c, INSERT, loc, new, r)) = Keyed(t, loc, r)
            BY <1>2, <1>11, KeyAlone
        <3> QED
            BY <1>3, <2>1, <3>3, <3>4, Zenon DEF shown
    <2>2. CASE /\ currentEventType[c] = INSERT
               /\ InText(h, e) /\ t = ApplyEvent(h, e)
        <3>1. e = MakeEvent(c, INSERT, i, loc, b)
            BY <1>13, <2>2
        <3>2. InText(h, MakeEvent(c, INSERT, i, loc, b))
            BY <2>2, <3>1, Zenon
        <3>3. /\ InText(h, MakeEvent(c, INSERT, i, new, b \o r))
              /\ ApplyEvent(h, MakeEvent(c, INSERT, i, new, b \o r))
                   = Keyed(ApplyEvent(h, MakeEvent(c, INSERT, i, loc, b)), i + Len(b), r)
            BY <1>5, <1>11, <1>12, <3>2, TypedBurst
        <3> QED
            BY <1>3, <1>9, <1>12, <1>15, <2>2, <3>1, <3>3, Zenon DEF shown
    <2> QED
        BY <1>7, <2>1, <2>2 DEF e
<1>17. ~ Interrupted(c)'
    BY DEF Interrupted
<1> QED
    BY <1>7, <1>16, <1>17 DEF DriverShows, h, f, shown

LEMMA ErasedShows ==
    ASSUME TypeOK, NEW c \in Clients, alive[c], DriverShows(c),
           selection[c].len = 0, ~ EndsBurst(c, REMOVE), Erase(c),
           eventDelay'[c] = TRUE, MethodDone(c)', Base(c)' = Base(c), alive'[c]
    PROVE  DriverShows(c)'
<1> DEFINE t == text[c]
           loc == selection[c].loc
           b == currentEventString[c]
           h == Base(c)
           s == currentEventString'[c]
           k == t[loc]
<1>1. t \in Seq(Char) /\ loc \in 1 .. Len(t) /\ loc \in Nat \ {0} /\ Len(t) \in Nat
    BY DEF Erase, Crash, TypeOK, ScreenTypes, OtherTypes, SelectionFits, Selection
<1>2. k \in Char
    BY <1>1
<1>3. text'[c] = Erased(t, loc) /\ selection'[c].loc = loc - 1
    <2>1. Replace(c, loc - 1, 1, <<>>)
        BY <1>1 DEF Erase
    <2>2. /\ text' = [text EXCEPT ![c] = SubSeq(t, 1, loc - 1) \o <<>> \o SubSeq(t, loc - 1 + 1 + 1, Len(t))]
          /\ selection' = [selection EXCEPT ![c] = [loc |-> loc - 1 + Len(<<>>), len |-> 0]]
        BY <2>1, Zenon DEF Replace, Display
    <2>3. loc - 1 + 1 + 1 = loc + 1 /\ loc - 1 + Len(<<>>) = loc - 1
        BY <1>1
    <2>4. text' = [text EXCEPT ![c] = Erased(t, loc)]
        BY <2>2, <2>3, Zenon DEF Erased
    <2>5. selection' = [selection EXCEPT ![c] = [loc |-> loc - 1, len |-> 0]]
        BY <2>2, <2>3, Zenon
    <2> QED
        BY <2>4, <2>5 DEF TypeOK, ScreenTypes
<1>4. s = <<k>> \o b /\ currentEventType'[c] = REMOVE
    BY <1>1 DEF Erase, TypeOK, BurstTypes
<1>5. b \in Seq(Char)
    BY DEF TypeOK, BurstTypes
<1>6. BurstEvent(c)' = MakeEvent(c, REMOVE, selection'[c].loc, selection'[c].loc + Len(s), s)
    BY <1>4 DEF BurstEvent, INSERT, REMOVE
<1>7. /\ h \in Seq(Char)
      /\ \/ b = <<>> /\ t = h
         \/ /\ currentEventType[c] = REMOVE
            /\ InText(h, BurstEvent(c)) /\ t = ApplyEvent(h, BurstEvent(c))
    BY KeyMeets DEF EventType
<1>8. currentEventType[c] = REMOVE => BurstEvent(c) = MakeEvent(c, REMOVE, loc, loc + Len(b), b)
    BY BurstFields
<1>9. Len(b) \in Nat /\ Len(s) = 1 + Len(b)
    BY <1>2, <1>4, <1>5
<1> DEFINE e == BurstEvent(c)
           f == BurstEvent(c)'
           shown == text'[c]
           n == Len(b)
<1> HIDE DEF b, t, loc, s, h, k
<1>10. f = MakeEvent(c, REMOVE, loc - 1, loc + n, s)
    <2>1. (loc - 1) + Len(s) = loc + n
        BY <1>1, <1>9
    <2> QED
        BY <1>3, <1>6, <2>1, Zenon
<1>11. h \in Seq(Char) /\ n \in Nat
    BY <1>7, <1>9
<1> HIDE DEF e, f, shown, n
<1>12. InText(h, f) /\ shown = ApplyEvent(h, f)
    <2>1. CASE n = 0 /\ t = h
        <3>1. ASSUME NEW j \in 1 .. Len(t)
              PROVE  /\ InText(t, MakeEvent(c, REMOVE, j - 1, j, s))
                     /\ ApplyEvent(t, MakeEvent(c, REMOVE, j - 1, j, s)) = Erased(t, j)
            BY <1>1, EraseAlone
        <3>2. loc + n = loc
            BY <1>1, <2>1
        <3>3. f = MakeEvent(c, REMOVE, loc - 1, loc, s)
            BY <1>10, <3>2, Zenon
        <3> QED
            BY <1>1, <1>3, <2>1, <3>1, <3>3, Zenon DEF shown
    <2>2. CASE /\ currentEventType[c] = REMOVE
               /\ InText(h, e) /\ t = ApplyEvent(h, e)
        <3>1. e = MakeEvent(c, REMOVE, loc, loc + n, b)
            BY <1>8, <2>2 DEF e, n
        <3>2. ASSUME NEW x \in Seq(Char), NEW j \in Nat \ {0}, NEW m \in Nat,
                     InText(x, MakeEvent(c, REMOVE, j, j + m, b))
              PROVE  /\ InText(x, MakeEvent(c, REMOVE, j - 1, j + m, s))
                     /\ ApplyEvent(x, MakeEvent(c, REMOVE, j - 1, j + m, s))
                          = Erased(ApplyEvent(x, MakeEvent(c, REMOVE, j, j + m, b)), j)
            BY <3>2, ErasedBurst
        <3>3. /\ InText(h, MakeEvent(c, REMOVE, loc, loc + n, b))
              /\ t = ApplyEvent(h, MakeEvent(c, REMOVE, loc, loc + n, b))
            BY <2>2, <3>1, Zenon
        <3>4. /\ InText(h, MakeEvent(c, REMOVE, loc - 1, loc + n, s))
              /\ ApplyEvent(h, MakeEvent(c, REMOVE, loc - 1, loc + n, s))
                   = Erased(ApplyEvent(h, MakeEvent(c, REMOVE, loc, loc + n, b)), loc)
            BY <1>1, <1>11, <3>2, <3>3, Zenon
        <3> QED
            BY <1>3, <1>10, <3>3, <3>4, Zenon DEF shown
    <2>3. b = <<>> => n = 0
        BY DEF n
    <2> QED
        BY <1>7, <2>1, <2>2, <2>3 DEF e
<1>13. ~ Interrupted(c)'
    BY DEF Interrupted
<1> QED
    BY <1>7, <1>12, <1>13 DEF DriverShows, h, f, shown

-----------------------------------------------------------------------------
(* The driver's screen, step by step.                                       *)

LEMMA BaseKept ==
    ASSUME NEW c \in Clients, method'[c] = method[c], globalStack'[c] = globalStack[c]
    PROVE  Base(c)' = Base(c) /\ (Interrupted(c)' => Interrupted(c))
BY DEF Base, Sent, Reverses, Interrupted, MethodDone

(* What neither types nor applies shows the same.                           *)
LEMMA SameShows ==
    ASSUME NEW c \in Clients, DriverShows(c), alive'[c] => alive[c],
           text'[c] = text[c], currentEventString'[c] = currentEventString[c],
           eventDelay'[c] = eventDelay[c], Base(c)' = Base(c),
           Interrupted(c)' => Interrupted(c),
           eventDelay[c] => BurstEvent(c)' = BurstEvent(c)
    PROVE  DriverShows(c)'
<1> DEFINE h == Base(c)
           g == Base(c)'
<1>1. g = h
    OBVIOUS
<1> HIDE DEF g, h
<1>2. CASE eventDelay[c]
    BY <1>1, <1>2 DEF DriverShows, g, h
<1>3. CASE ~ eventDelay[c]
    BY <1>1, <1>3 DEF DriverShows, g, h
<1> QED
    BY <1>2, <1>3

(* What is sent, and not yet in the history, counts as part of it.          *)
LEMMA SentBase ==
    ASSUME TypeOK, NEW c \in Clients, MethodDone(c), NEW kind \in {"timer"} \cup EventType,
           SendBurst(c, kind), UNCHANGED globalStack
    PROVE  /\ Base(c)' = ApplyEvent(Base(c), BurstEvent(c))
           /\ currentEventString'[c] = <<>> /\ currentEventType'[c] = INSERT
           /\ method'[c].kind = kind
<1>1. /\ method'[c].step = "count" /\ method'[c].kind = kind
      /\ method'[c].event = BurstEvent(c)
    BY MethodType DEF SendBurst, Free
<1>2. currentEventString'[c] = <<>> /\ currentEventType'[c] = INSERT
    BY DEF SendBurst, TypeOK, BurstTypes
<1>3. kind \notin {"undo", "redo"}
    BY DEF EventType, INSERT, REMOVE
<1>4. ~ Sent(c) /\ Sent(c)'
    BY <1>1, <1>3 DEF Sent, Reverses, MethodDone
<1>5. Base(c)' = ApplyEvent(Replay(globalStack'[c]), method'[c].event)
    BY <1>4 DEF Base
<1> QED
    BY <1>1, <1>2, <1>4, <1>5 DEF Base

LEMMA FlushShows ==
    ASSUME TypeOK, NEW c \in Clients, DriverShows(c), NEW type \in EventType, FlushBurst(c, type)
    PROVE  DriverShows(c)'
<1>1. /\ alive[c] /\ MethodDone(c) /\ currentEventString[c] # <<>> /\ SendBurst(c, type)
      /\ UNCHANGED <<text, selection, globalStack>> /\ eventDelay'[c] = TRUE
    BY DEF FlushBurst, EndsBurst, KeyPressed, Input, Responsive, MethodDone, historyVars, TypeOK,
           BurstTypes
<1>2. eventDelay[c] /\ text[c] = ApplyEvent(Base(c), BurstEvent(c))
    BY <1>1 DEF DriverShows
<1>3. Base(c)' = text[c] /\ currentEventString'[c] = <<>> /\ currentEventType'[c] = INSERT
    BY <1>1, <1>2, SentBase
<1> DEFINE t == text[c]
           loc == selection[c].loc
<1>4. t \in Seq(Char) /\ loc \in 0 .. Len(t) /\ loc \in Nat
    BY DEF TypeOK, ScreenTypes, SelectionFits, Selection
<1>5. BurstEvent(c)' = MakeEvent(c, INSERT, loc, loc, <<>>)
    <2>1. loc - Len(<<>>) = loc
        BY <1>4
    <2>2. BurstEvent(c)' = MakeEvent(c, INSERT, loc - Len(<<>>), loc, <<>>)
        BY <1>1, <1>3 DEF BurstEvent, INSERT, REMOVE
    <2> QED
        BY <2>1, <2>2, Zenon
<1>6. /\ InText(t, MakeEvent(c, INSERT, loc, loc, <<>>))
      /\ ApplyEvent(t, MakeEvent(c, INSERT, loc, loc, <<>>)) = t
    <2> HIDE DEF t, loc
    <2>1. INSERT \in EventType
        BY DEF EventType
    <2> QED
        BY <1>4, <2>1, EmptyBurst
<1>7. text'[c] = t
    BY <1>1
<1> HIDE DEF t, loc
<1>8. Base(c)' = t
    BY <1>3 DEF t
<1> DEFINE f == BurstEvent(c)'
           g == Base(c)'
<1>9. InText(g, f) /\ text'[c] = ApplyEvent(g, f) /\ g \in Seq(Char)
    BY <1>4, <1>5, <1>6, <1>7, <1>8, Zenon
<1> HIDE DEF f, g
<1> QED
    BY <1>1, <1>3, <1>9 DEF DriverShows, f, g

(* A refused backspace arms the timer over a burst that is shown, or opens  *)
(* an empty one.                                                            *)
LEMMA RefusedShows ==
    ASSUME TypeOK, NEW c \in Clients, DriverShows(c), RefuseBackspace(c)
    PROVE  DriverShows(c)'
<1>1. /\ UNCHANGED <<currentEventString, currentEventType, text, selection, globalStack, alive, method>>
      /\ eventDelay' = [eventDelay EXCEPT ![c] = TRUE]
    BY DEF RefuseBackspace, KeyPressed, historyVars
<1>2. eventDelay'[c] = TRUE /\ alive[c] /\ MethodDone(c)
    BY <1>1 DEF TypeOK, BurstTypes, RefuseBackspace, KeyPressed, Input, Responsive, MethodDone
<1>3. BurstEvent(c)' = BurstEvent(c) /\ Base(c)' = Base(c) /\ ~ Interrupted(c)'
    BY <1>1, <1>2, BaseKept DEF BurstEvent, Interrupted
<1> DEFINE h == Base(c)
           g == Base(c)'
           e == BurstEvent(c)
           f == BurstEvent(c)'
<1>4. CASE eventDelay[c]
    <2>1. h \in Seq(Char) /\ InText(h, e) /\ text[c] = ApplyEvent(h, e)
        BY <1>2, <1>4 DEF DriverShows
    <2>2. g = h /\ f = e
        BY <1>3
    <2> HIDE DEF h, e, g, f
    <2> QED
        BY <1>1, <1>2, <1>3, <2>1, <2>2 DEF DriverShows, g, f
<1>5. CASE ~ eventDelay[c]
    <2>1. currentEventString[c] = <<>> /\ text[c] = h /\ h \in Seq(Char)
        BY <1>2, <1>5 DEF DriverShows
    <2>2. selection[c].loc = 0 /\ Len(currentEventString[c]) = 0
        BY <2>1 DEF RefuseBackspace, AtStart
    <2>3. PICK type \in EventType : e = MakeEvent(c, type, 0, 0, <<>>)
        BY <2>1, <2>2, BurstFields DEF EventType
    <2>4. g = h /\ f = e
        BY <1>3
    <2> HIDE DEF h, e, g, f
    <2>5. ASSUME NEW x \in Seq(Char)
          PROVE  /\ InText(x, MakeEvent(c, type, 0, 0, <<>>))
                 /\ ApplyEvent(x, MakeEvent(c, type, 0, 0, <<>>)) = x
        BY EmptyBurst
    <2>6. InText(h, e) /\ ApplyEvent(h, e) = h
        BY <2>1, <2>3, <2>5, Zenon
    <2> QED
        BY <1>1, <1>2, <1>3, <2>1, <2>4, <2>6 DEF DriverShows, g, f
<1> QED
    BY <1>4, <1>5

(* The timer fires: what was shown beyond the history is now part of it.    *)
LEMMA TimerShows ==
    ASSUME TypeOK, NEW c \in Clients, DriverShows(c), TimerFires(c)
    PROVE  DriverShows(c)'
<1>1. /\ eventDelay[c] /\ alive[c] /\ MethodDone(c) /\ SendBurst(c, "timer")
      /\ UNCHANGED <<text, globalStack>> /\ ~ eventDelay'[c]
    BY DEF TimerFires, TimerDue, Responsive, MethodDone, screenVars, historyVars, TypeOK, BurstTypes
<1>2. /\ Base(c)' = ApplyEvent(Base(c), BurstEvent(c))
      /\ currentEventString'[c] = <<>> /\ method'[c].kind = "timer"
    BY <1>1, SentBase
<1>3. text[c] = ApplyEvent(Base(c), BurstEvent(c)) /\ text[c] \in Seq(Char)
    BY <1>1 DEF DriverShows, TypeOK, ScreenTypes
<1>4. ~ Interrupted(c)'
    BY <1>2 DEF Interrupted, EventType, INSERT, REMOVE
<1> DEFINE g == Base(c)'
<1>5. text'[c] = g /\ g \in Seq(Char)
    BY <1>1, <1>2, <1>3
<1> HIDE DEF g
<1> QED
    BY <1>1, <1>2, <1>4, <1>5 DEF DriverShows, g

LEMMA DriverInputShows ==
    ASSUME TypeOK, TypeOK', PlainUse, NEW c \in Clients, DriverShows(c),
           selection[c].len = 0, PoliteInput(c)
    PROVE  DriverShows(c)'
<1>1. alive[c] /\ MethodDone(c)
    BY PoliteIsInput
<1>2. ASSUME NEW type \in EventType, FlushBurst(c, type) PROVE DriverShows(c)'
    BY <1>2, FlushShows
<1>3. ASSUME UNCHANGED <<method, globalStack>> PROVE Base(c)' = Base(c) /\ MethodDone(c)'
    BY <1>1, <1>3, BaseKept DEF MethodDone
<1>4. ASSUME NEW r \in Replacements, TypeText(c, r) PROVE DriverShows(c)'
    <2>1. /\ UNCHANGED <<method, globalStack>> /\ eventDelay'[c] = TRUE
          /\ ~ EndsBurst(c, INSERT) /\ Insert(c, r)
        BY <1>4 DEF TypeText, KeyPressed, historyVars, TypeOK, BurstTypes
    <2> QED
        BY <1>1, <1>3, <2>1, TypedShows
<1>5. CASE DeleteText(c)
    <2>1. /\ UNCHANGED <<method, globalStack>> /\ eventDelay'[c] = TRUE
          /\ ~ EndsBurst(c, REMOVE) /\ Erase(c)
        BY <1>5 DEF DeleteText, KeyPressed, historyVars, TypeOK, BurstTypes
    <2>2. CASE alive'[c]
        BY <1>1, <1>3, <2>1, <2>2, ErasedShows
    <2>3. CASE ~ alive'[c]
        BY <2>3 DEF DriverShows
    <2> QED
        BY <2>2, <2>3
<1>6. CASE RefuseBackspace(c)
    BY <1>6, RefusedShows
<1>7. CASE ~ eventDelay[c] /\ MoveCursor(c)
    <2>1. UNCHANGED <<text, currentEventString, eventDelay, globalStack, method, alive>>
        BY <1>7 DEF MoveCursor, burstVars, historyVars
    <2> QED
        BY <1>1, <1>7, <2>1, BaseKept, SameShows
<1>8. CASE ~ eventDelay[c] /\ (Undo(c) \/ Redo(c))
    <2>1. UNCHANGED <<text, currentEventString, eventDelay, globalStack, alive>>
        BY <1>8 DEF Undo, Redo, StartReversal, screenVars, burstVars, historyVars
    <2>2. method'[c].step = "remove" /\ method'[c].kind \in {"undo", "redo"}
        BY <1>8, ReversalStarts
    <2>3. ~ Sent(c) /\ ~ Sent(c)' /\ ~ Interrupted(c)'
        BY <1>1, <2>2 DEF Sent, MethodDone, Interrupted, EventType, INSERT, REMOVE
    <2>4. Base(c)' = Base(c)
        BY <2>1, <2>3 DEF Base
    <2> QED
        BY <1>1, <1>8, <2>1, <2>3, <2>4, SameShows
<1> QED
    BY <1>2, <1>4, <1>5, <1>6, <1>7, <1>8 DEF PoliteInput

(* The key that ended a burst begins the next one.                          *)
LEMMA ResumedShows ==
    ASSUME TypeOK, TypeOK', PlainUse, NEW c \in Clients, DriverShows(c), selection[c].len = 0,
           ResumeKey(c)
    PROVE  DriverShows(c)'
<1>1. /\ alive[c] /\ method[c].step = "key" /\ UNCHANGED <<eventDelay, globalStack>>
      /\ \/ method[c].kind = INSERT /\ \E r \in Replacements : Insert(c, r)
         \/ method[c].kind = REMOVE /\ Erase(c)
    BY DEF ResumeKey, Doing, historyVars
<1>2. Interrupted(c)
    BY <1>1 DEF Interrupted, MethodDone, EventType
<1>3. eventDelay'[c] = TRUE /\ currentEventString[c] = <<>>
    BY <1>1, <1>2 DEF DriverShows, TypeOK, BurstTypes
<1>4. \A type : ~ EndsBurst(c, type)
    BY <1>3 DEF EndsBurst
<1>5. method'[c].step = "free"
    BY MethodType DEF ResumeKey, Return, Free
<1>6. ~ Sent(c) /\ ~ Sent(c)' /\ MethodDone(c)'
    BY <1>1, <1>5 DEF Sent, MethodDone
<1>7. Base(c)' = Base(c)
    BY <1>1, <1>6 DEF Base
<1>8. ASSUME NEW r \in Replacements, Insert(c, r) PROVE DriverShows(c)'
    BY <1>1, <1>3, <1>4, <1>6, <1>7, <1>8, TypedShows
<1>9. CASE Erase(c) /\ alive'[c]
    BY <1>1, <1>3, <1>4, <1>6, <1>7, <1>9, ErasedShows
<1>10. CASE ~ alive'[c]
    BY <1>10 DEF DriverShows
<1> QED
    BY <1>1, <1>8, <1>9, <1>10

LEMMA RecordedShows ==
    ASSUME TypeOK, NEW c \in Clients, DriverShows(c), RecordBurst(c)
    PROVE  DriverShows(c)'
<1> DEFINE e == method[c].event
           s == globalStack[c]
<1>1. /\ method[c].step = "append" /\ ~ Reverses(c) /\ globalStack'[c] = Append(s, e)
      /\ UNCHANGED <<text, selection, currentEventString, currentEventType, eventDelay, alive>>
    BY DEF RecordBurst, Doing, RecordsEvent, screenVars, burstVars, TypeOK, HistoryTypes
<1>2. /\ method'[c].step \in {"free", "key"}
      /\ method'[c].kind = method[c].kind \/ method'[c].step = "free"
    BY MethodType DEF RecordBurst, Free
<1>3. s \in Seq(Event) /\ e \in Event
    BY <1>1, MethodType DEF Fits, TypeOK, HistoryTypes
<1>4. Replay(Append(s, e)) = ApplyEvent(Replay(s), e)
    BY <1>3, ReplayNext
<1>5. Sent(c) /\ ~ Sent(c)' /\ (Interrupted(c)' => Interrupted(c))
    BY <1>1, <1>2 DEF Sent, Interrupted, MethodDone
<1>6. Base(c)' = Base(c)
    BY <1>1, <1>4, <1>5 DEF Base
<1>7. BurstEvent(c)' = BurstEvent(c)
    BY <1>1 DEF BurstEvent
<1> QED
    BY <1>1, <1>5, <1>6, <1>7, SameShows

LEMMA ReversedShows ==
    ASSUME TypeOK, TypeOK', NEW c \in Clients, DriverShows(c), MethodAlone(c), ApplyReversal(c)
    PROVE  DriverShows(c)'
<1> DEFINE e == method[c].event
           s == globalStack[c]
<1>1. /\ alive[c] /\ Reverses(c) /\ method[c].step = "append" /\ ~ eventDelay[c]
      /\ UNCHANGED <<eventDelay, currentEventString>>
    BY DEF ApplyReversal, Doing, MethodAlone, MethodDone, burstVars
<1>2. text[c] = Replay(s) /\ currentEventString[c] = <<>>
    BY <1>1 DEF DriverShows, Base, Sent
<1>3. e \in Event /\ s \in Seq(Event)
    BY <1>1, MethodType DEF Fits, TypeOK, HistoryTypes
<1>4. CASE InText(text[c], e)
    <2>1. text'[c] = ApplyEvent(text[c], e) /\ globalStack'[c] = Append(s, e)
        BY <1>4 DEF ApplyReversal, RecordsEvent, Display, TypeOK, ScreenTypes, HistoryTypes
    <2>2. Replay(Append(s, e)) = ApplyEvent(Replay(s), e)
        BY <1>3, ReplayNext
    <2>3. text'[c] = Replay(globalStack'[c])
        BY <1>2, <2>1, <2>2, Zenon
    <2>4. text'[c] \in Seq(Char)
        BY DEF TypeOK, ScreenTypes
    <2>5. method'[c].step = "test" /\ method'[c].kind = method[c].kind
        BY <1>4, MethodType DEF ApplyReversal, Free
    <2>6. ~ Sent(c)' /\ ~ Interrupted(c)'
        BY <1>1, <2>5 DEF Sent, Interrupted, Reverses, EventType, INSERT, REMOVE
    <2>7. Base(c)' = Replay(globalStack'[c])
        BY <2>6 DEF Base
    <2> DEFINE g == Base(c)'
    <2>8. text'[c] = g /\ g \in Seq(Char)
        BY <2>3, <2>4, <2>7, Zenon
    <2> HIDE DEF g
    <2> QED
        BY <1>1, <1>2, <2>6, <2>8 DEF DriverShows, g
<1>5. CASE ~ InText(text[c], e)
    <2>1. ~ alive'[c]
        BY <1>5 DEF ApplyReversal, Crash, TypeOK, OtherTypes
    <2> QED
        BY <2>1 DEF DriverShows
<1> QED
    BY <1>4, <1>5

(* The other steps of a method under way show nothing.                      *)
LEMMA UnderwayShows ==
    ASSUME TypeOK, NEW c \in Clients, DriverShows(c), MainThread(c), ~ TimerFires(c), ~ RunBlock(c),
           ~ ResumeKey(c), ~ RecordBurst(c), ~ ApplyReversal(c)
    PROVE  DriverShows(c)'
<1>1. method \in [Clients -> Method] /\ Fits(method[c], undoStack[c], redoStack[c])
    BY MethodType
<1>2. CASE ReadOrderID(c) \/ WriteOrderID(c)
    <2>1. UNCHANGED <<text, selection, burstVars, globalStack, alive>>
        BY <1>2 DEF ReadOrderID, WriteOrderID, screenVars, historyVars
    <2>2. /\ method[c].step \in {"count", "increment"} /\ method'[c].kind = method[c].kind
          /\ method'[c].event = method[c].event
          /\ method'[c].step \in {"increment", "append", "send"}
          /\ ~ Reverses(c) => method'[c].step # "send"
        BY <1>1, <1>2 DEF ReadOrderID, WriteOrderID, Doing, Method
    <2>3. Sent(c)' = Sent(c) /\ (Interrupted(c)' => Interrupted(c))
        BY <2>2 DEF Sent, Interrupted, Reverses, MethodDone
    <2>4. Base(c)' = Base(c) /\ BurstEvent(c)' = BurstEvent(c)
        BY <2>1, <2>2, <2>3 DEF Base, BurstEvent, burstVars
    <2> QED
        BY <2>1, <2>3, <2>4, SameShows DEF burstVars
<1>3. CASE \/ RemoveID(c) \/ FindEvent(c) \/ MeasureHistory(c) \/ ShiftReversal(c) \/ SetTrigger(c)
           \/ SendReversal(c) \/ TestStack(c) \/ DisableButton(c) \/ EnableButton(c)
    <2>1. UNCHANGED <<text, selection, burstVars, globalStack>> /\ alive[c]
        <3>1. alive[c]
            BY OwnThreadAlive
        <3>2. CASE RemoveID(c) \/ FindEvent(c) \/ MeasureHistory(c) \/ ShiftReversal(c) \/ SetTrigger(c)
            BY <3>1, <3>2 DEF RemoveID, FindEvent, MeasureHistory, ShiftReversal, SetTrigger,
                              screenVars, historyVars
        <3>3. CASE SendReversal(c) \/ TestStack(c) \/ DisableButton(c) \/ EnableButton(c)
            BY <3>1, <3>3 DEF SendReversal, TestStack, DisableButton, EnableButton, screenVars,
                              historyVars
        <3> QED
            BY <1>3, <3>2, <3>3
    <2>2. /\ Sent(c)' = Sent(c) /\ (Sent(c) => method'[c].event = method[c].event)
          /\ Interrupted(c)' => Interrupted(c)
        <3>1. CASE RemoveID(c) \/ MeasureHistory(c) \/ TestStack(c) \/ DisableButton(c)
            <4>1. /\ method[c].step \in {"remove", "measure", "test", "disable"}
                  /\ method'[c].kind = method[c].kind
                  /\ method'[c].step \in {"find", "shift", "disable", "enable"}
                BY <1>1, <3>1 DEF RemoveID, MeasureHistory, TestStack, DisableButton, Doing, Then,
                                  Method
            <4> QED
                BY <4>1 DEF Sent, Interrupted, MethodDone
        <3>2. CASE SendReversal(c)
            <4>1. /\ method[c].step = "send" /\ method'[c].kind = method[c].kind
                  /\ method'[c].step = "append" /\ method'[c].event = method[c].event
                BY <1>1, <3>2 DEF SendReversal, Doing, Then, Method
            <4> QED
                BY <4>1 DEF Sent, Interrupted, Reverses, MethodDone
        <3>3. CASE FindEvent(c) \/ ShiftReversal(c)
            <4>1. /\ method[c].step \in {"find", "shift"} /\ method'[c].kind = method[c].kind
                  /\ method'[c].step \in {"find", "measure", "shift"}
                BY <1>1, <3>3 DEF FindEvent, ShiftReversal, Doing, Method
            <4> QED
                BY <4>1 DEF Sent, Interrupted, MethodDone
        <3>4. CASE SetTrigger(c)
            <4>1. /\ method[c].step = "shift" /\ method'[c].kind = method[c].kind
                  /\ Reverses(c)
                BY <1>1, <3>4 DEF SetTrigger, Doing, Free, Fits, Reverses
            <4> QED
                BY <4>1 DEF Sent, Interrupted, Reverses, MethodDone
        <3>5. CASE EnableButton(c)
            <4>1. method[c].step = "enable" /\ method'[c].step = "free"
                BY <1>1, <3>5 DEF EnableButton, Doing, Return, Free
            <4> QED
                BY <4>1 DEF Sent, Interrupted, MethodDone
        <3> QED
            BY <1>3, <3>1, <3>2, <3>3, <3>4, <3>5
    <2>3. Base(c)' = Base(c) /\ BurstEvent(c)' = BurstEvent(c)
        BY <2>1, <2>2 DEF Base, BurstEvent, burstVars
    <2> QED
        BY <2>1, <2>2, <2>3, SameShows DEF burstVars
<1> QED
    BY <1>2, <1>3 DEF MainThread, ContinueMethod

LEMMA DriverRunsShows ==
    ASSUME TypeOK, TypeOK', PlainUse, Accepted, NEW c \in Clients, Driving(c), DriverShows(c),
           selection[c].len = 0, HandlerIdle(c), MainThread(c)
    PROVE  DriverShows(c)'
<1>1. ~ RunBlock(c) /\ MethodAlone(c)
    BY DriverRuns, OwnThreadAlive DEF Driving
<1> QED
    BY <1>1, TimerShows, ResumedShows, RecordedShows, ReversedShows, UnderwayShows

LEMMA DriverHandlesShows ==
    ASSUME TypeOK, NEW c \in Clients, Driving(c), Receives(c, c), DriverShows(c),
           (MethodDone(c) /\ ReceiveEvent(c)) \/ ReceiveHandler(c)
    PROVE  DriverShows(c)'
<1>1. /\ WriterOK(c) /\ HandsOwn(c)
      /\ UNCHANGED <<alive, method, text, selection, currentEventString, currentEventType, eventDelay>>
    BY DriverHandles
<1>2. UNCHANGED globalStack
    BY <1>1, WriterHandles
<1>3. BurstEvent(c)' = BurstEvent(c)
    BY <1>1 DEF BurstEvent
<1> QED
    BY <1>1, <1>2, <1>3, BaseKept, SameShows

LEMMA UntouchedDriverShows ==
    ASSUME NEW d \in Clients, DriverShows(d), Untouched(d)
    PROVE  DriverShows(d)'
<1>1. BurstEvent(d)' = BurstEvent(d)
    BY DEF BurstEvent, Untouched
<1> QED
    BY <1>1, BaseKept, SameShows DEF Untouched

-----------------------------------------------------------------------------
(* A waiting client.                                                        *)

LEMMA ShownType ==
    ASSUME TypeOK, NEW c \in Clients, WatcherOK(c)
    PROVE  Shown(c) \in Nat /\ Shown(c) <= Len(log) /\ log \in Seq(Event) /\ Len(log) \in Nat
<1>1. /\ Len(mainQueue[c]) \in Nat /\ Dispatched(c) \in Nat /\ Dispatched(c) <= Len(log)
      /\ log \in Seq(Event) /\ Shown(c) \in Nat
    BY WatcherFields DEF WatcherOK
<1>2. Shown(c) <= Dispatched(c)
    BY <1>1 DEF Shown
<1> QED
    BY <1>1, <1>2

LEMMA UntouchedWaiterShows ==
    ASSUME TypeOK, [Next]_vars, NEW d \in Clients, Waiting(d), WaiterShows(d), Untouched(d),
           log' = log
    PROVE  WaiterShows(d)'
<1>1. CASE alive[d]
    <2>1. Shown(d)' = Shown(d)
        BY <1>1, UntouchedWatcher DEF Waiting, SameScreen
    <2> QED
        BY <1>1, <2>1 DEF WaiterShows, Untouched
<1>2. CASE ~ alive[d]
    BY <1>2 DEF WaiterShows, Untouched
<1> QED
    BY <1>1, <1>2

LEMMA WaiterRunsShows ==
    ASSUME TypeOK, [Next]_vars, NEW c \in Clients, Waiting(c), WaiterShows(c), MainThread(c)
    PROVE  WaiterShows(c)'
<1>1. RunBlock(c) /\ WatcherOK(c)
    BY WaiterRuns
<1>2. alive[c] /\ log' = log /\ Shown(c) < Len(log)
    BY <1>1, WatcherRuns
<1>3. Shown(c) \in Nat /\ log \in Seq(Event)
    BY <1>1, ShownType
<1>4. currentEventString[c] = <<>> /\ text[c] = Replay(SubSeq(log, 1, Shown(c)))
    BY <1>2 DEF WaiterShows
<1>5. UNCHANGED currentEventString
    BY <1>1 DEF RunBlock
<1> DEFINE k == Shown(c)
           p == SubSeq(log, 1, k)
           e == log[k + 1]
<1>6. CASE InText(text[c], e)
    <2>1. Shown(c)' = k + 1 /\ text'[c] = ApplyEvent(text[c], e)
        BY <1>1, <1>6, WatcherRuns
    <2>2. Append(p, e) = SubSeq(log, 1, k + 1)
        BY <1>2, <1>3, PrefixExtended
    <2>3. p \in Seq(Event) /\ e \in Event
        BY <1>2, <1>3
    <2>4. Replay(Append(p, e)) = ApplyEvent(Replay(p), e)
        BY <2>3, ReplayNext
    <2>5. text'[c] = Replay(SubSeq(log', 1, Shown(c)'))
        BY <1>2, <1>4, <2>1, <2>2, <2>4, Zenon
    <2> QED
        BY <1>4, <1>5, <2>5 DEF WaiterShows
<1>7. CASE ~ InText(text[c], e)
    <2>1. alive'[c] = FALSE
        BY <1>1, <1>7, WatcherRuns
    <2> QED
        BY <2>1 DEF WaiterShows
<1> QED
    BY <1>6, <1>7

LEMMA WaiterHandlesShows ==
    ASSUME TypeOK, NEW c \in Clients, NEW a \in Clients, c # a, Waiting(c), Receives(c, a),
           WaiterShows(c), ReceiveEvent(c) \/ ReceiveHandler(c), log' = log
    PROVE  WaiterShows(c)'
<1>1. /\ Shown(c)' = Shown(c)
      /\ UNCHANGED <<alive, text, currentEventString>>
    BY WaiterHandles
<1> QED
    BY <1>1 DEF WaiterShows

(* A waiting client shows the whole log once nothing is under way.          *)
LEMMA QuietShown ==
    ASSUME TypeOK, NEW d \in Clients, Waiting(d), Settled(d), alive[d]
    PROVE  SubSeq(log, 1, Shown(d)) = log
<1>1. Recorded(d) = Len(log)
    BY QuietWaiter
<1>2. pc[d] = "idle" /\ mainQueue[d] = <<>>
    BY DEF Settled, HandlerIdle
<1>3. Len(mainQueue[d]) = 0 /\ Len(log) \in Nat
    BY <1>2 DEF TypeOK, ServiceTypes
<1>4. Shown(d) = Recorded(d) - Len(mainQueue[d]) - 0
    BY <1>2 DEF Shown, Dispatched
<1>5. Shown(d) = Len(log)
    BY <1>1, <1>3, <1>4
<1> QED
    BY <1>5, SubSeqFull DEF TypeOK, ServiceTypes

LEMMA QuietWaiterShows ==
    ASSUME TypeOK, NEW d \in Clients, Waiting(d), WaiterShows(d), Settled(d), alive[d]
    PROVE  /\ ~ eventDelay[d] /\ currentEventString[d] = <<>>
           /\ text[d] = Replay(log) /\ globalStack[d] = log
<1>1. globalStack[d] = log /\ ~ eventDelay[d]
    BY QuietWaiter DEF Waiting
<1> QED
    BY <1>1, QuietShown DEF WaiterShows

LEMMA BaseAtRest ==
    ASSUME NEW c \in Clients, MethodDone(c)
    PROVE  Base(c) = Replay(globalStack[c]) /\ ~ Interrupted(c)
BY DEF Base, Sent, Interrupted, MethodDone

LEMMA QuietDriverShows ==
    ASSUME TypeOK, NEW a \in Clients, Driving(a), DriverShows(a), Settled(a), alive[a]
    PROVE  /\ globalStack[a] = log
           /\ ~ eventDelay[a] => text[a] = Replay(log) /\ currentEventString[a] = <<>>
<1>1. globalStack[a] = log
    BY QuietDriver
<1>2. Base(a) = Replay(log)
    BY <1>1, BaseAtRest DEF Settled
<1> QED
    BY <1>1, <1>2 DEF DriverShows

-----------------------------------------------------------------------------
(* All screens, step by step.                                               *)

LEMMA HandOverShows ==
    ASSUME TypeOK, NEW a \in Clients, Drives(a), Shows(a), Quiet, NEW c \in Clients,
           \A d \in Clients \ {c} : alive[d] => ~ eventDelay[d]
    PROVE  Shows(c)
<1>1. \A d \in Clients : Settled(d)
    BY DEF Quiet
<1>2. CASE c = a
    BY <1>2
<1>3. CASE c # a
    <2>1. Waiting(c) /\ WaiterShows(c) /\ text[c] \in Seq(Char)
        BY <1>3 DEF Drives, Shows, TypeOK, ScreenTypes
    <2>2. DriverShows(c)
        <3> SUFFICES ASSUME alive[c] PROVE DriverShows(c)
            BY DEF DriverShows
        <3>1. /\ ~ eventDelay[c] /\ currentEventString[c] = <<>>
              /\ text[c] = Replay(log) /\ globalStack[c] = log /\ MethodDone(c)
            BY <1>1, <2>1, QuietWaiterShows DEF Settled
        <3>2. Base(c) = Replay(log) /\ ~ Interrupted(c)
            BY <3>1, BaseAtRest
        <3> QED
            BY <2>1, <3>1, <3>2 DEF DriverShows
    <2>3. WaiterShows(a)
        <3> SUFFICES ASSUME alive[a]
                     PROVE  currentEventString[a] = <<>> /\ text[a] = Replay(SubSeq(log, 1, Shown(a)))
            BY DEF WaiterShows
        <3>1. ~ eventDelay[a] /\ Driving(a) /\ DriverShows(a) /\ Settled(a)
            BY <1>1, <1>3 DEF Drives, Shows
        <3>2. Waiting(a)
            BY <3>1, DriverMayWait
        <3>3. SubSeq(log, 1, Shown(a)) = log
            BY <3>1, <3>2, QuietShown
        <3> QED
            BY <3>1, <3>3, QuietDriverShows
    <2>4. \A d \in Clients \ {c} : WaiterShows(d)
        BY <2>3 DEF Shows
    <2> QED
        BY <2>2, <2>4 DEF Shows
<1> QED
    BY <1>2, <1>3

LEMMA DriverStepShows ==
    ASSUME TypeOK, TypeOK', PlainUse, Accepted, [Next]_vars, NEW a \in Clients, Drives(a), Shows(a),
           PoliteInput(a) \/ OwnThreads(a)
    PROVE  Shows(a)'
<1>1. Driving(a) /\ Receives(a, a) /\ DriverShows(a) /\ selection[a].len = 0
    BY DEF Drives, Shows
<1>2. UserInput(a) \/ MainThread(a) \/ ReceiveEvent(a) \/ ReceiveHandler(a)
    BY PoliteIsInput DEF OwnThreads
<1>3. DriverShows(a)'
    BY <1>1, DriverInputShows, DriverRunsShows, DriverHandlesShows DEF OwnThreads
<1>4. ASSUME NEW d \in Clients \ {a} PROVE WaiterShows(d)'
    <2>1. log' = log /\ Untouched(d)
        BY <1>2, OthersDrive
    <2> QED
        BY <2>1, UntouchedWaiterShows DEF Drives, Shows
<1>5. \A d \in Clients : selection'[d].len = 0
    BY NothingSelected DEF Shows
<1> QED
    BY <1>3, <1>4, <1>5 DEF Shows

LEMMA WaiterStepShows ==
    ASSUME TypeOK, PlainUse, [Next]_vars, NEW a \in Clients, Drives(a), Shows(a),
           NEW c \in Clients \ {a}, OwnThreads(c)
    PROVE  Shows(a)'
<1>1. MainThread(c) \/ ReceiveEvent(c) \/ ReceiveHandler(c)
    BY DEF OwnThreads
<1>2. log' = log /\ \A d \in Clients \ {c} : Untouched(d)
    BY <1>1, OthersDrive
<1>3. DriverShows(a)'
    BY <1>2, UntouchedDriverShows DEF Shows
<1>4. ASSUME NEW d \in Clients \ {a} PROVE WaiterShows(d)'
    <2>1. Waiting(d) /\ WaiterShows(d) /\ Receives(d, a)
        BY DEF Drives, Shows
    <2>2. CASE d = c
        BY <1>1, <1>2, <2>1, <2>2, WaiterRunsShows, WaiterHandlesShows
    <2>3. CASE d # c
        BY <1>2, <2>1, <2>3, UntouchedWaiterShows
    <2> QED
        BY <2>2, <2>3
<1>5. \A d \in Clients : selection'[d].len = 0
    BY NothingSelected DEF Shows
<1> QED
    BY <1>3, <1>4, <1>5 DEF Shows

LEMMA OrderedShows ==
    ASSUME TypeOK, PlainUse, [Next]_vars, NEW a \in Clients, Drives(a), Shows(a),
           NEW c \in Clients, Service(c)
    PROVE  Shows(a)'
<1>1. \E e \in Event : log' = Append(log, e)
    BY DriverIsHeard, DriverSends DEF Drives
<1>2. PICK e \in Event : log' = Append(log, e)
    BY <1>1
<1>3. UNCHANGED <<delivered, text, selection, mainQueue, currentEventString, currentEventType,
                  eventDelay, method, globalStack, pc, alive>>
    BY ServiceKeeps DEF screenVars, burstVars, historyVars, handlerVars
<1>4. DriverShows(a)'
    <2>1. BurstEvent(a)' = BurstEvent(a)
        BY <1>3 DEF BurstEvent
    <2> QED
        BY <1>3, <2>1, BaseKept, SameShows DEF Shows
<1>5. ASSUME NEW d \in Clients \ {a}, alive[d] PROVE WaiterShows(d)'
    <2>1. WatcherOK(d) /\ WaiterShows(d)
        BY <1>5 DEF Drives, Waiting, Shows
    <2>2. Shown(d)' = Shown(d)
        BY <1>2, <1>3, <2>1, WatcherFrame
    <2>3. Shown(d) \in Nat /\ Shown(d) <= Len(log) /\ log \in Seq(Event)
        BY <2>1, ShownType
    <2>4. SubSeq(log', 1, Shown(d)) = SubSeq(log, 1, Shown(d))
        BY <1>2, <2>3, PrefixOfGrown
    <2> QED
        BY <1>3, <1>5, <2>1, <2>2, <2>4 DEF WaiterShows
<1>6. ASSUME NEW d \in Clients \ {a}, ~ alive[d] PROVE WaiterShows(d)'
    BY <1>3, <1>6 DEF WaiterShows
<1>7. \A d \in Clients : selection'[d].len = 0
    BY NothingSelected DEF Shows
<1> QED
    BY <1>4, <1>5, <1>6, <1>7 DEF Shows

LEMMA UnchangedShows ==
    ASSUME TypeOK, NEW a \in Clients, Drives(a), Shows(a), UNCHANGED vars
    PROVE  Shows(a)'
<1>1. UNCHANGED <<log, selection>> /\ \A d \in Clients : Untouched(d)
    BY DEF vars, serviceVars, screenVars, burstVars, undoVars, stackVars, buttonVars, historyVars,
           handlerVars, Untouched
<1>2. DriverShows(a)'
    BY <1>1, UntouchedDriverShows DEF Shows
<1>3. \A d \in Clients \ {a} : WaiterShows(d)'
    BY <1>1, UntouchedWaiterShows DEF Drives, Shows
<1> QED
    BY <1>1, <1>2, <1>3 DEF Shows

LEMMA StepPlain ==
    ASSUME TypeOK, TypeOK', StackInv, Accepted, PlainUse, [PoliteNext]_vars,
           NEW b \in Clients, Drives(b), Shows(b)
    PROVE  \E a \in Clients : Drives(a)' /\ Shows(a)'
<1>1. [Next]_vars
    BY PoliteIsSerial, SerialIsNext
<1>2. CASE UNCHANGED vars
    BY <1>2, UnchangedDrives, UnchangedShows
<1>3. ASSUME NEW c \in Clients, PoliteInput(c) PROVE Drives(c)' /\ Shows(c)'
    <2>1. \A d \in Clients \ {c} : alive[d] => ~ eventDelay[d]
        BY <1>3 DEF PoliteInput
    <2>2. Drives(c) /\ Shows(c)
        BY <1>3, <2>1, PoliteIsInput, HandOver, HandOverShows
    <2> QED
        BY <1>1, <1>3, <2>2, DriverDrives, DriverStepShows
<1>4. ASSUME NEW c \in Clients, OwnThreads(c) PROVE Drives(b)' /\ Shows(b)'
    BY <1>1, <1>4, DriverDrives, DriverStepShows, WaiterLets, WaiterStepShows
<1>5. ASSUME NEW c \in Clients, Service(c) PROVE Drives(b)' /\ Shows(b)'
    BY <1>1, <1>5, DriverIsHeard, OrderedShows
<1> QED
    BY <1>2, <1>3, <1>4, <1>5 DEF PoliteNext, PoliteStep, RunsByItself, OwnThreads

LEMMA InitPlain ==
    ASSUME Init, NEW a \in Clients
    PROVE  Drives(a) /\ Shows(a)
<1>1. ASSUME NEW d \in Clients PROVE DriverShows(d) /\ WaiterShows(d)
    <2>1. /\ text[d] = <<>> /\ currentEventString[d] = <<>> /\ ~ eventDelay[d]
          /\ globalStack[d] = <<>> /\ log = <<>> /\ method[d].step = "free"
        BY DEF Init, ServiceInit, Free
    <2>2. Base(d) = Replay(<<>>) /\ ~ Interrupted(d)
        BY <2>1, BaseAtRest DEF MethodDone
    <2>3. Shown(d) = 0
        BY InitScreens
    <2>4. SubSeq(log, 1, Shown(d)) = <<>>
        BY <2>1, <2>3
    <2>5. <<>> \in Seq(Char)
        OBVIOUS
    <2>6. DriverShows(d)
        BY <2>1, <2>2, <2>5, ReplayEmpty, Zenon DEF DriverShows
    <2>7. WaiterShows(d)
        BY <2>1, <2>4, ReplayEmpty, Zenon DEF WaiterShows
    <2> QED
        BY <2>6, <2>7
<1>2. \A d \in Clients : selection[d].len = 0
    BY DEF Init
<1> QED
    BY <1>1, <1>2, InitPolite DEF Shows

LEMMA QuietAgrees ==
    ASSUME TypeOK, NEW a \in Clients, Drives(a), Shows(a)
    PROVE  ClientsAgree
<1> SUFFICES ASSUME Quiet, NEW c \in Clients, alive[c]
             PROVE  globalStack[c] = log /\ (~ eventDelay[c] => text[c] = Replay(log))
    BY DEF ClientsAgree
<1>1. Settled(c)
    BY DEF Quiet
<1>2. CASE c = a
    BY <1>1, <1>2, QuietDriverShows DEF Drives, Shows
<1>3. CASE c # a
    BY <1>1, <1>3, QuietWaiterShows DEF Drives, Shows
<1> QED
    BY <1>2, <1>3

(* Users who take turns, type one character at a time and select nothing    *)
(* keep one text: whenever nothing is under way every client's history is   *)
(* the service's log and every screen shows the text of it, however long    *)
(* the session and whatever was typed, erased, undone and redone            *)
(* (ViewController.mm:206-260, 262-348, 351-407, 479-625).                  *)
THEOREM PoliteAgreement == ASSUME Accepted, PlainUse PROVE PoliteSafety => []ClientsAgree
<1>1. Init => PlainInv
    BY InitPlain DEF PlainInv
<1>2. TypeOK /\ TypeOK' /\ StackInv /\ PlainInv /\ [PoliteNext]_vars => PlainInv'
    <2> SUFFICES ASSUME TypeOK, TypeOK', StackInv, PlainInv, [PoliteNext]_vars PROVE PlainInv'
        OBVIOUS
    <2> QED
        BY StepPlain DEF PlainInv
<1>3. TypeOK /\ PlainInv => ClientsAgree
    <2>1. CASE Clients = {}
        BY <2>1 DEF ClientsAgree
    <2>2. CASE \E a \in Clients : Drives(a) /\ Shows(a)
        BY <2>2, QuietAgrees
    <2> QED
        BY <2>1, <2>2 DEF PlainInv
<1> QED
    BY <1>1, <1>2, <1>3, PoliteTypes, PTL DEF PoliteSafety

=============================================================================
