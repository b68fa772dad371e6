----------------------- MODULE RepeatedPtrFieldProofs -----------------------
(***************************************************************************)
(* Who owns the objects of the fields, for any fields, objects and values,  *)
(* and that the fields are sequences of values to their callers.            *)
(*                                                                          *)
(* What a call does to the array of one field are lemmas about sequences;   *)
(* what it does to the objects is a matter of sets.                         *)
(***************************************************************************)
EXTENDS RepeatedPtrField, FiniteSetTheorems, FunctionTheorems, SequenceTheorems, TLAPS

\* A field by itself.
Array == [slots : Seq(Objects), size : Nat, total : Nat]

Distinct(s) == \A i, j \in DOMAIN s : s[i] = s[j] => i = j
In(s) == {s[i] : i \in DOMAIN s}

\* What happens to arrays, and to a field that is given one.
PutAt(s, i, o) == [s EXCEPT ![i] = o]
Exchange(s, i, j) == [s EXCEPT ![i] = s[j], ![j] = s[i]]
WithGap(s, first, n) == SubSeq(s, 1, first - 1) \o SubSeq(s, first + n, Len(s))
Remade(f, s, n) == [f EXCEPT !.slots = s, !.size = n]

Sound(f) ==
    /\ f \in Array
    /\ Distinct(f.slots)
    /\ f.size <= Len(f.slots) /\ Len(f.slots) <= f.total

(* What is invariant, of fields F, objects L and the caller's objects H:    *)
(* each field is sound, no two share an object or own one of the caller's,  *)
(* what exists is owned, and what waits for reuse is empty.                 *)
Kept(F, L, H) ==
    /\ F \in [Fields -> Array]
    /\ L \in [Objects -> ObjectValues \union {Freed}]
    /\ H \in SUBSET Objects
    /\ \A f \in Fields : Sound(F[f])
    /\ \A f, g \in Fields : f # g => Allocated(F[f]) \intersect Allocated(F[g]) = {}
    /\ \A f \in Fields : Allocated(F[f]) \intersect H = {}
    /\ \A o \in Objects : L[o] # Freed <=> (o \in H \/ \E f \in Fields : o \in Allocated(F[f]))
    /\ \A f \in Fields : \A i \in F[f].size + 1 .. Len(F[f].slots) : L[F[f].slots[i]] = Empty

Inv == Kept(fields, live, held)

\* One field changes; objects are written.
With(F, f, g) == [F EXCEPT ![f] = g]
Written(L, objects, v) == [o \in Objects |-> IF o \in objects THEN v ELSE L[o]]

-----------------------------------------------------------------------------
(* Arrays of distinct objects.                                              *)

LEMMA Appended ==
    ASSUME NEW s \in Seq(Objects), NEW o \in Objects
    PROVE  /\ Append(s, o) \in Seq(Objects)
           /\ Len(Append(s, o)) = Len(s) + 1
           /\ \A i \in 1 .. Len(s) : Append(s, o)[i] = s[i]
           /\ Append(s, o)[Len(s) + 1] = o
           /\ In(Append(s, o)) = In(s) \union {o}
           /\ Distinct(s) /\ o \notin In(s) => Distinct(Append(s, o))
<1> DEFINE t == Append(s, o)
<1>1. /\ t \in Seq(Objects) /\ Len(t) = Len(s) + 1
      /\ \A i \in 1 .. Len(s) : t[i] = s[i]
      /\ t[Len(s) + 1] = o
  BY AppendProperties
<1>2. /\ DOMAIN s = 1 .. Len(s) /\ DOMAIN t = 1 .. Len(t) /\ Len(s) \in Nat /\ Len(t) \in Nat
  BY <1>1
<1> HIDE DEF t
<1>3. DOMAIN t = DOMAIN s \union {Len(s) + 1}
  BY <1>1, <1>2
<1>4. In(t) = In(s) \union {o}
  <2>1. ASSUME NEW x \in In(t) PROVE x \in In(s) \union {o}
    BY <1>1, <1>2, <1>3 DEF In
  <2>2. In(s) \subseteq In(t)
    BY <1>1, <1>2, <1>3 DEF In
  <2>3. o \in In(t)
    BY <1>1, <1>2, <1>3 DEF In
  <2>4. QED
    BY <2>1, <2>2, <2>3
<1>5. ASSUME Distinct(s), o \notin In(s)
      PROVE  Distinct(t)
  BY <1>1, <1>2, <1>3, <1>5 DEF Distinct, In
<1>6. QED
  BY <1>1, <1>4, <1>5 DEF t

LEMMA Shortened ==
    ASSUME NEW s \in Seq(Objects), s # <<>>
    PROVE  /\ SubSeq(s, 1, Len(s) - 1) \in Seq(Objects)
           /\ Len(SubSeq(s, 1, Len(s) - 1)) = Len(s) - 1
           /\ \A i \in 1 .. Len(s) - 1 : SubSeq(s, 1, Len(s) - 1)[i] = s[i]
           /\ Len(s) \in DOMAIN s
           /\ Distinct(s) => /\ Distinct(SubSeq(s, 1, Len(s) - 1))
                             /\ In(SubSeq(s, 1, Len(s) - 1)) = In(s) \ {s[Len(s)]}
<1> DEFINE t == SubSeq(s, 1, Len(s) - 1)
<1>1. Len(s) \in Nat \ {0} /\ DOMAIN s = 1 .. Len(s)
  OBVIOUS
<1>2. \A i \in 1 .. Len(s) - 1 : s[i] \in Objects
  BY <1>1
<1>3. /\ t \in Seq(Objects) /\ Len(t) = Len(s) - 1
      /\ \A i \in 1 .. Len(s) - 1 : t[i] = s[i]
  BY <1>1, <1>2, SubSeqProperties
<1>4. DOMAIN t = 1 .. Len(s) - 1
  BY <1>3
<1> HIDE DEF t
<1>5. ASSUME Distinct(s)
      PROVE  Distinct(t) /\ In(t) = In(s) \ {s[Len(s)]}
  <2>1. Distinct(t)
    BY <1>1, <1>3, <1>4, <1>5 DEF Distinct
  <2>2. ASSUME NEW x \in In(t)
        PROVE  x \in In(s) \ {s[Len(s)]}
    <3>1. PICK i \in DOMAIN t : x = t[i]
      BY Zenon DEF In
    <3>2. i \in DOMAIN s /\ x = s[i] /\ i # Len(s)
      BY <1>1, <1>3, <1>4, <3>1
    <3>3. QED
      BY <1>1, <1>5, <3>2 DEF In, Distinct
  <2>3. ASSUME NEW x \in In(s), x # s[Len(s)]
        PROVE  x \in In(t)
    <3>1. PICK i \in DOMAIN s : x = s[i]
      BY Zenon DEF In
    <3>2. i \in DOMAIN t /\ x = t[i]
      BY <1>1, <1>3, <1>4, <2>3, <3>1
    <3>3. QED
      BY <3>2 DEF In
  <2>4. QED
    BY <2>1, <2>2, <2>3
<1>6. QED
  BY <1>1, <1>3, <1>5 DEF t

LEMMA Replaced ==
    ASSUME NEW s \in Seq(Objects), NEW i \in 1 .. Len(s), NEW o \in Objects
    PROVE  /\ PutAt(s, i, o) \in Seq(Objects) /\ Len(PutAt(s, i, o)) = Len(s)
           /\ \A j \in 1 .. Len(s) : PutAt(s, i, o)[j] = IF j = i THEN o ELSE s[j]
BY ExceptSeq DEF PutAt

LEMMA ReplacedStaysDistinct ==
    ASSUME NEW s \in Seq(Objects), NEW i \in 1 .. Len(s), NEW o \in Objects,
           Distinct(s), o \notin In(s)
    PROVE  /\ Distinct(PutAt(s, i, o))
           /\ In(PutAt(s, i, o)) = (In(s) \ {s[i]}) \union {o}
<1> DEFINE t == PutAt(s, i, o)
<1>1. DOMAIN s = 1 .. Len(s)
  OBVIOUS
<1>2. /\ t \in Seq(Objects) /\ Len(t) = Len(s)
      /\ \A j \in 1 .. Len(s) : t[j] = IF j = i THEN o ELSE s[j]
      /\ DOMAIN t = DOMAIN s
  <2>1. /\ t \in Seq(Objects) /\ Len(t) = Len(s)
        /\ \A j \in 1 .. Len(s) : t[j] = IF j = i THEN o ELSE s[j]
    BY Replaced, Zenon
  <2> HIDE DEF t
  <2>2. DOMAIN t = 1 .. Len(t)
    BY <2>1
  <2>3. QED
    BY <1>1, <2>1, <2>2, Zenon
<1> HIDE DEF t
<1>3. Distinct(t) /\ In(t) = (In(s) \ {s[i]}) \union {o}
  <2>1. Distinct(t)
    BY <1>1, <1>2 DEF Distinct, In
  <2>2. ASSUME NEW x \in In(t)
        PROVE  x \in (In(s) \ {s[i]}) \union {o}
    <3>1. PICK j \in DOMAIN t : x = t[j]
      BY Zenon DEF In
    <3>2. x = o \/ (j \in DOMAIN s /\ j # i /\ x = s[j])
      BY <1>1, <1>2, <3>1
    <3>3. QED
      BY <1>1, <3>2 DEF In, Distinct
  <2>3. ASSUME NEW x \in (In(s) \ {s[i]}) \union {o}
        PROVE  x \in In(t)
    <3>1. CASE x = o
      <4>1. t[i] = x /\ i \in DOMAIN t
        BY <1>1, <1>2, <3>1
      <4>2. QED
        BY <4>1 DEF In
    <3>2. CASE x # o
      <4>1. PICK j \in DOMAIN s : x = s[j]
        BY <2>3, <3>2 DEF In
      <4>2. j \in DOMAIN t /\ x = t[j]
        BY <1>1, <1>2, <2>3, <3>2, <4>1
      <4>3. QED
        BY <4>2 DEF In
    <3>3. QED
      BY <3>1, <3>2
  <2>4. QED
    BY <2>1, <2>2, <2>3
<1>4. QED
  BY <1>2, <1>3 DEF t

LEMMA Exchanged ==
    ASSUME NEW s \in Seq(Objects), NEW i \in 1 .. Len(s), NEW j \in 1 .. Len(s)
    PROVE  /\ Exchange(s, i, j) \in Seq(Objects) /\ Len(Exchange(s, i, j)) = Len(s)
           /\ \A k \in 1 .. Len(s) :
                 Exchange(s, i, j)[k] = IF k = j THEN s[i] ELSE IF k = i THEN s[j] ELSE s[k]
           /\ In(Exchange(s, i, j)) = In(s)
           /\ Distinct(s) => Distinct(Exchange(s, i, j))
<1> DEFINE t == Exchange(s, i, j)
<1>1. DOMAIN s = 1 .. Len(s) /\ s[i] \in Objects /\ s[j] \in Objects
  OBVIOUS
<1>2. /\ t \in Seq(Objects) /\ Len(t) = Len(s)
      /\ \A k \in DOMAIN s : t[k] = IF k = j THEN s[i] ELSE IF k = i THEN s[j] ELSE s[k]
  <2> DEFINE u == [s EXCEPT ![i] = s[j]]
  <2>1. /\ u \in Seq(Objects) /\ Len(u) = Len(s)
        /\ \A k \in 1 .. Len(s) : u[k] = IF k = i THEN s[j] ELSE s[k]
    BY <1>1, ExceptSeq
  <2>2. t = [u EXCEPT ![j] = s[i]]
    BY DEF Exchange
  <2> HIDE DEF u
  <2>3. j \in 1 .. Len(u)
    BY <1>1, <2>1
  <2>4. /\ [u EXCEPT ![j] = s[i]] \in Seq(Objects) /\ Len([u EXCEPT ![j] = s[i]]) = Len(u)
        /\ \A k \in 1 .. Len(u) : [u EXCEPT ![j] = s[i]][k] = IF k = j THEN s[i] ELSE u[k]
    BY <1>1, <2>1, <2>3, ExceptSeq
  <2>5. QED
    BY <1>1, <2>1, <2>2, <2>4
<1>3. DOMAIN t = DOMAIN s
  BY <1>1, <1>2
<1> HIDE DEF t
<1>4. In(t) = In(s)
  <2>1. ASSUME NEW x \in In(t) PROVE x \in In(s)
    BY <1>2, <1>3 DEF In
  <2>2. ASSUME NEW x \in In(s) PROVE x \in In(t)
    <3>1. PICK k \in DOMAIN s : x = s[k]
      BY DEF In
    <3>2. \E l \in DOMAIN t : x = t[l]
      BY <1>2, <1>3, <3>1
    <3>3. QED
      BY <3>2 DEF In
  <2>3. QED
    BY <2>1, <2>2
<1>5. Distinct(s) => Distinct(t)
  BY <1>2, <1>3 DEF Distinct
<1>6. QED
  BY <1>2, <1>4, <1>5 DEF t

LEMMA Joined ==
    ASSUME NEW s \in Seq(Objects), NEW t \in Seq(Objects)
    PROVE  /\ s \o t \in Seq(Objects) /\ Len(s \o t) = Len(s) + Len(t)
           /\ \A i \in 1 .. Len(s) : (s \o t)[i] = s[i]
           /\ \A i \in 1 .. Len(t) : (s \o t)[Len(s) + i] = t[i]
           /\ In(s \o t) = In(s) \union In(t)
           /\ Distinct(s) /\ Distinct(t) /\ In(s) \intersect In(t) = {} => Distinct(s \o t)
<1> DEFINE u == s \o t
<1>1. Len(s) \in Nat /\ DOMAIN s = 1 .. Len(s) /\ Len(t) \in Nat /\ DOMAIN t = 1 .. Len(t)
  OBVIOUS
<1>2. /\ u \in Seq(Objects) /\ Len(u) = Len(s) + Len(t)
      /\ \A i \in 1 .. Len(s) + Len(t) : u[i] = IF i <= Len(s) THEN s[i] ELSE t[i - Len(s)]
  BY ConcatProperties
<1> HIDE DEF u
<1>3. DOMAIN u = 1 .. Len(s) + Len(t)
  BY <1>2
<1> DEFINE m == Len(s)
           n == Len(t)
<1>4. /\ \A i \in DOMAIN s : i \in DOMAIN u /\ u[i] = s[i]
      /\ \A i \in DOMAIN t : m + i \in DOMAIN u /\ u[m + i] = t[i]
      /\ \A k \in DOMAIN u : (k \in DOMAIN s /\ u[k] = s[k])
                             \/ (k - m \in DOMAIN t /\ u[k] = t[k - m] /\ k = m + (k - m))
  <2> SUFFICES ASSUME m \in Nat, n \in Nat, DOMAIN s = 1 .. m, DOMAIN t = 1 .. n, DOMAIN u = 1 .. m + n,
                      \A i \in 1 .. m + n : u[i] = IF i <= m THEN s[i] ELSE t[i - m]
               PROVE  /\ \A i \in DOMAIN s : i \in DOMAIN u /\ u[i] = s[i]
                      /\ \A i \in DOMAIN t : m + i \in DOMAIN u /\ u[m + i] = t[i]
                      /\ \A k \in DOMAIN u : (k \in DOMAIN s /\ u[k] = s[k])
                             \/ (k - m \in DOMAIN t /\ u[k] = t[k - m] /\ k = m + (k - m))
    BY <1>1, <1>2, <1>3
  <2> HIDE DEF m, n
  <2>1. ASSUME NEW i \in DOMAIN t PROVE m + i \in DOMAIN u /\ u[m + i] = t[i]
    <3>1. m + i \in 1 .. m + n /\ ~ (m + i <= m) /\ (m + i) - m = i
      OBVIOUS
    <3>2. QED
      BY <3>1
  <2>2. ASSUME NEW k \in DOMAIN u
        PROVE  \/ k \in DOMAIN s /\ u[k] = s[k]
               \/ k - m \in DOMAIN t /\ u[k] = t[k - m] /\ k = m + (k - m)
    <3>1. CASE k <= m
      <4>1. k \in 1 .. m + n
        BY Zenon
      <4>2. k \in 1 .. m
        BY <3>1, <4>1
      <4>3. u[k] = s[k]
        BY <3>1, <4>1
      <4>4. k \in DOMAIN s
        BY <4>2
      <4>5. QED
        BY <4>3, <4>4, Zenon
    <3>2. CASE ~ (k <= m)
      <4>1. k \in 1 .. m + n /\ k - m \in 1 .. n /\ k = m + (k - m)
        BY <3>2
      <4>2. QED
        BY <3>2, <4>1
    <3>3. QED
      BY <3>1, <3>2
  <2>3. \A i \in DOMAIN s : i \in DOMAIN u /\ u[i] = s[i]
    OBVIOUS
  <2>4. QED
    BY <2>1, <2>2, <2>3, Zenon
<1>5. In(u) = In(s) \union In(t)
  <2>1. In(s) \subseteq In(u) /\ In(t) \subseteq In(u)
    BY <1>4 DEF In
  <2>2. In(u) \subseteq In(s) \union In(t)
    BY <1>4 DEF In
  <2>3. QED
    BY <2>1, <2>2
<1>6. ASSUME Distinct(s), Distinct(t), In(s) \intersect In(t) = {}
      PROVE  Distinct(u)
  <2> SUFFICES ASSUME NEW k \in DOMAIN u, NEW l \in DOMAIN u, u[k] = u[l]
               PROVE  k = l
    BY DEF Distinct
  <2>1. CASE k \in DOMAIN s /\ u[k] = s[k]
    <3>1. u[l] \in In(s)
      BY <2>1 DEF In
    <3>2. u[l] \notin In(t)
      BY <1>6, <3>1
    <3>3. l \in DOMAIN s /\ u[l] = s[l]
      BY <1>4, <3>2 DEF In
    <3>4. QED
      BY <1>6, <2>1, <3>3 DEF Distinct
  <2>2. CASE k - m \in DOMAIN t /\ u[k] = t[k - m] /\ k = m + (k - m)
    <3>1. u[l] \in In(t)
      BY <2>2 DEF In
    <3>2. u[l] \notin In(s)
      BY <1>6, <3>1
    <3>3. l - m \in DOMAIN t /\ u[l] = t[l - m] /\ l = m + (l - m)
      BY <1>4, <3>2 DEF In
    <3>4. k - m = l - m
      BY <1>6, <2>2, <3>3 DEF Distinct
    <3>5. QED
      BY <2>2, <3>3, <3>4
  <2>3. QED
    BY <1>4, <2>1, <2>2
<1>7. QED
  BY <1>1, <1>2, <1>4, <1>5, <1>6 DEF u

LEMMA GapValue ==
    ASSUME NEW S, NEW s \in Seq(S), NEW first \in 1 .. Len(s), NEW n \in Nat,
           first + n <= Len(s) + 1
    PROVE  /\ WithGap(s, first, n) \in Seq(S) /\ Len(WithGap(s, first, n)) = Len(s) - n
           /\ \A k \in 1 .. Len(s) - n : WithGap(s, first, n)[k] = IF k < first THEN s[k] ELSE s[k + n]
<1> DEFINE m == Len(s)
           a == SubSeq(s, 1, first - 1)
           b == SubSeq(s, first + n, m)
           t == a \o b
<1>1. m \in Nat /\ DOMAIN s = 1 .. m /\ \A i \in 1 .. m : s[i] \in S
  OBVIOUS
<1>2. first \in 1 .. m /\ first + n <= m + 1 /\ first + n \in Nat
  BY <1>1
<1> HIDE DEF m
<1>3. /\ a \in Seq(S) /\ Len(a) = first - 1
      /\ \A i \in 1 .. first - 1 : a[i] = s[i]
  <2>1. \A i \in 1 .. first - 1 : s[i] \in S
    BY <1>1, <1>2
  <2>2. /\ a \in Seq(S) /\ Len(a) = IF 1 <= first - 1 THEN first - 1 - 1 + 1 ELSE 0
        /\ \A i \in 1 .. first - 1 - 1 + 1 : a[i] = s[1 + i - 1]
    BY <1>1, <1>2, <2>1, SubSeqProperties
  <2> HIDE DEF a
  <2>3. QED
    BY <1>1, <1>2, <2>2
<1>4. /\ b \in Seq(S) /\ Len(b) = m + 1 - (first + n)
      /\ \A i \in 1 .. m + 1 - (first + n) : b[i] = s[i + (first + n) - 1]
  <2>1. \A i \in first + n .. m : s[i] \in S
    BY <1>1, <1>2
  <2>2. /\ b \in Seq(S) /\ Len(b) = IF first + n <= m THEN m - (first + n) + 1 ELSE 0
        /\ \A i \in 1 .. m - (first + n) + 1 : b[i] = s[first + n + i - 1]
    BY <1>1, <1>2, <2>1, SubSeqProperties
  <2> HIDE DEF b
  <2>3. Len(b) = m + 1 - (first + n)
    BY <1>1, <1>2, <2>2
  <2>4. ASSUME NEW i \in 1 .. m + 1 - (first + n)
        PROVE  b[i] = s[i + (first + n) - 1]
    <3>1. i \in 1 .. m - (first + n) + 1 /\ first + n + i - 1 = i + (first + n) - 1
      BY <1>1, <1>2
    <3>2. QED
      BY <2>2, <3>1
  <2>5. QED
    BY <2>2, <2>3, <2>4
<1> HIDE DEF a, b
<1>5. /\ t \in Seq(S) /\ Len(t) = Len(a) + Len(b)
      /\ \A i \in 1 .. Len(a) + Len(b) : t[i] = IF i <= Len(a) THEN a[i] ELSE b[i - Len(a)]
  BY <1>3, <1>4, ConcatProperties
<1> HIDE DEF t
<1>6. Len(t) = m - n /\ DOMAIN t = 1 .. m - n
  BY <1>1, <1>2, <1>3, <1>4, <1>5
<1>7. ASSUME NEW k \in 1 .. m - n
      PROVE  /\ t[k] = IF k < first THEN s[k] ELSE s[k + n]
             /\ k < first => k \in 1 .. m
             /\ ~ (k < first) => k + n \in 1 .. m
  <2>1. k \in 1 .. Len(a) + Len(b)
    BY <1>1, <1>2, <1>3, <1>4
  <2>2. t[k] = IF k <= first - 1 THEN a[k] ELSE b[k - (first - 1)]
    BY <1>3, <1>5, <2>1
  <2>3. CASE k < first
    BY <1>1, <1>2, <1>3, <2>2, <2>3
  <2>4. CASE ~ (k < first)
    <3>1. /\ k - (first - 1) \in 1 .. m + 1 - (first + n) /\ ~ (k <= first - 1)
          /\ (k - (first - 1)) + (first + n) - 1 = k + n
          /\ k + n \in 1 .. m
      BY <1>1, <1>2, <2>4
    <3>2. QED
      BY <1>4, <2>2, <2>4, <3>1
  <2>5. QED
    BY <2>3, <2>4
<1>8. QED
  BY <1>5, <1>6, <1>7 DEF m, t, a, b, WithGap

LEMMA GapClosed ==
    ASSUME NEW s \in Seq(Objects), NEW first \in 1 .. Len(s), NEW n \in Nat,
           first + n <= Len(s) + 1
    PROVE  /\ WithGap(s, first, n) \in Seq(Objects) /\ Len(WithGap(s, first, n)) = Len(s) - n
           /\ \A k \in 1 .. Len(s) - n : WithGap(s, first, n)[k] = IF k < first THEN s[k] ELSE s[k + n]
           /\ Distinct(s) =>
                 /\ Distinct(WithGap(s, first, n))
                 /\ In(WithGap(s, first, n)) = In(s) \ {s[i] : i \in first .. first + n - 1}
<1> DEFINE m == Len(s)
           t == WithGap(s, first, n)
<1>1. m \in Nat /\ DOMAIN s = 1 .. m /\ \A i \in 1 .. m : s[i] \in Objects
  OBVIOUS
<1>2. first \in 1 .. m /\ first + n <= m + 1 /\ first + n \in Nat
  BY <1>1
<1>3. t \in Seq(Objects) /\ Len(t) = m - n
      /\ \A k \in 1 .. m - n : t[k] = IF k < first THEN s[k] ELSE s[k + n]
  BY GapValue
<1> HIDE DEF m, t
<1>6. Len(t) = m - n /\ DOMAIN t = 1 .. m - n
  BY <1>1, <1>2, <1>3
<1>7. ASSUME NEW k \in 1 .. m - n
      PROVE  /\ t[k] = IF k < first THEN s[k] ELSE s[k + n]
             /\ k < first => k \in 1 .. m
             /\ ~ (k < first) => k + n \in 1 .. m
  BY <1>1, <1>2, <1>3
<1>8. ASSUME Distinct(s)
      PROVE  Distinct(t)
  <2> SUFFICES ASSUME NEW k \in 1 .. m - n, NEW l \in 1 .. m - n, t[k] = t[l]
               PROVE  k = l
    BY <1>6 DEF Distinct
  <2>1. CASE k < first /\ l < first
    <3>1. t[k] = s[k] /\ t[l] = s[l] /\ k \in DOMAIN s /\ l \in DOMAIN s
      BY <1>1, <1>7, <2>1
    <3>2. QED
      BY <1>8, <3>1 DEF Distinct
  <2>2. CASE k < first /\ ~ (l < first)
    <3>1. t[k] = s[k] /\ t[l] = s[l + n] /\ k \in DOMAIN s /\ l + n \in DOMAIN s
      BY <1>1, <1>7, <2>2
    <3>2. k = l + n
      BY <1>8, <3>1 DEF Distinct
    <3>3. QED
      BY <1>1, <1>2, <2>2, <3>2
  <2>3. CASE ~ (k < first) /\ l < first
    <3>1. t[k] = s[k + n] /\ t[l] = s[l] /\ k + n \in DOMAIN s /\ l \in DOMAIN s
      BY <1>1, <1>7, <2>3
    <3>2. k + n = l
      BY <1>8, <3>1 DEF Distinct
    <3>3. QED
      BY <1>1, <1>2, <2>3, <3>2
  <2>4. CASE ~ (k < first) /\ ~ (l < first)
    <3>1. t[k] = s[k + n] /\ t[l] = s[l + n] /\ k + n \in DOMAIN s /\ l + n \in DOMAIN s
      BY <1>1, <1>7, <2>4
    <3>2. k + n = l + n
      BY <1>8, <3>1 DEF Distinct
    <3>3. QED
      BY <1>1, <1>2, <3>2
  <2>5. QED
    BY <2>1, <2>2, <2>3, <2>4
<1>9. ASSUME Distinct(s)
      PROVE  In(t) = In(s) \ {s[i] : i \in first .. first + n - 1}
  <2>1. ASSUME NEW k \in 1 .. m - n
        PROVE  t[k] \in In(s) \ {s[i] : i \in first .. first + n - 1}
    <3>1. PICK j \in 1 .. m : t[k] = s[j] /\ ~ (j \in first .. first + n - 1)
      <4>1. CASE k < first
        BY <1>1, <1>2, <1>7, <4>1
      <4>2. CASE ~ (k < first)
        <5>1. k + n \in 1 .. m /\ t[k] = s[k + n] /\ ~ (k + n \in first .. first + n - 1)
          BY <1>1, <1>2, <1>7, <4>2
        <5>2. QED
          BY <5>1
      <4>3. QED
        BY <4>1, <4>2
    <3>2. \A i \in first .. first + n - 1 : i \in DOMAIN s
      BY <1>1, <1>2
    <3>3. QED
      BY <1>1, <1>9, <3>1, <3>2 DEF In, Distinct
  <2>2. ASSUME NEW x \in In(s), x \notin {s[i] : i \in first .. first + n - 1}
        PROVE  x \in In(t)
    <3>1. PICK j \in 1 .. m : x = s[j]
      BY <1>1 DEF In
    <3>2. ~ (j \in first .. first + n - 1)
      BY <2>2, <3>1
    <3>3. \E k \in 1 .. m - n : x = t[k]
      <4>1. CASE j < first
        BY <1>1, <1>2, <1>7, <3>1, <4>1
      <4>2. CASE ~ (j < first)
        <5>1. j - n \in 1 .. m - n /\ ~ (j - n < first) /\ (j - n) + n = j
          BY <1>1, <1>2, <3>2, <4>2
        <5>2. t[j - n] = s[(j - n) + n]
          BY <1>7, <5>1
        <5>3. QED
          BY <3>1, <5>1, <5>2
      <4>3. QED
        BY <4>1, <4>2
    <3>4. QED
      BY <1>6, <3>3 DEF In
  <2>3. In(t) \subseteq In(s) \ {s[i] : i \in first .. first + n - 1}
    BY <1>6, <2>1, Zenon DEF In
  <2>4. QED
    BY <2>2, <2>3
<1>10. QED
  BY <1>3, <1>8, <1>9 DEF m, t

-----------------------------------------------------------------------------
(* What each call does to the array of its field.                           *)

LEMMA FieldParts ==
    ASSUME NEW f \in Array
    PROVE  /\ f.slots \in Seq(Objects) /\ f.size \in Nat /\ f.total \in Nat
           /\ Len(f.slots) \in Nat /\ DOMAIN f.slots = 1 .. Len(f.slots)
           /\ Allocated(f) = In(f.slots) /\ Allocated(f) \subseteq Objects
BY DEF Array, Allocated, In

LEMMA ReserveGrows ==
    ASSUME PtrAssumption, NEW f \in Array, NEW n \in Nat
    PROVE  /\ Reserved(f, n) \in Array
           /\ Reserved(f, n).slots = f.slots /\ Reserved(f, n).size = f.size
           /\ Reserved(f, n).total >= f.total /\ Reserved(f, n).total >= n
BY DEF PtrAssumption, Reserved, Max2, Array

\* Add finds room for one more.
LEMMA RoomForOne ==
    ASSUME PtrAssumption, NEW f, Sound(f)
    PROVE  /\ Room(f) \in Array
           /\ Room(f).slots = f.slots /\ Room(f).size = f.size
           /\ Room(f).total >= Len(f.slots) + 1
<1>1. /\ f \in Array /\ f.total \in Nat /\ Len(f.slots) \in Nat /\ f.total + 1 \in Nat
      /\ Len(f.slots) <= f.total
  BY FieldParts DEF Sound
<1>2. /\ Reserved(f, f.total + 1) \in Array
      /\ Reserved(f, f.total + 1).slots = f.slots /\ Reserved(f, f.total + 1).size = f.size
      /\ Reserved(f, f.total + 1).total >= f.total + 1
  BY <1>1, ReserveGrows
<1>3. CASE Len(f.slots) = f.total
  BY <1>1, <1>2, <1>3 DEF Room
<1>4. CASE Len(f.slots) # f.total
  BY <1>1, <1>4 DEF Room
<1>5. QED
  BY <1>3, <1>4

\* A field of given parts.
LEMMA Assembled ==
    ASSUME NEW f \in Array, NEW s \in Seq(Objects), NEW n \in Nat,
           Distinct(s), n <= Len(s), Len(s) <= f.total
    PROVE  /\ Sound(Remade(f, s, n))
           /\ Remade(f, s, n).slots = s /\ Remade(f, s, n).size = n
           /\ Allocated(Remade(f, s, n)) = In(s)
<1> DEFINE g == Remade(f, s, n)
<1>1. g \in Array /\ g.slots = s /\ g.size = n /\ g.total = f.total
  BY DEF Array, Remade
<1> HIDE DEF g
<1>2. Sound(g)
  BY <1>1 DEF Sound
<1>3. Allocated(g) = In(s)
  BY <1>1, FieldParts
<1>4. QED
  BY <1>1, <1>2, <1>3 DEF g

LEMMA Resized ==
    ASSUME NEW f, Sound(f), NEW n \in Nat, n <= Len(f.slots)
    PROVE  /\ Sound([f EXCEPT !.size = n])
           /\ [f EXCEPT !.size = n].slots = f.slots /\ [f EXCEPT !.size = n].size = n
           /\ Allocated([f EXCEPT !.size = n]) = Allocated(f)
BY DEF Sound, Array, Allocated

LEMMA GrowAdds ==
    ASSUME PtrAssumption, NEW f, Sound(f), NEW o \in Objects, o \notin Allocated(f), Cleared(f) = 0
    PROVE  /\ Sound(Grow(f, o))
           /\ Grow(f, o).size = f.size + 1 /\ Len(Grow(f, o).slots) = f.size + 1
           /\ \A i \in 1 .. f.size : Grow(f, o).slots[i] = f.slots[i]
           /\ Grow(f, o).slots[f.size + 1] = o
           /\ Allocated(Grow(f, o)) = Allocated(f) \union {o}
<1>1. /\ f \in Array /\ Distinct(f.slots) /\ f.slots \in Seq(Objects) /\ f.size \in Nat
      /\ Len(f.slots) \in Nat /\ Allocated(f) = In(f.slots)
  BY FieldParts DEF Sound
<1>2. Len(f.slots) = f.size
  BY <1>1 DEF Cleared
<1> DEFINE s == Append(f.slots, o)
           r == Room(f)
<1>3. /\ s \in Seq(Objects) /\ Len(s) = f.size + 1 /\ Distinct(s)
      /\ \A i \in 1 .. f.size : s[i] = f.slots[i]
      /\ s[f.size + 1] = o
      /\ In(s) = In(f.slots) \union {o}
  BY <1>1, <1>2, Appended
<1>4. r \in Array /\ r.slots = f.slots /\ r.size = f.size /\ r.total >= f.size + 1
  BY <1>2, RoomForOne
<1>5. Grow(f, o) = Remade(r, s, f.size + 1)
  BY <1>4 DEF Grow, Array, Remade
<1> HIDE DEF s, r
<1>6. f.size + 1 \in Nat /\ Len(s) <= r.total /\ f.size + 1 <= Len(s)
  BY <1>1, <1>3, <1>4 DEF Array
<1>7. /\ Sound(Grow(f, o)) /\ Grow(f, o).slots = s
      /\ Grow(f, o).size = f.size + 1 /\ Allocated(Grow(f, o)) = In(s)
  BY <1>3, <1>4, <1>5, <1>6, Assembled
<1>8. QED
  BY <1>1, <1>3, <1>7

\* What waits for reuse in g waited in f before.
SparesKept(f, g) ==
    \A i \in g.size + 1 .. Len(g.slots) : \E j \in f.size + 1 .. Len(f.slots) : g.slots[i] = f.slots[j]

LEMMA TakeLastRemoves ==
    ASSUME NEW f, Sound(f), f.size > 0
    PROVE  /\ Sound(TakeLast(f))
           /\ TakeLast(f).size = f.size - 1
           /\ \A i \in 1 .. f.size - 1 : TakeLast(f).slots[i] = f.slots[i]
           /\ Allocated(TakeLast(f)) = Allocated(f) \ {f.slots[f.size]}
           /\ SparesKept(f, TakeLast(f))
<1> DEFINE n == Len(f.slots)
           k == f.size
           moved == IF k < n THEN [f.slots EXCEPT ![k] = f.slots[n]] ELSE f.slots
           s == SubSeq(moved, 1, n - 1)
<1>1. /\ f \in Array /\ Distinct(f.slots) /\ f.slots \in Seq(Objects)
      /\ k \in Nat \ {0} /\ n \in Nat /\ k <= n /\ n <= f.total
      /\ DOMAIN f.slots = 1 .. n
      /\ Allocated(f) = In(f.slots)
  BY FieldParts DEF Sound
<1>2. TakeLast(f) = Remade(f, s, k - 1)
  BY DEF TakeLast, Remade
<1>3. /\ s \in Seq(Objects) /\ Len(s) = n - 1 /\ Distinct(s)
      /\ \A i \in 1 .. n - 1 : s[i] = IF i = k THEN f.slots[n] ELSE f.slots[i]
      /\ In(s) = In(f.slots) \ {f.slots[k]}
  <2> DEFINE e == SubSeq(f.slots, 1, n - 1)
  <2> HIDE DEF n, k
  <2>1. /\ f.slots # <<>> /\ n \in DOMAIN f.slots /\ k \in DOMAIN f.slots
        /\ f.slots[n] \in Objects
    BY <1>1 DEF n
  <2>2. /\ e \in Seq(Objects) /\ Len(e) = n - 1 /\ Distinct(e)
        /\ \A i \in 1 .. n - 1 : e[i] = f.slots[i]
        /\ In(e) = In(f.slots) \ {f.slots[n]}
    BY <1>1, <2>1, Shortened DEF n
  <2>3. CASE k < n
    <3>1. /\ moved \in Seq(Objects) /\ Len(moved) = n
          /\ \A j \in 1 .. n : moved[j] = IF j = k THEN f.slots[n] ELSE f.slots[j]
      <4>1. moved = PutAt(f.slots, k, f.slots[n])
        BY <2>3 DEF PutAt
      <4> DEFINE a == f.slots
                 o == a[n]
      <4>2. a \in Seq(Objects) /\ k \in 1 .. Len(a) /\ o \in Objects
        BY <1>1, <2>1 DEF n
      <4>3. Len(a) = n
        BY DEF n
      <4> HIDE DEF a, o
      <4>4. /\ PutAt(a, k, o) \in Seq(Objects) /\ Len(PutAt(a, k, o)) = Len(a)
            /\ \A j \in 1 .. Len(a) : PutAt(a, k, o)[j] = IF j = k THEN o ELSE a[j]
        BY <4>2, Replaced
      <4>5. QED
        BY <4>1, <4>3, <4>4 DEF a, o
    <3> HIDE DEF moved
    <3>2. /\ s \in Seq(Objects) /\ Len(s) = n - 1
          /\ \A i \in 1 .. n - 1 : s[i] = moved[i]
      <4>1. moved # <<>> /\ Len(moved) = n
        BY <1>1, <3>1
      <4>2. QED
        BY <3>1, <4>1, Shortened
    <3>3. \A i \in 1 .. n - 1 : s[i] = IF i = k THEN f.slots[n] ELSE e[i]
      BY <1>1, <2>2, <3>1, <3>2
    <3>4. k \in DOMAIN e /\ f.slots[n] \notin In(e) /\ e[k] = f.slots[k]
      BY <1>1, <2>2, <2>3
    <3> DEFINE u == PutAt(e, k, f.slots[n])
    <3>5. /\ u \in Seq(Objects) /\ Len(u) = Len(e) /\ Distinct(u)
          /\ \A i \in DOMAIN e : u[i] = IF i = k THEN f.slots[n] ELSE e[i]
          /\ In(u) = (In(e) \ {e[k]}) \union {f.slots[n]}
      <4> HIDE DEF e
      <4> DEFINE o == f.slots[n]
      <4>1. e \in Seq(Objects) /\ k \in 1 .. Len(e) /\ o \in Objects /\ Distinct(e) /\ o \notin In(e)
        BY <2>1, <2>2, <3>4
      <4> HIDE DEF o
      <4> HIDE DEF k
      <4>2. /\ PutAt(e, k, o) \in Seq(Objects) /\ Len(PutAt(e, k, o)) = Len(e)
            /\ \A j \in 1 .. Len(e) : PutAt(e, k, o)[j] = IF j = k THEN o ELSE e[j]
        <5>1. e \in Seq(Objects) /\ k \in 1 .. Len(e) /\ o \in Objects
          BY <4>1
        <5>2. QED
          BY <5>1, Replaced, Zenon
      <4>3. /\ Distinct(PutAt(e, k, o))
            /\ In(PutAt(e, k, o)) = (In(e) \ {e[k]}) \union {o}
        BY <4>1, ReplacedStaysDistinct
      <4>4. DOMAIN e = 1 .. Len(e)
        BY <4>1
      <4>5. QED
        BY <4>2, <4>3, <4>4 DEF o
    <3> HIDE DEF u, s, e
    <3>6. DOMAIN e = 1 .. n - 1
      BY <2>2
    <3>7. s = u
      BY <3>2, <3>3, <3>5, <3>6, SeqEqual
    <3>8. f.slots[n] # f.slots[k] /\ f.slots[n] \in In(f.slots)
      BY <1>1, <2>1, <2>3 DEF Distinct, In
    <3>9. In(s) = In(f.slots) \ {f.slots[k]}
      BY <2>2, <3>4, <3>5, <3>7, <3>8
    <3>10. QED
      BY <1>1, <2>2, <3>2, <3>3, <3>5, <3>7, <3>9
  <2>4. CASE ~ (k < n)
    <3>1. s = e /\ k = n
      BY <1>1, <2>4
    <3>2. \A i \in 1 .. n - 1 : i # k
      BY <1>1, <3>1
    <3>3. QED
      BY <2>2, <3>1, <3>2
  <2>5. QED
    BY <2>3, <2>4
<1> HIDE DEF s, n, k
<1>4. k - 1 \in Nat /\ k - 1 <= Len(s) /\ Len(s) <= f.total
  BY <1>1, <1>3 DEF Array
<1>5. /\ Sound(TakeLast(f))
      /\ TakeLast(f).slots = s
      /\ TakeLast(f).size = k - 1
      /\ Allocated(TakeLast(f)) = In(s)
  BY <1>1, <1>2, <1>3, <1>4, Assembled
<1>6. \A i \in 1 .. k - 1 : s[i] = f.slots[i]
  <2>1. \A i \in 1 .. k - 1 : i \in 1 .. n - 1 /\ i # k
    BY <1>1
  <2>2. QED
    BY <1>3, <2>1
<1>7. \A i \in k .. n - 1 : \E j \in k + 1 .. n : s[i] = f.slots[j]
  <2> SUFFICES ASSUME NEW i \in k .. n - 1
               PROVE  \E j \in k + 1 .. n : s[i] = f.slots[j]
    OBVIOUS
  <2>1. i \in 1 .. n - 1 /\ n \in k + 1 .. n
    BY <1>1
  <2>2. CASE i = k
    BY <1>3, <2>1, <2>2
  <2>3. CASE i # k
    <3>1. i \in k + 1 .. n
      BY <1>1, <2>1, <2>3
    <3>2. QED
      BY <1>3, <2>1, <2>3, <3>1
  <2>4. QED
    BY <2>2, <2>3
<1>8. k - 1 + 1 = k
  BY <1>1
<1>9. SparesKept(f, TakeLast(f))
  BY <1>3, <1>5, <1>7, <1>8 DEF SparesKept, k, n
<1>10. QED
  BY <1>1, <1>3, <1>5, <1>6, <1>9 DEF k

LEMMA CloseGapRemoves ==
    ASSUME NEW f, Sound(f), NEW first \in 1 .. f.size, NEW n \in 1 .. f.size - first + 1
    PROVE  LET g == CloseGap(f, first, n)
           IN  /\ Sound(g)
               /\ g.size = f.size - n
               /\ \A i \in 1 .. f.size - n : g.slots[i] = IF i < first THEN f.slots[i] ELSE f.slots[i + n]
               /\ Allocated(g) = Allocated(f) \ Subrange(f, first, n)
               /\ Subrange(f, first, n) \subseteq Allocated(f)
               /\ SparesKept(f, g)
<1> DEFINE m == Len(f.slots)
           k == f.size
           s == WithGap(f.slots, first, n)
           g == CloseGap(f, first, n)
<1>1. /\ f \in Array /\ Distinct(f.slots) /\ f.slots \in Seq(Objects)
      /\ k \in Nat /\ m \in Nat /\ k <= m /\ m <= f.total /\ f.total \in Nat
      /\ DOMAIN f.slots = 1 .. m
      /\ Allocated(f) = In(f.slots)
  BY FieldParts DEF Sound
<1>2. first \in 1 .. k /\ n \in 1 .. k - first + 1
  OBVIOUS
<1> HIDE DEF k
<1>3. first \in 1 .. m /\ n \in Nat /\ first + n <= m + 1 /\ first + n <= k + 1
  <2> HIDE DEF m
  <2>1. QED
    BY <1>1, <1>2
<1>4. /\ s \in Seq(Objects) /\ Len(s) = m - n /\ Distinct(s)
      /\ \A i \in 1 .. m - n : s[i] = IF i < first THEN f.slots[i] ELSE f.slots[i + n]
      /\ In(s) = In(f.slots) \ {f.slots[i] : i \in first .. first + n - 1}
  <2> DEFINE a == f.slots
  <2>1. /\ a \in Seq(Objects) /\ first \in 1 .. Len(a) /\ n \in Nat /\ first + n <= Len(a) + 1
        /\ Distinct(a)
    BY <1>1, <1>3
  <2> HIDE DEF a
  <2>2. /\ WithGap(a, first, n) \in Seq(Objects) /\ Len(WithGap(a, first, n)) = Len(a) - n
        /\ Distinct(WithGap(a, first, n))
        /\ \A i \in 1 .. Len(a) - n :
              WithGap(a, first, n)[i] = IF i < first THEN a[i] ELSE a[i + n]
        /\ In(WithGap(a, first, n)) = In(a) \ {a[i] : i \in first .. first + n - 1}
    BY <2>1, GapClosed
  <2>3. QED
    BY <2>2 DEF a
<1>5. g = Remade(f, s, k - n)
  BY DEF CloseGap, k, Remade, WithGap
<1> HIDE DEF m, s, g
<1>6. k - n \in Nat /\ k - n <= Len(s) /\ Len(s) <= f.total
  BY <1>1, <1>2, <1>3, <1>4
<1>7. Sound(g) /\ g.slots = s /\ g.size = k - n /\ Allocated(g) = In(s)
  BY <1>1, <1>4, <1>5, <1>6, Assembled
<1>8. \A i \in 1 .. k - n : g.slots[i] = IF i < first THEN f.slots[i] ELSE f.slots[i + n]
  <2>1. \A i \in 1 .. k - n : i \in 1 .. m - n
    BY <1>1, <1>2, <1>3
  <2>2. QED
    BY <1>4, <1>7, <2>1
<1>9. Subrange(f, first, n) \subseteq Allocated(f)
  <2>1. \A i \in first .. first + n - 1 : i \in DOMAIN f.slots
    BY <1>1, <1>3
  <2>2. QED
    BY <2>1 DEF Subrange, Allocated
<1>10. \A i \in k - n + 1 .. m - n : \E j \in k + 1 .. m : s[i] = f.slots[j]
  <2> SUFFICES ASSUME NEW i \in k - n + 1 .. m - n
               PROVE  \E j \in k + 1 .. m : s[i] = f.slots[j]
    OBVIOUS
  <2>1. i \in 1 .. m - n /\ ~ (i < first) /\ i + n \in k + 1 .. m
    BY <1>1, <1>2, <1>3
  <2>2. QED
    BY <1>4, <2>1
<1>11. SparesKept(f, g)
  BY <1>4, <1>7, <1>10 DEF SparesKept, k, m
<1>12. QED
  BY <1>1, <1>4, <1>7, <1>8, <1>9, <1>11 DEF Subrange, g, k

\* AddAllocated in its four cases.
LEMMA PlaceAdds ==
    ASSUME PtrAssumption, NEW f, Sound(f), NEW o \in Objects, o \notin Allocated(f)
    PROVE  LET g == Place(f, o).field
               deleted == Place(f, o).deleted
           IN  /\ Sound(g) /\ g.size = f.size + 1
               /\ \A i \in 1 .. f.size : g.slots[i] = f.slots[i]
               /\ g.slots[f.size + 1] = o
               /\ deleted \subseteq Allocated(f)
               /\ Allocated(g) = (Allocated(f) \ deleted) \union {o}
               /\ \A i \in 1 .. f.size : f.slots[i] \notin deleted
               /\ SparesKept(f, g)
<1> DEFINE n == Len(f.slots)
           k == f.size
           first == k + 1
           a == f.slots
           grown == Append(a, o)
<1>1. /\ f \in Array /\ Distinct(a) /\ a \in Seq(Objects)
      /\ k \in Nat /\ n \in Nat /\ k <= n /\ n <= f.total /\ f.total \in Nat
      /\ DOMAIN a = 1 .. n
      /\ Allocated(f) = In(a)
  BY FieldParts DEF Sound
<1>2. /\ grown \in Seq(Objects) /\ Len(grown) = n + 1 /\ Distinct(grown)
      /\ \A i \in 1 .. n : grown[i] = a[i]
      /\ grown[n + 1] = o
      /\ In(grown) = In(a) \union {o}
  BY <1>1, Appended
<1>3. \A i \in 1 .. k : a[i] \in Allocated(f)
  <2>1. \A i \in 1 .. k : i \in DOMAIN a
    BY <1>1
  <2>2. QED
    BY <1>1, <2>1 DEF In
\* the array is full, or ends where the elements do
<1>4. ASSUME k = n, NEW g, Sound(g), g.slots = grown, g.size = first, Allocated(g) = In(grown)
      PROVE  /\ Sound(g) /\ g.size = f.size + 1
             /\ \A i \in 1 .. f.size : g.slots[i] = f.slots[i]
             /\ g.slots[f.size + 1] = o
             /\ Allocated(g) = (Allocated(f) \ {}) \union {o}
             /\ SparesKept(f, g)
  <2> HIDE DEF n, grown, a
  <2>1. g.size + 1 > Len(g.slots)
    BY <1>1, <1>2, <1>4
  <2>2. SparesKept(f, g)
    BY <1>1, <1>2, <1>4, <2>1 DEF SparesKept
  <2>3. \A i \in 1 .. k : grown[i] = a[i]
    BY <1>1, <1>2, <1>4
  <2>4. grown[k + 1] = o
    BY <1>2, <1>4
  <2>5. QED
    BY <1>1, <1>2, <1>4, <2>2, <2>3, <2>4 DEF a
<1>5. CASE k = f.total
  <2> DEFINE r == Reserved(f, f.total + 1)
             g == Remade(r, grown, first)
  <2>1. k = n
    BY <1>1, <1>5
  <2>2. r \in Array /\ r.slots = a /\ r.size = k /\ r.total >= f.total + 1 /\ r.total \in Nat
    <3>1. f.total + 1 \in Nat
      BY <1>1
    <3>2. /\ r \in Array /\ r.slots = f.slots /\ r.size = f.size
          /\ r.total >= f.total /\ r.total >= f.total + 1
      BY <1>1, <3>1, ReserveGrows
    <3>3. r.total \in Nat
      BY <3>2, FieldParts
    <3>4. QED
      BY <3>2, <3>3
  <2>3. Place(f, o) = [field |-> g, deleted |-> {}]
    BY <1>5, <2>2 DEF Place, Remade
  <2> HIDE DEF r, grown, n, a
  <2>4. first \in Nat /\ first <= Len(grown) /\ Len(grown) <= r.total
    BY <1>1, <1>2, <1>5, <2>1, <2>2
  <2>5. Sound(g) /\ g.slots = grown /\ g.size = first /\ Allocated(g) = In(grown)
    BY <1>2, <2>2, <2>4, Assembled
  <2> HIDE DEF g, first
  <2>6. /\ Sound(g) /\ g.size = f.size + 1
        /\ \A i \in 1 .. f.size : g.slots[i] = f.slots[i]
        /\ g.slots[f.size + 1] = o
        /\ Allocated(g) = (Allocated(f) \ {}) \union {o}
        /\ SparesKept(f, g)
    BY <1>4, <2>1, <2>5, Zenon
  <2>7. Place(f, o).field = g /\ Place(f, o).deleted = {}
    BY <2>3
  <2>8. QED
    BY <2>6, <2>7, Zenon
<1>6. CASE k # f.total /\ n = f.total
  <2> DEFINE s == PutAt(a, first, o)
             g == Remade(f, s, first)
  <2>1. Place(f, o) = [field |-> g, deleted |-> {a[first]}]
    BY <1>1, <1>6 DEF Place, Remade, PutAt, Array
  <2>2. first \in 1 .. Len(a) /\ first \in Nat /\ first <= n
    BY <1>1, <1>6
  <2> HIDE DEF n, first
  <2>3. /\ s \in Seq(Objects) /\ Len(s) = Len(a)
        /\ \A j \in 1 .. Len(a) : s[j] = IF j = first THEN o ELSE a[j]
        /\ Distinct(s) /\ In(s) = (In(a) \ {a[first]}) \union {o}
    <3> HIDE DEF a
    <3>1. a \in Seq(Objects) /\ first \in 1 .. Len(a) /\ Distinct(a) /\ o \notin In(a)
      BY <1>1, <2>2
    <3>2. /\ PutAt(a, first, o) \in Seq(Objects) /\ Len(PutAt(a, first, o)) = Len(a)
          /\ \A j \in 1 .. Len(a) : PutAt(a, first, o)[j] = IF j = first THEN o ELSE a[j]
      <4>1. a \in Seq(Objects) /\ first \in 1 .. Len(a) /\ o \in Objects
        BY <3>1
      <4>2. QED
        BY <4>1, Replaced, Zenon
    <3>3. /\ Distinct(PutAt(a, first, o))
          /\ In(PutAt(a, first, o)) = (In(a) \ {a[first]}) \union {o}
      BY <3>1, ReplacedStaysDistinct
    <3>4. QED
      BY <3>2, <3>3
  <2> HIDE DEF s
  <2>4. Len(a) = n /\ Len(s) <= f.total /\ first <= Len(s)
    BY <1>1, <1>6, <2>2, <2>3 DEF n
  <2>5. Sound(g) /\ g.slots = s /\ g.size = first /\ Allocated(g) = In(s)
    BY <1>1, <2>2, <2>3, <2>4, Assembled
  <2> HIDE DEF g, a
  <2>6. /\ \A i \in 1 .. k : s[i] = a[i]
        /\ s[k + 1] = o
        /\ \A i \in k + 2 .. n : s[i] = a[i]
    <3>1. /\ \A i \in 1 .. k : i \in 1 .. n /\ i # first
          /\ k + 1 = first
          /\ \A i \in k + 2 .. n : i \in 1 .. n /\ i # first
      BY <1>1, <2>2 DEF first
    <3>2. QED
      BY <2>2, <2>3, <2>4, <3>1
  <2>7. SparesKept(f, g)
    <3>1. \A i \in first + 1 .. n : i \in k + 1 .. n /\ i \in k + 2 .. n
      BY <1>1 DEF first
    <3>2. \A i \in first + 1 .. n : \E j \in k + 1 .. n : s[i] = a[j]
      BY <2>6, <3>1
    <3>3. Len(s) = n
      BY <2>3, <2>4
    <3>4. QED
      BY <2>5, <3>2, <3>3 DEF SparesKept, a, n
  <2>8. a[first] \in Allocated(f) /\ \A i \in 1 .. k : a[i] # a[first]
    <3>1. first \in DOMAIN a /\ \A i \in 1 .. k : i \in DOMAIN a /\ i # first
      BY <1>1, <2>2 DEF first
    <3>2. QED
      BY <1>1, <3>1 DEF In, Distinct
  <2>9. Place(f, o).field = g /\ Place(f, o).deleted = {a[first]}
    BY <2>1
  <2>10. g.size = f.size + 1
    BY <2>5 DEF first
  <2>11. /\ \A i \in 1 .. f.size : g.slots[i] = f.slots[i]
         /\ g.slots[f.size + 1] = o
    BY <2>5, <2>6 DEF a
  <2>12. Allocated(g) = (Allocated(f) \ {a[first]}) \union {o}
    BY <1>1, <2>3, <2>5
  <2>13. \A i \in 1 .. f.size : f.slots[i] \notin {a[first]}
    BY <2>8 DEF a
  <2>14. {a[first]} \subseteq Allocated(f)
    BY <2>8
  <2>15. QED
    BY <2>5, <2>7, <2>9, <2>10, <2>11, <2>12, <2>13, <2>14, Zenon
<1>7. CASE k # f.total /\ n # f.total /\ ~ (k < n)
  <2> DEFINE g == Remade(f, grown, first)
  <2>1. k = n
    BY <1>1, <1>7
  <2>2. Place(f, o) = [field |-> g, deleted |-> {}]
    BY <1>7 DEF Place, Remade
  <2> HIDE DEF grown, n, a
  <2>3. first \in Nat /\ first <= Len(grown) /\ Len(grown) <= f.total
    BY <1>1, <1>2, <1>7, <2>1
  <2>4. Sound(g) /\ g.slots = grown /\ g.size = first /\ Allocated(g) = In(grown)
    BY <1>1, <1>2, <2>3, Assembled
  <2> HIDE DEF g, first
  <2>5. /\ Sound(g) /\ g.size = f.size + 1
        /\ \A i \in 1 .. f.size : g.slots[i] = f.slots[i]
        /\ g.slots[f.size + 1] = o
        /\ Allocated(g) = (Allocated(f) \ {}) \union {o}
        /\ SparesKept(f, g)
    BY <1>4, <2>1, <2>4, Zenon
  <2>6. Place(f, o).field = g /\ Place(f, o).deleted = {}
    BY <2>2
  <2>7. QED
    BY <2>5, <2>6, Zenon
\* the first cleared object moves to the end
<1>8. CASE k # f.total /\ n # f.total /\ k < n
  <2> DEFINE x == a[first]
             b == PutAt(a, first, o)
             s == Append(b, x)
             g == Remade(f, s, first)
  <2>1. first \in 1 .. n /\ first \in Nat /\ x \in Objects /\ x \in In(a) /\ x # o
    <3>1. first \in DOMAIN a /\ first \in Nat
      BY <1>1, <1>8
    <3>2. x \in In(a)
      BY <3>1 DEF In
    <3>3. QED
      BY <1>1, <3>1, <3>2
  <2>2. PutAt(Append(a, x), first, o) = s
    <3> DEFINE l == Append(a, x)
               u == PutAt(l, first, o)
    <3> HIDE DEF n, first, x, a
    <3>1. /\ l \in Seq(Objects) /\ Len(l) = Len(a) + 1
          /\ \A i \in 1 .. Len(a) : l[i] = a[i]
          /\ l[Len(a) + 1] = x
      BY <1>1, <2>1, Appended
    <3>2. Len(a) = n
      BY DEF n, a
    <3>3. /\ b \in Seq(Objects) /\ Len(b) = Len(a)
          /\ \A j \in 1 .. Len(a) : b[j] = IF j = first THEN o ELSE a[j]
      <4>1. a \in Seq(Objects) /\ first \in 1 .. Len(a)
        BY <1>1, <2>1, <3>2
      <4>2. /\ PutAt(a, first, o) \in Seq(Objects) /\ Len(PutAt(a, first, o)) = Len(a)
            /\ \A j \in 1 .. Len(a) : PutAt(a, first, o)[j] = IF j = first THEN o ELSE a[j]
        BY <4>1, Replaced
      <4>3. QED
        BY <4>2
    <3> HIDE DEF l, b
    <3>4. first \in 1 .. Len(l)
      BY <1>1, <2>1, <3>1, <3>2
    <3>5. /\ u \in Seq(Objects) /\ Len(u) = Len(l)
          /\ \A j \in 1 .. Len(l) : u[j] = IF j = first THEN o ELSE l[j]
      <4>1. l \in Seq(Objects)
        BY <3>1
      <4>2. /\ PutAt(l, first, o) \in Seq(Objects) /\ Len(PutAt(l, first, o)) = Len(l)
            /\ \A j \in 1 .. Len(l) : PutAt(l, first, o)[j] = IF j = first THEN o ELSE l[j]
        BY <3>4, <4>1, Replaced
      <4>3. QED
        BY <4>2
    <3>6. /\ s \in Seq(Objects) /\ Len(s) = Len(b) + 1
          /\ \A i \in 1 .. Len(b) : s[i] = b[i]
          /\ s[Len(b) + 1] = x
      BY <2>1, <3>3, Appended
    <3> HIDE DEF u, s
    <3>7. \A i \in 1 .. n + 1 : u[i] = s[i]
      <4> SUFFICES ASSUME NEW i \in 1 .. n + 1 PROVE u[i] = s[i]
        OBVIOUS
      <4>1. CASE i \in 1 .. n
        BY <1>1, <2>1, <3>1, <3>2, <3>3, <3>5, <3>6, <4>1
      <4>2. CASE i = n + 1 /\ i # first
        BY <1>1, <2>1, <3>1, <3>2, <3>3, <3>5, <3>6, <4>2
      <4>3. QED
        BY <1>1, <2>1, <4>1, <4>2
    <3>8. Len(u) = n + 1 /\ Len(s) = n + 1
      BY <3>1, <3>2, <3>3, <3>5, <3>6
    <3>9. u = s
      BY <3>5, <3>6, <3>7, <3>8, SeqEqual
    <3>10. QED
      BY <3>9 DEF u, l
  <2>3. Place(f, o) = [field |-> g, deleted |-> {}]
    <3>1. Place(f, o) = [field |-> Remade(f, PutAt(Append(a, x), first, o), first), deleted |-> {}]
      BY <1>1, <1>8 DEF Place, Remade, PutAt, Array
    <3>2. QED
      BY <2>2, <3>1, Zenon
  <2> HIDE DEF n, first, x
  <2>4. /\ b \in Seq(Objects) /\ Len(b) = n
        /\ \A j \in 1 .. n : b[j] = IF j = first THEN o ELSE a[j]
        /\ Distinct(b) /\ In(b) = (In(a) \ {a[first]}) \union {o}
    <3> HIDE DEF a
    <3>1. a \in Seq(Objects) /\ first \in 1 .. Len(a) /\ Distinct(a) /\ o \notin In(a) /\ Len(a) = n
      BY <1>1, <2>1 DEF n, a
    <3>2. /\ PutAt(a, first, o) \in Seq(Objects) /\ Len(PutAt(a, first, o)) = Len(a)
          /\ \A j \in 1 .. Len(a) : PutAt(a, first, o)[j] = IF j = first THEN o ELSE a[j]
      <4>1. a \in Seq(Objects) /\ first \in 1 .. Len(a) /\ o \in Objects
        BY <3>1
      <4>2. QED
        BY <4>1, Replaced, Zenon
    <3>3. /\ Distinct(PutAt(a, first, o))
          /\ In(PutAt(a, first, o)) = (In(a) \ {a[first]}) \union {o}
      BY <3>1, ReplacedStaysDistinct
    <3>4. QED
      BY <3>1, <3>2, <3>3
  <2> HIDE DEF b
  <2>5. x \notin In(b)
    BY <2>1, <2>4 DEF x
  <2>6. /\ s \in Seq(Objects) /\ Len(s) = n + 1 /\ Distinct(s)
        /\ \A i \in 1 .. n : s[i] = b[i]
        /\ s[n + 1] = x
        /\ In(s) = In(b) \union {x}
    <3>1. b \in Seq(Objects) /\ x \in Objects
      BY <2>1, <2>4
    <3>2. /\ Append(b, x) \in Seq(Objects) /\ Len(Append(b, x)) = Len(b) + 1
          /\ \A i \in 1 .. Len(b) : Append(b, x)[i] = b[i]
          /\ Append(b, x)[Len(b) + 1] = x
          /\ In(Append(b, x)) = In(b) \union {x}
          /\ Distinct(b) /\ x \notin In(b) => Distinct(Append(b, x))
      BY <3>1, Appended
    <3>3. QED
      BY <2>4, <2>5, <3>2, Zenon
  <2> HIDE DEF s
  <2>7. Len(s) <= f.total /\ first <= Len(s)
    BY <1>1, <1>8, <2>1, <2>6
  <2>8. Sound(g) /\ g.slots = s /\ g.size = first /\ Allocated(g) = In(s)
    BY <1>1, <2>1, <2>6, <2>7, Assembled
  <2> HIDE DEF g, a
  <2>9. /\ \A i \in 1 .. k : s[i] = a[i]
        /\ s[k + 1] = o
        /\ \A i \in k + 2 .. n : s[i] = a[i]
    <3>1. /\ \A i \in 1 .. k : i \in 1 .. n /\ i # first
          /\ k + 1 = first
          /\ \A i \in k + 2 .. n : i \in 1 .. n /\ i # first
      BY <1>1, <2>1 DEF first
    <3>2. QED
      BY <2>1, <2>4, <2>6, <3>1
  <2>10. SparesKept(f, g)
    <3>1. ASSUME NEW i \in first + 1 .. n + 1
          PROVE  \E j \in k + 1 .. n : s[i] = a[j]
      <4>1. CASE i = n + 1
        <5>1. first \in k + 1 .. n
          BY <1>1, <2>1 DEF first
        <5>2. QED
          BY <2>6, <4>1, <5>1 DEF x
      <4>2. CASE i # n + 1
        <5>1. i \in k + 2 .. n /\ i \in k + 1 .. n
          BY <1>1, <4>2 DEF first
        <5>2. QED
          BY <2>9, <5>1
      <4>3. QED
        BY <4>1, <4>2
    <3>2. QED
      BY <2>6, <2>8, <3>1 DEF SparesKept, a, n
  <2>11. Place(f, o).field = g /\ Place(f, o).deleted = {}
    BY <2>3
  <2>12. Allocated(g) = (Allocated(f) \ {}) \union {o}
    BY <1>1, <2>1, <2>4, <2>6, <2>8 DEF x
  <2>13. g.size = f.size + 1
    BY <2>8 DEF first
  <2>14. /\ \A i \in 1 .. f.size : g.slots[i] = f.slots[i]
         /\ g.slots[f.size + 1] = o
    BY <2>8, <2>9 DEF a
  <2>15. QED
    BY <2>8, <2>10, <2>11, <2>12, <2>13, <2>14, Zenon
<1>9. QED
  BY <1>5, <1>6, <1>7, <1>8, Zenon

-----------------------------------------------------------------------------
(* What a call may do: it changes one field, and no object but those of     *)
(* that field, the caller's and new ones.                                   *)

LEMMA KeptField ==
    ASSUME NEW F, NEW L, NEW H, Kept(F, L, H), NEW f \in Fields
    PROVE  /\ Sound(F[f]) /\ F[f] \in Array
           /\ F[f].slots \in Seq(Objects) /\ F[f].size \in Nat /\ Len(F[f].slots) \in Nat
           /\ F[f].size <= Len(F[f].slots)
           /\ DOMAIN F[f].slots = 1 .. Len(F[f].slots)
           /\ Allocated(F[f]) \subseteq Objects
           /\ Allocated(F[f]) \intersect H = {}
           /\ \A i \in 1 .. Len(F[f].slots) : F[f].slots[i] \in Allocated(F[f])
           /\ \A i, j \in 1 .. Len(F[f].slots) : F[f].slots[i] = F[f].slots[j] => i = j
           /\ \A o \in Allocated(F[f]) : L[o] # Freed
           /\ \A i \in F[f].size + 1 .. Len(F[f].slots) : L[F[f].slots[i]] = Empty
<1>1. Sound(F[f]) /\ F[f] \in Array
  BY DEF Kept, Sound
<1>2. /\ F[f].slots \in Seq(Objects) /\ F[f].size \in Nat /\ Len(F[f].slots) \in Nat
      /\ F[f].size <= Len(F[f].slots)
      /\ DOMAIN F[f].slots = 1 .. Len(F[f].slots)
      /\ Allocated(F[f]) \subseteq Objects
      /\ Allocated(F[f]) = In(F[f].slots)
  BY <1>1, FieldParts DEF Sound
<1>3. \A i \in 1 .. Len(F[f].slots) : F[f].slots[i] \in Allocated(F[f])
  BY <1>2 DEF In
<1>4. \A i, j \in 1 .. Len(F[f].slots) : F[f].slots[i] = F[f].slots[j] => i = j
  BY <1>1, <1>2 DEF Sound, Distinct
<1>5. \A o \in Allocated(F[f]) : L[o] # Freed
  BY <1>2, Zenon DEF Kept
<1>6. /\ Allocated(F[f]) \intersect H = {}
      /\ \A i \in F[f].size + 1 .. Len(F[f].slots) : L[F[f].slots[i]] = Empty
  BY Zenon DEF Kept
<1>7. QED
  BY <1>1, <1>2, <1>3, <1>4, <1>5, <1>6, Zenon

LEMMA FieldChanges ==
    ASSUME NEW F, NEW L, NEW H, Kept(F, L, H), NEW f \in Fields,
           NEW g, Sound(g),
           NEW L2 \in [Objects -> ObjectValues \union {Freed}], NEW H2 \in SUBSET Objects,
           \A o \in Objects : L[o] # Freed /\ o \notin Allocated(F[f]) \union H => L2[o] = L[o],
           \A o \in Objects :
               L[o] = Freed \/ o \in Allocated(F[f]) \union H =>
                   (L2[o] # Freed <=> o \in Allocated(g) \union H2),
           \A o \in Allocated(g) \union H2 : L[o] = Freed \/ o \in Allocated(F[f]) \union H,
           Allocated(g) \intersect H2 = {},
           \A i \in g.size + 1 .. Len(g.slots) : L2[g.slots[i]] = Empty
    PROVE  Kept(With(F, f, g), L2, H2)
<1> DEFINE G == With(F, f, g)
<1>1. /\ F \in [Fields -> Array]
      /\ \A h \in Fields : Sound(F[h])
      /\ \A h, k \in Fields : h # k => Allocated(F[h]) \intersect Allocated(F[k]) = {}
      /\ \A h \in Fields : Allocated(F[h]) \intersect H = {}
      /\ \A o \in Objects : L[o] # Freed <=> (o \in H \/ \E h \in Fields : o \in Allocated(F[h]))
  BY Zenon DEF Kept
<1>2. g \in Array
  BY DEF Sound
<1>3. G \in [Fields -> Array] /\ G[f] = g /\ \A h \in Fields \ {f} : G[h] = F[h]
  BY <1>1, <1>2 DEF With
<1> HIDE DEF G
<1>4. \A h \in Fields : Sound(G[h])
  BY <1>1, <1>3
\* what belongs to another field keeps what it holds
<1>5. ASSUME NEW h \in Fields \ {f}, NEW o \in Allocated(F[h])
      PROVE  /\ o \in Objects /\ L[o] # Freed /\ o \notin Allocated(F[f]) /\ o \notin H
             /\ L2[o] = L[o] /\ o \notin Allocated(g) /\ o \notin H2
  <2>1. o \in Objects
    BY <1>1, FieldParts
  <2>2. L[o] # Freed /\ o \notin Allocated(F[f]) /\ o \notin H
    BY <1>1, <2>1
  <2>3. L2[o] = L[o]
    BY <2>1, <2>2
  <2>4. QED
    BY <2>1, <2>2, <2>3
<1>6. ASSUME NEW h \in Fields, NEW k \in Fields, h # k
      PROVE  Allocated(G[h]) \intersect Allocated(G[k]) = {}
  <2>1. CASE h # f /\ k # f
    BY <1>1, <1>3, <1>6, <2>1
  <2>2. CASE h = f
    BY <1>3, <1>5, <1>6, <2>2
  <2>3. CASE k = f
    BY <1>3, <1>5, <1>6, <2>3
  <2>4. QED
    BY <2>1, <2>2, <2>3
<1>7. ASSUME NEW h \in Fields
      PROVE  Allocated(G[h]) \intersect H2 = {}
  BY <1>3, <1>5
<1>8. ASSUME NEW o \in Objects
      PROVE  L2[o] # Freed <=> (o \in H2 \/ \E h \in Fields : o \in Allocated(G[h]))
  <2>1. CASE L[o] = Freed \/ o \in Allocated(F[f]) \union H
    <3>1. \A h \in Fields \ {f} : o \notin Allocated(G[h])
      BY <1>3, <1>5, <2>1
    <3>2. (\E h \in Fields : o \in Allocated(G[h])) <=> o \in Allocated(g)
      BY <1>3, <3>1
    <3>3. QED
      BY <2>1, <3>2
  <2>2. CASE ~ (L[o] = Freed \/ o \in Allocated(F[f]) \union H)
    <3>1. PICK h \in Fields \ {f} : o \in Allocated(F[h])
      BY <1>1, <2>2
    <3>2. o \in Allocated(G[h]) /\ L2[o] # Freed
      BY <1>3, <1>5, <3>1
    <3>3. QED
      BY <3>2
  <2>3. QED
    BY <2>1, <2>2
<1>9. ASSUME NEW h \in Fields, NEW i \in G[h].size + 1 .. Len(G[h].slots)
      PROVE  L2[G[h].slots[i]] = Empty
  <2>1. CASE h = f
    BY <1>3, <1>9, <2>1
  <2>2. CASE h # f
    <3>1. G[h] = F[h] /\ h \in Fields \ {f}
      BY <1>3, <2>2
    <3>2. i \in F[h].size + 1 .. Len(F[h].slots) /\ L[F[h].slots[i]] = Empty
      <4>1. i \in F[h].size + 1 .. Len(F[h].slots)
        BY <1>9, <3>1, Zenon
      <4>2. QED
        BY <4>1, KeptField
    <3>3. F[h].slots[i] \in Allocated(F[h])
      <4>1. /\ F[h].size \in Nat /\ Len(F[h].slots) \in Nat
            /\ \A j \in 1 .. Len(F[h].slots) : F[h].slots[j] \in Allocated(F[h])
        BY KeptField
      <4>2. i \in 1 .. Len(F[h].slots)
        BY <3>2, <4>1
      <4>3. QED
        BY <4>1, <4>2
    <3>4. QED
      BY <1>5, <3>1, <3>2, <3>3
  <2>3. QED
    BY <2>1, <2>2
<1>10. QED
  BY <1>3, <1>4, <1>6, <1>7, <1>8, <1>9, Zenon DEF Kept, G

\* No field changes, and no object of a field.
LEMMA CallerChanges ==
    ASSUME NEW F, NEW L, NEW H, Kept(F, L, H),
           NEW L2 \in [Objects -> ObjectValues \union {Freed}], NEW H2 \in SUBSET Objects,
           \A o \in Objects : L[o] # Freed /\ o \notin H => L2[o] = L[o],
           \A o \in Objects : L[o] = Freed \/ o \in H => (L2[o] # Freed <=> o \in H2),
           \A o \in H2 : L[o] = Freed \/ o \in H
    PROVE  Kept(F, L2, H2)
<1>1. /\ F \in [Fields -> Array]
      /\ \A h \in Fields : Sound(F[h])
      /\ \A h, k \in Fields : h # k => Allocated(F[h]) \intersect Allocated(F[k]) = {}
      /\ \A h \in Fields : Allocated(F[h]) \intersect H = {}
      /\ \A o \in Objects : L[o] # Freed <=> (o \in H \/ \E h \in Fields : o \in Allocated(F[h]))
  BY Zenon DEF Kept
<1>2. ASSUME NEW h \in Fields, NEW o \in Allocated(F[h])
      PROVE  o \in Objects /\ L[o] # Freed /\ o \notin H /\ L2[o] = L[o] /\ o \notin H2
  <2>1. o \in Objects
    BY <1>1, FieldParts
  <2>2. L[o] # Freed /\ o \notin H
    BY <1>1, <2>1
  <2>3. QED
    BY <2>1, <2>2
<1>3. ASSUME NEW h \in Fields
      PROVE  Allocated(F[h]) \intersect H2 = {}
  BY <1>2
<1>4. ASSUME NEW o \in Objects
      PROVE  L2[o] # Freed <=> (o \in H2 \/ \E h \in Fields : o \in Allocated(F[h]))
  BY <1>1, <1>2
<1>5. ASSUME NEW h \in Fields, NEW i \in F[h].size + 1 .. Len(F[h].slots)
      PROVE  L2[F[h].slots[i]] = Empty
  <2>1. /\ F[h].size \in Nat /\ Len(F[h].slots) \in Nat
        /\ \A j \in 1 .. Len(F[h].slots) : F[h].slots[j] \in Allocated(F[h])
        /\ L[F[h].slots[i]] = Empty
    BY <1>5, KeptField
  <2>2. i \in 1 .. Len(F[h].slots)
    BY <1>5, <2>1
  <2>3. QED
    BY <1>2, <2>1, <2>2
<1>6. QED
  BY <1>1, <1>3, <1>4, <1>5, Zenon DEF Kept

-----------------------------------------------------------------------------
(* A step keeps the invariant, and the callers of a field see a step of a   *)
(* sequence.                                                                *)

\* What field g holds, the objects being L.
Read(g, L) == [i \in 1 .. g.size |-> L[g.slots[i]]]

LEMMA ContentsRead ==
    Contents = [f \in Fields |-> Read(fields[f], live)]
BY DEF Contents, Read

LEMMA FieldStep ==
    ASSUME Inv, NEW f \in Fields, NEW g, Sound(g), Update(f, g),
           live' \in [Objects -> ObjectValues \union {Freed}], held' \in SUBSET Objects,
           \A o \in Objects : live[o] # Freed /\ o \notin Allocated(fields[f]) \union held =>
               live'[o] = live[o],
           \A o \in Objects :
               live[o] = Freed \/ o \in Allocated(fields[f]) \union held =>
                   (live'[o] # Freed <=> o \in Allocated(g) \union held'),
           \A o \in Allocated(g) \union held' :
               live[o] = Freed \/ o \in Allocated(fields[f]) \union held,
           Allocated(g) \intersect held' = {},
           \A i \in g.size + 1 .. Len(g.slots) : live'[g.slots[i]] = Empty
    PROVE  Inv' /\ Contents' = [Contents EXCEPT ![f] = Read(g, live')]
<1>1. fields' = With(fields, f, g)
  BY DEF Update, With
<1>2. Kept(fields, live, held)
  BY DEF Inv
<1>3. Kept(With(fields, f, g), live', held')
  BY <1>2, FieldChanges
<1>4. Kept(fields', live', held')
  BY <1>1, <1>3, Zenon
<1>5. fields \in [Fields -> Array]
  BY <1>2, Zenon DEF Kept
<1>6. fields'[f] = g /\ \A h \in Fields \ {f} : fields'[h] = fields[h]
  BY <1>1, <1>5 DEF With
<1>7. ASSUME NEW h \in Fields \ {f}
      PROVE  Read(fields'[h], live') = Read(fields[h], live)
  <2> DEFINE r == fields[h]
  <2>1. /\ r.slots \in Seq(Objects) /\ r.size \in Nat /\ Len(r.slots) \in Nat
        /\ r.size <= Len(r.slots)
        /\ DOMAIN r.slots = 1 .. Len(r.slots)
        /\ Allocated(r) \intersect held = {}
        /\ \A i \in 1 .. Len(r.slots) : r.slots[i] \in Allocated(r)
        /\ \A o \in Allocated(r) : live[o] # Freed
    BY <1>2, KeptField
  <2>2. Allocated(r) \intersect Allocated(fields[f]) = {}
    BY <1>2, Zenon DEF Kept
  <2> HIDE DEF r
  <2>3. ASSUME NEW i \in 1 .. r.size
        PROVE  live'[r.slots[i]] = live[r.slots[i]]
    <3>1. i \in 1 .. Len(r.slots)
      BY <2>1
    <3>2. r.slots[i] \in Objects /\ r.slots[i] \in Allocated(r)
      BY <2>1, <3>1
    <3>3. QED
      BY <2>1, <2>2, <3>2
  <2>4. Read(r, live') = Read(r, live)
    BY <2>3, Zenon DEF Read
  <2>5. QED
    BY <1>6, <2>4 DEF r
<1>8. Contents' = [Contents EXCEPT ![f] = Read(g, live')]
  <2>1. Contents' = [h \in Fields |-> Read(fields'[h], live')]
    BY DEF Contents, Read
  <2>2. Contents = [h \in Fields |-> Read(fields[h], live)]
    BY ContentsRead
  <2>3. QED
    BY <1>6, <1>7, <2>1, <2>2
<1>9. QED
  BY <1>4, <1>8 DEF Inv

LEMMA CallerStep ==
    ASSUME Inv, UNCHANGED fields,
           live' \in [Objects -> ObjectValues \union {Freed}], held' \in SUBSET Objects,
           \A o \in Objects : live[o] # Freed /\ o \notin held => live'[o] = live[o],
           \A o \in Objects : live[o] = Freed \/ o \in held => (live'[o] # Freed <=> o \in held'),
           \A o \in held' : live[o] = Freed \/ o \in held
    PROVE  Inv' /\ UNCHANGED Contents
<1>1. Kept(fields, live, held)
  BY DEF Inv
<1>2. Kept(fields, live', held')
  BY <1>1, CallerChanges
<1>3. Kept(fields', live', held')
  BY <1>2, Zenon
<1>4. ASSUME NEW h \in Fields
      PROVE  Read(fields'[h], live') = Read(fields[h], live)
  <2> DEFINE r == fields[h]
  <2>1. /\ r.slots \in Seq(Objects) /\ r.size \in Nat /\ Len(r.slots) \in Nat
        /\ r.size <= Len(r.slots)
        /\ DOMAIN r.slots = 1 .. Len(r.slots)
        /\ Allocated(r) \intersect held = {}
        /\ \A i \in 1 .. Len(r.slots) : r.slots[i] \in Allocated(r)
        /\ \A o \in Allocated(r) : live[o] # Freed
    BY <1>1, KeptField
  <2> HIDE DEF r
  <2>2. ASSUME NEW i \in 1 .. r.size
        PROVE  live'[r.slots[i]] = live[r.slots[i]]
    <3>1. i \in 1 .. Len(r.slots)
      BY <2>1
    <3>2. r.slots[i] \in Objects /\ r.slots[i] \in Allocated(r)
      BY <2>1, <3>1
    <3>3. QED
      BY <2>1, <3>2
  <2>3. Read(r, live') = Read(r, live)
    BY <2>2, Zenon DEF Read
  <2>4. QED
    BY <2>3, Zenon DEF r
<1>5. UNCHANGED Contents
  <2>1. Contents' = [h \in Fields |-> Read(fields'[h], live')]
    BY DEF Contents, Read
  <2>2. Contents = [h \in Fields |-> Read(fields[h], live)]
    BY ContentsRead
  <2>3. QED
    BY <1>4, <2>1, <2>2
<1>6. QED
  BY <1>3, <1>5 DEF Inv

LEMMA Types ==
    ASSUME Inv
    PROVE  /\ fields \in [Fields -> Array]
           /\ live \in [Objects -> ObjectValues \union {Freed}]
           /\ held \in SUBSET Objects
           /\ \A o \in held : live[o] # Freed
BY Zenon DEF Inv, Kept

LEMMA Writes ==
    ASSUME Inv, NEW objects, NEW v \in ObjectValues \union {Freed}, Write(objects, v)
    PROVE  /\ live' \in [Objects -> ObjectValues \union {Freed}]
           /\ \A o \in Objects : live'[o] = IF o \in objects THEN v ELSE live[o]
BY Types DEF Write

\* What is new is not there yet.
LEMMA FreshIsFree ==
    ASSUME Free # {}
    PROVE  Fresh \in Objects /\ live[Fresh] = Freed
BY Zenon DEF Fresh, Free

LEMMA NewObjectStep ==
    ASSUME PtrAssumption, Inv, NewObject
    PROVE  Inv' /\ UNCHANGED Contents
<1>1. PICK v \in ObjectValues : Write({Fresh}, v)
  BY Zenon DEF NewObject
<1>2. UNCHANGED fields /\ held' = held \union {Fresh} /\ Fresh \in Objects /\ live[Fresh] = Freed
  BY FreshIsFree, Zenon DEF NewObject
<1>3. v \in ObjectValues \union {Freed} /\ v # Freed
  BY DEF PtrAssumption
<1>4. /\ live' \in [Objects -> ObjectValues \union {Freed}]
      /\ \A o \in Objects : live'[o] = IF o \in {Fresh} THEN v ELSE live[o]
  BY <1>1, <1>3, Writes
<1> DEFINE x == Fresh
<1> HIDE DEF x
<1>5. held' \in SUBSET Objects
  BY <1>2, Types
<1>6. \A o \in Objects : live[o] # Freed /\ o \notin held => live'[o] = live[o]
  BY <1>2, <1>4
<1>7. \A o \in Objects : live[o] = Freed \/ o \in held => (live'[o] # Freed <=> o \in held')
  BY <1>2, <1>3, <1>4, Types
<1>8. \A o \in held' : live[o] = Freed \/ o \in held
  BY <1>2
<1>9. QED
  BY <1>2, <1>4, <1>5, <1>6, <1>7, <1>8, CallerStep

LEMMA DeleteObjectStep ==
    ASSUME Inv, DeleteObject
    PROVE  Inv' /\ UNCHANGED Contents
<1>1. PICK x \in held : Write({x}, Freed) /\ held' = held \ {x}
  BY Zenon DEF DeleteObject
<1>2. UNCHANGED fields
  BY DEF DeleteObject
<1>3. /\ live' \in [Objects -> ObjectValues \union {Freed}]
      /\ \A o \in Objects : live'[o] = IF o \in {x} THEN Freed ELSE live[o]
  BY <1>1, Writes
<1>4. held' \in SUBSET Objects
  BY <1>1, Types
<1>5. \A o \in Objects : live[o] # Freed /\ o \notin held => live'[o] = live[o]
  BY <1>1, <1>3
<1>6. \A o \in Objects : live[o] = Freed \/ o \in held => (live'[o] # Freed <=> o \in held')
  BY <1>1, <1>3, Types
<1>7. \A o \in held' : live[o] = Freed \/ o \in held
  BY <1>1
<1>8. QED
  BY <1>2, <1>3, <1>4, <1>5, <1>6, <1>7, CallerStep

\* What is known of one field.
LEMMA Here ==
    ASSUME Inv, NEW f \in Fields
    PROVE  LET r == fields[f]
           IN  /\ Sound(r) /\ r \in Array
               /\ r.slots \in Seq(Objects) /\ r.size \in Nat /\ Len(r.slots) \in Nat
               /\ r.size <= Len(r.slots)
               /\ DOMAIN r.slots = 1 .. Len(r.slots)
               /\ \A i \in 1 .. Len(r.slots) : r.slots[i] \in Allocated(r)
               /\ \A i, j \in 1 .. Len(r.slots) : r.slots[i] = r.slots[j] => i = j
               /\ Allocated(r) \subseteq Objects
               /\ Allocated(r) \intersect held = {}
               /\ \A o \in Allocated(r) : live[o] # Freed
               /\ \A i \in r.size + 1 .. Len(r.slots) : live[r.slots[i]] = Empty
<1>1. Kept(fields, live, held)
  BY DEF Inv
<1>2. QED
  BY <1>1, KeptField

LEMMA ContentsOf ==
    ASSUME Inv, NEW f \in Fields
    PROVE  /\ Contents[f] = Read(fields[f], live)
           /\ Len(Contents[f]) = fields[f].size /\ DOMAIN Contents[f] = 1 .. fields[f].size
           /\ \A i \in 1 .. fields[f].size : Contents[f][i] = live[fields[f].slots[i]]
<1>1. Contents[f] = Read(fields[f], live)
  BY ContentsRead
<1>2. fields[f].size \in Nat
  BY Here
<1>3. QED
  BY <1>1, <1>2 DEF Read

\* A spare becomes the new last element.
LEMMA ReuseStep ==
    ASSUME PtrAssumption, Inv, NEW f \in Fields, NEW v \in ObjectValues,
           Cleared(fields[f]) > 0,
           Update(f, Reuse(fields[f])), Write({fields[f].slots[fields[f].size + 1]}, v), UNCHANGED held
    PROVE  Inv' /\ Abstract!Put(f, v)
<1> DEFINE r == fields[f]
           g == Reuse(r)
           k == r.size
           x == r.slots[k + 1]
<1>1. /\ Sound(r) /\ r \in Array
      /\ r.slots \in Seq(Objects) /\ k \in Nat /\ Len(r.slots) \in Nat
      /\ k <= Len(r.slots)
      /\ DOMAIN r.slots = 1 .. Len(r.slots)
      /\ \A i \in 1 .. Len(r.slots) : r.slots[i] \in Allocated(r)
      /\ \A i, j \in 1 .. Len(r.slots) : r.slots[i] = r.slots[j] => i = j
      /\ Allocated(r) \subseteq Objects
      /\ Allocated(r) \intersect held = {}
      /\ \A o \in Allocated(r) : live[o] # Freed
      /\ \A i \in k + 1 .. Len(r.slots) : live[r.slots[i]] = Empty
  BY Here
<1>2. k + 1 \in 1 .. Len(r.slots) /\ k + 1 \in Nat /\ k + 1 <= Len(r.slots)
  BY <1>1 DEF Cleared
<1>3. g = [r EXCEPT !.size = k + 1]
  BY DEF Reuse
<1> HIDE DEF r, g, k
<1>4. /\ Sound(g) /\ g.slots = r.slots /\ g.size = k + 1 /\ Allocated(g) = Allocated(r)
  BY <1>1, <1>2, <1>3, Resized
<1>5. v # Freed /\ v \in ObjectValues \union {Freed} /\ x \in Allocated(r)
  BY <1>1, <1>2 DEF PtrAssumption
<1>6. /\ live' \in [Objects -> ObjectValues \union {Freed}]
      /\ \A o \in Objects : live'[o] = IF o \in {x} THEN v ELSE live[o]
  BY <1>5, Writes DEF r, k
<1>7. Update(f, g) /\ held' \in SUBSET Objects
  BY Types DEF g, r
<1> HIDE DEF x
<1>8. \A o \in Objects : live[o] # Freed /\ o \notin Allocated(r) \union held => live'[o] = live[o]
  BY <1>5, <1>6
<1>9. \A o \in Objects :
         live[o] = Freed \/ o \in Allocated(r) \union held =>
             (live'[o] # Freed <=> o \in Allocated(g) \union held')
  BY <1>1, <1>4, <1>5, <1>6, Types
<1>10. \A o \in Allocated(g) \union held' : live[o] = Freed \/ o \in Allocated(r) \union held
  BY <1>4
<1>11. Allocated(g) \intersect held' = {}
  BY <1>1, <1>4
<1>12. \A i \in g.size + 1 .. Len(g.slots) : live'[g.slots[i]] = Empty
  <2> SUFFICES ASSUME NEW i \in k + 1 + 1 .. Len(r.slots)
               PROVE  live'[r.slots[i]] = Empty
    BY <1>4
  <2>1. i \in k + 1 .. Len(r.slots) /\ i \in 1 .. Len(r.slots) /\ i # k + 1
    BY <1>1
  <2>2. r.slots[i] # x /\ r.slots[i] \in Objects
    BY <1>1, <1>2, <2>1 DEF x
  <2>3. QED
    BY <1>1, <1>6, <2>1, <2>2
<1>13. Inv' /\ Contents' = [Contents EXCEPT ![f] = Read(g, live')]
  BY <1>4, <1>6, <1>7, <1>8, <1>9, <1>10, <1>11, <1>12, FieldStep DEF r
<1>14. Read(g, live') = Append(Contents[f], v)
  <2> DEFINE c == Contents[f]
  <2>1. Len(c) = k /\ c = [i \in 1 .. k |-> live[r.slots[i]]] /\ \A i \in 1 .. k : c[i] = live[r.slots[i]]
    BY ContentsOf DEF r, k, Read
  <2> HIDE DEF c
  <2>2. Read(g, live') = [i \in 1 .. k + 1 |-> live'[r.slots[i]]]
    BY <1>4 DEF Read
  <2>3. Append(c, v) = [i \in 1 .. k + 1 |-> IF i = k + 1 THEN v ELSE c[i]]
    <3>1. c \in Seq(ObjectValues \union {Freed})
      BY <1>1, <2>1, Types
    <3>2. QED
      BY <1>1, <2>1, <3>1, AppendProperties
  <2>4. ASSUME NEW i \in 1 .. k + 1
        PROVE  live'[r.slots[i]] = IF i = k + 1 THEN v ELSE c[i]
    <3>1. i \in 1 .. Len(r.slots) /\ r.slots[i] \in Objects
      BY <1>1, <1>2
    <3>2. CASE i = k + 1
      BY <1>6, <3>1, <3>2 DEF x
    <3>3. CASE i # k + 1
      <4>1. i \in 1 .. k /\ r.slots[i] # x
        BY <1>1, <1>2, <3>1, <3>3 DEF x
      <4>2. QED
        BY <1>6, <2>1, <3>1, <3>3, <4>1
    <3>4. QED
      BY <3>2, <3>3
  <2>5. QED
    BY <2>2, <2>3, <2>4 DEF c
<1>15. QED
  BY <1>13, <1>14 DEF Abstract!Put, Abstract!Set

LEMMA AppendedValue ==
    ASSUME NEW S, NEW c \in Seq(S), NEW v \in S, NEW k \in Nat, Len(c) = k
    PROVE  Append(c, v) = [i \in 1 .. k + 1 |-> IF i = k + 1 THEN v ELSE c[i]]
<1> DEFINE a == Append(c, v)
           b == [i \in 1 .. k + 1 |-> IF i = k + 1 THEN v ELSE c[i]]
<1>1. /\ a \in Seq(S) /\ Len(a) = k + 1
      /\ \A i \in 1 .. k : a[i] = c[i]
      /\ a[k + 1] = v
  BY AppendProperties
<1> HIDE DEF a
<1>2. a = [i \in 1 .. k + 1 |-> a[i]]
  BY <1>1
<1>3. \A i \in 1 .. k + 1 : i \in 1 .. k \/ i = k + 1
  OBVIOUS
<1>4. \A i \in 1 .. k + 1 : a[i] = IF i = k + 1 THEN v ELSE c[i]
  BY <1>1, <1>3
<1>5. a = b
  BY <1>2, <1>4
<1>6. QED
  BY <1>5 DEF a

\* Sequences of what objects hold.
LEMMA ContentsIsSeq ==
    ASSUME Inv, NEW f \in Fields
    PROVE  /\ Contents[f] \in Seq(ObjectValues \union {Freed})
           /\ Contents \in [Fields -> Seq(ObjectValues \union {Freed})]
<1>1. ASSUME NEW h \in Fields PROVE Contents[h] \in Seq(ObjectValues \union {Freed})
  <2> DEFINE c == Contents[h]
             r == fields[h]
  <2>1. c = [i \in 1 .. r.size |-> live[r.slots[i]]]
    BY ContentsOf DEF Read
  <2>2. /\ r.slots \in Seq(Objects) /\ r.size \in Nat /\ Len(r.slots) \in Nat /\ r.size <= Len(r.slots)
        /\ live \in [Objects -> ObjectValues \union {Freed}]
    BY Here, Types
  <2> HIDE DEF c, r
  <2>3. \A i \in 1 .. r.size : live[r.slots[i]] \in ObjectValues \union {Freed}
    BY <2>2
  <2>4. c \in Seq(ObjectValues \union {Freed})
    BY <2>1, <2>2, <2>3
  <2>5. QED
    BY <2>4 DEF c
<1>2. Contents = [h \in Fields |-> Contents[h]]
  BY DEF Contents
<1>3. QED
  BY <1>1, <1>2

\* A new object becomes the last element.
LEMMA GrowStep ==
    ASSUME PtrAssumption, Inv, NEW f \in Fields, NEW v \in ObjectValues,
           Cleared(fields[f]) = 0, Free # {},
           Update(f, Grow(fields[f], Fresh)), Write({Fresh}, v), UNCHANGED held
    PROVE  Inv' /\ Abstract!Put(f, v)
<1> DEFINE r == fields[f]
           x == Fresh
           g == Grow(r, x)
           k == r.size
<1>1. /\ Sound(r) /\ r \in Array
      /\ r.slots \in Seq(Objects) /\ k \in Nat /\ Len(r.slots) \in Nat
      /\ k <= Len(r.slots)
      /\ \A i \in 1 .. Len(r.slots) : r.slots[i] \in Allocated(r)
      /\ Allocated(r) \subseteq Objects
      /\ Allocated(r) \intersect held = {}
      /\ \A o \in Allocated(r) : live[o] # Freed
  BY Here
<1>2. x \in Objects /\ live[x] = Freed
  BY FreshIsFree
<1>3. v # Freed /\ v \in ObjectValues \union {Freed}
  BY DEF PtrAssumption
<1>4. /\ live' \in [Objects -> ObjectValues \union {Freed}]
      /\ \A o \in Objects : live'[o] = IF o \in {x} THEN v ELSE live[o]
  BY <1>3, Writes
<1>5. Update(f, g) /\ held' \in SUBSET Objects /\ held' = held /\ \A o \in held : live[o] # Freed
  BY Types
<1>6. Cleared(r) = 0
  OBVIOUS
<1> HIDE DEF r, x, k
<1>7. x \notin Allocated(r)
  BY <1>1, <1>2
<1>8. /\ Sound(g) /\ g.size = k + 1 /\ Len(g.slots) = k + 1
      /\ \A i \in 1 .. k : g.slots[i] = r.slots[i]
      /\ g.slots[k + 1] = x
      /\ Allocated(g) = Allocated(r) \union {x}
  BY <1>1, <1>2, <1>6, <1>7, GrowAdds DEF k
<1> HIDE DEF g
<1>9. \A o \in Objects : live[o] # Freed /\ o \notin Allocated(r) \union held => live'[o] = live[o]
  BY <1>2, <1>4
<1>10. \A o \in Objects :
         live[o] = Freed \/ o \in Allocated(r) \union held =>
             (live'[o] # Freed <=> o \in Allocated(g) \union held')
  BY <1>1, <1>2, <1>3, <1>4, <1>5, <1>8
<1>11. \A o \in Allocated(g) \union held' : live[o] = Freed \/ o \in Allocated(r) \union held
  BY <1>2, <1>5, <1>8
<1>12. Allocated(g) \intersect held' = {}
  BY <1>1, <1>2, <1>5, <1>8
<1>13. \A i \in g.size + 1 .. Len(g.slots) : live'[g.slots[i]] = Empty
  BY <1>1, <1>8
<1>14. Inv' /\ Contents' = [Contents EXCEPT ![f] = Read(g, live')]
  BY <1>4, <1>5, <1>8, <1>9, <1>10, <1>11, <1>12, <1>13, FieldStep DEF r
<1>15. Read(g, live') = Append(Contents[f], v)
  <2> DEFINE c == Contents[f]
  <2>1. /\ Len(c) = k /\ c \in Seq(ObjectValues \union {Freed})
        /\ \A i \in 1 .. k : c[i] = live[r.slots[i]]
    BY ContentsOf, ContentsIsSeq DEF r, k
  <2> HIDE DEF c
  <2>2. Read(g, live') = [i \in 1 .. k + 1 |-> live'[g.slots[i]]]
    BY <1>8 DEF Read
  <2>3. Append(c, v) = [i \in 1 .. k + 1 |-> IF i = k + 1 THEN v ELSE c[i]]
    <3>1. c \in Seq(ObjectValues \union {Freed}) /\ v \in ObjectValues \union {Freed} /\ k \in Nat /\ Len(c) = k
      BY <1>1, <2>1
    <3>2. QED
      BY <3>1, AppendedValue
  <2>4. ASSUME NEW i \in 1 .. k + 1
        PROVE  live'[g.slots[i]] = IF i = k + 1 THEN v ELSE c[i]
    <3>1. CASE i = k + 1
      BY <1>2, <1>4, <1>8, <3>1
    <3>2. CASE i # k + 1
      <4>1. i \in 1 .. k /\ i \in 1 .. Len(r.slots)
        BY <1>1, <3>2
      <4>2. r.slots[i] # x /\ r.slots[i] \in Objects /\ g.slots[i] = r.slots[i]
        BY <1>1, <1>7, <1>8, <4>1
      <4>3. QED
        BY <1>4, <2>1, <3>2, <4>1, <4>2
    <3>3. QED
      BY <3>1, <3>2
  <2>5. QED
    BY <2>2, <2>3, <2>4 DEF c
<1>16. QED
  BY <1>14, <1>15 DEF Abstract!Put, Abstract!Set

LEMMA AddStep ==
    ASSUME PtrAssumption, Inv, NEW f \in Fields, Add(f)
    PROVE  Inv' /\ Abstract!Step
<1>1. PICK v \in ObjectValues :
         IF Cleared(fields[f]) > 0
         THEN /\ Update(f, Reuse(fields[f]))
              /\ Write({fields[f].slots[fields[f].size + 1]}, v)
              /\ UNCHANGED held
         ELSE /\ Free # {}
              /\ Update(f, Grow(fields[f], Fresh))
              /\ Write({Fresh}, v)
              /\ UNCHANGED held
  BY Zenon DEF Add
<1>2. CASE Cleared(fields[f]) > 0
  BY <1>1, <1>2, ReuseStep, Zenon DEF Abstract!Step
<1>3. CASE ~ (Cleared(fields[f]) > 0)
  <2>1. Cleared(fields[f]) = 0
    BY <1>3, Here DEF Cleared
  <2>2. QED
    BY <1>1, <1>3, <2>1, GrowStep, Zenon DEF Abstract!Step
<1>4. QED
  BY <1>2, <1>3

\* The field keeps its objects, and all go on existing.
LEMMA SameObjects ==
    ASSUME Inv, NEW f \in Fields, NEW g, Sound(g), Update(f, g), UNCHANGED held,
           Allocated(g) = Allocated(fields[f]),
           live' \in [Objects -> ObjectValues \union {Freed}],
           \A o \in Objects : o \notin Allocated(fields[f]) => live'[o] = live[o],
           \A o \in Allocated(fields[f]) : live'[o] # Freed,
           \A i \in g.size + 1 .. Len(g.slots) : live'[g.slots[i]] = Empty
    PROVE  Inv' /\ Contents' = [Contents EXCEPT ![f] = Read(g, live')]
<1> DEFINE r == fields[f]
<1>1. /\ held' = held /\ held' \in SUBSET Objects /\ \A o \in held : live[o] # Freed
      /\ Allocated(r) \subseteq Objects
      /\ Allocated(r) \intersect held = {}
      /\ \A o \in Allocated(r) : live[o] # Freed
  BY Types, Here
<1> HIDE DEF r
<1>2. \A o \in Objects : live[o] # Freed /\ o \notin Allocated(r) \union held => live'[o] = live[o]
  BY DEF r
<1>3. \A o \in Objects :
         live[o] = Freed \/ o \in Allocated(r) \union held =>
             (live'[o] # Freed <=> o \in Allocated(g) \union held')
  <2>1. /\ Allocated(g) = Allocated(r)
        /\ \A o \in Objects : o \notin Allocated(r) => live'[o] = live[o]
        /\ \A o \in Allocated(r) : live'[o] # Freed
    BY DEF r
  <2>2. QED
    BY <1>1, <2>1
<1>4. \A o \in Allocated(g) \union held' : live[o] = Freed \/ o \in Allocated(r) \union held
  BY <1>1 DEF r
<1>5. Allocated(g) \intersect held' = {}
  BY <1>1 DEF r
<1>6. QED
  BY <1>1, <1>2, <1>3, <1>4, <1>5, FieldStep DEF r

LEMMA MutateStep ==
    ASSUME PtrAssumption, Inv, NEW f \in Fields, Mutate(f)
    PROVE  Inv' /\ Abstract!Step
<1>1. PICK i \in 1 .. fields[f].size, v \in ObjectValues : Write({fields[f].slots[i]}, v)
  BY Zenon DEF Mutate
<1> DEFINE r == fields[f]
           k == r.size
           x == r.slots[i]
<1>2. /\ Sound(r) /\ r \in Array
      /\ r.slots \in Seq(Objects) /\ k \in Nat /\ Len(r.slots) \in Nat
      /\ k <= Len(r.slots)
      /\ \A j \in 1 .. Len(r.slots) : r.slots[j] \in Allocated(r)
      /\ \A j, l \in 1 .. Len(r.slots) : r.slots[j] = r.slots[l] => j = l
      /\ Allocated(r) \subseteq Objects
      /\ \A o \in Allocated(r) : live[o] # Freed
      /\ \A j \in k + 1 .. Len(r.slots) : live[r.slots[j]] = Empty
  BY Here
<1>3. v # Freed /\ v \in ObjectValues \union {Freed}
  BY DEF PtrAssumption
<1>4. /\ live' \in [Objects -> ObjectValues \union {Freed}]
      /\ \A o \in Objects : live'[o] = IF o \in {x} THEN v ELSE live[o]
  BY <1>1, <1>3, Writes
<1>5. Update(f, r) /\ UNCHANGED held
  BY Types DEF Mutate, Update
<1>6. i \in 1 .. k
  OBVIOUS
<1> HIDE DEF r, k
<1>7. i \in 1 .. Len(r.slots)
  BY <1>2, <1>6
<1> HIDE DEF x
<1>8. x \in Allocated(r)
  BY <1>2, <1>7 DEF x
<1>9. \A o \in Objects : o \notin Allocated(r) => live'[o] = live[o]
  BY <1>4, <1>8
<1>10. \A o \in Allocated(r) : live'[o] # Freed
  BY <1>2, <1>3, <1>4
<1>11. ASSUME NEW j \in k + 1 .. Len(r.slots)
       PROVE  live'[r.slots[j]] = Empty
  <2>1. j \in 1 .. Len(r.slots) /\ j # i
    BY <1>2, <1>6
  <2>2. r.slots[j] # x /\ r.slots[j] \in Objects
    BY <1>2, <1>7, <2>1 DEF x
  <2>3. QED
    BY <1>2, <1>4, <2>2
<1>12. Inv' /\ Contents' = [Contents EXCEPT ![f] = Read(r, live')]
  BY <1>2, <1>4, <1>5, <1>9, <1>10, <1>11, SameObjects DEF r, k
<1>13. Read(r, live') = [Contents[f] EXCEPT ![i] = v]
  <2> DEFINE c == Contents[f]
  <2>1. /\ DOMAIN c = 1 .. k /\ c = [j \in 1 .. k |-> live[r.slots[j]]]
        /\ \A j \in 1 .. k : c[j] = live[r.slots[j]]
    BY ContentsOf DEF r, k, Read
  <2> HIDE DEF c
  <2>2. Read(r, live') = [j \in 1 .. k |-> live'[r.slots[j]]]
    BY DEF Read, k
  <2>3. [c EXCEPT ![i] = v] = [j \in 1 .. k |-> IF j = i THEN v ELSE c[j]]
    BY <1>6, <2>1
  <2>4. ASSUME NEW j \in 1 .. k
        PROVE  live'[r.slots[j]] = IF j = i THEN v ELSE c[j]
    <3>1. j \in 1 .. Len(r.slots) /\ r.slots[j] \in Objects
      BY <1>2
    <3>2. CASE j = i
      BY <1>4, <3>1, <3>2 DEF x
    <3>3. CASE j # i
      <4>1. r.slots[j] # x
        BY <1>2, <1>7, <3>1, <3>3 DEF x
      <4>2. QED
        BY <1>4, <2>1, <3>1, <3>3, <4>1
    <3>4. QED
      BY <3>2, <3>3
  <2>5. QED
    BY <2>2, <2>3, <2>4 DEF c
<1>14. Abstract!Overwrite(f, i, v)
  BY <1>12, <1>13 DEF Abstract!Overwrite, Abstract!Set
<1>15. i \in DOMAIN Contents[f]
  BY <1>6, ContentsOf DEF r, k
<1>16. QED
  BY <1>12, <1>14, <1>15, Zenon DEF Abstract!Step

LEMMA ShortenedValue ==
    ASSUME NEW S, NEW c \in Seq(S), NEW k \in Nat \ {0}, Len(c) = k
    PROVE  c # <<>> /\ SubSeq(c, 1, Len(c) - 1) = [i \in 1 .. k - 1 |-> c[i]]
<1>1. c # <<>>
  OBVIOUS
<1>2. \A i \in 1 .. k - 1 : c[i] \in S
  OBVIOUS
<1> DEFINE a == SubSeq(c, 1, k - 1)
<1>3. /\ a \in Seq(S) /\ Len(a) = k - 1
      /\ \A i \in 1 .. k - 1 : a[i] = c[i]
  BY <1>2, SubSeqProperties
<1> HIDE DEF a
<1>4. a = [i \in 1 .. k - 1 |-> c[i]]
  BY <1>3
<1>5. QED
  BY <1>1, <1>4 DEF a

LEMMA RemoveLastStep ==
    ASSUME PtrAssumption, Inv, NEW f \in Fields, RemoveLast(f)
    PROVE  Inv' /\ Abstract!Step
<1> DEFINE r == fields[f]
           k == r.size
           x == r.slots[k]
           g == [r EXCEPT !.size = k - 1]
<1>1. /\ Sound(r) /\ r \in Array
      /\ r.slots \in Seq(Objects) /\ k \in Nat /\ Len(r.slots) \in Nat
      /\ k <= Len(r.slots)
      /\ \A j \in 1 .. Len(r.slots) : r.slots[j] \in Allocated(r)
      /\ \A j, l \in 1 .. Len(r.slots) : r.slots[j] = r.slots[l] => j = l
      /\ Allocated(r) \subseteq Objects
      /\ \A o \in Allocated(r) : live[o] # Freed
      /\ \A j \in k + 1 .. Len(r.slots) : live[r.slots[j]] = Empty
  BY Here
<1>2. k > 0 /\ Update(f, g) /\ Write({x}, Empty) /\ UNCHANGED held
  BY DEF RemoveLast, LastCleared
<1>3. Empty # Freed /\ Empty \in ObjectValues \union {Freed}
  BY DEF PtrAssumption
<1>4. /\ live' \in [Objects -> ObjectValues \union {Freed}]
      /\ \A o \in Objects : live'[o] = IF o \in {x} THEN Empty ELSE live[o]
  BY <1>2, <1>3, Writes
<1> HIDE DEF r, k
<1>5. k \in 1 .. Len(r.slots) /\ k - 1 \in Nat /\ k - 1 <= Len(r.slots) /\ k \in Nat \ {0}
  BY <1>1, <1>2
<1>6. /\ Sound(g) /\ g.slots = r.slots /\ g.size = k - 1 /\ Allocated(g) = Allocated(r)
  BY <1>1, <1>5, Resized
<1> HIDE DEF x, g
<1>7. x \in Allocated(r)
  BY <1>1, <1>5 DEF x
<1>8. \A o \in Objects : o \notin Allocated(r) => live'[o] = live[o]
  BY <1>4, <1>7
<1>9. \A o \in Allocated(r) : live'[o] # Freed
  BY <1>1, <1>3, <1>4
<1>10. \A j \in g.size + 1 .. Len(g.slots) : live'[g.slots[j]] = Empty
  <2> SUFFICES ASSUME NEW j \in k .. Len(r.slots)
               PROVE  live'[r.slots[j]] = Empty
    BY <1>1, <1>6
  <2>1. j \in 1 .. Len(r.slots) /\ (j = k \/ j \in k + 1 .. Len(r.slots))
    BY <1>1, <1>5
  <2>2. r.slots[j] \in Objects
    BY <1>1, <2>1
  <2>3. QED
    BY <1>1, <1>4, <2>1, <2>2 DEF x
<1>11. Inv' /\ Contents' = [Contents EXCEPT ![f] = Read(g, live')]
  BY <1>2, <1>4, <1>6, <1>8, <1>9, <1>10, SameObjects DEF r
<1>12. Contents[f] # <<>> /\ Read(g, live') = SubSeq(Contents[f], 1, Len(Contents[f]) - 1)
  <2> DEFINE c == Contents[f]
  <2>1. /\ Len(c) = k /\ c \in Seq(ObjectValues \union {Freed})
        /\ \A i \in 1 .. k : c[i] = live[r.slots[i]]
    BY ContentsOf, ContentsIsSeq DEF r, k
  <2> HIDE DEF c
  <2>2. Read(g, live') = [i \in 1 .. k - 1 |-> live'[r.slots[i]]]
    BY <1>6 DEF Read
  <2>3. c # <<>> /\ SubSeq(c, 1, Len(c) - 1) = [i \in 1 .. k - 1 |-> c[i]]
    BY <1>5, <2>1, ShortenedValue
  <2>4. ASSUME NEW i \in 1 .. k - 1
        PROVE  live'[r.slots[i]] = c[i]
    <3>1. i \in 1 .. Len(r.slots) /\ i # k /\ i \in 1 .. k
      BY <1>1
    <3>2. r.slots[i] \in Objects /\ r.slots[i] # x
      BY <1>1, <1>5, <3>1 DEF x
    <3>3. QED
      BY <1>4, <2>1, <3>1, <3>2
  <2>5. QED
    BY <2>2, <2>3, <2>4 DEF c
<1>13. Abstract!DropLast(f)
  BY <1>11, <1>12 DEF Abstract!DropLast, Abstract!Set
<1>14. QED
  BY <1>11, <1>13, Zenon DEF Abstract!Step

LEMMA NothingRead ==
    ASSUME NEW g, NEW L, g.size = 0
    PROVE  Read(g, L) = <<>>
BY DEF Read

LEMMA ClearStep ==
    ASSUME PtrAssumption, Inv, NEW f \in Fields, Clear(f)
    PROVE  Inv' /\ Abstract!Step
<1> DEFINE r == fields[f]
           k == r.size
           g == [r EXCEPT !.size = 0]
           used == InUse(r)
<1>1. /\ Sound(r) /\ r \in Array
      /\ r.slots \in Seq(Objects) /\ k \in Nat /\ Len(r.slots) \in Nat
      /\ k <= Len(r.slots)
      /\ \A j \in 1 .. Len(r.slots) : r.slots[j] \in Allocated(r)
      /\ Allocated(r) \subseteq Objects
      /\ \A o \in Allocated(r) : live[o] # Freed
      /\ \A j \in k + 1 .. Len(r.slots) : live[r.slots[j]] = Empty
  BY Here
<1>2. Update(f, g) /\ Write(used, Empty) /\ UNCHANGED held
  BY DEF Clear
<1>3. Empty # Freed /\ Empty \in ObjectValues \union {Freed}
  BY DEF PtrAssumption
<1>4. /\ live' \in [Objects -> ObjectValues \union {Freed}]
      /\ \A o \in Objects : live'[o] = IF o \in used THEN Empty ELSE live[o]
  BY <1>2, <1>3, Writes
<1>5. used = {r.slots[i] : i \in 1 .. k}
  BY DEF InUse
<1> HIDE DEF r, k, used
<1>6. 0 \in Nat /\ 0 <= Len(r.slots)
  BY <1>1
<1>7. /\ Sound(g) /\ g.slots = r.slots /\ g.size = 0 /\ Allocated(g) = Allocated(r)
  BY <1>1, <1>6, Resized
<1> HIDE DEF g
<1>8. used \subseteq Allocated(r)
  <2>1. \A i \in 1 .. k : i \in 1 .. Len(r.slots)
    BY <1>1
  <2>2. QED
    BY <1>1, <1>5, <2>1
<1>9. \A o \in Objects : o \notin Allocated(r) => live'[o] = live[o]
  BY <1>4, <1>8
<1>10. \A o \in Allocated(r) : live'[o] # Freed
  BY <1>1, <1>3, <1>4
<1>11. \A j \in g.size + 1 .. Len(g.slots) : live'[g.slots[j]] = Empty
  <2> SUFFICES ASSUME NEW j \in 1 .. Len(r.slots)
               PROVE  live'[r.slots[j]] = Empty
    BY <1>1, <1>7
  <2>1. r.slots[j] \in Objects /\ (r.slots[j] \in used \/ j \in k + 1 .. Len(r.slots))
    BY <1>1, <1>5
  <2>2. QED
    BY <1>1, <1>4, <2>1
<1>12. Inv' /\ Contents' = [Contents EXCEPT ![f] = Read(g, live')]
  BY <1>2, <1>4, <1>7, <1>9, <1>10, <1>11, SameObjects DEF r
<1>13. Abstract!Set(f, <<>>)
  BY <1>7, <1>12, NothingRead DEF Abstract!Set
<1>14. QED
  BY <1>12, <1>13, Zenon DEF Abstract!Step

LEMMA SwapElementsStep ==
    ASSUME PtrAssumption, Inv, NEW f \in Fields, SwapElements(f)
    PROVE  Inv' /\ Abstract!Step
<1> DEFINE r == fields[f]
           k == r.size
<1>1. PICK i \in 1 .. k, j \in 1 .. k :
         Update(f, [r EXCEPT !.slots[i] = r.slots[j], !.slots[j] = r.slots[i]])
  BY Zenon DEF SwapElements
<1>2. UNCHANGED <<live, held>>
  BY DEF SwapElements
<1>3. /\ Sound(r) /\ r \in Array /\ Distinct(r.slots)
      /\ r.slots \in Seq(Objects) /\ k \in Nat /\ Len(r.slots) \in Nat
      /\ k <= Len(r.slots) /\ Len(r.slots) <= r.total /\ r.total \in Nat
      /\ DOMAIN r.slots = 1 .. Len(r.slots)
      /\ Allocated(r) = In(r.slots)
      /\ \A o \in Allocated(r) : live[o] # Freed
      /\ \A l \in k + 1 .. Len(r.slots) : live[r.slots[l]] = Empty
  BY Here, FieldParts DEF Sound
<1> DEFINE a == r.slots
           s == Exchange(a, i, j)
           g == Remade(r, s, k)
<1>4. [r EXCEPT !.slots[i] = r.slots[j], !.slots[j] = r.slots[i]] = g
  BY <1>3 DEF Remade, Exchange, Array
<1>5. Update(f, g)
  BY <1>1, <1>4, Zenon
<1>6. i \in 1 .. k /\ j \in 1 .. k
  OBVIOUS
<1> HIDE DEF k, a
<1>7. a \in Seq(Objects) /\ i \in 1 .. Len(a) /\ j \in 1 .. Len(a) /\ Distinct(a)
  BY <1>3, <1>6 DEF a
<1>8. /\ s \in Seq(Objects) /\ Len(s) = Len(a)
      /\ \A l \in 1 .. Len(a) :
            s[l] = IF l = j THEN a[i] ELSE IF l = i THEN a[j] ELSE a[l]
      /\ In(s) = In(a)
      /\ Distinct(s)
  BY <1>7, Exchanged
<1> HIDE DEF s, r, g
<1>9. k <= Len(s) /\ Len(s) <= r.total
  BY <1>3, <1>8 DEF a
<1>10. Sound(g) /\ g.slots = s /\ g.size = k /\ Allocated(g) = In(s)
  BY <1>3, <1>8, <1>9, Assembled DEF g
<1>11. Allocated(g) = Allocated(r)
  BY <1>3, <1>8, <1>10 DEF a
<1>12. \A l \in g.size + 1 .. Len(g.slots) : live'[g.slots[l]] = Empty
  <2> SUFFICES ASSUME NEW l \in k + 1 .. Len(a)
               PROVE  live[s[l]] = Empty
    BY <1>2, <1>8, <1>10
  <2>1. l \in 1 .. Len(a) /\ l # i /\ l # j
    BY <1>3, <1>6
  <2>2. s[l] = a[l]
    BY <1>8, <2>1
  <2>3. QED
    BY <1>3, <2>2 DEF a
<1>13. live' \in [Objects -> ObjectValues \union {Freed}]
  BY <1>2, Types
<1>14. Inv' /\ Contents' = [Contents EXCEPT ![f] = Read(g, live')]
  <2>1. /\ \A o \in Objects : o \notin Allocated(r) => live'[o] = live[o]
        /\ \A o \in Allocated(r) : live'[o] # Freed
    BY <1>2, <1>3
  <2>2. QED
    BY <1>2, <1>5, <1>10, <1>11, <1>12, <1>13, <2>1, SameObjects DEF r
<1>15. Read(g, live') = [Contents[f] EXCEPT ![i] = Contents[f][j], ![j] = Contents[f][i]]
  <2> DEFINE c == Contents[f]
  <2>1. /\ DOMAIN c = 1 .. k /\ c = [l \in 1 .. k |-> live[a[l]]]
        /\ \A l \in 1 .. k : c[l] = live[a[l]]
    BY ContentsOf DEF r, k, a, Read
  <2> HIDE DEF c
  <2>2. Read(g, live') = [l \in 1 .. k |-> live[s[l]]]
    BY <1>2, <1>10 DEF Read
  <2>3. [c EXCEPT ![i] = c[j], ![j] = c[i]]
          = [l \in 1 .. k |-> IF l = j THEN c[i] ELSE IF l = i THEN c[j] ELSE c[l]]
    BY <1>6, <2>1
  <2>4. ASSUME NEW l \in 1 .. k
        PROVE  live[s[l]] = IF l = j THEN c[i] ELSE IF l = i THEN c[j] ELSE c[l]
    <3>1. l \in 1 .. Len(a)
      BY <1>3 DEF a
    <3>2. QED
      BY <1>6, <1>8, <2>1, <3>1
  <2>5. QED
    BY <2>2, <2>3, <2>4 DEF c
<1>16. Abstract!Exchange(f, i, j)
  BY <1>14, <1>15 DEF Abstract!Exchange, Abstract!Set
<1>17. i \in DOMAIN Contents[f] /\ j \in DOMAIN Contents[f]
  BY <1>6, ContentsOf DEF k, r
<1>18. QED
  BY <1>14, <1>16, <1>17, Zenon DEF Abstract!Step

LEMMA ReserveStep ==
    ASSUME PtrAssumption, Inv, NEW f \in Fields, Reserve(f)
    PROVE  Inv' /\ UNCHANGED Contents
<1> DEFINE r == fields[f]
<1>1. PICK n \in 1 .. MaxTotal : Update(f, Reserved(r, n))
  BY Zenon DEF Reserve
<1>2. UNCHANGED <<live, held>> /\ n \in Nat
  BY DEF Reserve, PtrAssumption
<1> DEFINE g == Reserved(r, n)
<1>3. /\ Sound(r) /\ r \in Array
      /\ Len(r.slots) \in Nat /\ r.total \in Nat
      /\ \A o \in Allocated(r) : live[o] # Freed
      /\ \A l \in r.size + 1 .. Len(r.slots) : live[r.slots[l]] = Empty
  BY Here, FieldParts
<1> HIDE DEF r
<1>4. /\ g \in Array
      /\ g.slots = r.slots /\ g.size = r.size
      /\ g.total >= r.total
  BY <1>2, <1>3, ReserveGrows
<1>5. Update(f, g)
  BY <1>1
<1> HIDE DEF g
<1>6. Sound(g) /\ Allocated(g) = Allocated(r)
  BY <1>3, <1>4, FieldParts DEF Sound, Allocated
<1>7. \A l \in g.size + 1 .. Len(g.slots) : live'[g.slots[l]] = Empty
  BY <1>2, <1>3, <1>4
<1>8. /\ live' \in [Objects -> ObjectValues \union {Freed}]
      /\ \A o \in Objects : o \notin Allocated(r) => live'[o] = live[o]
      /\ \A o \in Allocated(r) : live'[o] # Freed
  BY <1>2, <1>3, Types
<1>9. Inv' /\ Contents' = [Contents EXCEPT ![f] = Read(g, live')]
  BY <1>2, <1>5, <1>6, <1>7, <1>8, SameObjects DEF r
<1>10. Read(g, live') = Contents[f]
  BY <1>2, <1>4, ContentsOf DEF Read, r
<1>11. QED
  BY <1>9, <1>10, ContentsIsSeq

LEMMA DestroyStep ==
    ASSUME PtrAssumption, Inv, NEW f \in Fields, Destroy(f)
    PROVE  Inv' /\ Abstract!Step
<1> DEFINE r == fields[f]
           g == NoElements
           all == Allocated(r)
<1>1. Write(all, Freed) /\ Update(f, g) /\ UNCHANGED held
  BY DEF Destroy
<1>2. /\ Allocated(r) \intersect held = {}
      /\ Allocated(r) \subseteq Objects
  BY Here
<1>3. /\ live' \in [Objects -> ObjectValues \union {Freed}]
      /\ \A o \in Objects : live'[o] = IF o \in all THEN Freed ELSE live[o]
  BY <1>1, Writes
<1>4. Sound(g) /\ Allocated(g) = {} /\ g.size = 0 /\ Len(g.slots) = 0
  <2>1. g \in Array
    BY DEF NoElements, Array
  <2>2. Allocated(g) = {} /\ Distinct(g.slots)
    BY DEF NoElements, Allocated, Distinct
  <2>3. QED
    BY <2>1, <2>2 DEF Sound, NoElements
<1>5. held' \in SUBSET Objects /\ held' = held /\ \A o \in held : live[o] # Freed
  BY <1>1, Types
<1> HIDE DEF r, g
<1>6. \A o \in Objects : live[o] # Freed /\ o \notin Allocated(r) \union held => live'[o] = live[o]
  BY <1>3
<1>7. \A o \in Objects :
         live[o] = Freed \/ o \in Allocated(r) \union held =>
             (live'[o] # Freed <=> o \in Allocated(g) \union held')
  BY <1>2, <1>3, <1>4, <1>5
<1>8. /\ \A o \in Allocated(g) \union held' : live[o] = Freed \/ o \in Allocated(r) \union held
      /\ Allocated(g) \intersect held' = {}
      /\ \A l \in g.size + 1 .. Len(g.slots) : live'[g.slots[l]] = Empty
  BY <1>4, <1>5
<1>9. Inv' /\ Contents' = [Contents EXCEPT ![f] = Read(g, live')]
  BY <1>1, <1>3, <1>4, <1>5, <1>6, <1>7, <1>8, FieldStep DEF r
<1>10. Abstract!Set(f, <<>>)
  BY <1>4, <1>9, NothingRead DEF Abstract!Set
<1>11. QED
  BY <1>9, <1>10, Zenon DEF Abstract!Step

\* Objects change hands between the field and the caller.
LEMMA HandedOver ==
    ASSUME Inv, NEW f \in Fields, NEW g, Sound(g), Update(f, g), UNCHANGED live,
           Allocated(g) \union held' = Allocated(fields[f]) \union held,
           Allocated(g) \intersect held' = {},
           \A i \in g.size + 1 .. Len(g.slots) : live[g.slots[i]] = Empty
    PROVE  Inv' /\ Contents' = [Contents EXCEPT ![f] = Read(g, live)]
<1> DEFINE r == fields[f]
<1>1. /\ live' \in [Objects -> ObjectValues \union {Freed}] /\ live' = live
      /\ held \in SUBSET Objects
      /\ \A o \in held : live[o] # Freed
  BY Types
<1>2. /\ Allocated(r) \subseteq Objects
      /\ \A o \in Allocated(r) : live[o] # Freed
  BY Here
<1>3. Allocated(g) \union held' = Allocated(r) \union held
  OBVIOUS
<1> HIDE DEF r
<1>4. held' \in SUBSET Objects
  BY <1>1, <1>2, <1>3
<1>5. \A o \in Objects : live[o] # Freed /\ o \notin Allocated(r) \union held => live'[o] = live[o]
  BY <1>1
<1>6. \A o \in Objects :
         live[o] = Freed \/ o \in Allocated(r) \union held =>
             (live'[o] # Freed <=> o \in Allocated(g) \union held')
  BY <1>1, <1>2, <1>3
<1>7. \A o \in Allocated(g) \union held' : live[o] = Freed \/ o \in Allocated(r) \union held
  BY <1>3
<1>8. \A i \in g.size + 1 .. Len(g.slots) : live'[g.slots[i]] = Empty
  BY <1>1
<1>9. Inv' /\ Contents' = [Contents EXCEPT ![f] = Read(g, live')]
  BY <1>1, <1>4, <1>5, <1>6, <1>7, <1>8, FieldStep DEF r
<1>10. QED
  BY <1>1, <1>9

LEMMA ReleaseClearedStep ==
    ASSUME Inv, NEW f \in Fields, ReleaseCleared(f)
    PROVE  Inv' /\ UNCHANGED Contents
<1> DEFINE r == fields[f]
           k == r.size
           a == r.slots
           n == Len(a)
           s == SubSeq(a, 1, n - 1)
           g == Remade(r, s, k)
           x == a[n]
<1>1. /\ Sound(r) /\ r \in Array /\ Distinct(a)
      /\ a \in Seq(Objects) /\ k \in Nat /\ n \in Nat
      /\ k <= n /\ n <= r.total /\ r.total \in Nat
      /\ Allocated(r) = In(a)
      /\ Allocated(r) \intersect held = {}
      /\ \A l \in k + 1 .. n : live[a[l]] = Empty
  BY Here, FieldParts DEF Sound
<1>2. /\ Cleared(r) > 0 /\ Update(f, [r EXCEPT !.slots = s]) /\ UNCHANGED live
      /\ held' = held \union {x}
  BY DEF ReleaseCleared
<1>3. [r EXCEPT !.slots = s] = g
  BY <1>1 DEF Remade, Array
<1>4. Update(f, g) /\ n > k
  BY <1>1, <1>2, <1>3 DEF Cleared
<1>5. a # <<>>
  BY <1>1, <1>4
<1> HIDE DEF a
<1>6. /\ s \in Seq(Objects) /\ Len(s) = n - 1 /\ Distinct(s)
      /\ \A l \in 1 .. n - 1 : s[l] = a[l]
      /\ In(s) = In(a) \ {x}
      /\ n \in DOMAIN a
  BY <1>1, <1>5, Shortened
<1>7. x \in In(a)
  BY <1>6 DEF In
<1> HIDE DEF s, n, k, r, x
<1>8. k <= Len(s) /\ Len(s) <= r.total
  BY <1>1, <1>4, <1>6
<1>9. Sound(g) /\ g.slots = s /\ g.size = k /\ Allocated(g) = In(s)
  BY <1>1, <1>6, <1>8, Assembled
<1> HIDE DEF g
<1>10. /\ Allocated(g) \union held' = Allocated(r) \union held
       /\ Allocated(g) \intersect held' = {}
  BY <1>1, <1>2, <1>6, <1>7, <1>9
<1>11. \A l \in g.size + 1 .. Len(g.slots) : live[g.slots[l]] = Empty
  <2>1. \A l \in k + 1 .. n - 1 : l \in k + 1 .. n /\ l \in 1 .. n - 1
    BY <1>1
  <2>2. QED
    BY <1>1, <1>6, <1>9, <2>1
<1>12. Inv' /\ Contents' = [Contents EXCEPT ![f] = Read(g, live)]
  BY <1>2, <1>4, <1>9, <1>10, <1>11, HandedOver DEF r
<1>13. Read(g, live) = Contents[f]
  <2>1. Contents[f] = [l \in 1 .. k |-> live[a[l]]]
    BY ContentsOf DEF Read, r, k, a
  <2>2. \A l \in 1 .. k : s[l] = a[l]
    BY <1>1, <1>4, <1>6
  <2>3. QED
    BY <1>9, <2>1, <2>2 DEF Read
<1>14. QED
  BY <1>12, <1>13, ContentsIsSeq

LEMMA AddClearedStep ==
    ASSUME PtrAssumption, Inv, NEW f \in Fields, AddCleared(f)
    PROVE  Inv' /\ UNCHANGED Contents
<1> DEFINE r == fields[f]
           k == r.size
           a == r.slots
           n == Len(a)
           room == Room(r)
<1>1. PICK x \in held :
         live[x] = Empty /\ Update(f, [room EXCEPT !.slots = Append(@, x)]) /\ held' = held \ {x}
  BY Zenon DEF AddCleared
<1> DEFINE s == Append(a, x)
           g == Remade(room, s, k)
<1>2. /\ Sound(r) /\ r \in Array /\ Distinct(a)
      /\ a \in Seq(Objects) /\ k \in Nat /\ n \in Nat
      /\ k <= n /\ n <= r.total /\ r.total \in Nat
      /\ Allocated(r) = In(a)
      /\ Allocated(r) \intersect held = {}
      /\ \A l \in k + 1 .. n : live[a[l]] = Empty
  BY Here, FieldParts DEF Sound
<1>3. x \in Objects /\ UNCHANGED live
  BY Types DEF AddCleared
<1>4. room \in Array /\ room.slots = a /\ room.size = k /\ room.total >= n + 1
  BY <1>2, RoomForOne
<1>5. [room EXCEPT !.slots = Append(@, x)] = g
  BY <1>4 DEF Remade, Array
<1>6. Update(f, g)
  BY <1>1, <1>5, Zenon
<1> HIDE DEF a, room, g, r, k
<1>7. x \notin In(a)
  BY <1>1, <1>2
<1>8. /\ s \in Seq(Objects) /\ Len(s) = n + 1 /\ Distinct(s)
      /\ \A l \in 1 .. n : s[l] = a[l]
      /\ s[n + 1] = x
      /\ In(s) = In(a) \union {x}
  BY <1>2, <1>3, <1>7, Appended
<1> HIDE DEF s, n
<1>9. k <= Len(s) /\ Len(s) <= room.total
  BY <1>2, <1>4, <1>8 DEF Array
<1>10. Sound(g) /\ g.slots = s /\ g.size = k /\ Allocated(g) = In(s)
  BY <1>2, <1>4, <1>8, <1>9, Assembled DEF g
<1>11. /\ Allocated(g) \union held' = Allocated(r) \union held
       /\ Allocated(g) \intersect held' = {}
  BY <1>1, <1>2, <1>8, <1>10
<1>12. \A l \in g.size + 1 .. Len(g.slots) : live[g.slots[l]] = Empty
  <2> SUFFICES ASSUME NEW l \in k + 1 .. n + 1 PROVE live[s[l]] = Empty
    BY <1>8, <1>10
  <2>1. l = n + 1 \/ (l \in k + 1 .. n /\ l \in 1 .. n)
    BY <1>2
  <2>2. QED
    BY <1>1, <1>2, <1>8, <2>1
<1>13. Inv' /\ Contents' = [Contents EXCEPT ![f] = Read(g, live)]
  BY <1>3, <1>6, <1>10, <1>11, <1>12, HandedOver DEF r
<1>14. Read(g, live) = Contents[f]
  <2>1. Contents[f] = [l \in 1 .. k |-> live[a[l]]]
    BY ContentsOf DEF Read, r, k, a
  <2>2. \A l \in 1 .. k : s[l] = a[l]
    BY <1>2, <1>8
  <2>3. QED
    BY <1>10, <2>1, <2>2 DEF Read
<1>15. QED
  BY <1>13, <1>14, ContentsIsSeq

LEMMA ReleaseLastStep ==
    ASSUME Inv, NEW f \in Fields, ReleaseLast(f)
    PROVE  Inv' /\ Abstract!Step
<1> DEFINE r == fields[f]
           k == r.size
           g == TakeLast(r)
           x == r.slots[k]
<1>1. /\ Sound(r)
      /\ r.slots \in Seq(Objects) /\ k \in Nat /\ Len(r.slots) \in Nat
      /\ k <= Len(r.slots)
      /\ \A i \in 1 .. Len(r.slots) : r.slots[i] \in Allocated(r)
      /\ Allocated(r) \intersect held = {}
      /\ \A l \in k + 1 .. Len(r.slots) : live[r.slots[l]] = Empty
  BY Here
<1>2. k > 0 /\ Update(f, g) /\ UNCHANGED live /\ held' = held \union {x}
  BY DEF ReleaseLast
<1> HIDE DEF r
<1>3. /\ Sound(g) /\ g.size = k - 1
      /\ \A i \in 1 .. k - 1 : g.slots[i] = r.slots[i]
      /\ Allocated(g) = Allocated(r) \ {x}
      /\ SparesKept(r, g)
  BY <1>1, <1>2, TakeLastRemoves
<1>4. x \in Allocated(r)
  BY <1>1, <1>2
<1> HIDE DEF g, x
<1>5. /\ Allocated(g) \union held' = Allocated(r) \union held
      /\ Allocated(g) \intersect held' = {}
  BY <1>1, <1>2, <1>3, <1>4
<1>6. \A l \in g.size + 1 .. Len(g.slots) : live[g.slots[l]] = Empty
  BY <1>1, <1>3 DEF SparesKept
<1>7. Inv' /\ Contents' = [Contents EXCEPT ![f] = Read(g, live)]
  BY <1>2, <1>3, <1>5, <1>6, HandedOver DEF r
<1>8. Contents[f] # <<>> /\ Read(g, live) = SubSeq(Contents[f], 1, Len(Contents[f]) - 1)
  <2> DEFINE c == Contents[f]
  <2>1. /\ Len(c) = k /\ c \in Seq(ObjectValues \union {Freed})
        /\ \A i \in 1 .. k : c[i] = live[r.slots[i]]
    BY ContentsOf, ContentsIsSeq DEF r
  <2> HIDE DEF c, k
  <2>2. Read(g, live) = [i \in 1 .. k - 1 |-> live[g.slots[i]]]
    BY <1>3 DEF Read
  <2>3. c # <<>> /\ SubSeq(c, 1, Len(c) - 1) = [i \in 1 .. k - 1 |-> c[i]]
    <3>1. k \in Nat \ {0}
      BY <1>1, <1>2
    <3>2. QED
      BY <2>1, <3>1, ShortenedValue
  <2>4. \A i \in 1 .. k - 1 : live[g.slots[i]] = c[i]
    <3>1. \A i \in 1 .. k - 1 : i \in 1 .. k
      BY <1>1
    <3>2. QED
      BY <1>3, <2>1, <3>1
  <2>5. QED
    BY <2>2, <2>3, <2>4 DEF c
<1>9. Abstract!DropLast(f)
  BY <1>7, <1>8 DEF Abstract!DropLast, Abstract!Set
<1>10. QED
  BY <1>7, <1>9, Zenon DEF Abstract!Step

LEMMA AddAllocatedStep ==
    ASSUME PtrAssumption, Inv, NEW f \in Fields, AddAllocated(f)
    PROVE  Inv' /\ Abstract!Step
<1> DEFINE r == fields[f]
           k == r.size
<1>1. PICK x \in held :
         /\ Update(f, Place(r, x).field) /\ Write(Place(r, x).deleted, Freed)
         /\ held' = held \ {x}
  BY Zenon DEF AddAllocated
<1> DEFINE g == Place(r, x).field
           deleted == Place(r, x).deleted
<1>2. /\ Sound(r)
      /\ r.slots \in Seq(Objects) /\ k \in Nat /\ Len(r.slots) \in Nat
      /\ k <= Len(r.slots)
      /\ \A i \in 1 .. Len(r.slots) : r.slots[i] \in Allocated(r)
      /\ Allocated(r) \subseteq Objects
      /\ Allocated(r) \intersect held = {}
      /\ \A o \in Allocated(r) : live[o] # Freed
      /\ \A l \in k + 1 .. Len(r.slots) : live[r.slots[l]] = Empty
  BY Here
<1>3. x \in Objects /\ live[x] # Freed /\ live[x] \in ObjectValues
  BY Types
<1> HIDE DEF r
<1>4. x \notin Allocated(r)
  BY <1>2
<1>5. /\ Sound(g) /\ g.size = k + 1
      /\ \A i \in 1 .. k : g.slots[i] = r.slots[i]
      /\ g.slots[k + 1] = x
      /\ deleted \subseteq Allocated(r)
      /\ Allocated(g) = (Allocated(r) \ deleted) \union {x}
      /\ \A i \in 1 .. k : r.slots[i] \notin deleted
      /\ SparesKept(r, g)
  BY <1>2, <1>3, <1>4, PlaceAdds
<1>6. /\ live' \in [Objects -> ObjectValues \union {Freed}]
      /\ \A o \in Objects : live'[o] = IF o \in deleted THEN Freed ELSE live[o]
  BY <1>1, Writes
<1>7. /\ Update(f, g) /\ held' = held \ {x} /\ held' \in SUBSET Objects
      /\ \A o \in held : live[o] # Freed
  BY <1>1, Types
<1> HIDE DEF g, deleted, k
<1>8. \A o \in Objects : live[o] # Freed /\ o \notin Allocated(r) \union held => live'[o] = live[o]
  BY <1>5, <1>6
<1>9. \A o \in Objects :
         live[o] = Freed \/ o \in Allocated(r) \union held =>
             (live'[o] # Freed <=> o \in Allocated(g) \union held')
  BY <1>2, <1>3, <1>4, <1>5, <1>6, <1>7
<1>10. \A o \in Allocated(g) \union held' : live[o] = Freed \/ o \in Allocated(r) \union held
  BY <1>5, <1>7
<1>11. Allocated(g) \intersect held' = {}
  BY <1>2, <1>5, <1>7
<1>12. ASSUME NEW i \in g.size + 1 .. Len(g.slots)
       PROVE  live'[g.slots[i]] = Empty
  <2>1. PICK j \in k + 1 .. Len(r.slots) : g.slots[i] = r.slots[j]
    BY <1>5 DEF SparesKept, k
  <2>2. j \in 1 .. Len(r.slots)
    BY <1>2, <2>1
  <2>3. r.slots[j] \in Allocated(r) /\ live[r.slots[j]] = Empty /\ r.slots[j] \in Objects
    BY <1>2, <2>2
  <2>4. g.slots[i] \in Allocated(g)
    <3>1. g \in Array /\ i \in 1 .. Len(g.slots)
      BY <1>2, <1>5, FieldParts DEF Sound
    <3>2. QED
      BY <3>1, FieldParts DEF In
  <2>5. r.slots[j] \notin deleted
    BY <1>4, <1>5, <2>1, <2>3, <2>4
  <2>6. QED
    BY <1>6, <2>1, <2>3, <2>5
<1>13. Inv' /\ Contents' = [Contents EXCEPT ![f] = Read(g, live')]
  BY <1>5, <1>6, <1>7, <1>8, <1>9, <1>10, <1>11, <1>12, FieldStep DEF r
<1>14. Read(g, live') = Append(Contents[f], live[x])
  <2> DEFINE c == Contents[f]
             v == live[x]
  <2>1. /\ Len(c) = k /\ c \in Seq(ObjectValues \union {Freed})
        /\ \A i \in 1 .. k : c[i] = live[r.slots[i]]
    BY ContentsOf, ContentsIsSeq DEF r, k
  <2> HIDE DEF c
  <2>2. Read(g, live') = [i \in 1 .. k + 1 |-> live'[g.slots[i]]]
    BY <1>5 DEF Read
  <2>3. Append(c, v) = [i \in 1 .. k + 1 |-> IF i = k + 1 THEN v ELSE c[i]]
    <3>1. c \in Seq(ObjectValues \union {Freed}) /\ v \in ObjectValues \union {Freed} /\ k \in Nat /\ Len(c) = k
      BY <1>2, <1>3, <2>1
    <3>2. QED
      BY <3>1, AppendedValue
  <2>4. ASSUME NEW i \in 1 .. k + 1
        PROVE  live'[g.slots[i]] = IF i = k + 1 THEN v ELSE c[i]
    <3>1. CASE i = k + 1
      BY <1>3, <1>4, <1>5, <1>6, <3>1
    <3>2. CASE i # k + 1
      <4>1. i \in 1 .. k /\ i \in 1 .. Len(r.slots)
        BY <1>2, <3>2
      <4>2. r.slots[i] \notin deleted /\ r.slots[i] \in Objects /\ g.slots[i] = r.slots[i]
        BY <1>2, <1>5, <4>1
      <4>3. QED
        BY <1>6, <2>1, <3>2, <4>1, <4>2
    <3>3. QED
      BY <3>1, <3>2
  <2>5. QED
    BY <2>2, <2>3, <2>4 DEF c
<1>15. Abstract!Put(f, live[x])
  BY <1>13, <1>14 DEF Abstract!Put, Abstract!Set
<1>16. QED
  BY <1>3, <1>13, <1>15, Zenon DEF Abstract!Step

\* What a subrange leaves behind, in the field and for its callers.
LEMMA GapInContents ==
    ASSUME Inv, NEW f \in Fields, NEW first \in 1 .. fields[f].size,
           NEW n \in 1 .. fields[f].size - first + 1
    PROVE  LET r == fields[f]
               g == CloseGap(r, first, n)
               c == Contents[f]
           IN  /\ \A i \in 1 .. g.size :
                      \E j \in 1 .. r.size : g.slots[i] = r.slots[j] /\ r.slots[j] \notin Subrange(r, first, n)
               /\ Read(g, live) = SubSeq(c, 1, first - 1) \o SubSeq(c, first + n, Len(c))
               /\ first \in DOMAIN c /\ n \in 1 .. Len(c) - first + 1
<1> DEFINE r == fields[f]
           k == r.size
           g == CloseGap(r, first, n)
           c == Contents[f]
<1>1. /\ Sound(r)
      /\ r.slots \in Seq(Objects) /\ k \in Nat /\ Len(r.slots) \in Nat
      /\ k <= Len(r.slots)
      /\ \A i, j \in 1 .. Len(r.slots) : r.slots[i] = r.slots[j] => i = j
  BY Here
<1>2. /\ Len(c) = k /\ c \in Seq(ObjectValues \union {Freed}) /\ DOMAIN c = 1 .. k
      /\ \A i \in 1 .. k : c[i] = live[r.slots[i]]
  BY ContentsOf, ContentsIsSeq
<1>3. first \in 1 .. k /\ n \in 1 .. k - first + 1
  OBVIOUS
<1> HIDE DEF r, c
<1>4. /\ Sound(g) /\ g.size = k - n
      /\ \A i \in 1 .. k - n : g.slots[i] = IF i < first THEN r.slots[i] ELSE r.slots[i + n]
  BY <1>1, <1>3, CloseGapRemoves
<1> HIDE DEF g, k
<1>5. n \in Nat /\ first + n <= k + 1
  BY <1>1, <1>3
<1>6. \A i \in 1 .. k - n :
         /\ i < first => i \in 1 .. k /\ i \notin first .. first + n - 1
         /\ ~ (i < first) => i + n \in 1 .. k /\ i + n \notin first .. first + n - 1
  BY <1>1, <1>3, <1>5
<1>7. ASSUME NEW j \in 1 .. k, j \notin first .. first + n - 1
      PROVE  r.slots[j] \notin Subrange(r, first, n)
  <2>1. \A i \in first .. first + n - 1 : i \in 1 .. Len(r.slots)
    BY <1>1, <1>3, <1>5
  <2>2. j \in 1 .. Len(r.slots)
    BY <1>1
  <2>3. QED
    BY <1>1, <1>7, <2>1, <2>2 DEF Subrange
<1>8. ASSUME NEW i \in 1 .. k - n
      PROVE  \E j \in 1 .. k : g.slots[i] = r.slots[j] /\ r.slots[j] \notin Subrange(r, first, n)
  <2>1. CASE i < first
    BY <1>4, <1>6, <1>7, <2>1
  <2>2. CASE ~ (i < first)
    <3>1. i + n \in 1 .. k /\ i + n \notin first .. first + n - 1
      BY <1>6, <2>2
    <3>2. r.slots[i + n] \notin Subrange(r, first, n)
      BY <1>7, <3>1
    <3>3. g.slots[i] = r.slots[i + n]
      BY <1>4, <2>2
    <3>4. QED
      BY <3>1, <3>2, <3>3
  <2>3. QED
    BY <2>1, <2>2
<1>9. Read(g, live) = WithGap(c, first, n)
  <2> DEFINE w == WithGap(c, first, n)
  <2>1. /\ w \in Seq(ObjectValues \union {Freed}) /\ Len(w) = k - n
        /\ \A i \in 1 .. k - n : w[i] = IF i < first THEN c[i] ELSE c[i + n]
    <3>1. first \in 1 .. Len(c) /\ first + n <= Len(c) + 1
      BY <1>2, <1>3, <1>5
    <3>2. /\ WithGap(c, first, n) \in Seq(ObjectValues \union {Freed})
          /\ Len(WithGap(c, first, n)) = Len(c) - n
          /\ \A i \in 1 .. Len(c) - n : WithGap(c, first, n)[i] = IF i < first THEN c[i] ELSE c[i + n]
      BY <1>2, <1>5, <3>1, GapValue
    <3>3. QED
      BY <1>2, <3>2
  <2> HIDE DEF w
  <2>2. w = [i \in 1 .. k - n |-> w[i]]
    BY <2>1
  <2>3. Read(g, live) = [i \in 1 .. k - n |-> live[g.slots[i]]]
    BY <1>4 DEF Read
  <2>4. ASSUME NEW i \in 1 .. k - n
        PROVE  live[g.slots[i]] = w[i]
    BY <1>2, <1>4, <1>6, <2>1
  <2>5. QED
    BY <2>2, <2>3, <2>4 DEF w
<1>10. first \in DOMAIN c /\ n \in 1 .. Len(c) - first + 1
  BY <1>2, <1>3
<1>11. /\ \A i \in 1 .. g.size :
             \E j \in 1 .. k : g.slots[i] = r.slots[j] /\ r.slots[j] \notin Subrange(r, first, n)
       /\ Read(g, live) = SubSeq(c, 1, first - 1) \o SubSeq(c, first + n, Len(c))
  BY <1>4, <1>8, <1>9 DEF WithGap
<1>12. QED
  BY <1>10, <1>11 DEF r, k, c, g

LEMMA ExtractSubrangeStep ==
    ASSUME Inv, NEW f \in Fields, ExtractSubrange(f)
    PROVE  Inv' /\ Abstract!Step
<1> DEFINE r == fields[f]
<1>0. PICK first \in 1 .. r.size : \E n \in 1 .. r.size - first + 1 :
         Update(f, CloseGap(r, first, n)) /\ held' = held \union Subrange(r, first, n)
  BY Zenon DEF ExtractSubrange
<1>1. PICK n \in 1 .. r.size - first + 1 :
         Update(f, CloseGap(r, first, n)) /\ held' = held \union Subrange(r, first, n)
  BY <1>0, Zenon
<1> DEFINE g == CloseGap(r, first, n)
           cut == Subrange(r, first, n)
           c == Contents[f]
<1>2. UNCHANGED live /\ Update(f, g) /\ held' = held \union cut
  BY <1>1 DEF ExtractSubrange
<1>3. /\ Sound(r) /\ Allocated(r) \intersect held = {}
      /\ \A l \in r.size + 1 .. Len(r.slots) : live[r.slots[l]] = Empty
  BY Here
<1>4. /\ Sound(g) /\ Allocated(g) = Allocated(r) \ cut /\ cut \subseteq Allocated(r)
      /\ SparesKept(r, g)
  BY <1>3, CloseGapRemoves
<1>5. /\ Read(g, live) = SubSeq(c, 1, first - 1) \o SubSeq(c, first + n, Len(c))
      /\ first \in DOMAIN c /\ n \in 1 .. Len(c) - first + 1
  BY GapInContents
<1> HIDE DEF g, r, cut
<1>6. /\ Allocated(g) \union held' = Allocated(r) \union held
      /\ Allocated(g) \intersect held' = {}
  BY <1>2, <1>3, <1>4
<1>7. \A l \in g.size + 1 .. Len(g.slots) : live[g.slots[l]] = Empty
  BY <1>3, <1>4 DEF SparesKept
<1>8. Inv' /\ Contents' = [Contents EXCEPT ![f] = Read(g, live)]
  BY <1>2, <1>4, <1>6, <1>7, HandedOver DEF r
<1>9. Abstract!CutOut(f, first, n)
  BY <1>5, <1>8 DEF Abstract!CutOut, Abstract!Set
<1>10. QED
  BY <1>5, <1>8, <1>9, Zenon DEF Abstract!Step

LEMMA DeleteSubrangeStep ==
    ASSUME Inv, NEW f \in Fields, DeleteSubrange(f)
    PROVE  Inv' /\ Abstract!Step
<1> DEFINE r == fields[f]
<1>0. PICK first \in 1 .. r.size : \E n \in 1 .. r.size - first + 1 :
         Update(f, CloseGap(r, first, n)) /\ Write(Subrange(r, first, n), Freed)
  BY Zenon DEF DeleteSubrange
<1>1. PICK n \in 1 .. r.size - first + 1 :
         Update(f, CloseGap(r, first, n)) /\ Write(Subrange(r, first, n), Freed)
  BY <1>0, Zenon
<1> DEFINE g == CloseGap(r, first, n)
           cut == Subrange(r, first, n)
           c == Contents[f]
<1>2. UNCHANGED held /\ Update(f, g) /\ Write(cut, Freed)
  BY <1>1 DEF DeleteSubrange
<1>3. /\ Sound(r) /\ Allocated(r) \intersect held = {}
      /\ Allocated(r) \subseteq Objects
      /\ r.size \in Nat /\ Len(r.slots) \in Nat /\ r.size <= Len(r.slots)
      /\ \A l \in 1 .. Len(r.slots) : r.slots[l] \in Allocated(r)
      /\ \A o \in Allocated(r) : live[o] # Freed
      /\ \A l \in r.size + 1 .. Len(r.slots) : live[r.slots[l]] = Empty
  BY Here
<1>4. /\ Sound(g) /\ Allocated(g) = Allocated(r) \ cut /\ cut \subseteq Allocated(r)
      /\ SparesKept(r, g)
  BY <1>3, CloseGapRemoves
<1>5. /\ Read(g, live) = SubSeq(c, 1, first - 1) \o SubSeq(c, first + n, Len(c))
      /\ first \in DOMAIN c /\ n \in 1 .. Len(c) - first + 1
      /\ \A i \in 1 .. g.size : \E j \in 1 .. r.size : g.slots[i] = r.slots[j] /\ r.slots[j] \notin cut
  BY GapInContents
<1>6. /\ live' \in [Objects -> ObjectValues \union {Freed}]
      /\ \A o \in Objects : live'[o] = IF o \in cut THEN Freed ELSE live[o]
  BY <1>2, Writes
<1>7. held' = held /\ held' \in SUBSET Objects /\ \A o \in held : live[o] # Freed
  BY <1>2, Types
<1>8. g \in Array /\ \A i \in 1 .. Len(g.slots) : g.slots[i] \in Allocated(g)
  BY <1>4, FieldParts DEF Sound, In
<1> HIDE DEF g, r, cut, c
<1>9. \A o \in Objects : live[o] # Freed /\ o \notin Allocated(r) \union held => live'[o] = live[o]
  BY <1>4, <1>6
<1>10. \A o \in Objects :
         live[o] = Freed \/ o \in Allocated(r) \union held =>
             (live'[o] # Freed <=> o \in Allocated(g) \union held')
  BY <1>3, <1>4, <1>6, <1>7
<1>11. \A o \in Allocated(g) \union held' : live[o] = Freed \/ o \in Allocated(r) \union held
  BY <1>4, <1>7
<1>12. Allocated(g) \intersect held' = {}
  BY <1>3, <1>4, <1>7
<1>13. ASSUME NEW l \in g.size + 1 .. Len(g.slots)
       PROVE  live'[g.slots[l]] = Empty
  <2>1. PICK j \in r.size + 1 .. Len(r.slots) : g.slots[l] = r.slots[j]
    BY <1>4 DEF SparesKept
  <2>2. g.size \in Nat /\ Len(g.slots) \in Nat
    BY <1>8, FieldParts
  <2>3. l \in 1 .. Len(g.slots)
    BY <2>2
  <2>4. g.slots[l] \in Objects /\ g.slots[l] \notin cut
    BY <1>3, <1>4, <1>8, <2>3
  <2>5. live[g.slots[l]] = Empty
    BY <1>3, <2>1
  <2>6. QED
    BY <1>6, <2>4, <2>5
<1>14. Inv' /\ Contents' = [Contents EXCEPT ![f] = Read(g, live')]
  BY <1>2, <1>4, <1>6, <1>7, <1>9, <1>10, <1>11, <1>12, <1>13, FieldStep DEF r
<1>15. Read(g, live') = Read(g, live)
  <2>1. ASSUME NEW i \in 1 .. g.size
        PROVE  live'[g.slots[i]] = live[g.slots[i]]
    <3>1. PICK j \in 1 .. r.size : g.slots[i] = r.slots[j] /\ r.slots[j] \notin cut
      BY <1>5
    <3>2. j \in 1 .. Len(r.slots)
      BY <1>3
    <3>3. r.slots[j] \in Objects
      BY <1>3, <3>2
    <3>4. QED
      BY <1>6, <3>1, <3>3
  <2>2. QED
    BY <2>1, Zenon DEF Read
<1>16. Abstract!CutOut(f, first, n)
  BY <1>5, <1>14, <1>15 DEF Abstract!CutOut, Abstract!Set, c
<1>17. QED
  BY <1>5, <1>14, <1>16, Zenon DEF Abstract!Step, c

LEMMA SwapStep ==
    ASSUME Inv, NEW f \in Fields, NEW g \in Fields, Swap(f, g)
    PROVE  Inv' /\ [Abstract!Step]_Contents
<1> DEFINE other(h) == IF h = f THEN g ELSE IF h = g THEN f ELSE h
<1>1. /\ fields \in [Fields -> Array] /\ UNCHANGED <<live, held>>
      /\ fields' = [fields EXCEPT ![f] = fields[g], ![g] = fields[f]]
  BY Types DEF Swap
<1>2. /\ \A h \in Fields : other(h) \in Fields
      /\ \A h, k \in Fields : h # k => other(h) # other(k)
      /\ \A h \in Fields : other(other(h)) = h
  OBVIOUS
<1>3. fields' \in [Fields -> Array] /\ \A h \in Fields : fields'[h] = fields[other(h)]
  BY <1>1
<1> HIDE DEF other
<1>4. Kept(fields, live, held)
  BY DEF Inv
<1>5. /\ live \in [Objects -> ObjectValues \union {Freed}]
      /\ held \in SUBSET Objects
      /\ \A h \in Fields : Sound(fields[h])
      /\ \A h, k \in Fields : h # k => Allocated(fields[h]) \intersect Allocated(fields[k]) = {}
      /\ \A h \in Fields : Allocated(fields[h]) \intersect held = {}
      /\ \A o \in Objects : live[o] # Freed <=> (o \in held \/ \E h \in Fields : o \in Allocated(fields[h]))
      /\ \A h \in Fields : \A i \in fields[h].size + 1 .. Len(fields[h].slots) :
            live[fields[h].slots[i]] = Empty
  BY <1>4, Zenon DEF Kept
<1>6. /\ \A h \in Fields : Sound(fields'[h])
      /\ \A h \in Fields : Allocated(fields'[h]) \intersect held = {}
  BY <1>2, <1>3, <1>5
<1>7. ASSUME NEW h \in Fields, NEW k \in Fields, h # k
      PROVE  Allocated(fields'[h]) \intersect Allocated(fields'[k]) = {}
  <2>1. other(h) \in Fields /\ other(k) \in Fields /\ other(h) # other(k)
    BY <1>2, <1>7
  <2>2. Allocated(fields[other(h)]) \intersect Allocated(fields[other(k)]) = {}
    BY <1>5, <2>1, Zenon
  <2>3. QED
    BY <1>3, <2>2, Zenon
<1>8. \A o \in Objects :
         live[o] # Freed <=> (o \in held \/ \E h \in Fields : o \in Allocated(fields'[h]))
  <2>1. \A o \in Objects :
           (\E h \in Fields : o \in Allocated(fields'[h])) <=> \E h \in Fields : o \in Allocated(fields[h])
    BY <1>2, <1>3
  <2>2. QED
    BY <1>5, <2>1
<1>9. ASSUME NEW h \in Fields
      PROVE  \A i \in fields'[h].size + 1 .. Len(fields'[h].slots) : live[fields'[h].slots[i]] = Empty
  <2>1. fields'[h] = fields[other(h)] /\ other(h) \in Fields
    BY <1>2, <1>3
  <2> DEFINE r == fields[other(h)]
  <2>2. \A i \in r.size + 1 .. Len(r.slots) : live[r.slots[i]] = Empty
    BY <1>5, <2>1
  <2> HIDE DEF r
  <2>3. fields'[h] = r
    BY <2>1 DEF r
  <2>4. QED
    BY <2>2, <2>3
<1>10. Inv'
  <2>1. Kept(fields', live, held)
    BY <1>3, <1>5, <1>6, <1>7, <1>8, <1>9, Zenon DEF Kept
  <2>2. QED
    BY <1>1, <2>1 DEF Inv
<1>11. Contents' = [h \in Fields |-> Read(fields[other(h)], live)]
  BY <1>1, <1>3 DEF Contents, Read
<1>12. Contents = [h \in Fields |-> Read(fields[h], live)]
  BY ContentsRead
<1>13. CASE f = g
  <2>1. \A h \in Fields : other(h) = h
    BY <1>13 DEF other
  <2>2. QED
    BY <1>10, <1>11, <1>12, <2>1
<1>14. CASE f # g
  <2>1. Contents' = [Contents EXCEPT ![f] = Contents[g], ![g] = Contents[f]]
    <3>1. \A h \in Fields : Contents[h] = Read(fields[h], live)
      BY <1>12
    <3>2. [Contents EXCEPT ![f] = Contents[g], ![g] = Contents[f]]
            = [h \in Fields |-> IF h = g THEN Contents[f] ELSE IF h = f THEN Contents[g] ELSE Contents[h]]
      BY <1>12
    <3>3. \A h \in Fields :
             Read(fields[other(h)], live)
               = IF h = g THEN Contents[f] ELSE IF h = f THEN Contents[g] ELSE Contents[h]
      BY <1>14, <3>1 DEF other
    <3>4. QED
      BY <1>11, <3>2, <3>3
  <2>2. QED
    BY <1>10, <1>14, <2>1, Zenon DEF Abstract!Step
<1>15. QED
  BY <1>13, <1>14

\* There are as many new objects as are needed, all different.
LEMMA EnoughAreFree ==
    ASSUME PtrAssumption, NEW n \in Nat, n <= Cardinality(Free)
    PROVE  \E s \in [1 .. n -> Free] : \A i, j \in 1 .. n : s[i] = s[j] => i = j
<1>1. IsFiniteSet(Free)
  BY FS_Subset DEF Free, PtrAssumption
<1> DEFINE m == Cardinality(Free)
<1>2. m \in Nat /\ ExistsBijection(1 .. m, Free)
  BY <1>1, FS_CardinalityType
<1>3. PICK b \in Bijection(1 .. m, Free) : TRUE
  BY <1>2 DEF ExistsBijection
<1> HIDE DEF m
<1>4. b \in [1 .. m -> Free] /\ \A i, j \in 1 .. m : b[i] = b[j] => i = j
  BY <1>3, Fun_BijectionProperties
<1> DEFINE s == [i \in 1 .. n |-> b[i]]
<1>5. \A i \in 1 .. n : i \in 1 .. m
  BY <1>2 DEF m
<1>6. s \in [1 .. n -> Free] /\ \A i, j \in 1 .. n : s[i] = s[j] => i = j
  BY <1>4, <1>5
<1>7. QED
  BY <1>6

\* What the merge makes of field f: base, then the values of g.
LEMMA MergeStep ==
    ASSUME PtrAssumption, Inv, NEW f \in Fields, NEW g \in Fields, f # g,
           NEW base, Sound(base), base.slots = fields[f].slots, base.size <= fields[f].size,
           MergeInto(f, base, fields[g])
    PROVE  /\ Inv'
           /\ Contents' = [Contents EXCEPT ![f] =
                [i \in 1 .. base.size + fields[g].size |->
                    IF i <= base.size THEN Contents[f][i] ELSE Contents[g][i - base.size]]]
<1> DEFINE r == fields[f]
           q == fields[g]
           a == base.slots
           m == Len(a)
           k == base.size
           l == q.size
           n == Needed(base, q)
           distinct == {s \in [1 .. n -> Free] : \A i, j \in 1 .. n : s[i] = s[j] => i = j}
           new == CHOOSE s \in distinct : TRUE
<1>1. /\ r.slots \in Seq(Objects) /\ Len(r.slots) \in Nat /\ r.size \in Nat
      /\ r.size <= Len(r.slots) /\ r.slots = a
      /\ Allocated(r) \subseteq Objects /\ Allocated(r) = In(a)
      /\ Allocated(r) \intersect held = {}
      /\ \A o \in Allocated(r) : live[o] # Freed
  <2>1. /\ r \in Array /\ r.slots \in Seq(Objects) /\ Len(r.slots) \in Nat /\ r.size \in Nat
        /\ r.size <= Len(r.slots)
        /\ Allocated(r) \subseteq Objects
        /\ Allocated(r) \intersect held = {}
        /\ \A o \in Allocated(r) : live[o] # Freed
    BY Here
  <2>2. r.slots = a
    OBVIOUS
  <2> HIDE DEF r, a
  <2>3. Allocated(r) = In(a)
    BY <2>1, <2>2, FieldParts
  <2>4. QED
    BY <2>1, <2>2, <2>3
<1>2. /\ base \in Array /\ Distinct(a) /\ a \in Seq(Objects)
      /\ k \in Nat /\ m \in Nat /\ k <= m /\ m <= base.total /\ base.total \in Nat
      /\ DOMAIN a = 1 .. m
  BY FieldParts DEF Sound
<1>3. /\ q.slots \in Seq(Objects) /\ Len(q.slots) \in Nat /\ l \in Nat /\ l <= Len(q.slots)
      /\ \A i \in 1 .. Len(q.slots) : q.slots[i] \in Allocated(q)
      /\ Allocated(q) \subseteq Objects
      /\ \A o \in Allocated(q) : live[o] # Freed
  BY Here
<1>4. Allocated(r) \intersect Allocated(q) = {}
  BY Zenon DEF Inv, Kept
<1>5. /\ live \in [Objects -> ObjectValues \union {Freed}] /\ held \in SUBSET Objects
      /\ \A o \in held : live[o] # Freed
  BY Types
<1>6. n = IF l > m - k THEN l - (m - k) ELSE 0
  BY <1>2, <1>3 DEF Needed, Max2, Cleared
<1>7. n \in Nat /\ n <= Cardinality(Free) /\ Merged(f, base, q, new)
  BY <1>2, <1>3, <1>6 DEF MergeInto
<1> HIDE DEF n
<1>8. new \in [1 .. n -> Free] /\ \A i, j \in 1 .. n : new[i] = new[j] => i = j
  <2>1. distinct # {}
    BY <1>7, EnoughAreFree
  <2>2. new \in distinct
    BY <2>1
  <2>3. QED
    BY <2>2
<1> DEFINE room == Reserved(base, k + l)
           slots == a \o new
           h == Remade(room, slots, k + l)
           target(i) == slots[k + i]
           spare(o) == \E i \in k + 1 .. m : a[i] = o
<1>9. /\ Update(f, [room EXCEPT !.slots = slots, !.size = @ + l]) /\ UNCHANGED held
      /\ live' = [o \in Objects |->
            IF \E i \in 1 .. l : target(i) = o
            THEN live[q.slots[CHOOSE i \in 1 .. l : target(i) = o]]
            ELSE IF spare(o) THEN Empty ELSE live[o]]
  BY <1>7 DEF Merged
<1>10. /\ room \in Array /\ room.slots = a /\ room.size = k
       /\ room.total >= base.total /\ room.total >= k + l /\ room.total \in Nat
  <2>1. k + l \in Nat
    BY <1>2, <1>3
  <2>2. /\ Reserved(base, k + l) \in Array
        /\ Reserved(base, k + l).slots = a /\ Reserved(base, k + l).size = k
        /\ Reserved(base, k + l).total >= base.total /\ Reserved(base, k + l).total >= k + l
    BY <1>2, <2>1, ReserveGrows
  <2>3. QED
    BY <2>2, FieldParts
<1>11. [room EXCEPT !.slots = slots, !.size = @ + l] = h
  BY <1>10 DEF Remade, Array
<1>12. Update(f, h)
  BY <1>9, <1>11, Zenon
<1> HIDE DEF distinct, new, r, q, a, m, k, l, h, room
<1>13. new \in Seq(Objects) /\ Len(new) = n /\ DOMAIN new = 1 .. n
       /\ Distinct(new) /\ In(new) \subseteq Free
  BY <1>7, <1>8 DEF Free, Distinct, In
<1>14. In(a) \intersect In(new) = {}
  BY <1>1, <1>13 DEF Free
<1>15. /\ slots \in Seq(Objects) /\ Len(slots) = m + n
       /\ \A i \in 1 .. m : slots[i] = a[i]
       /\ \A i \in 1 .. n : slots[m + i] = new[i]
       /\ In(slots) = In(a) \union In(new)
       /\ Distinct(slots)
       /\ DOMAIN slots = 1 .. m + n
  <2>1. /\ slots \in Seq(Objects) /\ Len(slots) = Len(a) + Len(new)
        /\ \A i \in 1 .. Len(a) : slots[i] = a[i]
        /\ \A i \in 1 .. Len(new) : slots[Len(a) + i] = new[i]
        /\ In(slots) = In(a) \union In(new)
        /\ Distinct(slots)
    BY <1>2, <1>13, <1>14, Joined
  <2> HIDE DEF slots
  <2>2. QED
    BY <1>13, <2>1 DEF m
<1> HIDE DEF slots
\* either the spares are enough, or all of them are taken
<1>16. /\ k + l \in Nat /\ k + l <= m + n /\ m + n <= room.total
       /\ n = 0 \/ (n > 0 /\ k + l = m + n)
  BY <1>2, <1>3, <1>6, <1>10
<1>17. Sound(h) /\ h.slots = slots /\ h.size = k + l /\ Allocated(h) = In(slots)
  <2>1. k + l \in Nat /\ k + l <= Len(slots) /\ Len(slots) <= room.total
    BY <1>15, <1>16
  <2>2. QED
    BY <1>10, <1>15, <2>1, Assembled DEF h
<1>18. \A i \in 1 .. l : k + i \in DOMAIN slots /\ target(i) \in In(slots)
  <2>1. \A i \in 1 .. l : k + i \in DOMAIN slots
    BY <1>2, <1>3, <1>15, <1>16
  <2>2. QED
    BY <2>1 DEF In
<1>19. \A i, j \in 1 .. l : target(i) = target(j) => i = j
  <2>1. ASSUME NEW i \in 1 .. l, NEW j \in 1 .. l, target(i) = target(j)
        PROVE  i = j
    <3>1. k + i = k + j
      BY <1>15, <1>18, <2>1 DEF Distinct
    <3>2. QED
      BY <1>2, <3>1
  <2>2. QED
    BY <2>1
<1> HIDE DEF target, spare
<1>20. ASSUME NEW i \in 1 .. l
       PROVE  target(i) \in Objects /\ live'[target(i)] = live[q.slots[i]]
  <2>1. target(i) \in Objects
    BY <1>15, <1>18 DEF In
  <2>2. (CHOOSE j \in 1 .. l : target(j) = target(i)) = i
    BY <1>19
  <2>3. QED
    BY <1>9, <2>1, <2>2
<1>21. ASSUME NEW o \in Objects, \A i \in 1 .. l : target(i) # o
       PROVE  /\ spare(o) => live'[o] = Empty
              /\ ~ spare(o) => live'[o] = live[o]
  BY <1>9, <1>21
<1>22. \A i \in 1 .. l : live[q.slots[i]] \in ObjectValues /\ live[q.slots[i]] # Freed
  <2>1. \A i \in 1 .. l : i \in 1 .. Len(q.slots)
    BY <1>3
  <2>2. QED
    BY <1>3, <1>5, <2>1
<1>23. Empty # Freed /\ Empty \in ObjectValues
  BY DEF PtrAssumption
<1>24. ASSUME NEW o \in Objects, o \in In(slots)
       PROVE  live'[o] # Freed /\ live'[o] \in ObjectValues
  <2>1. CASE \E i \in 1 .. l : target(i) = o
    BY <1>20, <1>22, <2>1
  <2>2. CASE \A i \in 1 .. l : target(i) # o
    <3>1. o \in In(a)
      <4>1. ASSUME o \in In(new) PROVE FALSE
        <5>1. PICK i \in 1 .. n : new[i] = o
          BY <1>13, <4>1 DEF In
        <5>2. m + i - k \in 1 .. l /\ k + (m + i - k) = m + i
          <6>1. k \in Nat /\ m \in Nat /\ l \in Nat /\ n \in Nat /\ k <= m /\ k + l = m + n
            BY <1>2, <1>3, <1>7, <1>16, <5>1
          <6>2. QED
            BY <6>1
        <5>3. target(m + i - k) = slots[m + i]
          BY <5>2 DEF target
        <5>4. target(m + i - k) = o
          BY <1>15, <5>1, <5>3
        <5>5. QED
          BY <2>2, <5>2, <5>4
      <4>2. QED
        BY <1>15, <1>24, <4>1
    <3>2. live[o] # Freed /\ live[o] \in ObjectValues
      BY <1>1, <1>5, <3>1
    <3>3. QED
      BY <1>21, <1>23, <2>2, <3>2
  <2>3. QED
    BY <2>1, <2>2
<1>25. ASSUME NEW o \in Objects, o \notin In(slots)
       PROVE  live'[o] = live[o]
  <2>1. \A i \in 1 .. l : target(i) # o
    BY <1>18, <1>25
  <2>2. ~ spare(o)
    <3>1. ASSUME NEW i \in k + 1 .. m PROVE a[i] # o
      <4>1. i \in DOMAIN a
        BY <1>2
      <4>2. a[i] \in In(slots)
        BY <1>15, <4>1 DEF In
      <4>3. QED
        BY <1>25, <4>2
    <3>2. QED
      BY <3>1 DEF spare
  <2>3. QED
    BY <1>21, <2>1, <2>2
<1>26. live' \in [Objects -> ObjectValues \union {Freed}]
  <2>1. \A o \in Objects : live'[o] \in ObjectValues \union {Freed}
    BY <1>5, <1>24, <1>25
  <2>2. live' = [o \in Objects |-> live'[o]]
    BY <1>9
  <2>3. QED
    BY <2>1, <2>2
<1>27. In(slots) \subseteq Objects /\ \A o \in In(new) : live[o] = Freed
  BY <1>13, <1>15 DEF In, Free
<1>28. held' = held /\ held' \in SUBSET Objects
  BY <1>5, <1>9
<1>29. \A o \in Objects : live[o] # Freed /\ o \notin Allocated(r) \union held => live'[o] = live[o]
  BY <1>1, <1>15, <1>25, <1>27
<1>30. \A o \in Objects :
         live[o] = Freed \/ o \in Allocated(r) \union held =>
             (live'[o] # Freed <=> o \in Allocated(h) \union held')
  <2>1. ASSUME NEW o \in Objects, live[o] = Freed \/ o \in Allocated(r) \union held
        PROVE  live'[o] # Freed <=> o \in In(slots) \union held
    <3>1. CASE o \in In(slots)
      BY <1>24, <3>1
    <3>2. CASE o \notin In(slots)
      BY <1>1, <1>5, <1>15, <1>25, <2>1, <3>2
    <3>3. QED
      BY <3>1, <3>2
  <2>2. QED
    BY <1>17, <1>28, <2>1
<1>31. \A o \in Allocated(h) \union held' : live[o] = Freed \/ o \in Allocated(r) \union held
  BY <1>1, <1>15, <1>17, <1>27, <1>28
<1>32. Allocated(h) \intersect held' = {}
  BY <1>1, <1>5, <1>15, <1>17, <1>27, <1>28
<1>33. ASSUME NEW i \in h.size + 1 .. Len(h.slots)
       PROVE  live'[h.slots[i]] = Empty
  <2>1. i \in k + l + 1 .. m + n
    BY <1>15, <1>17, <1>33
  <2>2. i \in k + 1 .. m /\ i \in 1 .. m /\ i \in DOMAIN slots
    BY <1>2, <1>3, <1>15, <1>16, <2>1
  <2>3. slots[i] = a[i] /\ spare(a[i]) /\ a[i] \in Objects
    BY <1>2, <1>15, <2>2 DEF spare
  <2>4. ASSUME NEW j \in 1 .. l PROVE target(j) # a[i]
    <3>1. k + j # i /\ k + j \in DOMAIN slots
      <4>1. k \in Nat /\ m \in Nat /\ l \in Nat /\ n \in Nat
        BY <1>2, <1>3, <1>7
      <4>2. k + j # i
        BY <2>1, <4>1
      <4>3. QED
        BY <1>18, <4>2
    <3>2. slots[k + j] # slots[i]
      BY <1>15, <2>2, <3>1 DEF Distinct
    <3>3. QED
      BY <2>3, <3>2 DEF target
  <2>5. QED
    BY <1>17, <1>21, <2>3, <2>4
<1>34. Inv' /\ Contents' = [Contents EXCEPT ![f] = Read(h, live')]
  BY <1>12, <1>17, <1>26, <1>28, <1>29, <1>30, <1>31, <1>32, <1>33, FieldStep DEF r
<1>35. Read(h, live') = [i \in 1 .. k + l |-> IF i <= k THEN Contents[f][i] ELSE Contents[g][i - k]]
  <2>1. Read(h, live') = [i \in 1 .. k + l |-> live'[slots[i]]]
    BY <1>17 DEF Read
  <2> DEFINE c == Contents[f]
             d == Contents[g]
  <2>2. /\ \A i \in 1 .. r.size : c[i] = live[r.slots[i]]
        /\ \A i \in 1 .. l : d[i] = live[q.slots[i]]
    BY ContentsOf DEF r, q, l
  <2> HIDE DEF c, d
  <2>3. ASSUME NEW i \in 1 .. k + l
        PROVE  live'[slots[i]] = IF i <= k THEN c[i] ELSE d[i - k]
    <3>1. CASE i <= k
      <4>1. i \in 1 .. m /\ i \in 1 .. r.size /\ i \in DOMAIN slots /\ slots[i] = a[i]
        <5>1. i \in 1 .. m /\ i \in 1 .. r.size /\ i \in 1 .. m + n
          <6>1. k <= r.size
            BY DEF k, r
          <6>2. QED
            BY <1>1, <1>2, <1>7, <3>1, <6>1
        <5>2. QED
          BY <1>15, <5>1
      <4>2. a[i] \in Objects /\ c[i] = live[a[i]]
        BY <1>1, <1>2, <2>2, <4>1
      <4>3. ASSUME NEW j \in 1 .. l PROVE target(j) # a[i]
        <5>1. k + j # i /\ k + j \in DOMAIN slots
          <6>1. k \in Nat /\ l \in Nat
            BY <1>2, <1>3
          <6>2. k + j # i
            BY <3>1, <6>1
          <6>3. QED
            BY <1>18, <6>2
        <5>2. slots[k + j] # slots[i]
          BY <1>15, <4>1, <5>1 DEF Distinct
        <5>3. QED
          BY <4>1, <5>2 DEF target
      <4>4. ~ spare(a[i])
        <5>1. ASSUME NEW j \in k + 1 .. m PROVE a[j] # a[i]
          <6>1. j \in DOMAIN a /\ i \in DOMAIN a /\ i # j
            BY <1>2, <3>1, <4>1
          <6>2. QED
            BY <1>2, <6>1 DEF Distinct
        <5>2. QED
          BY <5>1 DEF spare
      <4>5. QED
        BY <1>21, <3>1, <4>1, <4>2, <4>3, <4>4
    <3>2. CASE ~ (i <= k)
      <4>1. i - k \in 1 .. l /\ k + (i - k) = i
        BY <1>2, <1>3, <3>2
      <4>2. target(i - k) = slots[i]
        BY <4>1 DEF target
      <4>3. live'[target(i - k)] = live[q.slots[i - k]]
        BY <1>20, <4>1
      <4>4. QED
        BY <2>2, <3>2, <4>1, <4>2, <4>3
    <3>3. QED
      BY <3>1, <3>2
  <2>4. QED
    BY <2>1, <2>3 DEF c, d
<1>36. QED
  BY <1>34, <1>35 DEF k, l, q

LEMMA MergeFromStep ==
    ASSUME PtrAssumption, Inv, NEW f \in Fields, NEW g \in Fields, MergeFrom(f, g)
    PROVE  Inv' /\ Abstract!Step
<1> DEFINE base == fields[f]
           c == Contents[f]
           d == Contents[g]
<1>1. f # g /\ MergeInto(f, base, fields[g])
  BY DEF MergeFrom
<1>2. Sound(base) /\ base.slots = fields[f].slots /\ base.size \in Nat /\ base.size <= fields[f].size
  BY Here
<1>3. /\ c \in Seq(ObjectValues \union {Freed}) /\ Len(c) = base.size
      /\ d \in Seq(ObjectValues \union {Freed}) /\ Len(d) = fields[g].size
  BY ContentsOf, ContentsIsSeq
<1> HIDE DEF base
<1>4. /\ Inv'
      /\ Contents' = [Contents EXCEPT ![f] =
           [i \in 1 .. base.size + fields[g].size |->
               IF i <= base.size THEN c[i] ELSE d[i - base.size]]]
  BY <1>1, <1>2, MergeStep
<1> HIDE DEF c, d
<1>5. c \o d = [i \in 1 .. base.size + fields[g].size |->
                  IF i <= base.size THEN c[i] ELSE d[i - base.size]]
  <2>1. /\ c \o d \in Seq(ObjectValues \union {Freed}) /\ Len(c \o d) = Len(c) + Len(d)
        /\ \A i \in 1 .. Len(c) + Len(d) : (c \o d)[i] = IF i <= Len(c) THEN c[i] ELSE d[i - Len(c)]
    BY <1>3, ConcatProperties
  <2> DEFINE e == c \o d
  <2>2. /\ e \in Seq(ObjectValues \union {Freed}) /\ Len(e) = Len(c) + Len(d)
        /\ \A i \in 1 .. Len(c) + Len(d) : e[i] = IF i <= Len(c) THEN c[i] ELSE d[i - Len(c)]
    BY <2>1
  <2> HIDE DEF e
  <2>3. e = [i \in 1 .. Len(c) + Len(d) |-> e[i]]
    BY <2>2
  <2>4. QED
    BY <1>3, <2>2, <2>3 DEF e
<1>6. Abstract!Set(f, c \o d)
  BY <1>4, <1>5 DEF Abstract!Set
<1>7. QED
  BY <1>1, <1>4, <1>6, Zenon DEF Abstract!Step, c, d

LEMMA CopyFromStep ==
    ASSUME PtrAssumption, Inv, NEW f \in Fields, NEW g \in Fields, CopyFrom(f, g)
    PROVE  Inv' /\ Abstract!Step
<1> DEFINE base == [fields[f] EXCEPT !.size = 0]
           d == Contents[g]
<1>1. f # g /\ MergeInto(f, base, fields[g])
  BY DEF CopyFrom
<1>2. Sound(fields[f]) /\ Len(fields[f].slots) \in Nat /\ fields[f].size \in Nat
  BY Here
<1>3. Sound(base) /\ base.slots = fields[f].slots /\ base.size = 0 /\ base.size <= fields[f].size
  <2>1. 0 \in Nat /\ 0 <= Len(fields[f].slots)
    BY <1>2
  <2>2. Sound(base) /\ base.slots = fields[f].slots /\ base.size = 0
    BY <1>2, <2>1, Resized
  <2>3. QED
    BY <1>2, <2>2
<1>4. d \in Seq(ObjectValues \union {Freed}) /\ Len(d) = fields[g].size
  BY ContentsOf, ContentsIsSeq
<1> HIDE DEF base
<1>5. /\ Inv'
      /\ Contents' = [Contents EXCEPT ![f] =
           [i \in 1 .. base.size + fields[g].size |->
               IF i <= base.size THEN Contents[f][i] ELSE d[i - base.size]]]
  BY <1>1, <1>3, MergeStep
<1> HIDE DEF d
<1>6. d = [i \in 1 .. base.size + fields[g].size |->
              IF i <= base.size THEN Contents[f][i] ELSE d[i - base.size]]
  BY <1>3, <1>4
<1>7. Abstract!Set(f, d)
  BY <1>5, <1>6 DEF Abstract!Set
<1>8. QED
  BY <1>1, <1>5, <1>7, Zenon DEF Abstract!Step, d

-----------------------------------------------------------------------------
LEMMA InvInit ==
    ASSUME PtrAssumption, PtrInit
    PROVE  Inv /\ Abstract!Init
<1>1. /\ fields = [f \in Fields |-> NoElements]
      /\ live = [o \in Objects |-> Freed] /\ held = {}
  BY DEF PtrInit
<1>2. Sound(NoElements) /\ Allocated(NoElements) = {}
  <2>1. NoElements \in Array
    BY DEF NoElements, Array
  <2>2. Allocated(NoElements) = {} /\ Distinct(NoElements.slots)
    BY DEF NoElements, Allocated, Distinct
  <2>3. QED
    BY <2>1, <2>2 DEF Sound, NoElements
<1>3. NoElements \in Array /\ NoElements.size = 0 /\ Len(NoElements.slots) = 0
  BY DEF NoElements, Array
<1>4. Inv
  BY <1>1, <1>2, <1>3 DEF Inv, Kept
<1>5. \A f \in Fields : Read(fields[f], live) = <<>>
  BY <1>1, <1>3, NothingRead
<1>6. Contents = [f \in Fields |-> <<>>]
  BY <1>5, ContentsRead
<1>7. QED
  BY <1>4, <1>6 DEF Abstract!Init

LEMMA InvNext ==
    ASSUME PtrAssumption, Inv, [PtrNext]_ptrVars
    PROVE  Inv' /\ [Abstract!Step]_Contents
<1>1. CASE NewObject
  BY <1>1, NewObjectStep
<1>2. CASE DeleteObject
  BY <1>2, DeleteObjectStep
<1>3. ASSUME NEW f \in Fields,
             \/ Add(f) \/ Mutate(f) \/ RemoveLast(f) \/ Clear(f)
             \/ AddAllocated(f) \/ ReleaseLast(f)
             \/ ExtractSubrange(f) \/ DeleteSubrange(f) \/ SwapElements(f)
             \/ Destroy(f)
      PROVE  Inv' /\ Abstract!Step
  BY <1>3, AddStep, MutateStep, RemoveLastStep, ClearStep, AddAllocatedStep, ReleaseLastStep,
     ExtractSubrangeStep, DeleteSubrangeStep, SwapElementsStep, DestroyStep, Zenon
<1>4. ASSUME NEW f \in Fields, AddCleared(f) \/ ReleaseCleared(f) \/ Reserve(f)
      PROVE  Inv' /\ UNCHANGED Contents
  BY <1>4, AddClearedStep, ReleaseClearedStep, ReserveStep, Zenon
<1>5. ASSUME NEW f \in Fields, NEW g \in Fields, MergeFrom(f, g) \/ CopyFrom(f, g)
      PROVE  Inv' /\ Abstract!Step
  BY <1>5, MergeFromStep, CopyFromStep, Zenon
<1>6. ASSUME NEW f \in Fields, NEW g \in Fields, Swap(f, g)
      PROVE  Inv' /\ [Abstract!Step]_Contents
  BY <1>6, SwapStep, Zenon
<1>7. CASE UNCHANGED ptrVars
  <2>1. UNCHANGED <<fields, live, held>>
    BY <1>7 DEF ptrVars
  <2>2. Inv'
    BY <2>1 DEF Inv
  <2>3. UNCHANGED Contents
    BY <2>1 DEF Contents
  <2>4. QED
    BY <2>2, <2>3
<1>8. QED
  BY <1>1, <1>2, <1>3, <1>4, <1>5, <1>6, <1>7, Zenon DEF PtrNext

LEMMA InvIsSafe ==
    ASSUME Inv
    PROVE  OwnedOnce
<1>1. /\ live \in [Objects -> ObjectValues \union {Freed}] /\ held \in SUBSET Objects
      /\ \A f \in Fields : Sound(fields[f])
      /\ \A f, g \in Fields : f # g => Allocated(fields[f]) \intersect Allocated(fields[g]) = {}
      /\ \A f \in Fields : Allocated(fields[f]) \intersect held = {}
      /\ \A o \in Objects : live[o] # Freed <=> (o \in held \/ \E f \in Fields : o \in Allocated(fields[f]))
      /\ \A f \in Fields : \A i \in fields[f].size + 1 .. Len(fields[f].slots) :
            live[fields[f].slots[i]] = Empty
  BY Zenon DEF Inv, Kept
<1>2. /\ \A f \in Fields : Allocated(fields[f]) \subseteq Objects
      /\ \A f \in Fields : \A i \in DOMAIN fields[f].slots : fields[f].slots[i] \in Allocated(fields[f])
  BY Here
<1>3. OneOwner
  <2>1. \A o : o \in Owned <=> \E f \in Fields : o \in Allocated(fields[f])
    BY DEF Owned
  <2>2. {o \in Objects : live[o] # Freed} = Owned \union held
    BY <1>1, <1>2, <2>1
  <2>3. Owned \intersect held = {}
    BY <1>1, <2>1
  <2>4. ASSUME NEW f \in Fields, NEW g \in Fields,
               NEW i \in DOMAIN fields[f].slots, NEW j \in DOMAIN fields[g].slots,
               fields[f].slots[i] = fields[g].slots[j]
        PROVE  f = g /\ i = j
    <3>1. f = g
      <4>1. fields[f].slots[i] \in Allocated(fields[f]) /\ fields[g].slots[j] \in Allocated(fields[g])
        BY <1>2, Zenon
      <4>2. Allocated(fields[f]) \intersect Allocated(fields[g]) # {}
        BY <2>4, <4>1, Zenon
      <4>3. QED
        BY <1>1, <4>2, Zenon
    <3>2. Distinct(fields[f].slots)
      BY <1>1 DEF Sound
    <3>3. QED
      BY <2>4, <3>1, <3>2 DEF Distinct
  <2>5. QED
    BY <2>2, <2>3, <2>4, Zenon DEF OneOwner
<1>4. SparesAreEmpty
  BY <1>1, Zenon DEF SparesAreEmpty
<1>5. WithinArray
  BY <1>1 DEF WithinArray, Sound
<1>6. QED
  BY <1>3, <1>4, <1>5 DEF OwnedOnce

(* No object is leaked or deleted twice, no slot holds an object that is    *)
(* gone or lies beyond the array, and what is kept for reuse is empty, for  *)
(* any fields and objects and any order of calls (repeated_field.h:793-984).*)
THEOREM EveryObjectIsOwnedOnce ==
    ASSUME PtrAssumption
    PROVE  PtrSpec => []OwnedOnce
<1>1. PtrInit => Inv
  BY InvInit
<1>2. Inv /\ [PtrNext]_ptrVars => Inv'
  BY InvNext
<1>3. Inv => OwnedOnce
  BY InvIsSafe
<1>4. QED
  BY <1>1, <1>2, <1>3, PTL DEF PtrSpec

(* To its callers a field is a sequence of values: each call does to it     *)
(* what the call of that name does to a sequence, wherever the objects come *)
(* from and go to (repeated_field.h:793-984).                               *)
THEOREM FieldsAreSequences ==
    ASSUME PtrAssumption
    PROVE  PtrSpec => PointersAreSequence
<1>1. PtrInit => Inv /\ Abstract!Init
  BY InvInit
<1>2. Inv /\ [PtrNext]_ptrVars => Inv' /\ [Abstract!Step]_Contents
  BY InvNext
<1>3. QED
  BY <1>1, <1>2, PTL DEF PtrSpec, PointersAreSequence, Abstract!Spec
=============================================================================
