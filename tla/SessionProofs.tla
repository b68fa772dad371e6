--------------------------- MODULE SessionProofs ---------------------------
(***************************************************************************)
(* Entering and leaving sessions, for any number of devices, menus,         *)
(* requests and events.                                                     *)
(*                                                                          *)
(* Each part of the invariants is an operator of one device's state, its    *)
(* stack of screens s, the sessions m of its clients, the requests p; what  *)
(* the actions do to that state are lemmas about these operators.           *)
(***************************************************************************)
EXTENDS Session, FiniteSetTheorems, SequenceTheorems, WellFoundedInduction, TLAPS

MenuScreen == [kind : {"menu"}, client : Clients]
ListScreen == [kind : {"list"}, client : Clients, found : SUBSET Nat, number : Nat]
EditorScreen == [kind : {"editor"}, client : Clients, loaded : BOOLEAN, history : SUBSET (Nat \X Nat),
                 burst : BOOLEAN, typedIn : Nat, unsent : BOOLEAN]
Screen == MenuScreen \union ListScreen \union EditorScreen

Request == [op : {"create", "list", "join", "leave"}, client : Clients, session : Nat, number : Nat,
            from : Screen, answer : {"none", "ok", "error"}, found : SUBSET Nat]

SessionRecord == [owner : Devices \X Clients, log : Seq(Devices \X Clients \X Nat), ended : BOOLEAN]

Types ==
    /\ sessions \in Seq(SessionRecord)
    /\ member \in [Devices -> [Clients -> Nat]]
    /\ handed \in [Devices -> [Clients -> Nat]]
    /\ delegate \in [Devices -> [Clients -> {"menu", "editor"}]]
    /\ stack \in [Devices -> Seq(Screen)]
    /\ pending \in [Devices -> SUBSET Request]
    /\ asked \in [Devices -> Nat]

-----------------------------------------------------------------------------
(* Screens.                                                                 *)

LEMMA ScreenKinds ==
    ASSUME NEW x \in Screen
    PROVE  /\ x.kind \in {"menu", "list", "editor"} /\ x.client \in Clients
           /\ x.kind = "menu" => x \in MenuScreen
           /\ x.kind = "list" => x \in ListScreen /\ x.found \in SUBSET Nat
           /\ x.kind = "editor" =>
                 /\ x \in EditorScreen /\ x.history \in SUBSET (Nat \X Nat)
                 /\ x.loaded \in BOOLEAN /\ x.burst \in BOOLEAN /\ x.unsent \in BOOLEAN
                 /\ x.typedIn \in Nat
BY DEF Screen, MenuScreen, ListScreen, EditorScreen

LEMMA NewMenu ==
    ASSUME NEW k \in Clients
    PROVE  Menu(k) \in Screen /\ Menu(k).kind = "menu" /\ Menu(k).client = k
BY DEF Menu, Screen, MenuScreen

LEMMA NewList ==
    ASSUME NEW k \in Clients, NEW F \in SUBSET Nat, NEW n \in Nat
    PROVE  /\ List(k, F, n) \in Screen /\ List(k, F, n).kind = "list"
           /\ List(k, F, n).client = k /\ List(k, F, n).found = F
BY DEF List, Screen, ListScreen

LEMMA NewEditor ==
    ASSUME NEW k \in Clients
    PROVE  /\ Editor(k) \in Screen /\ Editor(k).kind = "editor" /\ Editor(k).client = k
           /\ ~ Editor(k).loaded /\ ~ Editor(k).burst /\ ~ Editor(k).unsent
           /\ Editor(k).history = {}
BY DEF Editor, Screen, EditorScreen

(* A stack that a screen is pushed on, and one that is popped.              *)
LEMMA Pushed ==
    ASSUME NEW s \in Seq(Screen), NEW x \in Screen
    PROVE  /\ Append(s, x) \in Seq(Screen) /\ Append(s, x) # <<>>
           /\ DOMAIN Append(s, x) = DOMAIN s \union {Len(s) + 1}
           /\ \A i \in DOMAIN s : i < Len(s) + 1 /\ Append(s, x)[i] = s[i]
           /\ Append(s, x)[Len(s) + 1] = x
           /\ Len(Append(s, x)) = Len(s) + 1
OBVIOUS

LEMMA Popped ==
    ASSUME NEW s \in Seq(Screen), s # <<>>
    PROVE  /\ Front(s) \in Seq(Screen)
           /\ DOMAIN Front(s) = DOMAIN s \ {Len(s)}
           /\ \A i \in DOMAIN Front(s) : Front(s)[i] = s[i]
           /\ Len(Front(s)) = Len(s) - 1
<1>1. Len(s) \in Nat \ {0} /\ DOMAIN s = 1 .. Len(s)
    BY EmptySeq
<1> DEFINE n == Len(s) - 1
           t == SubSeq(s, 1, n)
<1>2. n \in Nat /\ n <= Len(s) /\ n + 1 = Len(s)
    BY <1>1
<1>3. t \in Seq(Screen) /\ Len(t) = n /\ DOMAIN t = 1 .. n /\ \A i \in 1 .. n : t[i] = s[i]
    BY <1>2
<1>4. Front(s) = t
    BY DEF Front
<1> HIDE DEF t
<1>5. 1 .. n = DOMAIN s \ {Len(s)}
    BY <1>1, <1>2
<1> QED
    BY <1>2, <1>3, <1>4, <1>5

(* A stack one of whose editors changes otherwise than in kind and client.  *)
Redone(s, t, i) ==
    /\ t \in Seq(Screen) /\ DOMAIN t = DOMAIN s /\ i \in DOMAIN s
    /\ s[i].kind = "editor" /\ t[i].kind = "editor" /\ t[i].client = s[i].client
    /\ \A j \in DOMAIN s : j # i => t[j] = s[j]

-----------------------------------------------------------------------------
(* A client's place in a session is claimed once: by an answered request    *)
(* to enter that is not completed, by an editor its user can come back to,  *)
(* or by a request to leave that is not served.                             *)
Covered(s, i) == \E j \in DOMAIN s : i < j /\ s[j].kind = "menu"
Within(s, k) == \E i \in DOMAIN s : s[i].kind = "editor" /\ s[i].client = k /\ ~ Covered(s, i)
Entry(r, k) == r.op \in {"create", "join"} /\ r.answer = "ok" /\ r.client = k
Departure(r, k) == r.op = "leave" /\ r.answer = "none" /\ r.client = k

OneClaim(s, m, p) ==
    \A k \in Clients :
        /\ m[k] = 0 => ~ Within(s, k) /\ \A r \in p : ~ Entry(r, k) /\ ~ Departure(r, k)
        /\ Within(s, k) => \A r \in p : ~ Entry(r, k) /\ ~ Departure(r, k)
        /\ \A q, r \in p :
              /\ ~ (Entry(q, k) /\ Departure(r, k))
              /\ Entry(q, k) /\ Entry(r, k) => q = r
              /\ Departure(q, k) /\ Departure(r, k) => q = r

LEMMA ClaimAsk ==
    ASSUME NEW s, NEW m, NEW p, NEW r, OneClaim(s, m, p), r.answer = "none", r.op # "leave"
    PROVE  OneClaim(s, m, p \union {r})
BY DEF OneClaim, Entry, Departure

LEMMA ClaimFewer ==
    ASSUME NEW s, NEW m, NEW p, NEW q, OneClaim(s, m, p), q \subseteq p
    PROVE  OneClaim(s, m, q)
BY DEF OneClaim

LEMMA ClaimSameScreens ==
    ASSUME NEW s, NEW t, NEW m, NEW p, OneClaim(s, m, p),
           \A k \in Clients : Within(t, k) => Within(s, k)
    PROVE  OneClaim(t, m, p)
BY DEF OneClaim

LEMMA WithinPopped ==
    ASSUME NEW s \in Seq(Screen), s # <<>>, Last(s).kind = "list", NEW k \in Clients,
           Within(Front(s), k)
    PROVE  Within(s, k)
<1> DEFINE t == Front(s)
<1>1. /\ t \in Seq(Screen) /\ DOMAIN t = DOMAIN s \ {Len(s)} /\ \A i \in DOMAIN t : t[i] = s[i]
    BY Popped
<1>2. s[Len(s)].kind = "list"
    BY DEF Last
<1> HIDE DEF t
<1>3. Within(t, k)
    BY DEF t
<1> QED
    BY <1>1, <1>2, <1>3 DEF Within, Covered

LEMMA WithinPushedList ==
    ASSUME NEW s \in Seq(Screen), NEW x \in Screen, x.kind = "list", NEW k \in Clients,
           Within(Append(s, x), k)
    PROVE  Within(s, k)
<1> DEFINE t == Append(s, x)
           n == Len(s) + 1
<1>1. /\ DOMAIN t = DOMAIN s \union {n} /\ t[n] = x
      /\ \A i \in DOMAIN s : i < n /\ t[i] = s[i]
    BY Pushed
<1>2. Within(t, k)
    OBVIOUS
<1> HIDE DEF t, n
<1> QED
    BY <1>1, <1>2 DEF Within, Covered

LEMMA WithinPushedMenu ==
    ASSUME NEW s \in Seq(Screen), NEW x \in Screen, x.kind = "menu", NEW k \in Clients
    PROVE  ~ Within(Append(s, x), k)
<1> DEFINE t == Append(s, x)
           n == Len(s) + 1
<1>1. /\ DOMAIN t = DOMAIN s \union {n} /\ t[n] = x
      /\ \A i \in DOMAIN s : i < n /\ t[i] = s[i]
    BY Pushed
<1> HIDE DEF t, n
<1>2. ~ Within(t, k)
    BY <1>1 DEF Within, Covered
<1> QED
    BY <1>2 DEF t

LEMMA WithinPushedEditor ==
    ASSUME NEW s \in Seq(Screen), NEW x \in Screen, x.kind = "editor", NEW k \in Clients,
           Within(Append(s, x), k)
    PROVE  Within(s, k) \/ x.client = k
<1> DEFINE t == Append(s, x)
           n == Len(s) + 1
<1>1. /\ DOMAIN t = DOMAIN s \union {n} /\ t[n] = x
      /\ \A i \in DOMAIN s : i < n /\ t[i] = s[i]
    BY Pushed
<1>2. Within(t, k)
    OBVIOUS
<1> HIDE DEF t, n
<1> QED
    BY <1>1, <1>2 DEF Within, Covered

LEMMA WithinRedone ==
    ASSUME NEW s, NEW t, NEW i, Redone(s, t, i), NEW k \in Clients, Within(t, k)
    PROVE  Within(s, k)
<1>1. \A j \in DOMAIN s : t[j].kind = s[j].kind /\ t[j].client = s[j].client
    BY DEF Redone
<1> QED
    BY <1>1 DEF Redone, Within, Covered

(* exit2, with the editor of client k on the screen.                        *)
LEMMA ClaimExit ==
    ASSUME NEW s \in Seq(Screen), NEW m, NEW p, OneClaim(s, m, p), s # <<>>,
           Last(s).kind = "editor", NEW k \in Clients, Last(s).client = k,
           NEW r, Departure(r, k), NEW x \in Screen, x.kind = "menu"
    PROVE  OneClaim(Append(s, x), m, p \union {r})
<1>1. Within(s, k)
    BY DEF Within, Covered, Last
<1>2. \A h \in Clients : ~ Within(Append(s, x), h)
    BY WithinPushedMenu
<1>3. \A h \in Clients : Departure(r, h) => h = k
    BY DEF Departure
<1>4. \A h \in Clients : ~ Entry(r, h)
    BY DEF Departure, Entry
<1> QED
    BY <1>1, <1>2, <1>3, <1>4 DEF OneClaim

(* An answer that changes no client's session.                              *)
LEMMA ClaimAnswer ==
    ASSUME NEW s, NEW m, NEW p, OneClaim(s, m, p), NEW r \in p, NEW q,
           \A k \in Clients : ~ Entry(q, k) /\ ~ Departure(q, k)
    PROVE  OneClaim(s, m, (p \ {r}) \union {q})
BY DEF OneClaim

LEMMA ClaimEnter ==
    ASSUME NEW s, NEW m \in [Clients -> Nat], NEW p, OneClaim(s, m, p), NEW k \in Clients, m[k] = 0,
           NEW r \in p, NEW q, Entry(q, k), NEW n \in Nat, n # 0
    PROVE  OneClaim(s, [m EXCEPT ![k] = n], (p \ {r}) \union {q})
<1>1. \A h \in Clients : Entry(q, h) => h = k
    BY DEF Entry
<1>2. \A h \in Clients : ~ Departure(q, h)
    BY DEF Departure, Entry
<1> QED
    BY <1>1, <1>2 DEF OneClaim

LEMMA ClaimLeave ==
    ASSUME NEW s, NEW m \in [Clients -> Nat], NEW p, OneClaim(s, m, p), NEW k \in Clients,
           NEW r \in p, Departure(r, k), NEW q,
           \A h \in Clients : ~ Entry(q, h) /\ ~ Departure(q, h)
    PROVE  OneClaim(s, [m EXCEPT ![k] = 0], (p \ {r}) \union {q})
BY DEF OneClaim

(* The segue to the editor that an answered request to enter leads to.      *)
LEMMA ClaimOpen ==
    ASSUME NEW s \in Seq(Screen), NEW m, NEW p, OneClaim(s, m, p), NEW k \in Clients,
           NEW r \in p, Entry(r, k), m[k] # 0,
           NEW x \in Screen, x.kind = "editor", x.client = k
    PROVE  OneClaim(Append(s, x), m, p \ {r})
<1>1. \A h \in Clients : Within(Append(s, x), h) => Within(s, h) \/ h = k
    BY WithinPushedEditor
<1> HIDE DEF Within
<1> QED
    BY <1>1 DEF OneClaim

-----------------------------------------------------------------------------
(* Editors whose fields change.                                             *)

LEMMA ScreenRedone ==
    ASSUME NEW s \in Seq(Screen), NEW i \in DOMAIN s, s[i].kind = "editor",
           NEW x \in Screen, x.kind = "editor", x.client = s[i].client
    PROVE  Redone(s, [s EXCEPT ![i] = x], i) /\ [s EXCEPT ![i] = x][i] = x
BY DEF Redone

LEMMA EditorLoads ==
    ASSUME NEW x \in EditorScreen, NEW y, y = [x EXCEPT !.loaded = TRUE, !.history = {}]
    PROVE  /\ y \in Screen /\ y.kind = "editor" /\ y.client = x.client
           /\ y.loaded /\ y.history = {} /\ y.burst = x.burst /\ y.typedIn = x.typedIn
           /\ y.unsent = x.unsent
BY DEF Screen, EditorScreen

LEMMA EditorFails ==
    ASSUME NEW x \in EditorScreen, NEW y, y = [x EXCEPT !.burst = FALSE, !.unsent = TRUE]
    PROVE  /\ y \in Screen /\ y.kind = "editor" /\ y.client = x.client
           /\ y.loaded = x.loaded /\ y.history = x.history /\ ~ y.burst /\ y.unsent
BY DEF Screen, EditorScreen

-----------------------------------------------------------------------------
(* The stack of screens, and who receives the events of its clients.        *)
Shape(s, g) ==
    /\ s # <<>> /\ s[1] = Menu(1)
    /\ \A i \in DOMAIN s : s[i].kind = "editor" /\ ~ s[i].loaded => i = Len(s) /\ s[i].history = {}
    /\ \A k \in Clients :
          g[k] = "editor" <=> \E i \in DOMAIN s : s[i].kind = "editor" /\ s[i].client = k

LEMMA ShapePopped ==
    ASSUME NEW s \in Seq(Screen), NEW g, Shape(s, g), Last(s).kind = "list"
    PROVE  Shape(Front(s), g)
<1> DEFINE t == Front(s)
           n == Len(s)
<1>1. s # <<>> /\ n \in Nat \ {0} /\ DOMAIN s = 1 .. n /\ s[1] = Menu(1)
    BY EmptySeq DEF Shape
<1>2. /\ t \in Seq(Screen) /\ DOMAIN t = DOMAIN s \ {n} /\ \A i \in DOMAIN t : t[i] = s[i]
      /\ Len(t) = n - 1
    BY <1>1, Popped
<1>3. s[n].kind = "list"
    BY DEF Last
<1>4. n # 1
    BY <1>1, <1>3 DEF Menu
<1>5. 1 \in DOMAIN t /\ t # <<>>
    BY <1>1, <1>2, <1>4
<1> HIDE DEF t, n
<1>6. \A i \in DOMAIN s : s[i].kind = "editor" => i \in DOMAIN t /\ t[i] = s[i]
    BY <1>2, <1>3
<1>7. \A i \in DOMAIN t : i # n /\ i \in DOMAIN s
    BY <1>2
<1>8. Shape(t, g)
    BY <1>1, <1>2, <1>5, <1>6, <1>7 DEF Shape, n
<1> QED
    BY <1>8 DEF t

\* A menu or a list is pushed.
LEMMA ShapePushed ==
    ASSUME NEW s \in Seq(Screen), NEW g, Shape(s, g), NEW x \in Screen, x.kind # "editor",
           \A i \in DOMAIN s : s[i].kind = "editor" => s[i].loaded
    PROVE  Shape(Append(s, x), g)
<1> DEFINE t == Append(s, x)
           n == Len(s) + 1
<1>1. /\ DOMAIN t = DOMAIN s \union {n} /\ t[n] = x /\ t # <<>>
      /\ \A i \in DOMAIN s : i < n /\ t[i] = s[i]
    BY Pushed
<1>2. 1 \in DOMAIN s
    BY EmptySeq DEF Shape
<1> HIDE DEF t, n
<1>3. Shape(t, g)
    BY <1>1, <1>2 DEF Shape
<1> QED
    BY <1>3 DEF t

\* An editor is pushed, and becomes the delegate.
LEMMA ShapeOpened ==
    ASSUME NEW s \in Seq(Screen), NEW g \in [Clients -> {"menu", "editor"}], Shape(s, g),
           NEW k \in Clients, \A i \in DOMAIN s : s[i].kind = "editor" => s[i].loaded
    PROVE  Shape(Append(s, Editor(k)), [g EXCEPT ![k] = "editor"])
<1> DEFINE x == Editor(k)
           t == Append(s, x)
           n == Len(s) + 1
           h == [g EXCEPT ![k] = "editor"]
<1>1. x \in Screen /\ x.kind = "editor" /\ x.client = k /\ x.history = {}
    BY NewEditor
<1> HIDE DEF x
<1>2. /\ DOMAIN t = DOMAIN s \union {n} /\ t[n] = x /\ t # <<>> /\ Len(t) = n
      /\ \A i \in DOMAIN s : i < n /\ t[i] = s[i]
    BY <1>1, Pushed
<1>3. 1 \in DOMAIN s
    BY EmptySeq DEF Shape
<1>4. \A c \in Clients : h[c] = IF c = k THEN "editor" ELSE g[c]
    OBVIOUS
<1> HIDE DEF t, n, h
<1>5. Shape(t, h)
    BY <1>1, <1>2, <1>3, <1>4 DEF Shape
<1> QED
    BY <1>5 DEF t, h, x

LEMMA ShapeRedone ==
    ASSUME NEW s \in Seq(Screen), NEW t, NEW g, NEW i, Shape(s, g), Redone(s, t, i),
           t[i].loaded \/ (~ s[i].loaded /\ t[i].history = {})
    PROVE  Shape(t, g)
<1>1. t \in Seq(Screen) /\ DOMAIN t = DOMAIN s /\ Len(t) = Len(s)
    BY DEF Redone
<1>2. 1 \in DOMAIN s /\ s[1].kind = "menu"
    BY EmptySeq DEF Shape, Menu
<1>3. t # <<>> /\ t[1] = s[1]
    BY <1>1, <1>2 DEF Redone
<1>4. \A j \in DOMAIN s : t[j].kind = s[j].kind /\ t[j].client = s[j].client
    BY DEF Redone
<1>5. \A j \in DOMAIN s : j # i => t[j] = s[j]
    BY DEF Redone
<1>6. i \in DOMAIN s /\ s[i].kind = "editor"
    BY DEF Redone
<1> QED
    BY <1>1, <1>2, <1>3, <1>4, <1>5, <1>6 DEF Shape

-----------------------------------------------------------------------------
(* The inductive invariant.                                                 *)
Served ==
    \A d \in Devices, k \in Clients :
        /\ member[d][k] <= Len(sessions)
        /\ member[d][k] # 0 => handed[d][k] <= Len(sessions[member[d][k]].log)

Known(s, p, n) ==
    /\ \A r \in p : r.found \subseteq 1 .. n /\ (r.op = "join" => r.session \in 1 .. n)
    /\ \A i \in DOMAIN s : s[i].kind = "list" => s[i].found \subseteq 1 .. n

DeviceOK(d) ==
    /\ Known(stack[d], pending[d], Len(sessions))
    /\ Shape(stack[d], delegate[d])
    /\ OneClaim(stack[d], member[d], pending[d])

SessionInv == Types /\ Served /\ \A d \in Devices : DeviceOK(d)

LEMMA SessionInit ==
    ASSUME SessionAssumption, Init
    PROVE  SessionInv
<1>1. 1 \in Clients
    BY DEF SessionAssumption, Clients
<1>2. Menu(1) \in Screen /\ Menu(1).kind = "menu"
    BY <1>1, NewMenu
<1> DEFINE s == <<Menu(1)>>
<1>3. s \in Seq(Screen) /\ DOMAIN s = {1} /\ s[1] = Menu(1) /\ s # <<>>
    BY <1>2
<1> HIDE DEF s
<1>4. Types
    BY <1>3 DEF Types, Init, s
<1>5. sessions = <<>> /\ Len(sessions) = 0
    BY DEF Init
<1>6. Served
    BY <1>5 DEF Served, Init
<1>7. ASSUME NEW d \in Devices PROVE DeviceOK(d)
  <2>1. stack[d] = s /\ pending[d] = {} /\ delegate[d] = [k \in Clients |-> "menu"]
      BY DEF Init, s
  <2>2. Known(stack[d], pending[d], Len(sessions))
      BY <1>2, <1>3, <2>1 DEF Known
  <2>3. Shape(stack[d], delegate[d])
      BY <1>2, <1>3, <2>1 DEF Shape
  <2>4. \A k \in Clients : ~ Within(stack[d], k)
      BY <1>2, <1>3, <2>1 DEF Within
  <2>5. OneClaim(stack[d], member[d], pending[d])
      BY <2>1, <2>4 DEF OneClaim
  <2> QED
      BY <2>2, <2>3, <2>5 DEF DeviceOK
<1> QED
    BY <1>4, <1>6, <1>7 DEF SessionInv

(* What holds of a device whatever it does.                                 *)
LEMMA DeviceFacts ==
    ASSUME SessionInv, NEW d \in Devices
    PROVE  /\ stack[d] \in Seq(Screen) /\ stack[d] # <<>>
           /\ Len(stack[d]) \in DOMAIN stack[d] /\ Len(stack[d]) \in Nat
           /\ Top(d) = stack[d][Len(stack[d])] /\ Top(d) \in Screen /\ Top(d).client \in Clients
           /\ \A i \in DOMAIN stack[d] : stack[d][i] \in Screen /\ i \in 1 .. Len(stack[d])
           /\ pending[d] \in SUBSET Request /\ asked[d] \in Nat
           /\ member[d] \in [Clients -> Nat] /\ handed[d] \in [Clients -> Nat]
           /\ delegate[d] \in [Clients -> {"menu", "editor"}]
           /\ Known(stack[d], pending[d], Len(sessions))
           /\ Shape(stack[d], delegate[d])
           /\ OneClaim(stack[d], member[d], pending[d])
<1>1. stack[d] \in Seq(Screen) /\ stack[d] # <<>>
    BY DEF SessionInv, DeviceOK, Types, Shape
<1>2. Len(stack[d]) \in DOMAIN stack[d] /\ Len(stack[d]) \in Nat
    BY <1>1, EmptySeq
<1>3. \A i \in DOMAIN stack[d] : stack[d][i] \in Screen /\ i \in 1 .. Len(stack[d])
    BY <1>1
<1>4. Top(d) = stack[d][Len(stack[d])] /\ Top(d) \in Screen /\ Top(d).client \in Clients
    BY <1>2, <1>3, ScreenKinds DEF Top, Last
<1> QED
    BY <1>1, <1>2, <1>3, <1>4 DEF SessionInv, DeviceOK, Types

LEMMA AskKeeps ==
    ASSUME SessionInv, NEW d \in Devices, NEW op \in {"create", "list", "join"},
           NEW n \in Nat, op = "join" => n \in 1 .. Len(sessions),
           Ask(d, op, Top(d).client, n)
    PROVE  SessionInv'
<1> DEFINE r == [op |-> op, client |-> Top(d).client, session |-> n, number |-> asked[d],
                 from |-> Top(d), answer |-> "none", found |-> {}]
<1>1. pending' = [pending EXCEPT ![d] = @ \union {r}] /\ asked' = [asked EXCEPT ![d] = @ + 1]
      /\ UNCHANGED <<sessions, member, handed, delegate, stack>>
    BY DEF Ask, serviceVars
<1>2. r \in Request /\ r.answer = "none" /\ r.op = op /\ r.found = {} /\ r.session = n
    BY DeviceFacts DEF Request
<1> HIDE DEF r
<1>3. Types'
    BY <1>1, <1>2 DEF SessionInv, Types
<1>4. Served'
    BY <1>1 DEF SessionInv, Served
<1>5. ASSUME NEW e \in Devices PROVE DeviceOK(e)'
  <2>1. CASE e = d
    <3>1. pending'[d] = pending[d] \union {r}
        BY <1>1 DEF SessionInv, Types
    <3>2. OneClaim(stack[d], member[d], pending'[d])
      <4>1. r.answer = "none" /\ r.op # "leave"
          BY <1>2
      <4>2. OneClaim(stack[d], member[d], pending[d])
          BY DeviceFacts
      <4>3. OneClaim(stack[d], member[d], pending[d] \union {r})
          BY <4>1, <4>2, ClaimAsk
      <4> QED
          BY <3>1, <4>3
    <3>3. Known(stack[d], pending'[d], Len(sessions))
        BY <1>2, <3>1, DeviceFacts DEF Known
    <3> QED
        BY <1>1, <2>1, <3>2, <3>3, DeviceFacts DEF DeviceOK
  <2>2. CASE e # d
      BY <1>1, <2>2 DEF SessionInv, Types, DeviceOK
  <2> QED
      BY <2>1, <2>2
<1> QED
    BY <1>3, <1>4, <1>5 DEF SessionInv

LEMMA GoBackKeeps ==
    ASSUME SessionInv, NEW d \in Devices, GoBack(d)
    PROVE  SessionInv'
<1> DEFINE s == stack[d]
           t == Front(s)
<1>1. /\ stack' = [stack EXCEPT ![d] = t] /\ Last(s).kind = "list"
      /\ UNCHANGED <<sessions, member, handed, delegate, pending, asked>>
    BY DEF GoBack, serviceVars, Top
<1>2. s \in Seq(Screen) /\ s # <<>> /\ stack'[d] = t
    BY <1>1, DeviceFacts DEF SessionInv, Types
<1>3. t \in Seq(Screen) /\ DOMAIN t \subseteq DOMAIN s /\ \A i \in DOMAIN t : t[i] = s[i]
    BY <1>2, Popped
<1>4. Shape(t, delegate[d])
    BY <1>1, <1>2, DeviceFacts, ShapePopped
<1>5. \A k \in Clients : Within(t, k) => Within(s, k)
    BY <1>1, <1>2, WithinPopped
<1>6. OneClaim(t, member[d], pending[d])
    BY <1>5, DeviceFacts, ClaimSameScreens
<1> HIDE DEF t
<1>7. Types'
    BY <1>1, <1>3 DEF SessionInv, Types
<1>8. Served'
    BY <1>1 DEF SessionInv, Served
<1>9. ASSUME NEW e \in Devices PROVE DeviceOK(e)'
  <2>1. CASE e = d
    <3>1. Known(t, pending[d], Len(sessions))
        BY <1>3, DeviceFacts DEF Known
    <3> QED
        BY <1>1, <1>2, <1>4, <1>6, <2>1, <3>1 DEF DeviceOK
  <2>2. CASE e # d
      BY <1>1, <2>2 DEF SessionInv, Types, DeviceOK
  <2> QED
      BY <2>1, <2>2
<1> QED
    BY <1>7, <1>8, <1>9 DEF SessionInv

LEMMA MenusCount ==
    ASSUME SessionInv, NEW d \in Devices
    PROVE  /\ IsFiniteSet({i \in DOMAIN stack[d] : stack[d][i].kind = "menu"})
           /\ Menus(d) \in Nat
<1> DEFINE M == {i \in DOMAIN stack[d] : stack[d][i].kind = "menu"}
<1>1. Len(stack[d]) \in Nat /\ M \in SUBSET (1 .. Len(stack[d]))
    BY DeviceFacts
<1>2. IsFiniteSet(1 .. Len(stack[d]))
    BY <1>1, FS_Interval
<1>3. IsFiniteSet(M)
    BY <1>1, <1>2, FS_Subset
<1> QED
    BY <1>3, FS_CardinalityType DEF Menus

LEMMA ExitKeeps ==
    ASSUME SessionAssumption, SessionInv, NEW d \in Devices, Exit(d)
    PROVE  SessionInv'
<1> DEFINE s == stack[d]
           k == Top(d).client
           x == Menu(NewClient(d))
           r == [op |-> "leave", client |-> k, session |-> member[d][k], number |-> asked[d],
                 from |-> Menu(k), answer |-> "none", found |-> {}]
           t == Append(s, x)
           q == pending[d] \union {r}
<1>1. /\ stack' = [stack EXCEPT ![d] = t] /\ pending' = [pending EXCEPT ![d] = q]
      /\ Last(s).kind = "editor" /\ Last(s).client = k /\ Menus(d) < MaxMenus /\ ~ Loading(d)
      /\ UNCHANGED <<sessions, member, handed, delegate, asked>>
    BY DEF Exit, serviceVars, Top, Idle
<1>2. s \in Seq(Screen) /\ s # <<>> /\ k \in Clients /\ OneClaim(s, member[d], pending[d])
    BY DeviceFacts
<1>3. NewClient(d) \in Clients
  <2>1. Menus(d) \in Nat /\ MaxMenus \in Nat
      BY MenusCount DEF SessionAssumption
  <2>2. Menus(d) + 1 \in 1 .. MaxMenus
      BY <1>1, <2>1
  <2> QED
      BY <2>2 DEF NewClient, Clients
<1>4. x \in Screen /\ x.kind = "menu"
    BY <1>3, NewMenu
<1>5. r \in Request /\ Departure(r, k) /\ r.op = "leave" /\ r.found = {}
    BY <1>2, DeviceFacts, NewMenu DEF Request, Departure
<1> HIDE DEF x, r
<1>6. OneClaim(t, member[d], q)
    BY <1>1, <1>2, <1>4, <1>5, ClaimExit
<1>7. \A i \in DOMAIN s : s[i].kind = "editor" => s[i].loaded
    BY <1>1 DEF Loading
<1>8. Shape(t, delegate[d])
    BY <1>2, <1>4, <1>7, DeviceFacts, ShapePushed
<1>9. /\ t \in Seq(Screen) /\ DOMAIN t = DOMAIN s \union {Len(s) + 1} /\ t[Len(s) + 1] = x
      /\ \A i \in DOMAIN s : t[i] = s[i]
    BY <1>2, <1>4, Pushed
<1>10. q \in SUBSET Request
    BY <1>5, DeviceFacts
<1> HIDE DEF t
<1>11. Known(t, q, Len(sessions))
    BY <1>4, <1>5, <1>9, DeviceFacts DEF Known
<1> HIDE DEF q
<1>12. Types'
    BY <1>1, <1>9, <1>10 DEF SessionInv, Types
<1>13. Served'
    BY <1>1 DEF SessionInv, Served
<1>14. ASSUME NEW e \in Devices PROVE DeviceOK(e)'
  <2>1. stack'[d] = t /\ pending'[d] = q
      BY <1>1 DEF SessionInv, Types
  <2>2. CASE e = d
      BY <1>1, <1>6, <1>8, <1>11, <2>1, <2>2 DEF DeviceOK
  <2>3. CASE e # d
      BY <1>1, <2>3 DEF SessionInv, Types, DeviceOK
  <2> QED
      BY <2>2, <2>3
<1> QED
    BY <1>12, <1>13, <1>14 DEF SessionInv

-----------------------------------------------------------------------------
(* The service.                                                             *)
Answered(r, answer, found) == [r EXCEPT !.answer = answer, !.found = found]

LEMMA AnsweredFields ==
    ASSUME NEW r \in Request, NEW a \in {"ok", "error"}, NEW F \in SUBSET Nat
    PROVE  /\ Answered(r, a, F) \in Request /\ Answered(r, a, F).answer = a
           /\ Answered(r, a, F).op = r.op /\ Answered(r, a, F).client = r.client
           /\ Answered(r, a, F).found = F /\ Answered(r, a, F).session = r.session
           /\ Answered(r, a, F).from = r.from
BY DEF Answered, Request

LEMMA KnownMore ==
    ASSUME NEW s, NEW p, NEW m \in Nat, NEW n \in Nat, m <= n, Known(s, p, m)
    PROVE  Known(s, p, n)
<1>1. 1 .. m \subseteq 1 .. n
    OBVIOUS
<1> QED
    BY <1>1 DEF Known

LEMMA KnownAnswered ==
    ASSUME NEW s, NEW p \in SUBSET Request, NEW n \in Nat, Known(s, p, n), NEW r \in p,
           NEW a \in {"ok", "error"}, NEW F \in SUBSET (1 .. n)
    PROVE  Known(s, (p \ {r}) \union {Answered(r, a, F)}, n)
<1>1. F \in SUBSET Nat /\ r \in Request
    OBVIOUS
<1>2. Answered(r, a, F).found = F /\ Answered(r, a, F).op = r.op
      /\ Answered(r, a, F).session = r.session
    BY <1>1, AnsweredFields
<1> QED
    BY <1>2 DEF Known

(* An answer that leaves the sessions alone.                                *)
LEMMA AnswerKeeps ==
    ASSUME SessionInv, NEW d \in Devices, NEW r \in pending[d],
           NEW a \in {"ok", "error"}, NEW F \in SUBSET (1 .. Len(sessions)),
           r.op \in {"create", "join"} => a = "error",
           Answer(d, r, a, F),
           UNCHANGED <<sessions, member, handed, delegate, stack, asked>>
    PROVE  SessionInv'
<1> DEFINE b == Answered(r, a, F)
           q == (pending[d] \ {r}) \union {b}
<1>1. pending' = [pending EXCEPT ![d] = q]
    BY DEF Answer, Answered
<1>2. r \in Request /\ Len(sessions) \in Nat
    BY DeviceFacts DEF SessionInv, Types
<1>3. b \in Request /\ b.answer = a /\ b.op = r.op
    BY <1>2, AnsweredFields
<1>4. Known(stack[d], q, Len(sessions))
    BY <1>2, DeviceFacts, KnownAnswered
<1> HIDE DEF b
<1>5. \A k \in Clients : ~ Entry(b, k) /\ ~ Departure(b, k)
    BY <1>3 DEF Entry, Departure
<1>6. OneClaim(stack[d], member[d], q)
    BY <1>5, DeviceFacts, ClaimAnswer
<1>7. q \in SUBSET Request
    BY <1>3, DeviceFacts
<1> HIDE DEF q
<1>8. Types'
    BY <1>1, <1>7 DEF SessionInv, Types
<1>9. Served'
    BY DEF SessionInv, Served
<1>10. ASSUME NEW e \in Devices PROVE DeviceOK(e)'
  <2>1. pending'[d] = q
      BY <1>1 DEF SessionInv, Types
  <2>2. CASE e = d
      BY <1>4, <1>6, <2>1, <2>2, DeviceFacts DEF DeviceOK
  <2>3. CASE e # d
      BY <1>1, <2>3 DEF SessionInv, Types, DeviceOK
  <2> QED
      BY <2>2, <2>3
<1> QED
    BY <1>8, <1>9, <1>10 DEF SessionInv

(* A client enters session n, which may be new.                             *)
LEMMA EnterKeeps ==
    ASSUME SessionInv, NEW d \in Devices, NEW r \in pending[d], r.op \in {"create", "join"},
           member[d][r.client] = 0, NEW n \in 1 .. Len(sessions'), Enter(d, r.client, n),
           sessions' \in Seq(SessionRecord), Len(sessions) <= Len(sessions'),
           \A i \in 1 .. Len(sessions) : sessions'[i] = sessions[i],
           Answer(d, r, "ok", {}), UNCHANGED <<delegate, stack, asked>>
    PROVE  SessionInv'
<1> DEFINE b == Answered(r, "ok", {})
           k == r.client
           q == (pending[d] \ {r}) \union {b}
           m == [member[d] EXCEPT ![k] = n]
           h == [handed[d] EXCEPT ![k] = 0]
<1>1. /\ pending' = [pending EXCEPT ![d] = q]
      /\ member' = [member EXCEPT ![d] = m] /\ handed' = [handed EXCEPT ![d] = h]
    BY DEF Answer, Answered, Enter
<1>2. r \in Request /\ Len(sessions) \in Nat /\ Len(sessions') \in Nat /\ k \in Clients
    BY DeviceFacts DEF SessionInv, Types, Request
<1>3. b \in Request /\ b.answer = "ok" /\ b.op = r.op /\ b.client = k
    BY <1>2, AnsweredFields
<1>4. Known(stack[d], q, Len(sessions))
    BY <1>2, DeviceFacts, KnownAnswered
<1> HIDE DEF b
<1>5. Known(stack[d], q, Len(sessions'))
    BY <1>2, <1>4, KnownMore
<1>6. Entry(b, k)
    BY <1>3 DEF Entry
<1>7. n \in Nat /\ n # 0
    BY <1>2
<1>8. OneClaim(stack[d], member[d], pending[d]) /\ member[d] \in [Clients -> Nat]
      /\ member[d][k] = 0
    BY DeviceFacts
<1>9. OneClaim(stack[d], m, q)
    BY <1>2, <1>6, <1>7, <1>8, ClaimEnter
<1>10. q \in SUBSET Request /\ m \in [Clients -> Nat] /\ h \in [Clients -> Nat]
    BY <1>3, <1>7, <1>8, DeviceFacts
<1>11. \A c \in Clients : (c = k => m[c] = n /\ h[c] = 0)
                       /\ (c # k => m[c] = member[d][c] /\ h[c] = handed[d][c])
    BY <1>8, DeviceFacts
<1> HIDE DEF q, m, h
<1>12. Types'
    BY <1>1, <1>10 DEF SessionInv, Types
<1>13. /\ pending'[d] = q /\ member'[d] = m /\ handed'[d] = h
       /\ \A e \in Devices : e # d => /\ pending'[e] = pending[e] /\ member'[e] = member[e]
                                      /\ handed'[e] = handed[e]
    BY <1>1 DEF SessionInv, Types
<1>14. Served'
  <2> SUFFICES ASSUME NEW e \in Devices, NEW c \in Clients
               PROVE  /\ member'[e][c] <= Len(sessions')
                      /\ member'[e][c] # 0 => handed'[e][c] <= Len(sessions'[member'[e][c]].log)
      BY DEF Served
  <2>1. CASE e = d /\ c = k
    <3>1. sessions'[n] \in SessionRecord
        BY <1>2
    <3>2. Len(sessions'[n].log) \in Nat
        BY <3>1 DEF SessionRecord
    <3> QED
        BY <1>2, <1>7, <1>11, <1>13, <2>1, <3>2
  <2>2. CASE ~ (e = d /\ c = k)
    <3>1. member'[e][c] = member[e][c] /\ handed'[e][c] = handed[e][c]
        BY <1>11, <1>13, <2>2
    <3>2. /\ member[e][c] \in Nat /\ member[e][c] <= Len(sessions)
          /\ member[e][c] # 0 => handed[e][c] <= Len(sessions[member[e][c]].log)
        BY DEF SessionInv, Types, Served
    <3>3. member[e][c] # 0 => sessions'[member[e][c]] = sessions[member[e][c]]
        BY <1>2, <3>2
    <3> QED
        BY <1>2, <3>1, <3>2, <3>3
  <2> QED
      BY <2>1, <2>2
<1>15. ASSUME NEW e \in Devices PROVE DeviceOK(e)'
  <2>1. CASE e = d
      BY <1>5, <1>9, <1>13, <2>1, DeviceFacts DEF DeviceOK
  <2>2. CASE e # d
    <3>1. Known(stack[e], pending[e], Len(sessions'))
        BY <1>2, DeviceFacts, KnownMore
    <3> QED
        BY <1>13, <2>2, <3>1, DeviceFacts DEF DeviceOK
  <2> QED
      BY <2>1, <2>2
<1> QED
    BY <1>12, <1>14, <1>15 DEF SessionInv

LEMMA ServeCreateKeeps ==
    ASSUME SessionInv, NEW d \in Devices, NEW r \in Unanswered(d), ServeCreate(d, r),
           UNCHANGED <<delegate, stack, asked, raised>>
    PROVE  SessionInv'
<1>1. r \in pending[d] /\ r.op = "create"
    BY DEF Unanswered, ServeCreate
<1>2. CASE member[d][r.client] = 0
  <2> DEFINE x == [owner |-> <<d, r.client>>, log |-> <<>>, ended |-> FALSE]
             n == Len(sessions) + 1
  <2>1. Enter(d, r.client, n) /\ sessions' = Append(sessions, x) /\ Answer(d, r, "ok", {})
      BY <1>2 DEF ServeCreate
  <2>2. x \in SessionRecord /\ sessions \in Seq(SessionRecord)
      BY <1>1, DeviceFacts DEF SessionRecord, Request, SessionInv, Types
  <2> HIDE DEF x
  <2>3. /\ sessions' \in Seq(SessionRecord) /\ Len(sessions') = n /\ Len(sessions) \in Nat
        /\ \A i \in 1 .. Len(sessions) : sessions'[i] = sessions[i]
      BY <2>1, <2>2
  <2>4. n \in 1 .. Len(sessions') /\ Len(sessions) <= Len(sessions')
      BY <2>3
  <2> HIDE DEF n
  <2> QED
      BY <1>1, <1>2, <2>1, <2>3, <2>4, EnterKeeps
<1>3. CASE member[d][r.client] # 0
  <2>1. Answer(d, r, "error", {}) /\ UNCHANGED <<sessions, member, handed>>
      BY <1>3 DEF ServeCreate, serviceVars
  <2> QED
      BY <1>1, <2>1, AnswerKeeps
<1> QED
    BY <1>2, <1>3

LEMMA ServeListKeeps ==
    ASSUME SessionInv, NEW d \in Devices, NEW r \in Unanswered(d), ServeList(d, r),
           UNCHANGED <<delegate, stack, asked, raised>>
    PROVE  SessionInv'
<1> DEFINE F == {s \in DOMAIN sessions : Live(s)}
<1>1. r \in pending[d] /\ r.op = "list" /\ Answer(d, r, "ok", F)
      /\ UNCHANGED <<sessions, member, handed>>
    BY DEF Unanswered, ServeList, serviceVars
<1>2. F \in SUBSET (1 .. Len(sessions))
    BY DEF SessionInv, Types
<1> HIDE DEF F
<1> QED
    BY <1>1, <1>2, AnswerKeeps

LEMMA ServeJoinKeeps ==
    ASSUME SessionInv, NEW d \in Devices, NEW r \in Unanswered(d), ServeJoin(d, r),
           UNCHANGED <<delegate, stack, asked, raised>>
    PROVE  SessionInv'
<1>1. r \in pending[d] /\ r.op = "join" /\ sessions' = sessions
    BY DEF Unanswered, ServeJoin
<1>2. sessions \in Seq(SessionRecord) /\ r.session \in 1 .. Len(sessions)
    BY <1>1, DeviceFacts DEF Known, SessionInv, Types
<1>3. CASE member[d][r.client] = 0 /\ Live(r.session)
  <2>1. Enter(d, r.client, r.session) /\ Answer(d, r, "ok", {})
      BY <1>3 DEF ServeJoin
  <2> QED
      BY <1>1, <1>2, <1>3, <2>1, EnterKeeps
<1>4. CASE ~ (member[d][r.client] = 0 /\ Live(r.session))
  <2>1. Answer(d, r, "error", {}) /\ UNCHANGED <<sessions, member, handed>>
      BY <1>1, <1>4 DEF ServeJoin
  <2> QED
      BY <1>1, <2>1, AnswerKeeps
<1> QED
    BY <1>3, <1>4

(* Leaving ends the session of a client that owns it, and no other.         *)
LEMMA EndedSessions ==
    ASSUME SessionInv, NEW d \in Devices, NEW r, ServeLeave(d, r)
    PROVE  /\ sessions' \in Seq(SessionRecord) /\ Len(sessions') = Len(sessions)
           /\ \A i \in 1 .. Len(sessions) :
                 sessions'[i].log = sessions[i].log /\ (sessions[i].ended => sessions'[i].ended)
<1> DEFINE ending(i) == i = member[d][r.client] /\ sessions[i].owner = <<d, r.client>>
           x(i) == [sessions[i] EXCEPT !.ended = TRUE]
<1>1. sessions \in Seq(SessionRecord) /\ DOMAIN sessions = 1 .. Len(sessions) /\ Len(sessions) \in Nat
    BY DEF SessionInv, Types
<1>2. \A i \in 1 .. Len(sessions) : sessions[i] \in SessionRecord
    BY <1>1
<1>3. \A i \in 1 .. Len(sessions) : x(i) \in SessionRecord /\ x(i).log = sessions[i].log /\ x(i).ended
    BY <1>2 DEF SessionRecord
<1>4. sessions' = [i \in 1 .. Len(sessions) |-> IF ending(i) THEN x(i) ELSE sessions[i]]
    BY <1>1 DEF ServeLeave
<1> HIDE DEF ending, x
<1>5. \A i \in 1 .. Len(sessions) :
         /\ sessions'[i] \in SessionRecord /\ sessions'[i].log = sessions[i].log
         /\ sessions[i].ended => sessions'[i].ended
    BY <1>2, <1>3, <1>4
<1>6. sessions' \in [1 .. Len(sessions) -> SessionRecord]
    BY <1>4, <1>5
<1>7. sessions' \in Seq(SessionRecord) /\ Len(sessions') = Len(sessions)
    BY <1>1, <1>6, IsASeq, LenProperties
<1> QED
    BY <1>5, <1>7

LEMMA ServeLeaveKeeps ==
    ASSUME SessionInv, NEW d \in Devices, NEW r \in Unanswered(d), ServeLeave(d, r),
           UNCHANGED <<delegate, stack, asked, raised>>
    PROVE  SessionInv'
<1> DEFINE b == Answered(r, "ok", {})
           k == r.client
           q == (pending[d] \ {r}) \union {b}
           m == [member[d] EXCEPT ![k] = 0]
<1>1. /\ r \in pending[d] /\ r.op = "leave" /\ r.answer = "none"
      /\ pending' = [pending EXCEPT ![d] = q] /\ member' = [member EXCEPT ![d] = m]
      /\ UNCHANGED handed
    BY DEF Unanswered, ServeLeave, Answer, Answered
<1>2. r \in Request /\ Len(sessions) \in Nat /\ k \in Clients
    BY <1>1, DeviceFacts DEF SessionInv, Types, Request
<1>3. b \in Request /\ b.answer = "ok" /\ b.op = "leave"
    BY <1>1, <1>2, AnsweredFields
<1>4. Known(stack[d], q, Len(sessions))
    BY <1>1, <1>2, DeviceFacts, KnownAnswered
<1> HIDE DEF b
<1>5. Departure(r, k)
    BY <1>1 DEF Departure
<1>6. \A c \in Clients : ~ Entry(b, c) /\ ~ Departure(b, c)
    BY <1>3 DEF Entry, Departure
<1>7. OneClaim(stack[d], member[d], pending[d]) /\ member[d] \in [Clients -> Nat]
    BY DeviceFacts
<1>8. OneClaim(stack[d], m, q)
    BY <1>1, <1>2, <1>5, <1>6, <1>7, ClaimLeave
<1>9. q \in SUBSET Request /\ m \in [Clients -> Nat]
    BY <1>3, <1>7, DeviceFacts
<1>10. \A c \in Clients : m[c] = 0 \/ m[c] = member[d][c]
    BY <1>7
<1> HIDE DEF q, m
<1>11. Types'
    BY <1>1, <1>9, EndedSessions DEF SessionInv, Types
<1>12. /\ pending'[d] = q /\ member'[d] = m
       /\ \A e \in Devices : e # d => pending'[e] = pending[e] /\ member'[e] = member[e]
    BY <1>1 DEF SessionInv, Types
<1>13. \A e \in Devices, c \in Clients : member'[e][c] = 0 \/ member'[e][c] = member[e][c]
    BY <1>10, <1>12
<1>14. Served'
  <2> SUFFICES ASSUME NEW e \in Devices, NEW c \in Clients
               PROVE  /\ member'[e][c] <= Len(sessions')
                      /\ member'[e][c] # 0 => handed'[e][c] <= Len(sessions'[member'[e][c]].log)
      BY DEF Served
  <2>1. CASE member'[e][c] = 0
      BY <2>1, <1>2, EndedSessions
  <2>2. CASE member'[e][c] # 0
    <3>1. member'[e][c] = member[e][c] /\ handed'[e][c] = handed[e][c]
        BY <1>1, <1>13, <2>2
    <3>2. /\ member[e][c] \in Nat /\ member[e][c] <= Len(sessions)
          /\ member[e][c] # 0 => handed[e][c] <= Len(sessions[member[e][c]].log)
        BY DEF SessionInv, Types, Served
    <3>3. member[e][c] \in 1 .. Len(sessions)
        BY <1>2, <2>2, <3>1, <3>2
    <3> QED
        BY <2>2, <3>1, <3>2, <3>3, EndedSessions
  <2> QED
      BY <2>1, <2>2
<1>15. ASSUME NEW e \in Devices PROVE DeviceOK(e)'
  <2>1. Len(sessions') = Len(sessions)
      BY EndedSessions
  <2>2. CASE e = d
      BY <1>4, <1>8, <1>12, <2>1, <2>2, DeviceFacts DEF DeviceOK
  <2>3. CASE e # d
      BY <1>12, <2>1, <2>3, DeviceFacts DEF DeviceOK
  <2> QED
      BY <2>2, <2>3
<1> QED
    BY <1>11, <1>14, <1>15 DEF SessionInv

LEMMA ServeKeeps ==
    ASSUME SessionInv, NEW d \in Devices, Serve(d)
    PROVE  SessionInv'
<1>1. PICK r \in Unanswered(d) :
         ServeCreate(d, r) \/ ServeList(d, r) \/ ServeJoin(d, r) \/ ServeLeave(d, r)
    BY DEF Serve
<1>2. UNCHANGED <<delegate, stack, asked, raised>>
    BY DEF Serve
<1> QED
    BY <1>1, <1>2, ServeCreateKeeps, ServeListKeeps, ServeJoinKeeps, ServeLeaveKeeps

-----------------------------------------------------------------------------
(* Completion handlers.                                                     *)

(* A step of device d that leaves the sessions alone.                       *)
LEMMA DeviceKeeps ==
    ASSUME SessionInv, NEW d \in Devices, NEW t \in Seq(Screen),
           NEW g \in [Clients -> {"menu", "editor"}], NEW q \in SUBSET Request,
           stack' = [stack EXCEPT ![d] = t], delegate' = [delegate EXCEPT ![d] = g],
           pending' = [pending EXCEPT ![d] = q], UNCHANGED <<serviceVars, asked>>,
           Known(t, q, Len(sessions)), Shape(t, g), OneClaim(t, member[d], q)
    PROVE  SessionInv'
<1>1. UNCHANGED <<sessions, member, handed, asked>>
    BY DEF serviceVars
<1>2. Types'
    BY <1>1 DEF SessionInv, Types
<1>3. Served'
    BY <1>1 DEF SessionInv, Served
<1>4. ASSUME NEW e \in Devices PROVE DeviceOK(e)'
  <2>1. stack'[d] = t /\ delegate'[d] = g /\ pending'[d] = q
      BY DEF SessionInv, Types
  <2>2. CASE e = d
      BY <1>1, <2>1, <2>2 DEF DeviceOK
  <2>3. CASE e # d
      BY <1>1, <2>3 DEF SessionInv, Types, DeviceOK
  <2> QED
      BY <2>2, <2>3
<1> QED
    BY <1>2, <1>3, <1>4 DEF SessionInv

(* The handler looks at nothing but the request: the screens stay.          *)
LEMMA CompleteQuietly ==
    ASSUME SessionInv, NEW d \in Devices, NEW r \in pending[d],
           pending' = [pending EXCEPT ![d] = @ \ {r}],
           UNCHANGED <<serviceVars, asked, stack, delegate>>
    PROVE  SessionInv'
<1> DEFINE q == pending[d] \ {r}
<1>1. OneClaim(stack[d], member[d], q)
    BY DeviceFacts, ClaimFewer
<1>2. Known(stack[d], q, Len(sessions))
    BY DeviceFacts DEF Known
<1>3. stack' = [stack EXCEPT ![d] = stack[d]] /\ delegate' = [delegate EXCEPT ![d] = delegate[d]]
    BY DEF SessionInv, Types
<1>4. q \in SUBSET Request
    BY DeviceFacts
<1>5. stack[d] \in Seq(Screen) /\ delegate[d] \in [Clients -> {"menu", "editor"}]
      /\ Shape(stack[d], delegate[d]) /\ pending' = [pending EXCEPT ![d] = q]
    BY DeviceFacts
<1> HIDE DEF q
<1> QED
    BY <1>1, <1>2, <1>3, <1>4, <1>5, DeviceKeeps

LEMMA OpenEditorKeeps ==
    ASSUME SessionInv, NEW d \in Devices, NEW r \in pending[d], r.op \in {"create", "join"},
           Accepted(d, r), ~ Loading(d), OpenEditor(d, r.client),
           pending' = [pending EXCEPT ![d] = @ \ {r}], UNCHANGED <<serviceVars, asked>>
    PROVE  SessionInv'
<1> DEFINE s == stack[d]
           k == r.client
           x == Editor(k)
           t == Append(s, x)
           g == [delegate[d] EXCEPT ![k] = "editor"]
           q == pending[d] \ {r}
<1>1. /\ stack' = [stack EXCEPT ![d] = t] /\ delegate' = [delegate EXCEPT ![d] = g]
      /\ pending' = [pending EXCEPT ![d] = q]
    BY DEF OpenEditor
<1>2. s \in Seq(Screen) /\ k \in Clients /\ member[d][k] # 0 /\ Entry(r, k)
    BY DeviceFacts DEF Request, Accepted, Entry
<1>3. x \in Screen /\ x.kind = "editor" /\ x.client = k
    BY <1>2, NewEditor
<1>4. OneClaim(s, member[d], pending[d]) /\ Known(s, pending[d], Len(sessions))
    BY DeviceFacts
<1>5. OneClaim(t, member[d], q)
  <2> HIDE DEF x
  <2> QED
      BY <1>2, <1>3, <1>4, ClaimOpen
<1>6. \A i \in DOMAIN s : s[i].kind = "editor" => s[i].loaded
    BY DEF Loading
<1>7. Shape(t, g)
    BY <1>2, <1>6, DeviceFacts, ShapeOpened
<1> HIDE DEF x
<1>8. /\ t \in Seq(Screen) /\ DOMAIN t = DOMAIN s \union {Len(s) + 1} /\ t[Len(s) + 1] = x
      /\ \A i \in DOMAIN s : t[i] = s[i]
    BY <1>2, <1>3, Pushed
<1>9. g \in [Clients -> {"menu", "editor"}] /\ q \in SUBSET Request
    BY DeviceFacts
<1> HIDE DEF t, g
<1>10. Known(t, q, Len(sessions))
    BY <1>3, <1>4, <1>8 DEF Known
<1> HIDE DEF q
<1> QED
    BY <1>1, <1>5, <1>7, <1>8, <1>9, <1>10, DeviceKeeps

LEMMA CompleteListKeeps ==
    ASSUME SessionInv, NEW d \in Devices, NEW r \in pending[d], ~ Loading(d), CompleteList(d, r),
           pending' = [pending EXCEPT ![d] = @ \ {r}], UNCHANGED <<serviceVars, asked>>
    PROVE  SessionInv'
<1> DEFINE s == stack[d]
           k == r.client
           x == List(k, r.found, r.number)
           t == Append(s, x)
           q == pending[d] \ {r}
<1>1. /\ stack' = [stack EXCEPT ![d] = t] /\ pending' = [pending EXCEPT ![d] = q]
      /\ UNCHANGED delegate
    BY DEF CompleteList
<1>2. s \in Seq(Screen) /\ k \in Clients /\ r.found \in SUBSET Nat /\ r.number \in Nat
    BY DeviceFacts DEF Request
<1>3. x \in Screen /\ x.kind = "list" /\ x.found = r.found
    BY <1>2, NewList
<1> HIDE DEF x
<1>4. OneClaim(s, member[d], pending[d]) /\ Known(s, pending[d], Len(sessions))
    BY DeviceFacts
<1>5. \A c \in Clients : Within(t, c) => Within(s, c)
    BY <1>2, <1>3, WithinPushedList
<1>6. OneClaim(t, member[d], q)
  <2>1. OneClaim(t, member[d], pending[d])
      BY <1>4, <1>5, ClaimSameScreens
  <2> QED
      BY <2>1, ClaimFewer
<1>7. \A i \in DOMAIN s : s[i].kind = "editor" => s[i].loaded
    BY DEF Loading
<1>8. Shape(t, delegate[d])
    BY <1>2, <1>3, <1>7, DeviceFacts, ShapePushed
<1>9. /\ t \in Seq(Screen) /\ DOMAIN t = DOMAIN s \union {Len(s) + 1} /\ t[Len(s) + 1] = x
      /\ \A i \in DOMAIN s : t[i] = s[i]
    BY <1>2, <1>3, Pushed
<1>10. q \in SUBSET Request /\ delegate[d] \in [Clients -> {"menu", "editor"}]
       /\ delegate' = [delegate EXCEPT ![d] = delegate[d]]
    BY <1>1, DeviceFacts DEF SessionInv, Types
<1> HIDE DEF t
<1>11. Known(t, q, Len(sessions))
    BY <1>3, <1>4, <1>9 DEF Known
<1> HIDE DEF q
<1> QED
    BY <1>1, <1>6, <1>8, <1>9, <1>10, <1>11, DeviceKeeps

LEMMA CompleteKeeps ==
    ASSUME SessionInv, NEW d \in Devices, Complete(d)
    PROVE  SessionInv'
<1>1. PICK r \in pending[d] :
         /\ CompleteEntry(d, r) \/ CompleteList(d, r) \/ CompleteLeave(d, r)
         /\ pending' = [pending EXCEPT ![d] = @ \ {r}]
    BY DEF Complete
<1>2. ~ Loading(d) /\ UNCHANGED <<serviceVars, asked>>
    BY DEF Complete, Idle
<1>3. CASE CompleteEntry(d, r)
  <2>1. r.op \in {"create", "join"}
      BY <1>3 DEF CompleteEntry
  <2>2. CASE Accepted(d, r) /\ CanSegue(d, r)
    <3>1. OpenEditor(d, r.client)
        BY <1>3, <2>2 DEF CompleteEntry
    <3> QED
        BY <1>1, <1>2, <2>1, <2>2, <3>1, OpenEditorKeeps
  <2>3. CASE ~ (Accepted(d, r) /\ CanSegue(d, r))
    <3>1. UNCHANGED <<stack, delegate>>
        BY <1>3, <2>3 DEF CompleteEntry
    <3> QED
        BY <1>1, <1>2, <3>1, CompleteQuietly
  <2> QED
      BY <2>2, <2>3
<1>4. CASE CompleteList(d, r)
    BY <1>1, <1>2, <1>4, CompleteListKeeps
<1>5. CASE CompleteLeave(d, r)
  <2>1. UNCHANGED <<stack, delegate>>
      BY <1>5 DEF CompleteLeave
  <2> QED
      BY <1>1, <1>2, <2>1, CompleteQuietly
<1> QED
    BY <1>1, <1>3, <1>4, <1>5

-----------------------------------------------------------------------------
(* Editors that load, are typed in, send their burst and hear of events.    *)
LEMMA RedoneFacts ==
    ASSUME SessionInv, NEW d \in Devices, NEW i, NEW t, Redone(stack[d], t, i),
           t[i].loaded \/ (~ stack[d][i].loaded /\ t[i].history = {})
    PROVE  /\ t \in Seq(Screen) /\ Shape(t, delegate[d])
           /\ Known(t, pending[d], Len(sessions)) /\ OneClaim(t, member[d], pending[d])
<1>1. t \in Seq(Screen)
    BY DEF Redone
<1>2. Shape(t, delegate[d])
    BY DeviceFacts, ShapeRedone
<1>3. \A k \in Clients : Within(t, k) => Within(stack[d], k)
    BY WithinRedone
<1>4. OneClaim(t, member[d], pending[d])
    BY <1>3, DeviceFacts, ClaimSameScreens
<1>5. \A j \in DOMAIN t : t[j].kind = "list" => j \in DOMAIN stack[d] /\ t[j] = stack[d][j]
    BY DEF Redone
<1>6. Known(t, pending[d], Len(sessions))
    BY <1>5, DeviceFacts DEF Known
<1> QED
    BY <1>1, <1>2, <1>4, <1>6

LEMMA RedoneKeeps ==
    ASSUME SessionInv, NEW d \in Devices, NEW i, NEW t, Redone(stack[d], t, i),
           t[i].loaded \/ (~ stack[d][i].loaded /\ t[i].history = {}),
           stack' = [stack EXCEPT ![d] = t], UNCHANGED <<serviceVars, delegate, pending, asked>>
    PROVE  SessionInv'
<1>1. delegate' = [delegate EXCEPT ![d] = delegate[d]] /\ pending' = [pending EXCEPT ![d] = pending[d]]
    BY DEF SessionInv, Types
<1>2. pending[d] \in SUBSET Request /\ delegate[d] \in [Clients -> {"menu", "editor"}]
    BY DeviceFacts
<1> QED
    BY <1>1, <1>2, RedoneFacts, DeviceKeeps

(* The editor that is being shown is the one on the screen.                 *)
LEMMA LoadingIsTop ==
    ASSUME SessionInv, NEW d \in Devices, Loading(d)
    PROVE  Top(d).kind = "editor" /\ ~ Top(d).loaded /\ Top(d) \in EditorScreen
<1>1. PICK i \in DOMAIN stack[d] : stack[d][i].kind = "editor" /\ ~ stack[d][i].loaded
    BY DEF Loading
<1>2. i = Len(stack[d])
    BY <1>1, DeviceFacts DEF Shape
<1> QED
    BY <1>1, <1>2, DeviceFacts, ScreenKinds

(* Editor i of device d becomes y.                                          *)
EditorBecomes(d, i, y) ==
    /\ Redone(stack[d], stack'[d], i) /\ stack'[d][i] = y
    /\ stack' = [stack EXCEPT ![d] = stack'[d]]

LEMMA Becomes ==
    ASSUME SessionInv, NEW d \in Devices, NEW i \in DOMAIN stack[d], stack[d][i].kind = "editor",
           NEW y \in Screen, y.kind = "editor", y.client = stack[d][i].client,
           stack' = [stack EXCEPT ![d] = [stack[d] EXCEPT ![i] = y]]
    PROVE  EditorBecomes(d, i, y)
<1> DEFINE t == [stack[d] EXCEPT ![i] = y]
<1>1. stack'[d] = t /\ stack[d] \in Seq(Screen)
    BY DEF SessionInv, Types
<1>2. Redone(stack[d], t, i) /\ t[i] = y
    BY <1>1, ScreenRedone
<1> HIDE DEF t
<1> QED
    BY <1>1, <1>2 DEF EditorBecomes, t

Loads(x, y) ==
    /\ y.loaded /\ y.history = {}
    /\ y.burst = x.burst /\ y.typedIn = x.typedIn /\ y.unsent = x.unsent

LEMMA LoadEditorStep ==
    ASSUME SessionInv, NEW d \in Devices, LoadEditor(d)
    PROVE  \E y \in Screen : EditorBecomes(d, Len(stack[d]), y) /\ Loads(Top(d), y)
<1> DEFINE n == Len(stack[d])
           x == stack[d][n]
           y == [x EXCEPT !.loaded = TRUE, !.history = {}]
<1>1. stack[d] \in Seq(Screen) /\ n \in DOMAIN stack[d] /\ x = Top(d)
    BY DeviceFacts
<1>2. x \in EditorScreen /\ x.kind = "editor"
    BY <1>1, LoadingIsTop DEF LoadEditor
<1>3. stack' = [stack EXCEPT ![d] = [stack[d] EXCEPT ![n] = y]]
    BY <1>1 DEF LoadEditor, SessionInv, Types
<1> HIDE DEF x
<1>4. y \in Screen /\ y.kind = "editor" /\ y.client = x.client /\ Loads(x, y)
    BY <1>2, EditorLoads DEF Loads
<1> HIDE DEF y
<1>5. EditorBecomes(d, n, y)
    BY <1>1, <1>2, <1>3, <1>4, Becomes DEF x
<1> QED
    BY <1>1, <1>4, <1>5

LEMMA LoadEditorKeeps ==
    ASSUME SessionInv, NEW d \in Devices, LoadEditor(d)
    PROVE  SessionInv'
<1>1. PICK y \in Screen : EditorBecomes(d, Len(stack[d]), y) /\ Loads(Top(d), y)
    BY LoadEditorStep
<1>2. UNCHANGED <<serviceVars, delegate, pending, asked>>
    BY DEF LoadEditor
<1> QED
    BY <1>1, <1>2, RedoneKeeps DEF EditorBecomes, Loads

TypesIn(x, y, s) ==
    /\ y.burst /\ y.typedIn = s
    /\ y.loaded = x.loaded /\ y.history = x.history /\ y.unsent = x.unsent

LEMMA TypeStep ==
    ASSUME SessionInv, NEW d \in Devices, Type(d)
    PROVE  \E y \in Screen : /\ EditorBecomes(d, Len(stack[d]), y)
                             /\ TypesIn(Top(d), y, member[d][Top(d).client])
<1> DEFINE n == Len(stack[d])
           x == stack[d][n]
           s == member[d][Top(d).client]
           y == [x EXCEPT !.burst = TRUE, !.typedIn = s]
<1>1. stack[d] \in Seq(Screen) /\ n \in DOMAIN stack[d] /\ x = Top(d) /\ s \in Nat
    BY DeviceFacts
<1>2. x \in EditorScreen /\ x.kind = "editor"
    BY <1>1, DeviceFacts, ScreenKinds DEF Type
<1>3. stack' = [stack EXCEPT ![d] = [stack[d] EXCEPT ![n] = y]]
    BY <1>1 DEF Type, SessionInv, Types
<1> HIDE DEF x, s
<1>4. y \in Screen /\ y.kind = "editor" /\ y.client = x.client /\ TypesIn(x, y, s)
  <2>1. x \in EditorScreen /\ s \in Nat /\ y = [x EXCEPT !.burst = TRUE, !.typedIn = s]
      BY <1>1, <1>2
  <2> HIDE DEF y
  <2> QED
      BY <2>1 DEF Screen, EditorScreen, TypesIn
<1> HIDE DEF y
<1>5. EditorBecomes(d, n, y)
    BY <1>1, <1>2, <1>3, <1>4, Becomes DEF x
<1> QED
    BY <1>1, <1>4, <1>5 DEF s

LEMMA TypeKeeps ==
    ASSUME SessionInv, NEW d \in Devices, Type(d)
    PROVE  SessionInv'
<1>1. PICK y \in Screen : EditorBecomes(d, Len(stack[d]), y)
                          /\ TypesIn(Top(d), y, member[d][Top(d).client])
    BY TypeStep
<1>2. UNCHANGED <<serviceVars, delegate, pending, asked>> /\ ~ Loading(d)
    BY DEF Type, Idle
<1>3. Top(d) = stack[d][Len(stack[d])] /\ Top(d).loaded
    BY <1>2, DeviceFacts DEF Loading, Type
<1> QED
    BY <1>1, <1>2, <1>3, RedoneKeeps DEF EditorBecomes, TypesIn

(* The burst is broadcast to session s, as its event number n.              *)
Sends(x, y, s, n) ==
    /\ ~ y.burst /\ y.history = x.history \union {<<s, n>>}
    /\ y.loaded = x.loaded /\ y.unsent = x.unsent

LEMMA SendStep ==
    ASSUME SessionInv, NEW d \in Devices, NEW i \in DOMAIN stack[d], TimerFires(d, i),
           NEW s, s = member[d][stack[d][i].client], s # 0, Live(s)
    PROVE  /\ s \in 1 .. Len(sessions)
           /\ \E y \in Screen : /\ EditorBecomes(d, i, y)
                                /\ Sends(stack[d][i], y, s, Len(sessions[s].log))
<1> DEFINE x == stack[d][i]
           n == Len(sessions[s].log)
           y == [x EXCEPT !.burst = FALSE, !.history = @ \union {<<s, n>>}]
<1>1. x \in EditorScreen /\ x.kind = "editor" /\ x.client \in Clients
    BY DeviceFacts, ScreenKinds DEF TimerFires
<1>2. s \in 1 .. Len(sessions)
    BY <1>1, DeviceFacts DEF SessionInv, Served
<1>3. n \in Nat
  <2>1. sessions[s] \in SessionRecord
      BY <1>2 DEF SessionInv, Types
  <2> QED
      BY <2>1 DEF SessionRecord
<1>4. stack' = [stack EXCEPT ![d] = [stack[d] EXCEPT ![i] = y]]
    BY DEF TimerFires, SessionInv, Types
<1>5. <<s, n>> \in Nat \X Nat
    BY <1>2, <1>3
<1> HIDE DEF x, n
<1>6. y \in Screen /\ y.kind = "editor" /\ y.client = x.client /\ Sends(x, y, s, n)
  <2> DEFINE e == <<s, n>>
  <2>1. x \in EditorScreen /\ e \in Nat \X Nat
        /\ y = [x EXCEPT !.burst = FALSE, !.history = @ \union {e}]
      BY <1>1, <1>5
  <2> HIDE DEF y, e
  <2>2. /\ y \in Screen /\ y.kind = "editor" /\ y.client = x.client
        /\ y.loaded = x.loaded /\ y.history = x.history \union {e} /\ ~ y.burst
        /\ y.unsent = x.unsent
      BY <2>1 DEF Screen, EditorScreen
  <2> QED
      BY <2>2 DEF Sends, e
<1> HIDE DEF y
<1>7. EditorBecomes(d, i, y)
    BY <1>1, <1>4, <1>6, Becomes DEF x
<1> QED
    BY <1>2, <1>6, <1>7 DEF x, n

Fails(x, y) ==
    ~ y.burst /\ y.unsent /\ y.history = x.history /\ y.loaded = x.loaded

LEMMA FailStep ==
    ASSUME SessionInv, NEW d \in Devices, NEW i \in DOMAIN stack[d], TimerFires(d, i),
           ~ (member[d][stack[d][i].client] # 0 /\ Live(member[d][stack[d][i].client]))
    PROVE  \E y \in Screen : EditorBecomes(d, i, y) /\ Fails(stack[d][i], y)
<1> DEFINE x == stack[d][i]
           y == [x EXCEPT !.burst = FALSE, !.unsent = TRUE]
<1>1. x \in EditorScreen /\ x.kind = "editor"
    BY DeviceFacts, ScreenKinds DEF TimerFires
<1>2. stack' = [stack EXCEPT ![d] = [stack[d] EXCEPT ![i] = y]]
    BY DEF TimerFires, SessionInv, Types
<1> HIDE DEF x
<1>3. y \in Screen /\ y.kind = "editor" /\ y.client = x.client /\ Fails(x, y)
    BY <1>1, EditorFails DEF Fails
<1> HIDE DEF y
<1>4. EditorBecomes(d, i, y)
    BY <1>1, <1>2, <1>3, Becomes DEF x
<1> QED
    BY <1>3, <1>4 DEF x

LEMMA LogGrows ==
    ASSUME SessionInv, NEW s \in 1 .. Len(sessions), NEW e \in Devices \X Clients \X Nat,
           sessions' = [sessions EXCEPT ![s].log = Append(@, e)]
    PROVE  /\ sessions' \in Seq(SessionRecord) /\ Len(sessions') = Len(sessions)
           /\ \A n \in 1 .. Len(sessions) : /\ n # s => sessions'[n] = sessions[n]
                                            /\ sessions'[n].ended = sessions[n].ended
           /\ sessions[s].log \in Seq(Devices \X Clients \X Nat)
           /\ sessions'[s].log = Append(sessions[s].log, e)
<1> DEFINE x == sessions[s]
           l == Append(x.log, e)
           y == [x EXCEPT !.log = l]
<1>1. sessions \in Seq(SessionRecord) /\ Len(sessions) \in Nat /\ DOMAIN sessions = 1 .. Len(sessions)
      /\ x \in SessionRecord
    BY DEF SessionInv, Types
<1>2. x.log \in Seq(Devices \X Clients \X Nat)
    BY <1>1 DEF SessionRecord
<1>3. l \in Seq(Devices \X Clients \X Nat)
    BY <1>2
<1>4. sessions' = [sessions EXCEPT ![s] = y]
    OBVIOUS
<1> HIDE DEF x, l
<1>5. y \in SessionRecord /\ y.log = l /\ y.ended = x.ended
    BY <1>1, <1>3 DEF SessionRecord
<1> HIDE DEF y
<1>6. sessions' \in Seq(SessionRecord) /\ Len(sessions') = Len(sessions)
  <2>1. y \in SessionRecord /\ s \in 1 .. Len(sessions) /\ sessions \in Seq(SessionRecord)
      BY <1>1, <1>5
  <2>2. [sessions EXCEPT ![s] = y] \in Seq(SessionRecord)
        /\ Len([sessions EXCEPT ![s] = y]) = Len(sessions)
      BY <2>1, ExceptSeq, Zenon
  <2> QED
      BY <1>4, <2>2
<1>7. sessions'[s] = y /\ \A n \in 1 .. Len(sessions) : n # s => sessions'[n] = sessions[n]
    BY <1>1, <1>4
<1> QED
    BY <1>2, <1>5, <1>6, <1>7 DEF x, l

(* A step of device d in which an editor of its becomes another, and the    *)
(* log of a session may grow or an event may be handed over.                *)
LEMMA ScreensKeep ==
    ASSUME SessionInv, NEW d \in Devices, NEW i, NEW t, Redone(stack[d], t, i),
           t[i].loaded \/ (~ stack[d][i].loaded /\ t[i].history = {}),
           stack' = [stack EXCEPT ![d] = t], UNCHANGED <<member, delegate, pending, asked>>,
           sessions' \in Seq(SessionRecord), Len(sessions') = Len(sessions),
           handed' \in [Devices -> [Clients -> Nat]], Served'
    PROVE  SessionInv'
<1>1. t \in Seq(Screen) /\ Shape(t, delegate[d])
      /\ Known(t, pending[d], Len(sessions)) /\ OneClaim(t, member[d], pending[d])
    BY RedoneFacts
<1>2. Types'
    BY <1>1 DEF SessionInv, Types
<1>3. ASSUME NEW e \in Devices PROVE DeviceOK(e)'
  <2>1. stack'[d] = t
      BY DEF SessionInv, Types
  <2>2. CASE e = d
      BY <1>1, <2>1, <2>2 DEF DeviceOK
  <2>3. CASE e # d
      BY <2>3 DEF SessionInv, Types, DeviceOK
  <2> QED
      BY <2>2, <2>3
<1> QED
    BY <1>2, <1>3 DEF SessionInv

LEMMA TimerFiresKeeps ==
    ASSUME SessionInv, NEW d \in Devices, NEW i \in DOMAIN stack[d], TimerFires(d, i)
    PROVE  SessionInv'
<1> DEFINE x == stack[d][i]
           s == member[d][x.client]
<1>1. x \in EditorScreen /\ x.client \in Clients /\ x.typedIn \in Nat /\ x.loaded
    BY DeviceFacts, ScreenKinds DEF TimerFires, Idle, Loading
<1>2. UNCHANGED <<member, handed, delegate, pending, asked>>
    BY DEF TimerFires
<1>3. handed \in [Devices -> [Clients -> Nat]] /\ sessions \in Seq(SessionRecord)
    BY DEF SessionInv, Types
<1>4. CASE s # 0 /\ Live(s)
  <2> DEFINE n == Len(sessions[s].log)
             e == <<d, x.client, x.typedIn>>
  <2>1. s \in 1 .. Len(sessions)
        /\ \E y \in Screen : EditorBecomes(d, i, y) /\ Sends(x, y, s, n)
      BY <1>4, SendStep
  <2>2. PICK y \in Screen : EditorBecomes(d, i, y) /\ Sends(x, y, s, n)
      BY <2>1
  <2>3. sessions' = [sessions EXCEPT ![s].log = Append(@, e)]
      BY <1>4 DEF TimerFires
  <2>4. e \in Devices \X Clients \X Nat
      BY <1>1
  <2> HIDE DEF s, e
  <2>5. /\ sessions' \in Seq(SessionRecord) /\ Len(sessions') = Len(sessions)
        /\ \A m \in 1 .. Len(sessions) : m # s => sessions'[m] = sessions[m]
        /\ sessions[s].log \in Seq(Devices \X Clients \X Nat)
        /\ sessions'[s].log = Append(sessions[s].log, e)
      BY <2>1, <2>3, <2>4, LogGrows
  <2>6. Len(sessions'[s].log) = n + 1 /\ n \in Nat
      BY <2>4, <2>5
  <2>7. Served'
    <3> SUFFICES ASSUME NEW f \in Devices, NEW c \in Clients
                 PROVE  /\ member[f][c] <= Len(sessions')
                        /\ member[f][c] # 0 => handed[f][c] <= Len(sessions'[member[f][c]].log)
        BY <1>2 DEF Served
    <3>1. /\ member[f][c] \in Nat /\ member[f][c] <= Len(sessions) /\ handed[f][c] \in Nat
          /\ member[f][c] # 0 => handed[f][c] <= Len(sessions[member[f][c]].log)
        BY DEF SessionInv, Types, Served
    <3>2. CASE member[f][c] = 0
        BY <2>5, <3>1, <3>2
    <3>3. CASE member[f][c] = s
        BY <2>5, <2>6, <3>1, <3>3
    <3>4. CASE member[f][c] # 0 /\ member[f][c] # s
      <4>1. member[f][c] \in 1 .. Len(sessions)
          BY <1>3, <3>1, <3>4
      <4> QED
          BY <2>5, <3>1, <3>4, <4>1
    <3> QED
        BY <3>2, <3>3, <3>4
  <2> QED
      BY <1>1, <1>2, <1>3, <2>2, <2>5, <2>7, ScreensKeep DEF EditorBecomes, Sends
<1>5. CASE ~ (s # 0 /\ Live(s))
  <2>1. PICK y \in Screen : EditorBecomes(d, i, y) /\ Fails(x, y)
      BY <1>5, FailStep
  <2>2. UNCHANGED sessions
      BY <1>5 DEF TimerFires
  <2> QED
      BY <1>1, <1>2, <2>1, <2>2, RedoneKeeps DEF EditorBecomes, Fails, serviceVars
<1> QED
    BY <1>4, <1>5

-----------------------------------------------------------------------------
(* The editor that a client's events are for.                               *)
Latest(d, k) == CHOOSE i \in EditorsOf(d, k) : \A j \in EditorsOf(d, k) : j <= i

LEMMA LeastNumber ==
    ASSUME NEW T, T \subseteq Nat, T # {}
    PROVE  \E n \in T : \A m \in T : n <= m
<1>1. PICK n \in T : \A m \in T : ~ (<<m, n>> \in OpToRel(<, Nat))
    BY NatLessThanWellFounded, WFMin
<1>2. ASSUME NEW m \in T PROVE n <= m
    <2>1. n \in Nat /\ m \in Nat
        OBVIOUS
    <2>2. ~ (m < n)
        BY <1>1, <2>1 DEF OpToRel
    <2> QED
        BY <2>1, <2>2
<1> QED
    BY <1>2

LEMMA LatestIsLast ==
    ASSUME SessionInv, NEW d \in Devices, NEW k \in Clients, EditorsOf(d, k) # {}
    PROVE  Latest(d, k) \in EditorsOf(d, k) /\ \A j \in EditorsOf(d, k) : j <= Latest(d, k)
<1> DEFINE E == EditorsOf(d, k)
           n == Len(stack[d])
           above == {m \in Nat : \A j \in E : j <= m}
<1>1. n \in Nat /\ E \subseteq 1 .. n
    BY DeviceFacts DEF EditorsOf
<1> HIDE DEF n, E
<1>2. above \subseteq Nat /\ n \in above
    BY <1>1
<1>3. PICK m \in above : \A h \in above : m <= h
  <2> HIDE DEF above
  <2> QED
      BY <1>2, LeastNumber
<1>4. m \in Nat /\ \A j \in E : j <= m
    OBVIOUS
<1>5. m \in E
  <2> SUFFICES ASSUME m \notin E PROVE FALSE
      OBVIOUS
  <2>1. \A j \in E : j <= m - 1 /\ j \in Nat /\ j >= 1
      BY <1>1, <1>4
  <2>2. PICK j \in E : TRUE
      BY DEF E
  <2>3. m - 1 \in Nat
      BY <1>4, <2>1, <2>2
  <2>4. m - 1 \in above
      BY <2>1, <2>3
  <2> QED
      BY <1>3, <1>4, <2>4
<1>6. \E i \in E : \A j \in E : j <= i
    BY <1>4, <1>5
<1> QED
    BY <1>6, Zenon DEF Latest, E

(* An event handed over, and what the editor makes of it.                   *)
Hears(x, y, id) ==
    /\ y.history = x.history \union {id}
    /\ y.loaded = x.loaded /\ y.burst = x.burst /\ y.typedIn = x.typedIn /\ y.unsent = x.unsent

NextEvent(d, k) == <<member[d][k], handed[d][k]>>
Author(d, k) == sessions[member[d][k]].log[handed[d][k] + 1]
FromAnother(d, k) == <<Author(d, k)[1], Author(d, k)[2]>> # <<d, k>>

LEMMA ReceiveFacts ==
    ASSUME SessionInv, NEW d \in Devices, NEW k \in Clients, Receive(d, k)
    PROVE  /\ member[d][k] \in 1 .. Len(sessions)
           /\ handed[d][k] \in Nat /\ handed[d][k] < Len(sessions[member[d][k]].log)
           /\ handed' = [handed EXCEPT ![d][k] = @ + 1]
           /\ UNCHANGED <<sessions, member, delegate, pending, asked, raised>>
<1>1. member[d][k] \in Nat /\ member[d][k] <= Len(sessions) /\ handed[d][k] \in Nat
      /\ Len(sessions) \in Nat
    BY DEF SessionInv, Types, Served
<1>2. member[d][k] # 0 /\ handed[d][k] < Len(sessions[member[d][k]].log)
      /\ handed' = [handed EXCEPT ![d][k] = @ + 1]
      /\ UNCHANGED <<sessions, member, delegate, pending, asked, raised>>
    BY DEF Receive
<1> QED
    BY <1>1, <1>2

LEMMA ReceiveStep ==
    ASSUME SessionInv, NEW d \in Devices, NEW k \in Clients, Receive(d, k)
    PROVE  LET i == Latest(d, k)
           IN  IF delegate[d][k] = "editor" /\ Takes(stack[d][i]) /\ FromAnother(d, k)
               THEN /\ i \in EditorsOf(d, k)
                    /\ \E y \in Screen : EditorBecomes(d, i, y) /\ Hears(stack[d][i], y, NextEvent(d, k))
               ELSE UNCHANGED stack
<1> DEFINE i == Latest(d, k)
           x == stack[d][i]
           id == NextEvent(d, k)
           y == [x EXCEPT !.history = @ \union {id}]
<1>1. CASE delegate[d][k] = "editor" /\ Takes(x) /\ FromAnother(d, k)
  <2>1. stack' = [stack EXCEPT ![d][i].history = @ \union {id}]
      BY <1>1 DEF Receive, Latest, FromAnother, Author, NextEvent
  <2>2. EditorsOf(d, k) # {}
      BY <1>1, DeviceFacts DEF Shape, EditorsOf
  <2>3. i \in EditorsOf(d, k)
      BY <2>2, LatestIsLast
  <2>4. x \in EditorScreen /\ x.kind = "editor" /\ i \in DOMAIN stack[d]
      BY <2>3, DeviceFacts, ScreenKinds DEF EditorsOf
  <2>5. id \in Nat \X Nat
      BY DEF NextEvent, SessionInv, Types
  <2>6. stack' = [stack EXCEPT ![d] = [stack[d] EXCEPT ![i] = y]]
      BY <2>1 DEF SessionInv, Types
  <2> HIDE DEF x, id, i
  <2>7. y \in Screen /\ y.kind = "editor" /\ y.client = x.client /\ Hears(x, y, id)
      BY <2>4, <2>5 DEF Screen, EditorScreen, Hears
  <2> HIDE DEF y
  <2>8. EditorBecomes(d, i, y)
      BY <2>4, <2>6, <2>7, Becomes DEF x
  <2> QED
      BY <1>1, <2>3, <2>7, <2>8 DEF i, x, id
<1>2. CASE ~ (delegate[d][k] = "editor" /\ Takes(x) /\ FromAnother(d, k))
  <2>1. UNCHANGED stack
      BY <1>2 DEF Receive, Latest, FromAnother, Author
  <2> QED
      BY <1>2, <2>1
<1> QED
    BY <1>1, <1>2

LEMMA HandedServed ==
    ASSUME SessionInv, NEW d \in Devices, NEW k \in Clients, Receive(d, k)
    PROVE  Served' /\ handed' \in [Devices -> [Clients -> Nat]]
<1>0. handed' = [handed EXCEPT ![d][k] = @ + 1]
    BY DEF Receive
<1>1. handed' \in [Devices -> [Clients -> Nat]]
    BY <1>0 DEF SessionInv, Types
<1>2. ASSUME NEW e \in Devices, NEW c \in Clients
      PROVE  handed'[e][c] = IF e = d /\ c = k THEN handed[e][c] + 1 ELSE handed[e][c]
    BY <1>0 DEF SessionInv, Types
<1>3. UNCHANGED <<sessions, member>>
    BY ReceiveFacts
<1>4. Served'
  <2> SUFFICES ASSUME NEW e \in Devices, NEW c \in Clients
               PROVE  /\ member[e][c] <= Len(sessions)
                      /\ member[e][c] # 0 => handed'[e][c] <= Len(sessions[member[e][c]].log)
      BY <1>3 DEF Served
  <2>1. /\ member[e][c] <= Len(sessions)
        /\ member[e][c] # 0 => handed[e][c] <= Len(sessions[member[e][c]].log)
      BY DEF SessionInv, Served
  <2>2. CASE e = d /\ c = k
    <3>1. sessions[member[d][k]] \in SessionRecord
        BY ReceiveFacts DEF SessionInv, Types
    <3>2. Len(sessions[member[d][k]].log) \in Nat
        BY <3>1 DEF SessionRecord
    <3> QED
        BY <1>2, <2>1, <2>2, <3>2, ReceiveFacts
  <2>3. CASE ~ (e = d /\ c = k)
      BY <1>2, <2>1, <2>3
  <2> QED
      BY <2>2, <2>3
<1> QED
    BY <1>1, <1>4

LEMMA ReceiveKeeps ==
    ASSUME SessionInv, NEW d \in Devices, NEW k \in Clients, Receive(d, k)
    PROVE  SessionInv'
<1> DEFINE i == Latest(d, k)
           hears == delegate[d][k] = "editor" /\ Takes(stack[d][i]) /\ FromAnother(d, k)
<1>1. UNCHANGED <<sessions, member, delegate, pending, asked>>
    BY ReceiveFacts
<1>2. sessions \in Seq(SessionRecord)
    BY DEF SessionInv, Types
<1>3. CASE hears
  <2>1. PICK y \in Screen : EditorBecomes(d, i, y) /\ Hears(stack[d][i], y, NextEvent(d, k))
      BY <1>3, ReceiveStep
  <2>2. y.loaded
      BY <1>3, <2>1 DEF Hears, Takes
  <2> HIDE DEF i
  <2> QED
      BY <1>1, <1>2, <2>1, <2>2, HandedServed, ScreensKeep DEF EditorBecomes
<1>4. CASE ~ hears
  <2>1. UNCHANGED stack
      BY <1>4, ReceiveStep
  <2>2. Types'
      BY <1>1, <2>1, HandedServed DEF SessionInv, Types
  <2>3. ASSUME NEW e \in Devices PROVE DeviceOK(e)'
      BY <1>1, <2>1 DEF SessionInv, DeviceOK
  <2> QED
      BY <2>2, <2>3, HandedServed DEF SessionInv
<1> QED
    BY <1>3, <1>4

-----------------------------------------------------------------------------
LEMMA UserKeeps ==
    ASSUME SessionAssumption, SessionInv, NEW d \in Devices, UserStep(d)
    PROVE  SessionInv'
<1>1. CASE AskCreate(d)
  <2>1. Ask(d, "create", Top(d).client, 0)
      BY <1>1 DEF AskCreate
  <2> QED
      BY <2>1, AskKeeps
<1>2. CASE AskList(d)
  <2>1. Ask(d, "list", Top(d).client, 0)
      BY <1>2 DEF AskList
  <2> QED
      BY <2>1, AskKeeps
<1>3. CASE SelectRow(d)
  <2>1. PICK s \in Top(d).found : Ask(d, "join", Top(d).client, s)
      BY <1>3 DEF SelectRow
  <2>2. Top(d).found \subseteq 1 .. Len(sessions)
      BY <1>3, DeviceFacts DEF SelectRow, Known
  <2>3. s \in 1 .. Len(sessions) /\ s \in Nat
      BY <2>2
  <2> QED
      BY <2>1, <2>3, AskKeeps
<1> QED
    BY <1>1, <1>2, <1>3, GoBackKeeps, ExitKeeps, TypeKeeps DEF UserStep

LEMMA DeviceStepKeeps ==
    ASSUME SessionInv, NEW d \in Devices, DeviceStep(d)
    PROVE  SessionInv'
BY CompleteKeeps, LoadEditorKeeps, TimerFiresKeeps, ReceiveKeeps DEF DeviceStep

LEMMA StutterKeeps ==
    ASSUME SessionInv, UNCHANGED vars
    PROVE  SessionInv'
<1>1. UNCHANGED <<sessions, member, handed, delegate, stack, pending, asked>>
    BY DEF vars, serviceVars, deviceVars
<1>2. Types' /\ Served'
    BY <1>1 DEF SessionInv, Types, Served
<1>3. ASSUME NEW d \in Devices PROVE DeviceOK(d)'
    BY <1>1 DEF SessionInv, DeviceOK
<1> QED
    BY <1>2, <1>3 DEF SessionInv

LEMMA SessionNext ==
    ASSUME SessionAssumption, SessionInv, [Next]_vars
    PROVE  SessionInv'
BY UserKeeps, ServeKeeps, DeviceStepKeeps, StutterKeeps DEF Next

LEMMA SessionInvariant ==
    ASSUME SessionAssumption
    PROVE  Spec => []SessionInv
<1>1. Init => SessionInv
    BY SessionInit
<1>2. SessionInv /\ [Next]_vars => SessionInv'
    BY SessionNext
<1> QED
    BY <1>1, <1>2, PTL DEF Spec

LEMMA InvTypes ==
    ASSUME SessionInv
    PROVE  TypeOK
<1>1. ASSUME NEW d \in Devices, NEW k \in Clients
      PROVE  /\ member[d][k] \in 0 .. Len(sessions)
             /\ delegate[d][k] \in {"menu", "editor"}
             /\ member[d][k] # 0 => handed[d][k] <= Len(sessions[member[d][k]].log)
             /\ delegate[d][k] = "editor" => EditorsOf(d, k) # {}
  <2>1. /\ member[d][k] \in Nat /\ member[d][k] <= Len(sessions) /\ Len(sessions) \in Nat
        /\ member[d][k] # 0 => handed[d][k] <= Len(sessions[member[d][k]].log)
      BY DEF SessionInv, Types, Served
  <2>2. delegate[d][k] = "editor" => EditorsOf(d, k) # {}
      BY DeviceFacts DEF Shape, EditorsOf
  <2>3. delegate[d][k] \in {"menu", "editor"}
      BY DEF SessionInv, Types
  <2>4. member[d][k] \in 0 .. Len(sessions)
      BY <2>1
  <2> QED
      BY <2>1, <2>2, <2>3, <2>4
<1>2. ASSUME NEW d \in Devices
      PROVE  /\ stack[d] # <<>> /\ stack[d][1] = Menu(1)
             /\ \A i \in Editors(d) : i < Len(stack[d]) => stack[d][i].loaded
    BY DeviceFacts DEF Shape, Editors
<1> QED
    BY <1>1, <1>2 DEF TypeOK

LEMMA InvMembers ==
    ASSUME SessionInv
    PROVE  VisibleEditorIsMember
<1> SUFFICES ASSUME NEW d \in Devices, Top(d).kind = "editor"
             PROVE  member[d][Top(d).client] # 0
    BY DEF VisibleEditorIsMember
<1> DEFINE n == Len(stack[d])
<1>0. n \in DOMAIN stack[d] /\ Top(d) = stack[d][n] /\ \A j \in DOMAIN stack[d] : j <= n
      /\ n \in Nat /\ DOMAIN stack[d] = 1 .. n
    BY DeviceFacts
<1> HIDE DEF n
<1>1. Within(stack[d], Top(d).client)
    BY <1>0 DEF Within, Covered
<1> QED
    BY <1>1, DeviceFacts DEF OneClaim

(* Screens, delegates and sessions fit together, whatever the users ask for *)
(* before they are answered (MainMenu.mm:125-193, SessionViewController.mm: *)
(* 150-172).  In particular an editor on the screen belongs to a client     *)
(* that is in a session: its place there is claimed once, by an answer that *)
(* is on its way, by an editor that can be on the screen, or by a request   *)
(* to leave.                                                                *)
THEOREM EntryFits ==
    ASSUME SessionAssumption
    PROVE  Spec => []ScreensFit
<1>1. SessionInv => ScreensFit
    BY InvTypes, InvMembers DEF ScreensFit
<1> QED
    BY <1>1, SessionInvariant, PTL

-----------------------------------------------------------------------------
(* What an editor misses of the events handed to its client.                *)
IsLatest(s, k, i) ==
    /\ i \in DOMAIN s /\ s[i].kind = "editor" /\ s[i].client = k
    /\ \A j \in DOMAIN s : s[j].kind = "editor" /\ s[j].client = k => j <= i

ByOthers(d, k) ==
    {n \in 0 .. handed[d][k] - 1 :
        <<sessions[member[d][k]].log[n + 1][1], sessions[member[d][k]].log[n + 1][2]>> # <<d, k>>}

NoGap(h, s, F) == \A m, n \in F : m < n /\ <<s, m>> \in h => <<s, n>> \in h

Hearing(d, k) ==
    member[d][k] # 0 =>
        \A i \in DOMAIN stack[d] :
            IsLatest(stack[d], k, i) => NoGap(stack[d][i].history, member[d][k], ByOthers(d, k))

HearingInv == SessionInv /\ \A d \in Devices, k \in Clients : Hearing(d, k)

(* The latest editor of a client is as it was, or new.                      *)
SameLatest(s, t, k) ==
    \A i \in DOMAIN t : IsLatest(t, k, i) =>
        t[i].history = {} \/ (IsLatest(s, k, i) /\ t[i].history = s[i].history)

LEMMA LatestPushed ==
    ASSUME NEW s \in Seq(Screen), NEW x \in Screen, x.kind = "editor" => x.history = {}, NEW k
    PROVE  SameLatest(s, Append(s, x), k)
<1> DEFINE t == Append(s, x)
           n == Len(s) + 1
<1>1. /\ DOMAIN t = DOMAIN s \union {n} /\ t[n] = x
      /\ \A i \in DOMAIN s : i < n /\ t[i] = s[i]
    BY Pushed
<1> HIDE DEF t, n
<1>2. SameLatest(s, t, k)
    BY <1>1 DEF SameLatest, IsLatest
<1> QED
    BY <1>2 DEF t

LEMMA LatestPopped ==
    ASSUME NEW s \in Seq(Screen), s # <<>>, Last(s).kind = "list", NEW k
    PROVE  SameLatest(s, Front(s), k)
<1> DEFINE t == Front(s)
           n == Len(s)
<1>1. DOMAIN t = DOMAIN s \ {n} /\ \A i \in DOMAIN t : t[i] = s[i]
    BY Popped
<1>2. s[n].kind = "list"
    BY DEF Last
<1> HIDE DEF t, n
<1>3. SameLatest(s, t, k)
    BY <1>1, <1>2 DEF SameLatest, IsLatest
<1> QED
    BY <1>3 DEF t

LEMMA LatestRedone ==
    ASSUME NEW s, NEW t, NEW i, Redone(s, t, i), NEW k, NEW j \in DOMAIN t, IsLatest(t, k, j)
    PROVE  IsLatest(s, k, j) /\ (j # i => t[j].history = s[j].history)
<1>1. \A h \in DOMAIN s : t[h].kind = s[h].kind /\ t[h].client = s[h].client
    BY DEF Redone
<1> QED
    BY <1>1 DEF Redone, IsLatest

(* A step that leaves what client k of device d hears of as it was.         *)
Undisturbed(d, k) ==
    \/ member'[d][k] = 0
    \/ handed'[d][k] = 0
    \/ /\ member'[d][k] = member[d][k] /\ handed'[d][k] = handed[d][k]
       /\ \A n \in 1 .. handed[d][k] :
             sessions'[member[d][k]].log[n] = sessions[member[d][k]].log[n]
       /\ \A i \in DOMAIN stack'[d] : IsLatest(stack'[d], k, i) =>
             \/ stack'[d][i].history = {}
             \/ /\ IsLatest(stack[d], k, i)
                /\ \A n \in ByOthers(d, k) : <<member[d][k], n>> \in stack'[d][i].history <=>
                                             <<member[d][k], n>> \in stack[d][i].history

LEMMA UndisturbedHears ==
    ASSUME SessionInv, NEW d \in Devices, NEW k \in Clients, Hearing(d, k), Undisturbed(d, k)
    PROVE  Hearing(d, k)'
<1>1. SUFFICES ASSUME member'[d][k] # 0, NEW i \in DOMAIN stack'[d], IsLatest(stack'[d], k, i)
               PROVE  NoGap(stack'[d][i].history, member'[d][k], ByOthers(d, k)')
    BY Zenon DEF Hearing, IsLatest
<1>2. CASE handed'[d][k] = 0
  <2>1. ByOthers(d, k)' = {}
      BY <1>2 DEF ByOthers
  <2> QED
      BY <2>1 DEF NoGap
<1>3. CASE handed'[d][k] # 0
  <2>1. /\ member'[d][k] = member[d][k] /\ handed'[d][k] = handed[d][k] /\ handed[d][k] \in Nat
        /\ \A n \in 1 .. handed[d][k] :
              sessions'[member[d][k]].log[n] = sessions[member[d][k]].log[n]
      BY <1>1, <1>3, DeviceFacts DEF Undisturbed
  <2>2. \/ stack'[d][i].history = {}
        \/ /\ IsLatest(stack[d], k, i)
           /\ \A n \in ByOthers(d, k) : <<member[d][k], n>> \in stack'[d][i].history <=>
                                        <<member[d][k], n>> \in stack[d][i].history
      BY <1>1, <1>3 DEF Undisturbed
  <2>3. \A n \in 0 .. handed[d][k] - 1 : n + 1 \in 1 .. handed[d][k]
      BY <2>1
  <2>4. ByOthers(d, k)' = ByOthers(d, k)
      BY <2>1, <2>3 DEF ByOthers
  <2>5. IsLatest(stack[d], k, i) => NoGap(stack[d][i].history, member[d][k], ByOthers(d, k))
      BY <1>1, <2>1 DEF Hearing, IsLatest
  <2> HIDE DEF ByOthers, IsLatest
  <2> QED
      BY <2>1, <2>2, <2>4, <2>5 DEF NoGap
<1> QED
    BY <1>2, <1>3

(* Steps that hand nothing over and leave the sessions' logs alone.         *)
LEMMA QuietHears ==
    ASSUME HearingInv,
           \A d \in Devices, k \in Clients : SameLatest(stack[d], stack'[d], k),
           \A d \in Devices, k \in Clients :
              \/ member'[d][k] = 0
              \/ handed'[d][k] = 0
              \/ member'[d][k] = member[d][k] /\ handed'[d][k] = handed[d][k],
           \A s \in 1 .. Len(sessions) : sessions'[s].log = sessions[s].log
    PROVE  \A d \in Devices, k \in Clients : Hearing(d, k)'
<1> SUFFICES ASSUME NEW d \in Devices, NEW k \in Clients PROVE Hearing(d, k)'
    OBVIOUS
<1>1. member[d][k] \in 0 .. Len(sessions)
    BY DEF HearingInv, SessionInv, Types, Served
<1>2. member[d][k] # 0 => sessions'[member[d][k]].log = sessions[member[d][k]].log
    BY <1>1
<1>3. Undisturbed(d, k)
    BY <1>1, <1>2 DEF Undisturbed, SameLatest
<1> QED
    BY <1>3, UndisturbedHears DEF HearingInv

LEMMA SameStack ==
    ASSUME SessionInv, NEW d \in Devices, NEW t, stack' = [stack EXCEPT ![d] = t],
           \A k \in Clients : SameLatest(stack[d], t, k)
    PROVE  \A e \in Devices, k \in Clients : SameLatest(stack[e], stack'[e], k)
<1>1. \A e \in Devices : stack'[e] = IF e = d THEN t ELSE stack[e]
    BY DEF SessionInv, Types
<1>2. \A e \in Devices, k \in Clients : SameLatest(stack[e], stack[e], k)
    BY DEF SameLatest
<1> QED
    BY <1>1, <1>2

LEMMA SameLogs ==
    ASSUME HearingInv, UNCHANGED serviceVars,
           \A d \in Devices, k \in Clients : SameLatest(stack[d], stack'[d], k)
    PROVE  \A d \in Devices, k \in Clients : Hearing(d, k)'
<1>1. UNCHANGED <<sessions, member, handed>>
    BY DEF serviceVars
<1> QED
    BY <1>1, QuietHears

LEMMA StillScreensHear ==
    ASSUME HearingInv, UNCHANGED <<serviceVars, stack>>
    PROVE  \A d \in Devices, k \in Clients : Hearing(d, k)'
<1>1. \A d \in Devices, k \in Clients : SameLatest(stack[d], stack'[d], k)
    BY DEF SameLatest
<1> QED
    BY <1>1, SameLogs

(* Steps that push a screen, which is not an editor that holds anything.    *)
LEMMA PushHears ==
    ASSUME HearingInv, NEW d \in Devices, NEW x \in Screen, x.kind = "editor" => x.history = {},
           stack' = [stack EXCEPT ![d] = Append(@, x)], UNCHANGED serviceVars
    PROVE  \A e \in Devices, k \in Clients : Hearing(e, k)'
<1> DEFINE t == Append(stack[d], x)
<1>1. SessionInv /\ stack[d] \in Seq(Screen) /\ stack' = [stack EXCEPT ![d] = t]
    BY DEF HearingInv, SessionInv, Types
<1>2. \A k \in Clients : SameLatest(stack[d], t, k)
    BY <1>1, LatestPushed
<1> HIDE DEF t
<1> QED
    BY <1>1, <1>2, SameStack, SameLogs

(* Steps in which an editor changes, but for what it holds.                 *)
LEMMA RedoneHears ==
    ASSUME HearingInv, NEW d \in Devices, NEW i, NEW y, EditorBecomes(d, i, y),
           y.history = {} \/ y.history = stack[d][i].history, UNCHANGED serviceVars
    PROVE  \A e \in Devices, k \in Clients : Hearing(e, k)'
<1> DEFINE t == stack'[d]
<1>1. Redone(stack[d], t, i) /\ t[i] = y /\ stack' = [stack EXCEPT ![d] = t]
    BY DEF EditorBecomes
<1> HIDE DEF t
<1>2. \A k \in Clients : SameLatest(stack[d], t, k)
    BY <1>1, LatestRedone DEF SameLatest
<1> QED
    BY <1>1, <1>2, SameStack, SameLogs DEF HearingInv

LEMMA UserHears ==
    ASSUME SessionAssumption, HearingInv, NEW d \in Devices, UserStep(d)
    PROVE  \A e \in Devices, k \in Clients : Hearing(e, k)'
<1>0. SessionInv
    BY DEF HearingInv
<1>1. CASE AskCreate(d) \/ AskList(d) \/ SelectRow(d)
  <2>1. UNCHANGED <<serviceVars, stack>>
      BY <1>1 DEF AskCreate, AskList, SelectRow, Ask
  <2> QED
      BY <2>1, StillScreensHear
<1>2. CASE GoBack(d)
  <2> DEFINE t == Front(stack[d])
  <2>1. stack' = [stack EXCEPT ![d] = t] /\ Last(stack[d]).kind = "list" /\ UNCHANGED serviceVars
      BY <1>2 DEF GoBack, Top
  <2>2. \A k \in Clients : SameLatest(stack[d], t, k)
      BY <1>0, <2>1, DeviceFacts, LatestPopped
  <2> HIDE DEF t
  <2> QED
      BY <1>0, <2>1, <2>2, SameStack, SameLogs
<1>3. CASE Exit(d)
  <2> DEFINE x == Menu(NewClient(d))
  <2>1. stack' = [stack EXCEPT ![d] = Append(@, x)] /\ Menus(d) < MaxMenus /\ UNCHANGED serviceVars
      BY <1>3 DEF Exit
  <2>2. Menus(d) \in Nat /\ MaxMenus \in Nat
      BY <1>0, MenusCount DEF SessionAssumption
  <2>3. NewClient(d) \in Clients
      BY <2>1, <2>2 DEF NewClient, Clients
  <2>4. x \in Screen /\ x.kind = "menu"
      BY <2>3, NewMenu
  <2> HIDE DEF x
  <2> QED
      BY <2>1, <2>4, PushHears
<1>4. CASE Type(d)
  <2>1. PICK y \in Screen : /\ EditorBecomes(d, Len(stack[d]), y)
                            /\ TypesIn(Top(d), y, member[d][Top(d).client])
      BY <1>0, <1>4, TypeStep
  <2>2. UNCHANGED serviceVars /\ Top(d) = stack[d][Len(stack[d])]
      BY <1>0, <1>4, DeviceFacts DEF Type
  <2> QED
      BY <2>1, <2>2, RedoneHears DEF TypesIn
<1> QED
    BY <1>1, <1>2, <1>3, <1>4 DEF UserStep

LEMMA ServeHears ==
    ASSUME HearingInv, NEW d \in Devices, Serve(d)
    PROVE  \A e \in Devices, k \in Clients : Hearing(e, k)'
<1>0. SessionInv /\ UNCHANGED stack
    BY DEF HearingInv, Serve
<1>1. \A e \in Devices, k \in Clients : SameLatest(stack[e], stack'[e], k)
    BY <1>0 DEF SameLatest
<1>2. PICK r \in Unanswered(d) :
         ServeCreate(d, r) \/ ServeList(d, r) \/ ServeJoin(d, r) \/ ServeLeave(d, r)
    BY DEF Serve
<1>3. r.client \in Clients
    BY <1>0, DeviceFacts DEF Unanswered, Request
<1>4. ASSUME NEW n, Enter(d, r.client, n), NEW e \in Devices, NEW k \in Clients
      PROVE  handed'[e][k] = 0 \/ (member'[e][k] = member[e][k] /\ handed'[e][k] = handed[e][k])
    BY <1>0, <1>3, <1>4 DEF Enter, SessionInv, Types
<1>5. CASE ServeCreate(d, r)
  <2>1. CASE member[d][r.client] = 0
    <3> DEFINE x == [owner |-> <<d, r.client>>, log |-> <<>>, ended |-> FALSE]
    <3>1. Enter(d, r.client, Len(sessions) + 1) /\ sessions' = Append(sessions, x)
        BY <1>5, <2>1 DEF ServeCreate
    <3>2. sessions \in Seq(SessionRecord)
        BY <1>0 DEF SessionInv, Types
    <3>3. \A s \in 1 .. Len(sessions) : sessions'[s] = sessions[s]
        BY <3>1, <3>2
    <3>4. \A e \in Devices, k \in Clients :
             \/ handed'[e][k] = 0
             \/ member'[e][k] = member[e][k] /\ handed'[e][k] = handed[e][k]
        BY <1>4, <3>1
    <3> QED
        BY <1>1, <3>3, <3>4, QuietHears
  <2>2. CASE member[d][r.client] # 0
      BY <1>0, <1>5, <2>2, StillScreensHear DEF ServeCreate
  <2> QED
      BY <2>1, <2>2
<1>6. CASE ServeList(d, r)
    BY <1>0, <1>6, StillScreensHear DEF ServeList
<1>7. CASE ServeJoin(d, r)
  <2>1. CASE member[d][r.client] = 0 /\ Live(r.session)
    <3>1. Enter(d, r.client, r.session) /\ UNCHANGED sessions
        BY <1>7, <2>1 DEF ServeJoin
    <3>2. \A e \in Devices, k \in Clients :
             \/ handed'[e][k] = 0
             \/ member'[e][k] = member[e][k] /\ handed'[e][k] = handed[e][k]
        BY <1>4, <3>1
    <3> QED
        BY <1>1, <3>1, <3>2, QuietHears
  <2>2. CASE ~ (member[d][r.client] = 0 /\ Live(r.session))
      BY <1>0, <1>7, <2>2, StillScreensHear DEF ServeJoin, serviceVars
  <2> QED
      BY <2>1, <2>2
<1>8. CASE ServeLeave(d, r)
  <2>1. \A s \in 1 .. Len(sessions) : sessions'[s].log = sessions[s].log
      BY <1>0, <1>8, EndedSessions
  <2>2. \A e \in Devices, k \in Clients :
           /\ member'[e][k] = 0 \/ member'[e][k] = member[e][k]
           /\ handed'[e][k] = handed[e][k]
      BY <1>0, <1>3, <1>8 DEF ServeLeave, SessionInv, Types
  <2> QED
      BY <1>1, <2>1, <2>2, QuietHears
<1> QED
    BY <1>2, <1>5, <1>6, <1>7, <1>8

LEMMA CompleteHears ==
    ASSUME HearingInv, NEW d \in Devices, Complete(d)
    PROVE  \A e \in Devices, k \in Clients : Hearing(e, k)'
<1>0. SessionInv /\ UNCHANGED serviceVars
    BY DEF HearingInv, Complete
<1>1. PICK r \in pending[d] : CompleteEntry(d, r) \/ CompleteList(d, r) \/ CompleteLeave(d, r)
    BY DEF Complete
<1>2. r.client \in Clients /\ r.found \in SUBSET Nat /\ r.number \in Nat
    BY <1>0, DeviceFacts DEF Request
<1>3. CASE UNCHANGED stack
    BY <1>0, <1>3, StillScreensHear
<1>4. CASE OpenEditor(d, r.client)
  <2> DEFINE x == Editor(r.client)
  <2>1. x \in Screen /\ x.history = {}
      BY <1>2, NewEditor
  <2>2. stack' = [stack EXCEPT ![d] = Append(@, x)]
      BY <1>4 DEF OpenEditor
  <2> HIDE DEF x
  <2> QED
      BY <1>0, <2>1, <2>2, PushHears
<1>5. CASE CompleteList(d, r)
  <2> DEFINE x == List(r.client, r.found, r.number)
  <2>1. x \in Screen /\ x.kind = "list"
      BY <1>2, NewList
  <2>2. stack' = [stack EXCEPT ![d] = Append(@, x)]
      BY <1>5 DEF CompleteList
  <2> HIDE DEF x
  <2> QED
      BY <1>0, <2>1, <2>2, PushHears
<1> QED
    BY <1>1, <1>3, <1>4, <1>5 DEF CompleteEntry, CompleteLeave

LEMMA LoadEditorHears ==
    ASSUME HearingInv, NEW d \in Devices, LoadEditor(d)
    PROVE  \A e \in Devices, k \in Clients : Hearing(e, k)'
<1>1. SessionInv /\ UNCHANGED serviceVars
    BY DEF HearingInv, LoadEditor
<1>2. PICK y \in Screen : EditorBecomes(d, Len(stack[d]), y) /\ Loads(Top(d), y)
    BY <1>1, LoadEditorStep
<1> QED
    BY <1>1, <1>2, RedoneHears DEF Loads

LEMMA TimerFiresHears ==
    ASSUME HearingInv, NEW d \in Devices, NEW i \in DOMAIN stack[d], TimerFires(d, i)
    PROVE  \A e \in Devices, k \in Clients : Hearing(e, k)'
<1> DEFINE x == stack[d][i]
           s == member[d][x.client]
<1>0. SessionInv /\ UNCHANGED <<member, handed>>
    BY DEF HearingInv, TimerFires
<1>1. CASE s # 0 /\ Live(s)
  <2> DEFINE n == Len(sessions[s].log)
             id == <<s, n>>
             a == <<d, x.client, x.typedIn>>
  <2>1. s \in 1 .. Len(sessions)
        /\ \E y \in Screen : EditorBecomes(d, i, y) /\ Sends(x, y, s, n)
      BY <1>0, <1>1, SendStep
  <2>2. PICK y \in Screen : EditorBecomes(d, i, y) /\ Sends(x, y, s, n)
      BY <2>1
  <2>3. sessions' = [sessions EXCEPT ![s].log = Append(@, a)]
      BY <1>1 DEF TimerFires
  <2>4. a \in Devices \X Clients \X Nat
      BY <1>0, DeviceFacts, ScreenKinds DEF TimerFires
  <2>5. Redone(stack[d], stack'[d], i) /\ stack'[d][i] = y /\ y.history = x.history \union {id}
      BY <2>2 DEF EditorBecomes, Sends
  <2>6. \A e \in Devices : e # d => stack'[e] = stack[e]
      BY <1>0, <2>2 DEF EditorBecomes, SessionInv, Types
  <2> HIDE DEF s, a
  <2>7. /\ \A m \in 1 .. Len(sessions) : m # s => sessions'[m] = sessions[m]
        /\ sessions[s].log \in Seq(Devices \X Clients \X Nat)
        /\ sessions'[s].log = Append(sessions[s].log, a)
      BY <1>0, <2>1, <2>3, <2>4, LogGrows
  <2> SUFFICES ASSUME NEW e \in Devices, NEW k \in Clients, member[e][k] # 0
               PROVE  Undisturbed(e, k)
      BY <1>0, UndisturbedHears DEF HearingInv, Hearing
  <2> DEFINE h == handed[e][k]
             m == member[e][k]
  <2>8. h \in Nat /\ m \in 1 .. Len(sessions) /\ h <= Len(sessions[m].log)
      BY <1>0 DEF SessionInv, Types, Served
  <2>9. \A j \in 1 .. h : sessions'[m].log[j] = sessions[m].log[j]
    <3>1. CASE m = s
      <4> DEFINE l == sessions[s].log
      <4>1. l \in Seq(Devices \X Clients \X Nat) /\ sessions'[m].log = Append(l, a)
            /\ sessions[m].log = l /\ h <= Len(l) /\ h \in Nat
          BY <2>7, <2>8, <3>1
      <4> HIDE DEF l, h, m
      <4>2. \A j \in 1 .. h : j \in 1 .. Len(l) /\ Append(l, a)[j] = l[j]
          BY <2>4, <4>1
      <4> QED
          BY <4>1, <4>2
    <3>2. CASE m # s
        BY <2>7, <2>8, <3>2
    <3> QED
        BY <3>1, <3>2
  <2>10. \A j \in ByOthers(e, k) : <<m, j>> # id
      BY <2>7, <2>8 DEF ByOthers
  <2> HIDE DEF h, m, id, x, n
  <2>11. ASSUME NEW j \in DOMAIN stack'[e], IsLatest(stack'[e], k, j)
         PROVE  /\ IsLatest(stack[e], k, j)
                /\ \A f \in ByOthers(e, k) : <<m, f>> \in stack'[e][j].history <=>
                                             <<m, f>> \in stack[e][j].history
    <3>1. CASE e = d
      <4>1. IsLatest(stack[d], k, j) /\ (j # i => stack'[d][j].history = stack[d][j].history)
          BY <2>5, <2>11, <3>1, LatestRedone
      <4>2. j = i => stack'[d][j].history = stack[d][j].history \union {id}
          BY <2>5 DEF x
      <4> QED
          BY <2>10, <3>1, <4>1, <4>2
    <3>2. CASE e # d
        BY <2>6, <2>11, <3>2
    <3> QED
        BY <3>1, <3>2
  <2> QED
      BY <1>0, <2>9, <2>11 DEF Undisturbed, h, m
<1>2. CASE ~ (s # 0 /\ Live(s))
  <2>1. PICK y \in Screen : EditorBecomes(d, i, y) /\ Fails(x, y)
      BY <1>0, <1>2, FailStep
  <2>2. UNCHANGED serviceVars
      BY <1>0, <1>2 DEF TimerFires, serviceVars
  <2> QED
      BY <2>1, <2>2, RedoneHears DEF Fails
<1> QED
    BY <1>1, <1>2

LEMMA ReceiveHears ==
    ASSUME HearingInv, NEW d \in Devices, NEW k \in Clients, Receive(d, k)
    PROVE  \A e \in Devices, c \in Clients : Hearing(e, c)'
<1> DEFINE i == Latest(d, k)
           s == member[d][k]
           h == handed[d][k]
           id == <<s, h>>
           hears == delegate[d][k] = "editor" /\ Takes(stack[d][i]) /\ FromAnother(d, k)
<1>0. SessionInv /\ UNCHANGED <<sessions, member, delegate>>
      /\ handed' = [handed EXCEPT ![d][k] = @ + 1]
    BY DEF HearingInv, Receive
<1>1. ASSUME NEW e \in Devices, NEW c \in Clients
      PROVE  handed'[e][c] = IF e = d /\ c = k THEN handed[e][c] + 1 ELSE handed[e][c]
    BY <1>0 DEF SessionInv, Types
<1>2. h \in Nat
    BY <1>0, ReceiveFacts
<1>3. hears =>
         /\ i \in EditorsOf(d, k)
         /\ \E y \in Screen : EditorBecomes(d, i, y) /\ Hears(stack[d][i], y, id)
    BY <1>0, ReceiveStep DEF NextEvent
<1>4. ~ hears => UNCHANGED stack
    BY <1>0, ReceiveStep
<1>5. hears =>
         /\ i \in EditorsOf(d, k) /\ Redone(stack[d], stack'[d], i)
         /\ stack'[d][i].history = stack[d][i].history \union {id}
         /\ \A e \in Devices : e # d => stack'[e] = stack[e]
    BY <1>0, <1>3 DEF EditorBecomes, Hears, SessionInv, Types
<1>6. i \in EditorsOf(d, k) => stack[d][i].client = k
    BY DEF EditorsOf
<1>7. hears <=> delegate[d][k] = "editor" /\ Takes(stack[d][i]) /\ FromAnother(d, k)
    OBVIOUS
<1> HIDE DEF i, hears, id
<1>8. ASSUME NEW e \in Devices, NEW c \in Clients, ~ (e = d /\ c = k)
      PROVE  Hearing(e, c)'
  <2>1. ASSUME NEW j \in DOMAIN stack'[e], IsLatest(stack'[e], c, j)
        PROVE  IsLatest(stack[e], c, j) /\ stack'[e][j].history = stack[e][j].history
    <3>1. CASE hears /\ e = d
      <4>1. IsLatest(stack[d], c, j) /\ (j # i => stack'[d][j].history = stack[d][j].history)
          BY <1>5, <2>1, <3>1, LatestRedone
      <4>2. j # i
          BY <1>5, <1>6, <1>8, <3>1, <4>1 DEF IsLatest
      <4> QED
          BY <3>1, <4>1, <4>2
    <3>2. CASE ~ (hears /\ e = d)
        BY <1>4, <1>5, <2>1, <3>2
    <3> QED
        BY <3>1, <3>2
  <2>2. handed'[e][c] = handed[e][c]
      BY <1>1, <1>8
  <2>3. Undisturbed(e, c)
      BY <1>0, <2>1, <2>2 DEF Undisturbed
  <2> QED
      BY <1>0, <2>3, UndisturbedHears DEF HearingInv
<1>9. Hearing(d, k)'
  <2>1. SUFFICES ASSUME NEW j \in DOMAIN stack'[d], IsLatest(stack'[d], k, j)
                 PROVE  NoGap(stack'[d][j].history, s, ByOthers(d, k)')
      BY <1>0, Zenon DEF Hearing
  <2>2. s # 0
      BY DEF Receive
  <2>3. ByOthers(d, k)' = IF FromAnother(d, k) THEN ByOthers(d, k) \union {h} ELSE ByOthers(d, k)
    <3>1. handed'[d][k] = h + 1
        BY <1>1
    <3>2. 0 .. (h + 1) - 1 = (0 .. h - 1) \union {h}
        BY <1>2
    <3>3. ByOthers(d, k)' = {n \in 0 .. (h + 1) - 1 :
             <<sessions[s].log[n + 1][1], sessions[s].log[n + 1][2]>> # <<d, k>>}
        BY <1>0, <3>1 DEF ByOthers
    <3>4. ByOthers(d, k) = {n \in 0 .. h - 1 :
             <<sessions[s].log[n + 1][1], sessions[s].log[n + 1][2]>> # <<d, k>>}
        BY DEF ByOthers
    <3>5. FromAnother(d, k) <=>
             <<sessions[s].log[h + 1][1], sessions[s].log[h + 1][2]>> # <<d, k>>
        BY DEF FromAnother, Author
    <3> HIDE DEF s, h
    <3> QED
        BY <3>2, <3>3, <3>4, <3>5
  <2>4. \A n \in ByOthers(d, k) : n \in Nat /\ n < h
      BY <1>2 DEF ByOthers
  <2>5. ASSUME IsLatest(stack[d], k, j)
        PROVE  NoGap(stack[d][j].history, s, ByOthers(d, k))
      BY <2>2, <2>5 DEF HearingInv, Hearing, IsLatest
  <2>6. CASE hears
    <3>1. IsLatest(stack[d], k, j) /\ (j # i => stack'[d][j].history = stack[d][j].history)
        BY <1>5, <2>1, <2>6, LatestRedone
    <3>2. j = i
      <4>1. EditorsOf(d, k) # {}
          BY <1>5, <2>6
      <4>2. i \in EditorsOf(d, k) /\ \A f \in EditorsOf(d, k) : f <= i
          BY <1>0, <4>1, LatestIsLast DEF i
      <4>3. j \in EditorsOf(d, k) /\ \A f \in EditorsOf(d, k) : f <= j
          BY <3>1 DEF IsLatest, EditorsOf
      <4>4. i \in Nat /\ j \in Nat /\ i <= j /\ j <= i
          BY <1>0, <4>2, <4>3, DeviceFacts DEF EditorsOf
      <4> QED
          BY <4>4
    <3>3. stack'[d][j].history = stack[d][j].history \union {id}
        BY <1>5, <2>6, <3>2
    <3>4. NoGap(stack[d][j].history, s, ByOthers(d, k))
        BY <2>5, <3>1
    <3>5. ByOthers(d, k)' = ByOthers(d, k) \union {h}
        BY <1>7, <2>3, <2>6
    <3>6. \A n \in ByOthers(d, k) : <<s, n>> # id
        BY <1>2, <2>4 DEF id
    <3>7. <<s, h>> = id
        BY DEF id
    <3> HIDE DEF s, h
    <3> QED
        BY <1>2, <2>4, <3>3, <3>4, <3>5, <3>6, <3>7 DEF NoGap
  <2>7. CASE ~ hears
    <3>1. UNCHANGED stack
        BY <1>4, <2>7
    <3>2. j \in EditorsOf(d, k) /\ IsLatest(stack[d], k, j)
        BY <2>1, <3>1 DEF IsLatest, EditorsOf
    <3>3. delegate[d][k] = "editor"
        BY <1>0, <3>2, DeviceFacts DEF Shape, EditorsOf
    <3>4. CASE FromAnother(d, k)
      <4>1. ~ Takes(stack[d][i])
          BY <1>7, <2>7, <3>3, <3>4
      <4>2. j = i
        <5>1. EditorsOf(d, k) # {}
            BY <3>2
        <5>2. i \in EditorsOf(d, k) /\ \A f \in EditorsOf(d, k) : f <= i
            BY <1>0, <5>1, LatestIsLast DEF i
        <5>3. \A f \in EditorsOf(d, k) : f <= j
            BY <3>2 DEF IsLatest, EditorsOf
        <5>4. i \in Nat /\ j \in Nat /\ i <= j /\ j <= i
            BY <1>0, <3>2, <5>2, <5>3, DeviceFacts DEF EditorsOf
        <5> QED
            BY <5>4
      <4>3. stack[d][j].history = {}
          BY <1>0, <3>2, <4>1, <4>2, DeviceFacts DEF Takes, Shape, EditorsOf
      <4> QED
          BY <3>1, <4>3 DEF NoGap
    <3>5. CASE ~ FromAnother(d, k)
        BY <2>3, <2>5, <3>1, <3>2, <3>5
    <3> QED
        BY <3>4, <3>5
  <2> QED
      BY <2>6, <2>7
<1> QED
    BY <1>8, <1>9

LEMMA HearingInit ==
    ASSUME SessionAssumption, Init
    PROVE  HearingInv
<1>1. \A d \in Devices, k \in Clients : member[d][k] = 0
    BY DEF Init
<1> QED
    BY <1>1, SessionInit DEF HearingInv, Hearing

LEMMA HearingNext ==
    ASSUME SessionAssumption, HearingInv, [Next]_vars
    PROVE  HearingInv'
<1>1. SessionInv'
    BY SessionNext DEF HearingInv
<1>2. CASE UNCHANGED vars
  <2>1. UNCHANGED <<serviceVars, stack>>
      BY <1>2 DEF vars, deviceVars
  <2> QED
      BY <1>1, <2>1, StillScreensHear DEF HearingInv
<1>3. ASSUME NEW d \in Devices, DeviceStep(d)
      PROVE  \A e \in Devices, k \in Clients : Hearing(e, k)'
    BY <1>3, CompleteHears, LoadEditorHears, TimerFiresHears, ReceiveHears DEF DeviceStep
<1>4. CASE Next
  <2>1. \A e \in Devices, k \in Clients : Hearing(e, k)'
      BY <1>3, <1>4, UserHears, ServeHears DEF Next
  <2> QED
      BY <1>1, <2>1 DEF HearingInv
<1> QED
    BY <1>2, <1>4

(* What an editor misses of what the others wrote is a first part of the    *)
(* log: from the first event of theirs that it holds it holds every one     *)
(* handed to its client, although it is opened, loaded and made the         *)
(* delegate while events arrive (ViewController.mm:17-84).                  *)
THEOREM NoGaps ==
    ASSUME SessionAssumption
    PROVE  Spec => []MissesOnlyTheStart
<1>1. ASSUME HearingInv, NEW d \in Devices, NEW k \in Clients, member[d][k] # 0,
             NEW i \in EditorsOf(d, k), \A j \in EditorsOf(d, k) : j <= i
      PROVE  NoGap(stack[d][i].history, member[d][k], ByOthers(d, k))
  <2>1. IsLatest(stack[d], k, i) /\ i \in DOMAIN stack[d]
      BY <1>1 DEF IsLatest, EditorsOf
  <2> QED
      BY <1>1, <2>1 DEF HearingInv, Hearing
<1>2. HearingInv => MissesOnlyTheStart
    BY <1>1, Zenon DEF MissesOnlyTheStart, NoGap, ByOthers
<1>3. Init => HearingInv
    BY HearingInit
<1>4. HearingInv /\ [Next]_vars => HearingInv'
    BY HearingNext
<1> QED
    BY <1>2, <1>3, <1>4, PTL DEF Spec

-----------------------------------------------------------------------------
(* With patient users a new screen belongs to the client on the screen, or  *)
(* to one that is new: editors are left for menus of later clients.         *)
Later(s) ==
    \A i, j \in DOMAIN s : i < j /\ s[i].kind = "editor" => s[i].client < s[j].client

OneWish(s, p) ==
    \A r \in p : r.op # "leave" =>
        /\ s[Len(s)].kind # "editor" /\ r.client = s[Len(s)].client
        /\ \A q \in p : q.op # "leave" => q = r

MenusOf(s) == {i \in DOMAIN s : s[i].kind = "menu"}
Counted(s) ==
    IsFiniteSet(MenusOf(s)) /\ \A i \in DOMAIN s : s[i].client <= Cardinality(MenusOf(s))

Orderly(s, p) == Later(s) /\ OneWish(s, p) /\ Counted(s)

LEMMA MenuCounted ==
    ASSUME NEW s \in Seq(Screen), Counted(s), NEW x \in Screen, x.kind = "menu",
           x.client = Cardinality(MenusOf(s)) + 1
    PROVE  Counted(Append(s, x)) /\ \A i \in DOMAIN s : s[i].client < x.client
<1> DEFINE t == Append(s, x)
           n == Len(s) + 1
           c == Cardinality(MenusOf(s))
<1>1. /\ DOMAIN t = DOMAIN s \union {n} /\ t[n] = x
      /\ \A i \in DOMAIN s : i < n /\ t[i] = s[i]
    BY Pushed
<1>2. IsFiniteSet(MenusOf(s)) /\ c \in Nat /\ \A i \in DOMAIN s : s[i].client <= c
    BY FS_CardinalityType DEF Counted
<1> HIDE DEF t, c
<1>3. n \notin MenusOf(s)
  <2>1. n \notin DOMAIN s
      OBVIOUS
  <2> QED
      BY <2>1 DEF MenusOf
<1> HIDE DEF n
<1>4. MenusOf(t) = MenusOf(s) \union {n}
    BY <1>1 DEF MenusOf
<1>5. IsFiniteSet(MenusOf(t)) /\ Cardinality(MenusOf(t)) = c + 1
    BY <1>2, <1>3, <1>4, FS_AddElement DEF c
<1>6. \A i \in DOMAIN s : s[i].client \in Nat
    BY ScreenKinds DEF Clients
<1>7. x.client = c + 1
    BY DEF c
<1>8. \A i \in DOMAIN t : t[i].client <= c + 1
    BY <1>1, <1>2, <1>6, <1>7
<1>9. \A i \in DOMAIN s : s[i].client < x.client
    BY <1>2, <1>6, <1>7
<1>10. Counted(t)
    BY <1>5, <1>8 DEF Counted
<1> QED
    BY <1>9, <1>10 DEF t

LEMMA OtherCounted ==
    ASSUME NEW s \in Seq(Screen), s # <<>>, Counted(s), NEW x \in Screen, x.kind # "menu",
           x.client = s[Len(s)].client
    PROVE  Counted(Append(s, x))
<1> DEFINE t == Append(s, x)
           n == Len(s) + 1
<1>1. /\ DOMAIN t = DOMAIN s \union {n} /\ t[n] = x
      /\ \A i \in DOMAIN s : i < n /\ t[i] = s[i]
    BY Pushed
<1>2. Len(s) \in DOMAIN s
    BY EmptySeq
<1> HIDE DEF t, n
<1>3. MenusOf(t) = MenusOf(s)
    BY <1>1 DEF MenusOf
<1>4. Counted(t)
    BY <1>1, <1>2, <1>3 DEF Counted
<1> QED
    BY <1>4 DEF t

\* exit2.
LEMMA OrderlyMenu ==
    ASSUME NEW s \in Seq(Screen), NEW p, Orderly(s, p), \A r \in p : r.op = "leave",
           NEW x \in Screen, x.kind = "menu", x.client = Cardinality(MenusOf(s)) + 1,
           NEW r, r.op = "leave"
    PROVE  Orderly(Append(s, x), p \union {r})
<1> DEFINE t == Append(s, x)
           n == Len(s) + 1
           q == p \union {r}
<1>1. /\ DOMAIN t = DOMAIN s \union {n} /\ t[n] = x
      /\ \A i \in DOMAIN s : i < n /\ t[i] = s[i]
    BY Pushed
<1>2. Counted(t) /\ \A i \in DOMAIN s : s[i].client < x.client
    BY MenuCounted DEF Orderly
<1>3. \A i \in DOMAIN s : ~ (n < i)
    OBVIOUS
<1> HIDE DEF t
<1>4. Later(t)
    BY <1>1, <1>2, <1>3 DEF Orderly, Later
<1>5. \A w \in q : w.op = "leave"
    OBVIOUS
<1> HIDE DEF q
<1>6. OneWish(t, q)
    BY <1>5 DEF OneWish
<1> QED
    BY <1>2, <1>4, <1>6 DEF Orderly, t, q

\* The answer to the request that was waited for pushes a screen.
LEMMA OrderlyPushed ==
    ASSUME NEW s \in Seq(Screen), s # <<>>, NEW p, Orderly(s, p), NEW r \in p, r.op # "leave",
           NEW x \in Screen, x.kind # "menu", x.client = r.client
    PROVE  Orderly(Append(s, x), p \ {r})
<1> DEFINE t == Append(s, x)
           n == Len(s) + 1
           l == Len(s)
           q == p \ {r}
<1>1. /\ DOMAIN t = DOMAIN s \union {n} /\ t[n] = x
      /\ \A i \in DOMAIN s : i < n /\ t[i] = s[i]
    BY Pushed
<1>2. s[l].kind # "editor" /\ x.client = s[l].client /\ \A w \in p : w.op # "leave" => w = r
    BY DEF Orderly, OneWish
<1>3. Counted(t)
    BY <1>2, OtherCounted DEF Orderly
<1>4. l \in DOMAIN s /\ \A i \in DOMAIN s : i = l \/ i < l
    BY EmptySeq
<1>5. \A i \in DOMAIN s : ~ (n < i)
    OBVIOUS
<1>6. ~ (n < n)
    OBVIOUS
<1> HIDE DEF t, n, l
<1>7. \A i \in DOMAIN s : s[i].kind = "editor" => s[i].client < x.client
    BY <1>2, <1>4 DEF Orderly, Later
<1>8. Later(t)
    BY <1>1, <1>5, <1>6, <1>7 DEF Orderly, Later
<1>9. \A w \in q : w.op = "leave"
    BY <1>2
<1> HIDE DEF q
<1>10. OneWish(t, q)
    BY <1>9 DEF OneWish
<1> QED
    BY <1>3, <1>8, <1>10 DEF Orderly, t, q

LEMMA OrderlyPopped ==
    ASSUME NEW s \in Seq(Screen), s # <<>>, NEW p, Orderly(s, p), \A r \in p : r.op = "leave",
           Last(s).kind = "list"
    PROVE  Orderly(Front(s), p)
<1> DEFINE t == Front(s)
           n == Len(s)
<1>1. DOMAIN t = DOMAIN s \ {n} /\ \A i \in DOMAIN t : t[i] = s[i]
    BY Popped
<1>2. s[n].kind = "list"
    BY DEF Last
<1> HIDE DEF t, n
<1>3. MenusOf(t) = MenusOf(s)
    BY <1>1, <1>2 DEF MenusOf
<1>4. Counted(t)
    BY <1>1, <1>3 DEF Orderly, Counted
<1>5. Later(t)
    BY <1>1 DEF Orderly, Later
<1>6. OneWish(t, p)
    BY DEF OneWish
<1> QED
    BY <1>4, <1>5, <1>6 DEF Orderly, t

LEMMA OrderlyRedone ==
    ASSUME NEW s \in Seq(Screen), NEW t, NEW i, Redone(s, t, i), NEW p, Orderly(s, p)
    PROVE  Orderly(t, p)
<1>1. DOMAIN t = DOMAIN s /\ \A j \in DOMAIN s : t[j].kind = s[j].kind /\ t[j].client = s[j].client
    BY DEF Redone
<1>2. Len(t) = Len(s) /\ Len(s) \in DOMAIN s
    BY EmptySeq DEF Redone
<1>3. MenusOf(t) = MenusOf(s)
    BY <1>1 DEF MenusOf
<1> QED
    BY <1>1, <1>2, <1>3 DEF Orderly, Later, OneWish, Counted

\* A patient user asks.
LEMMA OrderlyAsk ==
    ASSUME NEW s, NEW p, Orderly(s, p), \A r \in p : r.op = "leave",
           NEW r, s[Len(s)].kind # "editor", r.client = s[Len(s)].client
    PROVE  Orderly(s, p \union {r})
BY DEF Orderly, OneWish

LEMMA OrderlyAnswer ==
    ASSUME NEW s, NEW p, Orderly(s, p), NEW r \in p, NEW q, q.op = r.op, q.client = r.client
    PROVE  Orderly(s, (p \ {r}) \union {q})
BY DEF Orderly, OneWish

LEMMA OrderlyFewer ==
    ASSUME NEW s, NEW p, Orderly(s, p), NEW q, q \subseteq p
    PROVE  Orderly(s, q)
BY DEF Orderly, OneWish

-----------------------------------------------------------------------------
(* Where bursts go.                                                         *)
OwnBurst(d, x) ==
    /\ x.burst => member[d][x.client] = 0 \/ x.typedIn = member[d][x.client]
    /\ x.unsent => member[d][x.client] = 0 \/ ~ Live(member[d][x.client])

OwnBursts(d) == \A i \in DOMAIN stack[d] : stack[d][i].kind = "editor" => OwnBurst(d, stack[d][i])

OwnLogs == \A s \in 1 .. Len(sessions) : \A n \in DOMAIN sessions[s].log : sessions[s].log[n][3] = s

PatientInv ==
    /\ SessionInv /\ OwnLogs
    /\ \A d \in Devices : Orderly(stack[d], pending[d]) /\ OwnBursts(d)

Inherits(y, x) ==
    /\ y.client = x.client /\ (y.unsent => x.unsent)
    /\ y.burst => x.burst /\ y.typedIn = x.typedIn

LEMMA InheritsOwn ==
    ASSUME SessionInv, NEW d \in Devices, NEW x, x.client \in Clients, OwnBurst(d, x),
           NEW y, Inherits(y, x), member'[d][x.client] \in {0, member[d][x.client]},
           \A s \in 1 .. Len(sessions) : sessions[s].ended => sessions'[s].ended
    PROVE  OwnBurst(d, y)'
<1>1. member[d][x.client] \in Nat /\ member[d][x.client] <= Len(sessions) /\ Len(sessions) \in Nat
    BY DEF SessionInv, Types, Served
<1>2. member[d][x.client] # 0 => member[d][x.client] \in 1 .. Len(sessions)
    BY <1>1
<1> QED
    BY <1>2 DEF OwnBurst, Inherits, Live

(* A device whose screens stay.                                             *)
LEMMA StillBursts ==
    ASSUME SessionInv, NEW d \in Devices, OwnBursts(d), stack'[d] = stack[d],
           \A i \in DOMAIN stack[d] : stack[d][i].kind = "editor" =>
              member'[d][stack[d][i].client] \in {0, member[d][stack[d][i].client]},
           \A s \in 1 .. Len(sessions) : sessions[s].ended => sessions'[s].ended
    PROVE  OwnBursts(d)'
<1> SUFFICES ASSUME NEW i \in DOMAIN stack[d], stack[d][i].kind = "editor"
             PROVE  OwnBurst(d, stack[d][i])'
    BY DEF OwnBursts
<1> DEFINE x == stack[d][i]
<1>1. x.client \in Clients
    BY DeviceFacts, ScreenKinds
<1>2. OwnBurst(d, x) /\ member'[d][x.client] \in {0, member[d][x.client]}
    BY DEF OwnBursts
<1>3. Inherits(x', x) /\ x' = x
    BY DEF Inherits
<1> HIDE DEF x
<1>4. OwnBurst(d, x)'
    BY <1>1, <1>2, <1>3, InheritsOwn DEF OwnBurst, Inherits, Live
<1> QED
    BY <1>4 DEF x

(* A step of device d.                                                      *)
LEMMA DevicePatient ==
    ASSUME PatientInv, SessionInv', NEW d \in Devices,
           \A e \in Devices : e # d => /\ stack'[e] = stack[e] /\ pending'[e] = pending[e]
                                       /\ member'[e] = member[e],
           \A s \in 1 .. Len(sessions) : sessions[s].ended => sessions'[s].ended,
           OwnLogs', Orderly(stack'[d], pending'[d]), OwnBursts(d)'
    PROVE  PatientInv'
<1>1. ASSUME NEW e \in Devices, e # d
      PROVE  Orderly(stack'[e], pending'[e]) /\ OwnBursts(e)'
  <2>1. Orderly(stack[e], pending[e]) /\ OwnBursts(e) /\ SessionInv
      BY DEF PatientInv
  <2>2. stack'[e] = stack[e] /\ pending'[e] = pending[e] /\ member'[e] = member[e]
      BY <1>1
  <2> QED
      BY <2>1, <2>2, StillBursts
<1> QED
    BY <1>1 DEF PatientInv

\* No request of device d waits but those to leave.
Patient(d) == \A r \in pending[d] : r.op = "leave"

LEMMA AskPatient ==
    ASSUME PatientInv, SessionInv', NEW d \in Devices, Patient(d), NEW op, NEW n,
           Top(d).kind # "editor", Ask(d, op, Top(d).client, n)
    PROVE  PatientInv'
<1> DEFINE r == [op |-> op, client |-> Top(d).client, session |-> n, number |-> asked[d],
                 from |-> Top(d), answer |-> "none", found |-> {}]
<1>0. SessionInv /\ OwnLogs /\ Orderly(stack[d], pending[d]) /\ OwnBursts(d)
    BY DEF PatientInv
<1>1. pending' = [pending EXCEPT ![d] = @ \union {r}] /\ UNCHANGED <<sessions, member, stack>>
    BY DEF Ask, serviceVars
<1>2. pending'[d] = pending[d] \union {r} /\ \A e \in Devices : e # d => pending'[e] = pending[e]
    BY <1>0, <1>1 DEF SessionInv, Types
<1>3. Top(d) = stack[d][Len(stack[d])]
    BY <1>0, DeviceFacts
<1>4. r.client = stack[d][Len(stack[d])].client /\ stack[d][Len(stack[d])].kind # "editor"
    BY <1>3
<1> HIDE DEF r
<1>5. Orderly(stack[d], pending[d] \union {r})
    BY <1>0, <1>4, OrderlyAsk DEF Patient
<1>6. OwnBursts(d)'
    BY <1>0, <1>1 DEF OwnBursts, OwnBurst, Live
<1>7. OwnLogs'
    BY <1>0, <1>1 DEF OwnLogs
<1> QED
    BY <1>1, <1>2, <1>5, <1>6, <1>7, DevicePatient

(* A screen is pushed or popped; editors that are new hold no burst.        *)
NewAreQuiet(s, t) ==
    \A i \in DOMAIN t : t[i].kind = "editor" =>
        \/ ~ t[i].burst /\ ~ t[i].unsent
        \/ i \in DOMAIN s /\ t[i] = s[i]

LEMMA ScreensPatient ==
    ASSUME PatientInv, SessionInv', NEW d \in Devices, NEW t, NEW q,
           stack' = [stack EXCEPT ![d] = t], pending' = [pending EXCEPT ![d] = q],
           UNCHANGED serviceVars, Orderly(t, q), NewAreQuiet(stack[d], t)
    PROVE  PatientInv'
<1>0. SessionInv /\ OwnLogs /\ OwnBursts(d) /\ UNCHANGED <<sessions, member>>
    BY DEF PatientInv, serviceVars
<1>1. /\ stack'[d] = t /\ pending'[d] = q
      /\ \A e \in Devices : e # d => stack'[e] = stack[e] /\ pending'[e] = pending[e]
    BY <1>0 DEF SessionInv, Types
<1>2. OwnBursts(d)'
    BY <1>0, <1>1 DEF OwnBursts, OwnBurst, Live, NewAreQuiet
<1>3. OwnLogs'
    BY <1>0 DEF OwnLogs
<1> QED
    BY <1>0, <1>1, <1>2, <1>3, DevicePatient

LEMMA PushQuiet ==
    ASSUME NEW s \in Seq(Screen), NEW x \in Screen, x.kind = "editor" => ~ x.burst /\ ~ x.unsent
    PROVE  NewAreQuiet(s, Append(s, x))
<1> DEFINE t == Append(s, x)
           n == Len(s) + 1
<1>1. /\ DOMAIN t = DOMAIN s \union {n} /\ t[n] = x
      /\ \A i \in DOMAIN s : i < n /\ t[i] = s[i]
    BY Pushed
<1> HIDE DEF t, n
<1>2. NewAreQuiet(s, t)
    BY <1>1 DEF NewAreQuiet
<1> QED
    BY <1>2 DEF t

LEMMA GoBackPatient ==
    ASSUME PatientInv, SessionInv', NEW d \in Devices, Patient(d), GoBack(d)
    PROVE  PatientInv'
<1> DEFINE s == stack[d]
           t == Front(s)
<1>0. SessionInv /\ Orderly(s, pending[d])
    BY DEF PatientInv
<1>1. stack' = [stack EXCEPT ![d] = t] /\ Last(s).kind = "list" /\ UNCHANGED <<serviceVars, pending>>
    BY DEF GoBack, Top
<1>2. s \in Seq(Screen) /\ s # <<>> /\ pending' = [pending EXCEPT ![d] = pending[d]]
    BY <1>0, <1>1, DeviceFacts DEF SessionInv, Types
<1>3. Orderly(t, pending[d])
    BY <1>0, <1>1, <1>2, OrderlyPopped DEF Patient
<1>4. NewAreQuiet(s, t)
    BY <1>2, Popped DEF NewAreQuiet
<1> HIDE DEF t
<1> QED
    BY <1>1, <1>2, <1>3, <1>4, ScreensPatient

LEMMA ExitPatient ==
    ASSUME SessionAssumption, PatientInv, SessionInv', NEW d \in Devices, Patient(d), Exit(d)
    PROVE  PatientInv'
<1> DEFINE s == stack[d]
           k == Top(d).client
           x == Menu(NewClient(d))
           r == [op |-> "leave", client |-> k, session |-> member[d][k], number |-> asked[d],
                 from |-> Menu(k), answer |-> "none", found |-> {}]
<1>0. SessionInv /\ Orderly(s, pending[d])
    BY DEF PatientInv
<1>1. /\ stack' = [stack EXCEPT ![d] = Append(s, x)]
      /\ pending' = [pending EXCEPT ![d] = pending[d] \union {r}]
      /\ Menus(d) < MaxMenus /\ UNCHANGED serviceVars
    BY DEF Exit
<1>2. Menus(d) \in Nat /\ MaxMenus \in Nat
    BY <1>0, MenusCount DEF SessionAssumption
<1>3. NewClient(d) \in Clients
    BY <1>1, <1>2 DEF NewClient, Clients
<1>4. x \in Screen /\ x.kind = "menu" /\ x.client = NewClient(d)
    BY <1>3, NewMenu
<1>5. x.client = Cardinality(MenusOf(s)) + 1
    BY <1>4 DEF NewClient, Menus, MenusOf
<1>6. r.op = "leave" /\ s \in Seq(Screen)
    BY <1>0, DeviceFacts
<1> HIDE DEF x, r
<1>7. Orderly(Append(s, x), pending[d] \union {r})
    BY <1>0, <1>4, <1>5, <1>6, OrderlyMenu DEF Patient
<1>8. NewAreQuiet(s, Append(s, x))
    BY <1>4, <1>6, PushQuiet
<1> QED
    BY <1>1, <1>7, <1>8, ScreensPatient

(* An editor changes but for its bursts.                                    *)
LEMMA RedonePatient ==
    ASSUME PatientInv, SessionInv', NEW d \in Devices, NEW i, NEW y, EditorBecomes(d, i, y),
           OwnBurst(d, y)', OwnLogs', UNCHANGED <<member, pending>>,
           \A s \in 1 .. Len(sessions) : sessions'[s].ended = sessions[s].ended
    PROVE  PatientInv'
<1>0. SessionInv /\ Orderly(stack[d], pending[d]) /\ OwnBursts(d)
    BY DEF PatientInv
<1>1. Redone(stack[d], stack'[d], i) /\ stack'[d][i] = y
      /\ \A e \in Devices : e # d => stack'[e] = stack[e]
    BY <1>0 DEF EditorBecomes, SessionInv, Types
<1>2. Orderly(stack'[d], pending'[d])
  <2>1. stack[d] \in Seq(Screen)
      BY <1>0, DeviceFacts
  <2>2. Orderly(stack'[d], pending[d])
      BY <1>0, <1>1, <2>1, OrderlyRedone
  <2> QED
      BY <2>2
<1>3. ASSUME NEW j \in DOMAIN stack'[d], stack'[d][j].kind = "editor", NEW z, z = stack'[d][j]
      PROVE  OwnBurst(d, z)'
  <2>1. CASE j = i
    <3>1. z = y
        BY <1>1, <1>3, <2>1
    <3> QED
        BY <3>1
  <2>2. CASE j # i
    <3>1. j \in DOMAIN stack[d] /\ z = stack[d][j] /\ z.kind = "editor"
        BY <1>1, <1>3, <2>2 DEF Redone
    <3>2. z.client \in Clients /\ OwnBurst(d, z)
        BY <1>0, <3>1, DeviceFacts, ScreenKinds DEF OwnBursts
    <3>3. Inherits(z, z)
        BY DEF Inherits
    <3> QED
        BY <1>0, <3>2, <3>3, InheritsOwn
  <2> QED
      BY <2>1, <2>2
<1>4. OwnBursts(d)'
  <2> SUFFICES ASSUME NEW j \in DOMAIN stack'[d], stack'[d][j].kind = "editor"
               PROVE  OwnBurst(d, stack[d][j])'
      BY DEF OwnBursts
  <2>1. \A z : z = stack'[d][j] => OwnBurst(d, z)'
      BY <1>3
  <2> QED
      BY <2>1 DEF OwnBurst
<1> QED
    BY <1>1, <1>2, <1>4, DevicePatient

LEMMA TypePatient ==
    ASSUME PatientInv, SessionInv', NEW d \in Devices, Type(d)
    PROVE  PatientInv'
<1> DEFINE n == Len(stack[d])
<1>0. SessionInv /\ OwnLogs /\ OwnBursts(d)
    BY DEF PatientInv
<1>1. PICK y \in Screen : EditorBecomes(d, n, y) /\ TypesIn(Top(d), y, member[d][Top(d).client])
    BY <1>0, TypeStep
<1>2. UNCHANGED <<sessions, member, pending>> /\ Top(d).kind = "editor"
    BY DEF Type, serviceVars
<1>3. Top(d) = stack[d][n] /\ n \in DOMAIN stack[d]
    BY <1>0, DeviceFacts
<1>4. y.client = Top(d).client
    BY <1>1, <1>3 DEF EditorBecomes, Redone
<1>5. OwnBurst(d, Top(d))
    BY <1>0, <1>2, <1>3 DEF OwnBursts
<1>6. OwnBurst(d, y)'
    BY <1>1, <1>2, <1>4, <1>5 DEF OwnBurst, TypesIn, Live
<1>7. OwnLogs'
    BY <1>0, <1>2 DEF OwnLogs
<1> HIDE DEF n
<1> QED
    BY <1>1, <1>2, <1>6, <1>7, RedonePatient

LEMMA UserPatient ==
    ASSUME SessionAssumption, PatientInv, SessionInv', NEW d \in Devices, Patient(d), UserStep(d)
    PROVE  PatientInv'
<1>1. CASE AskCreate(d)
  <2>1. Ask(d, "create", Top(d).client, 0) /\ Top(d).kind # "editor"
      BY <1>1 DEF AskCreate
  <2> QED
      BY <2>1, AskPatient
<1>2. CASE AskList(d)
  <2>1. Ask(d, "list", Top(d).client, 0) /\ Top(d).kind # "editor"
      BY <1>2 DEF AskList
  <2> QED
      BY <2>1, AskPatient
<1>3. CASE SelectRow(d)
  <2>1. PICK s \in Top(d).found : Ask(d, "join", Top(d).client, s)
      BY <1>3 DEF SelectRow
  <2>2. Top(d).kind # "editor"
      BY <1>3 DEF SelectRow
  <2> QED
      BY <2>1, <2>2, AskPatient
<1> QED
    BY <1>1, <1>2, <1>3, GoBackPatient, ExitPatient, TypePatient DEF UserStep

-----------------------------------------------------------------------------
(* The service answers a request of device d.                               *)
LEMMA AnswerPatient ==
    ASSUME PatientInv, SessionInv', NEW d \in Devices, NEW r \in pending[d],
           NEW a \in {"ok", "error"}, NEW F \in SUBSET Nat,
           Answer(d, r, a, F), UNCHANGED stack,
           \A e \in Devices : e # d => member'[e] = member[e],
           \A k \in Clients : \/ member'[d][k] \in {0, member[d][k]}
                              \/ k = r.client /\ r.op # "leave",
           \A s \in 1 .. Len(sessions) : sessions[s].ended => sessions'[s].ended, OwnLogs'
    PROVE  PatientInv'
<1> DEFINE b == Answered(r, a, F)
           q == (pending[d] \ {r}) \union {b}
<1>0. SessionInv /\ Orderly(stack[d], pending[d]) /\ OwnBursts(d)
    BY DEF PatientInv
<1>1. pending' = [pending EXCEPT ![d] = q]
    BY DEF Answer, Answered
<1>2. pending'[d] = q /\ \A e \in Devices : e # d => pending'[e] = pending[e]
    BY <1>0, <1>1 DEF SessionInv, Types
<1>3. r \in Request
    BY <1>0, DeviceFacts
<1>4. b.op = r.op /\ b.client = r.client
  <2>1. Answered(r, a, F).op = r.op /\ Answered(r, a, F).client = r.client
      BY <1>3, AnsweredFields
  <2> QED
      BY <2>1
<1> HIDE DEF b
<1>5. Orderly(stack[d], q)
    BY <1>0, <1>4, OrderlyAnswer
<1>6. ASSUME NEW i \in DOMAIN stack[d], stack[d][i].kind = "editor", r.op # "leave"
      PROVE  stack[d][i].client # r.client
  <2> DEFINE n == Len(stack[d])
  <2>1. i \in 1 .. n /\ n \in DOMAIN stack[d] /\ n \in Nat
      BY <1>0, DeviceFacts
  <2>2. stack[d][n].kind # "editor" /\ r.client = stack[d][n].client
      BY <1>0, <1>6 DEF Orderly, OneWish
  <2>3. i # n
      BY <1>6, <2>2
  <2>4. stack[d][i].client < stack[d][n].client
      BY <1>0, <1>6, <2>1, <2>3 DEF Orderly, Later
  <2>5. stack[d][i].client \in Nat
      BY <1>0, DeviceFacts, ScreenKinds DEF Clients
  <2> QED
      BY <2>2, <2>4, <2>5
<1>7. ASSUME NEW i \in DOMAIN stack[d], stack[d][i].kind = "editor"
      PROVE  member'[d][stack[d][i].client] \in {0, member[d][stack[d][i].client]}
  <2>1. stack[d][i].client \in Clients
      BY <1>0, DeviceFacts, ScreenKinds
  <2> QED
      BY <1>6, <1>7, <2>1
<1>8. OwnBursts(d)'
    BY <1>0, <1>7, StillBursts
<1> HIDE DEF q
<1> QED
    BY <1>2, <1>5, <1>8, DevicePatient

LEMMA ServePatient ==
    ASSUME PatientInv, SessionInv', NEW d \in Devices, Serve(d)
    PROVE  PatientInv'
<1>0. SessionInv /\ OwnLogs /\ UNCHANGED stack /\ sessions \in Seq(SessionRecord)
    BY DEF PatientInv, Serve, SessionInv, Types
<1>1. PICK r \in pending[d] :
         ServeCreate(d, r) \/ ServeList(d, r) \/ ServeJoin(d, r) \/ ServeLeave(d, r)
    BY DEF Serve, Unanswered
<1>2. r.client \in Clients /\ {} \in SUBSET Nat
    BY <1>0, DeviceFacts DEF Request
<1>3. ASSUME NEW n, Enter(d, r.client, n)
      PROVE  /\ \A e \in Devices : e # d => member'[e] = member[e]
             /\ \A k \in Clients : k # r.client => member'[d][k] = member[d][k]
    BY <1>0, <1>2, <1>3 DEF Enter, SessionInv, Types
<1>4. ASSUME NEW a \in {"ok", "error"}, NEW F \in SUBSET Nat, Answer(d, r, a, F),
             UNCHANGED <<sessions, member>>
      PROVE  PatientInv'
  <2>1. OwnLogs'
      BY <1>0, <1>4 DEF OwnLogs
  <2>2. \A k \in Clients : \/ member'[d][k] \in {0, member[d][k]}
                           \/ k = r.client /\ r.op # "leave"
      BY <1>4
  <2>3. \A s \in 1 .. Len(sessions) : sessions[s].ended => sessions'[s].ended
      BY <1>4
  <2>4. \A e \in Devices : e # d => member'[e] = member[e]
      BY <1>4
  <2> QED
      BY <1>0, <1>4, <2>1, <2>2, <2>3, <2>4, AnswerPatient
<1>5. CASE ServeCreate(d, r)
  <2>1. CASE member[d][r.client] = 0
    <3> DEFINE x == [owner |-> <<d, r.client>>, log |-> <<>>, ended |-> FALSE]
               l == Len(sessions)
    <3>1. /\ Enter(d, r.client, l + 1) /\ sessions' = Append(sessions, x)
          /\ Answer(d, r, "ok", {}) /\ r.op # "leave"
        BY <1>5, <2>1 DEF ServeCreate
    <3>2. x.log = <<>>
        OBVIOUS
    <3> HIDE DEF x
    <3>3. l \in Nat /\ Len(sessions') = l + 1 /\ sessions'[l + 1] = x
          /\ \A s \in 1 .. l : sessions'[s] = sessions[s]
        BY <1>0, <3>1
    <3>4. \A s \in 1 .. l + 1 : s \in 1 .. l \/ s = l + 1
        BY <3>3
    <3> HIDE DEF l
    <3>5. OwnLogs'
        BY <1>0, <3>2, <3>3, <3>4 DEF OwnLogs, l
    <3>6. \A s \in 1 .. Len(sessions) : sessions[s].ended => sessions'[s].ended
        BY <3>3 DEF l
    <3>7. /\ \A e \in Devices : e # d => member'[e] = member[e]
          /\ \A k \in Clients : k # r.client => member'[d][k] = member[d][k]
        BY <1>3, <3>1
    <3>8. \A k \in Clients : \/ member'[d][k] \in {0, member[d][k]}
                             \/ k = r.client /\ r.op # "leave"
        BY <3>1, <3>7
    <3> QED
        BY <1>0, <1>2, <3>1, <3>5, <3>6, <3>7, <3>8, AnswerPatient
  <2>2. CASE member[d][r.client] # 0
    <3>1. Answer(d, r, "error", {}) /\ UNCHANGED <<sessions, member>>
        BY <1>5, <2>2 DEF ServeCreate, serviceVars
    <3> QED
        BY <1>2, <1>4, <3>1
  <2> QED
      BY <2>1, <2>2
<1>6. CASE ServeList(d, r)
  <2>1. {s \in DOMAIN sessions : Live(s)} \in SUBSET Nat
      BY <1>0
  <2>2. Answer(d, r, "ok", {s \in DOMAIN sessions : Live(s)}) /\ UNCHANGED <<sessions, member>>
      BY <1>6 DEF ServeList, serviceVars
  <2> QED
      BY <1>4, <2>1, <2>2
<1>7. CASE ServeJoin(d, r)
  <2>1. CASE member[d][r.client] = 0 /\ Live(r.session)
    <3>1. Enter(d, r.client, r.session) /\ UNCHANGED sessions /\ Answer(d, r, "ok", {}) /\ r.op # "leave"
        BY <1>7, <2>1 DEF ServeJoin
    <3>2. OwnLogs'
        BY <1>0, <3>1 DEF OwnLogs
    <3>3. /\ \A e \in Devices : e # d => member'[e] = member[e]
          /\ \A k \in Clients : k # r.client => member'[d][k] = member[d][k]
        BY <1>3, <3>1
    <3>4. \A k \in Clients : \/ member'[d][k] \in {0, member[d][k]}
                             \/ k = r.client /\ r.op # "leave"
        BY <3>1, <3>3
    <3> QED
        BY <1>0, <1>2, <3>1, <3>2, <3>3, <3>4, AnswerPatient
  <2>2. CASE ~ (member[d][r.client] = 0 /\ Live(r.session))
    <3>1. Answer(d, r, "error", {}) /\ UNCHANGED <<sessions, member>>
        BY <1>7, <2>2 DEF ServeJoin
    <3> QED
        BY <1>2, <1>4, <3>1
  <2> QED
      BY <2>1, <2>2
<1>8. CASE ServeLeave(d, r)
  <2>1. Len(sessions') = Len(sessions) /\
        \A s \in 1 .. Len(sessions) :
           sessions'[s].log = sessions[s].log /\ (sessions[s].ended => sessions'[s].ended)
      BY <1>0, <1>8, EndedSessions
  <2>2. OwnLogs'
      BY <1>0, <2>1 DEF OwnLogs
  <2>3. /\ \A e \in Devices : e # d => member'[e] = member[e]
        /\ \A k \in Clients : member'[d][k] \in {0, member[d][k]}
      BY <1>0, <1>2, <1>8 DEF ServeLeave, SessionInv, Types
  <2>4. Answer(d, r, "ok", {})
      BY <1>8 DEF ServeLeave
  <2> QED
      BY <1>0, <1>2, <2>1, <2>2, <2>3, <2>4, AnswerPatient
<1> QED
    BY <1>1, <1>5, <1>6, <1>7, <1>8

LEMMA CompletePatient ==
    ASSUME PatientInv, SessionInv', NEW d \in Devices, Complete(d)
    PROVE  PatientInv'
<1> DEFINE s == stack[d]
<1>0. /\ SessionInv /\ Orderly(s, pending[d]) /\ UNCHANGED serviceVars
      /\ s \in Seq(Screen) /\ s # <<>>
    BY DeviceFacts DEF PatientInv, Complete
<1>1. PICK r \in pending[d] :
         /\ CompleteEntry(d, r) \/ CompleteList(d, r) \/ CompleteLeave(d, r)
         /\ pending' = [pending EXCEPT ![d] = @ \ {r}]
    BY DEF Complete
<1> DEFINE q == pending[d] \ {r}
<1>2. r.client \in Clients /\ r.found \in SUBSET Nat /\ r.number \in Nat
      /\ pending' = [pending EXCEPT ![d] = q]
    BY <1>0, <1>1, DeviceFacts DEF Request
<1>3. ASSUME NEW x \in Screen, x.kind # "menu", x.client = r.client, r.op # "leave",
             x.kind = "editor" => ~ x.burst /\ ~ x.unsent,
             stack' = [stack EXCEPT ![d] = Append(@, x)]
      PROVE  PatientInv'
  <2>1. Orderly(Append(s, x), q)
      BY <1>0, <1>3, OrderlyPushed
  <2>2. NewAreQuiet(s, Append(s, x))
      BY <1>0, <1>3, PushQuiet
  <2>3. stack' = [stack EXCEPT ![d] = Append(s, x)]
      BY <1>3
  <2> HIDE DEF q
  <2> QED
      BY <1>0, <1>2, <2>1, <2>2, <2>3, ScreensPatient
<1>4. CASE UNCHANGED stack
  <2>1. Orderly(s, q)
      BY <1>0, OrderlyFewer
  <2>2. stack' = [stack EXCEPT ![d] = s]
      BY <1>0, <1>4 DEF SessionInv, Types
  <2>3. NewAreQuiet(s, s)
      BY DEF NewAreQuiet
  <2> HIDE DEF q
  <2> QED
      BY <1>0, <1>2, <2>1, <2>2, <2>3, ScreensPatient
<1>5. CASE r.op # "leave" /\ OpenEditor(d, r.client)
  <2> DEFINE x == Editor(r.client)
  <2>1. x \in Screen /\ x.kind = "editor" /\ x.client = r.client /\ ~ x.burst /\ ~ x.unsent
      BY <1>2, NewEditor
  <2>2. stack' = [stack EXCEPT ![d] = Append(@, x)]
      BY <1>5 DEF OpenEditor
  <2> HIDE DEF x
  <2> QED
      BY <1>3, <1>5, <2>1, <2>2
<1>6. CASE CompleteList(d, r)
  <2> DEFINE x == List(r.client, r.found, r.number)
  <2>1. x \in Screen /\ x.kind = "list" /\ x.client = r.client
      BY <1>2, NewList
  <2>2. stack' = [stack EXCEPT ![d] = Append(@, x)] /\ r.op # "leave"
      BY <1>6 DEF CompleteList
  <2> HIDE DEF x
  <2> QED
      BY <1>3, <2>1, <2>2
<1> QED
    BY <1>1, <1>4, <1>5, <1>6 DEF CompleteEntry, CompleteLeave

LEMMA LoadEditorPatient ==
    ASSUME PatientInv, SessionInv', NEW d \in Devices, LoadEditor(d)
    PROVE  PatientInv'
<1> DEFINE n == Len(stack[d])
<1>0. SessionInv /\ OwnLogs /\ OwnBursts(d)
    BY DEF PatientInv
<1>1. PICK y \in Screen : EditorBecomes(d, n, y) /\ Loads(Top(d), y)
    BY <1>0, LoadEditorStep
<1>2. UNCHANGED <<sessions, member, pending>> /\ Top(d).kind = "editor"
    BY <1>0, LoadingIsTop DEF LoadEditor, serviceVars
<1>3. Top(d) = stack[d][n] /\ n \in DOMAIN stack[d]
    BY <1>0, DeviceFacts
<1>4. y.client = Top(d).client
    BY <1>1, <1>3 DEF EditorBecomes, Redone
<1>5. OwnBurst(d, Top(d))
    BY <1>0, <1>2, <1>3 DEF OwnBursts
<1>6. OwnBurst(d, y)'
    BY <1>1, <1>2, <1>4, <1>5 DEF OwnBurst, Loads, Live
<1>7. OwnLogs'
    BY <1>0, <1>2 DEF OwnLogs
<1> HIDE DEF n
<1> QED
    BY <1>1, <1>2, <1>6, <1>7, RedonePatient

LEMMA TimerFiresPatient ==
    ASSUME PatientInv, SessionInv', NEW d \in Devices, NEW i \in DOMAIN stack[d], TimerFires(d, i)
    PROVE  PatientInv'
<1> DEFINE x == stack[d][i]
           s == member[d][x.client]
<1>0. SessionInv /\ OwnLogs /\ OwnBursts(d) /\ UNCHANGED <<member, pending>>
      /\ x.kind = "editor" /\ x.burst
    BY DEF PatientInv, TimerFires
<1>1. OwnBurst(d, x) /\ x.client \in Clients /\ x.typedIn \in Nat
    BY <1>0, DeviceFacts, ScreenKinds DEF OwnBursts
<1>2. CASE s # 0 /\ Live(s)
  <2> DEFINE n == Len(sessions[s].log)
             a == <<d, x.client, x.typedIn>>
  <2>1. s \in 1 .. Len(sessions)
        /\ \E y \in Screen : EditorBecomes(d, i, y) /\ Sends(x, y, s, n)
      BY <1>0, <1>2, SendStep
  <2>2. PICK y \in Screen : EditorBecomes(d, i, y) /\ Sends(x, y, s, n)
      BY <2>1
  <2>3. sessions' = [sessions EXCEPT ![s].log = Append(@, a)]
      BY <1>2 DEF TimerFires
  <2>4. a \in Devices \X Clients \X Nat /\ a[3] = s
      BY <1>0, <1>1, <1>2 DEF OwnBurst
  <2>5. y.client = x.client
      BY <2>2 DEF EditorBecomes, Redone
  <2> HIDE DEF s, a
  <2>6. /\ \A m \in 1 .. Len(sessions) : m # s => sessions'[m] = sessions[m]
        /\ \A m \in 1 .. Len(sessions) : sessions'[m].ended = sessions[m].ended
        /\ Len(sessions') = Len(sessions)
        /\ sessions[s].log \in Seq(Devices \X Clients \X Nat)
        /\ sessions'[s].log = Append(sessions[s].log, a)
      BY <1>0, <2>1, <2>3, <2>4, LogGrows
  <2>7. a[3] = s
      BY <2>4
  <2>8. OwnLogs'
    <3> DEFINE l == sessions[s].log
               Of(q, z) == \A j \in DOMAIN q : q[j][3] = z
    <3>1. l \in Seq(Devices \X Clients \X Nat) /\ Of(l, s)
        BY <1>0, <2>1, <2>6 DEF OwnLogs
    <3> HIDE DEF l
    <3>2. ASSUME NEW j \in DOMAIN Append(l, a) PROVE Append(l, a)[j][3] = s
      <4>1. \/ j \in DOMAIN l /\ Append(l, a)[j] = l[j]
            \/ Append(l, a)[j] = a
          BY <2>4, <3>1, <3>2
      <4>2. CASE j \in DOMAIN l /\ Append(l, a)[j] = l[j]
        <5>1. l[j][3] = s
            BY <3>1, <4>2
        <5> QED
            BY <4>2, <5>1
      <4>3. CASE Append(l, a)[j] = a
          BY <2>7, <4>3
      <4> QED
          BY <4>1, <4>2, <4>3
    <3>3. Of(Append(l, a), s)
        BY <3>2
    <3>4. Of(sessions'[s].log, s)
        BY <2>6, <3>3 DEF l
    <3> HIDE DEF Of
    <3>5. ASSUME NEW m \in 1 .. Len(sessions) PROVE Of(sessions'[m].log, m)
      <4>1. CASE m = s
          BY <3>4, <4>1
      <4>2. CASE m # s
        <5>1. sessions'[m] = sessions[m]
            BY <2>6, <4>2
        <5>2. Of(sessions[m].log, m)
            BY <1>0 DEF OwnLogs, Of
        <5> QED
            BY <5>1, <5>2
      <4> QED
          BY <4>1, <4>2
    <3>6. \A m \in 1 .. Len(sessions) : \A j \in DOMAIN sessions'[m].log : sessions'[m].log[j][3] = m
        BY <3>5 DEF Of
    <3> QED
        BY <2>6, <3>6 DEF OwnLogs
  <2>9. OwnBurst(d, y)'
    <3>1. member'[d][y.client] = s /\ s \in 1 .. Len(sessions)
        BY <1>0, <2>1, <2>5 DEF s
    <3>2. ~ y.burst /\ (y.unsent => ~ Live(s))
        BY <1>1, <1>2, <2>2 DEF Sends, OwnBurst, s
    <3>3. sessions[s].ended => sessions'[s].ended
        BY <2>1, <2>6
    <3> QED
        BY <3>1, <3>2, <3>3 DEF OwnBurst, Live
  <2> QED
      BY <1>0, <2>2, <2>6, <2>8, <2>9, RedonePatient
<1>3. CASE ~ (s # 0 /\ Live(s))
  <2>1. PICK y \in Screen : EditorBecomes(d, i, y) /\ Fails(x, y)
      BY <1>0, <1>3, FailStep
  <2>2. UNCHANGED sessions
      BY <1>0, <1>3 DEF TimerFires
  <2>3. y.client = x.client
      BY <2>1 DEF EditorBecomes, Redone
  <2>4. OwnBurst(d, y)'
      BY <1>0, <1>3, <2>1, <2>2, <2>3 DEF OwnBurst, Fails, Live
  <2>5. OwnLogs'
      BY <1>0, <2>2 DEF OwnLogs
  <2> QED
      BY <1>0, <2>1, <2>2, <2>4, <2>5, RedonePatient
<1> QED
    BY <1>2, <1>3

LEMMA ReceivePatient ==
    ASSUME PatientInv, SessionInv', NEW d \in Devices, NEW k \in Clients, Receive(d, k)
    PROVE  PatientInv'
<1> DEFINE i == Latest(d, k)
           x == stack[d][i]
           hears == delegate[d][k] = "editor" /\ Takes(x) /\ FromAnother(d, k)
<1>0. SessionInv /\ OwnLogs /\ OwnBursts(d) /\ UNCHANGED <<sessions, member, pending>>
    BY DEF PatientInv, Receive
<1>1. OwnLogs'
    BY <1>0 DEF OwnLogs
<1>2. CASE hears
  <2>1. i \in EditorsOf(d, k)
        /\ \E y \in Screen : EditorBecomes(d, i, y) /\ Hears(x, y, NextEvent(d, k))
      BY <1>0, <1>2, ReceiveStep
  <2> HIDE DEF i
  <2>2. PICK y \in Screen : EditorBecomes(d, i, y) /\ Hears(x, y, NextEvent(d, k))
      BY <2>1
  <2>3. OwnBurst(d, x)
      BY <1>0, <2>1 DEF OwnBursts, EditorsOf
  <2>4. y.client = x.client
      BY <2>2 DEF EditorBecomes, Redone
  <2>5. OwnBurst(d, y)'
      BY <1>0, <2>2, <2>3, <2>4 DEF OwnBurst, Hears, Live
  <2> HIDE DEF x
  <2> QED
      BY <1>0, <1>1, <2>2, <2>5, RedonePatient
<1>3. CASE ~ hears
  <2>1. UNCHANGED stack
      BY <1>0, <1>3, ReceiveStep
  <2> QED
      BY <1>0, <1>1, <2>1 DEF PatientInv, OwnBursts, OwnBurst, Live
<1> QED
    BY <1>2, <1>3

-----------------------------------------------------------------------------
LEMMA PatientInit ==
    ASSUME SessionAssumption, Init
    PROVE  PatientInv
<1>1. SessionInv
    BY SessionInit
<1>2. 1 \in Clients /\ Menu(1).kind = "menu" /\ Menu(1).client = 1
    BY DEF SessionAssumption, Clients, Menu
<1>3. ASSUME NEW d \in Devices PROVE Orderly(stack[d], pending[d]) /\ OwnBursts(d)
  <2> DEFINE s == stack[d]
  <2>1. s = <<Menu(1)>> /\ pending[d] = {}
      BY DEF Init
  <2>2. DOMAIN s = {1} /\ s[1].kind = "menu" /\ s[1].client = 1
      BY <1>2, <2>1
  <2> HIDE DEF s
  <2>3. MenusOf(s) = {1}
      BY <2>2 DEF MenusOf
  <2>4. IsFiniteSet(MenusOf(s)) /\ Cardinality(MenusOf(s)) = 1
      BY <2>3, FS_Singleton
  <2>5. Orderly(s, pending[d])
      BY <2>1, <2>2, <2>4 DEF Orderly, Later, OneWish, Counted
  <2> QED
      BY <2>2, <2>5 DEF OwnBursts, s
<1>4. OwnLogs
  <2>1. Len(sessions) = 0
      BY DEF Init
  <2> QED
      BY <2>1 DEF OwnLogs
<1> QED
    BY <1>1, <1>3, <1>4 DEF PatientInv

LEMMA PatientStep ==
    ASSUME SessionAssumption, PatientInv, [PatientNext]_vars
    PROVE  PatientInv'
<1>0. SessionInv
    BY DEF PatientInv
<1>1. SessionInv'
    BY <1>0, SessionNext DEF PatientNext, Next
<1>2. CASE UNCHANGED vars
  <2>1. UNCHANGED <<sessions, member, stack, pending>>
      BY <1>2 DEF vars, serviceVars, deviceVars
  <2> QED
      BY <1>1, <2>1 DEF PatientInv, OwnLogs, OwnBursts, OwnBurst, Live
<1>3. ASSUME NEW d \in Devices, DeviceStep(d) PROVE PatientInv'
    BY <1>1, <1>3, CompletePatient, LoadEditorPatient, TimerFiresPatient, ReceivePatient DEF DeviceStep
<1>4. ASSUME NEW d \in Devices, ~ Waiting(d), UserStep(d) PROVE PatientInv'
    BY <1>1, <1>4, UserPatient DEF Waiting, Patient
<1> QED
    BY <1>1, <1>2, <1>3, <1>4, ServePatient DEF PatientNext

LEMMA PatientInvariant ==
    ASSUME SessionAssumption
    PROVE  PatientSafety => []PatientInv
<1>1. Init => PatientInv
    BY PatientInit
<1>2. PatientInv /\ [PatientNext]_vars => PatientInv'
    BY PatientStep
<1> QED
    BY <1>1, <1>2, PTL DEF PatientSafety

(* With users who wait for answers a client object serves one editor, and   *)
(* its event stream is handed to that one: an editor is only left for menus *)
(* of later clients (MainMenu.mm:125-153, SessionViewController.mm:150-172).*)
THEOREM OneEditor ==
    ASSUME SessionAssumption
    PROVE  PatientSafety => []OneEditorPerClient
<1>1. ASSUME PatientInv, NEW d \in Devices, NEW k \in Clients
      PROVE  /\ Cardinality(EditorsOf(d, k)) <= 1
             /\ EditorsOf(d, k) # {} => delegate[d][k] = "editor"
  <2>0. SessionInv /\ Later(stack[d])
      BY <1>1 DEF PatientInv, Orderly
  <2>1. EditorsOf(d, k) # {} => delegate[d][k] = "editor"
      BY <2>0, DeviceFacts DEF Shape, EditorsOf
  <2>2. ASSUME NEW i \in EditorsOf(d, k), NEW j \in EditorsOf(d, k) PROVE i = j
    <3>1. i \in Nat /\ j \in Nat /\ k \in Nat
        BY <2>0, DeviceFacts DEF EditorsOf, Clients
    <3>2. ~ (i < j) /\ ~ (j < i)
        BY <2>0, <3>1 DEF Later, EditorsOf
    <3> QED
        BY <3>1, <3>2
  <2>3. EditorsOf(d, k) = {} \/ \E i : EditorsOf(d, k) = {i}
      BY <2>2
  <2>4. Cardinality(EditorsOf(d, k)) \in {0, 1}
      BY <2>3, FS_EmptySet, FS_Singleton
  <2> QED
      BY <2>1, <2>4
<1>2. PatientInv => OneEditorPerClient
    BY <1>1 DEF OneEditorPerClient
<1> QED
    BY <1>2, PatientInvariant, PTL

(* With users who wait for answers a burst is broadcast to the session it   *)
(* was typed in or to none, although the timer of an editor that was left   *)
(* still fires; and to none only when its user has left or the owner has    *)
(* ended the session (ViewController.mm:388, 700-712).                      *)
THEOREM BurstsArrive ==
    ASSUME SessionAssumption
    PROVE  PatientSafety => []BurstsReachTheirSession
<1>1. ASSUME PatientInv PROVE BurstsReachTheirSession
  <2>1. \A s \in DOMAIN sessions : \A n \in DOMAIN sessions[s].log : sessions[s].log[n][3] = s
    <3>1. DOMAIN sessions = 1 .. Len(sessions)
        BY <1>1 DEF PatientInv, SessionInv, Types
    <3> QED
        BY <1>1, <3>1 DEF PatientInv, OwnLogs
  <2>2. ASSUME NEW d \in Devices, NEW i \in Editors(d), stack[d][i].unsent
        PROVE  \/ member[d][stack[d][i].client] = 0
               \/ ~ Live(member[d][stack[d][i].client])
      BY <1>1, <2>2 DEF PatientInv, OwnBursts, OwnBurst, Editors
  <2> QED
      BY <2>1, <2>2 DEF BurstsReachTheirSession
<1>2. PatientInv => BurstsReachTheirSession
    BY <1>1
<1> QED
    BY <1>2, PatientInvariant, PTL

=============================================================================
