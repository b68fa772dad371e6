------------------------ MODULE EditingSessionProofs ------------------------
(***************************************************************************)
(* What applying, reversing and relocating an edit preserve, for every      *)
(* alphabet, text and event; type correctness of the editor under every     *)
(* interleaving of its threads; and safety of the editing session.  All of  *)
(* it for any number of clients, any alphabet and any budget of inputs.     *)
(***************************************************************************)
EXTENDS EditingSession, SequenceTheorems, FiniteSetTheorems, TLAPS

-----------------------------------------------------------------------------
(* Edit events.                                                             *)

(* The event the code makes of a typed burst or of a removal.               *)
LEMMA MakeEventType ==
    ASSUME NEW u \in Clients, NEW t \in EventType, NEW i \in Int, NEW n \in Int,
           NEW s \in Seq(Char)
    PROVE  MakeEvent(u, t, i, n, s) \in Event
BY DEF MakeEvent, Event

LEMMA ReverseEventType ==
    ASSUME NEW e \in Event
    PROVE  /\ ReverseEvent(e) \in Event
           /\ ReverseEvent(e).type = IF e.type = INSERT THEN REMOVE ELSE INSERT
           /\ ReverseEvent(e).init = e.init
           /\ ReverseEvent(e).new = e.new
           /\ ReverseEvent(e).text = e.text
           /\ ReverseEvent(e).user = e.user
BY DEF ReverseEvent, Event, EventType

LEMMA ShiftPastType ==
    ASSUME NEW check \in Event, NEW e \in Event
    PROVE  /\ ShiftPast(check, e) \in Event
           /\ ShiftPast(check, e).user = e.user
<1> DEFINE d == Displacement(check, e)
<1>1. d \in Int
    BY DEF Displacement, ChangeLength, Event
<1>2. e.init + d \in Int /\ e.new + d \in Int
    BY <1>1 DEF Event
<1> HIDE DEF d
<1>3. [e EXCEPT !.init = @ + d, !.new = @ + d] \in Event
    BY <1>2 DEF Event
<1>4. [e EXCEPT !.init = @ + d, !.new = @ + d].user = e.user
    BY DEF Event
<1> QED
    BY <1>3, <1>4 DEF ShiftPast, d

(* applyEvent: turns a text into a text whenever NSString does not raise.   *)
LEMMA ApplyEventType ==
    ASSUME NEW t \in Seq(Char), NEW e \in Event, InText(t, e)
    PROVE  ApplyEvent(t, e) \in Seq(Char)
<1>1. e.type \in EventType /\ e.text \in Seq(Char) /\ e.init \in 0 .. Len(t)
    BY DEF Event, InText
<1>2. SubSeq(t, 1, e.init) \in Seq(Char) /\ SubSeq(t, e.init + 1, Len(t)) \in Seq(Char)
    BY <1>1
<1>3. CASE e.type = INSERT
    BY <1>1, <1>2, <1>3 DEF ApplyEvent
<1>4. CASE e.type = REMOVE
    <2>1. e.new \in 0 .. Len(t)
        BY <1>4 DEF InText
    <2>2. SubSeq(t, e.new + 1, Len(t)) \in Seq(Char)
        BY <2>1
    <2> QED
        BY <1>2, <1>4, <2>2 DEF ApplyEvent, INSERT, REMOVE
<1> QED
    BY <1>1, <1>3, <1>4 DEF EventType

(* A text is its part up to a location and its part from there on.          *)
LEMMA SplitAt ==
    ASSUME NEW S, NEW s \in Seq(S), NEW i \in 0 .. Len(s)
    PROVE  /\ SubSeq(s, 1, i) \in Seq(S)
           /\ Len(SubSeq(s, 1, i)) = i
           /\ SubSeq(s, i + 1, Len(s)) \in Seq(S)
           /\ SubSeq(s, 1, i) \o SubSeq(s, i + 1, Len(s)) = s
<1>1. SubSeq(s, 1, i) \in Seq(S) /\ Len(SubSeq(s, 1, i)) = i
    OBVIOUS
<1>2. SubSeq(s, i + 1, Len(s)) \in Seq(S)
    OBVIOUS
<1>3. 1 \in 1 .. Len(s) + 1 /\ i \in 1 - 1 .. Len(s) /\ Len(s) \in i .. Len(s)
    OBVIOUS
<1>4. SubSeq(s, 1, i) \o SubSeq(s, i + 1, Len(s)) = SubSeq(s, 1, Len(s))
    BY <1>3, ConcatAdjacentSubSeq
<1>5. SubSeq(s, 1, Len(s)) = s
    BY SubSeqFull
<1>6. SubSeq(s, 1, i) \o SubSeq(s, i + 1, Len(s)) = s
    BY <1>4, <1>5, Zenon
<1> QED
    BY <1>1, <1>2, <1>6, Zenon

(* Conversely a concatenation is cut back into its two parts.               *)
LEMMA FirstPart ==
    ASSUME NEW S, NEW s \in Seq(S), NEW t \in Seq(S)
    PROVE  SubSeq(s \o t, 1, Len(s)) = s
<1>1. /\ SubSeq(s \o t, 1, Len(s)) \in Seq(S) /\ Len(SubSeq(s \o t, 1, Len(s))) = Len(s)
      /\ \A k \in 1 .. Len(s) : SubSeq(s \o t, 1, Len(s))[k] = s[k]
    OBVIOUS
<1> QED
    BY <1>1, SeqEqual

LEMMA SecondPart ==
    ASSUME NEW S, NEW s \in Seq(S), NEW t \in Seq(S)
    PROVE  SubSeq(s \o t, Len(s) + 1, Len(s \o t)) = t
<1> DEFINE u == s \o t
           v == SubSeq(u, Len(s) + 1, Len(u))
<1>1. u \in Seq(S) /\ Len(u) = Len(s) + Len(t) /\ \A k \in 1 .. Len(t) : u[Len(s) + k] = t[k]
    OBVIOUS
<1> HIDE DEF u
<1>2. v \in Seq(S) /\ Len(v) = Len(t)
    BY <1>1
<1>3. ASSUME NEW k \in 1 .. Len(t) PROVE v[k] = t[k]
    <2>1. v[k] = u[Len(s) + 1 + k - 1]
        BY <1>1
    <2> QED
        BY <1>1, <2>1
<1> HIDE DEF v
<1>4. v = t
    BY <1>2, <1>3, SeqEqual
<1> QED
    BY <1>4 DEF u, v

(* The last of three parts.                                                 *)
LEMMA ThirdPart ==
    ASSUME NEW S, NEW a \in Seq(S), NEW b \in Seq(S), NEW d \in Seq(S)
    PROVE  SubSeq(a \o (b \o d), Len(a) + Len(b) + 1, Len(a \o (b \o d))) = d
<1>1. a \o b \in Seq(S) /\ Len(a \o b) = Len(a) + Len(b)
    OBVIOUS
<1>2. (a \o b) \o d = a \o (b \o d)
    BY ConcatAssociative
<1>3. a \o b \in Seq(S)
    BY <1>1
<1>4. SubSeq((a \o b) \o d, Len(a \o b) + 1, Len((a \o b) \o d)) = d
    BY <1>3, SecondPart, Zenon
<1> QED
    BY <1>1, <1>2, <1>4, Zenon

(* An event as broadcastEvent: makes it: its end lies the length of its     *)
(* text past its start.                                                     *)
Spans(e) == e.new = e.init + ChangeLength(e)

(* Reversing undoes: applying an event that names the text it removes, and  *)
(* then its reversal, as undo: and the conflict handling do, gives back the *)
(* text (ViewController.mm:409-475).                                        *)
THEOREM ReverseRestores ==
    ASSUME NEW t \in Seq(Char), NEW e \in Event, InText(t, e), Spans(e),
           e.type = REMOVE => SubSeq(t, e.init + 1, e.new) = e.text
    PROVE  LET t2 == ApplyEvent(t, e)
               r  == ReverseEvent(e)
           IN  InText(t2, r) /\ ApplyEvent(t2, r) = t
<1> DEFINE t2 == ApplyEvent(t, e)
           r  == ReverseEvent(e)
           i  == e.init
           x  == e.text
           front == SubSeq(t, 1, i)
           rest  == SubSeq(t, i + 1, Len(t))
<1>1. /\ e.type \in EventType /\ i \in 0 .. Len(t)
      /\ e.new = i + Len(x) /\ Len(t) \in Nat
    BY DEF Event, InText, Spans, ChangeLength
<1>2. x \in Seq(Char)
    BY DEF Event
<1>3. /\ r.type = (IF e.type = INSERT THEN REMOVE ELSE INSERT)
      /\ r.init = i /\ r.new = i + Len(x) /\ r.text = x
    BY <1>1, ReverseEventType
<1>4. i \in 0 .. Len(t)
    BY <1>1
<1>5. front \in Seq(Char) /\ Len(front) = i /\ rest \in Seq(Char) /\ front \o rest = t
    BY <1>4, SplitAt, Zenon
<1>6. front \in Seq(Char) /\ rest \in Seq(Char)
    BY <1>5, Zenon
<1>7. CASE e.type = INSERT
    <2>1. t2 = front \o (x \o rest)
        BY <1>7 DEF ApplyEvent
    <2>2. ApplyEvent(t2, r) = SubSeq(t2, 1, i) \o SubSeq(t2, i + Len(x) + 1, Len(t2))
        BY <1>3, <1>7 DEF ApplyEvent, INSERT, REMOVE
    <2> HIDE DEF t2, r, front, rest, x
    <2>3. /\ Len(t2) = Len(front) + Len(x) + Len(rest)
          /\ SubSeq(t2, 1, Len(front)) = front
          /\ SubSeq(t2, Len(front) + Len(x) + 1, Len(t2)) = rest
        <3>1. x \o rest \in Seq(Char)
            BY <1>2, <1>6
        <3>2. SubSeq(front \o (x \o rest), 1, Len(front)) = front
            BY <1>6, <3>1, FirstPart, Zenon
        <3>3. SubSeq(front \o (x \o rest), Len(front) + Len(x) + 1,
                     Len(front \o (x \o rest))) = rest
            BY <1>2, <1>6, ThirdPart, Zenon
        <3>4. Len(x \o rest) = Len(x) + Len(rest)
            BY <1>2, <1>6
        <3>5. Len(front \o (x \o rest)) = Len(front) + Len(x \o rest)
            BY <1>6, <3>1
        <3>6. Len(t2) = Len(front) + Len(x) + Len(rest)
            BY <1>2, <1>6, <2>1, <3>4, <3>5
        <3> QED
            BY <2>1, <3>2, <3>3, <3>6, Zenon
    <2>4. Len(t2) \in Nat /\ i + Len(x) <= Len(t2) /\ Len(x) \in Nat
        <3>1. Len(x) \in Nat /\ Len(rest) \in Nat
            BY <1>2
        <3>2. Len(front) = i
            BY <1>5
        <3>3. Len(t2) = Len(front) + Len(x) + Len(rest)
            BY <2>3
        <3> QED
            BY <1>1, <3>1, <3>2, <3>3
    <2>5. InText(t2, r)
        BY <1>1, <1>3, <2>4 DEF InText
    <2>6. ApplyEvent(t2, r) = t
        BY <1>5, <2>2, <2>3, Zenon
    <2> QED
        BY <2>5, <2>6 DEF t2, r
<1>8. CASE e.type = REMOVE
    <2> DEFINE back == SubSeq(t, i + Len(x) + 1, Len(t))
    <2>1. i + Len(x) \in 0 .. Len(t) /\ x = SubSeq(t, i + 1, i + Len(x)) /\ Len(x) \in Nat
        BY <1>1, <1>2, <1>8 DEF InText
    <2>2. t2 = front \o back
        BY <1>1, <1>8 DEF ApplyEvent, INSERT, REMOVE
    <2>3. ApplyEvent(t2, r) = SubSeq(t2, 1, i) \o (x \o SubSeq(t2, i + 1, Len(t2)))
        BY <1>3, <1>8 DEF ApplyEvent, INSERT, REMOVE
    <2>4. x \o back = rest
        <3>1. /\ i + 1 \in 1 .. Len(t) + 1 /\ i + Len(x) \in (i + 1) - 1 .. Len(t)
              /\ Len(t) \in i + Len(x) .. Len(t)
            BY <1>1, <2>1
        <3>2. SubSeq(t, i + 1, i + Len(x)) \o SubSeq(t, i + Len(x) + 1, Len(t))
                 = SubSeq(t, i + 1, Len(t))
            BY <3>1, ConcatAdjacentSubSeq
        <3> QED
            BY <2>1, <3>2, Zenon
    <2>5. back \in Seq(Char)
        BY <2>1
    <2> HIDE DEF t2, r, front, rest, back, x
    <2>6. /\ Len(t2) = Len(front) + Len(back)
          /\ SubSeq(t2, 1, Len(front)) = front
          /\ SubSeq(t2, Len(front) + 1, Len(t2)) = back
        <3>1. SubSeq(front \o back, 1, Len(front)) = front
            BY <1>6, <2>5, FirstPart, Zenon
        <3>2. SubSeq(front \o back, Len(front) + 1, Len(front \o back)) = back
            BY <1>6, <2>5, SecondPart, Zenon
        <3>3. Len(front \o back) = Len(front) + Len(back)
            BY <1>6, <2>5
        <3> QED
            BY <2>2, <3>1, <3>2, <3>3, Zenon
    <2>7. Len(t2) \in Nat /\ i <= Len(t2)
        BY <1>1, <1>5, <2>5, <2>6
    <2>8. InText(t2, r)
        BY <1>1, <1>3, <1>8, <2>7 DEF InText, INSERT, REMOVE
    <2>9. ApplyEvent(t2, r) = t
        BY <1>5, <2>3, <2>4, <2>6, Zenon
    <2> QED
        BY <2>8, <2>9 DEF t2, r
<1> QED
    BY <1>1, <1>7, <1>8 DEF EventType

-----------------------------------------------------------------------------
(* Sequences.                                                               *)

LEMMA LastType ==
    ASSUME NEW S, NEW s \in Seq(S), s # <<>>
    PROVE  Last(s) \in S
BY DEF Last

LEMMA FrontType ==
    ASSUME NEW S, NEW s \in Seq(S), s # <<>>
    PROVE  Front(s) \in Seq(S) /\ Len(Front(s)) = Len(s) - 1
<1> DEFINE n == Len(s) - 1
<1>1. Len(s) \in Nat \ {0}
    BY EmptySeq
<1>2. n \in 0 .. Len(s)
    BY <1>1
<1> HIDE DEF n
<1>3. SubSeq(s, 1, n) \in Seq(S) /\ Len(SubSeq(s, 1, n)) = n
    BY <1>2
<1> QED
    BY <1>3, Zenon DEF Front, n

LEMMA PrependType ==
    ASSUME NEW S, NEW s \in Seq(S), NEW a \in S
    PROVE  <<a>> \o s \in Seq(S)
OBVIOUS

LEMMA ConcatType ==
    ASSUME NEW S, NEW s \in Seq(S), NEW t \in Seq(S)
    PROVE  s \o t \in Seq(S)
OBVIOUS

LEMMA ConcatLen ==
    ASSUME NEW S, NEW s \in Seq(S), NEW t \in Seq(S)
    PROVE  Len(s \o t) = Len(s) + Len(t)
OBVIOUS

LEMMA ReplacedType ==
    ASSUME NEW S, NEW s \in Seq(S), NEW r \in Seq(S),
           NEW loc \in Nat, NEW len \in Nat, loc + len <= Len(s)
    PROVE  LET t == SubSeq(s, 1, loc) \o r \o SubSeq(s, loc + len + 1, Len(s))
           IN  t \in Seq(S) /\ loc + Len(r) <= Len(t)
<1> DEFINE front == SubSeq(s, 1, loc)
           back == SubSeq(s, loc + len + 1, Len(s))
<1>1. front \in Seq(S) /\ Len(front) = loc
    OBVIOUS
<1>2. back \in Seq(S)
    OBVIOUS
<1> HIDE DEF front, back
<1>3. front \o r \in Seq(S)
    BY <1>1, ConcatType, Zenon
<1>4. (front \o r) \o back \in Seq(S)
    BY <1>2, <1>3, ConcatType, Zenon
<1>5. Len(back) \in Nat
    BY <1>2
<1>6. Len(r) \in Nat
    OBVIOUS
<1>7. Len(front \o r) = Len(front) + Len(r)
    BY <1>1, ConcatLen, Zenon
<1>8. Len((front \o r) \o back) = Len(front \o r) + Len(back)
    BY <1>2, <1>3, ConcatLen, Zenon
<1>9. loc + Len(r) <= Len((front \o r) \o back)
    BY <1>1, <1>5, <1>6, <1>7, <1>8
<1> QED
    BY <1>4, <1>9, Zenon DEF front, back

-----------------------------------------------------------------------------
LEMMA InitTypes == ASSUME Init PROVE TypeOK
<1> USE DEF Init, ServiceInit
<1>1. ServiceTypes
    BY DEF ServiceTypes
<1>2. ScreenTypes
    BY DEF ScreenTypes, Selection
<1>3. BurstTypes
    BY DEF BurstTypes, EventType
<1>4. StackTypes
    BY DEF StackTypes
<1>5. UndoTypes
    BY DEF UndoTypes, Free, Method, Kind, Step
<1>6. HistoryTypes
    BY DEF HistoryTypes
<1>7. HandlerTypes
    BY DEF HandlerTypes, Label
<1>8. OtherTypes
    BY DEF OtherTypes
<1>9. SelectionFits
    <2> SUFFICES ASSUME NEW c \in Clients
                 PROVE  selection[c].loc + selection[c].len <= Len(text[c])
        BY DEF SelectionFits
    <2>1. selection[c].loc = 0 /\ selection[c].len = 0 /\ text[c] = <<>>
        OBVIOUS
    <2> QED
        BY <2>1
<1>10. HandlerFits
    <2> SUFFICES ASSUME NEW c \in Clients
                 PROVE  delivered[c] <= Len(log) /\ pc[c] = "idle"
        BY DEF HandlerFits
    <2>1. delivered[c] = 0 /\ log = <<>> /\ pc[c] = "idle"
        OBVIOUS
    <2> QED
        BY <2>1
<1>11. MethodFits
    BY DEF MethodFits, Free
<1> QED
    BY <1>1, <1>2, <1>3, <1>4, <1>5, <1>6, <1>7, <1>8, <1>9, <1>10, <1>11 DEF TypeOK


-----------------------------------------------------------------------------
USE DEF serviceVars, screenVars, burstVars, stackVars, buttonVars, undoVars,
        historyVars, handlerVars

(* What the actions share.                                                  *)

LEMMA BurstEventType ==
    ASSUME TypeOK, NEW c \in Clients
    PROVE  BurstEvent(c) \in Event
<1> DEFINE n == Len(currentEventString[c])
           loc == selection[c].loc
<1>1. currentEventString[c] \in Seq(Char)
    BY DEF TypeOK, BurstTypes
<1>2. n \in Nat
    BY <1>1
<1>3. loc \in Nat
    BY DEF TypeOK, ScreenTypes, Selection
<1> HIDE DEF n, loc
<1>4. loc \in Int /\ loc + n \in Int /\ loc - n \in Int
    BY <1>2, <1>3
<1>5. /\ MakeEvent(c, REMOVE, loc, loc + n, currentEventString[c]) \in Event
      /\ MakeEvent(c, INSERT, loc - n, loc, currentEventString[c]) \in Event
    BY <1>1, <1>4, MakeEventType DEF EventType
<1> QED
    BY <1>5, Zenon DEF BurstEvent, n, loc

LEMMA BroadcastTypes ==
    ASSUME TypeOK, NEW c \in Clients, NEW e \in Event, Broadcast(c, e)
    PROVE  outbox' \in [Clients -> Seq(Event)]
<1>1. outbox \in [Clients -> Seq(Event)]
    BY DEF TypeOK, ServiceTypes
<1>2. [outbox EXCEPT ![c] = Append(@, e)] \in [Clients -> Seq(Event)]
    BY <1>1
<1> QED
    BY <1>1, <1>2, Zenon DEF Broadcast

LEMMA InputTypes ==
    ASSUME TypeOK, NEW c \in Clients, NEW kind \in InputKind, Input(c, kind)
    PROVE  used' \in [Clients -> [InputKind -> Nat]]
<1>1. used \in [Clients -> [InputKind -> Nat]]
    BY DEF TypeOK, OtherTypes
<1>2. used[c] \in [InputKind -> Nat]
    BY <1>1
<1>3. used[c][kind] \in Nat
    BY <1>2
<1>4. used[c][kind] + 1 \in Nat
    BY <1>3
<1>5. [used[c] EXCEPT ![kind] = used[c][kind] + 1] \in [InputKind -> Nat]
    BY <1>2, <1>4
<1>6. used' = [used EXCEPT ![c] = [used[c] EXCEPT ![kind] = used[c][kind] + 1]]
    BY <1>1, <1>2 DEF Input
<1> QED
    BY <1>1, <1>5, <1>6

LEMMA DisplayTypes ==
    ASSUME TypeOK, NEW c \in Clients, NEW t \in Seq(Char), NEW loc \in Nat,
           loc <= Len(t), Display(c, t, loc)
    PROVE  /\ text' \in [Clients -> Seq(Char)]
           /\ selection' \in [Clients -> Selection]
           /\ SelectionFits'
<1>1. text \in [Clients -> Seq(Char)] /\ selection \in [Clients -> Selection]
    BY DEF TypeOK, ScreenTypes
<1>2. [loc |-> loc, len |-> 0] \in Selection
    BY DEF Selection
<1>3. text' \in [Clients -> Seq(Char)] /\ selection' \in [Clients -> Selection]
    BY <1>1, <1>2 DEF Display
<1>4. ASSUME NEW d \in Clients
      PROVE  selection'[d].loc + selection'[d].len <= Len(text'[d])
    <2>1. CASE d = c
        <3>1. selection'[d] = [loc |-> loc, len |-> 0] /\ text'[d] = t
            BY <1>1, <2>1 DEF Display
        <3> QED
            BY <3>1
    <2>2. CASE d # c
        <3>1. selection'[d] = selection[d] /\ text'[d] = text[d]
            BY <1>1, <2>2 DEF Display
        <3> QED
            BY <3>1 DEF TypeOK, SelectionFits
    <2> QED
        BY <2>1, <2>2
<1> QED
    BY <1>3, <1>4 DEF SelectionFits


(* The handler's expectations survive whatever the main thread does: it     *)
(* never shortens the history.                                              *)
LEMMA HandlerFitsKept ==
    ASSUME TypeOK, log' = log, delivered' = delivered,
           \A d \in Clients : pc'[d] = pc[d] /\ count'[d] = count[d] /\ tempStack'[d] = tempStack[d],
           globalStack' \in [Clients -> Seq(Event)],
           \A d \in Clients : Len(globalStack[d]) <= Len(globalStack'[d])
    PROVE  HandlerFits'
<1> SUFFICES ASSUME NEW d \in Clients
             PROVE  /\ delivered[d] <= Len(log)
                    /\ pc[d] # "idle" => delivered[d] > 0
                    /\ pc[d] \in {"pop", "save", "remove"} =>
                          OrderID(d) < count[d] /\ count[d] <= Len(globalStack'[d])
                    /\ pc[d] = "drop" => tempStack[d] # <<>>
    BY DEF HandlerFits, OrderID
<1>1. /\ delivered[d] <= Len(log)
      /\ pc[d] # "idle" => delivered[d] > 0
      /\ pc[d] \in {"pop", "save", "remove"} =>
            OrderID(d) < count[d] /\ count[d] <= Len(globalStack[d])
      /\ pc[d] = "drop" => tempStack[d] # <<>>
    BY DEF TypeOK, HandlerFits
<1>2. count[d] \in Nat /\ Len(globalStack[d]) \in Nat /\ Len(globalStack'[d]) \in Nat
    BY DEF TypeOK, HandlerTypes, HistoryTypes
<1> QED
    BY <1>1, <1>2

(* Actions that leave the service, the history and the handler alone.       *)
LEMMA HandlerFitsUnchanged ==
    ASSUME TypeOK, UNCHANGED <<log, delivered, globalStack, handlerVars>>
    PROVE  HandlerFits'
BY DEF TypeOK, HandlerFits, OrderID

LEMMA AppendedHistory ==
    ASSUME TypeOK, NEW c \in Clients, NEW e \in Event,
           globalStack' = [globalStack EXCEPT ![c] = Append(@, e)]
    PROVE  /\ globalStack' \in [Clients -> Seq(Event)]
           /\ \A d \in Clients : Len(globalStack[d]) <= Len(globalStack'[d])
<1>1. globalStack \in [Clients -> Seq(Event)]
    BY DEF TypeOK, HistoryTypes
<1>2. ASSUME NEW d \in Clients PROVE Len(globalStack[d]) <= Len(globalStack'[d])
    <2>1. CASE d = c
        <3>1. globalStack'[d] = Append(globalStack[d], e) /\ globalStack[d] \in Seq(Event)
            BY <1>1, <2>1
        <3> QED
            BY <3>1
    <2>2. CASE d # c
        <3>1. globalStack'[d] = globalStack[d] /\ globalStack[d] \in Seq(Event)
            BY <1>1, <2>2
        <3> QED
            BY <3>1
    <2> QED
        BY <2>1, <2>2
<1> QED
    BY <1>1, <1>2

(* What MethodFits asks of one client's method, given its two stacks.       *)
Fits(m, undos, redos) ==
    /\ m.step \in {"count", "increment", "append", "send", "measure", "shift"} => m.event \in Event
    /\ m.step \in {"remove", "find", "measure", "shift"} => m.begin > 0 /\ m.kind \in {"undo", "redo"}
    /\ m.step = "remove" => (IF m.kind = "undo" THEN undos ELSE redos) # <<>>

LEMMA MethodFitsAll ==
    MethodFits <=> \A d \in Clients : Fits(method[d], undoStack[d], redoStack[d])
BY DEF MethodFits, Fits, Reverses

LEMMA MethodType ==
    ASSUME TypeOK, NEW c \in Clients
    PROVE  /\ method \in [Clients -> Method] /\ method[c] \in Method
           /\ method[c].event \in Event \cup {NoEvent} /\ method[c].orderID \in Nat
           /\ method[c].begin \in Nat /\ method[c].end \in Nat
           /\ method[c].kind \in Kind /\ method[c].step \in Step
           /\ Fits(method[c], undoStack[c], redoStack[c])
BY MethodFitsAll DEF TypeOK, UndoTypes, Method

(* A step of one client's main thread accounts for its own method only.     *)
LEMMA MethodSet ==
    ASSUME TypeOK, NEW c \in Clients, NEW m \in Method, method' = [method EXCEPT ![c] = m],
           \A d \in Clients \ {c} : undoStack'[d] = undoStack[d] /\ redoStack'[d] = redoStack[d],
           Fits(m, undoStack'[c], redoStack'[c])
    PROVE  method' \in [Clients -> Method] /\ MethodFits'
<1>1. method \in [Clients -> Method]
    BY MethodType
<1>2. method' \in [Clients -> Method] /\ method'[c] = m
    BY <1>1
<1>3. ASSUME NEW d \in Clients PROVE Fits(method'[d], undoStack'[d], redoStack'[d])
    <2>1. CASE d = c
        BY <1>2, <2>1
    <2>2. CASE d # c
        <3>1. method'[d] = method[d] /\ undoStack'[d] = undoStack[d] /\ redoStack'[d] = redoStack[d]
            BY <1>1, <2>2
        <3> QED
            BY <3>1, MethodType
    <2> QED
        BY <2>1, <2>2
<1>4. MethodFits'
    BY <1>3 DEF MethodFits, Fits, Reverses
<1> QED
    BY <1>2, <1>4

(* A step of a handler leaves the methods alone and empties no stack.       *)
LEMMA MethodKept ==
    ASSUME TypeOK, method' = method,
           \A d \in Clients : undoStack[d] # <<>> => undoStack'[d] # <<>>,
           \A d \in Clients : redoStack[d] # <<>> => redoStack'[d] # <<>>
    PROVE  MethodFits'
BY DEF TypeOK, MethodFits, Reverses

LEMMA FreeType == Free \in Method /\ \A u, r : Fits(Free, u, r)
BY DEF Free, Method, Kind, Step, NoEvent, Fits

LEMMA AliveTypes ==
    ASSUME TypeOK, NEW c \in Clients, Crash(c) \/ alive' = alive
    PROVE  alive' \in [Clients -> BOOLEAN]
BY DEF TypeOK, OtherTypes, Crash

(* A step that changes the method of one client only, or ends the client.   *)
LEMMA MethodMoves ==
    ASSUME TypeOK, NEW c \in Clients,
           UNCHANGED <<serviceVars, screenVars, burstVars, undoVars, historyVars, handlerVars>>,
           \/ method' = method
           \/ \E m \in Method : /\ method' = [method EXCEPT ![c] = m]
                                /\ Fits(m, undoStack[c], redoStack[c]),
           Crash(c) \/ alive' = alive,
           used' \in [Clients -> [InputKind -> Nat]]
    PROVE  TypeOK'
<1>1. method' \in [Clients -> Method] /\ MethodFits'
    <2>1. CASE method' = method
        BY <2>1, MethodKept DEF TypeOK, UndoTypes
    <2>2. CASE \E m \in Method : /\ method' = [method EXCEPT ![c] = m]
                                 /\ Fits(m, undoStack[c], redoStack[c])
        <3>1. PICK m \in Method : /\ method' = [method EXCEPT ![c] = m]
                                  /\ Fits(m, undoStack[c], redoStack[c])
            BY <2>2
        <3> QED
            BY <3>1, MethodSet
    <2> QED
        BY <2>1, <2>2
<1>2. HandlerFits'
    BY HandlerFitsUnchanged
<1>3. OtherTypes'
    BY AliveTypes DEF OtherTypes
<1>4. /\ ServiceTypes' /\ ScreenTypes' /\ BurstTypes' /\ StackTypes' /\ UndoTypes' /\ HistoryTypes'
      /\ HandlerTypes' /\ SelectionFits'
    BY <1>1 DEF TypeOK, ServiceTypes, ScreenTypes, BurstTypes, StackTypes, UndoTypes, HistoryTypes,
                HandlerTypes, SelectionFits
<1> QED
    BY <1>1, <1>2, <1>3, <1>4 DEF TypeOK

-----------------------------------------------------------------------------
(* The burst.                                                               *)

LEMMA SendBurstTypes ==
    ASSUME TypeOK, NEW c \in Clients, NEW kind \in Kind, SendBurst(c, kind),
           undoStack' = undoStack, redoStack' = redoStack
    PROVE  /\ outbox' \in [Clients -> Seq(Event)]
           /\ currentEventString' \in [Clients -> Seq(Char)]
           /\ currentEventType' \in [Clients -> EventType]
           /\ method' \in [Clients -> Method] /\ MethodFits'
<1> DEFINE e == BurstEvent(c)
           m == [Free EXCEPT !.kind = kind, !.step = "count", !.event = e]
<1>1. e \in Event
    BY BurstEventType
<1>2. outbox' \in [Clients -> Seq(Event)]
    BY <1>1, BroadcastTypes DEF SendBurst
<1>3. currentEventString' \in [Clients -> Seq(Char)] /\ currentEventType' \in [Clients -> EventType]
    BY DEF SendBurst, TypeOK, BurstTypes, EventType
<1> HIDE DEF e
<1>4. m \in Method /\ Fits(m, undoStack[c], redoStack[c])
    BY <1>1 DEF Free, Method, Step, Fits
<1>5. method' = [method EXCEPT ![c] = m]
    BY DEF SendBurst, e
<1> HIDE DEF m
<1>6. method' \in [Clients -> Method] /\ MethodFits'
    BY <1>4, <1>5, MethodSet
<1> QED
    BY <1>2, <1>3, <1>6

LEMMA ReadOrderIDTypes ==
    ASSUME TypeOK, NEW c \in Clients, ReadOrderID(c)
    PROVE  TypeOK'
<1> DEFINE m == [method[c] EXCEPT !.orderID = latest_orderID[c], !.step = "increment"]
<1>1. method' = [method EXCEPT ![c] = m]
    BY MethodType DEF ReadOrderID
<1>2. latest_orderID[c] \in Nat /\ method[c].step = "count"
    BY DEF TypeOK, HistoryTypes, ReadOrderID, Doing
<1>3. m \in Method /\ Fits(m, undoStack[c], redoStack[c])
    BY <1>2, MethodType DEF Method, Step, Fits
<1> HIDE DEF m
<1> QED
    BY <1>1, <1>3, MethodMoves DEF ReadOrderID, TypeOK, OtherTypes

LEMMA WriteOrderIDTypes ==
    ASSUME TypeOK, NEW c \in Clients, WriteOrderID(c)
    PROVE  TypeOK'
<1> DEFINE m == [method[c] EXCEPT !.orderID = 0,
                                  !.step = IF Reverses(c) THEN "send" ELSE "append"]
<1>1. method' = [method EXCEPT ![c] = m]
    BY MethodType DEF WriteOrderID
<1>2. method[c].step = "increment"
    BY DEF WriteOrderID, Doing
<1>3. m \in Method /\ Fits(m, undoStack[c], redoStack[c])
    BY <1>2, MethodType DEF Method, Step, Fits
<1> HIDE DEF m
<1>4. method' \in [Clients -> Method] /\ MethodFits'
    BY <1>1, <1>3, MethodSet DEF WriteOrderID
<1>5. HistoryTypes'
    <2>1. latest_orderID \in [Clients -> Nat] /\ method[c].orderID + 1 \in Nat
        BY MethodType DEF TypeOK, HistoryTypes
    <2> QED
        BY <2>1 DEF WriteOrderID, TypeOK, HistoryTypes
<1>6. HandlerFits'
    BY HandlerFitsUnchanged DEF WriteOrderID
<1>7. /\ ServiceTypes' /\ ScreenTypes' /\ BurstTypes' /\ StackTypes' /\ UndoTypes'
      /\ HandlerTypes' /\ OtherTypes' /\ SelectionFits'
    BY <1>4 DEF WriteOrderID, TypeOK, ServiceTypes, ScreenTypes, BurstTypes, StackTypes, UndoTypes,
                HandlerTypes, OtherTypes, SelectionFits
<1> QED
    BY <1>4, <1>5, <1>6, <1>7 DEF TypeOK

LEMMA RecordBurstTypes ==
    ASSUME TypeOK, NEW c \in Clients, RecordBurst(c)
    PROVE  TypeOK'
<1> DEFINE k == method[c].kind
           m == IF k = "timer" THEN Free ELSE [Free EXCEPT !.kind = k, !.step = "key"]
<1>1. method' = [method EXCEPT ![c] = m]
    BY DEF RecordBurst
<1>2. method[c].event \in Event /\ k \in Kind
    BY MethodType DEF RecordBurst, Doing, Fits
<1>3. m \in Method /\ Fits(m, undoStack[c], redoStack[c])
    BY <1>2 DEF Free, Method, Kind, Step, Fits
<1> HIDE DEF m
<1>4. method' \in [Clients -> Method] /\ MethodFits'
    BY <1>1, <1>3, MethodSet DEF RecordBurst
<1>5. globalStack' \in [Clients -> Seq(Event)] /\ \A d \in Clients : Len(globalStack[d]) <= Len(globalStack'[d])
    BY <1>2, AppendedHistory DEF RecordBurst, RecordsEvent
<1>6. HandlerFits'
    BY <1>5, HandlerFitsKept DEF RecordBurst
<1>7. /\ ServiceTypes' /\ ScreenTypes' /\ BurstTypes' /\ StackTypes' /\ UndoTypes' /\ HistoryTypes'
      /\ HandlerTypes' /\ OtherTypes' /\ SelectionFits'
    BY <1>4, <1>5 DEF RecordBurst, TypeOK, ServiceTypes, ScreenTypes, BurstTypes, StackTypes, UndoTypes,
                HistoryTypes, HandlerTypes, OtherTypes, SelectionFits
<1> QED
    BY <1>4, <1>6, <1>7 DEF TypeOK

-----------------------------------------------------------------------------
(* The text view's delegate.                                                *)

(* A key leaves the service, the stacks, the buttons, the history and the   *)
(* handler well typed, whether or not it ends a burst.                      *)
LEMMA KeyTypes ==
    ASSUME TypeOK, NEW c \in Clients, KeyPressed(c),
           outbox' \in [Clients -> Seq(Event)], method' \in [Clients -> Method]
    PROVE  /\ ServiceTypes' /\ StackTypes' /\ UndoTypes' /\ HistoryTypes' /\ HandlerTypes'
           /\ HandlerFits'
           /\ mainQueue' = mainQueue
           /\ eventDelay' \in [Clients -> BOOLEAN]
           /\ used' \in [Clients -> [InputKind -> Nat]]
           /\ undoStack' = undoStack /\ redoStack' = redoStack
<1>1. ServiceTypes'
    BY DEF KeyPressed, TypeOK, ServiceTypes
<1>2. StackTypes' /\ HandlerTypes' /\ HistoryTypes' /\ mainQueue' = mainQueue
    BY DEF KeyPressed, TypeOK, StackTypes, HandlerTypes, HistoryTypes
<1>3. UndoTypes' /\ eventDelay' \in [Clients -> BOOLEAN]
    BY DEF KeyPressed, TypeOK, UndoTypes, BurstTypes
<1>4. used' \in [Clients -> [InputKind -> Nat]]
    BY InputTypes DEF KeyPressed, InputKind
<1>5. HandlerFits'
    BY HandlerFitsUnchanged DEF KeyPressed
<1> QED
    BY <1>1, <1>2, <1>3, <1>4, <1>5 DEF KeyPressed

LEMMA InsertTypes ==
    ASSUME TypeOK, NEW c \in Clients, NEW r \in Replacements, Insert(c, r)
    PROVE  /\ currentEventString' \in [Clients -> Seq(Char)]
           /\ currentEventType' \in [Clients -> EventType]
           /\ text' \in [Clients -> Seq(Char)] /\ selection' \in [Clients -> Selection]
           /\ SelectionFits' /\ alive' \in [Clients -> BOOLEAN]
<1>1. r \in Seq(Char) /\ r # <<>>
    BY ReplacementsAssumption
<1>2. Head(r) \in Char
    BY <1>1
<1>3. currentEventString' \in [Clients -> Seq(Char)] /\ currentEventType' \in [Clients -> EventType]
    <2>1. Append(currentEventString[c], Head(r)) \in Seq(Char)
        BY <1>2 DEF TypeOK, BurstTypes
    <2> QED
        BY <2>1 DEF Insert, TypeOK, BurstTypes, EventType
<1>4. text' \in [Clients -> Seq(Char)] /\ selection' \in [Clients -> Selection] /\ SelectionFits'
    <2> DEFINE loc == selection[c].loc
               len == selection[c].len
               t == SubSeq(text[c], 1, loc) \o r \o SubSeq(text[c], loc + len + 1, Len(text[c]))
    <2>1. text[c] \in Seq(Char) /\ loc \in Nat /\ len \in Nat /\ loc + len <= Len(text[c])
        BY DEF TypeOK, ScreenTypes, SelectionFits, Selection
    <2>2. Display(c, t, loc + Len(r))
        BY DEF Insert, Replace
    <2> HIDE DEF loc, len
    <2>3. t \in Seq(Char) /\ loc + Len(r) <= Len(t)
        BY <1>1, <2>1, ReplacedType
    <2>4. loc + Len(r) \in Nat
        BY <1>1, <2>1
    <2> HIDE DEF t
    <2> QED
        BY <2>2, <2>3, <2>4, DisplayTypes
<1> QED
    BY <1>3, <1>4 DEF Insert, TypeOK, OtherTypes

LEMMA EraseTypes ==
    ASSUME TypeOK, NEW c \in Clients, Erase(c)
    PROVE  /\ currentEventString' \in [Clients -> Seq(Char)]
           /\ currentEventType' \in [Clients -> EventType]
           /\ text' \in [Clients -> Seq(Char)] /\ selection' \in [Clients -> Selection]
           /\ SelectionFits' /\ alive' \in [Clients -> BOOLEAN]
<1> DEFINE loc == selection[c].loc
           len == selection[c].len
<1>1. currentEventType' \in [Clients -> EventType]
    BY DEF Erase, TypeOK, BurstTypes, EventType
<1>2. text[c] \in Seq(Char) /\ loc \in Nat /\ len \in Nat /\ loc + len <= Len(text[c])
    BY DEF TypeOK, ScreenTypes, SelectionFits, Selection
<1>3. CASE loc = 0
    <2>1. Crash(c) /\ UNCHANGED <<text, selection, currentEventString>>
        BY <1>3 DEF Erase
    <2> QED
        BY <1>1, <2>1, AliveTypes DEF TypeOK, BurstTypes, ScreenTypes, SelectionFits
<1>4. CASE loc # 0
    <2>1. /\ currentEventString' = [currentEventString EXCEPT ![c] = <<text[c][loc]>> \o @]
          /\ alive' = alive
        BY <1>4 DEF Erase
    <2>2. currentEventString' \in [Clients -> Seq(Char)]
        <3>1. text[c][loc] \in Char
            BY <1>2, <1>4, ElementOfSeq
        <3>2. currentEventString[c] \in Seq(Char)
            BY DEF TypeOK, BurstTypes
        <3>3. <<text[c][loc]>> \o currentEventString[c] \in Seq(Char)
            BY <3>1, <3>2, PrependType
        <3> QED
            BY <2>1, <3>3 DEF TypeOK, BurstTypes
    <2>3. text' \in [Clients -> Seq(Char)] /\ selection' \in [Clients -> Selection] /\ SelectionFits'
        <3> DEFINE Cut(p, n) == SubSeq(text[c], 1, p) \o <<>> \o SubSeq(text[c], p + n + 1, Len(text[c]))
        <3>1. PICK p \in Nat, n \in Nat : p + n <= Len(text[c]) /\ Display(c, Cut(p, n), p + Len(<<>>))
            <4>1. CASE len = 0
                <5>1. loc - 1 \in Nat /\ 1 \in Nat /\ (loc - 1) + 1 <= Len(text[c])
                    BY <1>2, <1>4, <4>1
                <5>2. Display(c, Cut(loc - 1, 1), (loc - 1) + Len(<<>>))
                    BY <1>4, <4>1 DEF Erase, Replace
                <5> QED
                    BY <5>1, <5>2
            <4>2. CASE len # 0
                <5>1. loc \in Nat /\ 1 \in Nat /\ loc + 1 <= Len(text[c])
                    BY <1>2, <4>2
                <5>2. Display(c, Cut(loc, 1), loc + Len(<<>>))
                    BY <1>4, <4>2 DEF Erase, Replace
                <5> QED
                    BY <5>1, <5>2
            <4> QED
                BY <4>1, <4>2
        <3>2. <<>> \in Seq(Char) /\ Len(<<>>) = 0
            OBVIOUS
        <3>3. Cut(p, n) \in Seq(Char) /\ p + Len(<<>>) <= Len(Cut(p, n))
            BY <1>2, <3>1, <3>2, ReplacedType
        <3>4. p + Len(<<>>) \in Nat
            BY <3>2
        <3> HIDE DEF Cut
        <3> QED
            BY <3>1, <3>3, <3>4, DisplayTypes
    <2> QED
        BY <1>1, <2>1, <2>2, <2>3 DEF TypeOK, OtherTypes
<1> QED
    BY <1>3, <1>4

(* A key that ends no burst, and the key that ended one, change the same.   *)
LEMMA TypeTextTypes ==
    ASSUME TypeOK, NEW c \in Clients, NEW r \in Replacements, TypeText(c, r)
    PROVE  TypeOK'
<1>1. outbox' \in [Clients -> Seq(Event)] /\ method' \in [Clients -> Method]
    BY DEF TypeText, TypeOK, ServiceTypes, UndoTypes
<1>2. /\ ServiceTypes' /\ StackTypes' /\ UndoTypes' /\ HistoryTypes' /\ HandlerTypes'
      /\ HandlerFits' /\ mainQueue' = mainQueue /\ eventDelay' \in [Clients -> BOOLEAN]
      /\ used' \in [Clients -> [InputKind -> Nat]]
      /\ undoStack' = undoStack /\ redoStack' = redoStack
    BY <1>1, KeyTypes DEF TypeText
<1>3. BurstTypes' /\ ScreenTypes' /\ SelectionFits' /\ OtherTypes'
    BY <1>2, InsertTypes DEF TypeText, TypeOK, BurstTypes, ScreenTypes, OtherTypes
<1>4. MethodFits'
    BY <1>2, MethodKept DEF TypeText
<1> QED
    BY <1>2, <1>3, <1>4 DEF TypeOK

LEMMA DeleteTextTypes ==
    ASSUME TypeOK, NEW c \in Clients, DeleteText(c)
    PROVE  TypeOK'
<1>1. outbox' \in [Clients -> Seq(Event)] /\ method' \in [Clients -> Method]
    BY DEF DeleteText, TypeOK, ServiceTypes, UndoTypes
<1>2. /\ ServiceTypes' /\ StackTypes' /\ UndoTypes' /\ HistoryTypes' /\ HandlerTypes'
      /\ HandlerFits' /\ mainQueue' = mainQueue /\ eventDelay' \in [Clients -> BOOLEAN]
      /\ used' \in [Clients -> [InputKind -> Nat]]
      /\ undoStack' = undoStack /\ redoStack' = redoStack
    BY <1>1, KeyTypes DEF DeleteText
<1>3. BurstTypes' /\ ScreenTypes' /\ SelectionFits' /\ OtherTypes'
    BY <1>2, EraseTypes DEF DeleteText, TypeOK, BurstTypes, ScreenTypes, OtherTypes
<1>4. MethodFits'
    BY <1>2, MethodKept DEF DeleteText
<1> QED
    BY <1>2, <1>3, <1>4 DEF TypeOK

LEMMA RefuseBackspaceTypes ==
    ASSUME TypeOK, NEW c \in Clients, RefuseBackspace(c)
    PROVE  TypeOK'
<1>1. outbox' \in [Clients -> Seq(Event)] /\ method' \in [Clients -> Method]
    BY DEF RefuseBackspace, TypeOK, ServiceTypes, UndoTypes
<1>2. /\ ServiceTypes' /\ StackTypes' /\ UndoTypes' /\ HistoryTypes' /\ HandlerTypes'
      /\ HandlerFits' /\ mainQueue' = mainQueue /\ eventDelay' \in [Clients -> BOOLEAN]
      /\ used' \in [Clients -> [InputKind -> Nat]]
      /\ undoStack' = undoStack /\ redoStack' = redoStack
    BY <1>1, KeyTypes DEF RefuseBackspace
<1>3. BurstTypes' /\ ScreenTypes' /\ SelectionFits' /\ OtherTypes'
    BY <1>2 DEF RefuseBackspace, TypeOK, BurstTypes, ScreenTypes, SelectionFits, OtherTypes
<1>4. MethodFits'
    BY <1>2, MethodKept DEF RefuseBackspace
<1> QED
    BY <1>2, <1>3, <1>4 DEF TypeOK

LEMMA FlushBurstTypes ==
    ASSUME TypeOK, NEW c \in Clients, NEW type \in EventType, FlushBurst(c, type)
    PROVE  TypeOK'
<1>1. undoStack' = undoStack /\ redoStack' = redoStack /\ type \in Kind
    BY DEF FlushBurst, KeyPressed, Kind
<1>2. /\ outbox' \in [Clients -> Seq(Event)]
      /\ currentEventString' \in [Clients -> Seq(Char)]
      /\ currentEventType' \in [Clients -> EventType]
      /\ method' \in [Clients -> Method] /\ MethodFits'
    BY <1>1, SendBurstTypes DEF FlushBurst
<1>3. /\ ServiceTypes' /\ StackTypes' /\ UndoTypes' /\ HistoryTypes' /\ HandlerTypes'
      /\ HandlerFits' /\ mainQueue' = mainQueue /\ eventDelay' \in [Clients -> BOOLEAN]
      /\ used' \in [Clients -> [InputKind -> Nat]]
    BY <1>2, KeyTypes DEF FlushBurst
<1>4. BurstTypes' /\ ScreenTypes' /\ SelectionFits' /\ OtherTypes'
    BY <1>2, <1>3 DEF FlushBurst, TypeOK, BurstTypes, ScreenTypes, SelectionFits, OtherTypes
<1> QED
    BY <1>2, <1>3, <1>4 DEF TypeOK

LEMMA ResumeKeyTypes ==
    ASSUME TypeOK, NEW c \in Clients, ResumeKey(c)
    PROVE  TypeOK'
<1>1. /\ currentEventString' \in [Clients -> Seq(Char)]
      /\ currentEventType' \in [Clients -> EventType]
      /\ text' \in [Clients -> Seq(Char)] /\ selection' \in [Clients -> Selection]
      /\ SelectionFits' /\ alive' \in [Clients -> BOOLEAN]
    BY InsertTypes, EraseTypes DEF ResumeKey
<1>2. method' \in [Clients -> Method] /\ MethodFits'
    BY FreeType, MethodSet DEF ResumeKey, Return
<1>3. HandlerFits'
    BY HandlerFitsUnchanged DEF ResumeKey
<1>4. /\ ServiceTypes' /\ ScreenTypes' /\ BurstTypes' /\ StackTypes' /\ UndoTypes' /\ HistoryTypes'
      /\ HandlerTypes' /\ OtherTypes'
    BY <1>1, <1>2 DEF ResumeKey, TypeOK, ServiceTypes, ScreenTypes, BurstTypes, StackTypes,
                      UndoTypes, HistoryTypes, HandlerTypes, OtherTypes
<1> QED
    BY <1>1, <1>2, <1>3, <1>4 DEF TypeOK

LEMMA MoveCursorTypes ==
    ASSUME TypeOK, NEW c \in Clients, MoveCursor(c)
    PROVE  TypeOK'
<1>1. PICK loc \in 0 .. Len(text[c]), len \in 0 .. MaxSelection :
            /\ loc + len <= Len(text[c])
            /\ selection' = [selection EXCEPT ![c] = [loc |-> loc, len |-> len]]
    BY DEF MoveCursor
<1>2. loc \in Nat /\ len \in Nat
    BY BoundsAssumption DEF TypeOK, ScreenTypes
<1>3. [loc |-> loc, len |-> len] \in Selection
    BY <1>2 DEF Selection
<1>4. text' = text /\ mainQueue' = mainQueue
    BY DEF MoveCursor
<1>5. ScreenTypes'
    BY <1>1, <1>3, <1>4 DEF TypeOK, ScreenTypes
<1>6. SelectionFits'
    <2> SUFFICES ASSUME NEW d \in Clients
                 PROVE  selection'[d].loc + selection'[d].len <= Len(text[d])
        BY <1>4 DEF SelectionFits
    <2>1. CASE d = c
        <3>1. selection'[d] = [loc |-> loc, len |-> len]
            BY <1>1, <2>1 DEF TypeOK, ScreenTypes
        <3> QED
            BY <1>1, <2>1, <3>1
    <2>2. CASE d # c
        <3>1. selection'[d] = selection[d]
            BY <1>1, <2>2 DEF TypeOK, ScreenTypes
        <3> QED
            BY <3>1 DEF TypeOK, SelectionFits
    <2> QED
        BY <2>1, <2>2
<1>7. HandlerFits'
    BY HandlerFitsUnchanged DEF MoveCursor
<1>8. used' \in [Clients -> [InputKind -> Nat]]
    BY InputTypes DEF MoveCursor, InputKind
<1>9. OtherTypes'
    BY <1>8 DEF MoveCursor, TypeOK, OtherTypes
<1>10. ServiceTypes' /\ BurstTypes' /\ StackTypes' /\ UndoTypes' /\ HistoryTypes' /\ HandlerTypes'
    BY DEF MoveCursor, TypeOK, ServiceTypes, BurstTypes, StackTypes, UndoTypes, HistoryTypes,
           HandlerTypes
<1>11. MethodFits'
    BY MethodKept DEF MoveCursor
<1> QED
    BY <1>5, <1>6, <1>7, <1>9, <1>10, <1>11 DEF TypeOK
LEMMA TimerFiresTypes ==
    ASSUME TypeOK, NEW c \in Clients, TimerFires(c)
    PROVE  TypeOK'
<1>1. /\ outbox' \in [Clients -> Seq(Event)]
      /\ currentEventString' \in [Clients -> Seq(Char)]
      /\ currentEventType' \in [Clients -> EventType]
      /\ method' \in [Clients -> Method] /\ MethodFits'
    BY SendBurstTypes DEF TimerFires, Kind
<1>2. HandlerFits'
    BY HandlerFitsUnchanged DEF TimerFires
<1>3. /\ ServiceTypes' /\ ScreenTypes' /\ BurstTypes' /\ StackTypes' /\ UndoTypes' /\ HistoryTypes'
      /\ HandlerTypes' /\ OtherTypes' /\ SelectionFits'
    BY <1>1 DEF TimerFires, TypeOK, ServiceTypes, ScreenTypes, BurstTypes, StackTypes, UndoTypes,
                HistoryTypes, HandlerTypes, OtherTypes, SelectionFits
<1> QED
    BY <1>1, <1>2, <1>3 DEF TypeOK

-----------------------------------------------------------------------------
(* Undo and redo.                                                           *)

LEMMA StartReversalTypes ==
    ASSUME TypeOK, NEW c \in Clients, Undo(c) \/ Redo(c)
    PROVE  TypeOK'
<1> DEFINE kind == IF Undo(c) THEN "undo" ELSE "redo"
           stack == IF Undo(c) THEN undoStack[c] ELSE redoStack[c]
           m == [Free EXCEPT !.kind = kind, !.step = "remove", !.begin = Last(stack) + 1]
<1>1. PICK enabled \in BOOLEAN : StartReversal(c, kind, enabled, stack)
    BY DEF Undo, Redo, TypeOK, UndoTypes
<1>2. stack \in Seq(Nat) /\ stack # <<>> /\ kind \in {"undo", "redo"}
    BY <1>1 DEF StartReversal, TypeOK, StackTypes
<1>3. stack = IF kind = "undo" THEN undoStack[c] ELSE redoStack[c]
    OBVIOUS
<1> HIDE DEF kind, stack
<1>4. Last(stack) \in Nat
    BY <1>2, LastType
<1>5. m \in Method /\ Fits(m, undoStack[c], redoStack[c])
    <2> DEFINE b == Last(stack) + 1
    <2>1. b \in Nat /\ b > 0
        BY <1>4
    <2>2. m = [Free EXCEPT !.kind = kind, !.step = "remove", !.begin = b]
        OBVIOUS
    <2> HIDE DEF b, m
    <2>3. /\ m \in Method
          /\ m.kind = kind /\ m.step = "remove" /\ m.event = NoEvent /\ m.begin = b
        BY <1>2, <2>1, <2>2 DEF Free, Method, Kind, Step
    <2>4. Fits(m, undoStack[c], redoStack[c])
        BY <1>2, <1>3, <2>1, <2>3 DEF Fits
    <2> QED
        BY <2>3, <2>4
<1>6. method' = [method EXCEPT ![c] = m]
    BY <1>1 DEF StartReversal
<1> HIDE DEF m
<1>7. used' \in [Clients -> [InputKind -> Nat]]
    BY <1>1, <1>2, InputTypes DEF StartReversal, InputKind
<1>8. /\ UNCHANGED <<serviceVars, screenVars, burstVars, undoVars, historyVars, handlerVars>>
      /\ alive' = alive
    BY <1>1 DEF StartReversal
<1> QED
    BY <1>5, <1>6, <1>7, <1>8, MethodMoves

LEMMA RemoveIDTypes ==
    ASSUME TypeOK, NEW c \in Clients, RemoveID(c)
    PROVE  TypeOK'
<1> DEFINE m == [method[c] EXCEPT !.step = "find"]
<1>1. /\ undoStack \in [Clients -> Seq(Nat)] /\ redoStack \in [Clients -> Seq(Nat)]
      /\ method[c].step = "remove"
    BY DEF TypeOK, StackTypes, RemoveID, Doing
<1>2. undoStack' \in [Clients -> Seq(Nat)] /\ redoStack' \in [Clients -> Seq(Nat)]
    <2>1. CASE method[c].kind = "undo"
        <3>1. undoStack[c] # <<>> /\ undoStack[c] \in Seq(Nat)
            BY <1>1, <2>1, MethodType DEF Fits
        <3>2. Front(undoStack[c]) \in Seq(Nat)
            BY <3>1, FrontType
        <3>3. undoStack' = [undoStack EXCEPT ![c] = Front(undoStack[c])]
            BY <2>1 DEF RemoveID, Popped
        <3>4. redoStack' = redoStack
            BY <1>1, <2>1 DEF RemoveID
        <3> QED
            BY <1>1, <3>2, <3>3, <3>4
    <2>2. CASE method[c].kind # "undo"
        <3>1. method[c].kind = "redo"
            BY <1>1, <2>2, MethodType DEF Fits
        <3>2. redoStack[c] # <<>> /\ redoStack[c] \in Seq(Nat)
            BY <1>1, <2>2, MethodType DEF Fits
        <3>3. Front(redoStack[c]) \in Seq(Nat)
            BY <3>2, FrontType
        <3>4. redoStack' = [redoStack EXCEPT ![c] = Front(redoStack[c])]
            BY <3>1 DEF RemoveID, Popped
        <3>5. undoStack' = undoStack
            BY <1>1, <2>2 DEF RemoveID
        <3> QED
            BY <1>1, <3>3, <3>4, <3>5
    <2> QED
        BY <2>1, <2>2
<1>3. \A d \in Clients \ {c} : undoStack'[d] = undoStack[d] /\ redoStack'[d] = redoStack[d]
    BY <1>1 DEF RemoveID
<1>4. method' = [method EXCEPT ![c] = m]
    BY MethodType DEF RemoveID, Then
<1>5. m \in Method /\ Fits(m, undoStack'[c], redoStack'[c])
    BY <1>1, MethodType DEF Method, Step, Fits
<1> HIDE DEF m
<1>6. method' \in [Clients -> Method] /\ MethodFits'
    BY <1>3, <1>4, <1>5, MethodSet
<1>7. HandlerFits'
    BY HandlerFitsUnchanged DEF RemoveID
<1>8. StackTypes'
    BY <1>2 DEF RemoveID, TypeOK, StackTypes
<1>9. /\ ServiceTypes' /\ ScreenTypes' /\ BurstTypes' /\ UndoTypes' /\ HistoryTypes'
      /\ HandlerTypes' /\ OtherTypes' /\ SelectionFits'
    BY <1>6 DEF RemoveID, TypeOK, ServiceTypes, ScreenTypes, BurstTypes, UndoTypes, HistoryTypes,
                HandlerTypes, OtherTypes, SelectionFits
<1> QED
    BY <1>6, <1>7, <1>8, <1>9 DEF TypeOK

LEMMA FindEventTypes ==
    ASSUME TypeOK, NEW c \in Clients, FindEvent(c)
    PROVE  TypeOK'
<1>1. method[c].step = "find" /\ globalStack[c] \in Seq(Event) /\ used' \in [Clients -> [InputKind -> Nat]]
    BY DEF FindEvent, Doing, TypeOK, HistoryTypes, OtherTypes
<1>2. UNCHANGED <<serviceVars, screenVars, burstVars, undoVars, historyVars, handlerVars>>
    BY DEF FindEvent
<1>3. CASE method[c].begin <= Len(globalStack[c])
    <2> DEFINE e == globalStack[c][method[c].begin]
               m == [method[c] EXCEPT !.event = e, !.step = "measure"]
    <2>1. e \in Event
        <3>1. method[c].begin \in 1 .. Len(globalStack[c])
            BY <1>1, <1>3, MethodType DEF Fits
        <3> QED
            BY <1>1, <3>1, ElementOfSeq
    <2>2. method' = [method EXCEPT ![c] = m] /\ alive' = alive
        BY <1>3, MethodType DEF FindEvent
    <2> HIDE DEF e
    <2>3. m \in Method /\ Fits(m, undoStack[c], redoStack[c])
        BY <1>1, <2>1, MethodType DEF Method, Step, Fits
    <2> HIDE DEF m
    <2> QED
        BY <1>1, <1>2, <2>2, <2>3, MethodMoves
<1>4. CASE ~ (method[c].begin <= Len(globalStack[c]))
    <2>1. Crash(c) /\ method' = method
        BY <1>4 DEF FindEvent
    <2> QED
        BY <1>1, <1>2, <2>1, MethodMoves
<1> QED
    BY <1>3, <1>4

LEMMA MeasureHistoryTypes ==
    ASSUME TypeOK, NEW c \in Clients, MeasureHistory(c)
    PROVE  TypeOK'
<1> DEFINE m == [method[c] EXCEPT !.end = Len(globalStack[c]), !.step = "shift"]
<1>1. method' = [method EXCEPT ![c] = m]
    BY MethodType DEF MeasureHistory
<1>2. Len(globalStack[c]) \in Nat /\ method[c].step = "measure"
    BY DEF TypeOK, HistoryTypes, MeasureHistory, Doing
<1>3. m \in Method /\ Fits(m, undoStack[c], redoStack[c])
    BY <1>2, MethodType DEF Method, Step, Fits
<1> HIDE DEF m
<1> QED
    BY <1>1, <1>3, MethodMoves DEF MeasureHistory, TypeOK, OtherTypes

LEMMA ShiftReversalTypes ==
    ASSUME TypeOK, NEW c \in Clients, ShiftReversal(c)
    PROVE  TypeOK'
<1> DEFINE r == method[c]
<1>1. r.step = "shift" /\ globalStack[c] \in Seq(Event) /\ used' \in [Clients -> [InputKind -> Nat]]
    BY DEF ShiftReversal, Doing, TypeOK, HistoryTypes, OtherTypes
<1>2. UNCHANGED <<serviceVars, screenVars, burstVars, undoVars, historyVars, handlerVars>>
    BY DEF ShiftReversal
<1>3. r.event \in Event /\ r.begin \in Nat
    BY <1>1, MethodType DEF Fits
<1>4. CASE r.begin < Len(globalStack[c])
    <2> DEFINE e == ShiftPast(globalStack[c][r.begin + 1], r.event)
               m == [r EXCEPT !.event = e, !.begin = r.begin + 1]
    <2>1. r.begin + 1 \in 1 .. Len(globalStack[c])
        BY <1>1, <1>3, <1>4
    <2>2. e \in Event
        BY <1>1, <1>3, <2>1, ElementOfSeq, ShiftPastType
    <2>3. method' = [method EXCEPT ![c] = m] /\ alive' = alive
        BY <1>4, MethodType DEF ShiftReversal
    <2> HIDE DEF e
    <2>4. m \in Method /\ Fits(m, undoStack[c], redoStack[c])
        <3>1. r \in Method /\ r.begin + 1 \in Nat /\ r.begin + 1 > 0
            BY <1>3, MethodType
        <3>2. m \in Method /\ m.step = "shift" /\ m.event = e /\ m.begin = r.begin + 1 /\ m.kind = r.kind
            BY <1>1, <2>2, <3>1 DEF Method
        <3>3. r.kind \in {"undo", "redo"}
            BY <1>1, MethodType DEF Fits
        <3> HIDE DEF m
        <3> QED
            BY <2>2, <3>1, <3>2, <3>3 DEF Fits
    <2> HIDE DEF m
    <2> QED
        BY <1>1, <1>2, <2>3, <2>4, MethodMoves
<1>5. CASE ~ (r.begin < Len(globalStack[c]))
    <2>1. Crash(c) /\ method' = method
        BY <1>5 DEF ShiftReversal
    <2> QED
        BY <1>1, <1>2, <2>1, MethodMoves
<1> QED
    BY <1>4, <1>5

LEMMA SetTriggerTypes ==
    ASSUME TypeOK, NEW c \in Clients, SetTrigger(c)
    PROVE  TypeOK'
<1> DEFINE r == method[c]
           e == ReverseEvent(r.event)
           m == [Free EXCEPT !.kind = r.kind, !.step = "count", !.event = e]
<1>1. r.event \in Event /\ r.kind \in Kind
    BY MethodType DEF SetTrigger, Doing, Fits
<1>2. e \in Event
    BY <1>1, ReverseEventType
<1>3. method' = [method EXCEPT ![c] = m]
    BY DEF SetTrigger
<1> HIDE DEF e
<1>4. m \in Method /\ Fits(m, undoStack'[c], redoStack'[c])
    BY <1>1, <1>2 DEF Free, Method, Step, Fits
<1> HIDE DEF m
<1>5. method' \in [Clients -> Method] /\ MethodFits'
    BY <1>3, <1>4, MethodSet DEF SetTrigger
<1>6. HandlerFits'
    BY HandlerFitsUnchanged DEF SetTrigger
<1>7. StackTypes'
    <2>1. /\ undo_trigger' = [undo_trigger EXCEPT ![c] = undo_trigger[c] \/ r.kind = "undo"]
          /\ redo_trigger' = [redo_trigger EXCEPT ![c] = redo_trigger[c] \/ r.kind = "redo"]
          /\ undoStack' = undoStack /\ redoStack' = redoStack
        BY DEF SetTrigger
    <2> QED
        BY <2>1 DEF TypeOK, StackTypes
<1>8. /\ ServiceTypes' /\ ScreenTypes' /\ BurstTypes' /\ UndoTypes' /\ HistoryTypes'
      /\ HandlerTypes' /\ OtherTypes' /\ SelectionFits'
    BY <1>5 DEF SetTrigger, TypeOK, ServiceTypes, ScreenTypes, BurstTypes, UndoTypes, HistoryTypes,
                HandlerTypes, OtherTypes, SelectionFits
<1> QED
    BY <1>5, <1>6, <1>7, <1>8 DEF TypeOK

LEMMA SendReversalTypes ==
    ASSUME TypeOK, NEW c \in Clients, SendReversal(c)
    PROVE  TypeOK'
<1> DEFINE m == [method[c] EXCEPT !.step = "append"]
<1>1. method[c].event \in Event
    BY MethodType DEF SendReversal, Doing, Fits
<1>2. outbox' \in [Clients -> Seq(Event)]
    BY <1>1, BroadcastTypes DEF SendReversal
<1>3. method' = [method EXCEPT ![c] = m]
    BY MethodType DEF SendReversal, Then
<1>4. m \in Method /\ Fits(m, undoStack'[c], redoStack'[c])
    BY <1>1, MethodType DEF Method, Step, Fits
<1> HIDE DEF m
<1>5. method' \in [Clients -> Method] /\ MethodFits'
    BY <1>3, <1>4, MethodSet DEF SendReversal
<1>6. HandlerFits'
    BY HandlerFitsUnchanged DEF SendReversal
<1>7. /\ ServiceTypes' /\ ScreenTypes' /\ BurstTypes' /\ StackTypes' /\ UndoTypes' /\ HistoryTypes'
      /\ HandlerTypes' /\ OtherTypes' /\ SelectionFits'
    BY <1>2, <1>5 DEF SendReversal, TypeOK, ServiceTypes, ScreenTypes, BurstTypes, StackTypes, UndoTypes,
                HistoryTypes, HandlerTypes, OtherTypes, SelectionFits
<1> QED
    BY <1>5, <1>6, <1>7 DEF TypeOK

LEMMA ApplyReversalTypes ==
    ASSUME TypeOK, NEW c \in Clients, ApplyReversal(c)
    PROVE  TypeOK'
<1> DEFINE e == method[c].event
<1>1. e \in Event /\ method[c].kind \in Kind
    BY MethodType DEF ApplyReversal, Doing, Fits
<1> HIDE DEF e
<1>2. UNCHANGED <<serviceVars, mainQueue, burstVars, undoVars, latest_orderID, handlerVars, used>>
    BY DEF ApplyReversal
<1>3. CASE InText(text[c], e)
    <2> DEFINE t == ApplyEvent(text[c], e)
               m == [Free EXCEPT !.kind = method[c].kind, !.step = "test"]
    <2>1. /\ Display(c, t, Len(t)) /\ globalStack' = [globalStack EXCEPT ![c] = Append(@, e)]
          /\ method' = [method EXCEPT ![c] = m] /\ alive' = alive
        BY <1>3 DEF ApplyReversal, RecordsEvent, e
    <2>2. text' \in [Clients -> Seq(Char)] /\ selection' \in [Clients -> Selection] /\ SelectionFits'
        <3>1. t \in Seq(Char)
            BY <1>1, <1>3, ApplyEventType DEF TypeOK, ScreenTypes
        <3> HIDE DEF t
        <3>2. Len(t) \in Nat /\ Len(t) <= Len(t)
            BY <3>1
        <3> QED
            BY <2>1, <3>1, <3>2, DisplayTypes
    <2>3. m \in Method /\ Fits(m, undoStack'[c], redoStack'[c])
        BY <1>1 DEF Free, Method, Step, Fits
    <2> HIDE DEF m
    <2>4. method' \in [Clients -> Method] /\ MethodFits'
        BY <1>2, <2>1, <2>3, MethodSet
    <2>5. globalStack' \in [Clients -> Seq(Event)] /\ \A d \in Clients : Len(globalStack[d]) <= Len(globalStack'[d])
        BY <1>1, <2>1, AppendedHistory
    <2>6. HandlerFits'
        BY <1>2, <2>5, HandlerFitsKept
    <2>7. /\ ServiceTypes' /\ ScreenTypes' /\ BurstTypes' /\ StackTypes' /\ UndoTypes' /\ HistoryTypes'
          /\ HandlerTypes' /\ OtherTypes'
        BY <1>2, <2>1, <2>2, <2>4, <2>5 DEF TypeOK, ServiceTypes, ScreenTypes, BurstTypes, StackTypes,
           UndoTypes, HistoryTypes, HandlerTypes, OtherTypes
    <2> QED
        BY <2>2, <2>4, <2>6, <2>7 DEF TypeOK
<1>4. CASE ~ InText(text[c], e)
    <2>1. Crash(c) /\ UNCHANGED <<text, selection, globalStack, method>>
        BY <1>4 DEF ApplyReversal, e
    <2>2. used' \in [Clients -> [InputKind -> Nat]]
        BY <1>2 DEF TypeOK, OtherTypes
    <2> QED
        BY <1>2, <2>1, <2>2, MethodMoves
<1> QED
    BY <1>3, <1>4

LEMMA TestStackTypes ==
    ASSUME TypeOK, NEW c \in Clients, TestStack(c)
    PROVE  TypeOK'
<1>1. PICK step \in {"disable", "enable"} : method' = [method EXCEPT ![c].step = step]
    BY DEF TestStack, Then
<1> DEFINE m == [method[c] EXCEPT !.step = step]
<1>2. method' = [method EXCEPT ![c] = m]
    BY <1>1, MethodType
<1>3. m \in Method /\ Fits(m, undoStack[c], redoStack[c])
    BY MethodType DEF Method, Step, Fits
<1> HIDE DEF m
<1> QED
    BY <1>2, <1>3, MethodMoves DEF TestStack, TypeOK, OtherTypes

(* The buttons of a client, and its method, change.                         *)
LEMMA ButtonStepTypes ==
    ASSUME TypeOK, NEW c \in Clients, DisableButton(c) \/ EnableButton(c)
    PROVE  TypeOK'
<1>1. method' \in [Clients -> Method] /\ MethodFits'
    <2>1. CASE DisableButton(c)
        <3> DEFINE m == [method[c] EXCEPT !.step = "enable"]
        <3>1. method' = [method EXCEPT ![c] = m]
            BY <2>1, MethodType DEF DisableButton, Then
        <3>2. m \in Method /\ Fits(m, undoStack'[c], redoStack'[c])
            BY MethodType DEF Method, Step, Fits
        <3> HIDE DEF m
        <3> QED
            BY <2>1, <3>1, <3>2, MethodSet DEF DisableButton
    <2>2. CASE EnableButton(c)
        BY <2>2, FreeType, MethodSet DEF EnableButton, Return
    <2> QED
        BY <2>1, <2>2
<1>2. undoEnabled' \in [Clients -> BOOLEAN] /\ redoEnabled' \in [Clients -> BOOLEAN]
    <2>1. undoEnabled \in [Clients -> BOOLEAN] /\ redoEnabled \in [Clients -> BOOLEAN]
        BY DEF TypeOK, UndoTypes
    <2>2. PICK u \in BOOLEAN, v \in BOOLEAN : /\ undoEnabled' = [undoEnabled EXCEPT ![c] = u]
                                             /\ redoEnabled' = [redoEnabled EXCEPT ![c] = v]
        <3>1. CASE DisableButton(c)
            BY <2>1, <3>1 DEF DisableButton
        <3>2. CASE EnableButton(c)
            BY <2>1, <3>2 DEF EnableButton
        <3> QED
            BY <3>1, <3>2
    <2> QED
        BY <2>1, <2>2
<1>3. UNCHANGED <<serviceVars, screenVars, burstVars, stackVars, historyVars, handlerVars, alive, used>>
    BY DEF DisableButton, EnableButton
<1>4. HandlerFits'
    BY <1>3, HandlerFitsUnchanged
<1>5. /\ ServiceTypes' /\ ScreenTypes' /\ BurstTypes' /\ StackTypes' /\ UndoTypes' /\ HistoryTypes'
      /\ HandlerTypes' /\ OtherTypes' /\ SelectionFits'
    BY <1>1, <1>2, <1>3 DEF TypeOK, ServiceTypes, ScreenTypes, BurstTypes, StackTypes, UndoTypes,
       HistoryTypes, HandlerTypes, OtherTypes, SelectionFits
<1> QED
    BY <1>1, <1>4, <1>5 DEF TypeOK


-----------------------------------------------------------------------------
(* The receive handler.                                                     *)

LEMMA ReceivedType ==
    ASSUME TypeOK, NEW c \in Clients, pc[c] # "idle"
    PROVE  Received(c) \in Event
<1>1. log \in Seq(Event) /\ delivered[c] \in Nat /\ delivered[c] <= Len(log) /\ delivered[c] > 0
    BY DEF TypeOK, ServiceTypes, HandlerFits
<1>2. delivered[c] \in 1 .. Len(log)
    BY <1>1
<1> QED
    BY <1>1, <1>2, ElementOfSeq DEF Received

LEMMA GotoType ==
    ASSUME TypeOK, NEW c \in Clients, NEW label \in Label, Goto(c, label)
    PROVE  pc' \in [Clients -> Label]
BY DEF TypeOK, HandlerTypes, Goto

LEMMA DispatchType ==
    ASSUME TypeOK, NEW c \in Clients, NEW block \in Block, Dispatch(c, block)
    PROVE  mainQueue' \in [Clients -> Seq(Block)]
<1>1. mainQueue \in [Clients -> Seq(Block)]
    BY DEF TypeOK, ScreenTypes
<1>2. Append(mainQueue[c], block) \in Seq(Block)
    BY <1>1
<1> QED
    BY <1>1, <1>2 DEF Dispatch

LEMMA ApplyBlockType ==
    ASSUME NEW e \in Event
    PROVE  ApplyBlock(e) \in Block
BY DEF ApplyBlock, Block

LEMMA ReceiveEventTypes ==
    ASSUME TypeOK, NEW c \in Clients, ReceiveEvent(c)
    PROVE  TypeOK'
<1>1. /\ delivered \in [Clients -> Nat] /\ delivered[c] \in Nat /\ log \in Seq(Event)
      /\ latest_orderID \in [Clients -> Nat]
      /\ pc \in [Clients -> Label]
    BY DEF TypeOK, ServiceTypes, HistoryTypes, HandlerTypes
<1>2. delivered' = [delivered EXCEPT ![c] = delivered[c] + 1] /\ delivered[c] < Len(log)
    BY DEF ReceiveEvent, Deliver
<1>3. delivered' \in [Clients -> Nat]
    BY <1>1, <1>2
<1>4. ServiceTypes'
    BY <1>3 DEF ReceiveEvent, TypeOK, ServiceTypes
<1>5. latest_orderID' \in [Clients -> Nat]
    BY <1>1 DEF ReceiveEvent
<1>6. HistoryTypes'
    BY <1>5 DEF ReceiveEvent, TypeOK, HistoryTypes
<1>7. HandlerTypes'
    BY DEF ReceiveEvent, Goto, Label, TypeOK, HandlerTypes
<1>8. HandlerFits'
    <2> SUFFICES ASSUME NEW d \in Clients
                 PROVE  /\ delivered'[d] <= Len(log)
                        /\ pc'[d] # "idle" => delivered'[d] > 0
                        /\ pc'[d] \in {"pop", "save", "remove"} =>
                              delivered'[d] - 1 < count[d] /\ count[d] <= Len(globalStack[d])
                        /\ pc'[d] = "drop" => tempStack[d] # <<>>
        BY DEF HandlerFits, OrderID, ReceiveEvent
    <2>1. CASE d = c
        <3>1. delivered'[d] = delivered[c] + 1 /\ pc'[d] = "check" /\ Len(log) \in Nat
            BY <1>1, <1>2, <2>1 DEF ReceiveEvent, Goto
        <3> QED
            BY <1>1, <1>2, <3>1
    <2>2. CASE d # c
        <3>1. delivered'[d] = delivered[d] /\ pc'[d] = pc[d]
            BY <1>1, <1>2, <2>2 DEF ReceiveEvent, Goto
        <3> QED
            BY <3>1 DEF TypeOK, HandlerFits, OrderID
    <2> QED
        BY <2>1, <2>2
<1>9. /\ ScreenTypes' /\ BurstTypes' /\ StackTypes' /\ UndoTypes' /\ OtherTypes'
      /\ SelectionFits'
    BY DEF ReceiveEvent, TypeOK, ScreenTypes, BurstTypes, StackTypes, UndoTypes, OtherTypes,
           SelectionFits
<1>10. MethodFits'
    BY MethodKept DEF ReceiveEvent
<1> QED
    BY <1>4, <1>6, <1>7, <1>8, <1>9, <1>10 DEF TypeOK

(* A step of one client's handler has to account for that client only.      *)
LEMMA HandlerFitsStep ==
    ASSUME TypeOK, NEW c \in Clients, pc[c] # "idle", log' = log, delivered' = delivered,
           \A d \in Clients \ {c} : /\ pc'[d] = pc[d] /\ count'[d] = count[d]
                                    /\ tempStack'[d] = tempStack[d]
                                    /\ globalStack'[d] = globalStack[d],
           pc'[c] \in {"pop", "save", "remove"} =>
              OrderID(c) < count'[c] /\ count'[c] <= Len(globalStack'[c]),
           pc'[c] = "drop" => tempStack'[c] # <<>>
    PROVE  HandlerFits'
<1> SUFFICES ASSUME NEW d \in Clients
             PROVE  /\ delivered[d] <= Len(log)
                    /\ pc'[d] # "idle" => delivered[d] > 0
                    /\ pc'[d] \in {"pop", "save", "remove"} =>
                          OrderID(d) < count'[d] /\ count'[d] <= Len(globalStack'[d])
                    /\ pc'[d] = "drop" => tempStack'[d] # <<>>
    BY DEF HandlerFits, OrderID
<1>1. CASE d = c
    BY <1>1 DEF TypeOK, HandlerFits
<1>2. CASE d # c
    BY <1>2 DEF TypeOK, HandlerFits
<1> QED
    BY <1>1, <1>2

(* What the steps that only move within the handler leave well typed.       *)
LEMMA GotoTypes ==
    ASSUME TypeOK, NEW c \in Clients, NEW label \in Label, Goto(c, label), pc[c] # "idle",
           UNCHANGED <<serviceVars, text, selection, burstVars, undoVars, method, historyVars,
                       tempStack, alive, used>>,
           mainQueue' \in [Clients -> Seq(Block)],
           count' \in [Clients -> Nat], read_orderID' \in [Clients -> Nat],
           \A d \in Clients \ {c} : count'[d] = count[d],
           label \in {"pop", "save", "remove"} =>
              OrderID(c) < count'[c] /\ count'[c] <= Len(globalStack[c]),
           label = "drop" => tempStack[c] # <<>>
    PROVE  TypeOK'
<1>1. pc' \in [Clients -> Label] /\ pc'[c] = label /\ \A d \in Clients \ {c} : pc'[d] = pc[d]
    BY GotoType DEF Goto, TypeOK, HandlerTypes
<1>2. HandlerFits'
    BY <1>1, HandlerFitsStep
<1>3. HandlerTypes' /\ ScreenTypes'
    BY <1>1 DEF TypeOK, HandlerTypes, ScreenTypes
<1>4. /\ ServiceTypes' /\ BurstTypes' /\ StackTypes' /\ UndoTypes' /\ HistoryTypes' /\ OtherTypes'
      /\ SelectionFits'
    BY DEF TypeOK, ServiceTypes, BurstTypes, StackTypes, UndoTypes, HistoryTypes, OtherTypes,
           SelectionFits
<1>5. MethodFits'
    BY MethodKept
<1> QED
    BY <1>2, <1>3, <1>4, <1>5 DEF TypeOK

LEMMA CheckConflictTypes ==
    ASSUME TypeOK, NEW c \in Clients, CheckConflict(c)
    PROVE  TypeOK'
<1>1. /\ UNCHANGED <<serviceVars, screenVars, burstVars, undoVars, method, historyVars, tempStack,
                     read_orderID, alive, used>>
      /\ mainQueue' \in [Clients -> Seq(Block)] /\ pc[c] # "idle"
      /\ read_orderID' \in [Clients -> Nat]
    BY DEF CheckConflict, At, TypeOK, ScreenTypes, HandlerTypes
<1>2. count \in [Clients -> Nat] /\ Len(globalStack[c]) \in Nat
    BY DEF TypeOK, HandlerTypes, HistoryTypes
<1>3. CASE Conflict(c)
    <2>1. /\ Goto(c, "pop") /\ count' = [count EXCEPT ![c] = Len(globalStack[c])]
          /\ OrderID(c) < Len(globalStack[c])
        BY <1>3 DEF CheckConflict, Conflict
    <2>2. /\ count' \in [Clients -> Nat] /\ count'[c] = Len(globalStack[c])
          /\ \A d \in Clients \ {c} : count'[d] = count[d]
        BY <1>2, <2>1
    <2>3. OrderID(c) < count'[c] /\ count'[c] <= Len(globalStack[c])
        BY <1>2, <2>1, <2>2
    <2>4. "pop" \in Label
        BY DEF Label
    <2> QED
        BY <1>1, <2>1, <2>2, <2>3, <2>4, GotoTypes
<1>4. CASE ~ Conflict(c)
    <2>1. Goto(c, "dispatch") /\ count' = count
        BY <1>4 DEF CheckConflict
    <2>2. "dispatch" \in Label
        BY DEF Label
    <2> QED
        BY <1>1, <1>2, <2>1, <2>2, GotoTypes
<1> QED
    BY <1>3, <1>4

(* The popping loop finds an event, above the received one's place.         *)
LEMMA PoppingFits ==
    ASSUME TypeOK, NEW c \in Clients, pc[c] \in {"pop", "save", "remove"}
    PROVE  /\ pc[c] # "idle" /\ count[c] \in Nat /\ OrderID(c) \in Nat
           /\ globalStack[c] \in Seq(Event) /\ globalStack[c] # <<>>
           /\ OrderID(c) < count[c] /\ count[c] <= Len(globalStack[c])
           /\ Last(globalStack[c]) \in Event
           /\ Front(globalStack[c]) \in Seq(Event)
           /\ Len(Front(globalStack[c])) = Len(globalStack[c]) - 1
<1>1. delivered[c] \in Nat /\ delivered[c] > 0
    BY DEF TypeOK, HandlerFits, ServiceTypes
<1>2. OrderID(c) \in Nat
    BY <1>1 DEF OrderID
<1>3. /\ globalStack[c] \in Seq(Event) /\ count[c] \in Nat
      /\ OrderID(c) < count[c] /\ count[c] <= Len(globalStack[c])
    BY DEF TypeOK, HistoryTypes, HandlerTypes, HandlerFits
<1>4. globalStack[c] # <<>>
    BY <1>2, <1>3
<1> QED
    BY <1>2, <1>3, <1>4, FrontType, LastType

LEMMA PopConflictTypes ==
    ASSUME TypeOK, NEW c \in Clients, PopConflict(c)
    PROVE  TypeOK'
<1> DEFINE e == ReverseEvent(Last(globalStack[c]))
<1>1. pc[c] \in {"pop", "save", "remove"}
    BY DEF PopConflict, At
<1>2. e \in Event
    BY <1>1, PoppingFits, ReverseEventType
<1>3. mainQueue' \in [Clients -> Seq(Block)]
    BY <1>2, ApplyBlockType, DispatchType DEF PopConflict
<1>4. /\ UNCHANGED <<serviceVars, text, selection, burstVars, undoVars, method, historyVars, count,
                     tempStack, read_orderID, alive, used>>
      /\ Goto(c, "save") /\ "save" \in Label
    BY DEF PopConflict, Label
<1>5. count' \in [Clients -> Nat] /\ read_orderID' \in [Clients -> Nat]
    BY <1>4 DEF TypeOK, HandlerTypes
<1> QED
    BY <1>1, <1>3, <1>4, <1>5, PoppingFits, GotoTypes

LEMMA SavePoppedTypes ==
    ASSUME TypeOK, NEW c \in Clients, SavePopped(c)
    PROVE  TypeOK'
<1>1. pc[c] = "save"
    BY DEF SavePopped, At
<1>2. Append(tempStack[c], Last(globalStack[c])) \in Seq(Event)
    BY <1>1, PoppingFits DEF TypeOK, HandlerTypes
<1>3. /\ tempStack' = [tempStack EXCEPT ![c] = Append(tempStack[c], Last(globalStack[c]))]
      /\ pc' = [pc EXCEPT ![c] = "remove"]
    BY DEF SavePopped, Goto
<1>4. HandlerTypes'
    BY <1>2, <1>3 DEF SavePopped, TypeOK, HandlerTypes, Label
<1>5. HandlerFits'
    <2>1. \A d \in Clients \ {c} : /\ pc'[d] = pc[d] /\ count'[d] = count[d]
                                   /\ tempStack'[d] = tempStack[d]
                                   /\ globalStack'[d] = globalStack[d]
        BY <1>3 DEF SavePopped, TypeOK, HandlerTypes
    <2>2. /\ pc'[c] = "remove" /\ count'[c] = count[c] /\ globalStack'[c] = globalStack[c]
          /\ log' = log /\ delivered' = delivered
        BY <1>3 DEF SavePopped, TypeOK, HandlerTypes
    <2> QED
        BY <1>1, <2>1, <2>2, PoppingFits, HandlerFitsStep
<1>6. MethodFits'
    BY MethodKept DEF SavePopped
<1>7. /\ ServiceTypes' /\ ScreenTypes' /\ BurstTypes' /\ StackTypes' /\ UndoTypes' /\ HistoryTypes'
      /\ OtherTypes' /\ SelectionFits'
    BY DEF SavePopped, TypeOK, ServiceTypes, ScreenTypes, BurstTypes, StackTypes, UndoTypes,
           HistoryTypes, OtherTypes, SelectionFits
<1> QED
    BY <1>4, <1>5, <1>6, <1>7 DEF TypeOK

LEMMA RemovePoppedTypes ==
    ASSUME TypeOK, NEW c \in Clients, RemovePopped(c)
    PROVE  TypeOK'
<1> DEFINE stack == globalStack[c]
<1>1. pc[c] = "remove"
    BY DEF RemovePopped, At
<1>2. /\ count[c] \in Nat /\ OrderID(c) \in Nat /\ OrderID(c) < count[c] /\ count[c] <= Len(stack)
      /\ Front(stack) \in Seq(Event) /\ Len(Front(stack)) = Len(stack) - 1 /\ Len(stack) \in Nat
    BY <1>1, PoppingFits
<1>3. /\ globalStack' = [globalStack EXCEPT ![c] = Front(stack)]
      /\ count' = [count EXCEPT ![c] = count[c] - 1]
      /\ pc' = [pc EXCEPT ![c] = IF MoreToPop(c) THEN "pop" ELSE "dispatch"]
    BY DEF RemovePopped, Goto
<1>4. HistoryTypes'
    BY <1>2, <1>3 DEF RemovePopped, TypeOK, HistoryTypes
<1>5. HandlerTypes'
    <2>1. pc' \in [Clients -> Label]
        BY <1>3 DEF TypeOK, HandlerTypes, Label
    <2>2. count[c] - 1 \in Nat
        BY <1>2
    <2> QED
        BY <1>3, <2>1, <2>2 DEF RemovePopped, TypeOK, HandlerTypes
<1>6. HandlerFits'
    <2>1. \A d \in Clients \ {c} : /\ pc'[d] = pc[d] /\ count'[d] = count[d]
                                   /\ tempStack'[d] = tempStack[d]
                                   /\ globalStack'[d] = globalStack[d]
        BY <1>3 DEF RemovePopped, TypeOK, HandlerTypes, HistoryTypes
    <2>2. /\ pc'[c] = (IF MoreToPop(c) THEN "pop" ELSE "dispatch")
          /\ count'[c] = count[c] - 1 /\ globalStack'[c] = Front(stack)
          /\ log' = log /\ delivered' = delivered
        BY <1>3 DEF RemovePopped, TypeOK, HandlerTypes, HistoryTypes
    <2>3. pc'[c] \in {"pop", "save", "remove"} =>
             OrderID(c) < count'[c] /\ count'[c] <= Len(globalStack'[c])
        BY <1>2, <2>2 DEF MoreToPop
    <2>4. pc'[c] # "drop"
        BY <2>2
    <2> QED
        BY <1>1, <2>1, <2>2, <2>3, <2>4, HandlerFitsStep
<1>7. MethodFits'
    BY MethodKept DEF RemovePopped
<1>8. /\ ServiceTypes' /\ ScreenTypes' /\ BurstTypes' /\ StackTypes' /\ UndoTypes' /\ OtherTypes'
      /\ SelectionFits'
    BY DEF RemovePopped, TypeOK, ServiceTypes, ScreenTypes, BurstTypes, StackTypes, UndoTypes,
           OtherTypes, SelectionFits
<1> QED
    BY <1>4, <1>5, <1>6, <1>7, <1>8 DEF TypeOK

LEMMA DispatchForeignTypes ==
    ASSUME TypeOK, NEW c \in Clients, DispatchForeign(c)
    PROVE  TypeOK'
<1>1. /\ pc[c] # "idle" /\ count \in [Clients -> Nat] /\ "append" \in Label
      /\ read_orderID \in [Clients -> Nat]
    BY DEF DispatchForeign, At, Label, TypeOK, HandlerTypes
<1>2. ApplyBlock(Received(c)) \in Block
    BY <1>1, ReceivedType, ApplyBlockType
<1>3. mainQueue' \in [Clients -> Seq(Block)]
    BY <1>2, DispatchType DEF DispatchForeign
<1>4. /\ UNCHANGED <<serviceVars, text, selection, burstVars, undoVars, method, historyVars, count,
                     tempStack, read_orderID, alive, used>>
      /\ Goto(c, "append")
    BY DEF DispatchForeign
<1> QED
    BY <1>1, <1>3, <1>4, GotoTypes

LEMMA DispatchPoppedTypes ==
    ASSUME TypeOK, NEW c \in Clients, DispatchPopped(c)
    PROVE  TypeOK'
<1>1. /\ pc[c] # "idle" /\ count \in [Clients -> Nat] /\ "drop" \in Label
      /\ read_orderID \in [Clients -> Nat]
    BY DEF DispatchPopped, At, Label, TypeOK, HandlerTypes
<1>2. OrderID(c) \in Int
    BY DEF OrderID, TypeOK, ServiceTypes
<1>3. LazyBlock(OrderID(c)) \in Block
    BY <1>2 DEF LazyBlock, Block
<1>4. mainQueue' \in [Clients -> Seq(Block)]
    BY <1>3, DispatchType DEF DispatchPopped
<1>5. /\ UNCHANGED <<serviceVars, text, selection, burstVars, undoVars, method, historyVars, count,
                     tempStack, read_orderID, alive, used>>
      /\ Goto(c, "drop") /\ tempStack[c] # <<>>
    BY DEF DispatchPopped
<1> QED
    BY <1>1, <1>4, <1>5, GotoTypes

(* The steps that read a trigger, a stack's count or the counter.           *)
LEMMA ReadingTypes ==
    ASSUME TypeOK, NEW c \in Clients,
           \/ RouteOwn(c) \/ RouteRedone(c) \/ CountReceived(c)
           \/ CountUndoStack(c) \/ CountRedoStack(c)
    PROVE  TypeOK'
<1>1. /\ pc[c] # "idle" /\ count \in [Clients -> Nat] /\ mainQueue \in [Clients -> Seq(Block)]
      /\ read_orderID \in [Clients -> Nat] /\ latest_orderID \in [Clients -> Nat]
    BY DEF RouteOwn, RouteRedone, CountReceived, CountUndoStack, CountRedoStack, At,
           TypeOK, HandlerTypes, ScreenTypes, HistoryTypes
<1>2. PICK label \in {"undone", "route", "redone", "typed", "increment", "undoOn", "undoOff",
                      "redoOn", "redoOff"} : Goto(c, label)
    BY DEF RouteOwn, RouteRedone, CountReceived, CountUndoStack, CountRedoStack
<1>3. label \in Label /\ label \notin {"pop", "save", "remove", "drop"}
    BY DEF Label
<1>4. /\ UNCHANGED <<serviceVars, screenVars, burstVars, undoVars, method, historyVars, count,
                     tempStack, alive, used>>
      /\ \/ read_orderID' = read_orderID
         \/ read_orderID' = [read_orderID EXCEPT ![c] = latest_orderID[c]]
    BY DEF RouteOwn, RouteRedone, CountReceived, CountUndoStack, CountRedoStack
<1>5. read_orderID' \in [Clients -> Nat]
    BY <1>1, <1>4
<1> QED
    BY <1>1, <1>2, <1>3, <1>4, <1>5, GotoTypes

LEMMA AppendForeignTypes ==
    ASSUME TypeOK, NEW c \in Clients, AppendForeign(c)
    PROVE  TypeOK'
<1>1. pc[c] # "idle"
    BY DEF AppendForeign, At
<1>2. Received(c) \in Event
    BY <1>1, ReceivedType
<1>3. globalStack' = [globalStack EXCEPT ![c] = Append(@, Received(c))]
    BY DEF AppendForeign
<1>4. globalStack' \in [Clients -> Seq(Event)]
    BY <1>2, <1>3, AppendedHistory
<1>5. HistoryTypes'
    BY <1>4 DEF AppendForeign, TypeOK, HistoryTypes
<1>6. HandlerTypes'
    BY DEF AppendForeign, Goto, Label, TypeOK, HandlerTypes
<1>7. HandlerFits'
    <2>1. \A d \in Clients \ {c} : /\ pc'[d] = pc[d] /\ count'[d] = count[d]
                                   /\ tempStack'[d] = tempStack[d]
                                   /\ globalStack'[d] = globalStack[d]
        BY <1>3 DEF AppendForeign, Goto, TypeOK, HandlerTypes, HistoryTypes
    <2>2. pc'[c] = "count" /\ log' = log /\ delivered' = delivered
        BY DEF AppendForeign, Goto, TypeOK, HandlerTypes
    <2> QED
        BY <1>1, <2>1, <2>2, HandlerFitsStep
<1>8. /\ ServiceTypes' /\ ScreenTypes' /\ BurstTypes' /\ StackTypes' /\ UndoTypes' /\ OtherTypes'
      /\ SelectionFits' /\ MethodFits'
    BY MethodKept DEF AppendForeign, TypeOK, ServiceTypes, ScreenTypes, BurstTypes, StackTypes,
           UndoTypes, OtherTypes, SelectionFits
<1> QED
    BY <1>5, <1>6, <1>7, <1>8 DEF TypeOK

LEMMA DropPoppedTypes ==
    ASSUME TypeOK, NEW c \in Clients, DropPopped(c)
    PROVE  TypeOK'
<1>1. pc[c] = "drop" /\ tempStack[c] \in Seq(Event) /\ tempStack[c] # <<>>
    BY DEF DropPopped, At, TypeOK, HandlerTypes, HandlerFits
<1>2. Front(tempStack[c]) \in Seq(Event)
    BY <1>1, FrontType
<1>3. /\ tempStack' = [tempStack EXCEPT ![c] = Front(tempStack[c])] /\ count' = count
      /\ pc' = [pc EXCEPT ![c] = IF Len(tempStack[c]) > 1 THEN "dispatch" ELSE "count"]
    BY DEF DropPopped, Goto
<1>4. HandlerTypes'
    <2>1. tempStack' \in [Clients -> Seq(Event)] /\ count' \in [Clients -> Nat]
        BY <1>2, <1>3 DEF TypeOK, HandlerTypes
    <2>2. pc' \in [Clients -> Label]
        BY <1>3 DEF TypeOK, HandlerTypes, Label
    <2> QED
        BY <2>1, <2>2 DEF DropPopped, TypeOK, HandlerTypes
<1>5. HandlerFits'
    <2>1. \A d \in Clients \ {c} : /\ pc'[d] = pc[d] /\ count'[d] = count[d]
                                   /\ tempStack'[d] = tempStack[d]
                                   /\ globalStack'[d] = globalStack[d]
        BY <1>3 DEF DropPopped, TypeOK, HandlerTypes
    <2>2. pc'[c] \in {"dispatch", "count"} /\ log' = log /\ delivered' = delivered
        BY <1>3 DEF DropPopped, TypeOK, HandlerTypes
    <2> QED
        BY <1>1, <2>1, <2>2, HandlerFitsStep
<1>6. /\ ServiceTypes' /\ ScreenTypes' /\ BurstTypes' /\ StackTypes' /\ UndoTypes' /\ HistoryTypes'
      /\ OtherTypes' /\ SelectionFits' /\ MethodFits'
    BY MethodKept DEF DropPopped, TypeOK, ServiceTypes, ScreenTypes, BurstTypes, StackTypes, UndoTypes,
           HistoryTypes, OtherTypes, SelectionFits
<1> QED
    BY <1>4, <1>5, <1>6 DEF TypeOK

(* A handler that goes on to a label with no demands of its own.            *)
LEMMA HandlerGoesOn ==
    ASSUME TypeOK, NEW c \in Clients, pc[c] # "idle",
           NEW label \in Label \ {"pop", "save", "remove", "drop"}, Goto(c, label),
           UNCHANGED <<log, delivered, globalStack>>,
           \A d \in Clients \ {c} : count'[d] = count[d] /\ tempStack'[d] = tempStack[d],
           count' \in [Clients -> Nat], tempStack' \in [Clients -> Seq(Event)],
           read_orderID' \in [Clients -> Nat]
    PROVE  HandlerTypes' /\ HandlerFits'
<1>1. pc' \in [Clients -> Label] /\ pc'[c] = label /\ \A d \in Clients \ {c} : pc'[d] = pc[d]
    BY GotoType DEF Goto, TypeOK, HandlerTypes
<1>2. HandlerFits'
    BY <1>1, HandlerFitsStep
<1> QED
    BY <1>1, <1>2 DEF HandlerTypes

LEMMA RecordOwnTypes ==
    ASSUME TypeOK, NEW c \in Clients, RecordOwn(c)
    PROVE  TypeOK'
<1>1. undoStack \in [Clients -> Seq(Nat)] /\ redoStack \in [Clients -> Seq(Nat)]
    BY DEF TypeOK, StackTypes
<1>2. RecordedID(c) \in Nat
    BY DEF RecordedID, TypeOK, HistoryTypes
<1>3. \A s \in Seq(Nat) : Append(s, RecordedID(c)) \in Seq(Nat) /\ Append(s, RecordedID(c)) # <<>>
    <2>1. SUFFICES ASSUME NEW s \in Seq(Nat)
                   PROVE  Append(s, RecordedID(c)) \in Seq(Nat) /\ Append(s, RecordedID(c)) # <<>>
        OBVIOUS
    <2>2. Append(s, RecordedID(c)) \in Seq(Nat) /\ Len(Append(s, RecordedID(c))) = Len(s) + 1
        BY <1>2
    <2> QED
        BY <2>2
<1>a. ASSUME NEW x \in [Clients -> Seq(Nat)], NEW y,
             y = [x EXCEPT ![c] = Append(x[c], RecordedID(c))]
      PROVE  y \in [Clients -> Seq(Nat)] /\ \A d \in Clients : x[d] # <<>> => y[d] # <<>>
    <2> DEFINE s == Append(x[c], RecordedID(c))
    <2>1. s \in Seq(Nat) /\ s # <<>> /\ y = [x EXCEPT ![c] = s]
        BY <1>3, <1>a
    <2> HIDE DEF s
    <2>2. y \in [Clients -> Seq(Nat)] /\ y[c] = s /\ \A d \in Clients \ {c} : y[d] = x[d]
        BY <2>1
    <2> QED
        BY <2>1, <2>2
<1>4. /\ undoStack' \in [Clients -> Seq(Nat)] /\ redoStack' \in [Clients -> Seq(Nat)]
      /\ \A d \in Clients : undoStack[d] # <<>> => undoStack'[d] # <<>>
      /\ \A d \in Clients : redoStack[d] # <<>> => redoStack'[d] # <<>>
    <2>1. CASE pc[c] = "undone"
        <3>1. /\ redoStack' = [redoStack EXCEPT ![c] = Append(redoStack[c], RecordedID(c))]
              /\ undoStack' = undoStack
            BY <2>1 DEF RecordOwn
        <3> QED
            BY <1>1, <1>a, <3>1
    <2>2. CASE pc[c] # "undone"
        <3>1. /\ undoStack' = [undoStack EXCEPT ![c] = Append(undoStack[c], RecordedID(c))]
              /\ redoStack' = redoStack
            BY <2>2 DEF RecordOwn
        <3> QED
            BY <1>1, <1>a, <3>1
    <2> QED
        BY <2>1, <2>2
<1>5. StackTypes'
    BY <1>4 DEF RecordOwn, TypeOK, StackTypes
<1>6. MethodFits'
    BY <1>4, MethodKept DEF RecordOwn
<1>7. HandlerTypes' /\ HandlerFits'
    <2>1. pc[c] # "idle" /\ UNCHANGED <<log, delivered, globalStack, count, tempStack, read_orderID>>
        BY DEF RecordOwn
    <2>2. PICK label \in Label \ {"pop", "save", "remove", "drop"} : Goto(c, label)
        BY DEF RecordOwn, Label
    <2> QED
        BY <2>1, <2>2, HandlerGoesOn DEF TypeOK, HandlerTypes
<1>8. /\ ServiceTypes' /\ ScreenTypes' /\ BurstTypes' /\ UndoTypes' /\ HistoryTypes'
      /\ OtherTypes' /\ SelectionFits'
    BY DEF RecordOwn, TypeOK, ServiceTypes, ScreenTypes, BurstTypes, UndoTypes,
           HistoryTypes, OtherTypes, SelectionFits
<1> QED
    BY <1>5, <1>6, <1>7, <1>8 DEF TypeOK

LEMMA ClearTriggerTypes ==
    ASSUME TypeOK, NEW c \in Clients, ClearTrigger(c)
    PROVE  TypeOK'
<1>1. undo_trigger' \in [Clients -> BOOLEAN] /\ redo_trigger' \in [Clients -> BOOLEAN]
    <2> DEFINE u == undo_trigger[c] /\ ~ Clears(c, "clearUndo")
               v == redo_trigger[c] /\ ~ Clears(c, "clearRedo")
    <2>1. undo_trigger' = [undo_trigger EXCEPT ![c] = u] /\ redo_trigger' = [redo_trigger EXCEPT ![c] = v]
        BY DEF ClearTrigger
    <2>2. /\ undo_trigger \in [Clients -> BOOLEAN] /\ redo_trigger \in [Clients -> BOOLEAN]
          /\ u \in BOOLEAN /\ v \in BOOLEAN
        BY DEF TypeOK, StackTypes
    <2> HIDE DEF u, v
    <2> QED
        BY <2>1, <2>2
<1>2. StackTypes'
    BY <1>1 DEF ClearTrigger, TypeOK, StackTypes
<1>3. HandlerTypes' /\ HandlerFits'
    <2>1. /\ pc[c] # "idle" /\ UNCHANGED <<log, delivered, globalStack, count, tempStack, read_orderID>>
          /\ Goto(c, "count") /\ "count" \in Label
        BY DEF ClearTrigger, Label
    <2> QED
        BY <2>1, HandlerGoesOn DEF TypeOK, HandlerTypes
<1>4. /\ ServiceTypes' /\ ScreenTypes' /\ BurstTypes' /\ UndoTypes' /\ HistoryTypes'
      /\ OtherTypes' /\ SelectionFits' /\ MethodFits'
    BY MethodKept DEF ClearTrigger, TypeOK, ServiceTypes, ScreenTypes, BurstTypes, UndoTypes,
           HistoryTypes, OtherTypes, SelectionFits
<1> QED
    BY <1>2, <1>3, <1>4 DEF TypeOK

LEMMA AdvanceOrderIDTypes ==
    ASSUME TypeOK, NEW c \in Clients, AdvanceOrderID(c)
    PROVE  TypeOK'
<1>1. HistoryTypes'
    <2>1. latest_orderID' = [latest_orderID EXCEPT ![c] = read_orderID[c] + 1]
        BY DEF AdvanceOrderID
    <2>2. latest_orderID \in [Clients -> Nat] /\ read_orderID[c] + 1 \in Nat
        BY DEF TypeOK, HistoryTypes, HandlerTypes
    <2> QED
        BY <2>1, <2>2 DEF AdvanceOrderID, TypeOK, HistoryTypes
<1>2. HandlerTypes' /\ HandlerFits'
    <2>1. /\ pc[c] # "idle" /\ UNCHANGED <<log, delivered, globalStack, count, tempStack>>
          /\ read_orderID' = [read_orderID EXCEPT ![c] = 0]
          /\ Goto(c, "undoCount") /\ "undoCount" \in Label
        BY DEF AdvanceOrderID, At, Label
    <2>2. read_orderID' \in [Clients -> Nat]
        BY <2>1 DEF TypeOK, HandlerTypes
    <2> QED
        BY <2>1, <2>2, HandlerGoesOn DEF TypeOK, HandlerTypes
<1>3. /\ ServiceTypes' /\ ScreenTypes' /\ BurstTypes' /\ StackTypes' /\ UndoTypes'
      /\ OtherTypes' /\ SelectionFits' /\ MethodFits'
    BY MethodKept DEF AdvanceOrderID, TypeOK, ServiceTypes, ScreenTypes, BurstTypes, StackTypes,
           UndoTypes, OtherTypes, SelectionFits
<1> QED
    BY <1>1, <1>2, <1>3 DEF TypeOK

LEMMA SetButtonTypes ==
    ASSUME TypeOK, NEW c \in Clients, SetUndoButton(c) \/ SetRedoButton(c)
    PROVE  TypeOK'
<1>1. UndoTypes'
    BY DEF SetUndoButton, SetRedoButton, RedoFollows, TypeOK, UndoTypes
<1>2. HandlerTypes' /\ HandlerFits'
    <2>1. /\ pc[c] # "idle" /\ UNCHANGED <<log, delivered, globalStack, read_orderID>>
        BY DEF SetUndoButton, SetRedoButton
    <2>2. PICK label \in {"redoCount", "idle"} : Goto(c, label)
        BY DEF SetUndoButton, SetRedoButton
    <2>3. /\ count' \in [Clients -> Nat] /\ tempStack' \in [Clients -> Seq(Event)]
          /\ \A d \in Clients \ {c} : count'[d] = count[d] /\ tempStack'[d] = tempStack[d]
        <3>1. CASE SetUndoButton(c)
            BY <3>1 DEF SetUndoButton, TypeOK, HandlerTypes
        <3>2. CASE SetRedoButton(c)
            <4>1. /\ count' = [count EXCEPT ![c] = 0] /\ tempStack' = [tempStack EXCEPT ![c] = <<>>]
                BY <3>2 DEF SetRedoButton
            <4>2. count \in [Clients -> Nat] /\ tempStack \in [Clients -> Seq(Event)] /\ <<>> \in Seq(Event)
                BY DEF TypeOK, HandlerTypes
            <4> QED
                BY <4>1, <4>2
        <3> QED
            BY <3>1, <3>2
    <2>4. label \in Label \ {"pop", "save", "remove", "drop"}
        BY DEF Label
    <2> QED
        BY <2>1, <2>2, <2>3, <2>4, HandlerGoesOn DEF TypeOK, HandlerTypes
<1>3. /\ ServiceTypes' /\ ScreenTypes' /\ BurstTypes' /\ StackTypes' /\ HistoryTypes'
      /\ OtherTypes' /\ SelectionFits' /\ MethodFits'
    BY MethodKept DEF SetUndoButton, SetRedoButton, TypeOK, ServiceTypes, ScreenTypes, BurstTypes,
           StackTypes, HistoryTypes, OtherTypes, SelectionFits
<1> QED
    BY <1>1, <1>2, <1>3 DEF TypeOK


-----------------------------------------------------------------------------
(* The main queue and the service.                                          *)

LEMMA RunBlockTypes ==
    ASSUME TypeOK, NEW c \in Clients, RunBlock(c)
    PROVE  TypeOK'
<1> DEFINE block == Head(mainQueue[c])
           e == BlockEvent(c, block)
           t == ApplyEvent(text[c], e)
           runs == ~ FindsNil(c, block) /\ InText(text[c], e)
<1>1. mainQueue \in [Clients -> Seq(Block)] /\ mainQueue[c] \in Seq(Block) /\ mainQueue[c] # <<>>
    BY DEF RunBlock, TypeOK, ScreenTypes
<1>2. block \in Block /\ Tail(mainQueue[c]) \in Seq(Block)
    BY <1>1, HeadTailProperties
<1>3. mainQueue' \in [Clients -> Seq(Block)]
    BY <1>1, <1>2 DEF RunBlock
<1>4. text' \in [Clients -> Seq(Char)] /\ selection' \in [Clients -> Selection] /\ SelectionFits'
    <2>1. CASE runs
        <3>1. e \in Event
            <4>1. CASE block.kind = "lazy"
                <5>1. tempStack[c] \in Seq(Event) /\ tempStack[c] # <<>>
                    BY <2>1, <4>1 DEF FindsNil, TypeOK, HandlerTypes
                <5> QED
                    BY <4>1, <5>1, LastType DEF BlockEvent
            <4>2. CASE block.kind # "lazy"
                BY <1>2, <4>2 DEF BlockEvent, Block
            <4> QED
                BY <4>1, <4>2
        <3>2. Display(c, t, Len(t))
            BY <2>1 DEF RunBlock
        <3>3. text[c] \in Seq(Char) /\ InText(text[c], e)
            BY <2>1 DEF TypeOK, ScreenTypes
        <3> HIDE DEF e
        <3>4. t \in Seq(Char)
            BY <3>1, <3>3, ApplyEventType
        <3> HIDE DEF t
        <3>5. Len(t) \in Nat /\ Len(t) <= Len(t)
            BY <3>4
        <3> QED
            BY <3>2, <3>4, <3>5, DisplayTypes
    <2>2. CASE ~ runs
        <3>1. UNCHANGED <<text, selection>>
            BY <2>2, Zenon DEF RunBlock
        <3> QED
            BY <3>1 DEF TypeOK, ScreenTypes, SelectionFits
    <2> QED
        BY <2>1, <2>2
<1>5. OtherTypes'
    <2>1. alive' = alive \/ alive' = [alive EXCEPT ![c] = FALSE]
        BY Zenon DEF RunBlock, Crash
    <2>2. used' = used
        BY DEF RunBlock
    <2> QED
        BY <2>1, <2>2 DEF TypeOK, OtherTypes
<1>6. HandlerFits'
    BY HandlerFitsUnchanged DEF RunBlock
<1>7. ScreenTypes'
    BY <1>3, <1>4 DEF ScreenTypes
<1>8. /\ ServiceTypes' /\ BurstTypes' /\ StackTypes' /\ UndoTypes' /\ HistoryTypes'
      /\ HandlerTypes'
    BY DEF RunBlock, TypeOK, ServiceTypes, BurstTypes, StackTypes, UndoTypes, HistoryTypes,
           HandlerTypes
<1>9. MethodFits'
    BY MethodKept DEF RunBlock
<1> QED
    BY <1>4, <1>5, <1>6, <1>7, <1>8, <1>9 DEF TypeOK

LEMMA OrderTypes ==
    ASSUME TypeOK, NEW c \in Clients, Service(c)
    PROVE  TypeOK'
<1>1. log \in Seq(Event) /\ outbox \in [Clients -> Seq(Event)] /\ outbox[c] \in Seq(Event)
    BY DEF TypeOK, ServiceTypes
<1>2. outbox[c] # <<>> /\ log' = Append(log, Head(outbox[c])) /\ delivered' = delivered
    BY DEF Service, Order
<1>3. Head(outbox[c]) \in Event /\ Tail(outbox[c]) \in Seq(Event)
    BY <1>1, <1>2, HeadTailProperties
<1>4. log' \in Seq(Event) /\ Len(log') = Len(log) + 1 /\ Len(log) \in Nat
    BY <1>1, <1>2, <1>3, AppendProperties
<1>5. ServiceTypes'
    <2>1. outbox' = [outbox EXCEPT ![c] = Tail(outbox[c])]
        BY DEF Service, Order
    <2>2. outbox' \in [Clients -> Seq(Event)]
        BY <1>1, <1>3, <2>1
    <2> QED
        BY <1>2, <1>4, <2>2 DEF TypeOK, ServiceTypes
<1>6. HandlerFits'
    <2>1. \A d \in Clients : delivered[d] \in Nat
        BY DEF TypeOK, ServiceTypes
    <2> QED
        BY <1>2, <1>4, <2>1 DEF Service, TypeOK, HandlerFits, OrderID
<1>7. /\ ScreenTypes' /\ BurstTypes' /\ StackTypes' /\ UndoTypes' /\ HistoryTypes'
      /\ HandlerTypes' /\ OtherTypes' /\ SelectionFits'
    BY DEF Service, TypeOK, ScreenTypes, BurstTypes, StackTypes, UndoTypes, HistoryTypes,
           HandlerTypes, OtherTypes, SelectionFits
<1>8. MethodFits'
    BY MethodKept DEF Service
<1> QED
    BY <1>5, <1>6, <1>7, <1>8 DEF TypeOK

-----------------------------------------------------------------------------
LEMMA StepTypes ==
    ASSUME TypeOK, [Next]_vars
    PROVE  TypeOK'
<1>1. CASE UNCHANGED vars
    BY <1>1, MethodKept
       DEF vars, TypeOK, ServiceTypes, ScreenTypes, BurstTypes, StackTypes, UndoTypes,
           HistoryTypes, HandlerTypes, OtherTypes, SelectionFits, HandlerFits, OrderID
<1>2. ASSUME NEW c \in Clients, UserInput(c) PROVE TypeOK'
    BY <1>2, FlushBurstTypes, TypeTextTypes, DeleteTextTypes, RefuseBackspaceTypes,
       MoveCursorTypes, StartReversalTypes DEF UserInput
<1>3. ASSUME NEW c \in Clients, ContinueMethod(c) PROVE TypeOK'
    BY <1>3, ReadOrderIDTypes, WriteOrderIDTypes, RecordBurstTypes, ResumeKeyTypes, RemoveIDTypes,
       FindEventTypes, MeasureHistoryTypes, ShiftReversalTypes, SetTriggerTypes, SendReversalTypes,
       ApplyReversalTypes, TestStackTypes, ButtonStepTypes DEF ContinueMethod
<1>4. ASSUME NEW c \in Clients, MainThread(c) PROVE TypeOK'
    BY <1>3, <1>4, TimerFiresTypes, RunBlockTypes DEF MainThread
<1>5. ASSUME NEW c \in Clients, ReceiveHandler(c) PROVE TypeOK'
    BY <1>5, CheckConflictTypes, PopConflictTypes, SavePoppedTypes, RemovePoppedTypes,
       DispatchForeignTypes, AppendForeignTypes, DispatchPoppedTypes, DropPoppedTypes, ReadingTypes,
       RecordOwnTypes, ClearTriggerTypes, AdvanceOrderIDTypes, SetButtonTypes DEF ReceiveHandler
<1> QED
    BY <1>1, <1>2, <1>4, <1>5, ReceiveEventTypes, OrderTypes DEF Next, ClientStep

(* Every variable keeps its kind, the selection stays in the text, the      *)
(* receive handler never reads past the end of the history or of its        *)
(* tempStack, and undo: and redo: find an id to take off, whatever the      *)
(* other thread does meanwhile (ViewController.mm:271-346, 477-546).        *)
THEOREM TypeCorrect == Spec => []TypeOK
<1>1. Init => TypeOK
    BY InitTypes
<1>2. TypeOK /\ [Next]_vars => TypeOK'
    BY StepTypes
<1> QED
    BY <1>1, <1>2, PTL DEF Spec

LEMMA MinOfTwo ==
    ASSUME NEW a \in Int, NEW b \in Int
    PROVE  Min({a, b}) = IF a <= b THEN a ELSE b
<1>1. (IF a <= b THEN a ELSE b) \in {a, b} /\ \A y \in {a, b} : (IF a <= b THEN a ELSE b) <= y
    OBVIOUS
<1>2. \A x \in {a, b} : (\A y \in {a, b} : x <= y) => x = IF a <= b THEN a ELSE b
    OBVIOUS
<1> QED
    BY <1>1, <1>2 DEF Min

LEMMA PrefixKept ==
    ASSUME NEW S, NEW g \in Seq(S), NEW h \in Seq(S), NEW m \in Nat,
           m <= Len(g), m <= Len(h), \A i \in 1 .. m : h[i] = g[i]
    PROVE  IsPrefix(SubSeq(g, 1, m), h)
<1>1. m \in 0 .. Len(g) /\ m \in 0 .. Len(h)
    OBVIOUS
<1> DEFINE p == SubSeq(g, 1, m)
           q == SubSeq(h, 1, m)
<1>2. p \in Seq(S) /\ Len(p) = m /\ \A i \in 1 .. m : p[i] = g[i]
    BY <1>1
<1>3. q \in Seq(S) /\ Len(q) = m /\ \A i \in 1 .. m : q[i] = h[i]
    BY <1>1
<1> HIDE DEF p, q
<1>4. p = q
    BY <1>2, <1>3, SeqEqual
<1>5. SubSeq(p, 1, Len(p)) = p
    BY <1>2, SubSeqFull
<1>6. SubSeq(p, 1, Len(p)) = SubSeq(h, 1, Len(p))
    BY <1>2, <1>4, <1>5 DEF q
<1>7. Len(p) <= Len(h)
    BY <1>2
<1> QED
    BY <1>6, <1>7, Zenon DEF IsPrefix, p

(* How a step can change a client's history: not, by one event at its end,  *)
(* or, in the popping loop, by taking the last one off.                     *)
Grown(h, g) == \E e \in Event : h = Append(g, e)

HistoryStep(d) ==
    \/ globalStack'[d] = globalStack[d]
    \/ Grown(globalStack'[d], globalStack[d])
    \/ pc[d] = "remove" /\ globalStack'[d] = Front(globalStack[d])

LEMMA AppendStep ==
    ASSUME TypeOK, NEW c \in Clients, NEW e \in Event, NEW d \in Clients,
           globalStack' = [globalStack EXCEPT ![c] = Append(@, e)]
    PROVE  HistoryStep(d)
BY DEF HistoryStep, Grown, TypeOK, HistoryTypes

LEMMA RecordsStep ==
    ASSUME TypeOK, NEW c \in Clients, NEW d \in Clients, method[c].step = "append", RecordsEvent(c)
    PROVE  HistoryStep(d)
<1>1. method[c].event \in Event
    BY DEF TypeOK, MethodFits
<1> QED
    BY <1>1, AppendStep DEF RecordsEvent

LEMMA HistorySteps ==
    ASSUME TypeOK, [Next]_vars, NEW d \in Clients
    PROVE  HistoryStep(d)
<1>1. CASE globalStack' = globalStack
    BY <1>1 DEF HistoryStep
<1>2. ASSUME NEW c \in Clients, UserInput(c) PROVE HistoryStep(d)
    <2>1. globalStack' = globalStack
        BY <1>2 DEF UserInput, FlushBurst, TypeText, DeleteText, RefuseBackspace, KeyPressed,
                    MoveCursor, Undo, Redo, StartReversal, historyVars
    <2> QED
        BY <1>1, <2>1
<1>3. ASSUME NEW c \in Clients, MainThread(c) PROVE HistoryStep(d)
    <2>1. CASE RecordBurst(c)
        BY <2>1, RecordsStep DEF RecordBurst, Doing
    <2>2. CASE ApplyReversal(c)
        <3>1. method[c].step = "append" /\ (RecordsEvent(c) \/ globalStack' = globalStack)
            BY <2>2 DEF ApplyReversal, Doing
        <3> QED
            BY <1>1, <3>1, RecordsStep
    <2>3. CASE ~ RecordBurst(c) /\ ~ ApplyReversal(c)
        <3>1. globalStack' = globalStack
            BY <1>3, <2>3
               DEF MainThread, ContinueMethod, TimerFires, RunBlock, ReadOrderID, WriteOrderID,
                   ResumeKey, RemoveID, FindEvent, MeasureHistory, ShiftReversal, SetTrigger,
                   SendReversal, TestStack, DisableButton, EnableButton, historyVars
        <3> QED
            BY <1>1, <3>1
    <2> QED
        BY <2>1, <2>2, <2>3
<1>4. ASSUME NEW c \in Clients, ReceiveHandler(c) PROVE HistoryStep(d)
    <2>1. CASE RemovePopped(c)
        <3>1. pc[c] = "remove" /\ globalStack' = [globalStack EXCEPT ![c] = Front(@)]
            BY <2>1 DEF RemovePopped, At
        <3> QED
            BY <3>1 DEF HistoryStep, TypeOK, HistoryTypes
    <2>2. CASE AppendForeign(c)
        <3>1. Received(c) \in Event
            BY <2>2, ReceivedType DEF AppendForeign, At
        <3> QED
            BY <2>2, <3>1, AppendStep DEF AppendForeign
    <2>3. CASE ~ RemovePopped(c) /\ ~ AppendForeign(c)
        <3>1. globalStack' = globalStack
            BY <1>4, <2>3
               DEF ReceiveHandler, CheckConflict, PopConflict, SavePopped, DispatchForeign,
                   DispatchPopped, DropPopped, RouteOwn, RouteRedone, RecordOwn, ClearTrigger,
                   CountReceived, AdvanceOrderID, CountUndoStack, SetUndoButton, CountRedoStack,
                   SetRedoButton, historyVars
        <3> QED
            BY <1>1, <3>1
    <2> QED
        BY <2>1, <2>2, <2>3
<1>5. ASSUME NEW c \in Clients, ReceiveEvent(c) \/ Service(c) PROVE HistoryStep(d)
    BY <1>1, <1>5 DEF ReceiveEvent, Service, historyVars
<1> QED
    BY <1>1, <1>2, <1>3, <1>4, <1>5 DEF Next, ClientStep, vars, historyVars

(* (ViewController.mm:282-300).                                             *)
THEOREM HistoryKept == Spec => SettledHistoryKept
<1>1. ASSUME TypeOK, TypeOK', [Next]_vars, NEW d \in Clients
      PROVE  IsPrefix(SubSeq(globalStack[d], 1, Min({Recorded(d), Len(globalStack[d])})),
                      globalStack'[d])
    <2> DEFINE g == globalStack[d]
               h == globalStack'[d]
               m == Min({Recorded(d), Len(g)})
    <2>1. g \in Seq(Event) /\ h \in Seq(Event)
        BY <1>1 DEF TypeOK, HistoryTypes
    <2>2. delivered[d] \in Nat /\ (pc[d] # "idle" => delivered[d] > 0)
        BY <1>1 DEF TypeOK, ServiceTypes, HandlerFits
    <2>3. Recorded(d) \in Nat
        BY <2>2 DEF Recorded, Deciding
    <2>4. Len(g) \in Nat /\ Len(h) \in Nat
        BY <2>1
    <2>5. m = IF Recorded(d) <= Len(g) THEN Recorded(d) ELSE Len(g)
        BY <2>3, <2>4, MinOfTwo
    <2>6. m \in Nat /\ m <= Len(g) /\ m <= Recorded(d)
        BY <2>3, <2>4, <2>5
    <2>7. HistoryStep(d)
        BY <1>1, HistorySteps
    <2> HIDE DEF m
    <2>8. m <= Len(h) /\ \A i \in 1 .. m : h[i] = g[i]
        <3>1. CASE h = g
            BY <2>6, <3>1
        <3>2. CASE Grown(h, g)
            <4>1. PICK e \in Event : h = Append(g, e)
                BY <3>2 DEF Grown
            <4>2. Len(h) = Len(g) + 1 /\ \A i \in 1 .. Len(g) : h[i] = g[i]
                BY <2>1, <4>1
            <4> QED
                BY <2>4, <2>6, <4>2
        <3>3. CASE pc[d] = "remove" /\ h = Front(g)
            <4>1. Recorded(d) = OrderID(d) /\ OrderID(d) < count[d] /\ count[d] <= Len(g)
                BY <1>1, <3>3 DEF Recorded, Deciding, OrderID, TypeOK, HandlerFits
            <4>2. count[d] \in Nat
                BY <1>1 DEF TypeOK, HandlerTypes
            <4>3. m <= Len(g) - 1 /\ g # <<>>
                BY <2>3, <2>4, <2>6, <4>1, <4>2
            <4>4. Len(h) = Len(g) - 1
                BY <2>1, <3>3, <4>3, FrontType
            <4>5. h = SubSeq(g, 1, Len(g) - 1)
                BY <3>3, Zenon DEF Front
            <4>6. \A i \in 1 .. Len(g) - 1 : h[i] = g[i]
                BY <2>1, <4>5
            <4> QED
                BY <2>4, <2>6, <4>3, <4>4, <4>6
        <3> QED
            BY <2>7, <3>1, <3>2, <3>3 DEF HistoryStep
    <2> HIDE DEF g, h, m
    <2>9. IsPrefix(SubSeq(g, 1, m), h)
        BY <2>1, <2>6, <2>8, PrefixKept
    <2> QED
        BY <2>9, Zenon DEF g, h, m
<1>2. TypeOK /\ TypeOK' /\ [Next]_vars =>
        [\A c \in Clients :
            IsPrefix(SubSeq(globalStack[c], 1, Min({Recorded(c), Len(globalStack[c])})),
                     globalStack'[c])]_vars
    BY <1>1
<1>3. Spec => []TypeOK
    BY TypeCorrect
<1> QED
    BY <1>2, <1>3, PTL DEF Spec, SettledHistoryKept

-----------------------------------------------------------------------------
(* A step of one client changes nothing of another one.                     *)

Untouched(d) ==
    /\ outbox'[d] = outbox[d] /\ delivered'[d] = delivered[d]
    /\ text'[d] = text[d] /\ selection'[d] = selection[d] /\ mainQueue'[d] = mainQueue[d]
    /\ currentEventString'[d] = currentEventString[d]
    /\ currentEventType'[d] = currentEventType[d] /\ eventDelay'[d] = eventDelay[d]
    /\ undoStack'[d] = undoStack[d] /\ redoStack'[d] = redoStack[d]
    /\ undo_trigger'[d] = undo_trigger[d] /\ redo_trigger'[d] = redo_trigger[d]
    /\ undoEnabled'[d] = undoEnabled[d] /\ redoEnabled'[d] = redoEnabled[d]
    /\ method'[d] = method[d] /\ globalStack'[d] = globalStack[d]
    /\ latest_orderID'[d] = latest_orderID[d]
    /\ pc'[d] = pc[d] /\ count'[d] = count[d] /\ tempStack'[d] = tempStack[d]
    /\ read_orderID'[d] = read_orderID[d]
    /\ alive'[d] = alive[d] /\ used'[d] = used[d]

LEMMA KeyUntouched ==
    ASSUME TypeOK, NEW c \in Clients, NEW d \in Clients, c # d, KeyPressed(c),
           outbox'[d] = outbox[d], method'[d] = method[d], alive'[d] = alive[d],
           text'[d] = text[d], selection'[d] = selection[d],
           currentEventString'[d] = currentEventString[d],
           currentEventType'[d] = currentEventType[d]
    PROVE  Untouched(d) /\ log' = log
<1>1. /\ eventDelay'[d] = eventDelay[d] /\ used'[d] = used[d]
      /\ undoEnabled'[d] = undoEnabled[d]
    BY DEF KeyPressed, Input, TypeOK, BurstTypes, OtherTypes, UndoTypes
<1> QED
    BY <1>1 DEF KeyPressed, Untouched, stackVars, historyVars, handlerVars

LEMMA EditUntouched ==
    ASSUME TypeOK, NEW c \in Clients, NEW d \in Clients, c # d,
           Erase(c) \/ \E r \in Replacements : Insert(c, r)
    PROVE  /\ text'[d] = text[d] /\ selection'[d] = selection[d] /\ alive'[d] = alive[d]
           /\ currentEventString'[d] = currentEventString[d]
           /\ currentEventType'[d] = currentEventType[d]
<1>1. CASE Erase(c)
    <2>1. alive'[d] = alive[d] /\ currentEventType'[d] = currentEventType[d]
        BY <1>1 DEF Erase, Crash, TypeOK, OtherTypes, BurstTypes
    <2>2. /\ text'[d] = text[d] /\ selection'[d] = selection[d]
          /\ currentEventString'[d] = currentEventString[d]
        BY <1>1 DEF Erase, Replace, Display, TypeOK, ScreenTypes, BurstTypes
    <2> QED
        BY <2>1, <2>2
<1>2. ASSUME NEW r \in Replacements, Insert(c, r)
      PROVE  /\ text'[d] = text[d] /\ selection'[d] = selection[d] /\ alive'[d] = alive[d]
             /\ currentEventString'[d] = currentEventString[d]
             /\ currentEventType'[d] = currentEventType[d]
    BY <1>2 DEF Insert, Replace, Display, TypeOK, ScreenTypes, BurstTypes
<1> QED
    BY <1>1, <1>2

LEMMA SendUntouched ==
    ASSUME TypeOK, NEW c \in Clients, NEW d \in Clients, c # d, NEW kind, SendBurst(c, kind)
    PROVE  /\ outbox'[d] = outbox[d] /\ method'[d] = method[d]
           /\ currentEventString'[d] = currentEventString[d]
           /\ currentEventType'[d] = currentEventType[d]
BY DEF SendBurst, Broadcast, TypeOK, ServiceTypes, UndoTypes, BurstTypes

LEMMA InputUntouched ==
    ASSUME TypeOK, NEW c \in Clients, NEW d \in Clients, c # d, UserInput(c)
    PROVE  Untouched(d) /\ log' = log
<1>1. CASE DeleteText(c) \/ \E r \in Replacements : TypeText(c, r)
    BY <1>1, EditUntouched, KeyUntouched DEF DeleteText, TypeText
<1>2. CASE RefuseBackspace(c)
    BY <1>2, KeyUntouched DEF RefuseBackspace
<1>3. CASE \E type \in EventType : FlushBurst(c, type)
    BY <1>3, SendUntouched, KeyUntouched DEF FlushBurst
<1>4. CASE MoveCursor(c)
    <2>1. used'[d] = used[d] /\ selection'[d] = selection[d]
        BY <1>4 DEF MoveCursor, Input, TypeOK, OtherTypes, ScreenTypes
    <2> QED
        BY <1>4, <2>1 DEF MoveCursor, Untouched, serviceVars, burstVars, undoVars, stackVars,
                          buttonVars, historyVars, handlerVars
<1>5. CASE Undo(c) \/ Redo(c)
    <2>1. used'[d] = used[d]
        BY <1>5 DEF Undo, Redo, StartReversal, Input, TypeOK, OtherTypes
    <2>2. method'[d] = method[d]
        BY <1>5 DEF Undo, Redo, StartReversal, TypeOK, UndoTypes
    <2> QED
        BY <1>5, <2>1, <2>2
           DEF Undo, Redo, StartReversal, Untouched, serviceVars, screenVars, burstVars,
               undoVars, stackVars, buttonVars, historyVars, handlerVars
<1> QED
    BY <1>1, <1>2, <1>3, <1>4, <1>5 DEF UserInput

LEMMA MethodUntouched ==
    ASSUME TypeOK, NEW c \in Clients, NEW d \in Clients, c # d, ContinueMethod(c)
    PROVE  method'[d] = method[d] /\ alive'[d] = alive[d]
<1>1. method \in [Clients -> Method] /\ alive \in [Clients -> BOOLEAN]
    BY DEF TypeOK, UndoTypes, OtherTypes
<1>2. CASE ReadOrderID(c) \/ WriteOrderID(c) \/ RecordBurst(c) \/ RemoveID(c) \/ MeasureHistory(c)
    BY <1>1, <1>2 DEF ReadOrderID, WriteOrderID, RecordBurst, RemoveID, MeasureHistory, Then
<1>3. CASE ResumeKey(c)
    BY <1>1, <1>3, EditUntouched DEF ResumeKey, Return
<1>4. CASE FindEvent(c) \/ ShiftReversal(c) \/ SetTrigger(c)
    BY <1>1, <1>4 DEF FindEvent, ShiftReversal, SetTrigger, Crash
<1>5. CASE SendReversal(c) \/ ApplyReversal(c)
    BY <1>1, <1>5 DEF SendReversal, ApplyReversal, Crash, Then
<1>6. CASE TestStack(c) \/ DisableButton(c) \/ EnableButton(c)
    BY <1>1, <1>6 DEF TestStack, DisableButton, EnableButton, Then, Return
<1> QED
    BY <1>2, <1>3, <1>4, <1>5, <1>6 DEF ContinueMethod

LEMMA MainThreadUntouched ==
    ASSUME TypeOK, NEW c \in Clients, NEW d \in Clients, c # d, MainThread(c)
    PROVE  Untouched(d) /\ log' = log
<1> USE DEF serviceVars, screenVars, burstVars, undoVars, stackVars, buttonVars, historyVars,
            handlerVars
<1>1. CASE TimerFires(c)
    <2>1. eventDelay'[d] = eventDelay[d]
        BY <1>1 DEF TimerFires, TypeOK, BurstTypes
    <2> QED
        BY <1>1, <2>1, SendUntouched DEF TimerFires, Untouched
<1>2. CASE RunBlock(c)
    <2>1. /\ text'[d] = text[d] /\ selection'[d] = selection[d]
          /\ mainQueue'[d] = mainQueue[d] /\ alive'[d] = alive[d]
        BY <1>2 DEF RunBlock, Display, Crash, TypeOK, ScreenTypes, OtherTypes
    <2> QED
        BY <1>2, <2>1 DEF RunBlock, Untouched
<1>3. CASE ReadOrderID(c) \/ FindEvent(c) \/ MeasureHistory(c) \/ ShiftReversal(c) \/ TestStack(c)
    BY <1>3, MethodUntouched
       DEF ContinueMethod, ReadOrderID, FindEvent, MeasureHistory, ShiftReversal, TestStack, Untouched
<1>4. CASE WriteOrderID(c)
    <2>1. latest_orderID'[d] = latest_orderID[d]
        BY <1>4 DEF WriteOrderID, TypeOK, HistoryTypes
    <2> QED
        BY <1>4, <2>1, MethodUntouched DEF ContinueMethod, WriteOrderID, Untouched
<1>5. CASE RecordBurst(c)
    <2>1. globalStack'[d] = globalStack[d]
        BY <1>5 DEF RecordBurst, RecordsEvent, TypeOK, HistoryTypes
    <2> QED
        BY <1>5, <2>1, MethodUntouched DEF ContinueMethod, RecordBurst, Untouched
<1>6. CASE ResumeKey(c)
    BY <1>6, EditUntouched, MethodUntouched DEF ContinueMethod, ResumeKey, Untouched
<1>7. CASE RemoveID(c)
    <2>1. undoStack'[d] = undoStack[d] /\ redoStack'[d] = redoStack[d]
        BY <1>7 DEF RemoveID, TypeOK, StackTypes
    <2> QED
        BY <1>7, <2>1, MethodUntouched DEF ContinueMethod, RemoveID, Untouched
<1>8. CASE SetTrigger(c)
    <2>1. undo_trigger'[d] = undo_trigger[d] /\ redo_trigger'[d] = redo_trigger[d]
        BY <1>8 DEF SetTrigger, TypeOK, StackTypes
    <2> QED
        BY <1>8, <2>1, MethodUntouched DEF ContinueMethod, SetTrigger, Untouched
<1>9. CASE SendReversal(c)
    <2>1. outbox'[d] = outbox[d]
        BY <1>9 DEF SendReversal, Broadcast, TypeOK, ServiceTypes
    <2> QED
        BY <1>9, <2>1, MethodUntouched DEF ContinueMethod, SendReversal, Untouched
<1>10. CASE ApplyReversal(c)
    <2>1. text'[d] = text[d] /\ selection'[d] = selection[d] /\ globalStack'[d] = globalStack[d]
        BY <1>10 DEF ApplyReversal, RecordsEvent, Display, TypeOK, ScreenTypes, HistoryTypes
    <2> QED
        BY <1>10, <2>1, MethodUntouched DEF ContinueMethod, ApplyReversal, Untouched
<1>11. CASE DisableButton(c) \/ EnableButton(c)
    <2>1. undoEnabled'[d] = undoEnabled[d] /\ redoEnabled'[d] = redoEnabled[d]
        BY <1>11 DEF DisableButton, EnableButton, TypeOK, UndoTypes
    <2> QED
        BY <1>11, <2>1, MethodUntouched DEF ContinueMethod, DisableButton, EnableButton, Untouched
<1> QED
    BY <1>1, <1>2, <1>3, <1>4, <1>5, <1>6, <1>7, <1>8, <1>9, <1>10, <1>11
       DEF MainThread, ContinueMethod

LEMMA HandlerUntouched ==
    ASSUME TypeOK, NEW c \in Clients, NEW d \in Clients, c # d, ReceiveEvent(c) \/ ReceiveHandler(c)
    PROVE  Untouched(d) /\ log' = log
<1> USE DEF Goto, TypeOK, HandlerTypes, serviceVars, screenVars, burstVars, undoVars, stackVars,
            buttonVars, historyVars, handlerVars
<1>1. CASE ReceiveEvent(c)
    BY <1>1 DEF ReceiveEvent, Deliver, Untouched, ServiceTypes, HistoryTypes
<1>2. CASE CheckConflict(c)
    BY <1>2 DEF CheckConflict, Untouched
<1>3. CASE PopConflict(c)
    BY <1>3 DEF PopConflict, Dispatch, Untouched, ScreenTypes
<1>4. CASE SavePopped(c) \/ DropPopped(c)
    BY <1>4 DEF SavePopped, DropPopped, Untouched
<1>5. CASE RemovePopped(c)
    BY <1>5 DEF RemovePopped, Untouched, HistoryTypes
<1>6. CASE DispatchForeign(c) \/ DispatchPopped(c)
    BY <1>6 DEF DispatchForeign, DispatchPopped, Dispatch, Untouched, ScreenTypes
<1>7. CASE AppendForeign(c)
    BY <1>7 DEF AppendForeign, Untouched, HistoryTypes
<1>8. CASE RouteOwn(c) \/ RouteRedone(c) \/ CountReceived(c) \/ CountUndoStack(c) \/ CountRedoStack(c)
    BY <1>8 DEF RouteOwn, RouteRedone, CountReceived, CountUndoStack, CountRedoStack, Untouched
<1>9. CASE RecordOwn(c)
    BY <1>9 DEF RecordOwn, Untouched, StackTypes
<1>10. CASE ClearTrigger(c)
    BY <1>10 DEF ClearTrigger, Untouched, StackTypes
<1>11. CASE AdvanceOrderID(c)
    BY <1>11 DEF AdvanceOrderID, Untouched, HistoryTypes
<1>12. CASE SetUndoButton(c) \/ SetRedoButton(c)
    BY <1>12 DEF SetUndoButton, SetRedoButton, Untouched, UndoTypes
<1> QED
    BY <1>1, <1>2, <1>3, <1>4, <1>5, <1>6, <1>7, <1>8, <1>9, <1>10, <1>11, <1>12
       DEF ReceiveHandler

LEMMA StepUntouched ==
    ASSUME TypeOK, NEW c \in Clients, NEW d \in Clients, c # d,
           UserInput(c) \/ MainThread(c) \/ ReceiveEvent(c) \/ ReceiveHandler(c)
    PROVE  Untouched(d) /\ log' = log
BY InputUntouched, MainThreadUntouched, HandlerUntouched

(* A step of the service moves one event from an outbox to the log.         *)
LogKept == \A k \in 1 .. Len(log) : log'[k] = log[k]

LEMMA ServiceKeeps ==
    ASSUME TypeOK, NEW c \in Clients, Service(c)
    PROVE  /\ LogKept
           /\ UNCHANGED <<delivered, screenVars, burstVars, undoVars, method, historyVars,
                          handlerVars, alive, used>>
<1>1. log \in Seq(Event) /\ outbox[c] \in Seq(Event) /\ outbox[c] # <<>>
    BY DEF TypeOK, ServiceTypes, Service, Order
<1>2. log' = Append(log, Head(outbox[c]))
    BY DEF Service, Order
<1>3. LogKept
    BY <1>1, <1>2 DEF LogKept
<1> QED
    BY <1>3 DEF Service, Order

(* Where the receive handler goes next.                                     *)
LEMMA HandlerMoves ==
    ASSUME TypeOK, NEW c \in Clients, ReceiveHandler(c)
    PROVE  /\ UNCHANGED <<log, delivered, outbox, text, selection, burstVars, method, alive, used>>
           /\ pc[c] # "idle" /\ alive[c]
           /\ Deciding(c)' => Deciding(c)
           /\ pc'[c] \in {"route", "undone", "redone", "typed"} => Received(c).user = c \/ pc[c] = "route"
           /\ pc'[c] = "idle" => SetRedoButton(c)
           /\ RecordOwn(c) \/ UNCHANGED <<undoStack, redoStack>>
           /\ AdvanceOrderID(c) \/ UNCHANGED latest_orderID
           /\ RemovePopped(c) \/ AppendForeign(c) \/ UNCHANGED globalStack
           /\ ClearTrigger(c) \/ UNCHANGED <<undo_trigger, redo_trigger>>
<1> USE DEF serviceVars, screenVars, burstVars, undoVars, stackVars, buttonVars, historyVars,
            handlerVars
<1>1. pc \in [Clients -> Label]
    BY DEF TypeOK, HandlerTypes
<1>2. CASE CheckConflict(c)
    BY <1>1, <1>2 DEF CheckConflict, At, Goto, Deciding
<1>3. CASE PopConflict(c) \/ SavePopped(c)
    BY <1>1, <1>3 DEF PopConflict, SavePopped, At, Goto, Deciding
<1>4. CASE RemovePopped(c)
    <2>1. PICK label \in {"pop", "dispatch"} : pc' = [pc EXCEPT ![c] = label]
        BY <1>4 DEF RemovePopped, Goto
    <2> QED
        BY <1>1, <1>4, <2>1 DEF RemovePopped, At, Deciding
<1>5. CASE DispatchForeign(c) \/ AppendForeign(c) \/ DispatchPopped(c)
    BY <1>1, <1>5 DEF DispatchForeign, AppendForeign, DispatchPopped, At, Goto, Deciding
<1>6. CASE DropPopped(c)
    <2>1. PICK label \in {"dispatch", "count"} : pc' = [pc EXCEPT ![c] = label]
        BY <1>6 DEF DropPopped, Goto
    <2> QED
        BY <1>1, <1>6, <2>1 DEF DropPopped, At, Deciding
<1>7. CASE RouteOwn(c) \/ RouteRedone(c)
    <2>1. PICK label \in {"undone", "route", "redone", "typed"} : pc' = [pc EXCEPT ![c] = label]
        BY <1>7 DEF RouteOwn, RouteRedone, Goto
    <2> QED
        BY <1>1, <1>7, <2>1 DEF RouteOwn, RouteRedone, At, Deciding
<1>8. CASE RecordOwn(c)
    <2>1. PICK label \in {"clearUndo", "clearRedo", "count"} : pc' = [pc EXCEPT ![c] = label]
        BY <1>8 DEF RecordOwn, Goto
    <2> QED
        BY <1>1, <1>8, <2>1 DEF RecordOwn, Deciding
<1>9. CASE ClearTrigger(c) \/ CountReceived(c) \/ AdvanceOrderID(c)
    BY <1>1, <1>9 DEF ClearTrigger, CountReceived, AdvanceOrderID, At, Goto, Deciding
<1>10. CASE CountUndoStack(c) \/ CountRedoStack(c)
    <2>1. PICK label \in {"undoOn", "undoOff", "redoOn", "redoOff"} : pc' = [pc EXCEPT ![c] = label]
        BY <1>10 DEF CountUndoStack, CountRedoStack, Goto
    <2> QED
        BY <1>1, <1>10, <2>1 DEF CountUndoStack, CountRedoStack, At, Deciding
<1>11. CASE SetUndoButton(c) \/ SetRedoButton(c)
    BY <1>1, <1>11 DEF SetUndoButton, SetRedoButton, At, Goto, Deciding
<1> QED
    BY <1>2, <1>3, <1>4, <1>5, <1>6, <1>7, <1>8, <1>9, <1>10, <1>11 DEF ReceiveHandler

(* What the main thread and the user leave alone.                           *)
LEMMA MainThreadKeeps ==
    ASSUME NEW c \in Clients, UserInput(c) \/ MainThread(c)
    PROVE  /\ UNCHANGED <<log, delivered, handlerVars>>
           /\ RemoveID(c) \/ UNCHANGED <<undoStack, redoStack>>
           /\ SetTrigger(c) \/ UNCHANGED <<undo_trigger, redo_trigger>>
<1> USE DEF serviceVars, screenVars, burstVars, undoVars, stackVars, buttonVars, historyVars,
            handlerVars
<1>1. CASE UserInput(c)
    BY <1>1 DEF UserInput, FlushBurst, TypeText, DeleteText, RefuseBackspace, KeyPressed,
                MoveCursor, Undo, Redo, StartReversal
<1>2. CASE TimerFires(c) \/ RunBlock(c) \/ RecordBurst(c) \/ ResumeKey(c)
    BY <1>2 DEF TimerFires, RunBlock, RecordBurst, ResumeKey
<1>3. CASE ReadOrderID(c) \/ WriteOrderID(c) \/ RemoveID(c) \/ FindEvent(c) \/ MeasureHistory(c)
    BY <1>3 DEF ReadOrderID, WriteOrderID, RemoveID, FindEvent, MeasureHistory
<1>4. CASE \/ ShiftReversal(c) \/ SetTrigger(c) \/ SendReversal(c) \/ ApplyReversal(c)
           \/ TestStack(c) \/ DisableButton(c) \/ EnableButton(c)
    BY <1>4 DEF ShiftReversal, SetTrigger, SendReversal, ApplyReversal, TestStack, DisableButton,
                EnableButton
<1> QED
    BY <1>1, <1>2, <1>3, <1>4 DEF MainThread, ContinueMethod

-----------------------------------------------------------------------------
(* The ids on the stacks, while handlers do not overlap the main thread.    *)

LEMMA SerialIsNext ==
    ASSUME [SerialNext]_vars
    PROVE  [Next]_vars
BY DEF SerialNext, SerialStep, RunsByItself, Next, ClientStep

LEMMA SerialTypes == SerialSpec => []TypeOK
<1>1. Init => TypeOK
    BY InitTypes
<1>2. TypeOK /\ [SerialNext]_vars => TypeOK'
    BY SerialIsNext, StepTypes
<1> QED
    BY <1>1, <1>2, PTL DEF SerialSpec

Owned(c, s) ==
    \A i \in 1 .. Len(s) : s[i] < Recorded(c) /\ log[s[i] + 1].user = c

DistinctIds(s) == \A i, j \in 1 .. Len(s) : i # j => s[i] # s[j]

Apart(s, t) == \A i \in 1 .. Len(s), j \in 1 .. Len(t) : s[i] # t[j]

IdsOK(c) ==
    /\ Owned(c, undoStack[c]) /\ Owned(c, redoStack[c])
    /\ DistinctIds(undoStack[c]) /\ DistinctIds(redoStack[c])
    /\ Apart(undoStack[c], redoStack[c])

(* What makes it inductive: until a handler has pushed the shared counter   *)
(* still holds the number of the event it received, and only the echo of an *)
(* own event reaches the branches that push.                                *)
Numbered(c) == Deciding(c) => latest_orderID[c] = OrderID(c)
EchoOwn(c) == pc[c] \in {"route", "undone", "redone", "typed"} => Received(c).user = c

StackOK(c) == Numbered(c) /\ EchoOwn(c) /\ IdsOK(c)

StackInv == \A c \in Clients : StackOK(c)

LEMMA RecordedType ==
    ASSUME TypeOK, NEW c \in Clients
    PROVE  Recorded(c) \in Nat /\ Recorded(c) <= Len(log) /\ delivered[c] \in Nat
<1>1. /\ delivered[c] \in Nat /\ (pc[c] # "idle" => delivered[c] > 0)
      /\ delivered[c] <= Len(log) /\ Len(log) \in Nat
    BY DEF TypeOK, ServiceTypes, HandlerFits
<1> QED
    BY <1>1 DEF Recorded, Deciding

(* Owned ids stay so while the log grows and more events are recorded.      *)
LEMMA OwnedKept ==
    ASSUME TypeOK, NEW c \in Clients, NEW s \in Seq(Nat), Owned(c, s),
           Recorded(c)' \in Nat, Recorded(c) <= Recorded(c)',
           \A k \in 1 .. Len(log) : log'[k] = log[k]
    PROVE  /\ \A i \in 1 .. Len(s) : s[i] < Recorded(c)' /\ log'[s[i] + 1].user = c
<1> SUFFICES ASSUME NEW i \in 1 .. Len(s)
             PROVE  s[i] < Recorded(c)' /\ log'[s[i] + 1].user = c
    OBVIOUS
<1>1. s[i] \in Nat /\ s[i] < Recorded(c) /\ log[s[i] + 1].user = c
    BY DEF Owned
<1>2. Recorded(c) \in Nat /\ Recorded(c) <= Len(log) /\ Len(log) \in Nat
    BY RecordedType DEF TypeOK, ServiceTypes
<1>3. s[i] + 1 \in 1 .. Len(log) /\ s[i] < Recorded(c)'
    BY <1>1, <1>2
<1> QED
    BY <1>1, <1>3

LEMMA IdsUnmoved ==
    ASSUME TypeOK, NEW c \in Clients, IdsOK(c),
           undoStack'[c] = undoStack[c], redoStack'[c] = redoStack[c],
           Recorded(c)' \in Nat, Recorded(c) <= Recorded(c)',
           \A k \in 1 .. Len(log) : log'[k] = log[k]
    PROVE  IdsOK(c)'
<1>1. undoStack[c] \in Seq(Nat) /\ redoStack[c] \in Seq(Nat)
    BY DEF TypeOK, StackTypes
<1>2. /\ \A i \in 1 .. Len(undoStack[c]) :
            undoStack[c][i] < Recorded(c)' /\ log'[undoStack[c][i] + 1].user = c
      /\ \A i \in 1 .. Len(redoStack[c]) :
            redoStack[c][i] < Recorded(c)' /\ log'[redoStack[c][i] + 1].user = c
    BY <1>1, OwnedKept DEF IdsOK
<1>3. Owned(c, undoStack[c])' /\ Owned(c, redoStack[c])'
    BY <1>2 DEF Owned
<1> QED
    BY <1>3 DEF IdsOK, DistinctIds, Apart

(* A stack without its last id.                                             *)
LEMMA FrontElements ==
    ASSUME NEW S, NEW s \in Seq(S), s # <<>>
    PROVE  \A i \in 1 .. Len(Front(s)) : i \in 1 .. Len(s) /\ Front(s)[i] = s[i]
<1>1. Len(s) \in Nat \ {0}
    BY EmptySeq
<1>2. Len(Front(s)) = Len(s) - 1
    BY FrontType
<1>3. \A i \in 1 .. Len(s) - 1 : SubSeq(s, 1, Len(s) - 1)[i] = s[i]
    BY <1>1
<1> QED
    BY <1>1, <1>2, <1>3 DEF Front

LEMMA IdsPopped ==
    ASSUME TypeOK, NEW c \in Clients, IdsOK(c),
           (undoStack[c] # <<>> /\ undoStack'[c] = Front(undoStack[c])) \/ undoStack'[c] = undoStack[c],
           (redoStack[c] # <<>> /\ redoStack'[c] = Front(redoStack[c])) \/ redoStack'[c] = redoStack[c],
           UNCHANGED <<log, delivered, pc>>
    PROVE  IdsOK(c)'
<1> DEFINE s == undoStack[c]
           t == redoStack[c]
           s2 == undoStack'[c]
           t2 == redoStack'[c]
<1>1. s \in Seq(Nat) /\ t \in Seq(Nat)
    BY DEF TypeOK, StackTypes
<1>2. \A i \in 1 .. Len(s2) : i \in 1 .. Len(s) /\ s2[i] = s[i]
    <2>1. CASE s # <<>> /\ s2 = Front(s)
        BY <1>1, <2>1, FrontElements
    <2>2. CASE s2 = s
        BY <2>2
    <2> QED
        BY <2>1, <2>2
<1>3. \A i \in 1 .. Len(t2) : i \in 1 .. Len(t) /\ t2[i] = t[i]
    <2>1. CASE t # <<>> /\ t2 = Front(t)
        BY <1>1, <2>1, FrontElements
    <2>2. CASE t2 = t
        BY <2>2
    <2> QED
        BY <2>1, <2>2
<1>4. Recorded(c)' = Recorded(c) /\ log' = log
    BY DEF Recorded, Deciding
<1>5. Owned(c, s) /\ Owned(c, t) /\ DistinctIds(s) /\ DistinctIds(t) /\ Apart(s, t)
    BY DEF IdsOK
<1> HIDE DEF s, t, s2, t2
<1>6. /\ \A i \in 1 .. Len(s2) : s2[i] < Recorded(c)' /\ log'[s2[i] + 1].user = c
      /\ \A i \in 1 .. Len(t2) : t2[i] < Recorded(c)' /\ log'[t2[i] + 1].user = c
    <2>1. \A i \in 1 .. Len(s2) : s2[i] < Recorded(c)' /\ log'[s2[i] + 1].user = c
        BY <1>2, <1>4, <1>5 DEF Owned
    <2>2. \A i \in 1 .. Len(t2) : t2[i] < Recorded(c)' /\ log'[t2[i] + 1].user = c
        BY <1>3, <1>4, <1>5 DEF Owned
    <2> QED
        BY <2>1, <2>2
<1>7. DistinctIds(s2) /\ DistinctIds(t2) /\ Apart(s2, t2)
    <2>1. DistinctIds(s2)
        BY <1>2, <1>5 DEF DistinctIds
    <2>2. DistinctIds(t2)
        BY <1>3, <1>5 DEF DistinctIds
    <2>3. Apart(s2, t2)
        BY <1>2, <1>3, <1>5 DEF Apart
    <2> QED
        BY <2>1, <2>2, <2>3
<1> QED
    BY <1>6, <1>7 DEF IdsOK, Owned, DistinctIds, Apart, s2, t2

(* A stack with one more id, larger than all recorded before it.            *)
LEMMA IdPushed ==
    ASSUME NEW s \in Seq(Nat), NEW id \in Nat, \A i \in 1 .. Len(s) : s[i] < id
    PROVE  LET s2 == Append(s, id)
           IN  /\ \A i \in 1 .. Len(s2) : (i \in 1 .. Len(s) /\ s2[i] = s[i]) \/ s2[i] = id
               /\ DistinctIds(s) => DistinctIds(s2)
<1> DEFINE s2 == Append(s, id)
           n == Len(s)
<1>1. /\ n \in Nat /\ Len(s2) = n + 1
      /\ \A i \in 1 .. n : s2[i] = s[i] /\ s[i] \in Nat
      /\ s2[n + 1] = id
    OBVIOUS
<1> HIDE DEF s2
<1>2. \A i \in 1 .. Len(s2) : i \in 1 .. n \/ i = n + 1
    BY <1>1
<1>3. ASSUME DistinctIds(s), NEW i \in 1 .. Len(s2), NEW j \in 1 .. Len(s2), i # j
      PROVE  s2[i] # s2[j]
    <2>1. CASE i \in 1 .. n /\ j \in 1 .. n
        BY <1>1, <1>3, <2>1 DEF DistinctIds
    <2>2. CASE i \in 1 .. n /\ j = n + 1
        <3>1. s[i] < id /\ s[i] \in Nat
            BY <1>1, <2>2
        <3> QED
            BY <1>1, <2>2, <3>1
    <2>3. CASE i = n + 1 /\ j \in 1 .. n
        <3>1. s[j] < id /\ s[j] \in Nat
            BY <1>1, <2>3
        <3> QED
            BY <1>1, <2>3, <3>1
    <2> QED
        BY <1>2, <1>3, <2>1, <2>2, <2>3
<1>4. DistinctIds(s) => DistinctIds(s2)
    BY <1>3 DEF DistinctIds
<1>5. \A i \in 1 .. Len(s2) : (i \in 1 .. Len(s) /\ s2[i] = s[i]) \/ s2[i] = id
    BY <1>1, <1>2
<1> QED
    BY <1>4, <1>5 DEF s2

LEMMA RecordOwnIds ==
    ASSUME TypeOK, NEW c \in Clients, StackOK(c), RecordOwn(c)
    PROVE  IdsOK(c)'
<1> DEFINE s == undoStack[c]
           t == redoStack[c]
           id == OrderID(c)
<1>1. s \in Seq(Nat) /\ t \in Seq(Nat)
    BY DEF TypeOK, StackTypes
<1>2. /\ pc[c] \in {"undone", "redone", "typed"} /\ Deciding(c) /\ ~ Deciding(c)'
      /\ log' = log /\ delivered' = delivered
    <2>1. PICK label \in {"clearUndo", "clearRedo", "count"} : pc' = [pc EXCEPT ![c] = label]
        BY DEF RecordOwn, Goto
    <2> QED
        BY <2>1 DEF RecordOwn, Deciding, TypeOK, HandlerTypes
<1>3. /\ id \in Nat /\ id + 1 = delivered[c] /\ Recorded(c) = id /\ Recorded(c)' = id + 1
      /\ RecordedID(c) = id /\ log[id + 1].user = c
    <2>1. delivered[c] \in Nat /\ delivered[c] > 0
        BY <1>2 DEF TypeOK, ServiceTypes, HandlerFits
    <2>2. latest_orderID[c] = OrderID(c) /\ Received(c).user = c
        BY <1>2 DEF StackOK, Numbered, EchoOwn, Deciding
    <2> QED
        BY <1>2, <2>1, <2>2 DEF Recorded, OrderID, RecordedID, Received
<1>4. Owned(c, s) /\ Owned(c, t) /\ DistinctIds(s) /\ DistinctIds(t) /\ Apart(s, t)
    BY DEF StackOK, IdsOK
<1>5. /\ \A i \in 1 .. Len(s) : s[i] \in Nat /\ s[i] < id /\ log[s[i] + 1].user = c
      /\ \A i \in 1 .. Len(t) : t[i] \in Nat /\ t[i] < id /\ log[t[i] + 1].user = c
    <2>1. Recorded(c) = id
        BY <1>3
    <2>2. Owned(c, s) /\ Owned(c, t)
        BY <1>4
    <2> HIDE DEF s, t, id
    <2>3. \A i \in 1 .. Len(s) : s[i] \in Nat /\ s[i] < id /\ log[s[i] + 1].user = c
        BY <1>1, <2>1, <2>2 DEF Owned
    <2>4. \A i \in 1 .. Len(t) : t[i] \in Nat /\ t[i] < id /\ log[t[i] + 1].user = c
        BY <1>1, <2>1, <2>2 DEF Owned
    <2> QED
        BY <2>3, <2>4
<1>6. CASE pc[c] = "undone"
    <2> DEFINE t2 == Append(t, id)
    <2>1. undoStack'[c] = s /\ redoStack'[c] = t2
        BY <1>3, <1>6 DEF RecordOwn, TypeOK, StackTypes
    <2>2. /\ \A i \in 1 .. Len(t2) : (i \in 1 .. Len(t) /\ t2[i] = t[i]) \/ t2[i] = id
          /\ DistinctIds(t2)
        BY <1>1, <1>3, <1>4, <1>5, IdPushed
    <2> HIDE DEF s, t, t2, id
    <2>3. /\ \A i \in 1 .. Len(s) : s[i] < id + 1 /\ log[s[i] + 1].user = c
          /\ \A i \in 1 .. Len(t2) : t2[i] < id + 1 /\ log[t2[i] + 1].user = c
        <3>1. \A i \in 1 .. Len(s) : s[i] < id + 1 /\ log[s[i] + 1].user = c
            BY <1>3, <1>5
        <3>2. \A i \in 1 .. Len(t2) : t2[i] < id + 1 /\ log[t2[i] + 1].user = c
            BY <1>3, <1>5, <2>2
        <3> QED
            BY <3>1, <3>2
    <2>4. ASSUME NEW i \in 1 .. Len(s), NEW j \in 1 .. Len(t2) PROVE s[i] # t2[j]
        <3>1. s[i] \in Nat /\ s[i] < id
            BY <1>5
        <3>2. CASE j \in 1 .. Len(t) /\ t2[j] = t[j]
            BY <1>4, <3>2 DEF Apart
        <3>3. CASE t2[j] = id
            BY <1>3, <3>1, <3>3
        <3> QED
            BY <2>2, <3>2, <3>3
    <2> QED
        BY <1>2, <1>3, <1>4, <2>1, <2>2, <2>3, <2>4 DEF IdsOK, Owned, DistinctIds, Apart
<1>7. CASE pc[c] # "undone"
    <2> DEFINE s2 == Append(s, id)
    <2>1. undoStack'[c] = s2 /\ redoStack'[c] = t
        BY <1>3, <1>7 DEF RecordOwn, TypeOK, StackTypes
    <2>2. /\ \A i \in 1 .. Len(s2) : (i \in 1 .. Len(s) /\ s2[i] = s[i]) \/ s2[i] = id
          /\ DistinctIds(s2)
        BY <1>1, <1>3, <1>4, <1>5, IdPushed
    <2> HIDE DEF s, t, s2, id
    <2>3. /\ \A i \in 1 .. Len(s2) : s2[i] < id + 1 /\ log[s2[i] + 1].user = c
          /\ \A i \in 1 .. Len(t) : t[i] < id + 1 /\ log[t[i] + 1].user = c
        <3>1. \A i \in 1 .. Len(s2) : s2[i] < id + 1 /\ log[s2[i] + 1].user = c
            BY <1>3, <1>5, <2>2
        <3>2. \A i \in 1 .. Len(t) : t[i] < id + 1 /\ log[t[i] + 1].user = c
            BY <1>3, <1>5
        <3> QED
            BY <3>1, <3>2
    <2>4. ASSUME NEW i \in 1 .. Len(s2), NEW j \in 1 .. Len(t) PROVE s2[i] # t[j]
        <3>1. t[j] \in Nat /\ t[j] < id
            BY <1>5
        <3>2. CASE i \in 1 .. Len(s) /\ s2[i] = s[i]
            BY <1>4, <3>2 DEF Apart
        <3>3. CASE s2[i] = id
            BY <1>3, <3>1, <3>3
        <3> QED
            BY <2>2, <3>2, <3>3
    <2> QED
        BY <1>2, <1>3, <1>4, <2>1, <2>2, <2>3, <2>4 DEF IdsOK, Owned, DistinctIds, Apart
<1> QED
    BY <1>6, <1>7

(* The steps of a main thread whose handler is idle.                        *)
LEMMA MainThreadStack ==
    ASSUME TypeOK, NEW c \in Clients, StackOK(c), HandlerIdle(c), UserInput(c) \/ MainThread(c)
    PROVE  StackOK(c)'
<1>1. UNCHANGED <<log, delivered, pc>>
    BY MainThreadKeeps DEF handlerVars
<1>2. /\ (undoStack[c] # <<>> /\ undoStack'[c] = Front(undoStack[c])) \/ undoStack'[c] = undoStack[c]
      /\ (redoStack[c] # <<>> /\ redoStack'[c] = Front(redoStack[c])) \/ redoStack'[c] = redoStack[c]
    <2>1. CASE RemoveID(c)
        <3>1. /\ method[c].step = "remove"
              /\ method[c].kind = "undo" => undoStack[c] # <<>>
              /\ method[c].kind # "undo" => method[c].kind = "redo" /\ redoStack[c] # <<>>
            BY <2>1 DEF RemoveID, Doing, TypeOK, MethodFits, Reverses
        <3>2. CASE method[c].kind = "undo"
            BY <2>1, <3>1, <3>2 DEF RemoveID, Popped, TypeOK, StackTypes
        <3>3. CASE method[c].kind # "undo"
            BY <2>1, <3>1, <3>3 DEF RemoveID, Popped, TypeOK, StackTypes
        <3> QED
            BY <3>2, <3>3
    <2>2. CASE UNCHANGED <<undoStack, redoStack>>
        BY <2>2
    <2> QED
        BY <2>1, <2>2, MainThreadKeeps
<1>3. IdsOK(c)'
    BY <1>1, <1>2, IdsPopped DEF StackOK
<1>4. pc'[c] = "idle"
    BY <1>1 DEF HandlerIdle
<1> QED
    BY <1>3, <1>4 DEF StackOK, Numbered, EchoOwn, Deciding

LEMMA ReceiveStack ==
    ASSUME TypeOK, NEW c \in Clients, StackOK(c), ReceiveEvent(c)
    PROVE  StackOK(c)'
<1>1. /\ pc[c] = "idle" /\ pc'[c] = "check" /\ delivered[c] \in Nat
      /\ delivered'[c] = delivered[c] + 1 /\ latest_orderID'[c] = delivered[c]
      /\ UNCHANGED <<log, undoStack, redoStack>>
    BY DEF ReceiveEvent, At, Deliver, Goto, TypeOK, ServiceTypes, HandlerTypes, HistoryTypes,
           undoVars, stackVars
<1>2. Recorded(c) = delivered[c] /\ Recorded(c)' = delivered[c]
    BY <1>1 DEF Recorded, Deciding
<1>3. IdsOK(c)'
    BY <1>1, <1>2, IdsUnmoved DEF StackOK
<1>4. Numbered(c)' /\ EchoOwn(c)'
    BY <1>1 DEF Numbered, EchoOwn, OrderID
<1> QED
    BY <1>3, <1>4 DEF StackOK

(* The event a handler has received stays the same one.                     *)
LEMMA HandlerEcho ==
    ASSUME TypeOK, NEW c \in Clients, EchoOwn(c), ReceiveHandler(c)
    PROVE  EchoOwn(c)'
<1>1. log' = log /\ delivered' = delivered
    BY HandlerMoves
<1>2. pc'[c] \in {"route", "undone", "redone", "typed"} => Received(c).user = c
    BY HandlerMoves DEF EchoOwn
<1> QED
    BY <1>1, <1>2 DEF EchoOwn, Received

LEMMA HandlerRecords ==
    ASSUME TypeOK, NEW c \in Clients, ReceiveHandler(c)
    PROVE  Recorded(c)' \in Nat /\ Recorded(c) <= Recorded(c)'
<1>1. /\ log' = log /\ delivered' = delivered /\ pc[c] # "idle" /\ (Deciding(c)' => Deciding(c))
    BY HandlerMoves
<1>2. delivered[c] \in Nat /\ delivered[c] > 0
    BY <1>1 DEF TypeOK, HandlerFits, ServiceTypes
<1>3. Recorded(c)' = IF Deciding(c)' THEN delivered[c] - 1 ELSE delivered[c]
    BY <1>1 DEF Recorded
<1> QED
    BY <1>1, <1>2, <1>3 DEF Recorded

LEMMA HandlerStack ==
    ASSUME TypeOK, NEW c \in Clients, StackOK(c), ReceiveHandler(c)
    PROVE  StackOK(c)'
<1>1. EchoOwn(c)'
    BY HandlerEcho DEF StackOK
<1>2. Numbered(c)'
    <2>1. CASE AdvanceOrderID(c)
        BY <2>1 DEF AdvanceOrderID, Goto, Numbered, Deciding, TypeOK, HandlerTypes
    <2>2. CASE ~ AdvanceOrderID(c)
        <3>1. UNCHANGED <<delivered, latest_orderID>> /\ (Deciding(c)' => Deciding(c))
            BY <2>2, HandlerMoves
        <3> QED
            BY <3>1 DEF StackOK, Numbered, OrderID
    <2> QED
        BY <2>1, <2>2
<1>3. CASE RecordOwn(c)
    BY <1>1, <1>2, <1>3, RecordOwnIds DEF StackOK
<1>4. CASE ~ RecordOwn(c)
    <2>1. UNCHANGED <<log, undoStack, redoStack>>
        BY <1>4, HandlerMoves
    <2>2. IdsOK(c)'
        BY <2>1, HandlerRecords, IdsUnmoved DEF StackOK
    <2> QED
        BY <1>1, <1>2, <2>2 DEF StackOK
<1> QED
    BY <1>3, <1>4

LEMMA FrameStack ==
    ASSUME TypeOK, NEW d \in Clients, StackOK(d), LogKept, delivered'[d] = delivered[d],
           pc'[d] = pc[d], latest_orderID'[d] = latest_orderID[d],
           undoStack'[d] = undoStack[d], redoStack'[d] = redoStack[d]
    PROVE  StackOK(d)'
<1>1. Recorded(d)' = Recorded(d) /\ Recorded(d) \in Nat /\ (Deciding(d)' <=> Deciding(d))
    BY RecordedType DEF Recorded, Deciding
<1>2. IdsOK(d)'
    BY <1>1, IdsUnmoved DEF LogKept, StackOK
<1>3. pc[d] # "idle" => Received(d)' = Received(d)
    <2>1. pc[d] # "idle" => delivered[d] \in 1 .. Len(log)
        BY DEF TypeOK, ServiceTypes, HandlerFits
    <2> QED
        BY <2>1 DEF Received, LogKept
<1>4. Numbered(d)' /\ EchoOwn(d)'
    BY <1>1, <1>3 DEF StackOK, Numbered, EchoOwn, OrderID
<1> QED
    BY <1>2, <1>4 DEF StackOK

LEMMA SerialStack ==
    ASSUME TypeOK, StackInv, [SerialNext]_vars
    PROVE  StackInv'
<1> SUFFICES ASSUME NEW d \in Clients PROVE StackOK(d)'
    BY DEF StackInv
<1>1. StackOK(d)
    BY DEF StackInv
<1>2. CASE UNCHANGED vars
    BY <1>1, <1>2, FrameStack
       DEF vars, LogKept, serviceVars, handlerVars, undoVars, stackVars, historyVars
<1>3. ASSUME NEW c \in Clients, Service(c) PROVE StackOK(d)'
    BY <1>1, <1>3, ServiceKeeps, FrameStack DEF handlerVars, undoVars, stackVars, historyVars
<1>4. ASSUME NEW c \in Clients, c # d,
             UserInput(c) \/ MainThread(c) \/ ReceiveEvent(c) \/ ReceiveHandler(c)
      PROVE  StackOK(d)'
    <2>1. Untouched(d) /\ log' = log
        BY <1>4, StepUntouched
    <2> QED
        BY <1>1, <2>1, FrameStack DEF Untouched, LogKept
<1>5. ASSUME NEW c \in Clients, HandlerIdle(c), UserInput(c) \/ MainThread(c) PROVE StackOK(d)'
    BY <1>1, <1>4, <1>5, MainThreadStack
<1>6. ASSUME NEW c \in Clients, ReceiveEvent(c) \/ ReceiveHandler(c) PROVE StackOK(d)'
    BY <1>1, <1>4, <1>6, ReceiveStack, HandlerStack
<1> QED
    BY <1>2, <1>3, <1>5, <1>6 DEF SerialNext, SerialStep, RunsByItself

LEMMA InitStack == ASSUME Init PROVE StackInv
<1> SUFFICES ASSUME NEW c \in Clients PROVE StackOK(c)
    BY DEF StackInv
<1>1. pc[c] = "idle" /\ undoStack[c] = <<>> /\ redoStack[c] = <<>>
    BY DEF Init
<1>2. Len(<<>>) = 0
    OBVIOUS
<1> QED
    BY <1>1, <1>2 DEF StackOK, Numbered, EchoOwn, Deciding, IdsOK, Owned, DistinctIds, Apart

(* The two stacks put in a row.                                             *)
LEMMA IdsInRow ==
    ASSUME TypeOK, StackInv
    PROVE  StackIdsOwn
<1> SUFFICES ASSUME NEW c \in Clients
             PROVE  /\ \A i \in DOMAIN StackIds(c) :
                          /\ StackIds(c)[i] < Recorded(c)
                          /\ log[StackIds(c)[i] + 1].user = c
                    /\ \A i, j \in DOMAIN StackIds(c) : i # j => StackIds(c)[i] # StackIds(c)[j]
    BY DEF StackIdsOwn
<1> DEFINE s == undoStack[c]
           t == redoStack[c]
           u == s \o t
           m == Len(s)
<1>1. s \in Seq(Nat) /\ t \in Seq(Nat)
    BY DEF TypeOK, StackTypes
<1>2. Owned(c, s) /\ Owned(c, t) /\ DistinctIds(s) /\ DistinctIds(t) /\ Apart(s, t)
    BY DEF StackInv, StackOK, IdsOK
<1>3. /\ m \in Nat /\ Len(t) \in Nat /\ DOMAIN u = 1 .. m + Len(t)
      /\ \A i \in 1 .. m : u[i] = s[i]
      /\ \A i \in 1 .. Len(t) : u[m + i] = t[i]
    <2> HIDE DEF s, t
    <2>1. u \in Seq(Nat) /\ Len(u) = m + Len(t) /\ m \in Nat /\ Len(t) \in Nat
        BY <1>1
    <2>2. DOMAIN u = 1 .. m + Len(t)
        BY <2>1
    <2>3. \A i \in 1 .. m : u[i] = s[i]
        BY <1>1
    <2>4. \A i \in 1 .. Len(t) : u[m + i] = t[i]
        BY <1>1
    <2> QED
        BY <2>1, <2>2, <2>3, <2>4, Zenon
<1> HIDE DEF s, t, u
<1>4. ASSUME NEW i \in DOMAIN u PROVE i \in 1 .. m \/ (i - m \in 1 .. Len(t) /\ m + (i - m) = i)
    BY <1>3
<1>5. ASSUME NEW i \in DOMAIN u
      PROVE  (i \in 1 .. m /\ u[i] = s[i]) \/ (i - m \in 1 .. Len(t) /\ u[i] = t[i - m])
    BY <1>3, <1>4
<1> HIDE DEF m
<1>6. ASSUME NEW i \in DOMAIN u PROVE u[i] < Recorded(c) /\ log[u[i] + 1].user = c
    BY <1>2, <1>5 DEF Owned, m
<1>7. ASSUME NEW i \in DOMAIN u, NEW j \in DOMAIN u, i # j PROVE u[i] # u[j]
    <2>1. i \in Int /\ j \in Int /\ m \in Nat
        BY <1>3
    <2>2. CASE i \in 1 .. m /\ j \in 1 .. m
        BY <1>2, <1>3, <1>7, <2>2 DEF DistinctIds, m
    <2>3. CASE i - m \in 1 .. Len(t) /\ j - m \in 1 .. Len(t) /\ u[i] = t[i - m] /\ u[j] = t[j - m]
        <3>1. i - m # j - m
            BY <1>7, <2>1
        <3> QED
            BY <1>2, <2>3, <3>1 DEF DistinctIds
    <2>4. CASE i \in 1 .. m /\ u[i] = s[i] /\ j - m \in 1 .. Len(t) /\ u[j] = t[j - m]
        BY <1>2, <2>4 DEF Apart, m
    <2>5. CASE j \in 1 .. m /\ u[j] = s[j] /\ i - m \in 1 .. Len(t) /\ u[i] = t[i - m]
        BY <1>2, <2>5 DEF Apart, m
    <2> QED
        BY <1>5, <2>2, <2>3, <2>4, <2>5
<1> QED
    BY <1>6, <1>7 DEF StackIds, s, t, u

(* However many users type, undo and redo at once, as long as handlers do   *)
(* not overlap main-thread work the ids on a client's stacks are the        *)
(* numbers of distinct events of its own (ViewController.mm:271, 317-331,   *)
(* 346).                                                                    *)
THEOREM StackIdsAreOwn == SerialSpec => []StackIdsOwn
<1>1. Init => StackInv
    BY InitStack
<1>2. TypeOK /\ StackInv /\ [SerialNext]_vars => StackInv'
    BY SerialStack
<1>3. TypeOK /\ StackInv => StackIdsOwn
    BY IdsInRow
<1> QED
    BY <1>1, <1>2, <1>3, SerialTypes, PTL DEF SerialSpec

-----------------------------------------------------------------------------
(* The buttons, while handlers do not overlap the main thread.              *)

Reachable(c) ==
    /\ undoStack[c] # <<>> => undoEnabled[c]
    /\ redoStack[c] # <<>> => redoEnabled[c]

Own(m, undos, redos) == IF m.kind = "undo" THEN undos ELSE redos

(* A button is only switched off for a stack that was seen empty and has    *)
(* not been pushed on since.                                                *)
ButtonsOK(c) ==
    /\ HandlerIdle(c) \/ MethodDone(c)
    /\ HandlerIdle(c) => Reachable(c)
    /\ method[c].step = "disable" => Own(method[c], undoStack[c], redoStack[c]) = <<>>
    /\ pc[c] = "undoOff" => undoStack[c] = <<>>
    /\ pc[c] \in {"redoCount", "redoOn", "redoOff"} => (undoStack[c] # <<>> => undoEnabled[c])
    /\ pc[c] = "redoOff" => redoStack[c] = <<>>

ButtonInv == \A c \in Clients : ButtonsOK(c)

LEMMA ButtonsFrame ==
    ASSUME NEW d \in Clients, ButtonsOK(d), pc'[d] = pc[d], method'[d] = method[d],
           undoStack'[d] = undoStack[d], redoStack'[d] = redoStack[d],
           undoEnabled'[d] = undoEnabled[d], redoEnabled'[d] = redoEnabled[d]
    PROVE  ButtonsOK(d)'
BY DEF ButtonsOK, HandlerIdle, MethodDone, Reachable, Own

(* The main thread with nothing switched off and nothing pushed.            *)
LEMMA ButtonsStay ==
    ASSUME TypeOK, NEW c \in Clients, ButtonsOK(c), HandlerIdle(c), pc' = pc,
           method'[c].step # "disable",
           undoStack'[c] # <<>> => undoStack[c] # <<>>, redoStack'[c] # <<>> => redoStack[c] # <<>>,
           undoEnabled[c] => undoEnabled'[c], redoEnabled[c] => redoEnabled'[c]
    PROVE  ButtonsOK(c)'
BY DEF ButtonsOK, HandlerIdle, Reachable

LEMMA InputButtons ==
    ASSUME TypeOK, NEW c \in Clients, ButtonsOK(c), HandlerIdle(c), UserInput(c)
    PROVE  ButtonsOK(c)'
<1>1. /\ pc' = pc /\ UNCHANGED <<undoStack, redoStack>>
    BY MainThreadKeeps DEF handlerVars, RemoveID, UserInput, FlushBurst, TypeText, DeleteText,
       RefuseBackspace, KeyPressed, MoveCursor, Undo, Redo, StartReversal, stackVars, undoVars
<1>2. method \in [Clients -> Method] /\ undoEnabled \in [Clients -> BOOLEAN]
    BY DEF TypeOK, UndoTypes
<1>3. method[c].step = "free"
    BY DEF UserInput, FlushBurst, TypeText, DeleteText, RefuseBackspace, KeyPressed, MoveCursor,
           Undo, Redo, StartReversal, Input, Responsive
<1>4. ASSUME KeyPressed(c) PROVE redoEnabled' = redoEnabled /\ (undoEnabled[c] => undoEnabled'[c])
    BY <1>2, <1>4 DEF KeyPressed
<1>5. CASE RefuseBackspace(c) \/ DeleteText(c) \/ \E r \in Replacements : TypeText(c, r)
    BY <1>1, <1>3, <1>4, <1>5, ButtonsStay DEF RefuseBackspace, DeleteText, TypeText
<1>6. CASE \E type \in EventType : FlushBurst(c, type)
    <2>1. method'[c].step = "count"
        BY <1>2, <1>6 DEF FlushBurst, SendBurst, Free
    <2> QED
        BY <1>1, <1>4, <1>6, <2>1, ButtonsStay DEF FlushBurst
<1>7. CASE MoveCursor(c)
    BY <1>1, <1>3, <1>7, ButtonsStay DEF MoveCursor, undoVars, buttonVars
<1>8. CASE Undo(c) \/ Redo(c)
    <2>1. method'[c].step = "remove" /\ UNCHANGED <<undoEnabled, redoEnabled>>
        <3>1. PICK kind \in InputKind, n \in Nat :
                 method' = [method EXCEPT ![c] = [Free EXCEPT !.kind = kind, !.step = "remove", !.begin = n]]
            <4>1. ASSUME NEW stack \in Seq(Nat), stack # <<>> PROVE Last(stack) + 1 \in Nat
                BY <4>1, LastType
            <4>2. undoStack[c] \in Seq(Nat) /\ redoStack[c] \in Seq(Nat)
                BY DEF TypeOK, StackTypes
            <4> QED
                BY <1>8, <4>1, <4>2 DEF Undo, Redo, StartReversal, InputKind
        <3> QED
            BY <1>2, <1>8, <3>1 DEF Undo, Redo, StartReversal, Free, undoVars, buttonVars
    <2> QED
        BY <1>1, <2>1, ButtonsStay
<1> QED
    BY <1>5, <1>6, <1>7, <1>8 DEF UserInput

LEMMA MethodButtons ==
    ASSUME TypeOK, NEW c \in Clients, ButtonsOK(c), HandlerIdle(c), MainThread(c)
    PROVE  ButtonsOK(c)'
<1> USE DEF undoVars, stackVars, buttonVars
<1>1. pc' = pc
    BY MainThreadKeeps DEF handlerVars
<1>2. /\ method \in [Clients -> Method]
      /\ undoEnabled \in [Clients -> BOOLEAN] /\ redoEnabled \in [Clients -> BOOLEAN]
    BY DEF TypeOK, UndoTypes
<1>3. CASE TimerFires(c)
    BY <1>1, <1>2, <1>3, ButtonsStay DEF TimerFires, SendBurst, Free
<1>4. CASE RunBlock(c)
    BY <1>1, <1>4, ButtonsStay DEF RunBlock, Responsive
<1>5. CASE ReadOrderID(c) \/ WriteOrderID(c) \/ MeasureHistory(c) \/ SendReversal(c)
    BY <1>1, <1>2, <1>5, ButtonsStay
       DEF ReadOrderID, WriteOrderID, MeasureHistory, SendReversal, Then, Method
<1>6. CASE RecordBurst(c)
    <2>1. UNCHANGED undoVars /\ method'[c].step \in {"free", "key"}
        BY <1>2, <1>6 DEF RecordBurst, Free
    <2> QED
        BY <1>1, <2>1, ButtonsStay
<1>7. CASE ResumeKey(c)
    BY <1>1, <1>2, <1>7, ButtonsStay DEF ResumeKey, Return, Free
<1>8. CASE RemoveID(c)
    <2>1. /\ method'[c].step = "find" /\ UNCHANGED buttonVars
        BY <1>2, <1>8 DEF RemoveID, Then, Method
    <2>2. /\ method[c].step = "remove"
          /\ method[c].kind = "undo" => undoStack[c] # <<>>
          /\ method[c].kind # "undo" => redoStack[c] # <<>>
        BY <1>8 DEF RemoveID, Doing, TypeOK, MethodFits
    <2>3. /\ undoStack'[c] # <<>> => undoStack[c] # <<>>
          /\ redoStack'[c] # <<>> => redoStack[c] # <<>>
        BY <1>8, <2>2, MethodFitsAll DEF RemoveID, TypeOK, StackTypes, MethodFits, Reverses, Doing
    <2> QED
        BY <1>1, <2>1, <2>3, ButtonsStay
<1>9. CASE FindEvent(c) \/ ShiftReversal(c)
    <2>1. UNCHANGED undoVars /\ method'[c].step \in {"find", "measure", "shift"}
        BY <1>2, <1>9 DEF FindEvent, ShiftReversal, Doing, Method
    <2> QED
        BY <1>1, <2>1, ButtonsStay
<1>10. CASE SetTrigger(c)
    BY <1>1, <1>2, <1>10, ButtonsStay DEF SetTrigger, Free
<1>11. CASE ApplyReversal(c)
    <2>1. UNCHANGED undoVars /\ method'[c].step \in {"append", "test"}
        BY <1>2, <1>11 DEF ApplyReversal, Doing, Free
    <2> QED
        BY <1>1, <2>1, ButtonsStay
<1>12. CASE TestStack(c)
    <2> DEFINE step == IF Own(method[c], undoStack[c], redoStack[c]) = <<>> THEN "disable" ELSE "enable"
    <2>1. UNCHANGED undoVars /\ method' = [method EXCEPT ![c].step = step]
        BY <1>12 DEF TestStack, Then, Own
    <2>2. method'[c].step = step /\ method'[c].kind = method[c].kind
        BY <1>2, <2>1 DEF Method
    <2> QED
        BY <1>1, <2>1, <2>2 DEF ButtonsOK, HandlerIdle, Reachable, Own
<1>13. CASE DisableButton(c)
    <2>1. /\ UNCHANGED stackVars /\ method'[c].step = "enable"
          /\ undoEnabled'[c] = (undoEnabled[c] /\ method[c].kind # "undo")
          /\ redoEnabled'[c] = (redoEnabled[c] /\ method[c].kind # "redo")
        BY <1>2, <1>13, Zenon DEF DisableButton, Then, Method
    <2>2. Own(method[c], undoStack[c], redoStack[c]) = <<>> /\ Reachable(c)
        BY <1>13 DEF DisableButton, Doing, ButtonsOK
    <2> QED
        BY <1>1, <2>1, <2>2 DEF ButtonsOK, HandlerIdle, Reachable, Own
<1>14. CASE EnableButton(c)
    <2>1. /\ UNCHANGED stackVars /\ method'[c].step = "free"
          /\ undoEnabled[c] => undoEnabled'[c]
          /\ redoEnabled[c] => redoEnabled'[c]
        BY <1>2, <1>14 DEF EnableButton, Return, Free
    <2> QED
        BY <1>1, <2>1, ButtonsStay
<1> QED
    BY <1>3, <1>4, <1>5, <1>6, <1>7, <1>8, <1>9, <1>10, <1>11, <1>12, <1>13, <1>14
       DEF MainThread, ContinueMethod

LEMMA HandlerButtons ==
    ASSUME TypeOK, NEW c \in Clients, ButtonsOK(c),
           (MethodDone(c) /\ ReceiveEvent(c)) \/ ReceiveHandler(c)
    PROVE  ButtonsOK(c)'
<1> USE DEF undoVars, stackVars, buttonVars
<1>1. MethodDone(c) /\ method' = method
    BY HandlerMoves DEF ButtonsOK, HandlerIdle, ReceiveEvent
<1>2. /\ pc \in [Clients -> Label]
      /\ undoEnabled \in [Clients -> BOOLEAN] /\ redoEnabled \in [Clients -> BOOLEAN]
    BY DEF TypeOK, HandlerTypes, UndoTypes
<1>3. ASSUME pc'[c] \notin {"idle", "undoOff", "redoCount", "redoOn", "redoOff"} PROVE ButtonsOK(c)'
    BY <1>1, <1>3 DEF ButtonsOK, HandlerIdle, MethodDone
<1>4. CASE CountUndoStack(c)
    <2> DEFINE label == IF undoStack[c] # <<>> THEN "undoOn" ELSE "undoOff"
    <2>1. pc'[c] = label /\ UNCHANGED undoVars
        BY <1>2, <1>4 DEF CountUndoStack, Goto
    <2> QED
        BY <1>1, <2>1 DEF ButtonsOK, HandlerIdle, MethodDone
<1>5. CASE SetUndoButton(c)
    <2>1. /\ pc[c] \in {"undoOn", "undoOff"} /\ pc'[c] = "redoCount" /\ UNCHANGED stackVars
          /\ undoEnabled'[c] = (pc[c] = "undoOn")
        BY <1>2, <1>5 DEF SetUndoButton, Goto
    <2> QED
        BY <1>1, <2>1 DEF ButtonsOK, HandlerIdle, MethodDone
<1>6. CASE CountRedoStack(c)
    <2> DEFINE label == IF redoStack[c] # <<>> THEN "redoOn" ELSE "redoOff"
    <2>1. pc[c] = "redoCount" /\ pc'[c] = label /\ UNCHANGED undoVars
        BY <1>2, <1>6 DEF CountRedoStack, Goto, At
    <2> QED
        BY <1>1, <2>1 DEF ButtonsOK, HandlerIdle, MethodDone
<1>7. CASE SetRedoButton(c)
    <2>1. /\ pc[c] \in {"redoOn", "redoOff"} /\ pc'[c] = "idle" /\ UNCHANGED <<stackVars, undoEnabled>>
          /\ redoEnabled'[c] = (pc[c] = "redoOn")
        BY <1>2, <1>7 DEF SetRedoButton, RedoFollows, Goto
    <2> QED
        BY <1>1, <2>1 DEF ButtonsOK, HandlerIdle, MethodDone, Reachable
<1>8. CASE ReceiveEvent(c) \/ DispatchForeign(c) \/ AppendForeign(c) \/ DispatchPopped(c)
    BY <1>2, <1>3, <1>8 DEF ReceiveEvent, DispatchForeign, AppendForeign, DispatchPopped, Goto
<1>9. CASE \/ CheckConflict(c) \/ PopConflict(c) \/ SavePopped(c) \/ RemovePopped(c)
           \/ DropPopped(c) \/ RouteOwn(c) \/ RouteRedone(c)
    <2>1. PICK label \in {"pop", "save", "remove", "dispatch", "count", "undone", "route", "redone",
                          "typed"} : Goto(c, label)
        BY <1>9 DEF CheckConflict, PopConflict, SavePopped, RemovePopped, DropPopped, RouteOwn,
                    RouteRedone
    <2> QED
        BY <1>2, <1>3, <2>1 DEF Goto
<1>10. CASE RecordOwn(c) \/ ClearTrigger(c) \/ CountReceived(c) \/ AdvanceOrderID(c)
    <2>1. PICK label \in {"clearUndo", "clearRedo", "count", "increment", "undoCount"} : Goto(c, label)
        BY <1>10 DEF RecordOwn, ClearTrigger, CountReceived, AdvanceOrderID
    <2> QED
        BY <1>2, <1>3, <2>1 DEF Goto
<1> QED
    BY <1>4, <1>5, <1>6, <1>7, <1>8, <1>9, <1>10 DEF ReceiveHandler

LEMMA SerialButtons ==
    ASSUME TypeOK, ButtonInv, [SerialNext]_vars
    PROVE  ButtonInv'
<1> SUFFICES ASSUME NEW d \in Clients PROVE ButtonsOK(d)'
    BY DEF ButtonInv
<1>1. ButtonsOK(d)
    BY DEF ButtonInv
<1>2. CASE UNCHANGED vars
    BY <1>1, <1>2, ButtonsFrame DEF vars, handlerVars, undoVars, stackVars, buttonVars
<1>3. ASSUME NEW c \in Clients, Service(c) PROVE ButtonsOK(d)'
    BY <1>1, <1>3, ServiceKeeps, ButtonsFrame DEF handlerVars, undoVars, stackVars, buttonVars
<1>4. ASSUME NEW c \in Clients, c # d,
             UserInput(c) \/ MainThread(c) \/ ReceiveEvent(c) \/ ReceiveHandler(c)
      PROVE  ButtonsOK(d)'
    <2>1. Untouched(d)
        BY <1>4, StepUntouched
    <2> QED
        BY <1>1, <2>1, ButtonsFrame DEF Untouched
<1>5. ASSUME NEW c \in Clients, HandlerIdle(c), UserInput(c) \/ MainThread(c) PROVE ButtonsOK(d)'
    BY <1>1, <1>4, <1>5, InputButtons, MethodButtons
<1>6. ASSUME NEW c \in Clients, (MethodDone(c) /\ ReceiveEvent(c)) \/ ReceiveHandler(c)
      PROVE  ButtonsOK(d)'
    BY <1>1, <1>4, <1>6, HandlerButtons
<1> QED
    BY <1>2, <1>3, <1>5, <1>6 DEF SerialNext, SerialStep, RunsByItself

(* For any number of users, as long as no receive handler overlaps the main *)
(* thread's work, an id on a stack is within the user's reach between two   *)
(* handlers, although both threads switch the buttons off and on            *)
(* (ViewController.mm:335-346, 540-545, 613-618).                           *)
THEOREM ButtonsFollow == SerialSpec => []ButtonsFollowStacks
<1>1. Init => ButtonInv
    <2> SUFFICES ASSUME Init, NEW c \in Clients PROVE ButtonsOK(c)
        BY DEF ButtonInv
    <2>1. pc[c] = "idle" /\ undoStack[c] = <<>> /\ redoStack[c] = <<>> /\ method[c] = Free
        BY DEF Init
    <2> QED
        BY <2>1 DEF ButtonsOK, Reachable, HandlerIdle, Free
<1>2. TypeOK /\ ButtonInv /\ [SerialNext]_vars => ButtonInv'
    BY SerialButtons
<1>3. ButtonInv => ButtonsFollowStacks
    BY DEF ButtonInv, ButtonsOK, Reachable, ButtonsFollowStacks
<1> QED
    BY <1>1, <1>2, <1>3, SerialTypes, PTL DEF SerialSpec

-----------------------------------------------------------------------------
(* The events of one user among the first of the log.                       *)

LEMMA OwnEventsFinite ==
    ASSUME NEW c, NEW n \in Nat
    PROVE  IsFiniteSet(OwnEvents(c, n)) /\ Cardinality(OwnEvents(c, n)) \in Nat
<1>1. IsFiniteSet(1 .. n)
    BY FS_Interval
<1>2. OwnEvents(c, n) \subseteq 1 .. n
    BY DEF OwnEvents
<1> QED
    BY <1>1, <1>2, FS_Subset, FS_CardinalityType

LEMMA OwnEventsGrow ==
    ASSUME TypeOK, NEW c, NEW m \in Nat, NEW n \in Nat, m <= n, m <= Len(log), LogKept
    PROVE  Cardinality(OwnEvents(c, m)) <= Cardinality({i \in 1 .. n : log'[i].user = c})
<1> DEFINE older == OwnEvents(c, m)
           newer == {i \in 1 .. n : log'[i].user = c}
<1>1. Len(log) \in Nat
    BY DEF TypeOK, ServiceTypes
<1>2. older \subseteq newer
    BY <1>1 DEF OwnEvents, LogKept
<1>3. IsFiniteSet(newer)
    <2>1. IsFiniteSet(1 .. n) /\ newer \subseteq 1 .. n
        BY FS_Interval
    <2> QED
        BY <2>1, FS_Subset
<1> HIDE DEF older, newer
<1>4. Cardinality(older) <= Cardinality(newer)
    BY <1>2, <1>3, FS_Subset
<1> QED
    BY <1>4 DEF older, newer

LEMMA OwnEventsNext ==
    ASSUME NEW c, NEW n \in Nat, log[n + 1].user = c
    PROVE  Cardinality(OwnEvents(c, n + 1)) = Cardinality(OwnEvents(c, n)) + 1
<1>1. OwnEvents(c, n + 1) = OwnEvents(c, n) \cup {n + 1} /\ n + 1 \notin OwnEvents(c, n)
    BY DEF OwnEvents
<1>2. IsFiniteSet(OwnEvents(c, n))
    BY OwnEventsFinite
<1> QED
    BY <1>1, <1>2, FS_AddElement

(* The log only grows, and so does the part of it a client has recorded.    *)
LEMMA RecordedGrows ==
    ASSUME TypeOK, [Next]_vars, NEW d \in Clients
    PROVE  Recorded(d)' \in Nat /\ Recorded(d) <= Recorded(d)' /\ LogKept
<1>1. Recorded(d) \in Nat /\ delivered[d] \in Nat
    BY RecordedType
<1>2. ASSUME delivered'[d] = delivered[d], pc'[d] = pc[d], LogKept
      PROVE  Recorded(d)' \in Nat /\ Recorded(d) <= Recorded(d)' /\ LogKept
    BY <1>1, <1>2 DEF Recorded, Deciding
<1>3. CASE UNCHANGED vars
    BY <1>2, <1>3 DEF vars, serviceVars, handlerVars, LogKept
<1>4. ASSUME NEW c \in Clients, Service(c)
      PROVE  Recorded(d)' \in Nat /\ Recorded(d) <= Recorded(d)' /\ LogKept
    BY <1>2, <1>4, ServiceKeeps DEF handlerVars
<1>5. ASSUME NEW c \in Clients, UserInput(c) \/ MainThread(c)
      PROVE  Recorded(d)' \in Nat /\ Recorded(d) <= Recorded(d)' /\ LogKept
    BY <1>2, <1>5, MainThreadKeeps DEF handlerVars, LogKept
<1>6. ASSUME NEW c \in Clients, c # d, ReceiveEvent(c) \/ ReceiveHandler(c)
      PROVE  Recorded(d)' \in Nat /\ Recorded(d) <= Recorded(d)' /\ LogKept
    BY <1>2, <1>6, StepUntouched DEF Untouched, LogKept
<1>7. ASSUME ReceiveHandler(d)
      PROVE  Recorded(d)' \in Nat /\ Recorded(d) <= Recorded(d)' /\ LogKept
    BY <1>7, HandlerMoves, HandlerRecords DEF LogKept
<1>8. ASSUME ReceiveEvent(d)
      PROVE  Recorded(d)' \in Nat /\ Recorded(d) <= Recorded(d)' /\ LogKept
    <2>1. /\ log' = log /\ pc[d] = "idle" /\ pc'[d] = "check"
          /\ delivered'[d] = delivered[d] + 1
        BY <1>8 DEF ReceiveEvent, At, Goto, Deliver, TypeOK, ServiceTypes, HandlerTypes
    <2>2. Recorded(d) = delivered[d] /\ Recorded(d)' = delivered[d] + 1 - 1
        BY <1>1, <2>1 DEF Recorded, Deciding
    <2> QED
        BY <1>1, <2>1, <2>2 DEF LogKept
<1> QED
    BY <1>3, <1>4, <1>5, <1>6, <1>7, <1>8 DEF Next, ClientStep

-----------------------------------------------------------------------------
(* No step is invented.                                                     *)

Ids(c) == Len(undoStack[c]) + Len(redoStack[c])
Presses(c) == used[c]["undo"] + used[c]["redo"]
Taking(c) == Bit(method[c].step = "remove")
Earned(c) == Cardinality(OwnEvents(c, Recorded(c)))

StepsOK(c) == EchoOwn(c) /\ Ids(c) + Presses(c) <= Earned(c) + Taking(c)

StepsInv == \A c \in Clients : StepsOK(c)

LEMMA SumGrows ==
    ASSUME NEW m \in Nat, NEW n \in Nat
    PROVE  m + n \in Nat /\ (m + 1) + n = (m + n) + 1 /\ m + (n + 1) = (m + n) + 1
OBVIOUS

LEMMA BitType == ASSUME NEW b \in BOOLEAN PROVE Bit(b) \in Nat
BY DEF Bit

LEMMA StepsTypes ==
    ASSUME TypeOK, NEW c \in Clients
    PROVE  Ids(c) \in Nat /\ Presses(c) \in Nat /\ Earned(c) \in Nat /\ Taking(c) \in Nat
<1>1. undoStack[c] \in Seq(Nat) /\ redoStack[c] \in Seq(Nat)
    BY DEF TypeOK, StackTypes
<1>2. Ids(c) \in Nat
    BY <1>1, SumGrows, LenProperties, Zenon DEF Ids
<1>3. used[c] \in [InputKind -> Nat]
    BY DEF TypeOK, OtherTypes
<1>4. Presses(c) \in Nat
    BY <1>3 DEF Presses, InputKind
<1>5. Taking(c) \in Nat
    BY DEF Taking, Bit
<1> QED
    BY <1>2, <1>4, <1>5, RecordedType, OwnEventsFinite DEF Earned

LEMMA StepsTypesAfter ==
    ASSUME TypeOK', NEW d \in Clients, Recorded(d)' \in Nat
    PROVE  Ids(d)' \in Nat /\ Presses(d)' \in Nat /\ Earned(d)' \in Nat /\ Taking(d)' \in Nat
<1>1. undoStack'[d] \in Seq(Nat) /\ redoStack'[d] \in Seq(Nat)
    BY DEF TypeOK, StackTypes
<1>2. Ids(d)' \in Nat
    BY <1>1, SumGrows, LenProperties, Zenon DEF Ids
<1>3. used'[d] \in [InputKind -> Nat]
    BY DEF TypeOK, OtherTypes
<1>4. Presses(d)' \in Nat
    BY <1>3 DEF Presses, InputKind
<1> DEFINE n == Recorded(d)'
           own == {i \in 1 .. n : log'[i].user = d}
<1>5. IsFiniteSet(1 .. n) /\ own \subseteq 1 .. n
    BY FS_Interval
<1>6. Cardinality(own) \in Nat
    BY <1>5, FS_Subset, FS_CardinalityType
<1>7. Earned(d)' = Cardinality(own)
    BY DEF Earned, OwnEvents
<1>8. Taking(d)' \in Nat
    BY DEF Taking, Bit
<1> QED
    BY <1>2, <1>4, <1>6, <1>7, <1>8

(* The event a handler is deciding about stays the same one.                *)
LEMMA EchoKept ==
    ASSUME TypeOK, NEW d \in Clients, EchoOwn(d), LogKept,
           delivered'[d] = delivered[d], pc'[d] = pc[d]
    PROVE  EchoOwn(d)'
<1>1. pc[d] # "idle" => delivered[d] \in 1 .. Len(log)
    BY DEF TypeOK, ServiceTypes, HandlerFits
<1> QED
    BY <1>1 DEF EchoOwn, Received, LogKept

(* Ids and presses together do not become more, and nothing is unrecorded.  *)
LEMMA StepsFrame ==
    ASSUME TypeOK, TypeOK', [Next]_vars, NEW d \in Clients, StepsOK(d), EchoOwn(d)',
           Ids(d)' + Presses(d)' + Taking(d) <= Ids(d) + Presses(d) + Taking(d)'
    PROVE  StepsOK(d)'
<1> DEFINE n == Recorded(d)
           m == Recorded(d)'
<1>1. n \in Nat /\ n <= Len(log) /\ n <= m /\ m \in Nat /\ LogKept
    BY RecordedType, RecordedGrows
<1>2. Earned(d) = Cardinality(OwnEvents(d, n))
    BY DEF Earned
<1>3. Earned(d)' = Cardinality({i \in 1 .. m : log'[i].user = d})
    BY DEF Earned, OwnEvents
<1> HIDE DEF n, m
<1>4. Earned(d) <= Earned(d)'
    BY <1>1, <1>2, <1>3, OwnEventsGrow
<1>5. /\ Ids(d) + Presses(d) <= Earned(d) + Taking(d)
      /\ Ids(d) \in Nat /\ Presses(d) \in Nat /\ Earned(d) \in Nat /\ Taking(d) \in Nat
    BY StepsTypes DEF StepsOK
<1>6. Ids(d)' \in Nat /\ Presses(d)' \in Nat /\ Earned(d)' \in Nat /\ Taking(d)' \in Nat
    BY <1>1, StepsTypesAfter DEF m
<1> QED
    BY <1>4, <1>5, <1>6 DEF StepsOK

(* A step that changes neither stacks nor presses.                          *)
LEMMA StepsStay ==
    ASSUME TypeOK, TypeOK', [Next]_vars, NEW d \in Clients, StepsOK(d), EchoOwn(d)',
           undoStack'[d] = undoStack[d], redoStack'[d] = redoStack[d],
           Presses(d)' = Presses(d), Taking(d)' = Taking(d)
    PROVE  StepsOK(d)'
<1>1. Ids(d)' = Ids(d)
    BY DEF Ids
<1> QED
    BY <1>1, StepsTypes, StepsFrame

(* A press is counted when it begins ...                                    *)
LEMMA PressSteps ==
    ASSUME TypeOK, TypeOK', [Next]_vars, NEW c \in Clients, StepsOK(c), EchoOwn(c)',
           Undo(c) \/ Redo(c)
    PROVE  StepsOK(c)'
<1>1. PICK kind \in {"undo", "redo"} :
         /\ used' = [used EXCEPT ![c][kind] = @ + 1]
         /\ \E n : method' = [method EXCEPT ![c] =
                       [Free EXCEPT !.kind = kind, !.step = "remove", !.begin = n]]
    BY DEF Undo, Redo, StartReversal, Input
<1>2. used \in [Clients -> [InputKind -> Nat]] /\ method \in [Clients -> Method]
    BY DEF TypeOK, OtherTypes, UndoTypes
<1>3. used'[c][kind] = used[c][kind] + 1 /\ \A k \in InputKind \ {kind} : used'[c][k] = used[c][k]
    BY <1>1, <1>2 DEF InputKind
<1>4. used[c]["undo"] \in Nat /\ used[c]["redo"] \in Nat
    BY <1>2 DEF InputKind
<1>5. Presses(c)' = Presses(c) + 1
    BY <1>3, <1>4 DEF Presses, InputKind
<1>6. method'[c].step = "remove"
    BY <1>1, <1>2 DEF Free
<1>7. method[c].step = "free"
    BY DEF Undo, Redo, StartReversal, Input, Responsive
<1>8. Taking(c) = 0 /\ Taking(c)' = 1
    BY <1>6, <1>7 DEF Taking, Bit
<1>9. Ids(c)' = Ids(c)
    BY DEF Undo, Redo, StartReversal, Ids, undoVars, stackVars
<1> QED
    BY <1>5, <1>8, <1>9, StepsTypes, StepsFrame

(* ... and then takes an id off.                                            *)
LEMMA RemoveSteps ==
    ASSUME TypeOK, TypeOK', [Next]_vars, NEW c \in Clients, StepsOK(c), EchoOwn(c)', RemoveID(c)
    PROVE  StepsOK(c)'
<1> DEFINE n == Len(undoStack[c])
           k == Len(redoStack[c])
<1>1. undoStack[c] \in Seq(Nat) /\ redoStack[c] \in Seq(Nat) /\ n \in Nat /\ k \in Nat
    BY DEF TypeOK, StackTypes
<1>2. /\ method[c].step = "remove"
      /\ method[c].kind = "undo" => undoStack[c] # <<>>
      /\ method[c].kind # "undo" => method[c].kind = "redo" /\ redoStack[c] # <<>>
    BY DEF RemoveID, Doing, TypeOK, MethodFits, Reverses
<1>3. Ids(c)' = Ids(c) - 1
    <2>1. CASE method[c].kind = "undo"
        <3>1. undoStack'[c] = Front(undoStack[c]) /\ redoStack'[c] = redoStack[c]
            BY <2>1 DEF RemoveID, Popped, TypeOK, StackTypes
        <3>2. Len(undoStack'[c]) = n - 1
            BY <1>1, <1>2, <2>1, <3>1, FrontType
        <3>3. Ids(c) = n + k /\ Ids(c)' = Len(undoStack'[c]) + k
            BY <3>1 DEF Ids
        <3> HIDE DEF n, k
        <3> QED
            BY <1>1, <3>2, <3>3
    <2>2. CASE method[c].kind # "undo"
        <3>1. redoStack'[c] = Front(redoStack[c]) /\ undoStack'[c] = undoStack[c]
            BY <1>2, <2>2 DEF RemoveID, Popped, TypeOK, StackTypes
        <3>2. Len(redoStack'[c]) = k - 1
            BY <1>1, <1>2, <2>2, <3>1, FrontType
        <3>3. Ids(c) = n + k /\ Ids(c)' = n + Len(redoStack'[c])
            BY <3>1 DEF Ids
        <3> HIDE DEF n, k
        <3> QED
            BY <1>1, <3>2, <3>3
    <2> QED
        BY <2>1, <2>2
<1>4. Presses(c)' = Presses(c)
    BY DEF RemoveID, Presses
<1>5. method'[c].step = "find"
    BY DEF RemoveID, Then, TypeOK, UndoTypes, Method
<1>6. Taking(c) = 1 /\ Taking(c)' = 0
    BY <1>2, <1>5 DEF Taking, Bit
<1> QED
    BY <1>3, <1>4, <1>6, StepsTypes, StepsFrame

(* The rest of the main thread neither counts nor takes.                    *)
LEMMA IdleSteps ==
    ASSUME TypeOK, NEW c \in Clients, UserInput(c) \/ MainThread(c),
           ~ Undo(c), ~ Redo(c), ~ RemoveID(c)
    PROVE  Presses(c)' = Presses(c) /\ method[c].step # "remove" /\ method'[c].step # "remove"
<1>1. used \in [Clients -> [InputKind -> Nat]] /\ method \in [Clients -> Method]
    BY DEF TypeOK, OtherTypes, UndoTypes
<1>2. ASSUME NEW kind \in {"key", "move"}, Input(c, kind)
      PROVE  Presses(c)' = Presses(c) /\ method[c].step = "free"
    <2>1. used' = [used EXCEPT ![c][kind] = @ + 1]
        BY <1>2 DEF Input
    <2>2. used'[c]["undo"] = used[c]["undo"] /\ used'[c]["redo"] = used[c]["redo"]
        BY <1>1, <2>1 DEF InputKind
    <2> QED
        BY <1>2, <2>2 DEF Presses, Input, Responsive
<1>3. CASE UserInput(c)
    <2>1. CASE \E type \in EventType : FlushBurst(c, type)
        <3>1. method'[c].step = "count"
            BY <1>1, <2>1 DEF FlushBurst, SendBurst, Free
        <3> QED
            BY <1>2, <2>1, <3>1 DEF FlushBurst, KeyPressed
    <2>2. CASE ~ \E type \in EventType : FlushBurst(c, type)
        <3>1. method' = method
            BY <1>3, <2>2 DEF UserInput, TypeText, DeleteText, RefuseBackspace, MoveCursor
        <3>2. Input(c, "key") \/ Input(c, "move")
            BY <1>3, <2>2 DEF UserInput, TypeText, DeleteText, RefuseBackspace, MoveCursor, KeyPressed
        <3> QED
            BY <1>2, <3>1, <3>2
    <2> QED
        BY <2>1, <2>2
<1>4. CASE MainThread(c)
    <2>1. Presses(c)' = Presses(c)
        BY <1>4 DEF MainThread, ContinueMethod, Presses, TimerFires, RunBlock, ReadOrderID,
                    WriteOrderID, RecordBurst, ResumeKey, RemoveID, FindEvent, MeasureHistory,
                    ShiftReversal, SetTrigger, SendReversal, ApplyReversal, TestStack,
                    DisableButton, EnableButton
    <2>2. method[c].step # "remove"
        BY <1>4 DEF MainThread, ContinueMethod, TimerFires, RunBlock, Responsive, Doing, ReadOrderID,
                    WriteOrderID, RecordBurst, ResumeKey, FindEvent, MeasureHistory,
                    ShiftReversal, SetTrigger, SendReversal, ApplyReversal, TestStack,
                    DisableButton, EnableButton
    <2>3. CASE TimerFires(c) \/ RecordBurst(c) \/ ResumeKey(c)
        <3>1. method'[c].step \in {"count", "free", "key"}
            <4>1. CASE TimerFires(c)
                BY <1>1, <4>1 DEF TimerFires, SendBurst, Free
            <4>2. CASE RecordBurst(c)
                <5>1. method'[c].step \in {"free", "key"}
                    BY <1>1, <4>2 DEF RecordBurst, Free
                <5> QED
                    BY <5>1
            <4>3. CASE ResumeKey(c)
                BY <1>1, <4>3 DEF ResumeKey, Return, Free
            <4> QED
                BY <2>3, <4>1, <4>2, <4>3
        <3> QED
            BY <2>1, <2>2, <3>1
    <2>4. CASE RunBlock(c)
        BY <2>1, <2>2, <2>4 DEF RunBlock
    <2>5. CASE ReadOrderID(c) \/ WriteOrderID(c) \/ MeasureHistory(c) \/ SendReversal(c)
        <3>1. method'[c].step \in {"increment", "send", "append", "shift"}
            BY <1>1, <2>5 DEF ReadOrderID, WriteOrderID, MeasureHistory, SendReversal, Then, Method
        <3> QED
            BY <2>1, <2>2, <3>1
    <2>6. CASE FindEvent(c) \/ ShiftReversal(c)
        <3>1. method'[c].step \in {"find", "measure", "shift"}
            BY <1>1, <2>6 DEF FindEvent, ShiftReversal, Doing, Method
        <3> QED
            BY <2>1, <2>2, <3>1
    <2>7. CASE SetTrigger(c) \/ ApplyReversal(c)
        <3>1. method'[c].step \in {"count", "append", "test"}
            BY <1>1, <2>7 DEF SetTrigger, ApplyReversal, Doing, Free
        <3> QED
            BY <2>1, <2>2, <3>1
    <2>8. CASE TestStack(c) \/ DisableButton(c) \/ EnableButton(c)
        <3>1. method'[c].step \in {"disable", "enable", "free"}
            BY <1>1, <2>8 DEF TestStack, DisableButton, EnableButton, Then, Return, Free, Method
        <3> QED
            BY <2>1, <2>2, <3>1
    <2> QED
        BY <1>4, <2>3, <2>4, <2>5, <2>6, <2>7, <2>8 DEF MainThread, ContinueMethod
<1> QED
    BY <1>3, <1>4

(* An id is pushed only with the own event it stands for.                   *)
LEMMA RecordSteps ==
    ASSUME TypeOK, TypeOK', NEW c \in Clients, StepsOK(c), EchoOwn(c)', RecordOwn(c)
    PROVE  StepsOK(c)'
<1>1. /\ UNCHANGED <<log, delivered, used, method>> /\ pc[c] \in {"undone", "redone", "typed"}
      /\ Deciding(c) /\ ~ Deciding(c)'
    <2>1. PICK label \in {"clearUndo", "clearRedo", "count"} : pc' = [pc EXCEPT ![c] = label]
        BY DEF RecordOwn, Goto
    <2> QED
        BY <2>1 DEF RecordOwn, Deciding, TypeOK, HandlerTypes, serviceVars
<1>2. Presses(c)' = Presses(c) /\ Taking(c)' = Taking(c)
    BY <1>1 DEF Presses, Taking
<1> DEFINE n == OrderID(c)
<1>3. delivered[c] \in Nat /\ delivered[c] > 0
    BY <1>1 DEF TypeOK, ServiceTypes, HandlerFits
<1>4. n \in Nat /\ n + 1 = delivered[c] /\ Recorded(c) = n /\ Recorded(c)' = n + 1
    BY <1>1, <1>3 DEF Recorded, OrderID
<1>5. log[n + 1].user = c
    BY <1>1, <1>4 DEF StepsOK, EchoOwn, Received
<1> HIDE DEF n
<1>6. Cardinality(OwnEvents(c, n + 1)) = Cardinality(OwnEvents(c, n)) + 1
    BY <1>4, <1>5, OwnEventsNext
<1>7. OwnEvents(c, Recorded(c))' = OwnEvents(c, n + 1)
    BY <1>1, <1>4 DEF OwnEvents
<1>8. Ids(c)' = Ids(c) + 1
    <2>1. undoStack \in [Clients -> Seq(Nat)] /\ redoStack \in [Clients -> Seq(Nat)]
        BY DEF TypeOK, StackTypes
    <2>2. \/ /\ undoStack'[c] = Append(undoStack[c], RecordedID(c)) /\ redoStack' = redoStack
          \/ /\ redoStack'[c] = Append(redoStack[c], RecordedID(c)) /\ undoStack' = undoStack
        BY <2>1 DEF RecordOwn
    <2>3. RecordedID(c) \in Nat
        BY DEF RecordedID, TypeOK, HistoryTypes
    <2>4. CASE undoStack'[c] = Append(undoStack[c], RecordedID(c)) /\ redoStack' = redoStack
        <3>1. Len(undoStack'[c]) = Len(undoStack[c]) + 1
            BY <2>1, <2>3, <2>4
        <3> QED
            BY <2>1, <2>4, <3>1, SumGrows DEF Ids
    <2>5. CASE redoStack'[c] = Append(redoStack[c], RecordedID(c)) /\ undoStack' = undoStack
        <3>1. Len(redoStack'[c]) = Len(redoStack[c]) + 1
            BY <2>1, <2>3, <2>5
        <3> QED
            BY <2>1, <2>5, <3>1, SumGrows DEF Ids
    <2> QED
        BY <2>2, <2>4, <2>5
<1>9. Earned(c)' = Earned(c) + 1
    BY <1>4, <1>6, <1>7 DEF Earned
<1>10. Ids(c) + Presses(c) <= Earned(c) + Taking(c)
    BY DEF StepsOK
<1> QED
    BY <1>2, <1>8, <1>9, <1>10, StepsTypes DEF StepsOK

LEMMA StepSteps ==
    ASSUME TypeOK, TypeOK', StepsInv, [Next]_vars
    PROVE  StepsInv'
<1> SUFFICES ASSUME NEW d \in Clients PROVE StepsOK(d)'
    BY DEF StepsInv
<1>1. StepsOK(d) /\ EchoOwn(d) /\ LogKept
    BY RecordedGrows DEF StepsInv, StepsOK
<1>2. ASSUME delivered'[d] = delivered[d], pc'[d] = pc[d], used'[d] = used[d], method'[d] = method[d],
             undoStack'[d] = undoStack[d], redoStack'[d] = redoStack[d]
      PROVE  StepsOK(d)'
    BY <1>1, <1>2, EchoKept, StepsStay DEF Presses, Taking
<1>3. CASE UNCHANGED vars
    BY <1>2, <1>3 DEF vars, serviceVars, handlerVars, undoVars, stackVars
<1>4. ASSUME NEW c \in Clients, Service(c) PROVE StepsOK(d)'
    BY <1>2, <1>4, ServiceKeeps DEF handlerVars, undoVars, stackVars
<1>5. ASSUME NEW c \in Clients, c # d,
             UserInput(c) \/ MainThread(c) \/ ReceiveEvent(c) \/ ReceiveHandler(c)
      PROVE  StepsOK(d)'
    BY <1>2, <1>5, StepUntouched DEF Untouched
<1>6. ASSUME UserInput(d) \/ MainThread(d) PROVE StepsOK(d)'
    <2>1. UNCHANGED <<delivered, pc>>
        BY <1>6, MainThreadKeeps DEF handlerVars
    <2>2. EchoOwn(d)'
        BY <1>1, <2>1, EchoKept
    <2>3. CASE Undo(d) \/ Redo(d) \/ RemoveID(d)
        BY <1>1, <2>2, <2>3, PressSteps, RemoveSteps
    <2>4. CASE ~ Undo(d) /\ ~ Redo(d) /\ ~ RemoveID(d)
        <3>1. UNCHANGED <<undoStack, redoStack>>
            BY <1>6, <2>4, MainThreadKeeps
        <3>2. Presses(d)' = Presses(d) /\ Taking(d)' = Taking(d)
            BY <1>6, <2>4, IdleSteps DEF Taking
        <3> QED
            BY <1>1, <2>2, <3>1, <3>2, StepsStay
    <2> QED
        BY <2>3, <2>4
<1>7. ASSUME ReceiveEvent(d) PROVE StepsOK(d)'
    <2>1. UNCHANGED <<undoStack, redoStack, used, method>> /\ pc'[d] = "check"
        BY <1>7 DEF ReceiveEvent, Goto, undoVars, stackVars, TypeOK, HandlerTypes
    <2> QED
        BY <1>1, <2>1, StepsStay DEF EchoOwn, Presses, Taking
<1>8. ASSUME ReceiveHandler(d) PROVE StepsOK(d)'
    <2>1. EchoOwn(d)' /\ UNCHANGED <<used, method>>
        BY <1>1, <1>8, HandlerEcho, HandlerMoves
    <2>2. CASE RecordOwn(d)
        BY <1>1, <2>1, <2>2, RecordSteps
    <2>3. CASE ~ RecordOwn(d)
        BY <1>1, <1>8, <2>1, <2>3, HandlerMoves, StepsStay DEF Presses, Taking
    <2> QED
        BY <2>2, <2>3
<1> QED
    BY <1>3, <1>4, <1>5, <1>6, <1>7, <1>8 DEF Next, ClientStep

(* Whatever any number of users do, and however the two threads interleave, *)
(* the ids on a client's stacks and the presses of undo and redo that took  *)
(* one off together are no more than the own events it has recorded         *)
(* (ViewController.mm:317-331, 484-485, 556-557).                           *)
THEOREM StepsAreEarned == Spec => []StepsNeverInvented
<1>1. Init => StepsInv
    <2> SUFFICES ASSUME Init, NEW c \in Clients PROVE StepsOK(c)
        BY DEF StepsInv
    <2>1. pc[c] = "idle" /\ Ids(c) = 0 /\ Presses(c) = 0
        BY DEF Init, InputKind, Ids, Presses
    <2>2. Earned(c) \in Nat /\ Taking(c) \in Nat
        BY InitTypes, StepsTypes
    <2> QED
        BY <2>1, <2>2 DEF StepsOK, EchoOwn
<1>2. TypeOK /\ TypeOK' /\ StepsInv /\ [Next]_vars => StepsInv'
    BY StepSteps
<1>3. TypeOK /\ StepsInv => StepsNeverInvented
    <2> SUFFICES ASSUME TypeOK, StepsInv, NEW c \in Clients
                 PROVE  Len(StackIds(c)) + Taken(c) <= Cardinality(OwnEvents(c, Recorded(c)))
        BY DEF StepsNeverInvented
    <2>1. undoStack[c] \in Seq(Nat) /\ redoStack[c] \in Seq(Nat)
        BY DEF TypeOK, StackTypes
    <2>2. Len(StackIds(c)) = Ids(c)
        BY <2>1, ConcatLen DEF StackIds, Ids
    <2>3. Taken(c) = Presses(c) - Taking(c)
        <3>1. used[c]["undo"] \in Nat /\ used[c]["redo"] \in Nat
            BY DEF TypeOK, OtherTypes, InputKind
        <3> QED
            BY <3>1 DEF Taken, Presses, Taking, Bit
    <2>4. Ids(c) + Presses(c) <= Earned(c) + Taking(c)
        BY DEF StepsInv, StepsOK
    <2>5. Ids(c) + (Presses(c) - Taking(c)) <= Earned(c)
        BY <2>4, StepsTypes
    <2> QED
        BY <2>2, <2>3, <2>5 DEF Earned
<1> QED
    BY <1>1, <1>2, <1>3, TypeCorrect, PTL DEF Spec

-----------------------------------------------------------------------------
(* An own echo meets no foreign event in its place.                         *)

NeverUndid(c) == used[c]["undo"] = 0 /\ used[c]["redo"] = 0

(* A foreign event never stands in a history later than in the log.         *)
ForeignInPlace(c) ==
    \A i \in 1 .. Len(globalStack[c]) : globalStack[c][i].user # c => i <= Recorded(c)

(* What the main thread is sending is its own.                              *)
OwnMethod(c) ==
    /\ ~ Reverses(c)
    /\ method[c].step \in {"free", "count", "increment", "append", "key"}
    /\ method[c].step \in {"count", "increment", "append"} => method[c].event.user = c

InPlace(c) ==
    NeverUndid(c) =>
        /\ OwnMethod(c)
        /\ ForeignInPlace(c)
        /\ pc[c] \in {"pop", "save", "remove"} =>
              Received(c).user # c /\ count[c] = Len(globalStack[c])
        /\ pc[c] = "append" => Received(c).user # c
        /\ pc[c] = "drop" => Received(c).user = c
        /\ pc[c] \in {"dispatch", "append"} /\ Received(c).user # c
             => Len(globalStack[c]) <= OrderID(c)

PlaceInv == \A c \in Clients : InPlace(c)

LEMMA OwnMethodKept ==
    ASSUME NEW d \in Clients, OwnMethod(d), method'[d] = method[d]
    PROVE  OwnMethod(d)'
BY DEF OwnMethod, Reverses

(* The event a handler is deciding about does not change under it.          *)
LEMMA ReceivedKept ==
    ASSUME TypeOK, NEW d \in Clients, LogKept, delivered'[d] = delivered[d], pc'[d] = pc[d]
    PROVE  /\ Recorded(d)' = Recorded(d) /\ OrderID(d)' = OrderID(d)
           /\ pc[d] # "idle" => Received(d)' = Received(d)
<1>1. pc[d] # "idle" => delivered[d] \in 1 .. Len(log)
    BY DEF TypeOK, ServiceTypes, HandlerFits
<1> QED
    BY <1>1 DEF Recorded, Deciding, OrderID, Received, LogKept

LEMMA PlaceFrame ==
    ASSUME TypeOK, NEW d \in Clients, InPlace(d), LogKept, NeverUndid(d)' => NeverUndid(d),
           delivered'[d] = delivered[d], pc'[d] = pc[d], count'[d] = count[d],
           globalStack'[d] = globalStack[d], OwnMethod(d) => OwnMethod(d)'
    PROVE  InPlace(d)'
<1>1. /\ Recorded(d)' = Recorded(d) /\ OrderID(d)' = OrderID(d)
      /\ pc[d] # "idle" => Received(d)' = Received(d)
    BY ReceivedKept
<1> QED
    BY <1>1 DEF InPlace, ForeignInPlace

LEMMA OrderIDType ==
    ASSUME TypeOK, NEW c \in Clients, pc[c] # "idle"
    PROVE  /\ OrderID(c) \in Nat /\ delivered[c] \in Nat /\ OrderID(c) + 1 = delivered[c]
           /\ delivered[c] \in 1 .. Len(log)
<1>1. delivered[c] \in Nat /\ delivered[c] > 0 /\ delivered[c] <= Len(log)
    BY DEF TypeOK, HandlerFits, ServiceTypes
<1> QED
    BY <1>1 DEF OrderID

(* A user's own event goes to the end of the history.                       *)
LEMMA OwnAppended ==
    ASSUME TypeOK, NEW c \in Clients, InPlace(c), HandlerIdle(c), RecordBurst(c)
    PROVE  InPlace(c)'
<1> DEFINE g == globalStack[c]
           e == method[c].event
<1>1. /\ method[c].step = "append" /\ UNCHANGED <<log, delivered, pc, used>>
      /\ globalStack'[c] = Append(g, e)
    BY DEF RecordBurst, RecordsEvent, Doing, TypeOK, HistoryTypes, serviceVars, handlerVars
<1>2. g \in Seq(Event) /\ e \in Event
    BY <1>1 DEF TypeOK, HistoryTypes, MethodFits
<1>3. NeverUndid(c)' => NeverUndid(c)
    BY <1>1 DEF NeverUndid
<1>4. Recorded(c)' = Recorded(c) /\ pc'[c] = "idle"
    BY <1>1 DEF HandlerIdle, Recorded, Deciding
<1>5. OwnMethod(c) => OwnMethod(c)' /\ e.user = c
    <2>1. method \in [Clients -> Method]
        BY DEF TypeOK, UndoTypes
    <2>2. method'[c].step \in {"free", "key"} /\ method'[c].kind \in {"none", method[c].kind}
        BY <2>1 DEF RecordBurst, Free
    <2> QED
        BY <1>1, <2>2 DEF OwnMethod, Reverses
<1> HIDE DEF g, e
<1>6. /\ Len(Append(g, e)) = Len(g) + 1 /\ Len(g) \in Nat
      /\ \A i \in 1 .. Len(g) : Append(g, e)[i] = g[i]
      /\ Append(g, e)[Len(g) + 1] = e
    BY <1>2
<1>7. OwnMethod(c) /\ ForeignInPlace(c) => ForeignInPlace(c)'
    <2> SUFFICES ASSUME OwnMethod(c), ForeignInPlace(c), NEW i \in 1 .. Len(Append(g, e)),
                        Append(g, e)[i].user # c
                 PROVE  i <= Recorded(c)
        BY <1>1, <1>4 DEF ForeignInPlace
    <2>1. i \in 1 .. Len(g) \/ i = Len(g) + 1
        BY <1>6
    <2> QED
        BY <1>5, <1>6, <2>1 DEF ForeignInPlace, g
<1> QED
    BY <1>3, <1>4, <1>5, <1>7 DEF InPlace

LEMMA BurstUser == ASSUME NEW c PROVE BurstEvent(c).user = c
BY DEF BurstEvent, MakeEvent

LEMMA InputPlace ==
    ASSUME TypeOK, NEW c \in Clients, InPlace(c), UserInput(c)
    PROVE  InPlace(c)'
<1>1. /\ used[c] \in [InputKind -> Nat] /\ used \in [Clients -> [InputKind -> Nat]]
      /\ method \in [Clients -> Method]
    BY DEF TypeOK, OtherTypes, UndoTypes
<1>2. UNCHANGED <<log, delivered, pc, count>> /\ LogKept
    BY MainThreadKeeps DEF handlerVars, LogKept
<1>3. UNCHANGED globalStack
    BY DEF UserInput, FlushBurst, TypeText, DeleteText, RefuseBackspace, KeyPressed,
           MoveCursor, Undo, Redo, StartReversal, historyVars
<1>4. ASSUME NEW kind \in {"key", "move"}, Input(c, kind) PROVE NeverUndid(c)' => NeverUndid(c)
    <2>1. used' = [used EXCEPT ![c][kind] = @ + 1]
        BY <1>4 DEF Input
    <2> QED
        BY <1>1, <2>1 DEF NeverUndid, InputKind
<1>5. CASE Undo(c) \/ Redo(c)
    <2>1. PICK kind \in {"undo", "redo"} : used' = [used EXCEPT ![c][kind] = @ + 1]
        BY <1>5 DEF Undo, Redo, StartReversal, Input
    <2>2. ~ NeverUndid(c)'
        BY <1>1, <2>1 DEF NeverUndid, InputKind
    <2> QED
        BY <2>2 DEF InPlace
<1>6. ASSUME NEW type \in EventType, FlushBurst(c, type) PROVE InPlace(c)'
    <2>1. /\ method'[c].step = "count" /\ method'[c].kind = type
          /\ method'[c].event = BurstEvent(c)
        BY <1>1, <1>6 DEF FlushBurst, SendBurst, Free
    <2>2. OwnMethod(c)'
        BY <2>1, BurstUser DEF OwnMethod, Reverses, EventType, INSERT, REMOVE
    <2> QED
        BY <1>2, <1>3, <1>4, <1>6, <2>2, PlaceFrame DEF FlushBurst, KeyPressed
<1>7. CASE RefuseBackspace(c) \/ DeleteText(c) \/ MoveCursor(c) \/ \E r \in Replacements : TypeText(c, r)
    <2>1. method' = method /\ (Input(c, "key") \/ Input(c, "move"))
        BY <1>7 DEF RefuseBackspace, DeleteText, MoveCursor, TypeText, KeyPressed
    <2> QED
        BY <1>2, <1>3, <1>4, <2>1, OwnMethodKept, PlaceFrame
<1> QED
    BY <1>5, <1>6, <1>7 DEF UserInput

LEMMA MainThreadPlace ==
    ASSUME TypeOK, NEW c \in Clients, InPlace(c), HandlerIdle(c), MainThread(c)
    PROVE  InPlace(c)'
<1>1. UNCHANGED <<log, delivered, pc, count>> /\ LogKept
    BY MainThreadKeeps DEF handlerVars, LogKept
<1>2. used' = used /\ method \in [Clients -> Method]
    BY DEF MainThread, ContinueMethod, TimerFires, RunBlock, ReadOrderID, TypeOK, UndoTypes,
           WriteOrderID, RecordBurst, ResumeKey, RemoveID, FindEvent, MeasureHistory,
           ShiftReversal, SetTrigger, SendReversal, ApplyReversal, TestStack,
           DisableButton, EnableButton
<1>3. (NeverUndid(c)' => NeverUndid(c)) /\ (NeverUndid(c) => OwnMethod(c))
    BY <1>2 DEF NeverUndid, InPlace
<1>4. CASE RecordBurst(c)
    BY <1>4, OwnAppended
<1>5. CASE ~ OwnMethod(c)
    BY <1>3, <1>5 DEF InPlace
<1>6. CASE TimerFires(c)
    <2>1. /\ method'[c].step = "count" /\ method'[c].kind = "timer"
          /\ method'[c].event = BurstEvent(c) /\ globalStack' = globalStack
        BY <1>2, <1>6 DEF TimerFires, SendBurst, Free, historyVars
    <2>2. OwnMethod(c)'
        BY <2>1, BurstUser DEF OwnMethod, Reverses
    <2> QED
        BY <1>1, <1>3, <2>1, <2>2, PlaceFrame
<1>7. CASE RunBlock(c)
    BY <1>1, <1>3, <1>7, OwnMethodKept, PlaceFrame DEF RunBlock, historyVars
<1>8. CASE ResumeKey(c)
    <2>1. OwnMethod(c)' /\ globalStack' = globalStack
        BY <1>2, <1>8 DEF ResumeKey, Return, Free, OwnMethod, Reverses, historyVars
    <2> QED
        BY <1>1, <1>3, <2>1, PlaceFrame
<1>9. CASE OwnMethod(c) /\ ReadOrderID(c)
    <2>1. /\ method'[c].step = "increment" /\ method'[c].kind = method[c].kind
          /\ method'[c].event = method[c].event /\ globalStack' = globalStack
        BY <1>2, <1>9 DEF ReadOrderID, Method, historyVars
    <2>2. OwnMethod(c)'
        BY <1>9, <2>1 DEF OwnMethod, Reverses, ReadOrderID, Doing
    <2> QED
        BY <1>1, <1>3, <2>1, <2>2, PlaceFrame
<1>10. CASE OwnMethod(c) /\ WriteOrderID(c)
    <2>1. /\ method'[c].step = "append" /\ method'[c].kind = method[c].kind
          /\ method'[c].event = method[c].event /\ globalStack' = globalStack
        BY <1>2, <1>10 DEF WriteOrderID, Method, OwnMethod
    <2>2. OwnMethod(c)'
        BY <1>10, <2>1 DEF OwnMethod, Reverses, WriteOrderID, Doing
    <2> QED
        BY <1>1, <1>3, <2>1, <2>2, PlaceFrame
<1>11. CASE OwnMethod(c) /\ (RemoveID(c) \/ FindEvent(c) \/ MeasureHistory(c) \/ ShiftReversal(c)
                            \/ SetTrigger(c) \/ SendReversal(c) \/ ApplyReversal(c)
                            \/ TestStack(c) \/ DisableButton(c) \/ EnableButton(c))
    BY <1>11 DEF OwnMethod, Doing, RemoveID, FindEvent, MeasureHistory, ShiftReversal, SetTrigger,
                 SendReversal, ApplyReversal, TestStack, DisableButton, EnableButton
<1> QED
    BY <1>4, <1>5, <1>6, <1>7, <1>8, <1>9, <1>10, <1>11 DEF MainThread, ContinueMethod

(* One turn of the popping loop, which no main-thread step interrupts.      *)
LEMMA PopPlace ==
    ASSUME TypeOK, NEW c \in Clients, InPlace(c), RemovePopped(c), NeverUndid(c)
    PROVE  InPlace(c)'
<1> DEFINE g == globalStack[c]
           n == OrderID(c)
<1>1. /\ pc[c] = "remove" /\ globalStack'[c] = Front(g) /\ count'[c] = count[c] - 1
      /\ UNCHANGED <<log, delivered, method, used>>
      /\ pc' = [pc EXCEPT ![c] = IF MoreToPop(c) THEN "pop" ELSE "dispatch"]
    BY Zenon DEF RemovePopped, At, Goto, TypeOK, HistoryTypes, HandlerTypes, serviceVars
<1>2. /\ Received(c).user # c /\ count[c] = Len(g) /\ ForeignInPlace(c) /\ OwnMethod(c)
    BY <1>1 DEF InPlace
<1>3. n < count[c] /\ n \in Nat /\ delivered[c] \in Nat /\ n + 1 = delivered[c]
    BY <1>1, OrderIDType DEF TypeOK, HandlerFits
<1>4. g \in Seq(Event) /\ g # <<>>
    BY <1>2, <1>3 DEF TypeOK, HistoryTypes
<1>5. Len(Front(g)) = Len(g) - 1 /\ \A i \in 1 .. Len(Front(g)) : i \in 1 .. Len(g) /\ Front(g)[i] = g[i]
    BY <1>4, FrontType, FrontElements
<1>6. pc'[c] \in {"pop", "dispatch"} /\ (pc'[c] = "dispatch" => ~ (count[c] - 1 > n))
    BY <1>1 DEF TypeOK, HandlerTypes, MoreToPop
<1>7. Recorded(c) = n /\ Recorded(c)' = n /\ OrderID(c)' = n /\ Received(c)' = Received(c)
    BY <1>1, <1>6 DEF Recorded, Deciding, OrderID, Received
<1> HIDE DEF g, n
<1>8. ForeignInPlace(c)'
    BY <1>1, <1>2, <1>5, <1>7 DEF ForeignInPlace, g
<1>9. count'[c] = Len(globalStack'[c])
    BY <1>1, <1>2, <1>5
<1>10. pc'[c] = "dispatch" => Len(globalStack'[c]) <= n
    BY <1>1, <1>2, <1>3, <1>5, <1>6
<1>11. OwnMethod(c)'
    BY <1>1, <1>2, OwnMethodKept
<1> QED
    BY <1>2, <1>6, <1>7, <1>8, <1>9, <1>10, <1>11 DEF InPlace

LEMMA CheckPlace ==
    ASSUME TypeOK, NEW c \in Clients, InPlace(c), CheckConflict(c), NeverUndid(c)
    PROVE  InPlace(c)'
<1> DEFINE g == globalStack[c]
           n == OrderID(c)
<1>1. /\ pc[c] = "check" /\ UNCHANGED <<log, delivered, method, used, globalStack>>
      /\ \/ Conflict(c) /\ pc'[c] = "pop" /\ count'[c] = Len(g)
         \/ ~ Conflict(c) /\ pc'[c] = "dispatch"
    BY DEF CheckConflict, At, Goto, TypeOK, HandlerTypes, serviceVars, historyVars
<1>2. ForeignInPlace(c) /\ OwnMethod(c)
    BY DEF InPlace
<1>3. n \in Nat /\ delivered[c] \in Nat /\ n + 1 = delivered[c]
    BY <1>1, OrderIDType
<1>4. Recorded(c) = n /\ Recorded(c)' = n /\ OrderID(c)' = n /\ Received(c)' = Received(c)
    BY <1>1 DEF Recorded, Deciding, OrderID, Received
<1>5. Len(g) \in Nat
    BY DEF TypeOK, HistoryTypes
<1>6. Len(g) > n => g[n + 1].user = c
    BY <1>2, <1>3, <1>4, <1>5 DEF ForeignInPlace
<1>7. ForeignInPlace(c)'
    BY <1>1, <1>2, <1>4 DEF ForeignInPlace
<1>8. Conflict(c) => Received(c).user # c
    BY <1>3, <1>6 DEF Conflict
<1>9. ~ Conflict(c) /\ Received(c).user # c => Len(g) <= n
    BY <1>3, <1>5, <1>6 DEF Conflict
<1> QED
    BY <1>1, <1>2, <1>4, <1>7, <1>8, <1>9, OwnMethodKept DEF InPlace

LEMMA AppendPlace ==
    ASSUME TypeOK, NEW c \in Clients, InPlace(c), AppendForeign(c), NeverUndid(c)
    PROVE  InPlace(c)'
<1> DEFINE g == globalStack[c]
           n == OrderID(c)
           e == Received(c)
<1>1. /\ pc[c] = "append" /\ pc'[c] = "count" /\ UNCHANGED <<log, delivered, method, used>>
      /\ globalStack'[c] = Append(g, e)
    BY DEF AppendForeign, At, Goto, TypeOK, HandlerTypes, HistoryTypes, serviceVars
<1>2. /\ ForeignInPlace(c) /\ OwnMethod(c) /\ Len(g) <= n
    BY <1>1 DEF InPlace
<1>3. n \in Nat /\ delivered[c] \in Nat /\ n + 1 = delivered[c]
    BY <1>1, OrderIDType
<1>4. Recorded(c) = n /\ Recorded(c)' = n + 1
    BY <1>1, <1>3 DEF Recorded, Deciding, OrderID
<1>5. g \in Seq(Event) /\ e \in Event
    BY <1>1, ReceivedType DEF TypeOK, HistoryTypes
<1> HIDE DEF g, n, e
<1>6. Len(Append(g, e)) = Len(g) + 1 /\ Len(g) \in Nat
    BY <1>5
<1>7. \A i \in 1 .. Len(globalStack'[c]) : i <= Recorded(c)'
    BY <1>1, <1>2, <1>3, <1>4, <1>6
<1> QED
    BY <1>1, <1>2, <1>7, OwnMethodKept DEF InPlace, ForeignInPlace

LEMMA HandlerPlace ==
    ASSUME TypeOK, NEW c \in Clients, InPlace(c), ReceiveEvent(c) \/ ReceiveHandler(c)
    PROVE  InPlace(c)'
<1> USE DEF serviceVars, historyVars
<1>1. used' = used /\ method' = method
    BY HandlerMoves DEF ReceiveEvent
<1>2. CASE ~ NeverUndid(c)
    BY <1>1, <1>2 DEF InPlace, NeverUndid
<1>3. ASSUME NeverUndid(c), NEW label, Goto(c, label),
             label \notin {"pop", "save", "remove", "append"},
             UNCHANGED globalStack,
             Recorded(c)' \in Nat, Recorded(c) <= Recorded(c)',
             label \in {"drop", "dispatch"} => UNCHANGED <<log, delivered>> /\ Received(c).user = c
      PROVE  InPlace(c)'
    <2>1. pc'[c] = label
        BY <1>3 DEF Goto, TypeOK, HandlerTypes
    <2>2. OwnMethod(c) /\ ForeignInPlace(c) /\ OwnMethod(c)'
        BY <1>1, <1>3, OwnMethodKept DEF InPlace
    <2>3. Recorded(c) \in Nat /\ Len(globalStack[c]) \in Nat
        BY RecordedType DEF TypeOK, HistoryTypes
    <2>4. ForeignInPlace(c)'
        BY <1>3, <2>2, <2>3 DEF ForeignInPlace
    <2>5. label \in {"drop", "dispatch"} => Received(c)'.user = c
        BY <1>3 DEF Received
    <2> QED
        BY <1>3, <2>1, <2>2, <2>4, <2>5 DEF InPlace
<1>4. Recorded(c)' \in Nat /\ Recorded(c) <= Recorded(c)'
    <2>1. [Next]_vars
        BY DEF Next, ClientStep
    <2> QED
        BY <2>1, RecordedGrows
<1>5. ASSUME NeverUndid(c), ReceiveEvent(c) PROVE InPlace(c)'
    BY <1>3, <1>4, <1>5 DEF ReceiveEvent
<1>6. ASSUME NeverUndid(c), PopConflict(c) \/ SavePopped(c) PROVE InPlace(c)'
    <2>1. /\ pc[c] \in {"pop", "save"} /\ pc'[c] \in {"save", "remove"}
          /\ UNCHANGED <<log, delivered, count, globalStack>>
        BY <1>6 DEF PopConflict, SavePopped, At, Goto, TypeOK, HandlerTypes
    <2>2. Recorded(c)' = Recorded(c) /\ OrderID(c)' = OrderID(c) /\ Received(c)' = Received(c)
        BY <2>1 DEF Recorded, Deciding, OrderID, Received
    <2> QED
        BY <1>1, <1>6, <2>1, <2>2, OwnMethodKept DEF InPlace, ForeignInPlace
<1>7. ASSUME NeverUndid(c), DispatchForeign(c) PROVE InPlace(c)'
    <2>1. /\ pc[c] = "dispatch" /\ Received(c).user # c /\ pc'[c] = "append"
          /\ UNCHANGED <<log, delivered, globalStack>>
        BY <1>7 DEF DispatchForeign, At, Goto, TypeOK, HandlerTypes
    <2>2. OwnMethod(c) /\ ForeignInPlace(c) /\ Len(globalStack[c]) <= OrderID(c)
        BY <1>7, <2>1 DEF InPlace
    <2>3. Recorded(c)' = Recorded(c) /\ OrderID(c)' = OrderID(c) /\ Received(c)' = Received(c)
        BY <2>1 DEF Recorded, Deciding, OrderID, Received
    <2> QED
        BY <1>1, <2>1, <2>2, <2>3, OwnMethodKept DEF InPlace, ForeignInPlace
<1>8. ASSUME NeverUndid(c), RouteOwn(c) \/ DispatchPopped(c) PROVE InPlace(c)'
    <2>1. /\ UNCHANGED <<globalStack, log, delivered>> /\ Received(c).user = c
          /\ \E label \in {"undone", "route", "drop"} : Goto(c, label)
        BY <1>8, Zenon DEF RouteOwn, DispatchPopped
    <2> QED
        BY <1>3, <1>4, <1>8, <2>1
<1>9. ASSUME NeverUndid(c), DropPopped(c) PROVE InPlace(c)'
    <2>1. /\ UNCHANGED <<globalStack, log, delivered>> /\ pc[c] = "drop"
          /\ \E label \in {"dispatch", "count"} : Goto(c, label)
        BY <1>9, Zenon DEF DropPopped, At
    <2>2. Received(c).user = c
        BY <1>9, <2>1 DEF InPlace
    <2> QED
        BY <1>3, <1>4, <1>9, <2>1, <2>2
<1>10. ASSUME NeverUndid(c), RouteRedone(c) \/ RecordOwn(c) \/ ClearTrigger(c) \/ CountReceived(c)
       PROVE  InPlace(c)'
    <2>1. /\ UNCHANGED globalStack
          /\ \E label \in {"redone", "typed", "clearUndo", "clearRedo", "count", "increment"} :
                Goto(c, label)
        BY <1>10 DEF RouteRedone, RecordOwn, ClearTrigger, CountReceived
    <2> QED
        BY <1>3, <1>4, <1>10, <2>1
<1>11. ASSUME NeverUndid(c),
              \/ AdvanceOrderID(c) \/ CountUndoStack(c) \/ SetUndoButton(c)
              \/ CountRedoStack(c) \/ SetRedoButton(c)
       PROVE  InPlace(c)'
    <2>1. /\ UNCHANGED globalStack
          /\ \E label \in {"undoCount", "undoOn", "undoOff", "redoCount", "redoOn", "redoOff", "idle"} :
                Goto(c, label)
        BY <1>11 DEF AdvanceOrderID, CountUndoStack, SetUndoButton, CountRedoStack, SetRedoButton
    <2> QED
        BY <1>3, <1>4, <1>11, <2>1
<1> QED
    BY <1>2, <1>5, <1>6, <1>7, <1>8, <1>9, <1>10, <1>11, CheckPlace, PopPlace, AppendPlace
       DEF ReceiveHandler

LEMMA StepPlace ==
    ASSUME TypeOK, PlaceInv, [SerialNext]_vars
    PROVE  PlaceInv'
<1> SUFFICES ASSUME NEW d \in Clients PROVE InPlace(d)'
    BY DEF PlaceInv
<1>1. InPlace(d)
    BY DEF PlaceInv
<1>2. ASSUME UNCHANGED <<delivered, pc, count, globalStack, method, used>>, LogKept PROVE InPlace(d)'
    BY <1>1, <1>2, PlaceFrame, OwnMethodKept DEF NeverUndid
<1>3. CASE UNCHANGED vars
    BY <1>2, <1>3 DEF vars, serviceVars, handlerVars, historyVars, LogKept
<1>4. ASSUME NEW c \in Clients, Service(c) PROVE InPlace(d)'
    BY <1>2, <1>4, ServiceKeeps DEF handlerVars, historyVars
<1>5. ASSUME NEW c \in Clients, c # d,
             UserInput(c) \/ MainThread(c) \/ ReceiveEvent(c) \/ ReceiveHandler(c)
      PROVE  InPlace(d)'
    <2>1. Untouched(d) /\ log' = log
        BY <1>5, StepUntouched
    <2> QED
        BY <1>1, <2>1, PlaceFrame, OwnMethodKept DEF Untouched, LogKept, NeverUndid
<1>6. ASSUME NEW c \in Clients, HandlerIdle(c), UserInput(c) \/ MainThread(c) PROVE InPlace(d)'
    BY <1>1, <1>5, <1>6, InputPlace, MainThreadPlace
<1>7. ASSUME NEW c \in Clients, ReceiveEvent(c) \/ ReceiveHandler(c) PROVE InPlace(d)'
    BY <1>1, <1>5, <1>7, HandlerPlace
<1> QED
    BY <1>3, <1>4, <1>6, <1>7 DEF SerialNext, SerialStep, RunsByItself

(* However many users type at once, the echo of a client's own event never  *)
(* meets a foreign one in its place, as long as handlers do not overlap the *)
(* main thread and nobody has undone anything (ViewController.mm:311-316).  *)
THEOREM OwnEchoFindsItsPlace == SerialSpec => []OwnEchoNeverConflicts
<1>1. Init => PlaceInv
    <2> SUFFICES ASSUME Init, NEW c \in Clients PROVE InPlace(c)
        BY DEF PlaceInv
    <2>1. pc[c] = "idle" /\ method[c] = Free /\ globalStack[c] = <<>>
        BY DEF Init
    <2> QED
        BY <2>1 DEF InPlace, ForeignInPlace, OwnMethod, Reverses, Free
<1>2. TypeOK /\ PlaceInv /\ [SerialNext]_vars => PlaceInv'
    BY StepPlace
<1>3. PlaceInv => OwnEchoNeverConflicts
    BY DEF PlaceInv, InPlace, OwnEchoNeverConflicts, NobodyUndid, NeverUndid
<1> QED
    BY <1>1, <1>2, <1>3, SerialTypes, PTL DEF SerialSpec

=============================================================================
