--------------------------- MODULE WatchingProofs ---------------------------
(***************************************************************************)
(* Safety under every interleaving of the threads, without any restriction  *)
(* on when handlers run: a client that only watches implements SharedText,  *)
(* whatever the writers do; and while one user types, every history is what *)
(* it should be and no trigger outlives its echo.                           *)
(***************************************************************************)
EXTENDS EditingSessionProofs

USE DEF serviceVars, screenVars, burstVars, stackVars, buttonVars, undoVars,
        historyVars, handlerVars

-----------------------------------------------------------------------------
(* Every event is a writer's.                                               *)

ByWriter(s) == \A i \in 1 .. Len(s) : s[i].user \in Writers

(* The steps at which a method has an event in hand.                        *)
Holding == {"count", "increment", "append", "send", "measure", "shift"}

AuthorsOK(c) ==
    /\ ByWriter(outbox[c]) /\ ByWriter(globalStack[c])
    /\ method[c].step # "free" => c \in Writers
    /\ method[c].step \in Holding => method[c].event.user \in Writers
    /\ eventDelay[c] => c \in Writers

Authors == ByWriter(log) /\ \A c \in Clients : AuthorsOK(c)

LEMMA ByWriterAppend ==
    ASSUME NEW s \in Seq(Event), ByWriter(s), NEW e \in Event, e.user \in Writers
    PROVE  ByWriter(Append(s, e))
<1>1. /\ Len(Append(s, e)) = Len(s) + 1 /\ Len(s) \in Nat
      /\ \A i \in 1 .. Len(s) : Append(s, e)[i] = s[i]
      /\ Append(s, e)[Len(s) + 1] = e
    OBVIOUS
<1> QED
    BY <1>1 DEF ByWriter

(* A method that goes on, and one that sends what it holds.                 *)
LEMMA AuthorsStay ==
    ASSUME NEW c \in Clients, AuthorsOK(c), c \in Writers,
           outbox'[c] = outbox[c], globalStack'[c] = globalStack[c],
           method'[c].step \in Holding => method'[c].event.user \in Writers
    PROVE  AuthorsOK(c)'
BY DEF AuthorsOK

LEMMA BroadcastAuthors ==
    ASSUME TypeOK, NEW c \in Clients, AuthorsOK(c), NEW e \in Event, e.user \in Writers,
           Broadcast(c, e)
    PROVE  ByWriter(outbox'[c])
<1>1. outbox[c] \in Seq(Event)
    BY DEF TypeOK, ServiceTypes
<1>2. outbox'[c] = outbox[c] \/ outbox'[c] = Append(outbox[c], e)
    BY DEF Broadcast, TypeOK, ServiceTypes
<1> QED
    BY <1>1, <1>2, ByWriterAppend DEF AuthorsOK

LEMMA BurstAuthors ==
    ASSUME TypeOK, NEW c \in Writers, c \in Clients, AuthorsOK(c), NEW kind, SendBurst(c, kind),
           globalStack' = globalStack
    PROVE  AuthorsOK(c)'
<1> DEFINE e == BurstEvent(c)
<1>1. e \in Event /\ e.user = c
    BY BurstEventType, BurstUser
<1>2. ByWriter(outbox'[c])
    BY <1>1, BroadcastAuthors DEF SendBurst
<1>3. method'[c].event = e
    BY DEF SendBurst, Free, TypeOK, UndoTypes
<1> QED
    BY <1>1, <1>2, <1>3 DEF AuthorsOK

LEMMA InputAuthors ==
    ASSUME TypeOK, NEW c \in Clients, AuthorsOK(c), UserInput(c)
    PROVE  AuthorsOK(c)'
<1>1. c \in Writers
    BY DEF UserInput, FlushBurst, TypeText, DeleteText, RefuseBackspace, KeyPressed, MoveCursor,
           Undo, Redo, StartReversal, Input
<1>2. UNCHANGED globalStack
    BY DEF UserInput, FlushBurst, TypeText, DeleteText, RefuseBackspace, KeyPressed, MoveCursor,
           Undo, Redo, StartReversal
<1>3. CASE \E type \in EventType : FlushBurst(c, type)
    BY <1>1, <1>2, <1>3, BurstAuthors DEF FlushBurst
<1>4. CASE DeleteText(c) \/ RefuseBackspace(c) \/ MoveCursor(c) \/ \E r \in Replacements : TypeText(c, r)
    <2>1. UNCHANGED <<outbox, method>>
        BY <1>4 DEF DeleteText, RefuseBackspace, MoveCursor, TypeText
    <2> QED
        BY <1>1, <1>2, <2>1, AuthorsStay DEF AuthorsOK
<1>5. CASE Undo(c) \/ Redo(c)
    <2>1. PICK kind, n : method' = [method EXCEPT ![c] =
                             [Free EXCEPT !.kind = kind, !.step = "remove", !.begin = n]]
        BY <1>5 DEF Undo, Redo, StartReversal
    <2>2. outbox' = outbox /\ method'[c].step = "remove"
        BY <1>5, <2>1, MethodType DEF Undo, Redo, StartReversal, Free
    <2> QED
        BY <1>1, <1>2, <2>2, AuthorsStay DEF Holding
<1> QED
    BY <1>3, <1>4, <1>5 DEF UserInput

LEMMA RecordAuthors ==
    ASSUME TypeOK, NEW c \in Clients, AuthorsOK(c), method[c].step = "append", RecordsEvent(c),
           outbox' = outbox, method'[c].step \notin Holding
    PROVE  AuthorsOK(c)'
<1>1. method[c].event \in Event /\ method[c].event.user \in Writers /\ c \in Writers
    BY MethodType DEF AuthorsOK, Holding, Fits
<1>2. globalStack'[c] = Append(globalStack[c], method[c].event) /\ globalStack[c] \in Seq(Event)
    BY DEF RecordsEvent, TypeOK, HistoryTypes
<1> QED
    BY <1>1, <1>2, ByWriterAppend DEF AuthorsOK

LEMMA ReversalAuthors ==
    ASSUME TypeOK, NEW c \in Clients, AuthorsOK(c),
           FindEvent(c) \/ ShiftReversal(c) \/ SetTrigger(c)
    PROVE  AuthorsOK(c)'
<1>1. /\ method \in [Clients -> Method] /\ method[c].event \in Event \cup {NoEvent}
      /\ Fits(method[c], undoStack[c], redoStack[c]) /\ method[c].begin \in Nat
    BY MethodType
<1>2. globalStack[c] \in Seq(Event)
    BY DEF TypeOK, HistoryTypes
<1>3. UNCHANGED <<outbox, globalStack>> /\ c \in Writers
    BY DEF FindEvent, ShiftReversal, SetTrigger, Doing, AuthorsOK
<1>4. CASE method' = method
    BY <1>3, <1>4, AuthorsStay DEF AuthorsOK
<1>5. CASE FindEvent(c) /\ method' # method
    <2>1. method[c].begin \in 1 .. Len(globalStack[c])
        BY <1>1, <1>5 DEF FindEvent, Doing, Fits
    <2>2. method'[c].event = globalStack[c][method[c].begin]
        BY <1>1, <1>5 DEF FindEvent, Method
    <2> QED
        BY <1>3, <2>1, <2>2, AuthorsStay DEF AuthorsOK, ByWriter
<1>6. CASE ShiftReversal(c) /\ method' # method
    <2> DEFINE b == globalStack[c][method[c].begin + 1]
               e == ShiftPast(b, method[c].event)
    <2>1. method[c].begin + 1 \in 1 .. Len(globalStack[c])
        BY <1>1, <1>2, <1>6 DEF ShiftReversal
    <2>2. b \in Event /\ method[c].event \in Event /\ method[c].event.user \in Writers
        BY <1>1, <1>2, <1>6, <2>1 DEF ShiftReversal, Doing, Fits, AuthorsOK, Holding
    <2>3. e.user = method[c].event.user
        BY <2>2, ShiftPastType
    <2>4. method' = [method EXCEPT ![c].event = e, ![c].begin = @ + 1]
        BY <1>6 DEF ShiftReversal
    <2> HIDE DEF e
    <2>5. method'[c].event = e
        BY <1>1, <2>4 DEF Method
    <2> QED
        BY <1>3, <2>2, <2>3, <2>5, AuthorsStay
<1>7. CASE SetTrigger(c)
    <2> DEFINE e == ReverseEvent(method[c].event)
    <2>1. method[c].event \in Event /\ method[c].event.user \in Writers
        BY <1>1, <1>7 DEF SetTrigger, Doing, Fits, AuthorsOK, Holding
    <2>2. e.user = method[c].event.user
        BY <2>1, ReverseEventType
    <2>3. method'[c].event = e
        BY <1>1, <1>7 DEF SetTrigger, Free
    <2> QED
        BY <1>3, <2>1, <2>2, <2>3, AuthorsStay
<1> QED
    BY <1>4, <1>5, <1>6, <1>7

LEMMA MainThreadAuthors ==
    ASSUME TypeOK, NEW c \in Clients, AuthorsOK(c), MainThread(c)
    PROVE  AuthorsOK(c)'
<1>1. method \in [Clients -> Method]
    BY MethodType
<1>2. CASE TimerFires(c)
    BY <1>2, BurstAuthors DEF TimerFires, TimerDue, AuthorsOK
<1>3. CASE RunBlock(c)
    BY <1>3 DEF RunBlock, AuthorsOK
<1>4. CASE ReadOrderID(c) \/ WriteOrderID(c) \/ MeasureHistory(c)
    <2>1. /\ UNCHANGED <<outbox, globalStack>> /\ method[c].step \in Holding
          /\ method'[c].event = method[c].event
        BY <1>1, <1>4 DEF ReadOrderID, WriteOrderID, MeasureHistory, Doing, Holding, Method
    <2> QED
        BY <2>1, AuthorsStay DEF AuthorsOK, Holding
<1>5. CASE RecordBurst(c)
    <2>1. method'[c].step \in {"free", "key"}
        BY <1>1, <1>5 DEF RecordBurst, Free
    <2> QED
        BY <1>5, <2>1, RecordAuthors DEF RecordBurst, Doing, Holding
<1>6. CASE ApplyReversal(c)
    <2>1. CASE method' = method
        BY <1>1, <1>6, <2>1 DEF ApplyReversal, Doing, Free, AuthorsOK
    <2>2. CASE method' # method
        <3>1. method'[c].step = "test" /\ RecordsEvent(c)
            BY <1>1, <1>6, <2>2 DEF ApplyReversal, Free
        <3> QED
            BY <1>6, <3>1, RecordAuthors DEF ApplyReversal, Doing, Holding
    <2> QED
        BY <2>1, <2>2
<1>7. CASE SendReversal(c)
    <2>1. method[c].event \in Event /\ method[c].event.user \in Writers
        BY <1>7, MethodType DEF SendReversal, Doing, Fits, AuthorsOK, Holding
    <2>2. ByWriter(outbox'[c])
        BY <1>7, <2>1, BroadcastAuthors DEF SendReversal
    <2>3. method'[c].event = method[c].event /\ UNCHANGED <<globalStack, eventDelay>>
        BY <1>1, <1>7 DEF SendReversal, Then, Method
    <2> QED
        BY <1>7, <2>1, <2>2, <2>3 DEF AuthorsOK, SendReversal, Doing
<1>8. CASE ResumeKey(c) \/ RemoveID(c) \/ TestStack(c) \/ DisableButton(c) \/ EnableButton(c)
    <2>1. /\ UNCHANGED <<outbox, globalStack>> /\ c \in Writers
        BY <1>8 DEF ResumeKey, RemoveID, TestStack, DisableButton, EnableButton, Doing, AuthorsOK
    <2>2. method'[c].step \notin Holding
        BY <1>1, <1>8 DEF ResumeKey, RemoveID, TestStack, DisableButton, EnableButton, Then, Return,
                          Free, Holding, Method
    <2> QED
        BY <2>1, <2>2, AuthorsStay
<1> QED
    BY <1>2, <1>3, <1>4, <1>5, <1>6, <1>7, <1>8, ReversalAuthors DEF MainThread, ContinueMethod

LEMMA HandlerAuthors ==
    ASSUME TypeOK, NEW c \in Clients, Authors, ReceiveEvent(c) \/ ReceiveHandler(c)
    PROVE  AuthorsOK(c)'
<1>1. AuthorsOK(c) /\ ByWriter(log)
    BY DEF Authors
<1>2. UNCHANGED <<outbox, method, eventDelay>>
    BY HandlerMoves DEF ReceiveEvent, Deliver
<1>3. CASE RemovePopped(c)
    <2>1. globalStack'[c] = Front(globalStack[c]) /\ pc[c] = "remove"
        BY <1>3 DEF RemovePopped, At, TypeOK, HistoryTypes
    <2>2. globalStack[c] \in Seq(Event) /\ globalStack[c] # <<>>
        <3>1. Len(globalStack[c]) > 0
            BY <2>1, OrderIDType DEF TypeOK, HandlerFits, HandlerTypes, HistoryTypes
        <3> QED
            BY <3>1 DEF TypeOK, HistoryTypes
    <2>3. \A i \in 1 .. Len(Front(globalStack[c])) :
              i \in 1 .. Len(globalStack[c]) /\ Front(globalStack[c])[i] = globalStack[c][i]
        BY <2>2, FrontElements
    <2>4. ByWriter(globalStack'[c])
        BY <1>1, <2>1, <2>3 DEF AuthorsOK, ByWriter
    <2> QED
        BY <1>1, <1>2, <2>4 DEF AuthorsOK
<1>4. CASE AppendForeign(c)
    <2>1. globalStack'[c] = Append(globalStack[c], Received(c)) /\ pc[c] = "append"
        BY <1>4 DEF AppendForeign, At, TypeOK, HistoryTypes
    <2>2. Received(c) \in Event /\ globalStack[c] \in Seq(Event) /\ Received(c).user \in Writers
        BY <1>1, <2>1, OrderIDType, ReceivedType DEF TypeOK, HistoryTypes, Received, ByWriter
    <2> QED
        BY <1>1, <1>2, <2>1, <2>2, ByWriterAppend DEF AuthorsOK
<1>5. CASE ~ RemovePopped(c) /\ ~ AppendForeign(c)
    <2>1. globalStack' = globalStack
        BY <1>5, HandlerMoves DEF ReceiveEvent
    <2> QED
        BY <1>1, <1>2, <2>1 DEF AuthorsOK
<1> QED
    BY <1>3, <1>4, <1>5

LEMMA ServiceAuthors ==
    ASSUME TypeOK, NEW c \in Clients, Authors, Service(c)
    PROVE  Authors'
<1>1. /\ log \in Seq(Event) /\ outbox[c] \in Seq(Event) /\ outbox[c] # <<>>
      /\ log' = Append(log, Head(outbox[c])) /\ outbox' = [outbox EXCEPT ![c] = Tail(@)]
    BY DEF Service, Order, TypeOK, ServiceTypes
<1>2. Len(outbox[c]) > 0 /\ Head(outbox[c]) = outbox[c][1] /\ Head(outbox[c]) \in Event
    BY <1>1, EmptySeq
<1>3. Head(outbox[c]).user \in Writers
    BY <1>1, <1>2 DEF Authors, AuthorsOK, ByWriter
<1>4. ByWriter(log')
    BY <1>1, <1>2, <1>3, ByWriterAppend DEF Authors
<1>5. \A i \in 1 .. Len(Tail(outbox[c])) :
          Tail(outbox[c])[i] = outbox[c][i + 1] /\ i + 1 \in 1 .. Len(outbox[c])
    BY <1>1, <1>2
<1>6. ByWriter(outbox[c]) /\ outbox \in [Clients -> Seq(Event)]
    BY DEF Authors, AuthorsOK, TypeOK, ServiceTypes
<1>7. ByWriter(Tail(outbox[c]))
    BY <1>5, <1>6 DEF ByWriter
<1>8. ASSUME NEW d \in Clients PROVE AuthorsOK(d)'
    <2>1. ByWriter(outbox'[d])
        BY <1>1, <1>6, <1>7 DEF Authors, AuthorsOK
    <2> QED
        BY <2>1 DEF Authors, AuthorsOK, Service
<1> QED
    BY <1>4, <1>8 DEF Authors

(* Nothing but the service touches the log.                                 *)
LEMMA OthersKeepLog ==
    ASSUME TypeOK, NEW c \in Clients,
           UserInput(c) \/ MainThread(c) \/ ReceiveEvent(c) \/ ReceiveHandler(c)
    PROVE  log' = log
BY MainThreadKeeps, HandlerMoves DEF ReceiveEvent, Deliver

LEMMA StepAuthors ==
    ASSUME TypeOK, Authors, [Next]_vars
    PROVE  Authors'
<1>1. CASE UNCHANGED vars
    BY <1>1 DEF vars, Authors, AuthorsOK
<1>2. ASSUME NEW c \in Clients,
             UserInput(c) \/ MainThread(c) \/ ReceiveEvent(c) \/ ReceiveHandler(c)
      PROVE  Authors'
    <2>1. AuthorsOK(c)'
        BY <1>2, InputAuthors, MainThreadAuthors, HandlerAuthors DEF Authors
    <2>2. ASSUME NEW d \in Clients, d # c PROVE AuthorsOK(d)'
        <3>1. Untouched(d)
            BY <1>2, <2>2, StepUntouched
        <3> QED
            BY <3>1 DEF Untouched, Authors, AuthorsOK
    <2>3. log' = log
        BY <1>2, OthersKeepLog
    <2> QED
        BY <2>1, <2>2, <2>3 DEF Authors
<1> QED
    BY <1>1, <1>2, ServiceAuthors DEF Next, ClientStep

LEMMA InitAuthors == ASSUME Init PROVE Authors
BY DEF Init, ServiceInit, Authors, AuthorsOK, ByWriter, Free, Holding

(* What a watcher holds.                                                    *)

TailLabel == {"count", "increment", "undoCount", "undoOn", "undoOff", "redoCount", "redoOn", "redoOff"}
WatchLabel == {"idle", "check", "dispatch", "append"} \cup TailLabel

(* Its history is the log as far as it has recorded it, and the blocks on   *)
(* its main queue are the edits it was handed and does not show yet.        *)
WatcherOK(c) ==
    /\ pc[c] \in WatchLabel
    /\ globalStack[c] = SubSeq(log, 1, Recorded(c))
    /\ Shown(c) \in Nat
    /\ alive[c] => \A i \in 1 .. Len(mainQueue[c]) : mainQueue[c][i] = ApplyBlock(log[Shown(c) + i])

WatchInv == Authors /\ \A c \in Watchers : WatcherOK(c)

LEMMA PrefixExtended ==
    ASSUME NEW s \in Seq(Event), NEW n \in Nat, n < Len(s)
    PROVE  Append(SubSeq(s, 1, n), s[n + 1]) = SubSeq(s, 1, n + 1)
<1> DEFINE p == SubSeq(s, 1, n)
           q == SubSeq(s, 1, n + 1)
<1>1. p \in Seq(Event) /\ Len(p) = n /\ \A i \in 1 .. n : p[i] = s[i]
    OBVIOUS
<1>2. q \in Seq(Event) /\ Len(q) = n + 1 /\ \A i \in 1 .. n + 1 : q[i] = s[i]
    OBVIOUS
<1>3. s[n + 1] \in Event
    OBVIOUS
<1> HIDE DEF p, q
<1>4. /\ Append(p, s[n + 1]) \in Seq(Event) /\ Len(Append(p, s[n + 1])) = n + 1
      /\ \A i \in 1 .. n + 1 : Append(p, s[n + 1])[i] = s[i]
    BY <1>1, <1>3
<1>5. Append(p, s[n + 1]) = q
    BY <1>2, <1>4, SeqEqual
<1> QED
    BY <1>5 DEF p, q

LEMMA PrefixOfGrown ==
    ASSUME NEW s \in Seq(Event), NEW e \in Event, NEW n \in Nat, n <= Len(s)
    PROVE  SubSeq(Append(s, e), 1, n) = SubSeq(s, 1, n)
<1> DEFINE p == SubSeq(s, 1, n)
           q == SubSeq(Append(s, e), 1, n)
<1>1. p \in Seq(Event) /\ Len(p) = n /\ \A i \in 1 .. n : p[i] = s[i]
    OBVIOUS
<1>2. /\ Append(s, e) \in Seq(Event) /\ n <= Len(Append(s, e))
      /\ \A i \in 1 .. n : Append(s, e)[i] = s[i]
    OBVIOUS
<1> DEFINE t == Append(s, e)
<1> HIDE DEF t
<1>3. SubSeq(t, 1, n) \in Seq(Event) /\ Len(SubSeq(t, 1, n)) = n
      /\ \A i \in 1 .. n : SubSeq(t, 1, n)[i] = t[i]
    BY <1>2 DEF t
<1>4. SubSeq(t, 1, n) = p
    BY <1>1, <1>2, <1>3, SeqEqual DEF t
<1> QED
    BY <1>4 DEF t

LEMMA WatcherFields ==
    ASSUME TypeOK, NEW c \in Clients, WatcherOK(c)
    PROVE  /\ delivered[c] \in Nat /\ delivered[c] <= Len(log)
           /\ Recorded(c) \in Nat /\ Recorded(c) <= Len(log) /\ Len(globalStack[c]) = Recorded(c)
           /\ Len(mainQueue[c]) \in Nat /\ mainQueue[c] \in Seq(Block) /\ Dispatched(c) \in Nat
           /\ Dispatched(c) <= Len(log)
           /\ log \in Seq(Event)
<1>1. /\ delivered[c] \in Nat /\ delivered[c] <= Len(log) /\ log \in Seq(Event)
      /\ Recorded(c) \in Nat /\ Recorded(c) <= Len(log)
    BY RecordedType DEF TypeOK, ServiceTypes, HandlerFits
<1>2. Len(SubSeq(log, 1, Recorded(c))) = Recorded(c)
    BY <1>1
<1>3. mainQueue[c] \in Seq(Block)
    BY DEF TypeOK, ScreenTypes
<1> QED
    BY <1>1, <1>2, <1>3 DEF WatcherOK, Dispatched

(* A watcher nothing happens to, while the log grows.                       *)
LEMMA WatcherFrame ==
    ASSUME TypeOK, [Next]_vars, NEW d \in Clients, WatcherOK(d),
           delivered'[d] = delivered[d], pc'[d] = pc[d], globalStack'[d] = globalStack[d],
           mainQueue'[d] = mainQueue[d], alive'[d] = alive[d],
           log' = log \/ \E e \in Event : log' = Append(log, e)
    PROVE  WatcherOK(d)' /\ Shown(d)' = Shown(d)
<1>1. log \in Seq(Event) /\ LogKept
    BY WatcherFields, RecordedGrows
<1>2. Recorded(d)' = Recorded(d) /\ Dispatched(d)' = Dispatched(d) /\ Shown(d)' = Shown(d)
    BY DEF Recorded, Deciding, Dispatched, Shown
<1>3. SubSeq(log', 1, Recorded(d)) = SubSeq(log, 1, Recorded(d))
    BY <1>1, WatcherFields, PrefixOfGrown
<1>4. ASSUME alive[d], NEW i \in 1 .. Len(mainQueue[d])
      PROVE  mainQueue[d][i] = ApplyBlock(log'[Shown(d) + i])
    <2> DEFINE n == Len(mainQueue[d])
               s == Shown(d)
               m == Dispatched(d)
    <2>1. m \in Nat /\ n \in Nat /\ s \in Nat /\ m <= Len(log) /\ s = m - n
        BY <1>4, WatcherFields DEF WatcherOK, Shown
    <2>2. mainQueue[d][i] = ApplyBlock(log[s + i])
        BY <1>4 DEF WatcherOK
    <2>3. Len(log) \in Nat /\ i \in 1 .. n
        BY <1>1
    <2> HIDE DEF n, s, m
    <2>4. s + i \in 1 .. Len(log)
        BY <2>1, <2>3
    <2> QED
        BY <1>1, <2>2, <2>4 DEF LogKept, s
<1> QED
    BY <1>2, <1>3, <1>4 DEF WatcherOK

-----------------------------------------------------------------------------
HandsForeign(c) == pc[c] # "idle" => Received(c).user # c

(* A watcher does nothing of its own accord, and nothing it receives is its *)
(* own.                                                                     *)
LEMMA WatcherPassive ==
    ASSUME TypeOK, Authors, NEW c \in Watchers
    PROVE  /\ ~ UserInput(c) /\ ~ TimerFires(c) /\ ~ ContinueMethod(c)
           /\ HandsForeign(c)
<1>1. c \in Clients /\ c \notin Writers
    BY DEF Watchers
<1>2. ~ eventDelay[c] /\ method[c].step = "free"
    BY <1>1 DEF Authors, AuthorsOK
<1>3. ~ UserInput(c)
    BY <1>1 DEF UserInput, FlushBurst, TypeText, DeleteText, RefuseBackspace, KeyPressed, MoveCursor,
                Undo, Redo, StartReversal, Input
<1>4. ~ TimerFires(c) /\ ~ ContinueMethod(c)
    BY <1>2 DEF TimerFires, TimerDue, ContinueMethod, Doing, ReadOrderID, WriteOrderID, RecordBurst,
                ResumeKey, RemoveID, FindEvent, MeasureHistory, ShiftReversal, SetTrigger,
                SendReversal, ApplyReversal, TestStack, DisableButton, EnableButton
<1>5. pc[c] # "idle" => Received(c).user \in Writers
    BY <1>1, OrderIDType DEF Authors, ByWriter, Received
<1> QED
    BY <1>1, <1>3, <1>4, <1>5 DEF HandsForeign

(* A watcher's handler goes on, and hands nothing to the main queue.        *)
LEMMA WatcherKept ==
    ASSUME NEW c \in Clients, WatcherOK(c), log' = log, alive'[c] = alive[c],
           mainQueue'[c] = mainQueue[c], Dispatched(c)' = Dispatched(c), pc'[c] \in WatchLabel,
           globalStack'[c] = SubSeq(log, 1, Recorded(c)')
    PROVE  WatcherOK(c)' /\ Shown(c)' = Shown(c)
<1>1. Shown(c)' = Shown(c)
    BY DEF Shown
<1> QED
    BY <1>1 DEF WatcherOK

LEMMA WatcherChecks ==
    ASSUME TypeOK, NEW c \in Clients, WatcherOK(c), ReceiveEvent(c) \/ CheckConflict(c)
    PROVE  WatcherOK(c)' /\ Shown(c)' = Shown(c)
<1>1. log' = log /\ UNCHANGED <<alive, mainQueue, globalStack>>
    BY DEF ReceiveEvent, Deliver, CheckConflict
<1>2. CASE ReceiveEvent(c)
    <2>1. pc[c] = "idle" /\ pc'[c] = "check" /\ delivered'[c] = delivered[c] + 1
        BY <1>1, <1>2 DEF ReceiveEvent, Deliver, At, Goto, TypeOK, HandlerTypes, ServiceTypes
    <2>2. delivered[c] \in Nat
        BY <1>1 DEF TypeOK, ServiceTypes
    <2>3. Recorded(c)' = Recorded(c) /\ Dispatched(c)' = Dispatched(c)
        BY <2>1, <2>2 DEF Recorded, Deciding, Dispatched
    <2> QED
        BY <1>1, <2>1, <2>3, WatcherKept DEF WatcherOK, WatchLabel
<1>3. CASE CheckConflict(c)
    <2>1. pc[c] = "check" /\ delivered' = delivered
        BY <1>3 DEF CheckConflict, At
    <2>2. ~ Conflict(c)
        <3>1. Len(globalStack[c]) = OrderID(c)
            BY <2>1, WatcherFields DEF Recorded, Deciding, OrderID
        <3>2. OrderID(c) \in Nat
            BY <1>1, <2>1, OrderIDType
        <3> QED
            BY <3>1, <3>2 DEF Conflict
    <2>3. pc'[c] = "dispatch"
        BY <1>1, <1>3, <2>2 DEF CheckConflict, Goto, TypeOK, HandlerTypes
    <2>4. Recorded(c)' = Recorded(c) /\ Dispatched(c)' = Dispatched(c)
        BY <2>1, <2>3 DEF Recorded, Deciding, Dispatched
    <2> QED
        BY <1>1, <2>3, <2>4, WatcherKept DEF WatcherOK, WatchLabel
<1> QED
    BY <1>2, <1>3

(* After the event is in the history a handler only counts, on labels of    *)
(* its own.                                                                 *)
Counts(c) ==
    \/ CountReceived(c) \/ AdvanceOrderID(c) \/ CountUndoStack(c) \/ SetUndoButton(c)
    \/ CountRedoStack(c) \/ SetRedoButton(c)

LEMMA CountsFrame ==
    ASSUME TypeOK, NEW c \in Clients, Counts(c)
    PROVE  /\ UNCHANGED <<log, outbox, delivered, alive, text, mainQueue, globalStack, method,
                          undo_trigger, redo_trigger>>
           /\ pc[c] \in TailLabel /\ pc'[c] \in TailLabel \cup {"idle"}
           /\ tempStack'[c] = tempStack[c] \/ tempStack'[c] = <<>>
           /\ Recorded(c)' = Recorded(c)
<1>1. pc \in [Clients -> Label] /\ tempStack \in [Clients -> Seq(Event)]
    BY DEF TypeOK, HandlerTypes
<1>2. CASE CountReceived(c) \/ AdvanceOrderID(c) \/ CountUndoStack(c) \/ CountRedoStack(c)
    BY <1>1, <1>2 DEF CountReceived, AdvanceOrderID, CountUndoStack, CountRedoStack, At, Goto,
                      TailLabel, Recorded, Deciding
<1>3. CASE SetUndoButton(c) \/ SetRedoButton(c)
    BY <1>1, <1>3 DEF SetUndoButton, SetRedoButton, Goto, TailLabel, Recorded, Deciding
<1> QED
    BY <1>2, <1>3 DEF Counts

LEMMA WatcherCounts ==
    ASSUME TypeOK, NEW c \in Clients, WatcherOK(c), Counts(c)
    PROVE  WatcherOK(c)' /\ Shown(c)' = Shown(c)
<1>1. Dispatched(c)' = Dispatched(c)
    BY CountsFrame DEF Dispatched, TailLabel
<1> QED
    BY <1>1, CountsFrame, WatcherKept DEF WatcherOK, WatchLabel

(* The history becomes the log one event further.                           *)
LEMMA WatcherAppends ==
    ASSUME TypeOK, NEW c \in Clients, WatcherOK(c), AppendForeign(c)
    PROVE  WatcherOK(c)' /\ Shown(c)' = Shown(c)
<1>1. /\ log' = log /\ UNCHANGED <<alive, mainQueue, delivered>>
      /\ pc[c] = "append" /\ pc'[c] = "count"
      /\ globalStack'[c] = Append(globalStack[c], Received(c))
    BY DEF AppendForeign, At, Goto, TypeOK, HandlerTypes, HistoryTypes
<1> DEFINE n == OrderID(c)
<1>2. n \in Nat /\ n + 1 = delivered[c] /\ n < Len(log) /\ log \in Seq(Event)
    BY <1>1, OrderIDType, WatcherFields
<1>3. Recorded(c) = n /\ Recorded(c)' = n + 1
    BY <1>1, <1>2 DEF Recorded, Deciding, OrderID
<1>4. globalStack[c] = SubSeq(log, 1, n) /\ Received(c) = log[n + 1]
    BY <1>2, <1>3 DEF WatcherOK, Received
<1>5. Dispatched(c)' = Dispatched(c)
    BY <1>1 DEF Dispatched, Recorded, Deciding
<1> HIDE DEF n
<1>6. Append(SubSeq(log, 1, n), log[n + 1]) = SubSeq(log, 1, n + 1)
    BY <1>2, PrefixExtended
<1> QED
    BY <1>1, <1>3, <1>4, <1>5, <1>6, WatcherKept DEF WatchLabel, TailLabel

(* The received event is put on the main queue.                             *)
LEMMA WatcherDispatches ==
    ASSUME TypeOK, NEW c \in Clients, WatcherOK(c), DispatchForeign(c)
    PROVE  WatcherOK(c)' /\ Shown(c)' = Shown(c)
<1> DEFINE q == mainQueue[c]
           k == Len(q)
           s == Shown(c)
           n == OrderID(c)
           b == ApplyBlock(Received(c))
<1>1. /\ log' = log /\ UNCHANGED <<alive, globalStack, delivered>>
      /\ alive[c] /\ pc[c] = "dispatch" /\ pc'[c] = "append"
      /\ mainQueue'[c] = Append(q, b)
    BY DEF DispatchForeign, Dispatch, At, Goto, TypeOK, HandlerTypes, ScreenTypes
<1>2. n \in Nat /\ n + 1 = delivered[c]
    BY <1>1, OrderIDType
<1>3. Recorded(c) = n /\ Recorded(c)' = n /\ Dispatched(c) = n /\ Dispatched(c)' = n + 1
    BY <1>1, <1>2 DEF Recorded, Deciding, Dispatched, OrderID
<1>4. q \in Seq(Block) /\ k \in Nat /\ b \in Block
    BY <1>1, WatcherFields, ReceivedType, ApplyBlockType
<1>5. /\ Len(mainQueue'[c]) = k + 1 /\ mainQueue'[c][k + 1] = b
      /\ \A i \in 1 .. k : mainQueue'[c][i] = q[i]
    BY <1>1, <1>4
<1>6. s = n - k
    BY <1>1, <1>2, <1>3, <1>4 DEF Shown
<1>7. Shown(c)' = (n + 1) - (k + 1)
    <2>1. Shown(c)' = Dispatched(c)' - Len(mainQueue'[c]) - 0
        BY <1>1 DEF Shown
    <2>2. Dispatched(c)' = n + 1 /\ Len(mainQueue'[c]) = k + 1
        BY <1>3, <1>5
    <2> HIDE DEF n, k
    <2> QED
        BY <1>2, <1>4, <2>1, <2>2
<1>8. s \in Nat /\ \A i \in 1 .. k : q[i] = ApplyBlock(log[s + i])
    BY <1>1 DEF WatcherOK
<1>9. b = ApplyBlock(log[n + 1])
    BY <1>2 DEF Received
<1> HIDE DEF q, k, s, n, b
<1>10. Shown(c)' = s /\ n + 1 = s + (k + 1)
    BY <1>2, <1>4, <1>6, <1>7
<1>11. ASSUME NEW i \in 1 .. k + 1 PROVE mainQueue'[c][i] = ApplyBlock(log[s + i])
    <2>1. CASE i \in 1 .. k
        BY <1>5, <1>8, <2>1
    <2>2. CASE i = k + 1
        BY <1>5, <1>9, <1>10, <2>2
    <2> QED
        BY <1>4, <2>1, <2>2
<1>12. globalStack'[c] = SubSeq(log', 1, Recorded(c)') /\ pc'[c] \in WatchLabel
    BY <1>1, <1>3 DEF WatcherOK, WatchLabel
<1> QED
    BY <1>1, <1>5, <1>8, <1>10, <1>11, <1>12 DEF WatcherOK, s

LEMMA WatcherHandles ==
    ASSUME TypeOK, NEW c \in Clients, WatcherOK(c), HandsForeign(c), ReceiveEvent(c) \/ ReceiveHandler(c)
    PROVE  /\ WatcherOK(c)' /\ Shown(c)' = Shown(c)
           /\ UNCHANGED <<log, alive, text>>
<1>1. pc[c] \in WatchLabel /\ (pc[c] # "idle" => Received(c).user # c)
    BY DEF WatcherOK, HandsForeign
<1>2. /\ ~ PopConflict(c) /\ ~ SavePopped(c) /\ ~ RemovePopped(c) /\ ~ DropPopped(c)
      /\ ~ RouteRedone(c) /\ ~ RecordOwn(c) /\ ~ ClearTrigger(c)
    BY <1>1 DEF PopConflict, SavePopped, RemovePopped, DropPopped, RouteRedone, RecordOwn,
                ClearTrigger, At, WatchLabel, TailLabel
<1>3. ~ DispatchPopped(c) /\ ~ RouteOwn(c)
    BY <1>1 DEF DispatchPopped, RouteOwn, At
<1>4. UNCHANGED <<log, alive, text>>
    BY HandlerMoves DEF ReceiveEvent, Deliver
<1> QED
    BY <1>2, <1>3, <1>4, WatcherChecks, WatcherDispatches, WatcherAppends, WatcherCounts
       DEF ReceiveHandler, Counts

(* The block at the head of a watcher's main queue is the edit that is next *)
(* for its screen.                                                          *)
LEMMA WatcherRuns ==
    ASSUME TypeOK, NEW c \in Clients, WatcherOK(c), RunBlock(c)
    PROVE  /\ WatcherOK(c)' /\ log' = log
           /\ alive[c] /\ Shown(c) < Len(log)
           /\ LET e == log[Shown(c) + 1]
              IN  IF InText(text[c], e)
                  THEN /\ Shown(c)' = Shown(c) + 1 /\ alive' = alive
                       /\ text'[c] = ApplyEvent(text[c], e)
                  ELSE /\ Shown(c)' = Shown(c) /\ alive'[c] = FALSE
                       /\ text' = text
<1> DEFINE q == mainQueue[c]
           k == Len(q)
           s == Shown(c)
           m == Dispatched(c)
           e == log[s + 1]
<1>1. /\ log' = log /\ UNCHANGED <<globalStack, delivered, pc>>
      /\ alive[c] /\ q # <<>> /\ mainQueue'[c] = Tail(q)
    BY DEF RunBlock, Responsive, TypeOK, ScreenTypes
<1>2. q \in Seq(Block) /\ k \in Nat /\ k > 0 /\ m \in Nat /\ m <= Len(log) /\ Len(log) \in Nat
    BY <1>1, WatcherFields, EmptySeq
<1>3. s = m - k /\ s \in Nat /\ \A i \in 1 .. k : q[i] = ApplyBlock(log[s + i])
    BY <1>1, <1>2 DEF Shown, WatcherOK
<1>4. /\ Head(q) = q[1] /\ Len(Tail(q)) = k - 1
      /\ \A i \in 1 .. k - 1 : Tail(q)[i] = q[i + 1]
    BY <1>1, <1>2
<1>5. Head(q) = ApplyBlock(e)
    BY <1>2, <1>3, <1>4
<1>6. ~ FindsNil(c, Head(q)) /\ BlockEvent(c, Head(q)) = e
    BY <1>5 DEF FindsNil, BlockEvent, ApplyBlock
<1>7. Recorded(c)' = Recorded(c) /\ Dispatched(c)' = m
    BY <1>1 DEF Recorded, Deciding, Dispatched
<1>8. /\ InText(text[c], e) => alive' = alive /\ text'[c] = ApplyEvent(text[c], e)
      /\ ~ InText(text[c], e) => alive'[c] = FALSE /\ text' = text
    <2>1. CASE InText(text[c], e)
        BY <1>1, <1>6, <2>1 DEF RunBlock, Display, TypeOK, ScreenTypes
    <2>2. CASE ~ InText(text[c], e)
        BY <1>1, <1>6, <2>2 DEF RunBlock, Crash, TypeOK, OtherTypes
    <2> QED
        BY <2>1, <2>2
<1>9. Shown(c)' = m - (k - 1) - (IF alive'[c] THEN 0 ELSE 1)
    BY <1>1, <1>4, <1>7 DEF Shown
<1> HIDE DEF k, s, m
<1>10. s < Len(log)
    BY <1>2, <1>3
<1>11. /\ InText(text[c], e) => Shown(c)' = s + 1
       /\ ~ InText(text[c], e) => Shown(c)' = s
    BY <1>1, <1>2, <1>3, <1>8, <1>9
<1>12. ASSUME InText(text[c], e), NEW i \in 1 .. k - 1
       PROVE  Tail(q)[i] = ApplyBlock(log[(s + 1) + i])
    <2>1. i + 1 \in 1 .. k /\ s + (i + 1) = (s + 1) + i
        BY <1>2, <1>3
    <2>2. Tail(q)[i] = q[i + 1]
        BY <1>4
    <2>3. q[i + 1] = ApplyBlock(log[s + (i + 1)])
        BY <1>3, <2>1
    <2> QED
        BY <2>1, <2>2, <2>3
<1>13. WatcherOK(c)'
    <2>1. pc'[c] \in WatchLabel /\ globalStack'[c] = SubSeq(log', 1, Recorded(c)')
        BY <1>1, <1>7 DEF WatcherOK
    <2>2. Shown(c)' \in Nat
        BY <1>3, <1>11
    <2>3. alive'[c] => \A i \in 1 .. Len(mainQueue'[c]) :
                           mainQueue'[c][i] = ApplyBlock(log'[Shown(c)' + i])
        BY <1>1, <1>4, <1>8, <1>11, <1>12
    <2> QED
        BY <2>1, <2>2, <2>3 DEF WatcherOK
<1> QED
    BY <1>1, <1>8, <1>10, <1>11, <1>13 DEF s

-----------------------------------------------------------------------------
(* The invariant, step by step.                                             *)
SameScreen(d) == Shown(d)' = Shown(d) /\ text'[d] = text[d] /\ alive'[d] = alive[d]

LEMMA UntouchedWatcher ==
    ASSUME TypeOK, [Next]_vars, NEW d \in Clients, WatcherOK(d), Untouched(d), log' = log
    PROVE  WatcherOK(d)' /\ SameScreen(d)
<1>1. /\ delivered'[d] = delivered[d] /\ pc'[d] = pc[d] /\ globalStack'[d] = globalStack[d]
      /\ mainQueue'[d] = mainQueue[d] /\ alive'[d] = alive[d] /\ text'[d] = text[d]
    BY DEF Untouched
<1>2. WatcherOK(d)' /\ Shown(d)' = Shown(d)
    BY <1>1, WatcherFrame
<1> QED
    BY <1>1, <1>2 DEF SameScreen

LEMMA OthersWatch ==
    ASSUME TypeOK, WatchInv, [Next]_vars, NEW c \in Clients,
           UserInput(c) \/ MainThread(c) \/ ReceiveEvent(c) \/ ReceiveHandler(c)
    PROVE  log' = log /\ \A d \in Watchers \ {c} : WatcherOK(d)' /\ SameScreen(d)
<1>1. ASSUME NEW d \in Clients, d # c PROVE Untouched(d) /\ log' = log
    BY <1>1, StepUntouched
<1>2. log' = log
    BY OthersKeepLog
<1>3. ASSUME NEW d \in Watchers, d # c PROVE WatcherOK(d)' /\ SameScreen(d)
    <2>1. d \in Clients /\ WatcherOK(d)
        BY DEF Watchers, WatchInv
    <2> QED
        BY <1>1, <1>3, <2>1, UntouchedWatcher
<1> QED
    BY <1>2, <1>3

LEMMA ServiceWatch ==
    ASSUME TypeOK, WatchInv, NEW c \in Clients, Service(c)
    PROVE  /\ \A d \in Watchers : WatcherOK(d)' /\ SameScreen(d)
           /\ \E e \in Event : log' = Append(log, e)
<1>1. /\ log \in Seq(Event) /\ outbox[c] \in Seq(Event) /\ outbox[c] # <<>>
      /\ log' = Append(log, Head(outbox[c]))
      /\ UNCHANGED <<delivered, pc, globalStack, mainQueue, alive, text>>
    BY DEF Service, Order, TypeOK, ServiceTypes
<1>2. Head(outbox[c]) \in Event
    BY <1>1, HeadTailProperties
<1>3. \E e \in Event : log' = Append(log, e)
    BY <1>1, <1>2
<1>4. [Next]_vars
    BY DEF Next, ClientStep
<1>5. ASSUME NEW d \in Watchers PROVE WatcherOK(d)' /\ SameScreen(d)
    BY <1>1, <1>3, <1>4, WatcherFrame DEF WatchInv, SameScreen, Watchers
<1> QED
    BY <1>3, <1>5

-----------------------------------------------------------------------------
(* The refinement, step by step.                                            *)
LEMMA SameScreens ==
    ASSUME log' = log, \A d \in Watchers : SameScreen(d)
    PROVE  UNCHANGED Shared!vars
BY DEF Shared!vars, SameScreen

LEMMA SharedGrows ==
    ASSUME log \in Seq(Event), NEW e \in Event, log' = Append(log, e),
           \A d \in Watchers : SameScreen(d)
    PROVE  Shared!Publish
<1>1. Len(log) \in Nat /\ Len(log') = Len(log) + 1
    OBVIOUS
<1>2. SubSeq(log', 1, Len(log)) = SubSeq(log, 1, Len(log))
    BY <1>1, PrefixOfGrown
<1>3. SubSeq(log, 1, Len(log)) = log
    <2> DEFINE p == SubSeq(log, 1, Len(log))
    <2>1. p \in Seq(Event) /\ Len(p) = Len(log) /\ \A i \in 1 .. Len(log) : p[i] = log[i]
        OBVIOUS
    <2> HIDE DEF p
    <2>2. p = log
        BY <2>1, SeqEqual
    <2> QED
        BY <2>2 DEF p
<1> QED
    BY <1>1, <1>2, <1>3 DEF Shared!Publish, SameScreen

LEMMA SharedRuns ==
    ASSUME TypeOK, WatchInv, NEW c \in Watchers, RunBlock(c),
           \A d \in Watchers \ {c} : SameScreen(d)
    PROVE  Shared!Show(c) \/ Shared!Stop(c)
<1> DEFINE e == log[Shown(c) + 1]
<1>1. WatcherOK(c) /\ c \in Clients
    BY DEF WatchInv, Watchers
<1>2. log' = log /\ alive[c] /\ Shown(c) < Len(log)
    BY <1>1, WatcherRuns
<1>3. CASE InText(text[c], e)
    <2>1. Shown(c)' = Shown(c) + 1 /\ alive' = alive /\ text'[c] = ApplyEvent(text[c], e)
        BY <1>1, <1>3, WatcherRuns
    <2>2. Shared!NextEdit(c) = e
        BY DEF Shared!NextEdit
    <2>3. Shared!Behind(c)
        BY <1>2 DEF Shared!Behind
    <2> HIDE DEF e
    <2>4. Shared!InText(text[c], e) /\ Shared!ApplyEvent(text[c], e) = ApplyEvent(text[c], e)
        BY <1>3 DEF Shared!InText, InText, Shared!ApplyEvent, ApplyEvent,
                    Shared!INSERT, INSERT, Shared!REMOVE, REMOVE
    <2>5. [d \in Watchers |-> Shown(d)'] = [[d \in Watchers |-> Shown(d)] EXCEPT ![c] = @ + 1]
        BY <2>1 DEF SameScreen
    <2>6. [d \in Watchers |-> text'[d]]
            = [[d \in Watchers |-> text[d]] EXCEPT ![c] = Shared!ApplyEvent(@, e)]
        BY <2>1, <2>4 DEF SameScreen
    <2>7. [d \in Watchers |-> alive'[d]] = [d \in Watchers |-> alive[d]]
        BY <2>1
    <2> QED
        BY <1>2, <2>2, <2>3, <2>4, <2>5, <2>6, <2>7 DEF Shared!Show
<1>4. CASE ~ InText(text[c], e)
    <2>1. Shown(c)' = Shown(c) /\ alive'[c] = FALSE /\ text' = text
        BY <1>1, <1>4, WatcherRuns
    <2>2. Shared!NextEdit(c) = e
        BY DEF Shared!NextEdit
    <2>3. Shared!Behind(c)
        BY <1>2 DEF Shared!Behind
    <2> HIDE DEF e
    <2>4. ~ Shared!InText(text[c], e)
        BY <1>4 DEF Shared!InText, InText, Shared!REMOVE, REMOVE
    <2>5. [d \in Watchers |-> Shown(d)'] = [d \in Watchers |-> Shown(d)]
        BY <2>1 DEF SameScreen
    <2>6. [d \in Watchers |-> alive'[d]] = [[d \in Watchers |-> alive[d]] EXCEPT ![c] = FALSE]
        BY <2>1 DEF SameScreen
    <2> QED
        BY <1>2, <2>1, <2>2, <2>3, <2>4, <2>5, <2>6 DEF Shared!Stop
<1> QED
    BY <1>3, <1>4

LEMMA StepWatch ==
    ASSUME TypeOK, WatchInv, [Next]_vars
    PROVE  WatchInv' /\ [Shared!Next]_(Shared!vars)
<1>1. Authors'
    BY StepAuthors DEF WatchInv
<1>2. CASE UNCHANGED vars
    <2>1. ASSUME NEW d \in Watchers PROVE WatcherOK(d)' /\ SameScreen(d)
        BY <1>2, <2>1, WatcherFrame DEF vars, WatchInv, SameScreen, Watchers
    <2>2. UNCHANGED Shared!vars
        BY <1>2, <2>1, SameScreens DEF vars
    <2> QED
        BY <1>1, <2>1, <2>2 DEF WatchInv
<1>3. ASSUME NEW c \in Clients, Service(c)
      PROVE  WatchInv' /\ [Shared!Next]_(Shared!vars)
    <2>1. /\ \A d \in Watchers : WatcherOK(d)' /\ SameScreen(d)
          /\ \E e \in Event : log' = Append(log, e)
        BY <1>3, ServiceWatch
    <2>2. Shared!Publish
        BY <2>1, SharedGrows DEF TypeOK, ServiceTypes
    <2> QED
        BY <1>1, <2>1, <2>2 DEF WatchInv, Shared!Next
<1>4. ASSUME NEW c \in Clients,
             UserInput(c) \/ MainThread(c) \/ ReceiveEvent(c) \/ ReceiveHandler(c)
      PROVE  WatchInv' /\ [Shared!Next]_(Shared!vars)
    <2>1. log' = log /\ \A d \in Watchers \ {c} : WatcherOK(d)' /\ SameScreen(d)
        BY <1>4, OthersWatch
    <2>2. CASE c \notin Watchers
        <3>1. \A d \in Watchers : WatcherOK(d)' /\ SameScreen(d)
            BY <2>1, <2>2
        <3>2. UNCHANGED Shared!vars
            BY <2>1, <3>1, SameScreens
        <3> QED
            BY <1>1, <3>1, <3>2 DEF WatchInv
    <2>3. CASE c \in Watchers /\ RunBlock(c)
        <3>1. Shared!Show(c) \/ Shared!Stop(c)
            BY <2>1, <2>3, SharedRuns
        <3>2. WatcherOK(c)'
            BY <2>3, WatcherRuns DEF WatchInv, Watchers
        <3> QED
            BY <1>1, <2>1, <2>3, <3>1, <3>2 DEF WatchInv, Shared!Next
    <2>4. CASE c \in Watchers /\ ~ RunBlock(c)
        <3>1. ReceiveEvent(c) \/ ReceiveHandler(c)
            BY <1>4, <2>4, WatcherPassive DEF WatchInv, MainThread
        <3>2. WatcherOK(c)' /\ Shown(c)' = Shown(c) /\ UNCHANGED <<alive, text>>
            BY <2>4, <3>1, WatcherHandles, WatcherPassive DEF WatchInv, Watchers
        <3>3. SameScreen(c)
            BY <3>2 DEF SameScreen
        <3>4. UNCHANGED Shared!vars
            BY <2>1, <3>3, SameScreens
        <3> QED
            BY <1>1, <2>1, <3>2, <3>4 DEF WatchInv
    <2> QED
        BY <2>2, <2>3, <2>4
<1> QED
    BY <1>2, <1>3, <1>4 DEF Next, ClientStep

LEMMA InitScreens ==
    ASSUME Init, NEW c \in Clients
    PROVE  WatcherOK(c) /\ Shown(c) = 0 /\ text[c] = <<>> /\ alive[c] = TRUE
<1>1. /\ pc[c] = "idle" /\ delivered[c] = 0 /\ mainQueue[c] = <<>> /\ alive[c] = TRUE
      /\ globalStack[c] = <<>> /\ log = <<>> /\ text[c] = <<>>
    BY DEF Init, ServiceInit
<1>2. Recorded(c) = 0 /\ Dispatched(c) = 0
    BY <1>1 DEF Recorded, Deciding, Dispatched
<1>3. Len(mainQueue[c]) = 0
    BY <1>1
<1>4. Shown(c) = 0
    <2>1. Shown(c) = Dispatched(c) - Len(mainQueue[c]) - 0
        BY <1>1 DEF Shown
    <2>2. Shown(c) = 0 - 0 - 0
        BY <1>2, <1>3, <2>1, Zenon
    <2> QED
        BY <2>2
<1>5. SubSeq(log, 1, 0) = <<>>
    BY <1>1
<1> QED
    BY <1>1, <1>2, <1>3, <1>4, <1>5 DEF WatcherOK, WatchLabel

LEMMA InitWatch == ASSUME Init PROVE WatchInv /\ Shared!Init
<1>1. log = <<>> /\ Watchers \subseteq Clients
    BY DEF Init, ServiceInit, Watchers
<1> QED
    BY <1>1, InitScreens, InitAuthors DEF WatchInv, Shared!Init

(* Whatever any number of writers do and however threads interleave, the    *)
(* clients that only watch implement SharedText: each screen shows a prefix *)
(* of the service's log, edit by edit, and the program stops only at an     *)
(* edit outside its text (ViewController.mm:262-310, 409-452).              *)
THEOREM WatchersShareLog == Spec => Shared!Spec
<1>1. Init => WatchInv /\ Shared!Init
    BY InitWatch
<1>2. TypeOK /\ WatchInv /\ [Next]_vars => WatchInv' /\ [Shared!Next]_(Shared!vars)
    BY StepWatch
<1> QED
    BY <1>1, <1>2, TypeCorrect, PTL DEF Spec, Shared!Spec

-----------------------------------------------------------------------------
(* One user types, and the service accepts what is broadcast.               *)

Accepted == BroadcastOutcomes = {TRUE}

OneWriter == (\A c, d \in Writers : c = d) /\ Accepted

SoloLabel == {"idle", "check", "dispatch", "route", "undone", "redone", "typed", "clearUndo",
              "clearRedo"} \cup TailLabel

(* The writer's handler never leaves the branch for an own event in its     *)
(* place, and what it typed is in the log or still in the outbox.           *)
WriterOK(c) ==
    /\ pc[c] \in SoloLabel
    /\ tempStack[c] = <<>>
    /\ alive[c] => globalStack[c] \o Unrecorded(c) = log \o outbox[c]

SoloInv ==
    /\ WatchInv
    /\ \A c \in Writers : WriterOK(c)
    /\ \A c \in Watchers : outbox[c] = <<>>

LEMMA ConcatAppend ==
    ASSUME NEW s \in Seq(Event), NEW t \in Seq(Event), NEW e \in Event
    PROVE  Append(s \o t, e) = s \o Append(t, e)
OBVIOUS

LEMMA ConcatElements ==
    ASSUME NEW s \in Seq(Event), NEW t \in Seq(Event)
    PROVE  /\ s \o t \in Seq(Event) /\ Len(s \o t) = Len(s) + Len(t)
           /\ \A i \in 1 .. Len(s \o t) : (s \o t)[i] = IF i <= Len(s) THEN s[i] ELSE t[i - Len(s)]
OBVIOUS

LEMMA ConcatMoved ==
    ASSUME NEW s \in Seq(Event), NEW t \in Seq(Event), t # <<>>
    PROVE  Append(s, Head(t)) \o Tail(t) = s \o t
<1> DEFINE h == Head(t)
           u == Tail(t)
           l == Append(s, h) \o u
           r == s \o t
<1>1. Len(t) > 0 /\ Len(t) \in Nat /\ Len(s) \in Nat
    BY EmptySeq
<1>2. /\ h \in Event /\ h = t[1] /\ u \in Seq(Event) /\ Len(u) = Len(t) - 1
      /\ \A i \in 1 .. Len(u) : u[i] = t[i + 1]
    BY <1>1
<1>3. /\ r \in Seq(Event) /\ Len(r) = Len(s) + Len(t)
      /\ \A i \in 1 .. Len(r) : r[i] = IF i <= Len(s) THEN s[i] ELSE t[i - Len(s)]
    BY ConcatElements
<1> HIDE DEF h, u
<1> DEFINE a == Append(s, h)
<1>4. /\ a \in Seq(Event) /\ Len(a) = Len(s) + 1 /\ a[Len(s) + 1] = h
      /\ \A i \in 1 .. Len(s) : a[i] = s[i]
    BY <1>1, <1>2
<1> HIDE DEF a
<1>5. /\ a \o u \in Seq(Event) /\ Len(a \o u) = Len(a) + Len(u)
      /\ \A i \in 1 .. Len(a \o u) : (a \o u)[i] = IF i <= Len(a) THEN a[i] ELSE u[i - Len(a)]
    BY <1>2, <1>4, ConcatElements
<1> DEFINE b == a \o u
<1>6. b \in Seq(Event) /\ Len(b) = Len(s) + Len(t)
    BY <1>1, <1>2, <1>4, <1>5
<1>7. ASSUME NEW i \in 1 .. Len(b) PROVE b[i] = r[i]
    <2>1. CASE i <= Len(s)
        <3>1. i <= Len(a) /\ i \in 1 .. Len(s)
            BY <1>1, <1>4, <2>1
        <3>2. b[i] = a[i] /\ a[i] = s[i]
            BY <1>4, <1>5, <3>1
        <3> QED
            BY <1>3, <1>6, <2>1, <3>2
    <2>2. CASE i = Len(s) + 1
        <3>1. b[i] = t[1] /\ i - Len(s) = 1 /\ ~ (i <= Len(s))
            BY <1>1, <1>2, <1>4, <1>5, <2>2
        <3> QED
            BY <1>3, <1>6, <3>1
    <2>3. CASE i > Len(s) + 1
        <3> DEFINE j == i - Len(a)
        <3>1. j \in 1 .. Len(u) /\ j + 1 = i - Len(s) /\ ~ (i <= Len(a)) /\ ~ (i <= Len(s))
            BY <1>1, <1>2, <1>4, <1>6, <2>3
        <3>2. b[i] = u[j]
            BY <1>5, <3>1
        <3> HIDE DEF j
        <3>3. b[i] = t[i - Len(s)]
            BY <1>2, <3>1, <3>2
        <3> QED
            BY <1>3, <1>6, <3>1, <3>3
    <2> QED
        BY <1>1, <1>6, <2>1, <2>2, <2>3
<1> HIDE DEF b, r
<1>8. b = r
    BY <1>3, <1>6, <1>7, SeqEqual
<1> QED
    BY <1>8 DEF a, b, r, h, u

(* What a method sends it holds until it is in the history.                 *)
Sends(c) ==
    \E e \in Event : /\ globalStack'[c] = globalStack[c] /\ outbox'[c] = Append(outbox[c], e)
                     /\ Unrecorded(c) = <<>> /\ Unrecorded(c)' = <<e>>

Records(c) ==
    \E e \in Event : /\ globalStack'[c] = Append(globalStack[c], e) /\ outbox'[c] = outbox[c]
                     /\ Unrecorded(c) = <<e>> /\ Unrecorded(c)' = <<>>

Neither(c) ==
    /\ globalStack'[c] = globalStack[c] /\ outbox'[c] = outbox[c]
    /\ Unrecorded(c)' = Unrecorded(c)

LEMMA WriterKept ==
    ASSUME TypeOK, NEW c \in Clients, WriterOK(c), log' = log,
           pc'[c] \in SoloLabel, tempStack'[c] = <<>>, alive'[c] => alive[c],
           alive'[c] => Neither(c) \/ Sends(c) \/ Records(c)
    PROVE  WriterOK(c)'
<1>1. log \in Seq(Event) /\ outbox[c] \in Seq(Event) /\ globalStack[c] \in Seq(Event)
    BY DEF TypeOK, ServiceTypes, HistoryTypes
<1>2. ASSUME alive'[c] PROVE globalStack'[c] \o Unrecorded(c)' = log \o outbox'[c]
    <2>1. globalStack[c] \o Unrecorded(c) = log \o outbox[c]
        BY <1>2 DEF WriterOK
    <2>2. CASE Neither(c)
        BY <2>1, <2>2 DEF Neither
    <2>3. CASE Sends(c)
        <3>1. PICK e \in Event :
                 /\ globalStack'[c] = globalStack[c] /\ outbox'[c] = Append(outbox[c], e)
                 /\ Unrecorded(c) = <<>> /\ Unrecorded(c)' = <<e>>
            BY <2>3 DEF Sends
        <3>2. globalStack[c] \o <<>> = globalStack[c]
            BY <1>1
        <3>3. globalStack[c] \o <<e>> = Append(globalStack[c], e)
            BY <1>1
        <3>4. globalStack[c] = log \o outbox[c]
            BY <2>1, <3>1, <3>2
        <3>5. Append(log \o outbox[c], e) = log \o Append(outbox[c], e)
            BY <1>1, ConcatAppend
        <3> QED
            BY <3>1, <3>3, <3>4, <3>5
    <2>4. CASE Records(c)
        <3>1. PICK e \in Event :
                 /\ globalStack'[c] = Append(globalStack[c], e) /\ outbox'[c] = outbox[c]
                 /\ Unrecorded(c) = <<e>> /\ Unrecorded(c)' = <<>>
            BY <2>4 DEF Records
        <3>2. Append(globalStack[c], e) \in Seq(Event)
            BY <1>1
        <3>3. Append(globalStack[c], e) \o <<>> = Append(globalStack[c], e)
            BY <3>2
        <3>4. globalStack[c] \o <<e>> = Append(globalStack[c], e)
            BY <1>1
        <3> QED
            BY <2>1, <3>1, <3>3, <3>4
    <2> QED
        BY <1>2, <2>2, <2>3, <2>4
<1> QED
    BY <1>2 DEF WriterOK

LEMMA BroadcastJoins ==
    ASSUME TypeOK, Accepted, NEW c \in Clients, NEW e, Broadcast(c, e)
    PROVE  outbox'[c] = Append(outbox[c], e)
BY DEF Broadcast, Accepted, TypeOK, ServiceTypes

LEMMA BurstJoins ==
    ASSUME TypeOK, Accepted, NEW c \in Clients, method[c].step = "free",
           NEW kind \in {"timer"} \cup EventType, SendBurst(c, kind), globalStack' = globalStack
    PROVE  Sends(c)
<1> DEFINE e == BurstEvent(c)
<1>1. e \in Event /\ outbox'[c] = Append(outbox[c], e)
    BY BurstEventType, BroadcastJoins DEF SendBurst
<1>2. Unrecorded(c) = <<>>
    BY DEF Unrecorded
<1>3. method'[c].step = "count" /\ method'[c].kind = kind /\ method'[c].event = e
    BY MethodType DEF SendBurst, Free
<1>4. Unrecorded(c)' = <<e>>
    BY <1>3 DEF Unrecorded, Reverses, EventType, INSERT, REMOVE
<1> QED
    BY <1>1, <1>2, <1>4 DEF Sends

LEMMA InputSends ==
    ASSUME TypeOK, Accepted, NEW c \in Clients, UserInput(c)
    PROVE  Neither(c) \/ Sends(c)
<1>1. UNCHANGED globalStack /\ method[c].step = "free"
    BY DEF UserInput, FlushBurst, TypeText, DeleteText, RefuseBackspace, KeyPressed, MoveCursor,
           Undo, Redo, StartReversal, Input, Responsive
<1>2. CASE \E type \in EventType : FlushBurst(c, type)
    BY <1>1, <1>2, BurstJoins DEF FlushBurst
<1>3. CASE DeleteText(c) \/ RefuseBackspace(c) \/ MoveCursor(c) \/ \E r \in Replacements : TypeText(c, r)
    <2>1. UNCHANGED <<outbox, method>>
        BY <1>3 DEF DeleteText, RefuseBackspace, MoveCursor, TypeText
    <2> QED
        BY <1>1, <2>1 DEF Neither, Unrecorded, Reverses
<1>4. CASE Undo(c) \/ Redo(c)
    <2>1. PICK kind, n : method' = [method EXCEPT ![c] =
                             [Free EXCEPT !.kind = kind, !.step = "remove", !.begin = n]]
        BY <1>4 DEF Undo, Redo, StartReversal
    <2>2. outbox' = outbox /\ method'[c].step = "remove"
        BY <1>4, <2>1, MethodType DEF Undo, Redo, StartReversal, Free
    <2> QED
        BY <1>1, <2>2 DEF Neither, Unrecorded
<1> QED
    BY <1>2, <1>3, <1>4 DEF UserInput

LEMMA RecordJoins ==
    ASSUME TypeOK, NEW c \in Clients, method[c].step = "append", RecordsEvent(c),
           outbox' = outbox, method'[c].step \in {"free", "key", "test"}
    PROVE  Records(c)
<1>1. method[c].event \in Event
    BY MethodType DEF Fits
<1>2. globalStack'[c] = Append(globalStack[c], method[c].event)
    BY DEF RecordsEvent, TypeOK, HistoryTypes
<1>3. Unrecorded(c) = <<method[c].event>> /\ Unrecorded(c)' = <<>>
    BY DEF Unrecorded
<1> QED
    BY <1>1, <1>2, <1>3 DEF Records

(* A method neither sends nor records when it goes from one of these steps  *)
(* to another of them.                                                      *)
Empty == {"free", "key", "remove", "find", "measure", "shift", "send", "test", "disable", "enable"}

LEMMA EmptyNeither ==
    ASSUME NEW c \in Clients, method[c].step \in Empty, method'[c].step \in Empty,
           UNCHANGED <<globalStack, outbox>>
    PROVE  Neither(c)
BY DEF Neither, Unrecorded, Empty

LEMMA MainThreadSends ==
    ASSUME TypeOK, Accepted, NEW c \in Clients, MainThread(c), alive'[c]
    PROVE  Neither(c) \/ Sends(c) \/ Records(c)
<1>1. method \in [Clients -> Method] /\ Fits(method[c], undoStack[c], redoStack[c])
    BY MethodType
<1>2. CASE TimerFires(c)
    BY <1>2, BurstJoins DEF TimerFires, Responsive
<1>3. CASE RunBlock(c)
    BY <1>3 DEF RunBlock, Neither, Unrecorded, Reverses
<1>4. CASE ReadOrderID(c)
    <2>1. /\ UNCHANGED <<outbox, globalStack>> /\ method[c].step = "count"
          /\ method'[c].event = method[c].event /\ method'[c].kind = method[c].kind
          /\ method'[c].step = "increment"
        BY <1>1, <1>4 DEF ReadOrderID, Doing, Method
    <2> QED
        BY <2>1 DEF Neither, Unrecorded, Reverses
<1>5. CASE WriteOrderID(c)
    <2>1. /\ UNCHANGED <<outbox, globalStack>> /\ method[c].step = "increment"
          /\ method'[c].event = method[c].event /\ method'[c].kind = method[c].kind
          /\ method'[c].step = IF Reverses(c) THEN "send" ELSE "append"
        BY <1>1, <1>5 DEF WriteOrderID, Doing, Method
    <2> QED
        BY <2>1 DEF Neither, Unrecorded, Reverses
<1>6. CASE RecordBurst(c)
    <2>1. method'[c].step \in {"free", "key"}
        BY <1>1, <1>6 DEF RecordBurst, Free
    <2> QED
        BY <1>6, <2>1, RecordJoins DEF RecordBurst, Doing
<1>7. CASE ApplyReversal(c)
    <2>1. CASE InText(text[c], method[c].event)
        <3>1. method'[c].step = "test" /\ RecordsEvent(c)
            BY <1>1, <1>7, <2>1 DEF ApplyReversal, Free
        <3> QED
            BY <1>7, <3>1, RecordJoins DEF ApplyReversal, Doing
    <2>2. CASE ~ InText(text[c], method[c].event)
        <3>1. ~ alive'[c]
            BY <1>7, <2>2 DEF ApplyReversal, Crash, TypeOK, OtherTypes
        <3> QED
            BY <3>1
    <2> QED
        BY <2>1, <2>2
<1>8. CASE SendReversal(c)
    <2>1. method[c].event \in Event /\ method[c].step = "send"
        BY <1>1, <1>8 DEF SendReversal, Doing, Fits
    <2>2. outbox'[c] = Append(outbox[c], method[c].event)
        BY <1>8, BroadcastJoins DEF SendReversal
    <2>3. /\ method'[c].event = method[c].event /\ method'[c].step = "append"
          /\ UNCHANGED globalStack
        BY <1>1, <1>8 DEF SendReversal, Then, Method
    <2>4. Unrecorded(c) = <<>> /\ Unrecorded(c)' = <<method[c].event>>
        BY <2>1, <2>3 DEF Unrecorded
    <2> QED
        BY <2>1, <2>2, <2>3, <2>4 DEF Sends
<1>9. CASE ResumeKey(c) \/ RemoveID(c) \/ TestStack(c) \/ DisableButton(c) \/ EnableButton(c)
    <2>1. UNCHANGED <<outbox, globalStack>> /\ method[c].step \in Empty
        BY <1>9 DEF ResumeKey, RemoveID, TestStack, DisableButton, EnableButton, Doing, Empty
    <2>2. method'[c].step \in Empty
        BY <1>1, <1>9 DEF ResumeKey, RemoveID, TestStack, DisableButton, EnableButton, Then, Return,
                          Free, Empty, Method
    <2> QED
        BY <2>1, <2>2, EmptyNeither
<1>10. CASE FindEvent(c) \/ MeasureHistory(c) \/ ShiftReversal(c)
    <2>1. UNCHANGED <<outbox, globalStack>> /\ method[c].step \in Empty
        BY <1>10 DEF FindEvent, MeasureHistory, ShiftReversal, Doing, Empty
    <2>2. method'[c].step \in {method[c].step, "measure", "shift"}
        BY <1>1, <1>10 DEF FindEvent, MeasureHistory, ShiftReversal, Method
    <2> QED
        BY <2>1, <2>2, EmptyNeither DEF Empty
<1>11. CASE SetTrigger(c)
    <2>1. /\ UNCHANGED <<outbox, globalStack>> /\ method[c].step = "shift" /\ Reverses(c)
          /\ method'[c].step = "count" /\ method'[c].kind = method[c].kind
        BY <1>1, <1>11 DEF SetTrigger, Doing, Free, Fits, Reverses
    <2> QED
        BY <2>1 DEF Neither, Unrecorded, Reverses
<1> QED
    BY <1>2, <1>3, <1>4, <1>5, <1>6, <1>7, <1>8, <1>9, <1>10, <1>11 DEF MainThread, ContinueMethod

LEMMA OwnThreadAlive ==
    ASSUME NEW c \in Clients, UserInput(c) \/ MainThread(c)
    PROVE  alive[c]
<1>1. CASE UserInput(c)
    BY <1>1 DEF UserInput, FlushBurst, TypeText, DeleteText, RefuseBackspace, KeyPressed, MoveCursor,
                Undo, Redo, StartReversal, Input, Responsive
<1>2. CASE MainThread(c)
    BY <1>2 DEF MainThread, TimerFires, RunBlock, Responsive, ContinueMethod, Doing, ReadOrderID,
                WriteOrderID, RecordBurst, ResumeKey, RemoveID, FindEvent, MeasureHistory,
                ShiftReversal, SetTrigger, SendReversal, ApplyReversal, TestStack, DisableButton,
                EnableButton
<1> QED
    BY <1>1, <1>2

LEMMA MainThreadWriter ==
    ASSUME TypeOK, Accepted, NEW c \in Clients, WriterOK(c), UserInput(c) \/ MainThread(c)
    PROVE  WriterOK(c)'
<1>1. log' = log /\ UNCHANGED <<pc, tempStack>> /\ alive[c]
    BY MainThreadKeeps, OwnThreadAlive
<1> QED
    BY <1>1, InputSends, MainThreadSends, WriterKept DEF WriterOK

HandsOwn(c) == pc[c] # "idle" => Received(c).user = c /\ ~ Conflict(c)

(* All events being the writer's own, none of them is in a foreign place.   *)
LEMMA AllOwn ==
    ASSUME TypeOK, OneWriter, Authors, NEW c \in Writers
    PROVE  /\ c \in Clients
           /\ \A i \in 1 .. Len(log) : log[i].user = c
           /\ HandsOwn(c)
<1>1. c \in Clients /\ \A d \in Writers : d = c
    BY WritersAssumption DEF OneWriter
<1>2. \A i \in 1 .. Len(log) : log[i].user = c
    BY <1>1 DEF Authors, ByWriter
<1>3. pc[c] # "idle" => Received(c).user = c
    BY <1>1, <1>2, OrderIDType DEF Received
<1>4. ASSUME pc[c] # "idle" PROVE ~ Conflict(c)
    <2>1. \A i \in 1 .. Len(globalStack[c]) : globalStack[c][i].user = c
        BY <1>1 DEF Authors, AuthorsOK, ByWriter
    <2>2. globalStack[c] \in Seq(Event) /\ delivered[c] \in Nat /\ delivered[c] > 0
          /\ OrderID(c) + 1 = delivered[c] /\ OrderID(c) \in Nat
        BY <1>1, <1>4, OrderIDType DEF TypeOK, HistoryTypes
    <2>3. ASSUME Len(globalStack[c]) > OrderID(c) PROVE globalStack[c][delivered[c]].user = c
        BY <2>1, <2>2, <2>3
    <2> QED
        BY <1>3, <1>4, <2>3 DEF Conflict
<1> QED
    BY <1>1, <1>2, <1>3, <1>4 DEF HandsOwn

(* What the writer's handler can be doing.                                  *)
LEMMA WriterHandles ==
    ASSUME TypeOK, NEW c \in Clients, WriterOK(c), HandsOwn(c),
           ReceiveEvent(c) \/ ReceiveHandler(c)
    PROVE  /\ UNCHANGED <<log, outbox, globalStack, alive, method>>
           /\ tempStack'[c] = <<>>
           /\ \/ ReceiveEvent(c) /\ pc'[c] = "check"
              \/ CheckConflict(c) /\ pc'[c] = "dispatch"
              \/ RouteOwn(c) /\ pc'[c] = IF undo_trigger[c] THEN "undone" ELSE "route"
              \/ RouteRedone(c) /\ pc'[c] = IF redo_trigger[c] THEN "redone" ELSE "typed"
              \/ RecordOwn(c) /\ pc'[c] = CASE pc[c] = "undone" -> "clearUndo"
                                            [] pc[c] = "redone" -> "clearRedo"
                                            [] pc[c] = "typed"  -> "count"
              \/ ClearTrigger(c) /\ pc'[c] = "count"
              \/ Counts(c) /\ pc'[c] \in TailLabel \cup {"idle"}
<1>1. pc[c] # "idle" => Received(c).user = c /\ ~ Conflict(c)
    BY DEF HandsOwn
<1>2. /\ ~ PopConflict(c) /\ ~ SavePopped(c) /\ ~ RemovePopped(c)
      /\ ~ AppendForeign(c) /\ ~ DropPopped(c)
    BY DEF WriterOK, SoloLabel, TailLabel, PopConflict, SavePopped, RemovePopped, AppendForeign,
           DropPopped, At
<1>3. ~ DispatchForeign(c) /\ ~ DispatchPopped(c)
    BY <1>1 DEF WriterOK, DispatchForeign, DispatchPopped, At
<1>4. tempStack[c] = <<>> /\ pc \in [Clients -> Label] /\ tempStack \in [Clients -> Seq(Event)]
    BY DEF WriterOK, TypeOK, HandlerTypes
<1>5. UNCHANGED <<log, outbox, globalStack, alive, method>>
    BY <1>2, HandlerMoves DEF ReceiveEvent, Deliver
<1>6. CASE ReceiveEvent(c)
    BY <1>4, <1>5, <1>6 DEF ReceiveEvent, Goto
<1>7. CASE CheckConflict(c)
    <2>1. ~ Conflict(c)
        BY <1>1, <1>7 DEF CheckConflict, At
    <2> QED
        BY <1>4, <1>5, <1>7, <2>1 DEF CheckConflict, Goto
<1>8. CASE RouteOwn(c) \/ RouteRedone(c)
    BY <1>4, <1>5, <1>8 DEF RouteOwn, RouteRedone, Goto
<1>9. CASE RecordOwn(c) \/ ClearTrigger(c)
    BY <1>4, <1>5, <1>9 DEF RecordOwn, ClearTrigger, Goto
<1>10. CASE Counts(c)
    BY <1>4, <1>5, <1>10, CountsFrame
<1> QED
    BY <1>2, <1>3, <1>6, <1>7, <1>8, <1>9, <1>10 DEF ReceiveHandler, Counts

LEMMA HandlerWriter ==
    ASSUME TypeOK, NEW c \in Clients, WriterOK(c), HandsOwn(c),
           ReceiveEvent(c) \/ ReceiveHandler(c)
    PROVE  WriterOK(c)'
<1>1. UNCHANGED <<log, outbox, globalStack, alive, method>> /\ tempStack'[c] = <<>>
    BY WriterHandles
<1>2. pc'[c] \in SoloLabel
    <2>1. pc'[c] \in Label
        BY StepTypes DEF Next, ClientStep, TypeOK, HandlerTypes
    <2>2. RecordOwn(c) => pc[c] \in {"undone", "redone", "typed"}
        BY DEF RecordOwn
    <2> QED
        BY <2>2, WriterHandles DEF SoloLabel, TailLabel
<1>3. Neither(c)
    BY <1>1 DEF Neither, Unrecorded, Reverses
<1> QED
    BY <1>1, <1>2, <1>3, WriterKept

LEMMA StepSolo ==
    ASSUME TypeOK, OneWriter, SoloInv, [Next]_vars
    PROVE  SoloInv'
<1>1. WatchInv' /\ WatchInv /\ Authors
    BY StepWatch DEF SoloInv, WatchInv
<1>2. CASE UNCHANGED vars
    BY <1>1, <1>2 DEF vars, SoloInv, WriterOK, Unrecorded, Reverses
<1>3. ASSUME NEW c \in Clients, Service(c) PROVE SoloInv'
    <2>1. /\ outbox[c] # <<>> /\ outbox' = [outbox EXCEPT ![c] = Tail(@)]
          /\ log' = Append(log, Head(outbox[c]))
          /\ UNCHANGED <<globalStack, pc, tempStack, alive, method>>
        BY <1>3 DEF Service, Order
    <2>2. c \in Writers
        BY <2>1 DEF SoloInv, Watchers
    <2>3. log \in Seq(Event) /\ outbox \in [Clients -> Seq(Event)] /\ outbox[c] \in Seq(Event)
        BY DEF TypeOK, ServiceTypes
    <2>4. WriterOK(c)'
        <3>1. Append(log, Head(outbox[c])) \o Tail(outbox[c]) = log \o outbox[c]
            BY <2>1, <2>3, ConcatMoved
        <3>2. outbox'[c] = Tail(outbox[c])
            BY <2>1, <2>3
        <3>3. Unrecorded(c)' = Unrecorded(c)
            BY <2>1 DEF Unrecorded, Reverses
        <3> QED
            BY <2>1, <2>2, <3>1, <3>2, <3>3 DEF SoloInv, WriterOK
    <2>5. \A d \in Watchers : outbox'[d] = <<>>
        BY <2>1, <2>2, <2>3 DEF SoloInv, Watchers
    <2> QED
        BY <1>1, <2>2, <2>4, <2>5 DEF SoloInv, OneWriter
<1>4. ASSUME NEW c \in Clients,
             UserInput(c) \/ MainThread(c) \/ ReceiveEvent(c) \/ ReceiveHandler(c)
      PROVE  SoloInv'
    <2>1. ASSUME NEW d \in Clients, d # c PROVE Untouched(d) /\ log' = log
        BY <1>4, <2>1, StepUntouched
    <2>2. CASE c \in Writers
        <3>1. WriterOK(c)'
            BY <1>1, <1>4, <2>2, MainThreadWriter, HandlerWriter, AllOwn DEF SoloInv, OneWriter
        <3>2. \A d \in Watchers : outbox'[d] = <<>>
            BY <2>1, <2>2 DEF SoloInv, Watchers, Untouched
        <3> QED
            BY <1>1, <2>2, <3>1, <3>2 DEF SoloInv, OneWriter
    <2>3. CASE c \in Watchers
        <3>1. outbox' = outbox
            <4>1. ReceiveEvent(c) \/ ReceiveHandler(c) \/ RunBlock(c)
                BY <1>1, <1>4, <2>3, WatcherPassive DEF MainThread
            <4> QED
                BY <4>1, HandlerMoves DEF ReceiveEvent, Deliver, RunBlock
        <3>2. ASSUME NEW d \in Writers PROVE WriterOK(d)'
            <4>1. d \in Clients /\ d # c
                BY <2>3, WritersAssumption DEF Watchers
            <4>2. Untouched(d) /\ log' = log /\ WriterOK(d)
                BY <2>1, <4>1 DEF SoloInv
            <4>3. Unrecorded(d)' = Unrecorded(d)
                BY <4>2 DEF Untouched, Unrecorded, Reverses
            <4> QED
                BY <4>2, <4>3 DEF WriterOK, Untouched
        <3> QED
            BY <1>1, <3>1, <3>2 DEF SoloInv
    <2> QED
        BY <2>2, <2>3 DEF Watchers
<1> QED
    BY <1>2, <1>3, <1>4 DEF Next, ClientStep

LEMMA InitSolo == ASSUME Init PROVE SoloInv
<1>1. \A c \in Clients : /\ pc[c] = "idle" /\ tempStack[c] = <<>> /\ globalStack[c] = <<>>
                         /\ outbox[c] = <<>> /\ log = <<>> /\ Unrecorded(c) = <<>>
    BY DEF Init, ServiceInit, Unrecorded, Free
<1>2. <<>> \o <<>> = <<>>
    OBVIOUS
<1> QED
    BY <1>1, <1>2, InitWatch, WritersAssumption DEF SoloInv, WriterOK, SoloLabel, Watchers

(* While one user types and broadcasts are accepted, no interleaving of the *)
(* threads disturbs a history: the writer's, with the event it is about to  *)
(* record, is the log followed by what it has still to order, every other   *)
(* the part of the log handed to it (ViewController.mm:282-310, 388-399).   *)
THEOREM SoloTyping == ASSUME OneWriter PROVE Spec => []SoloHistories
<1>1. Init => SoloInv
    BY InitSolo
<1>2. TypeOK /\ SoloInv /\ [Next]_vars => SoloInv'
    BY StepSolo
<1>3. SoloInv => SoloHistories
    BY DEF SoloInv, SoloHistories, WriterOK, WatchInv, WatcherOK, Watchers
<1> QED
    BY <1>1, <1>2, <1>3, TypeCorrect, PTL DEF Spec

-----------------------------------------------------------------------------
(* A trigger that is set awaits its echo.                                   *)
Triggers(c) == Bit(undo_trigger[c]) + Bit(redo_trigger[c])

(* All events are the writer's: what it has still to receive, and with what *)
(* an undo or redo under way has still to send.                             *)
Awaited(c) == Len(outbox[c]) + (Len(log) - Recorded(c))
Unsent(c) == Reverses(c) /\ method[c].step \in {"count", "increment", "send"}
Owed(c) == Awaited(c) + Bit(Unsent(c))

Clearing(c) == pc[c] \in {"clearUndo", "clearRedo"}

(* What makes it inductive: a handler that found a trigger not set has the  *)
(* echo of a burst in hand, and a trigger set since then has its own.       *)
EchoesOK(c) ==
    /\ Triggers(c) <= Owed(c) + Bit(Clearing(c))
    /\ pc[c] \in {"undone", "clearUndo"} => undo_trigger[c]
    /\ pc[c] \in {"redone", "clearRedo"} => redo_trigger[c]
    /\ pc[c] = "route" => Bit(undo_trigger[c]) + 1 <= Owed(c)
    /\ pc[c] = "typed" => Triggers(c) + 1 <= Owed(c)

EchoInv ==
    /\ SoloInv
    /\ \A c \in Writers : EchoesOK(c)
    /\ \A c \in Watchers : ~ undo_trigger[c] /\ ~ redo_trigger[c]

LEMMA EchoTypes ==
    ASSUME TypeOK, NEW c \in Clients
    PROVE  /\ undo_trigger[c] \in BOOLEAN /\ redo_trigger[c] \in BOOLEAN
           /\ Triggers(c) \in 0 .. 2
           /\ Len(outbox[c]) \in Nat /\ Len(log) \in Nat /\ Recorded(c) \in Nat
           /\ Recorded(c) <= Len(log) /\ Awaited(c) \in Nat
           /\ Bit(Unsent(c)) \in 0 .. 1 /\ Bit(Clearing(c)) \in 0 .. 1 /\ Owed(c) \in Nat
<1>1. undo_trigger[c] \in BOOLEAN /\ redo_trigger[c] \in BOOLEAN
    BY DEF TypeOK, StackTypes
<1>2. Triggers(c) \in 0 .. 2
    BY <1>1 DEF Triggers, Bit
<1>3. /\ Len(outbox[c]) \in Nat /\ Len(log) \in Nat /\ Recorded(c) \in Nat
      /\ Recorded(c) <= Len(log)
    BY RecordedType DEF TypeOK, ServiceTypes
<1> DEFINE o == Len(outbox[c])
           l == Len(log)
           n == Recorded(c)
<1>4. Awaited(c) = o + (l - n)
    BY DEF Awaited
<1>5. o \in Nat /\ l \in Nat /\ n \in Nat /\ n <= l
    BY <1>3
<1> HIDE DEF o, l, n
<1>6. Awaited(c) \in Nat
    BY <1>4, <1>5
<1>7. Bit(Unsent(c)) \in 0 .. 1 /\ Bit(Clearing(c)) \in 0 .. 1
    BY DEF Bit
<1>8. Owed(c) \in Nat
    BY <1>6, <1>7 DEF Owed
<1> QED
    BY <1>1, <1>2, <1>3, <1>6, <1>7, <1>8

(* Nothing owed to the writer is lost.                                      *)
LEMMA EchoesKept ==
    ASSUME TypeOK, NEW c \in Clients, EchoesOK(c), pc'[c] = pc[c],
           undo_trigger'[c] = undo_trigger[c], redo_trigger'[c] = redo_trigger[c],
           Owed(c)' \in Nat, Owed(c) <= Owed(c)'
    PROVE  EchoesOK(c)'
<1>1. Triggers(c)' = Triggers(c) /\ Bit(undo_trigger[c])' = Bit(undo_trigger[c])
    BY DEF Triggers, Bit
<1>2. Clearing(c)' = Clearing(c) /\ Bit(Clearing(c))' = Bit(Clearing(c))
    BY DEF Clearing, Bit
<1>3. Bit(undo_trigger[c]) \in 0 .. 1
    BY EchoTypes DEF Bit
<1> QED
    BY <1>1, <1>2, <1>3, EchoTypes DEF EchoesOK

(* One more event awaited.                                                  *)
LEMMA AwaitedGrows ==
    ASSUME TypeOK, NEW c \in Clients, UNCHANGED <<log, delivered, pc>>,
           \/ outbox'[c] = outbox[c]
           \/ \E e \in Event : outbox'[c] = Append(outbox[c], e)
    PROVE  /\ Awaited(c)' \in Nat /\ Awaited(c) <= Awaited(c)'
           /\ outbox'[c] # outbox[c] => Awaited(c)' = Awaited(c) + 1
           /\ outbox'[c] = outbox[c] => Awaited(c)' = Awaited(c)
<1> DEFINE o == Len(outbox[c])
           k == Len(outbox'[c])
           l == Len(log)
           n == Recorded(c)
<1>1. Recorded(c)' = n
    BY DEF Recorded, Deciding
<1>2. outbox[c] \in Seq(Event)
    BY DEF TypeOK, ServiceTypes
<1>3. /\ o \in Nat /\ k \in {o, o + 1}
      /\ outbox'[c] # outbox[c] => k = o + 1
      /\ outbox'[c] = outbox[c] => k = o
    BY <1>2
<1>4. Awaited(c) = o + (l - n) /\ Awaited(c)' = k + (l - n)
    BY <1>1 DEF Awaited
<1>5. l \in Nat /\ n \in Nat /\ n <= l
    BY EchoTypes
<1> HIDE DEF o, k, l, n
<1> QED
    BY <1>3, <1>4, <1>5

(* What the main thread sends.                                              *)
LEMMA OutboxMoves ==
    ASSUME TypeOK, Accepted, NEW c \in Clients, UserInput(c) \/ MainThread(c)
    PROVE  /\ outbox'[c] = outbox[c] \/ \E e \in Event : outbox'[c] = Append(outbox[c], e)
           /\ SetTrigger(c) => outbox' = outbox
           /\ SendReversal(c) => outbox'[c] # outbox[c]
<1>1. SetTrigger(c) => outbox' = outbox
    BY DEF SetTrigger
<1>2. CASE ApplyReversal(c)
    BY <1>2 DEF ApplyReversal, SendReversal, SetTrigger, Doing
<1>3. CASE ~ ApplyReversal(c)
    <2>1. CASE UserInput(c)
        BY <1>1, <2>1, InputSends DEF Neither, Sends, UserInput, FlushBurst, TypeText, DeleteText,
              RefuseBackspace, KeyPressed, MoveCursor, Undo, Redo, StartReversal, Input, Responsive,
              SendReversal, Doing
    <2>2. CASE RunBlock(c)
        BY <1>1, <2>2 DEF RunBlock, Responsive, SendReversal, Doing
    <2>3. CASE SendReversal(c)
        <3>1. method[c].event \in Event /\ outbox[c] \in Seq(Event)
            BY <2>3, MethodType DEF SendReversal, Doing, Fits, TypeOK, ServiceTypes
        <3>2. outbox'[c] = Append(outbox[c], method[c].event)
            BY <2>3, BroadcastJoins DEF SendReversal
        <3>3. Len(Append(outbox[c], method[c].event)) = Len(outbox[c]) + 1 /\ Len(outbox[c]) \in Nat
            BY <3>1
        <3>4. Append(outbox[c], method[c].event) # outbox[c]
            BY <3>3
        <3> QED
            BY <1>1, <3>1, <3>2, <3>4
    <2>4. CASE TimerFires(c)
        <3>1. Sends(c)
            BY <2>4, BurstJoins DEF TimerFires, Responsive
        <3> QED
            BY <1>1, <2>4, <3>1 DEF Sends, TimerFires, Responsive, SendReversal, Doing
    <2>5. CASE ContinueMethod(c) /\ ~ SendReversal(c)
        <3>1. outbox' = outbox
            BY <1>3, <2>5 DEF ContinueMethod, ReadOrderID, WriteOrderID, RecordBurst, ResumeKey,
                   RemoveID, FindEvent, MeasureHistory, ShiftReversal, SetTrigger, TestStack,
                   DisableButton, EnableButton
        <3> QED
            BY <1>1, <2>5, <3>1
    <2> QED
        BY <2>1, <2>2, <2>3, <2>4, <2>5 DEF MainThread
<1> QED
    BY <1>2, <1>3

(* Only setting the trigger and sending change what an undo has to send.    *)
LEMMA UnsentMoves ==
    ASSUME TypeOK, NEW c \in Clients, UserInput(c) \/ MainThread(c)
    PROVE  /\ SetTrigger(c) \/ SendReversal(c) \/ Unsent(c)' = Unsent(c)
           /\ SetTrigger(c) => ~ Unsent(c) /\ Unsent(c)'
           /\ SendReversal(c) => ~ Unsent(c)'
<1>1. method \in [Clients -> Method] /\ Fits(method[c], undoStack[c], redoStack[c])
    BY MethodType
<1>2. SetTrigger(c) => ~ Unsent(c) /\ Unsent(c)'
    BY <1>1 DEF SetTrigger, Doing, Unsent, Reverses, Fits, Free
<1>3. SendReversal(c) => ~ Unsent(c)'
    BY <1>1 DEF SendReversal, Then, Unsent, Method
<1>4. CASE UserInput(c)
    <2>1. method[c].step = "free"
        BY <1>4 DEF UserInput, FlushBurst, TypeText, DeleteText, RefuseBackspace, KeyPressed,
                    MoveCursor, Undo, Redo, StartReversal, Input, Responsive
    <2>2. CASE \E type \in EventType : FlushBurst(c, type)
        <3>1. PICK type \in EventType : FlushBurst(c, type)
            BY <2>2
        <3>2. method'[c].kind = type
            BY <1>1, <3>1 DEF FlushBurst, SendBurst, Free
        <3> QED
            BY <1>2, <1>3, <2>1, <3>2 DEF Unsent, Reverses, EventType, INSERT, REMOVE
    <2>3. CASE DeleteText(c) \/ RefuseBackspace(c) \/ MoveCursor(c) \/ \E r \in Replacements : TypeText(c, r)
        <3>1. method' = method
            BY <2>3 DEF DeleteText, RefuseBackspace, MoveCursor, TypeText
        <3> QED
            BY <1>2, <1>3, <3>1 DEF Unsent, Reverses
    <2>4. CASE Undo(c) \/ Redo(c)
        <3>1. PICK kind, n : method' = [method EXCEPT ![c] =
                                 [Free EXCEPT !.kind = kind, !.step = "remove", !.begin = n]]
            BY <2>4 DEF Undo, Redo, StartReversal
        <3>2. method'[c].step = "remove"
            BY <1>1, <3>1 DEF Free
        <3> QED
            BY <1>2, <1>3, <2>1, <3>2 DEF Unsent
    <2> QED
        BY <1>4, <2>2, <2>3, <2>4 DEF UserInput
<1>5. CASE TimerFires(c)
    BY <1>1, <1>2, <1>3, <1>5 DEF TimerFires, SendBurst, Responsive, Free, Unsent, Reverses
<1>6. CASE RunBlock(c)
    BY <1>2, <1>3, <1>6 DEF RunBlock, Unsent, Reverses
<1>7. CASE ReadOrderID(c) \/ WriteOrderID(c)
    <2>1. /\ method[c].step \in {"count", "increment"} /\ method'[c].kind = method[c].kind
          /\ method'[c].step \in {"increment", IF Reverses(c) THEN "send" ELSE "append"}
        BY <1>1, <1>7 DEF ReadOrderID, WriteOrderID, Doing, Method
    <2> QED
        BY <1>2, <1>3, <2>1 DEF Unsent, Reverses
<1>8. CASE RecordBurst(c) \/ ApplyReversal(c) \/ FindEvent(c) \/ MeasureHistory(c) \/ ShiftReversal(c)
    <2>1. method[c].step \in {"append", "find", "measure", "shift"}
        BY <1>8 DEF RecordBurst, ApplyReversal, FindEvent, MeasureHistory, ShiftReversal, Doing
    <2>2. CASE RecordBurst(c)
        <3>1. method'[c].step \in {"free", "key"}
            BY <1>1, <2>2 DEF RecordBurst, Free
        <3> QED
            BY <1>2, <1>3, <2>1, <3>1 DEF Unsent
    <2>3. CASE ApplyReversal(c)
        <3>1. method' = method \/ method'[c].step = "test"
            BY <1>1, <2>3 DEF ApplyReversal, Free
        <3> QED
            BY <1>2, <1>3, <2>1, <3>1 DEF Unsent, Reverses
    <2>4. CASE FindEvent(c) \/ MeasureHistory(c) \/ ShiftReversal(c)
        <3>1. method'[c].step \in {method[c].step, "measure", "shift"}
            BY <1>1, <2>4 DEF FindEvent, MeasureHistory, ShiftReversal, Method
        <3> QED
            BY <1>2, <1>3, <2>1, <3>1 DEF Unsent
    <2> QED
        BY <1>8, <2>2, <2>3, <2>4
<1>9. CASE ResumeKey(c) \/ RemoveID(c) \/ TestStack(c) \/ DisableButton(c) \/ EnableButton(c)
    <2>1. method[c].step \in {"key", "remove", "test", "disable", "enable"}
        BY <1>9 DEF ResumeKey, RemoveID, TestStack, DisableButton, EnableButton, Doing
    <2>2. method'[c].step \in {"free", "find", "disable", "enable"}
        BY <1>1, <1>9 DEF ResumeKey, RemoveID, TestStack, DisableButton, EnableButton, Then, Return,
                          Free, Method
    <2> QED
        BY <1>2, <1>3, <2>1, <2>2 DEF Unsent
<1> QED
    BY <1>2, <1>3, <1>4, <1>5, <1>6, <1>7, <1>8, <1>9 DEF MainThread, ContinueMethod

LEMMA MainThreadEchoes ==
    ASSUME TypeOK, Accepted, NEW c \in Clients, EchoesOK(c), UserInput(c) \/ MainThread(c)
    PROVE  EchoesOK(c)'
<1>1. UNCHANGED <<log, delivered, pc>>
    BY MainThreadKeeps
<1>2. /\ Awaited(c)' \in Nat /\ Awaited(c) <= Awaited(c)'
      /\ outbox'[c] # outbox[c] => Awaited(c)' = Awaited(c) + 1
      /\ outbox'[c] = outbox[c] => Awaited(c)' = Awaited(c)
    BY <1>1, OutboxMoves, AwaitedGrows
<1>3. Owed(c)' = Awaited(c)' + Bit(Unsent(c)') /\ Owed(c) = Awaited(c) + Bit(Unsent(c))
    BY DEF Owed, Bit
<1>4. CASE SetTrigger(c)
    <2>1. /\ ~ Unsent(c) /\ Unsent(c)' /\ Awaited(c)' = Awaited(c)
        BY <1>2, <1>4, UnsentMoves, OutboxMoves
    <2>2. Owed(c)' = Owed(c) + 1 /\ Owed(c) \in Nat
        BY <1>3, <2>1, EchoTypes DEF Bit
    <2>3. /\ undo_trigger'[c] = (undo_trigger[c] \/ method[c].kind = "undo")
          /\ redo_trigger'[c] = (redo_trigger[c] \/ method[c].kind = "redo")
        BY <1>4 DEF SetTrigger, TypeOK, StackTypes
    <2>4. undo_trigger[c] \in BOOLEAN /\ redo_trigger[c] \in BOOLEAN
        BY EchoTypes
    <2>5. Triggers(c)' \in Nat /\ Triggers(c)' <= Triggers(c) + 1
        <3>1. CASE method[c].kind = "undo"
            BY <2>3, <2>4, <3>1 DEF Triggers, Bit
        <3>2. CASE method[c].kind # "undo"
            BY <2>3, <2>4, <3>2 DEF Triggers, Bit
        <3> QED
            BY <3>1, <3>2
    <2>6. Bit(undo_trigger[c])' \in Nat /\ Bit(undo_trigger[c])' <= Bit(undo_trigger[c]) + 1
          /\ Bit(undo_trigger[c]) \in Nat
        BY DEF Bit
    <2>7. Clearing(c)' = Clearing(c) /\ Bit(Clearing(c))' = Bit(Clearing(c))
        BY <1>1 DEF Clearing, Bit
    <2>8. /\ Triggers(c) \in Nat /\ Bit(Clearing(c)) \in Nat
        BY EchoTypes
    <2>9. /\ Triggers(c)' <= Owed(c)' + Bit(Clearing(c))'
          /\ pc[c] = "route" => Bit(undo_trigger[c])' + 1 <= Owed(c)'
          /\ pc[c] = "typed" => Triggers(c)' + 1 <= Owed(c)'
        BY <2>2, <2>5, <2>6, <2>7, <2>8 DEF EchoesOK
    <2>10. /\ pc[c] \in {"undone", "clearUndo"} => undo_trigger'[c]
           /\ pc[c] \in {"redone", "clearRedo"} => redo_trigger'[c]
        BY <2>3 DEF EchoesOK
    <2> QED
        BY <1>1, <2>9, <2>10 DEF EchoesOK
<1>5. CASE ~ SetTrigger(c)
    <2>1. UNCHANGED <<undo_trigger, redo_trigger>>
        BY <1>5, MainThreadKeeps
    <2>2. Owed(c)' \in Nat /\ Owed(c) <= Owed(c)'
        <3>1. CASE SendReversal(c)
            <4>1. Awaited(c)' = Awaited(c) + 1 /\ ~ Unsent(c)'
                BY <1>2, <3>1, OutboxMoves, UnsentMoves
            <4> QED
                BY <1>3, <4>1, EchoTypes DEF Bit
        <3>2. CASE ~ SendReversal(c)
            <4>1. Unsent(c)' = Unsent(c)
                BY <1>5, <3>2, UnsentMoves
            <4>2. Owed(c)' = Awaited(c)' + Bit(Unsent(c))
                BY <1>3, <4>1
            <4> QED
                BY <1>2, <1>3, <4>2, EchoTypes
        <3> QED
            BY <3>1, <3>2
    <2> QED
        BY <1>1, <2>1, <2>2, EchoesKept
<1> QED
    BY <1>4, <1>5

(* While the handler only moves on, what is recorded stays the same.        *)
LEMMA HandlerAwaits ==
    ASSUME TypeOK, NEW c \in Clients, UNCHANGED <<log, outbox, method>>,
           \/ pc[c] = "idle" /\ pc'[c] = "check" /\ delivered'[c] = delivered[c] + 1
           \/ Deciding(c) /\ Deciding(c)' /\ delivered'[c] = delivered[c]
           \/ ~ Deciding(c) /\ ~ Deciding(c)' /\ delivered'[c] = delivered[c]
    PROVE  Owed(c)' = Owed(c)
<1>1. delivered[c] \in Nat
    BY DEF TypeOK, ServiceTypes
<1>2. Recorded(c)' = Recorded(c)
    BY <1>1 DEF Recorded, Deciding
<1> QED
    BY <1>2 DEF Owed, Awaited, Unsent, Reverses, Bit

(* Until its event is recorded, one event at least is awaited.              *)
LEMMA DecidingAwaits ==
    ASSUME TypeOK, NEW c \in Clients, Deciding(c)
    PROVE  1 <= Owed(c)
<1> DEFINE o == Len(outbox[c])
           l == Len(log)
           n == Recorded(c)
           b == Bit(Unsent(c))
<1>1. Owed(c) = (o + (l - n)) + b /\ o \in Nat /\ l \in Nat /\ b \in Nat
    BY EchoTypes DEF Awaited, Owed
<1>2. n < l
    BY OrderIDType DEF Recorded, Deciding
<1>3. n \in Nat
    BY EchoTypes
<1> HIDE DEF o, l, n, b
<1> QED
    BY <1>1, <1>2, <1>3

(* The triggers are read one after the other.                               *)
LEMMA RouteEchoes ==
    ASSUME TypeOK, NEW c \in Clients, EchoesOK(c),
           \/ RouteOwn(c) /\ pc'[c] = IF undo_trigger[c] THEN "undone" ELSE "route"
           \/ RouteRedone(c) /\ pc'[c] = IF redo_trigger[c] THEN "redone" ELSE "typed"
    PROVE  EchoesOK(c)'
<1>1. /\ UNCHANGED <<log, outbox, delivered, undo_trigger, redo_trigger, method>>
      /\ pc[c] \in {"dispatch", "route"}
    BY DEF RouteOwn, RouteRedone, At
<1>2. Deciding(c) /\ Deciding(c)'
    BY <1>1 DEF Deciding
<1>3. Owed(c)' = Owed(c) /\ Triggers(c)' = Triggers(c) /\ 1 <= Owed(c)
    BY <1>1, <1>2, HandlerAwaits, DecidingAwaits DEF Triggers
<1>4. Bit(Clearing(c)) = 0 /\ Bit(Clearing(c))' = 0
    BY <1>1 DEF Clearing, Bit
<1>5. Triggers(c)' <= Owed(c)' + Bit(Clearing(c))'
    BY <1>3, <1>4 DEF EchoesOK
<1>6. CASE RouteOwn(c) /\ pc'[c] = IF undo_trigger[c] THEN "undone" ELSE "route"
    <2>1. pc'[c] = "route" => Bit(undo_trigger[c])' + 1 <= Owed(c)'
        BY <1>1, <1>3, <1>6, EchoTypes DEF Bit
    <2> QED
        BY <1>1, <1>5, <1>6, <2>1 DEF EchoesOK
<1>7. CASE RouteRedone(c) /\ pc'[c] = IF redo_trigger[c] THEN "redone" ELSE "typed"
    <2>1. pc[c] = "route"
        BY <1>7 DEF RouteRedone, At
    <2>2. Bit(undo_trigger[c]) + 1 <= Owed(c)
        BY <2>1 DEF EchoesOK
    <2>3. ~ redo_trigger[c] => Triggers(c) = Bit(undo_trigger[c])
        BY EchoTypes DEF Triggers, Bit
    <2>4. pc'[c] = "typed" => Triggers(c)' + 1 <= Owed(c)'
        BY <1>3, <1>7, <2>2, <2>3
    <2> QED
        BY <1>1, <1>5, <1>7, <2>4 DEF EchoesOK
<1> QED
    BY <1>6, <1>7

(* The id of an own event goes to its stack.                                *)
LEMMA RecordEchoes ==
    ASSUME TypeOK, NEW c \in Clients, EchoesOK(c), RecordOwn(c),
           pc'[c] = CASE pc[c] = "undone" -> "clearUndo"
                      [] pc[c] = "redone" -> "clearRedo"
                      [] pc[c] = "typed"  -> "count"
    PROVE  EchoesOK(c)'
<1>1. /\ pc[c] \in {"undone", "redone", "typed"}
      /\ UNCHANGED <<log, outbox, delivered, method, undo_trigger, redo_trigger>>
    BY DEF RecordOwn
<1>2. Owed(c)' = Owed(c) - 1
    <2> DEFINE o == Len(outbox[c])
               l == Len(log)
               n == Recorded(c)
               b == Bit(Unsent(c))
    <2>1. Recorded(c)' = n + 1
        BY <1>1, OrderIDType DEF Recorded, Deciding
    <2>2. Owed(c) = (o + (l - n)) + b /\ Owed(c)' = (o + (l - (n + 1))) + b
        BY <1>1, <2>1 DEF Owed, Awaited, Unsent, Reverses, Bit
    <2>3. o \in Nat /\ l \in Nat /\ n \in Nat /\ b \in Nat
        BY EchoTypes
    <2> HIDE DEF o, l, n, b
    <2> QED
        BY <2>2, <2>3
<1>3. Owed(c) \in Nat /\ Triggers(c) \in Nat /\ Triggers(c)' = Triggers(c)
    BY <1>1, EchoTypes DEF Triggers
<1>4. CASE pc[c] = "typed"
    <2>1. pc'[c] = "count" /\ Bit(Clearing(c))' = 0
        BY <1>4 DEF Clearing, Bit
    <2> QED
        BY <1>2, <1>3, <1>4, <2>1 DEF EchoesOK
<1>5. CASE pc[c] # "typed"
    <2>1. Bit(Clearing(c)) = 0 /\ Bit(Clearing(c))' = 1
        BY <1>1, <1>5 DEF Clearing, Bit
    <2>2. Triggers(c)' <= Owed(c)' + Bit(Clearing(c))'
        BY <1>2, <1>3, <2>1 DEF EchoesOK
    <2>3. /\ pc'[c] = "clearUndo" => undo_trigger'[c]
          /\ pc'[c] = "clearRedo" => redo_trigger'[c]
          /\ pc'[c] \in {"clearUndo", "clearRedo"}
        BY <1>1, <1>5 DEF EchoesOK
    <2> QED
        BY <2>2, <2>3 DEF EchoesOK
<1> QED
    BY <1>4, <1>5

(* The trigger the handler found set is cleared.                            *)
LEMMA ClearEchoes ==
    ASSUME TypeOK, NEW c \in Clients, EchoesOK(c), ClearTrigger(c), pc'[c] = "count"
    PROVE  EchoesOK(c)'
<1>1. /\ pc[c] \in {"clearUndo", "clearRedo"} /\ UNCHANGED <<log, outbox, delivered, method>>
      /\ undo_trigger'[c] = (undo_trigger[c] /\ pc[c] # "clearUndo")
      /\ redo_trigger'[c] = (redo_trigger[c] /\ pc[c] # "clearRedo")
    BY DEF ClearTrigger, Clears, TypeOK, StackTypes
<1>2. Owed(c)' = Owed(c)
    BY <1>1, HandlerAwaits DEF Deciding
<1>3. Bit(Clearing(c)) = 1 /\ Bit(Clearing(c))' = 0
    BY <1>1 DEF Clearing, Bit
<1>4. undo_trigger[c] \in BOOLEAN /\ redo_trigger[c] \in BOOLEAN
    BY EchoTypes
<1>5. Triggers(c)' = Triggers(c) - 1
    <2>1. CASE pc[c] = "clearUndo"
        <3>1. undo_trigger[c] /\ ~ undo_trigger'[c] /\ redo_trigger'[c] = redo_trigger[c]
            BY <1>1, <1>4, <2>1 DEF EchoesOK
        <3> QED
            BY <1>4, <3>1 DEF Triggers, Bit
    <2>2. CASE pc[c] = "clearRedo"
        <3>1. redo_trigger[c] /\ ~ redo_trigger'[c] /\ undo_trigger'[c] = undo_trigger[c]
            BY <1>1, <1>4, <2>2 DEF EchoesOK
        <3> QED
            BY <1>4, <3>1 DEF Triggers, Bit
    <2> QED
        BY <1>1, <2>1, <2>2
<1>6. Triggers(c) <= Owed(c) + 1 /\ Owed(c) \in Nat /\ Triggers(c) \in Nat
    BY <1>3, EchoTypes DEF EchoesOK
<1>7. Triggers(c)' <= Owed(c)' + Bit(Clearing(c))'
    BY <1>2, <1>3, <1>5, <1>6
<1> QED
    BY <1>7 DEF EchoesOK

LEMMA HandlerEchoes ==
    ASSUME TypeOK, NEW c \in Clients, WriterOK(c), HandsOwn(c), EchoesOK(c),
           ReceiveEvent(c) \/ ReceiveHandler(c)
    PROVE  EchoesOK(c)'
<1>1. UNCHANGED <<log, outbox, method>>
    BY WriterHandles
<1>2. ASSUME UNCHANGED <<undo_trigger, redo_trigger>>, Owed(c)' = Owed(c),
             pc[c] \in {"idle", "check"} \cup TailLabel,
             pc'[c] \in {"idle", "check", "dispatch"} \cup TailLabel
      PROVE  EchoesOK(c)'
    <2>1. Triggers(c)' = Triggers(c)
        BY <1>2 DEF Triggers
    <2>2. Bit(Clearing(c)) = 0 /\ Bit(Clearing(c))' = 0
        BY <1>2 DEF Clearing, Bit, TailLabel
    <2>3. Triggers(c)' <= Owed(c)' + Bit(Clearing(c))'
        BY <1>2, <2>1, <2>2 DEF EchoesOK
    <2> QED
        BY <1>2, <2>3 DEF EchoesOK, TailLabel
<1>3. CASE ReceiveEvent(c) /\ pc'[c] = "check"
    <2>1. pc[c] = "idle" /\ delivered'[c] = delivered[c] + 1 /\ UNCHANGED <<undo_trigger, redo_trigger>>
        BY <1>1, <1>3 DEF ReceiveEvent, Deliver, At, TypeOK, ServiceTypes
    <2> QED
        BY <1>1, <1>2, <1>3, <2>1, HandlerAwaits
<1>4. CASE CheckConflict(c) /\ pc'[c] = "dispatch"
    <2>1. pc[c] = "check" /\ delivered' = delivered /\ UNCHANGED <<undo_trigger, redo_trigger>>
        BY <1>4 DEF CheckConflict, At
    <2> QED
        BY <1>1, <1>2, <1>4, <2>1, HandlerAwaits DEF Deciding
<1>5. CASE Counts(c) /\ pc'[c] \in TailLabel \cup {"idle"}
    <2>1. pc[c] \in TailLabel /\ delivered' = delivered /\ UNCHANGED <<undo_trigger, redo_trigger>>
        BY <1>5, CountsFrame
    <2> QED
        BY <1>1, <1>2, <1>5, <2>1, HandlerAwaits DEF Deciding, TailLabel
<1> QED
    BY <1>3, <1>4, <1>5, WriterHandles, RouteEchoes, RecordEchoes, ClearEchoes

(* Putting an event in order moves it from the outbox to the log.           *)
LEMMA ServiceEchoes ==
    ASSUME TypeOK, NEW c \in Clients, EchoesOK(c), Service(c)
    PROVE  EchoesOK(c)'
<1>1. /\ log \in Seq(Event) /\ outbox[c] \in Seq(Event) /\ outbox[c] # <<>>
      /\ log' = Append(log, Head(outbox[c])) /\ outbox'[c] = Tail(outbox[c])
      /\ UNCHANGED <<delivered, pc, undo_trigger, redo_trigger, method>>
    BY DEF Service, Order, TypeOK, ServiceTypes
<1> DEFINE o == Len(outbox[c])
           l == Len(log)
           n == Recorded(c)
<1>2. o \in Nat /\ o > 0 /\ Len(outbox'[c]) = o - 1 /\ l \in Nat /\ Len(log') = l + 1
    BY <1>1, EmptySeq
<1>3. Recorded(c)' = n /\ n \in Nat
    BY <1>1, EchoTypes DEF Recorded, Deciding
<1>4. Awaited(c) = o + (l - n) /\ Awaited(c)' = (o - 1) + ((l + 1) - n)
    BY <1>2, <1>3 DEF Awaited
<1> HIDE DEF o, l, n
<1>5. Awaited(c)' = Awaited(c)
    BY <1>2, <1>3, <1>4
<1>6. Owed(c)' = Owed(c)
    BY <1>1, <1>5 DEF Owed, Unsent, Reverses, Bit
<1>7. Owed(c) \in Nat
    BY EchoTypes
<1> QED
    BY <1>1, <1>6, <1>7, EchoesKept

LEMMA StepEchoes ==
    ASSUME TypeOK, OneWriter, EchoInv, [Next]_vars
    PROVE  EchoInv'
<1>1. SoloInv' /\ SoloInv /\ Authors
    BY StepSolo DEF EchoInv, SoloInv, WatchInv
<1>2. ASSUME NEW d \in Writers, d \in Clients, Untouched(d), log' = log, EchoesOK(d)
      PROVE  EchoesOK(d)'
    <2>1. Owed(d)' = Owed(d)
        BY <1>2 DEF Owed, Awaited, Recorded, Deciding, Unsent, Reverses, Bit, Untouched
    <2> QED
        BY <1>2, <2>1, EchoTypes, EchoesKept DEF Untouched
<1>3. CASE UNCHANGED vars
    <2>1. ASSUME NEW d \in Writers PROVE EchoesOK(d)'
        <3>1. d \in Clients /\ Untouched(d) /\ log' = log
            BY <1>3, WritersAssumption DEF vars, Untouched
        <3> QED
            BY <1>2, <3>1 DEF EchoInv
    <2> QED
        BY <1>1, <1>3, <2>1 DEF vars, EchoInv
<1>4. ASSUME NEW c \in Clients, Service(c) PROVE EchoInv'
    <2>1. outbox[c] # <<>> /\ UNCHANGED <<undo_trigger, redo_trigger>>
        BY <1>4 DEF Service, Order
    <2>2. c \in Writers
        BY <1>1, <2>1 DEF SoloInv, Watchers
    <2>3. EchoesOK(c)'
        BY <1>4, <2>2, ServiceEchoes DEF EchoInv
    <2> QED
        BY <1>1, <2>1, <2>2, <2>3 DEF EchoInv, OneWriter
<1>5. ASSUME NEW c \in Clients,
             UserInput(c) \/ MainThread(c) \/ ReceiveEvent(c) \/ ReceiveHandler(c)
      PROVE  EchoInv'
    <2>1. ASSUME NEW d \in Clients, d # c PROVE Untouched(d) /\ log' = log
        BY <1>5, <2>1, StepUntouched
    <2>2. CASE c \in Writers
        <3>1. EchoesOK(c)'
            BY <1>1, <1>5, <2>2, MainThreadEchoes, HandlerEchoes, AllOwn DEF EchoInv, SoloInv, OneWriter
        <3>2. \A d \in Watchers : ~ undo_trigger'[d] /\ ~ redo_trigger'[d]
            BY <2>1, <2>2 DEF EchoInv, Watchers, Untouched
        <3> QED
            BY <1>1, <2>2, <3>1, <3>2 DEF EchoInv, OneWriter
    <2>3. CASE c \in Watchers
        <3>1. ReceiveEvent(c) \/ ReceiveHandler(c) \/ RunBlock(c)
            BY <1>1, <1>5, <2>3, WatcherPassive DEF MainThread
        <3>2. ~ ClearTrigger(c)
            BY <1>1, <2>3 DEF SoloInv, WatchInv, WatcherOK, WatchLabel, TailLabel, ClearTrigger
        <3>3. UNCHANGED <<undo_trigger, redo_trigger>>
            BY <3>1, <3>2, HandlerMoves DEF RunBlock, ReceiveEvent
        <3>4. ASSUME NEW d \in Writers PROVE EchoesOK(d)'
            <4>1. d \in Clients /\ d # c
                BY <2>3, WritersAssumption DEF Watchers
            <4>2. Untouched(d) /\ log' = log
                BY <2>1, <4>1
            <4> QED
                BY <1>2, <4>1, <4>2 DEF EchoInv
        <3> QED
            BY <1>1, <3>3, <3>4 DEF EchoInv
    <2> QED
        BY <2>2, <2>3 DEF Watchers
<1> QED
    BY <1>3, <1>4, <1>5 DEF Next, ClientStep

LEMMA InitEchoes == ASSUME Init PROVE EchoInv
<1>1. SoloInv
    BY InitSolo
<1>2. ASSUME NEW c \in Clients
      PROVE  /\ ~ undo_trigger[c] /\ ~ redo_trigger[c] /\ pc[c] = "idle"
             /\ delivered[c] = 0 /\ outbox[c] = <<>> /\ log = <<>> /\ method[c].step = "free"
    BY DEF Init, ServiceInit, Free
<1>3. ASSUME NEW c \in Clients PROVE Triggers(c) = 0 /\ Owed(c) = 0 /\ Bit(Clearing(c)) = 0
    <2>1. Triggers(c) = 0 /\ Bit(Clearing(c)) = 0 /\ Bit(Unsent(c)) = 0
        BY <1>2 DEF Triggers, Clearing, Unsent, Bit
    <2>2. Recorded(c) = 0 /\ Len(outbox[c]) = 0 /\ Len(log) = 0
        BY <1>2 DEF Recorded, Deciding
    <2>3. Awaited(c) = 0 + (0 - 0)
        BY <2>2, Zenon DEF Awaited
    <2> QED
        BY <2>1, <2>3 DEF Owed
<1> QED
    BY <1>1, <1>2, <1>3, WritersAssumption DEF EchoInv, EchoesOK, Watchers

(* The triggers as the property counts them, and the echoes.                *)
LEMMA TriggersCounted ==
    ASSUME NEW u \in BOOLEAN, NEW r \in BOOLEAN
    PROVE  Cardinality({t \in {"undo", "redo"} : IF t = "undo" THEN u ELSE r}) = Bit(u) + Bit(r)
<1> DEFINE set == {t \in {"undo", "redo"} : IF t = "undo" THEN u ELSE r}
<1>1. CASE u /\ r
    <2>1. set = {"undo", "redo"}
        BY <1>1
    <2>2. Cardinality({"undo"}) = 1 /\ IsFiniteSet({"undo"}) /\ "redo" \notin {"undo"}
        BY FS_Singleton
    <2>3. Cardinality({"undo"} \cup {"redo"}) = 2
        BY <2>2, FS_AddElement
    <2>4. {"undo"} \cup {"redo"} = {"undo", "redo"}
        OBVIOUS
    <2> QED
        BY <1>1, <2>1, <2>3, <2>4 DEF Bit
<1>2. CASE u /\ ~ r
    <2>1. set = {"undo"}
        BY <1>2
    <2> QED
        BY <1>2, <2>1, FS_Singleton DEF Bit
<1>3. CASE ~ u /\ r
    <2>1. set = {"redo"}
        BY <1>3
    <2> QED
        BY <1>3, <2>1, FS_Singleton DEF Bit
<1>4. CASE ~ u /\ ~ r
    <2>1. set = {}
        BY <1>4
    <2> QED
        BY <1>4, <2>1, FS_EmptySet DEF Bit
<1> QED
    BY <1>1, <1>2, <1>3, <1>4

LEMMA EchoesAwaited ==
    ASSUME TypeOK, OneWriter, EchoInv
    PROVE  TriggerAwaitsEcho
<1>1. ASSUME NEW c \in Clients PROVE Triggers(c) <= Owed(c) + Bit(Clearing(c))
    <2>1. CASE c \in Writers
        BY <2>1 DEF EchoInv, EchoesOK
    <2>2. CASE c \in Watchers
        <3>1. Triggers(c) = 0
            BY <2>2 DEF EchoInv, Triggers, Bit
        <3> QED
            BY <3>1, EchoTypes
    <2> QED
        BY <2>1, <2>2 DEF Watchers
<1>2. ASSUME NEW c \in Clients
      PROVE  Cardinality({t \in {"undo", "redo"} :
                             IF t = "undo" THEN undo_trigger[c] ELSE redo_trigger[c]}) = Triggers(c)
    BY EchoTypes, TriggersCounted DEF Triggers
<1>3. ASSUME NEW c \in Clients
      PROVE  Owed(c) + Bit(Clearing(c))
               = Len(outbox[c]) + Len(log) - Recorded(c) + Bit(Unsent(c)) + Bit(Clearing(c))
    <2> DEFINE o == Len(outbox[c])
               l == Len(log)
               n == Recorded(c)
               b == Bit(Unsent(c))
               k == Bit(Clearing(c))
    <2>1. Owed(c) = (o + (l - n)) + b
        BY DEF Owed, Awaited
    <2>2. o \in Nat /\ l \in Nat /\ n \in Nat /\ b \in Nat /\ k \in Nat
        BY EchoTypes
    <2> HIDE DEF o, l, n, b, k
    <2>3. Owed(c) + k = o + l - n + b + k
        BY <2>1, <2>2
    <2> QED
        BY <2>3 DEF o, l, n, b, k
<1> QED
    BY <1>1, <1>2, <1>3 DEF TriggerAwaitsEcho, Unsent, Clearing

(* While one user types and broadcasts are accepted, a trigger that is set  *)
(* has its echo still to come, however the handler and undo: interleave     *)
(* (ViewController.mm:319-331, 528, 599).                                   *)
THEOREM SoloTriggers == ASSUME OneWriter PROVE Spec => []TriggerAwaitsEcho
<1>1. Init => EchoInv
    BY InitEchoes
<1>2. TypeOK /\ EchoInv /\ [Next]_vars => EchoInv'
    BY StepEchoes
<1>3. TypeOK /\ EchoInv => TriggerAwaitsEcho
    BY EchoesAwaited
<1> QED
    BY <1>1, <1>2, <1>3, TypeCorrect, PTL DEF Spec

=============================================================================
