--------------------------- MODULE ViewController ---------------------------
(***************************************************************************)
(* The collaborative editor: ViewController.mm, one instance per client.    *)
(*                                                                          *)
(* Two threads touch a client's state.  The main thread runs the text-view  *)
(* delegate, the burst timer, undo and redo, and the blocks the receive     *)
(* handler dispatches; the service's callback thread runs the receive       *)
(* handler.  Nothing locks.  Both threads read and write the history, the   *)
(* counter latest_orderID, the two stacks, the triggers and the buttons: on *)
(* either thread each access to one of these is an action of its own, and   *)
(* method and pc say where a thread stands between two of them.  The text,  *)
(* the selection and the burst belong to the main thread alone: a change of *)
(* these goes with an access next to it.                                    *)
(* A raised NSException or a nil dereference ends the client: alive.        *)
(*                                                                          *)
(* An operator introduced as a slip is what an easy mistake would make of   *)
(* the definition right after it; no action uses it, and PROJECT.json names *)
(* the property that would notice it.                                       *)
(***************************************************************************)
EXTENDS TextEvents, Collabrify, SequencesExt

CONSTANTS
    Writers,        \* the clients whose user types; the others only watch
    Replacements,   \* the texts a user enters in one go (a key, or a paste)
    MaxSelection,   \* bound on the length of a selection
    MaxInputs       \* bound on each kind of input of each client

InputKind == {"key", "move", "undo", "redo"}

ASSUME WritersAssumption == Writers \subseteq Clients
ASSUME ReplacementsAssumption == Replacements \subseteq Seq(Char) \ {<<>>}
ASSUME BoundsAssumption == MaxSelection \in Nat /\ MaxInputs \in [Clients -> [InputKind -> Nat]]
ASSUME OutcomesAssumption == BroadcastOutcomes \subseteq BOOLEAN

VARIABLES
    \* the screen
    text, selection, mainQueue,
    \* the burst being typed
    currentEventString, currentEventType, eventDelay,
    \* undo and redo
    undoStack, redoStack, undo_trigger, redo_trigger, undoEnabled, redoEnabled,
    \* the main-thread method under way, and its locals
    method,
    \* the history
    globalStack, latest_orderID,
    \* the receive handler's locals
    pc, count, tempStack, read_orderID,
    \* whether the program still runs, and the inputs spent
    alive, used

screenVars  == <<text, selection, mainQueue>>
burstVars   == <<currentEventString, currentEventType, eventDelay>>
stackVars   == <<undoStack, redoStack, undo_trigger, redo_trigger>>
buttonVars  == <<undoEnabled, redoEnabled>>
undoVars    == <<stackVars, buttonVars>>
historyVars == <<globalStack, latest_orderID>>
handlerVars == <<pc, count, tempStack, read_orderID>>
vars == <<serviceVars, screenVars, burstVars, undoVars, method, historyVars, handlerVars,
          alive, used>>

NoEvent == [type |-> "none"]

(* What the main thread is doing: kind says which method, step what it does *)
(* next, event what it reverses or sends, orderID the counter it has read,  *)
(* begin and end the locals of undo: and redo:.  Free is doing nothing.     *)
Free == [kind |-> "none", step |-> "free", event |-> NoEvent, orderID |-> 0,
         begin |-> 0, end |-> 0]

Init ==
    /\ ServiceInit(Clients)
    /\ text = [c \in Clients |-> <<>>]
    /\ selection = [c \in Clients |-> [loc |-> 0, len |-> 0]]
    /\ mainQueue = [c \in Clients |-> <<>>]
    /\ currentEventString = [c \in Clients |-> <<>>]
    /\ currentEventType = [c \in Clients |-> INSERT]
    /\ eventDelay = [c \in Clients |-> FALSE]
    /\ undoStack = [c \in Clients |-> <<>>]
    /\ redoStack = [c \in Clients |-> <<>>]
    /\ undo_trigger = [c \in Clients |-> FALSE]
    /\ redo_trigger = [c \in Clients |-> FALSE]
    /\ undoEnabled = [c \in Clients |-> FALSE]
    /\ redoEnabled = [c \in Clients |-> FALSE]
    /\ method = [c \in Clients |-> Free]
    /\ globalStack = [c \in Clients |-> <<>>]
    /\ latest_orderID = [c \in Clients |-> 0]
    /\ pc = [c \in Clients |-> "idle"]
    /\ count = [c \in Clients |-> 0]
    /\ tempStack = [c \in Clients |-> <<>>]
    /\ read_orderID = [c \in Clients |-> 0]
    /\ alive = [c \in Clients |-> TRUE]
    /\ used = [c \in Clients |-> [k \in InputKind |-> 0]]

-----------------------------------------------------------------------------
(* What the main-thread methods share.                                      *)

(* The main thread can start a method: none is half-way.                    *)
Responsive(c) == alive[c] /\ method[c].step = "free"

(* It is about to take the step of this name.                               *)
Doing(c, step) == alive[c] /\ method[c].step = step
Then(c, step) == method' = [method EXCEPT ![c].step = step]
Return(c) == method' = [method EXCEPT ![c] = Free]

Reverses(c) == method[c].kind \in {"undo", "redo"}

Input(c, kind) ==
    /\ c \in Writers
    /\ Responsive(c)
    /\ used[c][kind] < MaxInputs[c][kind]
    /\ used' = [used EXCEPT ![c][kind] = @ + 1]

Crash(c) == alive' = [alive EXCEPT ![c] = FALSE]

(* The view's text becomes t with the caret at location loc.                *)
Display(c, t, loc) ==
    /\ text' = [text EXCEPT ![c] = t]
    /\ selection' = [selection EXCEPT ![c] = [loc |-> loc, len |-> 0]]

(* UIKit performs the change it asked about: r replaces len characters.     *)
Replace(c, loc, len, r) ==
    Display(c, SubSeq(text[c], 1, loc) \o r \o SubSeq(text[c], loc + len + 1, Len(text[c])),
            loc + Len(r))

(* Slip: the location of a removal is not corrected.                        *)
BurstEventUncorrected(c) ==
    MakeEvent(c, currentEventType[c], selection[c].loc - Len(currentEventString[c]),
              selection[c].loc, currentEventString[c])

(* The event of the pending burst.  Its location is computed now, from      *)
(* where the caret is now.                                                  *)
BurstEvent(c) ==
    LET n   == Len(currentEventString[c])
        loc == selection[c].loc
    IN  IF currentEventType[c] = REMOVE
        THEN MakeEvent(c, REMOVE, loc, loc + n, currentEventString[c])
        ELSE MakeEvent(c, INSERT, loc - n, loc, currentEventString[c])

(* broadcastEvent: sends the burst and begins a new one; counting the event *)
(* and putting it in the history come after.  kind is who called it.  The   *)
(* result -1 of a failed broadcast is ignored.                              *)
SendBurst(c, kind) ==
    /\ Broadcast(c, BurstEvent(c))
    /\ currentEventString' = [currentEventString EXCEPT ![c] = <<>>]
    /\ currentEventType' = [currentEventType EXCEPT ![c] = INSERT]
    /\ method' = [method EXCEPT ![c] =
          [Free EXCEPT !.kind = kind, !.step = "count", !.event = BurstEvent(c)]]

(* latest_orderID++ is a read and a write with no lock.                     *)
ReadOrderID(c) ==
    /\ Doing(c, "count")
    /\ method' = [method EXCEPT ![c].orderID = latest_orderID[c], ![c].step = "increment"]
    /\ UNCHANGED <<serviceVars, screenVars, burstVars, undoVars, historyVars, handlerVars,
                   alive, used>>

WriteOrderID(c) ==
    /\ Doing(c, "increment")
    /\ latest_orderID' = [latest_orderID EXCEPT ![c] = method[c].orderID + 1]
    /\ method' = [method EXCEPT ![c].orderID = 0,
                                ![c].step = IF Reverses(c) THEN "send" ELSE "append"]
    /\ UNCHANGED <<serviceVars, screenVars, burstVars, undoVars, globalStack, handlerVars,
                   alive, used>>

(* Slip: the event is not put in the history.                               *)
RecordsNothing(c) == UNCHANGED globalStack

RecordsEvent(c) == globalStack' = [globalStack EXCEPT ![c] = Append(@, method[c].event)]

(* The end of broadcastEvent:, which returns to the timer or to the key.    *)
RecordBurst(c) ==
    /\ Doing(c, "append") /\ ~ Reverses(c)
    /\ RecordsEvent(c)
    /\ method' = [method EXCEPT ![c] =
          IF @.kind = "timer" THEN Free ELSE [Free EXCEPT !.kind = method[c].kind, !.step = "key"]]
    /\ UNCHANGED <<serviceVars, screenVars, burstVars, undoVars, latest_orderID, handlerVars,
                   alive, used>>

-----------------------------------------------------------------------------
(* textView:shouldChangeTextInRange:replacementText: and the change UIKit   *)
(* makes when it answers YES.  A range longer than 1 is answered NO before  *)
(* anything changes.                                                        *)

(* What every key does first: the undo button and the timer.                *)
KeyPressed(c) ==
    /\ Input(c, "key")
    /\ selection[c].len <= 1
    /\ undoEnabled' = [undoEnabled EXCEPT ![c] = TRUE]
    /\ eventDelay' = [eventDelay EXCEPT ![c] = TRUE]
    /\ UNCHANGED <<log, delivered, mainQueue, stackVars, redoEnabled, historyVars, handlerVars>>

AtStart(c) == selection[c] = [loc |-> 0, len |-> 0]

(* Backspace at the very start is refused, but only after the undo button   *)
(* was enabled and the timer armed.                                         *)
RefuseBackspace(c) ==
    /\ AtStart(c)
    /\ KeyPressed(c)
    /\ UNCHANGED <<outbox, text, selection, currentEventType, currentEventString, method, alive>>

(* A key of the other kind ends the pending burst: it is sent before the    *)
(* key itself is looked at.                                                 *)
EndsBurst(c, type) == currentEventType[c] # type /\ currentEventString[c] # <<>>

FlushBurst(c, type) ==
    /\ EndsBurst(c, type)
    /\ type = REMOVE => ~ AtStart(c)
    /\ KeyPressed(c)
    /\ SendBurst(c, type)
    /\ UNCHANGED <<text, selection, alive>>

(* Typing or pasting r: only its first character is recorded.               *)
Insert(c, r) ==
    /\ currentEventType' = [currentEventType EXCEPT ![c] = INSERT]
    /\ currentEventString' = [currentEventString EXCEPT ![c] = Append(@, Head(r))]
    /\ Replace(c, selection[c].loc, selection[c].len, r)
    /\ UNCHANGED alive

(* The backspace key: the range is the selection, or the character before   *)
(* the caret.  The code records the character before the caret either way:  *)
(* for a selected first character characterAtIndex:-1 raises.               *)
Erase(c) ==
    LET loc == selection[c].loc
    IN  /\ currentEventType' = [currentEventType EXCEPT ![c] = REMOVE]
        /\ IF loc = 0
           THEN Crash(c) /\ UNCHANGED <<text, selection, currentEventString>>
           ELSE /\ currentEventString' = [currentEventString EXCEPT ![c] = <<text[c][loc]>> \o @]
                /\ IF selection[c].len = 0 THEN Replace(c, loc - 1, 1, <<>>)
                                           ELSE Replace(c, loc, 1, <<>>)
                /\ UNCHANGED alive

TypeText(c, r) ==
    /\ ~ EndsBurst(c, INSERT)
    /\ KeyPressed(c)
    /\ Insert(c, r)
    /\ UNCHANGED <<outbox, method>>

DeleteText(c) ==
    /\ ~ EndsBurst(c, REMOVE) /\ ~ AtStart(c)
    /\ KeyPressed(c)
    /\ Erase(c)
    /\ UNCHANGED <<outbox, method>>

(* The key that ended a burst, once the burst is in the history.            *)
ResumeKey(c) ==
    /\ Doing(c, "key")
    /\ \/ method[c].kind = INSERT /\ \E r \in Replacements : Insert(c, r)
       \/ method[c].kind = REMOVE /\ Erase(c)
    /\ Return(c)
    /\ UNCHANGED <<serviceVars, mainQueue, eventDelay, undoVars, historyVars, handlerVars, used>>

MoveCursor(c) ==
    /\ Input(c, "move")
    /\ \E loc \in 0 .. Len(text[c]), len \in 0 .. MaxSelection :
          /\ loc + len <= Len(text[c])
          /\ [loc |-> loc, len |-> len] # selection[c]
          /\ selection' = [selection EXCEPT ![c] = [loc |-> loc, len |-> len]]
    /\ UNCHANGED <<serviceVars, text, mainQueue, burstVars, undoVars, method, historyVars,
                   handlerVars, alive>>

(* Slip: an empty burst is skipped, its timer left armed.                   *)
TimerDueUnlessEmpty(c) == eventDelay[c] /\ currentEventString[c] # <<>>

TimerDue(c) == eventDelay[c]

(* The timer fires: the burst, empty or not, is broadcast.                  *)
TimerFires(c) ==
    /\ Responsive(c)
    /\ TimerDue(c)
    /\ eventDelay' = [eventDelay EXCEPT ![c] = FALSE]
    /\ SendBurst(c, "timer")
    /\ UNCHANGED <<log, delivered, screenVars, undoVars, historyVars, handlerVars, alive, used>>

-----------------------------------------------------------------------------
(* undo: and redo: are the same code on the two stacks.                     *)

(* The button, the test of the count and lastObject: the handler only adds  *)
(* to a stack, so one seen not empty is not empty when it is read.          *)
StartReversal(c, kind, enabled, stack) ==
    /\ enabled /\ stack # <<>>
    /\ Input(c, kind)
    /\ method' = [method EXCEPT ![c] =
          [Free EXCEPT !.kind = kind, !.step = "remove", !.begin = Last(stack) + 1]]
    /\ UNCHANGED <<serviceVars, screenVars, burstVars, undoVars, historyVars, handlerVars, alive>>

Undo(c) == StartReversal(c, "undo", undoEnabled[c], undoStack[c])

Redo(c) == StartReversal(c, "redo", redoEnabled[c], redoStack[c])

(* Slip: lastObject without removeLastObject.                               *)
PoppedLeft(stack) == stack

Popped(stack) == Front(stack)

(* removeLastObject takes off whatever is last by now.                      *)
RemoveID(c) ==
    /\ Doing(c, "remove")
    /\ undoStack' = [undoStack EXCEPT ![c] = IF method[c].kind = "undo" THEN Popped(@) ELSE @]
    /\ redoStack' = [redoStack EXCEPT ![c] = IF method[c].kind = "redo" THEN Popped(@) ELSE @]
    /\ Then(c, "find")
    /\ UNCHANGED <<serviceVars, screenVars, burstVars, undo_trigger, redo_trigger, buttonVars,
                   historyVars, handlerVars, alive, used>>

(* The id names the event to reverse; objectAtIndex: raises when the        *)
(* history has no such index.                                               *)
FindEvent(c) ==
    /\ Doing(c, "find")
    /\ IF method[c].begin <= Len(globalStack[c])
       THEN /\ method' = [method EXCEPT ![c].event = globalStack[c][method[c].begin],
                                        ![c].step = "measure"]
            /\ UNCHANGED alive
       ELSE Crash(c) /\ UNCHANGED method
    /\ UNCHANGED <<serviceVars, screenVars, burstVars, undoVars, historyVars, handlerVars, used>>

(* The offset loop goes up to the length the history has now ...            *)
MeasureHistory(c) ==
    /\ Doing(c, "measure")
    /\ method' = [method EXCEPT ![c].end = Len(globalStack[c]), ![c].step = "shift"]
    /\ UNCHANGED <<serviceVars, screenVars, burstVars, undoVars, historyVars, handlerVars,
                   alive, used>>

(* ... one event a turn.  The handler may have shortened the history since: *)
(* objectAtIndex: raises.                                                   *)
ShiftReversal(c) ==
    LET m == method[c]
    IN  /\ Doing(c, "shift") /\ m.begin # m.end
        /\ IF m.begin < Len(globalStack[c])
           THEN /\ method' = [method EXCEPT
                      ![c].event = ShiftPast(globalStack[c][m.begin + 1], @),
                      ![c].begin = @ + 1]
                /\ UNCHANGED alive
           ELSE Crash(c) /\ UNCHANGED method
        /\ UNCHANGED <<serviceVars, screenVars, burstVars, undoVars, historyVars, handlerVars,
                       used>>

(* After the loop the trigger is set; the counter follows (ReadOrderID).    *)
SetTrigger(c) ==
    LET m == method[c]
    IN  /\ Doing(c, "shift") /\ m.begin = m.end
        /\ undo_trigger' = [undo_trigger EXCEPT ![c] = @ \/ m.kind = "undo"]
        /\ redo_trigger' = [redo_trigger EXCEPT ![c] = @ \/ m.kind = "redo"]
        /\ method' = [method EXCEPT ![c] =
              [Free EXCEPT !.kind = m.kind, !.step = "count", !.event = ReverseEvent(m.event)]]
        /\ UNCHANGED <<serviceVars, screenVars, burstVars, undoStack, redoStack, buttonVars,
                       historyVars, handlerVars, alive, used>>

SendReversal(c) ==
    /\ Doing(c, "send")
    /\ Broadcast(c, method[c].event)
    /\ Then(c, "append")
    /\ UNCHANGED <<log, delivered, screenVars, burstVars, undoVars, historyVars, handlerVars,
                   alive, used>>

(* Only now is the event applied to this screen, which may raise, and put   *)
(* in the history.                                                          *)
ApplyReversal(c) ==
    LET e == method[c].event
    IN  /\ Doing(c, "append") /\ Reverses(c)
        /\ IF InText(text[c], e)
           THEN /\ LET t == ApplyEvent(text[c], e) IN Display(c, t, Len(t))
                /\ RecordsEvent(c)
                /\ method' = [method EXCEPT ![c] =
                      [Free EXCEPT !.kind = method[c].kind, !.step = "test"]]
                /\ UNCHANGED alive
           ELSE Crash(c) /\ UNCHANGED <<text, selection, globalStack, method>>
        /\ UNCHANGED <<serviceVars, mainQueue, burstVars, undoVars, latest_orderID, handlerVars,
                       used>>

(* The buttons: the own one is disabled after a test of the stack, the      *)
(* other one is enabled.  The code tests isEnabled first: when the answer   *)
(* is YES, the moment of the test is the one at which this action leaves    *)
(* the button as it is.                                                     *)
TestStack(c) ==
    /\ Doing(c, "test")
    /\ LET stack == IF method[c].kind = "undo" THEN undoStack[c] ELSE redoStack[c]
       IN  Then(c, IF stack = <<>> THEN "disable" ELSE "enable")
    /\ UNCHANGED <<serviceVars, screenVars, burstVars, undoVars, historyVars, handlerVars,
                   alive, used>>

DisableButton(c) ==
    /\ Doing(c, "disable")
    /\ undoEnabled' = [undoEnabled EXCEPT ![c] = @ /\ method[c].kind # "undo"]
    /\ redoEnabled' = [redoEnabled EXCEPT ![c] = @ /\ method[c].kind # "redo"]
    /\ Then(c, "enable")
    /\ UNCHANGED <<serviceVars, screenVars, burstVars, stackVars, historyVars, handlerVars,
                   alive, used>>

EnableButton(c) ==
    /\ Doing(c, "enable")
    /\ undoEnabled' = [undoEnabled EXCEPT ![c] = @ \/ method[c].kind = "redo"]
    /\ redoEnabled' = [redoEnabled EXCEPT ![c] = @ \/ method[c].kind = "undo"]
    /\ Return(c)
    /\ UNCHANGED <<serviceVars, screenVars, burstVars, stackVars, historyVars, handlerVars,
                   alive, used>>

-----------------------------------------------------------------------------
(* client:receivedEventWithOrderID:...: on the callback thread.             *)

Received(c) == log[delivered[c]]
OrderID(c) == delivered[c] - 1

At(c, label) == alive[c] /\ pc[c] = label
Goto(c, label) == pc' = [pc EXCEPT ![c] = label]

(* A block dispatched to the main queue holds the event to apply, or, in    *)
(* the reapplying branch, this invocation's tempStack: what is its last     *)
(* object is looked up when the block runs.                                 *)
ApplyBlock(e) == [kind |-> "apply", event |-> e]
LazyBlock(id) == [kind |-> "lazy", orderID |-> id]

(* Slip: the newest block runs first.                                       *)
DispatchFirst(c, block) == mainQueue' = [mainQueue EXCEPT ![c] = <<block>> \o @]

Dispatch(c, block) == mainQueue' = [mainQueue EXCEPT ![c] = Append(@, block)]

ReceiveEvent(c) ==
    /\ At(c, "idle")
    /\ Deliver(c)
    /\ latest_orderID' = [latest_orderID EXCEPT ![c] = delivered[c]]
    /\ Goto(c, "check")
    /\ UNCHANGED <<log, outbox, screenVars, burstVars, undoVars, method, globalStack, count,
                   tempStack, read_orderID, alive, used>>

(* Slip: any event in the received one's place is a conflict.               *)
ConflictWithAny(c) == Len(globalStack[c]) > OrderID(c)

(* There is a conflict when another user's event is in the received one's   *)
(* place.  The main thread only appends meanwhile: an event found in its    *)
(* place stays there, and count may be read with the same effect as last.   *)
Conflict(c) ==
    /\ Len(globalStack[c]) > OrderID(c)
    /\ globalStack[c][delivered[c]].user # Received(c).user

CheckConflict(c) ==
    /\ At(c, "check")
    /\ IF Conflict(c)
       THEN /\ Goto(c, "pop")
            /\ count' = [count EXCEPT ![c] = Len(globalStack[c])]
       ELSE Goto(c, "dispatch") /\ UNCHANGED count
    /\ UNCHANGED <<serviceVars, screenVars, burstVars, undoVars, method, historyVars,
                   tempStack, read_orderID, alive, used>>

(* Slips: a turn too many, a turn too few, and popping the whole history.   *)
PopsOneTooMany(c) == count[c] - 1 >= OrderID(c)
PopsOneTooFew(c) == count[c] - 2 > OrderID(c)
PopsAll(c) == count[c] - 1 > 0

MoreToPop(c) == count[c] - 1 > OrderID(c)

(* One turn of the popping loop looks at the newest event three times: to   *)
(* reverse it on screen, to save it, and to remove it.  The main thread may *)
(* append in between.                                                       *)
PopConflict(c) ==
    /\ At(c, "pop")
    /\ Dispatch(c, ApplyBlock(ReverseEvent(Last(globalStack[c]))))
    /\ Goto(c, "save")
    /\ UNCHANGED <<serviceVars, text, selection, burstVars, undoVars, method, historyVars,
                   count, tempStack, read_orderID, alive, used>>

SavePopped(c) ==
    /\ At(c, "save")
    /\ tempStack' = [tempStack EXCEPT ![c] = Append(@, Last(globalStack[c]))]
    /\ Goto(c, "remove")
    /\ UNCHANGED <<serviceVars, screenVars, burstVars, undoVars, method, historyVars, count,
                   read_orderID, alive, used>>

RemovePopped(c) ==
    /\ At(c, "remove")
    /\ globalStack' = [globalStack EXCEPT ![c] = Front(@)]
    /\ count' = [count EXCEPT ![c] = @ - 1]
    /\ Goto(c, IF MoreToPop(c) THEN "pop" ELSE "dispatch")
    /\ UNCHANGED <<serviceVars, screenVars, burstVars, undoVars, method, latest_orderID,
                   tempStack, read_orderID, alive, used>>

DispatchForeign(c) ==
    /\ At(c, "dispatch")
    /\ Received(c).user # c
    /\ Dispatch(c, ApplyBlock(Received(c)))
    /\ Goto(c, "append")
    /\ UNCHANGED <<serviceVars, text, selection, burstVars, undoVars, method, historyVars,
                   count, tempStack, read_orderID, alive, used>>

AppendForeign(c) ==
    /\ At(c, "append")
    /\ globalStack' = [globalStack EXCEPT ![c] = Append(@, Received(c))]
    /\ Goto(c, "count")
    /\ UNCHANGED <<serviceVars, screenVars, burstVars, undoVars, method, latest_orderID, count,
                   tempStack, read_orderID, alive, used>>

(* An own event that met a conflict: the popped events are to be applied    *)
(* again, each by a block and then a removal from tempStack.                *)
DispatchPopped(c) ==
    /\ At(c, "dispatch")
    /\ Received(c).user = c
    /\ tempStack[c] # <<>>
    /\ Dispatch(c, LazyBlock(OrderID(c)))
    /\ Goto(c, "drop")
    /\ UNCHANGED <<serviceVars, text, selection, burstVars, undoVars, method, historyVars,
                   count, tempStack, read_orderID, alive, used>>

DropPopped(c) ==
    /\ At(c, "drop")
    /\ tempStack' = [tempStack EXCEPT ![c] = Front(@)]
    /\ Goto(c, IF Len(tempStack[c]) > 1 THEN "dispatch" ELSE "count")
    /\ UNCHANGED <<serviceVars, screenVars, burstVars, undoVars, method, historyVars, count,
                   read_orderID, alive, used>>

(* An own event: the triggers, one after the other, choose the stack its id *)
(* goes to ...                                                              *)
RouteOwn(c) ==
    /\ At(c, "dispatch")
    /\ Received(c).user = c
    /\ tempStack[c] = <<>>
    /\ Goto(c, IF undo_trigger[c] THEN "undone" ELSE "route")
    /\ UNCHANGED <<serviceVars, screenVars, burstVars, undoVars, method, historyVars, count,
                   tempStack, read_orderID, alive, used>>

RouteRedone(c) ==
    /\ At(c, "route")
    /\ Goto(c, IF redo_trigger[c] THEN "redone" ELSE "typed")
    /\ UNCHANGED <<serviceVars, screenVars, burstVars, undoVars, method, historyVars, count,
                   tempStack, read_orderID, alive, used>>

(* Slip: the counter is read after its increment.                           *)
RecordedIDTooLate(c) == latest_orderID[c] + 1

RecordedID(c) == latest_orderID[c]

(* ... and the id pushed is the shared counter as it is by then.            *)
RecordOwn(c) ==
    /\ pc[c] \in {"undone", "redone", "typed"}
    /\ alive[c]
    /\ IF pc[c] = "undone"
       THEN /\ redoStack' = [redoStack EXCEPT ![c] = Append(@, RecordedID(c))]
            /\ UNCHANGED undoStack
       ELSE /\ undoStack' = [undoStack EXCEPT ![c] = Append(@, RecordedID(c))]
            /\ UNCHANGED redoStack
    /\ Goto(c, CASE pc[c] = "undone" -> "clearUndo"
                 [] pc[c] = "redone" -> "clearRedo"
                 [] pc[c] = "typed"  -> "count")
    /\ UNCHANGED <<serviceVars, screenVars, burstVars, undo_trigger, redo_trigger, buttonVars,
                   method, historyVars, count, tempStack, read_orderID, alive, used>>

(* Slip: a trigger once set is never reset.                                 *)
ClearsNothing(c, label) == FALSE

Clears(c, label) == pc[c] = label

ClearTrigger(c) ==
    /\ pc[c] \in {"clearUndo", "clearRedo"}
    /\ alive[c]
    /\ undo_trigger' = [undo_trigger EXCEPT ![c] = @ /\ ~ Clears(c, "clearUndo")]
    /\ redo_trigger' = [redo_trigger EXCEPT ![c] = @ /\ ~ Clears(c, "clearRedo")]
    /\ Goto(c, "count")
    /\ UNCHANGED <<serviceVars, screenVars, burstVars, undoStack, redoStack, buttonVars,
                   method, historyVars, count, tempStack, read_orderID, alive, used>>

(* latest_orderID++ again, by this thread.                                  *)
CountReceived(c) ==
    /\ At(c, "count")
    /\ read_orderID' = [read_orderID EXCEPT ![c] = latest_orderID[c]]
    /\ Goto(c, "increment")
    /\ UNCHANGED <<serviceVars, screenVars, burstVars, undoVars, method, historyVars, count,
                   tempStack, alive, used>>

AdvanceOrderID(c) ==
    /\ At(c, "increment")
    /\ latest_orderID' = [latest_orderID EXCEPT ![c] = read_orderID[c] + 1]
    /\ read_orderID' = [read_orderID EXCEPT ![c] = 0]
    /\ Goto(c, "undoCount")
    /\ UNCHANGED <<serviceVars, screenVars, burstVars, undoVars, method, globalStack, count,
                   tempStack, alive, used>>

(* The buttons are set to what the stacks were when they were counted.      *)
CountUndoStack(c) ==
    /\ At(c, "undoCount")
    /\ Goto(c, IF undoStack[c] # <<>> THEN "undoOn" ELSE "undoOff")
    /\ UNCHANGED <<serviceVars, screenVars, burstVars, undoVars, method, historyVars, count,
                   tempStack, read_orderID, alive, used>>

SetUndoButton(c) ==
    /\ pc[c] \in {"undoOn", "undoOff"} /\ alive[c]
    /\ undoEnabled' = [undoEnabled EXCEPT ![c] = pc[c] = "undoOn"]
    /\ Goto(c, "redoCount")
    /\ UNCHANGED <<serviceVars, screenVars, burstVars, stackVars, redoEnabled, method,
                   historyVars, count, tempStack, read_orderID, alive, used>>

CountRedoStack(c) ==
    /\ At(c, "redoCount")
    /\ Goto(c, IF redoStack[c] # <<>> THEN "redoOn" ELSE "redoOff")
    /\ UNCHANGED <<serviceVars, screenVars, burstVars, undoVars, method, historyVars, count,
                   tempStack, read_orderID, alive, used>>

(* Slip: the redo button is only ever switched off.                         *)
RedoStays(c) == redoEnabled[c] /\ pc[c] = "redoOn"

RedoFollows(c) == pc[c] = "redoOn"

SetRedoButton(c) ==
    /\ pc[c] \in {"redoOn", "redoOff"} /\ alive[c]
    /\ redoEnabled' = [redoEnabled EXCEPT ![c] = RedoFollows(c)]
    /\ Goto(c, "idle")
    /\ count' = [count EXCEPT ![c] = 0]
    /\ tempStack' = [tempStack EXCEPT ![c] = <<>>]
    /\ UNCHANGED <<serviceVars, screenVars, burstVars, stackVars, undoEnabled, method,
                   historyVars, read_orderID, alive, used>>

-----------------------------------------------------------------------------
(* applyEvent: in a block on the main queue.  Setting the text of the view  *)
(* moves the caret to its end.                                              *)

(* The last object of the tempStack a lazy block captured: nil once its     *)
(* invocation has emptied it.                                               *)
FindsNil(c, block) ==
    /\ block.kind = "lazy"
    /\ ~ (block.orderID = OrderID(c) /\ tempStack[c] # <<>>)

BlockEvent(c, block) == IF block.kind = "lazy" THEN Last(tempStack[c]) ELSE block.event

RunBlock(c) ==
    /\ Responsive(c)
    /\ mainQueue[c] # <<>>
    /\ mainQueue' = [mainQueue EXCEPT ![c] = Tail(@)]
    /\ LET block == Head(mainQueue[c])
       IN  IF ~ FindsNil(c, block) /\ InText(text[c], BlockEvent(c, block))
           THEN /\ LET t == ApplyEvent(text[c], BlockEvent(c, block)) IN Display(c, t, Len(t))
                /\ UNCHANGED alive
           ELSE Crash(c) /\ UNCHANGED <<text, selection>>
    /\ UNCHANGED <<serviceVars, burstVars, undoVars, method, historyVars, handlerVars, used>>

-----------------------------------------------------------------------------
UserInput(c) ==
    \/ \E type \in EventType : FlushBurst(c, type)
    \/ \E r \in Replacements : TypeText(c, r)
    \/ DeleteText(c)
    \/ RefuseBackspace(c)
    \/ MoveCursor(c)
    \/ Undo(c)
    \/ Redo(c)

(* A method already running on the main thread goes on.                     *)
ContinueMethod(c) ==
    \/ ReadOrderID(c) \/ WriteOrderID(c)
    \/ RecordBurst(c) \/ ResumeKey(c)
    \/ RemoveID(c) \/ FindEvent(c) \/ MeasureHistory(c) \/ ShiftReversal(c)
    \/ SetTrigger(c) \/ SendReversal(c) \/ ApplyReversal(c)
    \/ TestStack(c) \/ DisableButton(c) \/ EnableButton(c)

MainThread(c) == TimerFires(c) \/ RunBlock(c) \/ ContinueMethod(c)

ReceiveHandler(c) ==
    \/ CheckConflict(c) \/ PopConflict(c) \/ SavePopped(c) \/ RemovePopped(c)
    \/ DispatchForeign(c) \/ AppendForeign(c)
    \/ DispatchPopped(c) \/ DropPopped(c)
    \/ RouteOwn(c) \/ RouteRedone(c) \/ RecordOwn(c) \/ ClearTrigger(c)
    \/ CountReceived(c) \/ AdvanceOrderID(c)
    \/ CountUndoStack(c) \/ SetUndoButton(c)
    \/ CountRedoStack(c) \/ SetRedoButton(c)

Service(c) == Order(c) /\ UNCHANGED <<screenVars, burstVars, undoVars, method, historyVars,
                                      handlerVars, alive, used>>

ClientStep(c) ==
    UserInput(c) \/ MainThread(c) \/ ReceiveEvent(c) \/ ReceiveHandler(c) \/ Service(c)

Next == \E c \in Clients : ClientStep(c)

Spec == Init /\ [][Next]_vars

-----------------------------------------------------------------------------
Selection == [loc : Nat, len : Nat]
Block == [kind : {"apply"}, event : Event] \cup [kind : {"lazy"}, orderID : Int]

Kind == {"none", "timer", "undo", "redo"} \cup EventType
Step == {"free", "count", "increment", "append", "key", "remove", "find", "measure", "shift",
         "send", "test", "disable", "enable"}
Method == [kind : Kind, step : Step, event : Event \cup {NoEvent}, orderID : Nat,
           begin : Nat, end : Nat]

Label == {"idle", "check", "pop", "save", "remove", "dispatch", "append", "drop",
          "route", "undone", "redone", "typed", "clearUndo", "clearRedo", "count", "increment",
          "undoCount", "undoOn", "undoOff", "redoCount", "redoOn", "redoOff"}

ServiceTypes ==
    /\ log \in Seq(Event)
    /\ outbox \in [Clients -> Seq(Event)]
    /\ delivered \in [Clients -> Nat]

ScreenTypes ==
    /\ text \in [Clients -> Seq(Char)]
    /\ selection \in [Clients -> Selection]
    /\ mainQueue \in [Clients -> Seq(Block)]

BurstTypes ==
    /\ currentEventString \in [Clients -> Seq(Char)]
    /\ currentEventType \in [Clients -> EventType]
    /\ eventDelay \in [Clients -> BOOLEAN]

StackTypes ==
    /\ undoStack \in [Clients -> Seq(Nat)]
    /\ redoStack \in [Clients -> Seq(Nat)]
    /\ undo_trigger \in [Clients -> BOOLEAN]
    /\ redo_trigger \in [Clients -> BOOLEAN]

UndoTypes ==
    /\ undoEnabled \in [Clients -> BOOLEAN]
    /\ redoEnabled \in [Clients -> BOOLEAN]
    /\ method \in [Clients -> Method]

HistoryTypes ==
    /\ globalStack \in [Clients -> Seq(Event)]
    /\ latest_orderID \in [Clients -> Nat]

HandlerTypes ==
    /\ pc \in [Clients -> Label]
    /\ count \in [Clients -> Nat]
    /\ tempStack \in [Clients -> Seq(Event)]
    /\ read_orderID \in [Clients -> Nat]

OtherTypes ==
    /\ alive \in [Clients -> BOOLEAN]
    /\ used \in [Clients -> [InputKind -> Nat]]

(* The values that belong together fit: the selection lies in the text.     *)
SelectionFits ==
    \A c \in Clients : selection[c].loc + selection[c].len <= Len(text[c])

(* A handler at work has an event in the log, the popping loop has          *)
(* something to pop and the reapplying branch something to drop.            *)
HandlerFits ==
    \A c \in Clients :
        /\ delivered[c] <= Len(log)
        /\ pc[c] # "idle" => delivered[c] > 0
        /\ pc[c] \in {"pop", "save", "remove"} =>
              OrderID(c) < count[c] /\ count[c] <= Len(globalStack[c])
        /\ pc[c] = "drop" => tempStack[c] # <<>>

(* A method that reverses or sends has the event to, and one that is taking *)
(* an id off a stack still finds one there.                                 *)
MethodFits ==
    \A c \in Clients :
        LET m == method[c]
        IN  /\ m.step \in {"count", "increment", "append", "send", "measure", "shift"} =>
                  m.event \in Event
            /\ m.step \in {"remove", "find", "measure", "shift"} => m.begin > 0 /\ Reverses(c)
            /\ m.step = "remove" => (IF m.kind = "undo" THEN undoStack[c] ELSE redoStack[c]) # <<>>

(* Every variable holds a value of its kind, no handler reads past the end  *)
(* of an array whatever the main thread does meanwhile, and undo: and redo: *)
(* take an id off a stack that has one (ViewController.mm:287-316, 482-485).*)
TypeOK ==
    /\ ServiceTypes /\ ScreenTypes /\ BurstTypes /\ StackTypes
    /\ UndoTypes /\ HistoryTypes /\ HandlerTypes /\ OtherTypes
    /\ SelectionFits /\ HandlerFits /\ MethodFits

=============================================================================
