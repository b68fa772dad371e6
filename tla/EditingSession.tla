--------------------------- MODULE EditingSession ---------------------------
(***************************************************************************)
(* Several clients in one session: the schedules under which the editor is  *)
(* examined, and what should hold of it under each.                         *)
(*   Spec        (ViewController) the threads interleave step by step;      *)
(*   SerialSpec  a receive handler never overlaps main-thread work;         *)
(*   PoliteSpec  moreover the users take turns, and each waits until what   *)
(*               they did has reached everyone.                             *)
(***************************************************************************)
EXTENDS ViewController, FiniteSets

-----------------------------------------------------------------------------
(* Schedules.                                                               *)

HandlerIdle(c) == pc[c] = "idle"
MethodDone(c) == method[c].step = "free"

RunsByItself(c) ==
    \/ HandlerIdle(c) /\ MainThread(c)
    \/ MethodDone(c) /\ ReceiveEvent(c)
    \/ ReceiveHandler(c)
    \/ Service(c)

SerialStep(c) == RunsByItself(c) \/ (HandlerIdle(c) /\ UserInput(c))

SerialNext == \E c \in Clients : SerialStep(c)

SerialSpec == Init /\ [][SerialNext]_vars

(* Nothing is under way between the clients.                                *)
Settled(c) ==
    /\ outbox[c] = <<>>
    /\ alive[c] => /\ delivered[c] = Len(log)
                   /\ HandlerIdle(c)
                   /\ mainQueue[c] = <<>>
                   /\ MethodDone(c)

Quiet == \A c \in Clients : Settled(c)

(* A polite user acts only while nobody else types and nothing is under     *)
(* way, and leaves the caret, undo and redo alone until the own burst has   *)
(* been sent.                                                               *)
PoliteInput(c) ==
    /\ Quiet
    /\ \A d \in Clients \ {c} : alive[d] => ~ eventDelay[d]
    /\ \/ \E type \in EventType : FlushBurst(c, type)
       \/ \E r \in Replacements : TypeText(c, r)
       \/ DeleteText(c)
       \/ RefuseBackspace(c)
       \/ ~ eventDelay[c] /\ (MoveCursor(c) \/ Undo(c) \/ Redo(c))

PoliteStep(c) == RunsByItself(c) \/ PoliteInput(c)

PoliteNext == \E c \in Clients : PoliteStep(c)

(* What runs by itself does run: the timer of a user who pauses, the main   *)
(* queue, a method once begun, the callbacks, and the service for a client  *)
(* that is still there.  No user has to do anything.                        *)
Fairness ==
    \A c \in Clients :
        /\ WF_vars(HandlerIdle(c) /\ TimerFires(c))
        /\ WF_vars(HandlerIdle(c) /\ RunBlock(c))
        /\ WF_vars(HandlerIdle(c) /\ ContinueMethod(c))
        /\ WF_vars(MethodDone(c) /\ ReceiveEvent(c))
        /\ WF_vars(ReceiveHandler(c))
        /\ WF_vars(alive[c] /\ Service(c))

PoliteSafety == Init /\ [][PoliteNext]_vars

PoliteSpec == PoliteSafety /\ Fairness

FairSpec == Spec /\ Fairness

-----------------------------------------------------------------------------
(* Vocabulary of the properties.                                            *)

(* The receive handler has yet to put the event into the history or its id  *)
(* on a stack; and how many of the delivered events it is done with so far. *)
Deciding(c) == pc[c] \in {"check", "pop", "save", "remove", "dispatch", "append", "drop",
                          "route", "undone", "redone", "typed"}
Recorded(c) == IF Deciding(c) THEN delivered[c] - 1 ELSE delivered[c]

(* The event that was broadcast and is not yet in the history.              *)
Unrecorded(c) ==
    IF \/ method[c].step = "append"
       \/ ~ Reverses(c) /\ method[c].step \in {"count", "increment"}
    THEN <<method[c].event>> ELSE <<>>

(* The text a screen shows after a sequence of events.                      *)
Replay(events) == FoldLeft(ApplyEvent, <<>>, events)

OwnEvents(c, upTo) == {i \in 1 .. upTo : log[i].user = c}

StackIds(c) == undoStack[c] \o redoStack[c]

Bit(b) == IF b THEN 1 ELSE 0

-----------------------------------------------------------------------------
(* With the threads interleaving.                                           *)

(* The part of a client's history that answers to events it has already     *)
(* received is never rewritten: the popping loop (ViewController.mm:288)    *)
(* stops at the received event's place whatever the main thread appends     *)
(* meanwhile.                                                               *)
SettledHistoryKept ==
    [][\A c \in Clients :
          IsPrefix(SubSeq(globalStack[c], 1, Min({Recorded(c), Len(globalStack[c])})),
                   globalStack'[c])]_vars

(* While one user types, no race disturbs the histories: the writer's own   *)
(* history, with the event it is about to record, is the service's log      *)
(* followed by what it has still to order, and every other client's is the  *)
(* part of the log it has been handed (ViewController.mm:282-310, 388-399). *)
SoloHistories ==
    \A c \in Clients : alive[c] =>
        IF c \in Writers
        THEN globalStack[c] \o Unrecorded(c) = log \o outbox[c]
        ELSE globalStack[c] = SubSeq(log, 1, Recorded(c))

(* A client that only watches, whatever any number of writers do, is a      *)
(* screen of SharedText: the receive handler and the main queue show it the *)
(* service's log, each edit once and in order, catch up with it under       *)
(* fairness, and the program stops only at an edit outside its text         *)
(* (ViewController.mm:262-310, 409-452).                                    *)
Watchers == Clients \ Writers
Dispatched(c) == IF pc[c] = "append" THEN delivered[c] ELSE Recorded(c)
\* A block that raises was taken off the queue and showed nothing.
Shown(c) == Dispatched(c) - Len(mainQueue[c]) - (IF alive[c] THEN 0 ELSE 1)

Shared == INSTANCE SharedText WITH
    Readers <- Watchers,
    shown   <- [c \in Watchers |-> Shown(c)],
    screen  <- [c \in Watchers |-> text[c]],
    running <- [c \in Watchers |-> alive[c]]

WatchersShareText == Shared!FairSpec

(* While nobody else types, a trigger that is set still has its echo to     *)
(* come, so an undo is never left to be charged to a key typed later: undo: *)
(* sets the trigger and broadcasts, and each echo clears one trigger at     *)
(* most (ViewController.mm:319-331, 528, 599).  With a second writer this   *)
(* fails: after a conflict an undo may broadcast an event of the other      *)
(* user, whose echo is nobody's.                                            *)
TriggerAwaitsEcho ==
    \A c \in Clients : alive[c] /\ OwnEvents(c, Len(log)) = DOMAIN log =>
        LET set == {t \in {"undo", "redo"} : IF t = "undo" THEN undo_trigger[c] ELSE redo_trigger[c]}
            unsent == Reverses(c) /\ method[c].step \in {"count", "increment", "send"}
            clearing == pc[c] \in {"clearUndo", "clearRedo"}
            echoes == Len(outbox[c]) + Len(log) - Recorded(c)
        IN  Cardinality(set) <= echoes + Bit(unsent) + Bit(clearing)

(* Undoing and redoing never invents a step: each own event recorded is on  *)
(* at most one stack, once, and every press has taken one off or is about   *)
(* to (ViewController.mm:317-331, 484-485, 556-557).                        *)
Taken(c) == used[c]["undo"] + used[c]["redo"] - Bit(method[c].step = "remove")

StepsNeverInvented ==
    \A c \in Clients :
        Len(StackIds(c)) + Taken(c) <= Cardinality(OwnEvents(c, Recorded(c)))

-----------------------------------------------------------------------------
(* With handlers that do not overlap the main thread.                       *)

NobodyUndid == \A c \in Clients : used[c]["undo"] = 0 /\ used[c]["redo"] = 0

(* The reapplying branch (ViewController.mm:311-316) is for an own event    *)
(* that met a foreign one in its place.  However many users type at once,   *)
(* a client's own echo never does: a foreign event never stands in a        *)
(* history later than in the log.  Only undo can break this: after a        *)
(* conflict an id may name another user's event, whose reversal then goes   *)
(* to the end of the history.                                               *)
OwnEchoNeverConflicts ==
    NobodyUndid => \A c \in Clients : pc[c] = "pop" => Received(c).user # c

(* Whatever other users do, the ids on a client's two stacks are the order  *)
(* ids of distinct events of its own (ViewController.mm:317-331).           *)
StackIdsOwn ==
    \A c \in Clients :
        /\ \A i \in DOMAIN StackIds(c) :
              /\ StackIds(c)[i] < Recorded(c)
              /\ log[StackIds(c)[i] + 1].user = c
        /\ \A i, j \in DOMAIN StackIds(c) : i # j => StackIds(c)[i] # StackIds(c)[j]

(* No work is out of the user's reach: between receive handlers a stack     *)
(* that holds an id has its button enabled (ViewController.mm:335-346,      *)
(* 540-545).  When the threads overlap this fails: a handler may push an id *)
(* and enable the button between the main thread's test of the count and    *)
(* its setEnabled:NO.                                                       *)
ButtonsFollowStacks ==
    \A c \in Clients : alive[c] /\ HandlerIdle(c) /\ MethodDone(c) =>
        /\ undoStack[c] # <<>> => undoEnabled[c]
        /\ redoStack[c] # <<>> => redoEnabled[c]

-----------------------------------------------------------------------------
(* With polite users.                                                       *)

(* Once nothing is under way all histories are the service's log, and every *)
(* screen shows the text of it, but for the burst its own user has not sent *)
(* yet (ViewController.mm:262-348, 351-407).                                *)
ClientsAgree ==
    Quiet => \A c \in Clients : alive[c] =>
        /\ globalStack[c] = log
        /\ ~ eventDelay[c] => text[c] = Replay(log)

(* Every undo has been turned into a redoable step and every redo back: the *)
(* redo stack holds one id for each undo not redone.                        *)
UndoFeedsRedo ==
    Quiet => \A c \in Clients : alive[c] =>
        Len(redoStack[c]) = used[c]["undo"] - used[c]["redo"]

(* What a user typed is sent once the user pauses (ViewController.mm:219).  *)
BurstIsSent ==
    \A c \in Clients : eventDelay[c] ~> (~ eventDelay[c] \/ ~ alive[c])

(* A session in which no client crashes always comes back to the state a    *)
(* collaborative editor is for: all that was typed is sent, ordered, handed *)
(* out and recorded, and every screen shows the text of the log.            *)
Converges ==
    []<>( \/ \E c \in Clients : ~ alive[c]
          \/ Quiet /\ \A c \in Clients : text[c] = Replay(log))

-----------------------------------------------------------------------------
(* What the comments of the code say, and the code does not do.             *)

(* "pop off event, reapply" (ViewController.mm:289): an own event taken off *)
(* the history for a conflict comes back into it.                           *)
PoppedEventsComeBack ==
    Quiet => \A c \in Clients : alive[c] =>
        \A i \in OwnEvents(c, Len(log)) : log[i] \in ToSet(globalStack[c])

(* "update the undo cursor location" (ViewController.mm:499): the event an  *)
(* undo or redo is about to broadcast and apply lies in the text.           *)
ReversalLiesInText ==
    \A c \in Clients :
        alive[c] /\ method[c].step = "send" => InText(text[c], method[c].event)
=============================================================================
