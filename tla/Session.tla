------------------------------ MODULE Session ------------------------------
(***************************************************************************)
(* Entering and leaving a session: MainMenu.mm, SessionViewController.mm    *)
(* and the entry and exit of ViewController.mm.                             *)
(*                                                                         *)
(* A device shows the top of a navigation stack of screens: menus, lists    *)
(* and editors.  Every menu makes a client object of the service, which it  *)
(* hands on to the list and the editor it leads to; the client object's     *)
(* delegate is who receives the session's events.  Requests to the service  *)
(* are answered later, by a completion handler on the main thread; events   *)
(* arrive on another thread.  What an editor does with an event is          *)
(* ViewController's subject: here its history is the set of the events it   *)
(* holds.                                                                   *)
(***************************************************************************)
EXTENDS Integers, FiniteSets, SequencesExt

CONSTANTS
    Devices,
    MaxMenus,       \* menus, and so client objects, per device
    MaxRequests,    \* how many creates, lists and joins each device may ask for
    MaxEvents       \* events per session

SessionAssumption ==
    MaxMenus \in Nat \ {0} /\ MaxRequests \in [Devices -> Nat] /\ MaxEvents \in Nat

VARIABLES
    sessions,   \* the service's sessions: owner, authors of the log's events, whether ended
    member,     \* [Devices -> [clients -> session joined, or 0]]
    handed,     \* [Devices -> [clients -> how many events of the session it was handed]]
    delegate,   \* [Devices -> [clients -> who receives its events]]
    stack,      \* [Devices -> Seq(Screen)]
    pending,    \* [Devices -> set of requests not completed]
    asked,      \* [Devices -> how many requests were made]
    raised      \* [Devices -> why the application was ended, or "no"]

serviceVars == <<sessions, member, handed>>
deviceVars == <<delegate, stack, pending, asked, raised>>
vars == <<serviceVars, deviceVars>>

Clients == 1 .. MaxMenus

Menu(k) == [kind |-> "menu", client |-> k]
List(k, found, n) == [kind |-> "list", client |-> k, found |-> found, number |-> n]
Editor(k) == [kind |-> "editor", client |-> k, loaded |-> FALSE, history |-> {},
              burst |-> FALSE, typedIn |-> 0, unsent |-> FALSE]

Top(d) == Last(stack[d])
Menus(d) == Cardinality({i \in DOMAIN stack[d] : stack[d][i].kind = "menu"})
EditorsOf(d, k) == {i \in DOMAIN stack[d] : stack[d][i].kind = "editor" /\ stack[d][i].client = k}
Loading(d) == \E i \in DOMAIN stack[d] : stack[d][i].kind = "editor" /\ ~ stack[d][i].loaded

Init ==
    /\ sessions = <<>>
    /\ member = [d \in Devices |-> [k \in Clients |-> 0]]
    /\ handed = [d \in Devices |-> [k \in Clients |-> 0]]
    /\ delegate = [d \in Devices |-> [k \in Clients |-> "menu"]]
    /\ stack = [d \in Devices |-> <<Menu(1)>>]
    /\ pending = [d \in Devices |-> {}]
    /\ asked = [d \in Devices |-> 0]
    /\ raised = [d \in Devices |-> "no"]

(* Slip: the main thread goes on while an editor is being shown.            *)
IdleWhileLoading(d) == raised[d] = "no"

(* The main thread is between two of its methods.                           *)
Idle(d) == raised[d] = "no" /\ ~ Loading(d)

Raise(d, why) == raised' = [raised EXCEPT ![d] = why]

-----------------------------------------------------------------------------
(* What the user asks for.                                                  *)

Ask(d, op, k, session) ==
    /\ asked[d] < MaxRequests[d]
    /\ asked' = [asked EXCEPT ![d] = @ + 1]
    /\ pending' = [pending EXCEPT ![d] = @ \cup
          {[op |-> op, client |-> k, session |-> session, number |-> asked[d],
            from |-> Top(d), answer |-> "none", found |-> {}]}]
    /\ UNCHANGED <<serviceVars, delegate, stack, raised>>

(* The alert's Create and Join buttons.                                     *)
AskCreate(d) == Idle(d) /\ Top(d).kind = "menu" /\ Ask(d, "create", Top(d).client, 0)
AskList(d) == Idle(d) /\ Top(d).kind = "menu" /\ Ask(d, "list", Top(d).client, 0)

SelectRow(d) ==
    /\ Idle(d)
    /\ Top(d).kind = "list"
    /\ \E s \in Top(d).found : Ask(d, "join", Top(d).client, s)

(* The list shows the navigation bar, whose button leads back.              *)
GoBack(d) ==
    /\ Idle(d)
    /\ Top(d).kind = "list"
    /\ stack' = [stack EXCEPT ![d] = Front(@)]
    /\ UNCHANGED <<serviceVars, delegate, pending, asked, raised>>

(* Slip: the new menu goes on with the client that leaves.                  *)
SameClient(d) == Top(d).client

NewClient(d) == Menus(d) + 1

(* exit2: asks to leave, deleting the session if the user owns it, and      *)
(* pushes a new menu, which makes a new client, without waiting.            *)
Exit(d) ==
    LET k == Top(d).client
    IN  /\ Idle(d)
        /\ Top(d).kind = "editor"
        /\ Menus(d) < MaxMenus
        /\ pending' = [pending EXCEPT ![d] = @ \cup
              {[op |-> "leave", client |-> k, session |-> member[d][k], number |-> asked[d],
                from |-> Menu(k), answer |-> "none", found |-> {}]}]
        /\ stack' = [stack EXCEPT ![d] = Append(@, Menu(NewClient(d)))]
        /\ UNCHANGED <<serviceVars, delegate, asked, raised>>

-----------------------------------------------------------------------------
(* The service.  A client object is in one session at a time.               *)

Answer(d, r, answer, found) ==
    pending' = [pending EXCEPT ![d] = (@ \ {r}) \cup {[r EXCEPT !.answer = answer, !.found = found]}]

Unanswered(d) == {r \in pending[d] : r.answer = "none"}
Live(s) == ~ sessions[s].ended

Enter(d, k, s) ==
    /\ member' = [member EXCEPT ![d][k] = s]
    /\ handed' = [handed EXCEPT ![d][k] = 0]

ServeCreate(d, r) ==
    /\ r.op = "create"
    /\ IF member[d][r.client] = 0
       THEN /\ Enter(d, r.client, Len(sessions) + 1)
            /\ sessions' = Append(sessions, [owner |-> <<d, r.client>>, log |-> <<>>, ended |-> FALSE])
            /\ Answer(d, r, "ok", {})
       ELSE Answer(d, r, "error", {}) /\ UNCHANGED serviceVars

ServeList(d, r) ==
    /\ r.op = "list"
    /\ Answer(d, r, "ok", {s \in DOMAIN sessions : Live(s)})
    /\ UNCHANGED serviceVars

ServeJoin(d, r) ==
    /\ r.op = "join"
    /\ IF member[d][r.client] = 0 /\ Live(r.session)
       THEN Enter(d, r.client, r.session) /\ Answer(d, r, "ok", {})
       ELSE Answer(d, r, "error", {}) /\ UNCHANGED <<member, handed>>
    /\ UNCHANGED sessions

ServeLeave(d, r) ==
    /\ r.op = "leave"
    /\ member' = [member EXCEPT ![d][r.client] = 0]
    /\ sessions' = [s \in DOMAIN sessions |->
          IF s = member[d][r.client] /\ sessions[s].owner = <<d, r.client>>
          THEN [sessions[s] EXCEPT !.ended = TRUE] ELSE sessions[s]]
    /\ Answer(d, r, "ok", {})
    /\ UNCHANGED handed

Serve(d) ==
    /\ \E r \in Unanswered(d) :
          ServeCreate(d, r) \/ ServeList(d, r) \/ ServeJoin(d, r) \/ ServeLeave(d, r)
    /\ UNCHANGED <<delegate, stack, asked, raised>>

-----------------------------------------------------------------------------
(* Completion handlers, on the main thread.                                 *)

(* Slip: the editor keeps the client without becoming its delegate.         *)
OpenUndelegated(d, k) ==
    /\ stack' = [stack EXCEPT ![d] = Append(@, Editor(k))]
    /\ UNCHANGED delegate

(* The segue to the editor: setClient: makes the editor the delegate; its   *)
(* view is loaded after that.                                               *)
OpenEditor(d, k) ==
    /\ stack' = [stack EXCEPT ![d] = Append(@, Editor(k))]
    /\ delegate' = [delegate EXCEPT ![d][k] = "editor"]

(* Slip: the segue is looked for on the menu only.                          *)
CanSegueFromMenu(d, r) == r.from.kind = "menu"

(* A push segue needs its source on the navigation stack.                   *)
CanSegue(d, r) == r.from \in ToSet(stack[d])

(* Slip: the answer's error and isInSession are not looked at.              *)
AcceptedAlways(d, r) == TRUE

Accepted(d, r) == r.answer = "ok" /\ member[d][r.client] # 0

CompleteEntry(d, r) ==
    /\ r.op \in {"create", "join"}
    /\ IF ~ Accepted(d, r) THEN UNCHANGED <<stack, delegate, raised>>
       ELSE IF CanSegue(d, r) THEN OpenEditor(d, r.client) /\ UNCHANGED raised
       ELSE Raise(d, "segue from a screen that is gone") /\ UNCHANGED <<stack, delegate>>

(* The list's viewDidLoad reads the first session.                          *)
CompleteList(d, r) ==
    /\ r.op = "list"
    /\ stack' = [stack EXCEPT ![d] = Append(@, List(r.client, r.found, r.number))]
    /\ IF r.found = {} THEN Raise(d, "first of an empty list") ELSE UNCHANGED raised
    /\ UNCHANGED delegate

CompleteLeave(d, r) == r.op = "leave" /\ UNCHANGED <<stack, delegate, raised>>

Complete(d) ==
    /\ Idle(d)
    /\ \E r \in pending[d] \ Unanswered(d) :
          /\ CompleteEntry(d, r) \/ CompleteList(d, r) \/ CompleteLeave(d, r)
          /\ pending' = [pending EXCEPT ![d] = @ \ {r}]
    /\ UNCHANGED <<serviceVars, asked>>

(* viewDidLoad of the editor makes the stacks, anew.                        *)
LoadEditor(d) ==
    /\ raised[d] = "no"
    /\ Loading(d)
    /\ stack' = [stack EXCEPT ![d][Len(stack[d])].loaded = TRUE, ![d][Len(stack[d])].history = {}]
    /\ UNCHANGED <<serviceVars, delegate, pending, asked, raised>>

-----------------------------------------------------------------------------
(* Typing and events.                                                       *)

Type(d) ==
    /\ Idle(d)
    /\ Top(d).kind = "editor"
    /\ ~ Top(d).burst
    /\ stack' = [stack EXCEPT ![d][Len(stack[d])].burst = TRUE,
                              ![d][Len(stack[d])].typedIn = member[d][Top(d).client]]
    /\ UNCHANGED <<serviceVars, delegate, pending, asked, raised>>

(* The timer of an editor, on top or not: the burst joins its history       *)
(* whether or not the service took it.                                      *)
TimerFires(d, i) ==
    LET e == stack[d][i]
        s == member[d][e.client]
    IN  /\ Idle(d)
        /\ e.kind = "editor" /\ e.burst
        /\ IF s # 0 /\ Live(s)
           THEN /\ Len(sessions[s].log) < MaxEvents
                /\ sessions' = [sessions EXCEPT ![s].log = Append(@, <<d, e.client, e.typedIn>>)]
                /\ stack' = [stack EXCEPT ![d][i].burst = FALSE,
                                          ![d][i].history = @ \cup {<<s, Len(sessions[s].log)>>}]
           ELSE /\ stack' = [stack EXCEPT ![d][i].burst = FALSE, ![d][i].unsent = TRUE]
                /\ UNCHANGED sessions
        /\ UNCHANGED <<member, handed, delegate, pending, asked, raised>>

(* Slip: events are ignored while the user types.                           *)
TakesWhenQuiet(e) == e.loaded /\ ~ e.burst

\* The stacks of an editor not loaded yet are nil.
Takes(e) == e.loaded

(* receivedEventWithOrderID: of the client's delegate, if it has one.  The  *)
(* menu does not implement it.                                              *)
Receive(d, k) ==
    LET s  == member[d][k]
        id == <<s, handed[d][k]>>
    IN  /\ raised[d] = "no"
        /\ s # 0
        /\ handed[d][k] < Len(sessions[s].log)
        /\ handed' = [handed EXCEPT ![d][k] = @ + 1]
        /\ \/ /\ delegate[d][k] = "editor"
              /\ LET i == CHOOSE i \in EditorsOf(d, k) : \A j \in EditorsOf(d, k) : j <= i
                     author == sessions[s].log[handed[d][k] + 1]
                 IN  IF Takes(stack[d][i]) /\ <<author[1], author[2]>> # <<d, k>>
                     THEN stack' = [stack EXCEPT ![d][i].history = @ \cup {id}]
                     ELSE UNCHANGED stack
           \/ delegate[d][k] = "menu" /\ UNCHANGED stack
        /\ UNCHANGED <<sessions, member, delegate, pending, asked, raised>>

-----------------------------------------------------------------------------
UserStep(d) == AskCreate(d) \/ AskList(d) \/ SelectRow(d) \/ GoBack(d) \/ Exit(d) \/ Type(d)
DeviceStep(d) ==
    \/ Complete(d)
    \/ LoadEditor(d)
    \/ \E i \in DOMAIN stack[d] : TimerFires(d, i)
    \/ \E k \in Clients : Receive(d, k)

Next == \E d \in Devices : UserStep(d) \/ Serve(d) \/ DeviceStep(d)

Spec == Init /\ [][Next]_vars

(* Users who do nothing while an answer is outstanding, other than to a     *)
(* request to leave.                                                        *)
Waiting(d) == \E r \in pending[d] : r.op # "leave"
PatientNext == \E d \in Devices : (~ Waiting(d) /\ UserStep(d)) \/ Serve(d) \/ DeviceStep(d)

PatientSafety == Init /\ [][PatientNext]_vars
PatientSpec ==
    /\ PatientSafety
    /\ \A d \in Devices : /\ WF_vars(Serve(d)) /\ WF_vars(Complete(d)) /\ WF_vars(LoadEditor(d))
                          /\ \A k \in Clients : WF_vars(Receive(d, k))

-----------------------------------------------------------------------------
Editors(d) == {i \in DOMAIN stack[d] : stack[d][i].kind = "editor"}

TypeOK ==
    /\ \A d \in Devices, k \in Clients :
          /\ member[d][k] \in 0 .. Len(sessions)
          /\ delegate[d][k] \in {"menu", "editor"}
          /\ member[d][k] # 0 => handed[d][k] <= Len(sessions[member[d][k]].log)
          /\ delegate[d][k] = "editor" => EditorsOf(d, k) # {}
    /\ \A d \in Devices :
          /\ stack[d] # <<>> /\ stack[d][1] = Menu(1)
          /\ \A i \in Editors(d) : i < Len(stack[d]) => stack[d][i].loaded

(* What a loaded editor misses of what the others wrote is a first part of  *)
(* the log: the events handed to the menu, or to the editor before          *)
(* viewDidLoad (ViewController.mm:17-84).  After that it has every event of *)
(* the others that is handed to its client.                                 *)
MissesOnlyTheStart ==
    \A d \in Devices, k \in Clients :
        LET s == member[d][k]
            Foreign == {n \in 0 .. handed[d][k] - 1 : <<sessions[s].log[n + 1][1], sessions[s].log[n + 1][2]>> # <<d, k>>}
        IN  delegate[d][k] = "editor" /\ s # 0 =>
                \A i \in EditorsOf(d, k) : (\A j \in EditorsOf(d, k) : j <= i) =>
                    \A m, n \in Foreign :
                        m < n /\ <<s, m>> \in stack[d][i].history => <<s, n>> \in stack[d][i].history

(* An editor on the screen belongs to a client that is in a session         *)
(* (MainMenu.mm:125-153, SessionViewController.mm:150-172): completions of  *)
(* requests made earlier may push screens over one another, but not this.   *)
VisibleEditorIsMember ==
    \A d \in Devices : Top(d).kind = "editor" => member[d][Top(d).client] # 0

(* Screens, delegates and sessions fit together, whatever the users ask for *)
(* before they are answered (MainMenu.mm:125-193, SessionViewController.mm: *)
(* 150-172).                                                                *)
ScreensFit == TypeOK /\ VisibleEditorIsMember

(* With patient users, a client object serves one editor, and its event     *)
(* stream is handed to that one.                                            *)
OneEditorPerClient ==
    \A d \in Devices, k \in Clients :
        /\ Cardinality(EditorsOf(d, k)) <= 1
        /\ EditorsOf(d, k) # {} => delegate[d][k] = "editor"

(* With patient users, a burst is broadcast to the session it was typed in  *)
(* or to none, although the timer of an editor that was left still fires    *)
(* and nobody looks at the result of broadcast:; and to none only when its  *)
(* user has left or the owner has ended the session (ViewController.mm:388, *)
(* 700-712).                                                                *)
BurstsReachTheirSession ==
    /\ \A s \in DOMAIN sessions : \A n \in DOMAIN sessions[s].log : sessions[s].log[n][3] = s
    /\ \A d \in Devices : \A i \in Editors(d) :
          stack[d][i].unsent => \/ member[d][stack[d][i].client] = 0
                                \/ ~ Live(member[d][stack[d][i].client])

(* With patient users, joining a session that accepts the user leads to a   *)
(* loaded editor.                                                           *)
Joining(d, k) ==
    raised[d] = "no" /\ \E r \in pending[d] : r.op = "join" /\ r.answer = "ok" /\ r.client = k
InEditor(d, k) == \E i \in EditorsOf(d, k) : stack[d][i].loaded

JoinOpensEditor == \A d \in Devices, k \in Clients : Joining(d, k) ~> InEditor(d, k)

(* "give sessionList to SessionViewController to display unless there is an *)
(* error" (MainMenu.mm:181).                                                *)
ListsAreDisplayed == \A d \in Devices : raised[d] # "first of an empty list"

=============================================================================
