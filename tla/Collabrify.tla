----------------------------- MODULE Collabrify -----------------------------
(***************************************************************************)
(* The Collabrify service, as ViewController.mm relies on it (the library   *)
(* is a binary framework, so this module is an assumption about it, taken   *)
(* from CollabrifyClient.h and from how the code uses it):                  *)
(*   - broadcast:eventType: hands an event to the service, or returns -1;   *)
(*   - the service puts every broadcast event in one total order, keeping   *)
(*     each participant's own order, and numbers them from 0 (the code      *)
(*     uses the number as an index into an array that starts empty);        *)
(*   - every participant, the sender included, is handed all events in that *)
(*     order, each once, one callback at a time.                            *)
(***************************************************************************)
EXTENDS Integers, Sequences

CONSTANT BroadcastOutcomes  \* {TRUE}, or {TRUE, FALSE} when broadcast may return -1

VARIABLES
    log,        \* the events in the service's order; order id = index - 1
    outbox,     \* [Clients -> Seq(Event)]: broadcast, not yet ordered
    delivered   \* [Clients -> Nat]: how many events the participant was handed

serviceVars == <<log, outbox, delivered>>

ServiceInit(clients) ==
    /\ log = <<>>
    /\ outbox = [c \in clients |-> <<>>]
    /\ delivered = [c \in clients |-> 0]

Broadcast(c, e) ==
    \E accepted \in BroadcastOutcomes :
        outbox' = IF accepted THEN [outbox EXCEPT ![c] = Append(@, e)] ELSE outbox

Order(c) ==
    /\ outbox[c] # <<>>
    /\ log' = Append(log, Head(outbox[c]))
    /\ outbox' = [outbox EXCEPT ![c] = Tail(@)]
    /\ UNCHANGED delivered

Deliver(c) ==
    /\ delivered[c] < Len(log)
    /\ delivered' = [delivered EXCEPT ![c] = @ + 1]

=============================================================================
