----------------------------- MODULE SharedText -----------------------------
(***************************************************************************)
(* What a collaborative editor promises the participants who watch: there  *)
(* is one growing log of edits, and each screen shows the text of a prefix  *)
(* of it, edit after edit, none skipped, repeated or applied elsewhere.  A  *)
(* screen stops only at an edit that does not lie in its text.              *)
(***************************************************************************)
EXTENDS TextEvents

CONSTANT Readers

VARIABLES
    log,        \* Seq(Event)
    shown,      \* [Readers -> how many edits of the log the screen shows]
    screen,     \* [Readers -> text]
    running     \* [Readers -> whether the program has not stopped]

vars == <<log, shown, screen, running>>

Init ==
    /\ log = <<>>
    /\ shown = [r \in Readers |-> 0]
    /\ screen = [r \in Readers |-> <<>>]
    /\ running = [r \in Readers |-> TRUE]

Publish ==
    /\ Len(log') = Len(log) + 1
    /\ SubSeq(log', 1, Len(log)) = log
    /\ UNCHANGED <<shown, screen, running>>

NextEdit(r) == log[shown[r] + 1]
Behind(r) == running[r] /\ shown[r] < Len(log)

Show(r) ==
    /\ Behind(r)
    /\ InText(screen[r], NextEdit(r))
    /\ screen' = [screen EXCEPT ![r] = ApplyEvent(@, NextEdit(r))]
    /\ shown' = [shown EXCEPT ![r] = @ + 1]
    /\ UNCHANGED <<log, running>>

Stop(r) ==
    /\ Behind(r)
    /\ ~ InText(screen[r], NextEdit(r))
    /\ running' = [running EXCEPT ![r] = FALSE]
    /\ UNCHANGED <<log, shown, screen>>

Next == Publish \/ \E r \in Readers : Show(r) \/ Stop(r)

Spec == Init /\ [][Next]_vars

FairSpec == Spec /\ \A r \in Readers : WF_vars(Show(r) \/ Stop(r))
=============================================================================
