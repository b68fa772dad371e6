----------------------------- MODULE TextEvents -----------------------------
(***************************************************************************)
(* What one edit is, and what applying, reversing and relocating it does:  *)
(* the protobuf message Event of textevent.pb as EventMessage fills it, and *)
(* the methods applyEvent: and reverseEvent: and the offset rule of undo:   *)
(* and redo: in ViewController.mm.                                          *)
(*                                                                          *)
(* A text is a sequence of characters; a location is 0-based, as NSString   *)
(* counts, and may be any integer: the code stores it in an int32 it never  *)
(* range-checks.                                                            *)
(***************************************************************************)
EXTENDS Integers, Sequences

CONSTANTS
    Clients,    \* the participants of the session
    Char        \* the characters they type

(* The two kinds of event the program creates.  CURSORMOVE, UNDO and REDO   *)
(* are declared in textevent.pb but only commented-out code creates them.   *)
INSERT == "INSERT"
REMOVE == "REMOVE"
EventType == {INSERT, REMOVE}

(* changeLength is not kept: broadcastEvent: sets it to the length of       *)
(* textAdded and reverseEvent: copies both.                                 *)
Event == [user : Clients, type : EventType, init : Int, new : Int, text : Seq(Char)]

MakeEvent(user, type, init, new, text) ==
    [user |-> user, type |-> type, init |-> init, new |-> new, text |-> text]

ChangeLength(e) == Len(e.text)

(* NSString raises NSRangeException for an index outside 0..length: this    *)
(* is when applyEvent: returns at all.                                      *)
InText(t, e) ==
    /\ e.init \in 0 .. Len(t)
    /\ e.type = REMOVE => e.new \in 0 .. Len(t)

(* The text applyEvent: leaves in the view, for an event that is InText.    *)
ApplyEvent(t, e) ==
    SubSeq(t, 1, e.init)
      \o IF e.type = INSERT THEN e.text \o SubSeq(t, e.init + 1, Len(t))
                            ELSE SubSeq(t, e.new + 1, Len(t))

ReverseEvent(e) == [e EXCEPT !.type = IF @ = INSERT THEN REMOVE ELSE INSERT]

(* Slip in the rule below: a removal moves the other event the wrong way.   *)
DisplacementUnsigned(check, e) ==
    IF check.init > e.init THEN 0 ELSE ChangeLength(check)

(* One iteration of the offset loop: how a later event of the history moves *)
(* the event being undone.  The else-branch of the code is empty.           *)
Displacement(check, e) ==
    IF check.init > e.init THEN 0
    ELSE IF check.type = REMOVE THEN -ChangeLength(check) ELSE ChangeLength(check)

ShiftPast(check, e) ==
    [e EXCEPT !.init = @ + Displacement(check, e), !.new = @ + Displacement(check, e)]

=============================================================================
