---------------------------- MODULE EditHistory ----------------------------
(***************************************************************************)
(* The offset rule of undo: and redo: by itself: a document edited by       *)
(* inserting and removing stretches of text anywhere, and where the loop    *)
(* over the later events of the history puts an earlier one.  Every         *)
(* character typed is a different one, so a stretch of text can be found    *)
(* again.                                                                   *)
(***************************************************************************)
EXTENDS TextEvents, SequencesExt

CONSTANTS
    MaxEvents,  \* bound on the length of the history
    MaxBurst    \* bound on the characters of one event

EditBoundsAssumption == MaxEvents \in Nat /\ MaxBurst \in Nat \ {0} /\ Char \subseteq Nat

VARIABLES doc, history, typed   \* the text, the events, the characters used up

vars == <<doc, history, typed>>

Init == doc = <<>> /\ history = <<>> /\ typed = 0

Edit(e) ==
    /\ Len(history) < MaxEvents
    /\ doc' = ApplyEvent(doc, e)
    /\ history' = Append(history, e)

InsertText(user) ==
    \E loc \in 0 .. Len(doc), n \in 1 .. MaxBurst :
        /\ typed + n \in Char
        /\ Edit(MakeEvent(user, INSERT, loc, loc + n, [i \in 1 .. n |-> typed + i]))
        /\ typed' = typed + n

RemoveText(user) ==
    \E loc \in 0 .. Len(doc), n \in 1 .. MaxBurst :
        /\ loc + n <= Len(doc)
        /\ Edit(MakeEvent(user, REMOVE, loc, loc + n, SubSeq(doc, loc + 1, loc + n)))
        /\ UNCHANGED typed

Next == \E user \in Clients : InsertText(user) \/ RemoveText(user)

Spec == Init /\ [][Next]_vars

-----------------------------------------------------------------------------
(* The event as the offset loop leaves it: shifted past each later one.     *)
Relocated(id) ==
    LET at[k \in id .. Len(history)] ==
            IF k = id THEN history[id] ELSE ShiftPast(history[k], at[k - 1])
    IN  at[Len(history)]

Present(ch) == ch \in ToSet(doc)
Position(ch) == CHOOSE i \in DOMAIN doc : doc[i] = ch

(* Undoing a typed burst whose text still stands in one piece removes that  *)
(* text and nothing else, whatever was typed and removed around it since    *)
(* (ViewController.mm:495-518).                                             *)
UndoFindsItsText ==
    \A id \in DOMAIN history : LET e == history[id] IN
        e.type = INSERT =>
          \A p \in 0 .. Len(doc) - ChangeLength(e) :
              SubSeq(doc, p + 1, p + ChangeLength(e)) = e.text =>
                  Relocated(id).init = p /\ Relocated(id).new = p + ChangeLength(e)

(* Undoing a removal puts the text back between the characters it stood     *)
(* between, when those are still there (ViewController.mm:495-518).         *)
UndoFindsItsPlace ==
    \A id \in DOMAIN history : LET e == history[id]
                                   then == FoldLeft(ApplyEvent, <<>>, SubSeq(history, 1, id))
                                   loc == Relocated(id).init
                                   left == e.init \in DOMAIN then
                                   right == e.init + 1 \in DOMAIN then
        IN  /\ e.type = REMOVE
            /\ left => Present(then[e.init])
            /\ right => Present(then[e.init + 1])
            => /\ loc >= IF left THEN Position(then[e.init]) ELSE 0
               /\ loc <= IF right THEN Position(then[e.init + 1]) - 1 ELSE Len(doc)

=============================================================================
