-------------------------- MODULE MCEditingSession --------------------------
(***************************************************************************)
(* Instances of EditingSession for TLC.                                     *)
(***************************************************************************)
EXTENDS EditingSession

CONSTANTS ann, bob, x, y

Duo == {ann, bob}
AnnOnly == {ann}

OneKey == {<<x>>}
TwoKeys == {<<x>>, <<y>>}

Always == {TRUE}
MayFail == {TRUE, FALSE}

Inputs(key, move, undo, redo) ==
    [k \in InputKind |-> CASE k = "key"  -> key
                           [] k = "move" -> move
                           [] k = "undo" -> undo
                           [] k = "redo" -> redo]

Budget(anns, bobs) == [c \in Clients |-> IF c = ann THEN anns ELSE bobs]
None == Inputs(0, 0, 0, 0)

\* how many keys, caret moves, undos and redos each user may spend
SoloInputs == Budget(Inputs(2, 1, 2, 1), None)
RaceInputs == Budget(Inputs(2, 0, 0, 0), Inputs(1, 0, 0, 0))
EveryInput == Budget(Inputs(2, 2, 2, 2), Inputs(2, 2, 2, 2))
=============================================================================
