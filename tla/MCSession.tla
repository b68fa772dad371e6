----------------------------- MODULE MCSession -----------------------------
(***************************************************************************)
(* Instances of Session for TLC.                                            *)
(***************************************************************************)
EXTENDS Session

CONSTANTS ann, bob

Two == {ann, bob}

\* how many requests ann and bob may make
Requests(a, b) == [d \in Two |-> IF d = ann THEN a ELSE b]
OneAndOne == Requests(1, 1)
OneAndTwo == Requests(1, 2)
=============================================================================
