-------------------------- MODULE MCOutputStreams --------------------------
(***************************************************************************)
(* An instance of OutputStreams for TLC.                                    *)
(***************************************************************************)
EXTENDS OutputStreams

SomeRaws == {<<0>>, <<1, 2, 3>>}
=============================================================================
