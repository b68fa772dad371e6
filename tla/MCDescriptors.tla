---------------------------- MODULE MCDescriptors ----------------------------
(***************************************************************************)
(* An instance of DescriptorPool for TLC.                                   *)
(***************************************************************************)
EXTENDS DescriptorPool

Proto == INSTANCE ProtoFiles
Nested == Proto!Nested
BothFiles == DOMAIN Nested
=============================================================================
