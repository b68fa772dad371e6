----------------------------- MODULE ProtoFiles -----------------------------
(***************************************************************************)
(* Small sets of .proto files.                                              *)
(***************************************************************************)
EXTENDS Sequences, TLC

Absolute(name) == [name |-> name, absolute |-> TRUE]
Relative(name) == [name |-> name, absolute |-> FALSE]
Number == Absolute(<<>>)

File(name, package, dependency, public, messages, extensions) ==
    [name |-> name, package |-> package, dependency |-> dependency, public |-> public,
     messages |-> messages, extensions |-> extensions]

Message(name, ranges, type) ==
    [name |-> name, ranges |-> ranges, fields |-> <<[name |-> 3, number |-> 1, type |-> type]>>]

Extension(name, number, extendee) == [name |-> name, number |-> number, extendee |-> extendee]

BaseFile == File("base", <<>>, <<>>, {}, <<Message(2, {7}, Number)>>, <<>>)

\* a message named as the package of another file
Nested ==
    "inner" :> File("inner", <<2>>, <<>>, {}, <<Message(4, {}, Number)>>, <<>>)
 @@ "outer" :> File("outer", <<>>, <<>>, {}, <<Message(2, {}, Number)>>, <<>>)

\* shared imports, a name an unimported file shadows, a missing import, a
\* cycle, and a second file of the same name
Files ==
    "base" :> BaseFile
 @@ "user" :> File("user", <<1>>, <<"base">>, {1}, <<Message(4, {}, Relative(<<2>>))>>,
                   <<Extension(5, 7, Absolute(<<2>>))>>)
 @@ "shadow" :> File("shadow", <<1>>, <<>>, {}, <<Message(2, {}, Number)>>, <<>>)
 @@ "late" :> File("late", <<1, 6>>, <<"user">>, {}, <<Message(8, {}, Relative(<<4>>))>>,
                   <<Extension(5, 7, Relative(<<2>>))>>)
 @@ "careless" :> File("careless", <<7>>, <<>>, {}, <<Message(4, {}, Absolute(<<1, 4>>))>>, <<>>)
 @@ "base2" :> File("base", <<>>, <<>>, {}, <<Message(9, {}, Number)>>, <<>>)
 @@ "loop" :> File("loop", <<>>, <<"late", "loop">>, {}, <<Message(10, {}, Number)>>, <<>>)
=============================================================================
