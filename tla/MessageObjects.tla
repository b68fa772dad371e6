--------------------------- MODULE MessageObjects ---------------------------
(***************************************************************************)
(* Two objects of one generated class, msg and other, built up by any calls *)
(* of the public interface, and what the written-out copies of the class    *)
(* owe each other.                                                          *)
(***************************************************************************)
EXTENDS GeneratedMessage

CONSTANTS
    Studied,    \* the classes msg and other may have
    MaxCalls    \* bound on the calls made, class by class

ObjectsAssumption ==
    Studied \subseteq DOMAIN Classes /\ MaxCalls \in [Studied -> Nat]

VARIABLES class, msg, other, calls

vars == <<class, msg, other, calls>>

-----------------------------------------------------------------------------
(* The values the calls pass.                                               *)
Scalars(type) ==
    CASE type \in DOMAIN EnumValues -> {Max(EnumValues[type]), Min(EnumValues[type])}
      [] IsString(type) -> {<<>>, <<Raw(7), Raw(3)>>}
      [] type \in {"bool", "double"} -> {0, 1}
      [] OTHER -> {-1, 200}

\* Every field set, messages down to a depth.
RECURSIVE Filled(_, _)
Filled(c, depth) ==
    LET Value(type) ==
            CASE IsMessage(type) -> Filled(type, depth - 1)
              [] IsString(type) -> CHOOSE v \in Scalars(type) : v # <<>>
              [] OTHER -> CHOOSE v \in Scalars(type) : v # 0
        fields == {f \in FieldsOf(c) : depth = 0 => ~ IsMessage(TypeOf(c, f))}
    IN  FoldSet(LAMBDA f, o : Set(o, f, Value(TypeOf(c, f))), New(c), fields)

Inputs(type) == IF IsMessage(type) THEN {New(type), Filled(type, 1)} ELSE Scalars(type)
Starts(c) == {New(c), Filled(c, 2)}

\* Fields another program may send: right, of another wire type, or unknown.
Arriving(c) ==
    LET Right(f) ==
            LET n == NumberOf(c, f) type == TypeOf(c, f)
            IN  CASE WireTypeFor(type) = "delimited" -> {Delimited(n, <<Raw(7), Raw(3)>>, 2), Delimited(n, <<>>, 0)}
                  [] WireTypeFor(type) = "fixed64" -> {Fixed64(n, 1)}
                  [] OTHER -> {Varint(n, 3), Varint(n, 99)}
        Wrong(f) ==
            LET n == NumberOf(c, f)
            IN  IF WireTypeFor(TypeOf(c, f)) = "delimited" THEN {Varint(n, 5)}
                ELSE {Delimited(n, <<Raw(7), Raw(3)>>, 2), Fixed64(n, 1)}
    IN  UNION {Right(f) \union Wrong(f) : f \in FieldsOf(c)}
        \union {Varint(1000, 5), Group(77, <<Varint(1, 1), Group(2, <<>>)>>), EndGroup(1),
                Delimited(99, <<Raw(7)>>, 1)}

Call == calls < MaxCalls[class] /\ calls' = calls + 1 /\ UNCHANGED class

SetField == \E f \in FieldsOf(class) : \E v \in Inputs(TypeOf(class, f)) :
    Call /\ msg' = Set(msg, f, v) /\ UNCHANGED other

SetExtension == \E n \in Registered :
    /\ Classes[class].extend # 0
    /\ Call
    /\ msg' = [msg EXCEPT !.ext = {e \in @ : e[1] # n} \union {<<n, -1>>}]
    /\ UNCHANGED other

DropField == \E f \in FieldsOf(class) : Call /\ msg' = ClearField(msg, f) /\ UNCHANGED other
Cleared == Call /\ msg' = Clear(msg) /\ UNCHANGED other
Merged == Call /\ msg' = MergeFrom(other, msg) /\ UNCHANGED other
Copied == Call /\ msg' = CopyFrom(other, msg) /\ UNCHANGED other
Swapped == Call /\ msg' = SwappedWith(msg, other) /\ other' = SwappedWith(other, msg)
SizeAsked == Call /\ msg' = ByteSize(msg) /\ UNCHANGED other

\* A failed parse leaves an object its caller drops.
Received == \E a \in Arriving(class) :
    LET read == Parse(msg, <<a>>, RecursionLimit)
    IN  Call /\ read.how # "fail" /\ msg' = read.obj /\ UNCHANGED other

Init ==
    /\ class \in Studied
    /\ msg \in Starts(class)
    /\ other \in Starts(class)
    /\ calls = 0

Next ==
    \/ SetField \/ SetExtension \/ DropField \/ Cleared \/ Merged \/ Copied \/ Swapped
    \/ SizeAsked \/ Received

Spec == Init /\ [][Next]_vars

-----------------------------------------------------------------------------
RECURSIVE Default(_)
Default(o) ==
    \A f \in FieldsOf(o.class) :
        LET Clean(m) == Default(m) /\ (f \in Present(o) \/ View(m) = View(New(m.class)))
        IN  IF IsMessage(TypeOf(o.class, f)) THEN \A k \in 1 .. Len(o.val[f]) : Clean(o.val[f][k])
            ELSE f \in Present(o) \/ IsRepeated(o.class, f) \/ o.val[f] = Classes[o.class].new[f]

(* A field that is not set holds its default, in every message: mutable_f   *)
(* and the getters hand out what is there without looking at the has bit    *)
(* (descriptor.pb.cc, Clear and SharedCtor; descriptor.pb.h, accessors).    *)
UnsetHoldsDefault == Default(msg) /\ Default(other)

(* Whatever sizes were cached before, the writer produces as many bytes as  *)
(* ByteSize announced, and every nested length is that of what follows:     *)
(* otherwise ByteSizeConsistencyError aborts (message_lite.cc:60-69).       *)
WritesWhatItSized ==
    LET data == Serialize(msg) IN Size(data) = ByteSize(msg).size /\ Framed(data)

\* How deep data nests.
RECURSIVE Nesting(_)
Nesting(data) ==
    Max({0} \union {1 + Nesting(data[k].s) :
                        k \in {j \in 1 .. Len(data) : data[j].w \in {"delimited", "group"}}})

(* Parsing what was serialized gives back what a caller could see, unknown  *)
(* fields, unknown enum numbers and explicit defaults included, unless it   *)
(* nests deeper than the parser goes (MergePartialFromCodedStream against   *)
(* SerializeWithCachedSizes).                                               *)
RoundTrip ==
    LET data == Serialize(msg) read == ParseFrom(other, data)
    IN  Nesting(data) <= RecursionLimit => read.how = "more" /\ View(read.obj) = View(msg)

(* Parsing two messages one after the other merges them.                    *)
ConcatenationMerges ==
    LET data == Serialize(msg) \o Serialize(other) read == ParseFrom(New(class), data)
    IN  Nesting(data) <= RecursionLimit =>
            View(read.obj) = View(MergeFrom(other, MergeFrom(msg, New(class))))

(* CopyFrom gives the source, whatever the target held before, and Swap     *)
(* leaves nothing behind.                                                   *)
CopiesAndSwaps ==
    /\ View(CopyFrom(other, msg)) = View(other)
    /\ View(SwappedWith(msg, other)) = View(other)
    /\ SwappedWith(SwappedWith(msg, other), SwappedWith(other, msg)) = msg

(* The writers of one class, to a stream, to an array and by reflection,    *)
(* write the same bytes, and both parsers read them alike.                  *)
WritersAgree ==
    LET data == Serialize(msg) read == Parse(msg, data, RecursionLimit)
    IN  /\ SerializeToArray(msg) = data
        /\ ReflectWrite(ReflectSize(msg)) = data
        /\ LET reflected == ReflectParse(msg, data, RecursionLimit)
           IN  reflected.how = read.how /\ View(reflected.obj) = View(read.obj)

(* Reflection merges, clears, swaps and checks required fields as the       *)
(* generated code does.                                                     *)
ReflectionAgrees ==
    /\ View(ReflectMerge(other, msg)) = View(MergeFrom(other, msg))
    /\ View(ReflectClear(msg)) = View(Clear(msg)) /\ Default(ReflectClear(msg))
    /\ View(ReflectSwap(msg, other)) = View(SwappedWith(msg, other))
    /\ ReflectIsInitialized(msg) = IsInitialized(msg)

(* The same on one received field: what the generated parser takes, and     *)
(* what it leaves among the unknown fields, the reflective one does too.    *)
ParsersAgree ==
    \A a \in Arriving(class) :
        LET read == Parse(msg, <<a>>, RecursionLimit)
            reflected == ReflectParse(msg, <<a>>, RecursionLimit)
        IN  read.how = reflected.how /\ View(read.obj) = View(reflected.obj)
=============================================================================
