-------------------------- MODULE GeneratedMessage --------------------------
(***************************************************************************)
(* What the tables of a generated class mean: the operations of the         *)
(* message classes that protoc wrote (descriptor.pb.cc, textevent.cpp), of  *)
(* MessageLite around them, and of the reflection that does the same work   *)
(* from the descriptor alone (wire_format.cc, reflection_ops.cc,            *)
(* generated_message_reflection.cc).                                        *)
(*                                                                          *)
(* An object holds its has bits, its members (a string is a sequence of raw *)
(* atoms, an optional message a sequence of at most one object, NULL when   *)
(* empty), the extensions it knows, the unknown fields, and the size        *)
(* ByteSize cached for the writer.                                          *)
(***************************************************************************)
EXTENDS ClassTables, WireData, FiniteSets, FiniteSetsExt

CONSTANTS
    Classes,        \* class name -> its tables
    EnumValues,     \* enum name -> the numbers IsValid accepts
    Registered,     \* the extension numbers registered, all optional int32
    RecursionLimit  \* of the CodedInputStream

FieldsOf(c) == DOMAIN Classes[c].fields
TypeOf(c, f) == Classes[c].fields[f].type
LabelOf(c, f) == Classes[c].fields[f].label
IsMessage(type) == type \in DOMAIN Classes
IsString(type) == type \in {"string", "bytes"}
IsRepeated(c, f) == LabelOf(c, f) \in {"repeated", "packed"}
BitOf(c, f) == Classes[c].hasBits[f]

(* The bytes of a value that ByteSize counts, after its tag.                *)
ScalarSize(type, v) ==
    CASE type = "bool" -> 1 [] type = "double" -> 8 [] OTHER -> VarintSize(v)

-----------------------------------------------------------------------------
(* SharedCtor.  Repeated fields start empty.                                *)
New(c) ==
    [class |-> c, has |-> {}, ext |-> {}, unknown |-> <<>>, size |-> 0,
     val |-> [f \in FieldsOf(c) |->
                IF f \in DOMAIN Classes[c].new THEN Classes[c].new[f] ELSE <<>>]]

Has(o, f) == BitOf(o.class, f) \in o.has

(* The fields that count as set.                                            *)
Present(o) ==
    {f \in FieldsOf(o.class) :
        IF IsRepeated(o.class, f) THEN o.val[f] # <<>> ELSE Has(o, f)}

(* set_f, add_f, and mutable_f followed by CopyFrom for messages.           *)
Set(o, f, v) ==
    IF IsRepeated(o.class, f)
    THEN [o EXCEPT !.val[f] = Append(@, v)]
    ELSE [o EXCEPT !.has = @ \union {BitOf(o.class, f)},
                   !.val[f] = IF IsMessage(TypeOf(o.class, f)) THEN <<v>> ELSE v]

(* The has bits a field step asks for.                                      *)
Runs(step, has) ==
    \/ step.kind = "always"
    \/ step.kind = "group" /\ has \intersect (step.group .. step.group + 7) # {}

RECURSIVE Clear(_)

(* Clear: a string or message is reset only under its has bit, a primitive  *)
(* with its group; then every has bit goes.                                 *)
Clear(o) ==
    LET c == o.class
        Reset(p, f, default) ==
            CASE IsRepeated(c, f) -> [p EXCEPT !.val[f] = <<>>]
              [] IsString(TypeOf(c, f)) /\ ~ IsRepeated(c, f) ->
                    IF Has(o, f) THEN [p EXCEPT !.val[f] = <<>>] ELSE p
              [] IsMessage(TypeOf(c, f)) /\ ~ IsRepeated(c, f) ->
                    IF Has(o, f) /\ o.val[f] # <<>>
                    THEN [p EXCEPT !.val[f] = <<Clear(@[1])>>] ELSE p
              [] OTHER -> [p EXCEPT !.val[f] = default]
        Step(p, step) ==
            CASE step.kind = "group" /\ Runs(step, o.has) ->
                    FoldSet(LAMBDA f, q : Reset(q, f, step.fields[f]), p, DOMAIN step.fields)
              [] step.kind = "always" -> FoldSet(LAMBDA f, q : Reset(q, f, 0), p, step.fields)
              [] step.kind = "extensions" -> [p EXCEPT !.ext = {}]
              [] step.kind = "unknown" -> [p EXCEPT !.unknown = <<>>]
              [] OTHER -> p
    IN  [FoldLeft(Step, o, Classes[c].clear) EXCEPT !.has = {}]

(* clear_f, and release_f but for the pointer it hands out.                 *)
ClearField(o, f) ==
    LET c == o.class
    IN  CASE IsRepeated(c, f) -> [o EXCEPT !.val[f] = <<>>]
          [] IsMessage(TypeOf(c, f)) /\ ~ IsRepeated(c, f) ->
                [o EXCEPT !.has = @ \ {BitOf(c, f)},
                          !.val[f] = IF @ = <<>> THEN @ ELSE <<Clear(@[1])>>]
          [] OTHER -> [o EXCEPT !.has = @ \ {BitOf(c, f)}, !.val[f] = Classes[c].new[f]]

RECURSIVE MergeFrom(_, _)

\* What from gives to one field of to.
MergeField(from, to, f) ==
    LET c == to.class
        message == IsMessage(TypeOf(c, f))
        Copy(m) == MergeFrom(m, New(m.class))
    IN  IF IsRepeated(c, f)
        THEN [to EXCEPT !.val[f] =
                @ \o [k \in 1 .. Len(from.val[f]) |->
                        IF message THEN Copy(from.val[f][k]) ELSE from.val[f][k]]]
        ELSE IF ~ Has(from, f) THEN to
        ELSE [to EXCEPT !.has = @ \union {BitOf(c, f)},
                        !.val[f] = IF message
                                   THEN LET sub == IF @ = <<>> THEN New(TypeOf(c, f)) ELSE @[1]
                                        IN  <<IF from.val[f] = <<>> THEN sub
                                              ELSE MergeFrom(from.val[f][1], sub)>>
                                   ELSE from.val[f]]

\* What from gives to the extensions of to: its own win.
MergeExtensions(from, to) ==
    {e \in to.ext : \A x \in from.ext : x[1] # e[1]} \union from.ext

MergeFrom(from, to) ==
    LET Step(p, step) ==
            CASE Runs(step, from.has) -> FoldSet(LAMBDA f, q : MergeField(from, q, f), p, step.fields)
              [] step.kind = "extensions" -> [p EXCEPT !.ext = MergeExtensions(from, p)]
              [] step.kind = "unknown" -> [p EXCEPT !.unknown = @ \o from.unknown]
              [] OTHER -> p
    IN  FoldLeft(Step, to, Classes[to.class].merge)

CopyFrom(from, to) == MergeFrom(from, Clear(to))

(* Swap, the first of the two objects after it.                             *)
SwappedWith(o, p) ==
    LET swap == Classes[o.class].swap
    IN  [o EXCEPT !.has = p.has, !.unknown = p.unknown, !.size = p.size,
                  !.ext = IF "extensions" \in swap THEN p.ext ELSE @,
                  !.val = [f \in DOMAIN @ |-> IF f \in swap THEN p.val[f] ELSE @[f]]]

RECURSIVE IsInitialized(_)
IsInitialized(o) ==
    LET init == Classes[o.class].init
    IN  /\ init.required \subseteq o.has
        /\ \A f \in init.visits :
              (IsRepeated(o.class, f) \/ Has(o, f)) =>
                  \A k \in 1 .. Len(o.val[f]) : IsInitialized(o.val[f][k])

-----------------------------------------------------------------------------
(* ByteSize leaves in the object, and in every message it counts, the size  *)
(* the writer will use.                                                     *)
\* The fields ByteSize counts, each with the bytes of its tag.
Counted(o) ==
    LET c == o.class
        steps == Classes[c].size
        In(step) == {<<f, step.fields[f]>> :
                        f \in {g \in DOMAIN step.fields : IsRepeated(c, g) \/ Has(o, g)}}
    IN  UNION {In(steps[k]) : k \in {j \in DOMAIN steps : Runs(steps[j], o.has)}}

SizeSteps(o, kind) == \E k \in DOMAIN Classes[o.class].size : Classes[o.class].size[k].kind = kind

\* The bytes of one value, a length in front of it where it has one.
ValueSize(type, v) ==
    CASE IsMessage(type) -> VarintSize(v.size) + v.size
      [] IsString(type) -> VarintSize(Size(v)) + Size(v)
      [] OTHER -> ScalarSize(type, v)

\* The values of a field, one for an optional one that is set.
Values(o, f) ==
    IF IsRepeated(o.class, f) \/ IsMessage(TypeOf(o.class, f)) THEN o.val[f] ELSE <<o.val[f]>>

FieldSize(o, f, tag) ==
    LET type == TypeOf(o.class, f)
        data == FoldLeft(LAMBDA sum, v : sum + ValueSize(type, v), 0, Values(o, f))
    IN  IF LabelOf(o.class, f) = "packed"
        THEN IF data = 0 THEN 0 ELSE tag + VarintSize(data) + data
        ELSE tag * Len(Values(o, f)) + data

\* ExtensionSet::ByteSize.
ExtensionSize(o) == MapThenSumSet(LAMBDA e : TagSize(e[1]) + VarintSize(e[2]), o.ext)

RECURSIVE ByteSize(_)
ByteSize(o) ==
    LET counted == {e[1] : e \in Counted(o)}
        sized == [o EXCEPT !.val = [f \in DOMAIN @ |->
                    IF f \in counted /\ IsMessage(TypeOf(o.class, f))
                    THEN [k \in 1 .. Len(@[f]) |-> ByteSize(@[f][k])] ELSE @[f]]]
    IN  [sized EXCEPT !.size =
            MapThenSumSet(LAMBDA e : FieldSize(sized, e[1], e[2]), Counted(o))
            + (IF SizeSteps(o, "extensions") THEN ExtensionSize(o) ELSE 0)
            + (IF SizeSteps(o, "unknown") THEN Size(o.unknown) ELSE 0)]

\* Pairs in the order of their numbers.
ByNumber(pairs) ==
    [k \in 1 .. Cardinality(pairs) |->
        CHOOSE x \in pairs : Cardinality({y \in pairs : y[1] < x[1]}) = k - 1]

\* ExtensionSet::SerializeWithCachedSizes: in the order of their numbers.
WriteExtensions(o) ==
    [k \in 1 .. Cardinality(o.ext) |-> Varint(ByNumber(o.ext)[k][1], ByNumber(o.ext)[k][2])]

RECURSIVE Write(_, _)

\* One value under its number; a message with the size cached for it.
WriteValue(n, type, v, toArray) ==
    CASE IsMessage(type) -> Delimited(n, Write(v, toArray), v.size)
      [] IsString(type) -> Delimited(n, v, Size(v))
      [] type = "double" -> Fixed64(n, v)
      [] OTHER -> Varint(n, v)

WriteField(o, n, f, toArray) ==
    LET type == TypeOf(o.class, f)
        raw == [k \in 1 .. Len(o.val[f]) |-> Raw(o.val[f][k])]
    IN  CASE LabelOf(o.class, f) = "packed" ->
                IF o.val[f] = <<>> THEN <<>> ELSE <<Delimited(n, raw, Size(raw))>>
          [] LabelOf(o.class, f) # "packed" /\ (IsRepeated(o.class, f) \/ Has(o, f)) ->
                [k \in 1 .. Len(Values(o, f)) |-> WriteValue(n, type, Values(o, f)[k], toArray)]
          [] OTHER -> <<>>

(* SerializeWithCachedSizes, or ...ToArray: the fields in the order of the  *)
(* code, the unknown ones last.                                             *)
Write(o, toArray) ==
    LET order == IF toArray THEN Classes[o.class].writeArray ELSE Classes[o.class].write
        Put(data, e) ==
            data \o IF e[2] = "extensions" THEN WriteExtensions(o)
                    ELSE WriteField(o, e[1], e[2], toArray)
    IN  FoldLeft(Put, <<>>, order) \o o.unknown

(* SerializeToCodedStream and AppendToString: size first, then write.       *)
Serialize(o) == Write(ByteSize(o), FALSE)
SerializeToArray(o) == Write(ByteSize(o), TRUE)

-----------------------------------------------------------------------------
(* MergePartialFromCodedStream: what the parser makes of an object, and how *)
(* it stops: "more" at the end of the data, "end" at an end-group tag,      *)
(* "fail".                                                                  *)
Parsed(o, how) == [obj |-> o, how |-> how]

WireTypeFor(type) ==
    IF IsMessage(type) \/ IsString(type) THEN "delimited"
    ELSE IF type = "double" THEN "fixed64" ELSE "varint"

SkipUnknown(o, a, depth) ==
    Parsed([o EXCEPT !.unknown = Append(@, a)], IF Skippable(a, depth) THEN "more" ELSE "fail")

\* An extension this class was told of, read as an int32.
ReadExtension(o, a) ==
    Parsed([o EXCEPT !.ext = {e \in @ : e[1] # a.n} \union {<<a.n, a.i>>}], "more")

\* A varint as its field keeps it.
FromVarint(type, i) == IF type = "bool" /\ i # 0 THEN 1 ELSE i

RECURSIVE Parse(_, _, _)

\* ReadMessageNoVirtual into a new element or into the message already there.
ReadMessage(o, f, a, depth) ==
    LET type == TypeOf(o.class, f)
        old == IF IsRepeated(o.class, f) \/ o.val[f] = <<>> THEN New(type) ELSE o.val[f][1]
        read == Parse(old, a.s, depth - 1)
        sub == IF depth = 0 THEN old ELSE read.obj
        kept == IF IsRepeated(o.class, f) THEN [o EXCEPT !.val[f] = Append(@, sub)]
                ELSE [o EXCEPT !.has = @ \union {BitOf(o.class, f)}, !.val[f] = <<sub>>]
    IN  Parsed(kept, IF depth > 0 /\ read.how = "more" THEN "more" ELSE "fail")

\* ReadPackedPrimitive: every value of the payload.
ReadPacked(o, f, a) ==
    IF \A k \in 1 .. Len(a.s) : a.s[k].w = "raw"
    THEN Parsed([o EXCEPT !.val[f] = @ \o [k \in 1 .. Len(a.s) |-> a.s[k].i]], "more")
    ELSE Parsed(o, "fail")

ReadValue(o, f, type, a) ==
    CASE type \in DOMAIN EnumValues /\ a.i \notin EnumValues[type] ->
            Parsed([o EXCEPT !.unknown = Append(@, Varint(a.n, a.i))], "more")
      [] IsString(type) -> Parsed(Set(o, f, a.s), "more")
      [] OTHER -> Parsed(Set(o, f, FromVarint(type, a.i)), "more")

ParseField(o, a, depth) ==
    LET c == o.class
        cases == {r \in Classes[c].parse : r.number = a.n}
        read == {r \in cases : a.w = WireTypeFor(r.type)}
        packed == {r \in cases : r.packed /\ a.w = "delimited"}
    IN  CASE a.w = "raw" -> Parsed(o, "fail")
          [] read # {} ->
                LET r == CHOOSE r \in read : TRUE
                IN  IF IsMessage(r.type) THEN ReadMessage(o, r.field, a, depth)
                    ELSE ReadValue(o, r.field, r.type, a)
          [] read = {} /\ packed # {} -> ReadPacked(o, (CHOOSE r \in packed : TRUE).field, a)
          [] OTHER ->
                CASE a.w = "endgroup" -> Parsed(o, "end")
                  [] a.w = "varint" /\ Classes[c].extend \in 1 .. a.n /\ a.n \in Registered ->
                        ReadExtension(o, a)
                  [] OTHER -> SkipUnknown(o, a, depth)

Parse(o, data, depth) ==
    FoldLeft(LAMBDA r, a : IF r.how = "more" THEN ParseField(r.obj, a, depth) ELSE r,
             Parsed(o, "more"), data)

(* ParsePartialFromString: all of the data, into a cleared object.          *)
ParseFrom(o, data) == Parse(Clear(o), data, RecursionLimit)

-----------------------------------------------------------------------------
(* Reflection: everything from the descriptor and the offsets; the has bit  *)
(* of a field is its index among the offsets.                               *)
IndexOf(c, f) == CHOOSE k \in 0 .. Len(Classes[c].offsets) - 1 : Classes[c].offsets[k + 1] = f
HasBit(o, f) == IndexOf(o.class, f) \in o.has

ListFields(o) ==
    {f \in Range(Classes[o.class].offsets) :
        IF IsRepeated(o.class, f) THEN o.val[f] # <<>> ELSE HasBit(o, f)}

NumberOf(c, f) == Classes[c].fields[f].number

\* The listed fields and the extensions, sorted by number.
SortedFields(o) ==
    ByNumber({<<NumberOf(o.class, f), f>> : f \in ListFields(o)}
             \union {<<e[1], "extensions">> : e \in o.ext})

RECURSIVE ReflectSize(_)
ReflectSize(o) ==
    LET sized == [o EXCEPT !.val = [f \in DOMAIN @ |->
                    IF f \in ListFields(o) /\ IsMessage(TypeOf(o.class, f))
                    THEN [k \in 1 .. Len(@[f]) |-> ReflectSize(@[f][k])] ELSE @[f]]]
    IN  [sized EXCEPT !.size =
            MapThenSumSet(LAMBDA f : FieldSize(sized, f, TagSize(NumberOf(o.class, f))), ListFields(o))
            + ExtensionSize(o) + Size(o.unknown)]

RECURSIVE ReflectWrite(_)
ReflectWriteField(o, n, f) ==
    IF IsMessage(TypeOf(o.class, f))
    THEN [k \in 1 .. Len(o.val[f]) |->
            Delimited(n, ReflectWrite(o.val[f][k]), o.val[f][k].size)]
    ELSE WriteField(o, n, f, FALSE)

ReflectWrite(o) ==
    FoldLeft(LAMBDA data, e :
                data \o IF e[2] = "extensions"
                        THEN <<Varint(e[1], (CHOOSE x \in o.ext : x[1] = e[1])[2])>>
                        ELSE ReflectWriteField(o, e[1], e[2]),
             <<>>, SortedFields(o)) \o o.unknown

(* ReflectionOps::Merge, with the setters of the reflection.                *)
ReflectMerge(from, to) ==
    LET c == to.class
        SetBit(f) == IF IsRepeated(c, f) THEN {} ELSE {IndexOf(c, f)}
        Sub(m, sub) == MergeFrom(m, sub)
        Put(f, p) ==
            [p EXCEPT
               !.has = @ \union SetBit(f),
               !.val[f] =
                 CASE IsMessage(TypeOf(c, f)) /\ IsRepeated(c, f) ->
                        @ \o [k \in 1 .. Len(from.val[f]) |-> Sub(from.val[f][k], New(TypeOf(c, f)))]
                   [] IsMessage(TypeOf(c, f)) /\ ~ IsRepeated(c, f) ->
                        <<MergeFrom(from.val[f][1], IF @ = <<>> THEN New(TypeOf(c, f)) ELSE @[1])>>
                   [] ~ IsMessage(TypeOf(c, f)) /\ IsRepeated(c, f) -> @ \o from.val[f]
                   [] OTHER -> from.val[f]]
    IN  [FoldSet(Put, to, ListFields(from)) EXCEPT
            !.ext = MergeExtensions(from, to), !.unknown = @ \o from.unknown]

(* GeneratedMessageReflection::ClearField of a field that is listed.        *)
ReflectClearField(f, o) ==
    LET c == o.class
    IN  [o EXCEPT
           !.has = IF IsRepeated(c, f) THEN @ ELSE @ \ {IndexOf(c, f)},
           !.val[f] = CASE IsRepeated(c, f) -> <<>>
                        [] IsMessage(TypeOf(c, f)) /\ ~ IsRepeated(c, f) -> <<Clear(@[1])>>
                        [] OTHER -> Classes[c].new[f]]

(* ReflectionOps::Clear: ClearField of every listed field.                  *)
ReflectClear(o) ==
    [FoldSet(ReflectClearField, o, ListFields(o)) EXCEPT !.ext = {}, !.unknown = <<>>]

(* GeneratedMessageReflection::Swap: the first of the two after it.         *)
ReflectSwap(o, p) ==
    [o EXCEPT !.has = p.has, !.ext = p.ext, !.unknown = p.unknown,
              !.val = [f \in DOMAIN @ |-> IF f \in Range(Classes[o.class].offsets)
                                          THEN p.val[f] ELSE @[f]]]

RECURSIVE ReflectIsInitialized(_)
ReflectIsInitialized(o) ==
    /\ \A f \in FieldsOf(o.class) : LabelOf(o.class, f) = "required" => HasBit(o, f)
    /\ \A f \in ListFields(o) :
          IsMessage(TypeOf(o.class, f)) =>
              \A k \in 1 .. Len(o.val[f]) : ReflectIsInitialized(o.val[f][k])

RECURSIVE ReflectParse(_, _, _)
ReflectReadMessage(o, f, a, depth) ==
    LET type == TypeOf(o.class, f)
        old == IF IsRepeated(o.class, f) \/ o.val[f] = <<>> THEN New(type) ELSE o.val[f][1]
        read == ReflectParse(old, a.s, depth - 1)
        sub == IF depth = 0 THEN old ELSE read.obj
    IN  Parsed([o EXCEPT !.has = IF IsRepeated(o.class, f) THEN @ ELSE @ \union {IndexOf(o.class, f)},
                         !.val[f] = IF IsRepeated(o.class, f) THEN Append(@, sub) ELSE <<sub>>],
               IF depth > 0 /\ read.how = "more" THEN "more" ELSE "fail")

(* ParseAndMergeField: any packable field may come packed.                  *)
ReflectParseField(o, a, depth) ==
    LET c == o.class
        found == {f \in FieldsOf(c) : NumberOf(c, f) = a.n}
        f == CHOOSE g \in found : TRUE
        normal == found # {} /\ a.w = WireTypeFor(TypeOf(c, f))
        packable == found # {} /\ IsRepeated(c, f) /\ WireTypeFor(TypeOf(c, f)) # "delimited"
    IN  CASE a.w = "raw" -> Parsed(o, "fail")
          [] a.w = "endgroup" -> Parsed(o, "end")
          [] normal -> IF IsMessage(TypeOf(c, f)) THEN ReflectReadMessage(o, f, a, depth)
                       ELSE ReadValue(o, f, TypeOf(c, f), a)
          [] packable /\ a.w = "delimited" -> ReadPacked(o, f, a)
          [] OTHER -> IF found = {} /\ a.w = "varint" /\ a.n \in Registered /\ Classes[c].extend \in 1 .. a.n
                      THEN ReadExtension(o, a) ELSE SkipUnknown(o, a, depth)

ReflectParse(o, data, depth) ==
    FoldLeft(LAMBDA r, a : IF r.how = "more" THEN ReflectParseField(r.obj, a, depth) ELSE r,
             Parsed(o, "more"), data)

-----------------------------------------------------------------------------
(* What a caller can see of an object.                                      *)
RECURSIVE View(_)
View(o) ==
    [class |-> o.class, ext |-> o.ext, unknown |-> o.unknown,
     fields |-> [f \in Present(o) |->
                    IF IsMessage(TypeOf(o.class, f))
                    THEN [k \in 1 .. Len(o.val[f]) |-> View(o.val[f][k])] ELSE o.val[f]]]
=============================================================================
