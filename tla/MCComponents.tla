---------------------------- MODULE MCComponents ----------------------------
(***************************************************************************)
(* The components that do not share state, side by side for TLC: the first  *)
(* state chooses one, and only that one ever moves.  Session,               *)
(* RepeatedPtrField and CodedInput stay in their first states meanwhile,    *)
(* and the variables of the others stay 0; equal names are used by one      *)
(* component or another.                                                    *)
(***************************************************************************)
EXTENDS MCSession, TLC, EventClass, RepeatedPtrField, CodedInput

CONSTANTS Raws, Registry, Streams, Locations, Texts, Protos

VARIABLES
    part,
    doc, history, typed,
    sent, wire, message, read, at, stream,
    numbers,
    sets, unknown, objects, released, calls, call,
    out, coded, since, reported, wanted,
    last, ok,
    index, fallback, tables

-----------------------------------------------------------------------------
\* Distinct characters, so that a piece of text tells where it came from.
Edits == INSTANCE EditHistory WITH
    Clients <- {ann}, Char <- 1 .. 6, MaxEvents <- 5, MaxBurst <- 2

EventAlone == [Event |-> Event]
EventEnums == [EventType |-> EventType_IsValid]
Codec == INSTANCE EventCodec WITH
    Classes <- EventAlone, EnumValues <- EventEnums,
    Registered <- {}, RecursionLimit <- 3,
    Types <- {0, 1}, Users <- {70000}, IntMax <- 100000, MaxFrames <- 2

Plain == INSTANCE RepeatedField WITH
    Fields <- {"a", "b"}, Values <- {0, 1}, Unset <- 2, MinAllocation <- 2, MaxSize <- 3,
    fields <- numbers

ExtSets == INSTANCE ExtensionSet WITH
    Sets <- {"a", "b"}, ValidEnum <- {1}, Objects <- 1 .. 3, Values <- {0, 1}, Empty <- 0,
    Freed <- 2, MaxCalls <- 3, live <- objects, held <- released

Outputs == INSTANCE OutputStreams WITH
    Kinds <- {"array", "string", "copying"}, Blocks <- 1 .. 3, ArraySize <- 4, MinimumSize <- 3,
    Base <- 2, MaxVarintBytes <- 3, Numbers <- {1, 2, 5}, Junk <- 9, MaxBytes <- 4,
    asked <- wanted

Inputs == INSTANCE InputStreams WITH MaxSkip <- 4

\* The database is never given the second file of a name.
Pool == INSTANCE DescriptorPool WITH Encoded <- DOMAIN Protos \ {"base2"}, MaxBad <- 1

ASSUME /\ SessionAssumption /\ PtrAssumption /\ InputAssumption
       /\ Edits!EditBoundsAssumption

-----------------------------------------------------------------------------
editVars == <<doc, history, typed>>
codecVars == <<sent, wire, message, read, at>>
extensionVars == <<sets, unknown, objects, released, calls, call>>
outputVars == <<out, coded, since, reported, wanted>>
inputVars == <<last, ok>>
poolVars == <<index, fallback, tables>>
componentVars == <<part, vars, ptrVars, editVars, codedVars, codecVars, stream, numbers,
                   extensionVars, outputVars, inputVars, poolVars>>

NoEdit == doc = 0 /\ history = 0 /\ typed = 0
NoCodec == sent = 0 /\ wire = 0 /\ message = 0 /\ read = 0 /\ at = 0
NoExtension ==
    sets = 0 /\ unknown = 0 /\ objects = 0 /\ released = 0 /\ calls = 0 /\ call = 0
NoOutput == out = 0 /\ coded = 0 /\ since = 0 /\ reported = 0 /\ wanted = 0
NoInput == last = 0 /\ ok = 0
NoPool == index = 0 /\ fallback = 0 /\ tables = 0

Chosen ==
    \/ /\ part = "entry"
       /\ NoEdit /\ NoCodec /\ NoExtension /\ NoOutput /\ NoInput /\ NoPool
       /\ stream = 0 /\ numbers = 0
    \/ /\ part = "edits" /\ Edits!Init
       /\ NoCodec /\ NoExtension /\ NoOutput /\ NoInput /\ NoPool
       /\ stream = 0 /\ numbers = 0
    \/ /\ part = "coded"
       /\ NoEdit /\ NoCodec /\ NoExtension /\ NoOutput /\ NoInput /\ NoPool
       /\ stream = 0 /\ numbers = 0
    \/ /\ part = "codec" /\ Codec!Init
       /\ NoEdit /\ NoExtension /\ NoOutput /\ NoInput /\ NoPool
       /\ numbers = 0
    \/ /\ part = "pointers"
       /\ NoEdit /\ NoCodec /\ NoExtension /\ NoOutput /\ NoInput /\ NoPool
       /\ stream = 0 /\ numbers = 0
    \/ /\ part = "numbers" /\ Plain!Init
       /\ NoEdit /\ NoCodec /\ NoExtension /\ NoOutput /\ NoInput /\ NoPool
       /\ stream = 0
    \/ /\ part = "extensions" /\ ExtSets!Init
       /\ NoEdit /\ NoCodec /\ NoOutput /\ NoInput /\ NoPool
       /\ stream = 0 /\ numbers = 0
    \/ /\ part = "outputs" /\ Outputs!Init
       /\ NoEdit /\ NoCodec /\ NoExtension /\ NoInput /\ NoPool
       /\ stream = 0 /\ numbers = 0
    \/ /\ part = "inputs" /\ Inputs!Init
       /\ NoEdit /\ NoCodec /\ NoExtension /\ NoOutput /\ NoPool
       /\ numbers = 0
    \/ /\ part = "descriptors" /\ Pool!Init
       /\ NoEdit /\ NoCodec /\ NoExtension /\ NoOutput /\ NoInput
       /\ stream = 0 /\ numbers = 0

\* More than an int counts to, and less than the total limit.
Bits == <<1, 2, 1, 3, 3, 0, 2>>
SomeSources == {Bits, SubSeq(Bits, 1, 3)}

\* Where CodedInput rests.
Resting == data = Bits /\ position = 1

ComponentsInit ==
    /\ Init /\ PtrInit /\ CodedInit
    /\ Chosen
    /\ part # "coded" => Resting

ComponentsNext ==
    /\ UNCHANGED part
    /\ \/ /\ part = "entry" /\ Next
          /\ UNCHANGED <<ptrVars, editVars, codedVars, codecVars, stream, numbers,
                         extensionVars, outputVars, inputVars, poolVars>>
       \/ /\ part = "edits" /\ Edits!Next
          /\ UNCHANGED <<vars, ptrVars, codedVars, codecVars, stream, numbers,
                         extensionVars, outputVars, inputVars, poolVars>>
       \/ /\ part = "coded" /\ CodedNext
          /\ UNCHANGED <<vars, ptrVars, editVars, codecVars, stream, numbers,
                         extensionVars, outputVars, inputVars, poolVars>>
       \/ /\ part = "codec" /\ Codec!Next
          /\ UNCHANGED <<vars, ptrVars, editVars, codedVars, numbers,
                         extensionVars, outputVars, inputVars, poolVars>>
       \/ /\ part = "pointers" /\ PtrNext
          /\ UNCHANGED <<vars, editVars, codedVars, codecVars, stream, numbers,
                         extensionVars, outputVars, inputVars, poolVars>>
       \/ /\ part = "numbers" /\ Plain!Next
          /\ UNCHANGED <<vars, ptrVars, editVars, codedVars, codecVars, stream,
                         extensionVars, outputVars, inputVars, poolVars>>
       \/ /\ part = "extensions" /\ ExtSets!Next
          /\ UNCHANGED <<vars, ptrVars, editVars, codedVars, codecVars, stream, numbers,
                         outputVars, inputVars, poolVars>>
       \/ /\ part = "outputs" /\ Outputs!Next
          /\ UNCHANGED <<vars, ptrVars, editVars, codedVars, codecVars, stream, numbers,
                         extensionVars, inputVars, poolVars>>
       \/ /\ part = "inputs" /\ Inputs!Next
          /\ UNCHANGED <<vars, ptrVars, editVars, codedVars, codecVars, numbers,
                         extensionVars, outputVars, poolVars>>
       \/ /\ part = "descriptors" /\ Pool!Next
          /\ UNCHANGED <<vars, ptrVars, editVars, codedVars, codecVars, stream, numbers,
                         extensionVars, outputVars, inputVars>>

ComponentsSpec == ComponentsInit /\ [][ComponentsNext]_componentVars

-----------------------------------------------------------------------------
(* Undoing a typed burst removes its own text, and undoing a removal puts   *)
(* the text back where it stood (ViewController.mm:495-518).                *)
UndoFindsItsPlace == part = "edits" => Edits!UndoFindsItsText /\ Edits!UndoFindsItsPlace

(* Every event comes out of the data it was put into, and what follows it   *)
(* is left for the next call (ViewController.mm:718-754).                   *)
EventsArrive == part = "codec" => Codec!EventsArrive /\ Codec!GivesBackTheRest

(* A RepeatedField is a sequence of values, none of them an element never   *)
(* written (repeated_field.h:503-775).                                      *)
NumbersAreSequence ==
    /\ part = "numbers" => Plain!Abstract!Init
    /\ [][part = "numbers" =>
            [Plain!Abstract!Step]_(Plain!Contents) /\ Plain!ElementsAreWritten]_componentVars

(* Every object of an ExtensionSet belongs to one entry or to the caller,   *)
(* and that of a cleared entry is empty (extension_set.cc:430-560).         *)
EntriesOwnOnce == part = "extensions" => ExtSets!EntriesOwnOnce /\ ExtSets!ClearedIsDefault

(* An ExtensionSet writes what it sized, and reads what it wrote            *)
(* (extension_set.cc:1058-1310).                                            *)
WritesItself == part = "extensions" => ExtSets!WritesItself

(* An ExtensionSet holds, call by call, the values its calls name           *)
(* (extension_set.cc:457-478, 683-823).                                     *)
HoldsValues ==
    /\ part = "extensions" => ExtSets!Abstract!Init
    /\ [][part = "extensions" => [ExtSets!Abstract!Step]_<<ExtSets!Contents, call>>]_componentVars

(* What is written into an output stream is in it, in order, and both byte  *)
(* counts tell so (coded_stream.cc:567-692, zero_copy_stream_impl_lite.cc:  *)
(* 99-376).                                                                 *)
EverythingArrives == part = "outputs" => Outputs!EverythingArrives /\ Outputs!CountsAgree

(* What a writer, a reader or a limit gives back is accepted by the stream  *)
(* below, which checks and aborts (zero_copy_stream_impl_lite.cc:78-85,     *)
(* 131-138, 255-265, 344-353).                                              *)
BackUpIsTaken ==
    /\ part = "outputs" => Outputs!BackUpIsTaken
    /\ part = "inputs" => Inputs!BackUpIsTaken

(* Input streams, stacked on each other, hand out the bytes in order        *)
(* (zero_copy_stream_impl.cc:359-464).                                      *)
IsByteStream ==
    [][part = "inputs" =>
        [Inputs!Promise!Next \/ Inputs!Promise!BackUp \/ Inputs!Promise!Skip
            \/ Inputs!Promise!Unwrap]_(Inputs!Promise!streamVars)]_componentVars

(* Between calls a DescriptorPool holds the files built without an error    *)
(* and what they declare, whole; nothing of a file that was taken back      *)
(* (descriptor.cc:577-640, 3029-3245).                                      *)
AllOrNothing == part = "descriptors" => Pool!AllOrNothing

(* A descriptor that was handed out stays in the pool, whatever fails later *)
(* (descriptor.cc:957-1090, 3029-3245).                                     *)
DescriptorsStay == [][part = "descriptors" => Pool!KeepsDescriptors]_poolVars

-----------------------------------------------------------------------------
\* The data and the streams of the instances.
Atoms == INSTANCE WireData
Made == INSTANCE InputStreams WITH Streams <- {}, MaxSkip <- 0

SomeSizes == {-1, 0, 2, 6}
SomeRaws == {<<0>>, <<1, 2, 3>>}
SomeLocations == {-1, 300}
SomeTexts == {<<>>, <<Atoms!Raw(7)>>, [k \in 1 .. 45 |-> Atoms!Raw(20000)]}

Extension(type, repeated, packed) == [type |-> type, repeated |-> repeated, packed |-> packed]
SomeExtensions ==
    2 :> Extension("message", FALSE, FALSE) @@ 3 :> Extension("enum", TRUE, TRUE)
        @@ 4 :> Extension("message", TRUE, FALSE) @@ 5 :> Extension("string", FALSE, FALSE)

Leaves(bytes) ==
    {Made!Array(bytes, b) : b \in 1 .. 3}
        \cup {Made!Copying(bytes, b, f) : b \in {2, 3}, f \in BOOLEAN}
Limits(inputs) == {Made!Limiting(i, l) : i \in inputs, l \in {0, 2, 3, 6}}
Joined ==
    {Made!Concatenating(<<a, b, c>>) :
        a \in Leaves(<<1, 2, 3>>),
        b \in Limits({Made!Array(<<4, 5, 6>>, 2)}) \cup {Made!Array(<<>>, 2)},
        c \in {Made!Array(<<7, 8>>, 2), Made!Copying(<<7, 8>>, 3, FALSE)}}
SomeStreams == Leaves(<<1, 2, 3, 4>>) \cup Limits(Leaves(<<1, 2, 3, 4>>)) \cup Joined \cup Limits(Joined)

Proto == INSTANCE ProtoFiles
SomeFiles == Proto!Files
=============================================================================
