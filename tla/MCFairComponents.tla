-------------------------- MODULE MCFairComponents --------------------------
(***************************************************************************)
(* Components that share no state, side by side for TLC: objects of the     *)
(* generated classes, all 21 of them; the threads that race to build what   *)
(* is built lazily; and session entry with users who wait for answers.  The *)
(* first state chooses one, and only that one ever moves; Session stays in  *)
(* its first state meanwhile.  What the platform runs by itself is          *)
(* scheduled fairly.                                                        *)
(***************************************************************************)
EXTENDS MCSession, DescriptorClasses, OptionClasses, EventClass, LazyInit

VARIABLES
    part,
    class, msg, other, calls

AllClasses == [
    FileDescriptorSet |-> FileDescriptorSet,
    FileDescriptorProto |-> FileDescriptorProto,
    DescriptorProto_ExtensionRange |-> DescriptorProto_ExtensionRange,
    DescriptorProto |-> DescriptorProto,
    FieldDescriptorProto |-> FieldDescriptorProto,
    EnumDescriptorProto |-> EnumDescriptorProto,
    EnumValueDescriptorProto |-> EnumValueDescriptorProto,
    ServiceDescriptorProto |-> ServiceDescriptorProto,
    MethodDescriptorProto |-> MethodDescriptorProto,
    FileOptions |-> FileOptions,
    MessageOptions |-> MessageOptions,
    FieldOptions |-> FieldOptions,
    EnumOptions |-> EnumOptions,
    EnumValueOptions |-> EnumValueOptions,
    ServiceOptions |-> ServiceOptions,
    MethodOptions |-> MethodOptions,
    UninterpretedOption_NamePart |-> UninterpretedOption_NamePart,
    UninterpretedOption |-> UninterpretedOption,
    SourceCodeInfo_Location |-> SourceCodeInfo_Location,
    SourceCodeInfo |-> SourceCodeInfo,
    Event |-> Event]

AllEnums == [
    FieldDescriptorProto_Type |-> FieldDescriptorProto_Type_IsValid,
    FieldDescriptorProto_Label |-> FieldDescriptorProto_Label_IsValid,
    FileOptions_OptimizeMode |-> FileOptions_OptimizeMode_IsValid,
    FieldOptions_CType |-> FieldOptions_CType_IsValid,
    EventType |-> EventType_IsValid]

AllNames == DOMAIN AllClasses

\* one call, two for the smallest classes
FewCalls == [c \in AllNames |-> IF c \in {"Event", "UninterpretedOption_NamePart"} THEN 2 ELSE 1]

Objects == INSTANCE MessageObjects WITH
    Classes <- AllClasses, EnumValues <- AllEnums, Registered <- {1000}, RecursionLimit <- 3,
    Studied <- AllNames, MaxCalls <- FewCalls

ASSUME Objects!ObjectsAssumption /\ LazyAssumption /\ SessionAssumption

-----------------------------------------------------------------------------
objectVars == <<class, msg, other, calls>>
componentVars == <<part, objectVars, startVars, vars>>

NoObject == class = 0 /\ msg = 0 /\ other = 0 /\ calls = 0
NoStartup == StartInit /\ todo[Main][1].on = OptionsFile

Chosen ==
    \/ part = "objects" /\ Objects!Init /\ NoStartup
    \/ part = "startup" /\ StartInit /\ NoObject
    \/ part = "entry" /\ NoObject /\ NoStartup

ComponentsInit == Init /\ Chosen

InStartup(A) == part = "startup" /\ A /\ UNCHANGED <<part, objectVars, vars>>
InEntry(A) == part = "entry" /\ A /\ UNCHANGED <<part, objectVars, startVars>>

ComponentsNext ==
    \/ part = "objects" /\ Objects!Next /\ UNCHANGED <<part, startVars, vars>>
    \/ InStartup(StartNext)
    \/ InEntry(PatientNext)

(* The scheduler runs every thread that can run: it spins with SchedYield   *)
(* or waits for a mutex only while another one works.  The service answers, *)
(* the completion handlers, segues and callbacks run.                       *)
ComponentsSpec ==
    /\ ComponentsInit /\ [][ComponentsNext]_componentVars
    /\ WF_componentVars(InStartup(EnterMain))
    /\ \A t \in Threads : WF_componentVars(InStartup(ThreadStep(t)))
    /\ \A d \in Devices :
          /\ WF_componentVars(InEntry(Serve(d)))
          /\ WF_componentVars(InEntry(Complete(d)))
          /\ WF_componentVars(InEntry(LoadEditor(d)))
          /\ \A k \in Clients : WF_componentVars(InEntry(Receive(d, k)))

-----------------------------------------------------------------------------
(* The three writers of a class produce the same bytes, as many as ByteSize *)
(* announced, and parsing them gives the object back (descriptor.pb.cc,     *)
(* MergePartialFromCodedStream against SerializeWithCachedSizes;            *)
(* message_lite.cc:60-69, wire_format.cc:704-847).                          *)
RoundTrip ==
    part = "objects" => Objects!WritesWhatItSized /\ Objects!WritersAgree /\ Objects!RoundTrip

(* Parsing two messages one after the other merges them, copying and        *)
(* swapping leave nothing of the old value behind, and a field that is not  *)
(* set holds its default (descriptor.pb.cc, MergeFrom, CopyFrom, Swap,      *)
(* Clear).                                                                  *)
ConcatenationMerges ==
    part = "objects" =>
        Objects!ConcatenationMerges /\ Objects!CopiesAndSwaps /\ Objects!UnsetHoldsDefault

(* Reflection and the generated code merge, clear, swap and parse alike     *)
(* (reflection_ops.cc:48-177, generated_message_reflection.cc:309-420,      *)
(* wire_format.cc:362-618).                                                 *)
ReflectionAgrees == part = "objects" => Objects!ReflectionAgrees /\ Objects!ParsersAgree

(* Every call returns although once objects and mutexes nest                *)
(* (descriptor.cc:964-977, message.cc:300-338).                             *)
EveryCallReturns ==
    \A t \in Threads :
        (part = "startup" /\ todo[t] # <<>>) ~> (part = "startup" /\ todo[t] = <<>>)
=============================================================================
