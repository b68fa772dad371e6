------------------------------ MODULE LazyInit ------------------------------
(***************************************************************************)
(* The lazy start of the protobuf runtime in a program with threads         *)
(* (descriptor.cc, message.cc, stubs/common.cc, textevent.cpp,              *)
(* descriptor.pb.cc).  Static initialization registers every generated      *)
(* file; descriptors, reflection and prototypes are built when first asked  *)
(* for, under once objects and mutexes that nest: the closure of one once   *)
(* object calls another, takes the mutex of the pool, and may itself run    *)
(* under the mutex of the message factory.                                  *)
(*                                                                          *)
(* A thread is what it still has to do, a sequence of steps; a call is      *)
(* replaced by the steps of its body.                                       *)
(***************************************************************************)
EXTENDS Naturals, Sequences, SequencesExt, FiniteSets

CONSTANTS
    Threads,
    Main,       \* the thread that runs the static initializers
    Files,      \* the generated files
    OptionsFile,\* the one that declares the option messages: descriptor.proto
    MaxCalls    \* bound on the calls of a thread

LazyAssumption ==
    /\ Main \in Threads
    /\ IsFiniteSet(Files) /\ OptionsFile \in Files
    /\ Files \intersect {"generated_pool", "generated_factory", "shutdown_functions"} = {}
    /\ MaxCalls \in Nat

VARIABLES
    once,       \* [once object -> its state]
    made,       \* the once objects whose pointers are set
    holder,     \* [mutex -> the threads that hold it]
    todo,       \* [Threads -> Seq of steps]
    called,     \* [Threads -> Nat]
    started,    \* static initialization is over
    database,   \* Seq of the encoded files added to the generated database
    fileMap,    \* Seq of the files registered with the factory
    built,      \* Seq of the files whose descriptors were built in the pool
    typeMap,    \* Seq of the files whose types are registered
    shutdown,   \* Seq: shutdown_functions
    ended       \* ShutdownProtobufLibrary has been called

startVars == <<once, made, holder, todo, called, started, database, fileMap, built, typeMap, shutdown, ended>>
tables == <<database, fileMap, built, typeMap, shutdown>>

\* A file stands for its own protobuf_AssignDescriptors_once_.
Singletons == {"generated_pool", "generated_factory", "shutdown_functions"}
Onces == Singletons \union Files

Step(do, on) == [do |-> do, on |-> on]
Once(o) == Step("once", o)
Lock(m) == Step("lock", m)
Unlock(m) == Step("unlock", m)

-----------------------------------------------------------------------------
(* The bodies of the functions, as steps.                                   *)
OnShutdown(o) ==
    <<Once("shutdown_functions"), Lock("shutdown_functions"), Step("push", o),
      Unlock("shutdown_functions")>>

\* protobuf_AddDesc of a file, guarded by already_here.
AddDesc(f) ==
    <<Once("generated_pool"), Step("encode", f), Once("generated_factory"), Step("file", f)>>
    \o OnShutdown(f)

(* Slip: the options are copied through reflection.                         *)
CopyOptionsByReflection(f) == <<Once(OptionsFile), Step("use", OptionsFile)>>

\* AllocateOptions serializes and parses, to keep away from descriptors.
AllocateOptions(f) == <<>>

\* FindFileByName of the generated pool, which builds what is missing.
FindFile(f) == <<Lock("generated_pool"), Step("find", f), Unlock("generated_pool")>>

AssignDesc(f) ==
    <<Step("adddesc", f), Once("generated_pool")>> \o FindFile(f)
    \o <<Once("generated_pool"), Once("generated_factory"), Step("make", f)>>

\* What a once object runs.
Closure(o) ==
    CASE o \in Files -> AssignDesc(o)
      [] o = "shutdown_functions" -> <<Step("make", o)>>
      [] OTHER -> <<Step("make", o)>> \o OnShutdown(o)

\* The closure runs, then DONE is stored.
Run(o) == Closure(o) \o <<Step("done", o)>>

(* Slip: what another thread registered meanwhile is not looked for.        *)
RegisterBlindly(f) == <<Once(f), Once("generated_factory"), Step("type", f)>>

\* Under the writer's lock: another thread may have come first.
RegisterTypes(f) ==
    IF f \in ToSet(typeMap) THEN <<>> ELSE <<Once(f), Once("generated_factory"), Step("type", f)>>

\* GeneratedMessageFactory::GetPrototype, first under the reader's lock.
GetPrototype(f) == <<Once("generated_factory"), Lock("generated_factory"), Step("peek", f)>>

(* Slip: the lock is not taken again.                                       *)
PeekedUnlocked(f) ==
    IF f \in ToSet(typeMap) THEN <<Unlock("generated_factory")>>
    ELSE <<Unlock("generated_factory"), Once("generated_pool"), Step("register", f)>>

\* What follows the first look.
Peeked(f) ==
    IF f \in ToSet(typeMap) THEN <<Unlock("generated_factory")>>
    ELSE <<Unlock("generated_factory"), Once("generated_pool"),
           Lock("generated_factory"), Step("register", f), Unlock("generated_factory")>>

-----------------------------------------------------------------------------
StartInit ==
    /\ once = [o \in Onces |-> "uninitialized"]
    /\ made = {}
    /\ holder = [m \in Singletons |-> {}]
    /\ \E order \in [1 .. Cardinality(Files) -> Files] :
          /\ IsInjective(order)
          /\ todo = [t \in Threads |->
                IF t = Main
                THEN [k \in DOMAIN order |-> Step("adddesc", order[k])] \o <<Step("main", Main)>>
                ELSE <<>>]
    /\ called = [t \in Threads |-> 0]
    /\ started = FALSE
    /\ database = <<>> /\ fileMap = <<>> /\ built = <<>> /\ typeMap = <<>> /\ shutdown = <<>>
    /\ ended = FALSE

Due(t, do) == todo[t] # <<>> /\ Head(todo[t]).do = do
On(t) == Head(todo[t]).on
Goes(t, steps) == todo' = [todo EXCEPT ![t] = steps \o Tail(@)]
Continue(t) == Goes(t, <<>>)

\* What the program calls, with the descriptor in hand where it needs one.
Calls(f) ==
    {<<Once(f), Step("use", f)>>,
     <<Once(f), Step("use", f)>> \o GetPrototype(f),
     <<Once("generated_pool"), Step("use", "generated_pool")>> \o FindFile(f)}

Call(t) ==
    /\ started /\ ~ ended
    /\ todo[t] = <<>>
    /\ called[t] < MaxCalls
    /\ \E f \in Files : \E call \in Calls(f) : todo' = [todo EXCEPT ![t] = call]
    /\ called' = [called EXCEPT ![t] = @ + 1]
    /\ UNCHANGED <<once, made, holder, started, tables, ended>>

(* GoogleOnceInit.                                                          *)
Load(t) ==
    /\ Due(t, "once")
    /\ Goes(t, IF once[On(t)] = "done" THEN <<>> ELSE <<Step("swap", On(t))>>)
    /\ UNCHANGED <<once, made, holder, called, started, tables, ended>>

(* Slip: a thread that loses the swap goes on at once.                      *)
LostGoesOn(o) == <<>>

LostSwap(o) == IF once[o] = "executing" THEN <<Step("spin", o)>> ELSE <<>>

Swap(t) ==
    LET o == On(t)
    IN  /\ Due(t, "swap")
        /\ IF once[o] = "uninitialized"
           THEN /\ once' = [once EXCEPT ![o] = "executing"]
                /\ Goes(t, Run(o))
           ELSE Goes(t, LostSwap(o)) /\ UNCHANGED once
        /\ UNCHANGED <<made, holder, called, started, tables, ended>>

Spin(t) ==
    /\ Due(t, "spin")
    /\ once[On(t)] # "executing"
    /\ Continue(t)
    /\ UNCHANGED <<once, made, holder, called, started, tables, ended>>

Done(t) ==
    /\ Due(t, "done")
    /\ once' = [once EXCEPT ![On(t)] = "done"]
    /\ Continue(t)
    /\ UNCHANGED <<made, holder, called, started, tables, ended>>

\* A closure sets its pointer.
Make(t) ==
    /\ Due(t, "make")
    /\ made' = made \union {On(t)}
    /\ Continue(t)
    /\ UNCHANGED <<once, holder, called, started, tables, ended>>

\* The mutexes are not recursive.
TakeLock(t) ==
    /\ Due(t, "lock")
    /\ holder[On(t)] = {}
    /\ holder' = [holder EXCEPT ![On(t)] = {t}]
    /\ Continue(t)
    /\ UNCHANGED <<once, made, called, started, tables, ended>>

ReleaseLock(t) ==
    /\ Due(t, "unlock")
    /\ holder' = [holder EXCEPT ![On(t)] = @ \ {t}]
    /\ Continue(t)
    /\ UNCHANGED <<once, made, called, started, tables, ended>>

Push(t) ==
    /\ Due(t, "push")
    /\ shutdown' = Append(shutdown, On(t))
    /\ Continue(t)
    /\ UNCHANGED <<once, made, holder, called, started, database, fileMap, built, typeMap, ended>>

\* InternalAddGeneratedFile and InternalRegisterGeneratedFile, unlocked.
Encode(t) ==
    /\ Due(t, "encode")
    /\ database' = Append(database, On(t))
    /\ Continue(t)
    /\ UNCHANGED <<once, made, holder, called, started, fileMap, built, typeMap, shutdown, ended>>

RegisterFile(t) ==
    /\ Due(t, "file")
    /\ fileMap' = Append(fileMap, On(t))
    /\ Continue(t)
    /\ UNCHANGED <<once, made, holder, called, started, database, built, typeMap, shutdown, ended>>

AddDescOnce(t) ==
    /\ Due(t, "adddesc")
    /\ Goes(t, IF On(t) \in ToSet(database) THEN <<>> ELSE AddDesc(On(t)))
    /\ UNCHANGED <<once, made, holder, called, started, tables, ended>>

\* The pool's tables; a missing file is parsed from the database and built.
FindOrBuild(t) ==
    /\ Due(t, "find")
    /\ IF On(t) \in ToSet(built) THEN Continue(t) /\ UNCHANGED built
       ELSE Goes(t, AllocateOptions(On(t))) /\ built' = Append(built, On(t))
    /\ UNCHANGED <<once, made, holder, called, started, database, fileMap, typeMap, shutdown, ended>>

Peek(t) ==
    /\ Due(t, "peek")
    /\ Goes(t, Peeked(On(t)))
    /\ UNCHANGED <<once, made, holder, called, started, tables, ended>>

Recheck(t) ==
    /\ Due(t, "register")
    /\ Goes(t, RegisterTypes(On(t)))
    /\ UNCHANGED <<once, made, holder, called, started, tables, ended>>

RegisterType(t) ==
    /\ Due(t, "type")
    /\ typeMap' = Append(typeMap, On(t))
    /\ Continue(t)
    /\ UNCHANGED <<once, made, holder, called, started, database, fileMap, built, shutdown, ended>>

\* The caller reads the pointer it asked for.
Use(t) ==
    /\ Due(t, "use")
    /\ Continue(t)
    /\ UNCHANGED <<once, made, holder, called, started, tables, ended>>

EnterMain ==
    /\ Due(Main, "main")
    /\ started' = TRUE
    /\ Continue(Main)
    /\ UNCHANGED <<once, made, holder, called, tables, ended>>

(* ShutdownProtobufLibrary, which may be called again.  The caller sees to  *)
(* it that nobody uses the library any more.                                *)
Shutdown ==
    /\ started
    /\ \A t \in Threads : todo[t] = <<>>
    /\ ended' = TRUE
    /\ once' = [once EXCEPT !["shutdown_functions"] = "done"]
    /\ IF "shutdown_functions" \in made
       THEN made' = made \ (ToSet(shutdown) \union {"shutdown_functions"}) /\ shutdown' = <<>>
       ELSE UNCHANGED <<made, shutdown>>
    /\ UNCHANGED <<holder, todo, called, started, database, fileMap, built, typeMap>>

ThreadStep(t) ==
    \/ Load(t) \/ Swap(t) \/ Spin(t) \/ Done(t) \/ Make(t)
    \/ TakeLock(t) \/ ReleaseLock(t)
    \/ Push(t) \/ Encode(t) \/ RegisterFile(t) \/ AddDescOnce(t)
    \/ FindOrBuild(t) \/ Peek(t) \/ Recheck(t) \/ RegisterType(t) \/ Use(t)

StartNext == EnterMain \/ Shutdown \/ \E t \in Threads : Call(t) \/ ThreadStep(t)

StartSpec == StartInit /\ [][StartNext]_startVars

-----------------------------------------------------------------------------
\* What each step needs to be there.
Needs(step) ==
    CASE step.do \in {"lock", "unlock", "use"} -> {step.on}
      [] step.do = "push" -> {"shutdown_functions"}
      [] step.do \in {"encode", "find"} -> {"generated_pool"}
      [] step.do \in {"file", "peek", "register", "type"} -> {"generated_factory"}
      [] OTHER -> {}

NeedsAreMet == \A t \in Threads : todo[t] # <<>> => Needs(Head(todo[t])) \subseteq made

TablesAreLocked ==
    \A t \in Threads : todo[t] # <<>> =>
        /\ Head(todo[t]).do = "find" => holder["generated_pool"] = {t}
        /\ Head(todo[t]).do \in {"peek", "register", "type"} => holder["generated_factory"] = {t}
        /\ Head(todo[t]).do = "push" => holder["shutdown_functions"] = {t}

(* Whoever is about to follow one of the lazily set pointers finds it set,  *)
(* whichever thread set it (generated_pool(), singleton(), OnShutdown,      *)
(* GetMetadata), and touches the tables of the pool and of the factory      *)
(* alone and under their locks (FindFileByName; RegisterType asserts it;    *)
(* descriptor.cc:905-977, message.cc:271-340, stubs/common.cc:350-363).     *)
PointersAreSet == NeedsAreMet /\ TablesAreLocked

NothingTwice ==
    \A table \in {database, fileMap, built, typeMap, shutdown} : IsInjective(table)

NothingIsLeaked ==
    (started /\ \A t \in Threads : todo[t] = <<>>) =>
        IF ended THEN made = {} ELSE made \ {"shutdown_functions"} \subseteq ToSet(shutdown)

(* Nothing is built, registered or noted for shutdown twice: a duplicate in *)
(* the factory's maps is FATAL, a file built twice would leave two          *)
(* descriptors for one type, and a shutdown function that runs twice        *)
(* deletes twice.  And everything built lazily is on the list of what to    *)
(* delete, so that ShutdownProtobufLibrary leaves nothing (message.cc:      *)
(* 276-298, stubs/common.cc:359-384).                                       *)
EverythingOnce == NothingTwice /\ NothingIsLeaked

Doing(t, o, do) == \E k \in DOMAIN todo[t] : todo[t][k] = Step(do, o)
Place(t, o) ==
    CASE Doing(t, o, "done") -> "run"
      [] Doing(t, o, "swap") -> "swap"
      [] Doing(t, o, "spin") -> "spin"
      [] OTHER -> "out"

Object(o) == INSTANCE OnceInit WITH
    state <- once[o],
    pc    <- [t \in Threads |-> Place(t, o)],
    ran   <- IF once[o] = "done" THEN 1 ELSE 0

(* Each once object by itself is a OnceInit, whatever its closure does and  *)
(* whichever locks it is entered under: every step of the threads is one of *)
(* its steps or leaves it alone (GoogleOnceInitImpl, once.cc:65-94).        *)
ObjectsAreOnce ==
    /\ \A o \in Onces : Object(o)!Init
    /\ [][\A o \in Onces : [Object(o)!Next]_(Object(o)!vars)]_startVars
=============================================================================
