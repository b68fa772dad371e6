------------------------------ MODULE OnceInit ------------------------------
(***************************************************************************)
(* One GoogleOnce object (stubs/once.h, stubs/once.cc): threads that need   *)
(* something built call GoogleOnceInit; one of them runs the closure, the   *)
(* others wait for it.  Loads are acquiring and the last store releasing,   *)
(* so steps are taken to be sequentially consistent.                        *)
(***************************************************************************)
EXTENDS Naturals

CONSTANT Threads

VARIABLES
    state,  \* the once object
    pc,     \* [Threads -> where the thread is in GoogleOnceInit]
    ran     \* how often the closure has run to its end

vars == <<state, pc, ran>>

States == {"uninitialized", "executing", "done"}
Places == {"out", "swap", "run", "spin"}

Init == state = "uninitialized" /\ pc = [t \in Threads |-> "out"] /\ ran = 0

(* The load of GoogleOnceInit, and the same of GoogleOnceInitImpl: once     *)
(* the state is DONE, the call returns and leaves no trace here.            *)
Load(t) ==
    /\ pc[t] = "out"
    /\ state # "done"
    /\ pc' = [pc EXCEPT ![t] = "swap"]
    /\ UNCHANGED <<state, ran>>

\* Acquire_CompareAndSwap from UNINITIALIZED to EXECUTING_CLOSURE.
Win(t) ==
    /\ pc[t] = "swap"
    /\ state = "uninitialized"
    /\ state' = "executing"
    /\ pc' = [pc EXCEPT ![t] = "run"]
    /\ UNCHANGED ran

Lose(t) ==
    /\ pc[t] = "swap"
    /\ state # "uninitialized"
    /\ pc' = [pc EXCEPT ![t] = IF state = "executing" THEN "spin" ELSE "out"]
    /\ UNCHANGED <<state, ran>>

\* The closure ends and Release_Store sets DONE.
Finish(t) ==
    /\ pc[t] = "run"
    /\ state' = "done"
    /\ ran' = ran + 1
    /\ pc' = [pc EXCEPT ![t] = "out"]

\* SchedYield until the state is no longer EXECUTING_CLOSURE.
Spin(t) ==
    /\ pc[t] = "spin"
    /\ state # "executing"
    /\ pc' = [pc EXCEPT ![t] = "out"]
    /\ UNCHANGED <<state, ran>>

Step(t) == Load(t) \/ Win(t) \/ Lose(t) \/ Finish(t) \/ Spin(t)
Next == \E t \in Threads : Step(t)

Spec == Init /\ [][Next]_vars

-----------------------------------------------------------------------------
TypeOK ==
    /\ state \in States
    /\ pc \in [Threads -> Places]
    /\ ran \in Nat

(* However many threads race for the object, its closure runs once and by   *)
(* one of them at a time (GoogleOnceInitImpl, once.cc:65-94).               *)
RunsOnce ==
    /\ ran <= 1
    /\ \A t, u \in Threads : pc[t] = "run" /\ pc[u] = "run" => t = u

(* Nobody returns from GoogleOnceInit before the closure has run to its     *)
(* end: not the thread that lost the swap, nor the one that waits.          *)
ReturnsInitialized ==
    [][\A t \in Threads : pc[t] # "out" /\ pc'[t] = "out" => ran' = 1]_vars
=============================================================================
