--------------------------- MODULE OnceInitProofs ---------------------------
(***************************************************************************)
(* GoogleOnceInit is right for any set of threads.                          *)
(***************************************************************************)
EXTENDS OnceInit, TLAPS

(* The state of the object tells where the threads can be: nobody runs the  *)
(* closure unless it is being executed, and then exactly one thread does;   *)
(* the closure has run when, and only when, the state is DONE.              *)
Consistent ==
    /\ ran = IF state = "done" THEN 1 ELSE 0
    /\ \A t \in Threads :
          /\ pc[t] = "run" => state = "executing"
          /\ pc[t] = "spin" => state # "uninitialized"
    /\ \A t, u \in Threads : pc[t] = "run" /\ pc[u] = "run" => t = u

IInv == TypeOK /\ Consistent

LEMMA InitIInv == Init => IInv
BY DEF Init, IInv, TypeOK, Consistent, States, Places

LEMMA NextIInv == IInv /\ [Next]_vars => IInv'
<1> SUFFICES ASSUME IInv, [Next]_vars PROVE IInv'
    OBVIOUS
<1> USE DEF IInv, TypeOK, Consistent, States, Places
<1>1. CASE UNCHANGED vars
    BY <1>1 DEF vars
<1>2. ASSUME NEW t \in Threads, Load(t) PROVE IInv'
    BY <1>2 DEF Load
<1>3. ASSUME NEW t \in Threads, Win(t) PROVE IInv'
    BY <1>3 DEF Win
<1>4. ASSUME NEW t \in Threads, Lose(t) PROVE IInv'
    BY <1>4 DEF Lose
<1>5. ASSUME NEW t \in Threads, Finish(t) PROVE IInv'
    BY <1>5 DEF Finish
<1>6. ASSUME NEW t \in Threads, Spin(t) PROVE IInv'
    BY <1>6 DEF Spin
<1> QED BY <1>1, <1>2, <1>3, <1>4, <1>5, <1>6 DEF Next, Step

LEMMA SpecIInv == Spec => []IInv
BY InitIInv, NextIInv, PTL DEF Spec

(* The closure of a once object runs once, by one thread at a time,         *)
(* however many threads call GoogleOnceInit (once.cc:65-94).                *)
THEOREM ClosureRunsOnce == Spec => []RunsOnce
<1>1. IInv => RunsOnce
    BY DEF IInv, TypeOK, Consistent, RunsOnce
<1> QED BY SpecIInv, <1>1, PTL

(* Whoever returns from GoogleOnceInit finds the closure done: the winner   *)
(* of the swap, the loser and the one that spins alike.                     *)
THEOREM CallersFindItDone == Spec => ReturnsInitialized
<1>1. ASSUME IInv, [Next]_vars
      PROVE  [\A t \in Threads : pc[t] # "out" /\ pc'[t] = "out" => ran' = 1]_vars
  <2> SUFFICES ASSUME NEW t \in Threads, pc[t] # "out", pc'[t] = "out", Next PROVE ran' = 1
      BY <1>1 DEF vars
  <2>1. PICK u \in Threads : Step(u)
      BY DEF Next
  <2>2. CASE Load(u)
      BY <2>2, <1>1 DEF Load, IInv, TypeOK
  <2>3. CASE Win(u)
      BY <2>3, <1>1 DEF Win, IInv, TypeOK
  <2>4. CASE Lose(u)
      BY <2>4, <1>1 DEF Lose, IInv, TypeOK, Consistent, States
  <2>5. CASE Finish(u)
      BY <2>5, <1>1 DEF Finish, IInv, TypeOK, Consistent
  <2>6. CASE Spin(u)
      BY <2>6, <1>1 DEF Spin, IInv, TypeOK, Consistent, States
  <2> QED BY <2>1, <2>2, <2>3, <2>4, <2>5, <2>6 DEF Step
<1> QED BY SpecIInv, <1>1, PTL DEF Spec, ReturnsInitialized
=============================================================================
