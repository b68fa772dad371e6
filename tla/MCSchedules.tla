---------------------------- MODULE MCSchedules ----------------------------
(***************************************************************************)
(* The schedules of EditingSession for TLC.  The first state chooses a      *)
(* plan: how much each user may type, move, undo and redo.                  *)
(*                                                                          *)
(* Two clients meet only in the service: what the threads of one do between *)
(* two of its rests commutes with what the threads of the other do.  So     *)
(* here one client works at a time; the two threads of one client           *)
(* interleave in every way, and the service may order an event in between.  *)
(***************************************************************************)
EXTENDS MCEditingSession

CONSTANT Plans

VARIABLE plan

PlannedInit == Init /\ plan \in Plans

Within(c) == plan' = plan /\ \A k \in InputKind : used'[c][k] <= plan[c][k]

Working(c) == alive[c] /\ ~ (HandlerIdle(c) /\ MethodDone(c))
Undisturbed(c) == \A d \in Clients \ {c} : ~ Working(d)

\* bob's callbacks are late: he only sends
RaceStep(c) == IF c = ann THEN ClientStep(c) ELSE UserInput(c) \/ MainThread(c)

OrderAnytime == \E c \in Clients : Service(c) /\ Within(c)

RaceSpec ==
    PlannedInit /\ [][ \/ OrderAnytime
                       \/ \E c \in Clients : Undisturbed(c) /\ RaceStep(c) /\ Within(c)
                     ]_<<plan, vars>>

WatchSpec ==
    /\ PlannedInit /\ [][ \/ OrderAnytime
                          \/ \E c \in Clients : Undisturbed(c) /\ ClientStep(c) /\ Within(c)
                        ]_<<plan, vars>>
    /\ Fairness

CarefulSpec ==
    PlannedInit /\ [][\E c \in Clients : Undisturbed(c) /\ SerialStep(c) /\ Within(c)]_<<plan, vars>>

PoliteTurns ==
    /\ PlannedInit /\ [][\E c \in Clients : Undisturbed(c) /\ PoliteStep(c) /\ Within(c)]_<<plan, vars>>
    /\ Fairness

-----------------------------------------------------------------------------
RacePlans == {
    Budget(Inputs(2, 0, 1, 0), Inputs(1, 0, 0, 0)),
    Budget(Inputs(1, 0, 1, 1), Inputs(1, 0, 0, 0)),
    Budget(Inputs(1, 1, 0, 0), Inputs(1, 0, 0, 0))}
WatchPlans == {
    Budget(Inputs(2, 0, 1, 0), None),
    Budget(Inputs(1, 0, 2, 1), None)}
CarefulPlans == {
    Budget(Inputs(2, 0, 1, 0), Inputs(1, 0, 0, 0)),
    Budget(Inputs(1, 1, 1, 1), Inputs(1, 0, 0, 0))}
PolitePlans == {Budget(Inputs(2, 0, 1, 1), Inputs(1, 0, 1, 0))}
=============================================================================
