---------------------------- MODULE MCSqlitePool ----------------------------
(***************************************************************************)
(* Model checking of SqlitePool in two settings: two tasks that nest       *)
(* savepoints and meet every error path, and three tasks without errors,   *)
(* under fairness. A behaviour is one of one setting.                      *)
(***************************************************************************)
EXTENDS SqlitePool

CONSTANT Rough  \* the tasks of the first setting

ASSUME RoughAssumption == Rough \subseteq Tasks

VARIABLE setting

Calm == INSTANCE SqlitePool WITH
  MaxNames <- 1, MaxDepth <- 1, MaxLeaks <- 0, Errors <- {}

MCInit == Init /\ setting \in {"rough", "calm"}

MCNext ==
  \/ /\ setting = "rough"
     /\ (\E t \in Rough : Step(t)) \/ Finished
     /\ UNCHANGED setting
  \/ setting = "calm" /\ Calm!Next /\ UNCHANGED setting

\* The fairness of FairSpec, for the second setting.
MCFairness ==
  \A t \in Tasks :
    /\ WF_<<vars, setting>>(setting = "calm" /\ Calm!Proceed(t) /\ UNCHANGED setting)
    /\ SF_<<vars, setting>>(setting = "calm" /\ Calm!Return(t) /\ UNCHANGED setting)

MCSpec == MCInit /\ [][MCNext]_<<vars, setting>> /\ MCFairness

-----------------------------------------------------------------------------
\* A task that asks for a connection gets one: Served of SqlitePool, in the
\* setting in which none is lost (pool.go:98-134).
ServedWhenCalm ==
  \A t \in Tasks : setting = "calm" /\ want[t] # "none" ~> want[t] = "none"
=============================================================================
