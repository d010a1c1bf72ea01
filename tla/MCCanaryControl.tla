-------------------------- MODULE MCCanaryControl --------------------------
(***************************************************************************)
(* Full effort from both sides: who owns the Canary when production needs   *)
(* everything (CanaryControl), and when that is (Feedback).  A behaviour is *)
(* one of either; the other stays as it begins, where nothing of it is      *)
(* obliged to happen.                                                       *)
(***************************************************************************)
EXTENDS CanaryControl

CONSTANTS p1, canary

VARIABLES
  judging, \* which of the two
  weather, serving, cooled, stage, effort, reason, ticks, since, redirected, fresh

\* A period is a unit of the confirmation, the grace and the windows.
F == INSTANCE Feedback WITH
  Groups <- {p1, canary}, Canary <- canary,
  Confirm <- 1, Window <- 1, MinTicks <- 3, Grace <- 1, Down <- 2, MinStay <- 3,
  Cool <- 1, MaxTicks <- 2,
  state <- serving, mode <- stage, full <- effort

stages ==
  <<weather, serving, cooled, stage, effort, reason, ticks, since, redirected, fresh>>

MCInit ==
  /\ judging \in BOOLEAN
  /\ F!Init
  /\ Init /\ (judging => table /\ pointed)

OwnStep == ~judging /\ Next /\ UNCHANGED <<judging, stages>>

JudgeStep == judging /\ F!Next /\ UNCHANGED <<judging, vars>>

MCNext == OwnStep \/ JudgeStep

\* Feedback's fairness (Keeps), for the behaviours that are its own.
JudgeKeeps ==
  /\ WF_stages(judging /\ F!TickAfterPeriod)
  /\ WF_stages(judging /\ F!ExperimentEnds)

MCSpec == MCInit /\ [][MCNext]_<<judging, vars, stages>> /\ Runs /\ JudgeKeeps

-----------------------------------------------------------------------------
\* A calm production brings the energy mode back, and pressure that lasts is answered
\* (Feedback).
PressureSettles == F!Recovers /\ F!Answered

\* "After `expansion_grace_s`, persistent fresh feedback triggers `full_effort`"
\* (README.md:171; Feedback).
FreshEvidence == F!FreshEvidence
=============================================================================
