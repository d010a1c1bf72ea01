------------------------ MODULE CanaryControl_proofs ------------------------
(***************************************************************************)
(* The two promises that keep the Canary's experiments from production, for *)
(* any number of production requests: vLLM holds no probe where production  *)
(* is served, and full effort leaves no experiment running that was not     *)
(* told to stop.                                                            *)
(***************************************************************************)
EXTENDS CanaryControl, TLAPS

\* Full effort is a mode of its own, and nothing waits to start in it; each step of its
\* reclaim is taken under it, and the last ones after the experiment's task has ended.
FullEffortAlone ==
  /\ fullEffort => ~pending /\ mode = "full_effort"
  /\ ctl = "leaving" => ~fullEffort
  /\ ctl \in {"fe_lock", "fe_join", "fe_quiesce", "fe_relock"} => fullEffort
  /\ ctl \in {"fe_quiesce", "fe_relock"} => ~Running

\* The scheduler reclaims only what no task works on.
ReclaimsAlone == sch # "idle" => ~Running

\* An experiment, and what it left in vLLM, keeps the group exploring.
HoldsCanary == (Experimenting \/ probes) /\ ~taken => state = "exploring"

IInv == NoExperimentInFullEffort /\ FullEffortAlone /\ ReclaimsAlone /\ HoldsCanary

-----------------------------------------------------------------------------
\* Nothing runs at the start.
LEMMA InitIInv == Init => IInv
BY DEF Init, IInv, NoExperimentInFullEffort, FullEffortAlone, ReclaimsAlone, HoldsCanary,
       Experimenting, Running

\* The scheduler's step: it reclaims when the task has ended and vLLM is idle, and does
\* not start anything under full effort.
LEMMA SchedulerIInv ==
  ASSUME IInv, SchedulerStep
  PROVE  IInv'
<1> USE DEF IInv, NoExperimentInFullEffort, FullEffortAlone, ReclaimsAlone, HoldsCanary,
            Experimenting, Running, group, load, locks, control, scheduler, task
<1>1. CASE SchReclaims
  BY <1>1 DEF SchReclaims
<1>2. CASE SchQuiesced
  BY <1>2 DEF SchQuiesced, VllmIdle
<1>3. CASE SchQuiesceFails
  BY <1>3 DEF SchQuiesceFails
<1>4. CASE SchRelocked
  BY <1>4 DEF SchRelocked, EndLock
<1>5. CASE SchStarts
  BY <1>5 DEF SchStarts, StepDecides, MayStart
<1>6. CASE SchClaims
  BY <1>6 DEF SchClaims, StepDecides, MayStart
<1>7. CASE SchGivesUp
  BY <1>7 DEF SchGivesUp, StepDecides
<1> QED
  BY <1>1, <1>2, <1>3, <1>4, <1>5, <1>6, <1>7 DEF SchedulerStep

\* The experiment's task: under full effort it only ends.
LEMMA ExperimentIInv ==
  ASSUME IInv, ExperimentStep \/ ExpProbes
  PROVE  IInv'
<1> USE DEF IInv, NoExperimentInFullEffort, FullEffortAlone, ReclaimsAlone, HoldsCanary,
            Experimenting, Running, group, load, locks, control, scheduler, task
<1>1. CASE ExpBegins
  BY <1>1 DEF ExpBegins
<1>2. CASE ExpProbes
  BY <1>2 DEF ExpProbes
<1>3. CASE ExpPublishes
  BY <1>3 DEF ExpPublishes
<1>4. CASE ExpMovesCanary
  BY <1>4 DEF ExpMovesCanary, BeginLock
<1>5. CASE ExpMovedCanary
  BY <1>5 DEF ExpMovedCanary, EndLock
<1>6. CASE ExpEnds
  BY <1>6 DEF ExpEnds, BeginLock
<1>7. CASE ExpQuiesced
  BY <1>7 DEF ExpQuiesced, BeginLock, VllmIdle
<1>8. CASE ExpQuiesceFails
  BY <1>8 DEF ExpQuiesceFails
<1>9. CASE ExpRelocked
  BY <1>9 DEF ExpRelocked, EndLock
<1>10. CASE ExpCutShort
  BY <1>10 DEF ExpCutShort
<1> QED
  BY <1>1, <1>2, <1>3, <1>4, <1>5, <1>6, <1>7, <1>8, <1>9, <1>10 DEF ExperimentStep

\* The tick: entering full effort stops the experiment and what waits to start; the
\* reclaim joins it and waits for vLLM.
LEMMA ControllerIInv ==
  ASSUME IInv, ControllerStep
  PROVE  IInv'
<1> USE DEF IInv, NoExperimentInFullEffort, FullEffortAlone, ReclaimsAlone, HoldsCanary,
            Experimenting, Running, group, load, locks, control, scheduler, task
<1>1. CASE Feedback
  BY <1>1 DEF Feedback
<1>2. CASE ExpandOthers
  BY <1>2 DEF ExpandOthers
<1>3. CASE ExpandCanary
  BY <1>3 DEF ExpandCanary, BeginLock
<1>4. CASE EnterFullEffort
  BY <1>4 DEF EnterFullEffort, Abort, ServeAtMax, BeginLock
<1>5. CASE LeaveFullEffort
  BY <1>5 DEF LeaveFullEffort, BeginLock
<1>6. CASE RetryFullEffort
  BY <1>6 DEF RetryFullEffort, ServeAtMax, BeginLock
<1>7. CASE FullEffortReclaims
  BY <1>7 DEF FullEffortReclaims, ReclaimAfterJoin, BeginLock
<1>8. CASE FullEffortJoined
  BY <1>8 DEF FullEffortJoined, ReclaimAfterJoin, BeginLock
<1>9. CASE FullEffortQuiesced
  BY <1>9 DEF FullEffortQuiesced, BeginLock, VllmIdle
<1>10. CASE FullEffortQuiesceFails
  BY <1>10 DEF FullEffortQuiesceFails
<1>11. CASE LeftFullEffort
  BY <1>11 DEF LeftFullEffort
<1>12. CASE RetryLock
  BY <1>12 DEF RetryLock, BeginLock
<1>13. CASE PlanMoves
  BY <1>13 DEF PlanMoves, BeginLock
<1>14. CASE PlanMoved
  BY <1>14 DEF PlanMoved
<1>15. CASE PlanDrains
  BY <1>15 DEF PlanDrains
<1>16. CASE FinishDraining
  BY <1>16 DEF FinishDraining, BeginLock
<1>17. CASE ControllerLocked
  BY <1>17 DEF ControllerLocked, EndLock
<1> QED
  BY <1>1, <1>2, <1>3, <1>4, <1>5, <1>6, <1>7, <1>8, <1>9, <1>10, <1>11, <1>12, <1>13, <1>14,
     <1>15, <1>16, <1>17 DEF ControllerStep, FullEffortStep

\* Operators, production and vLLM.
LEMMA EnvironmentIInv ==
  ASSUME IInv, ApiRequest \/ ApiAbort \/ Arrive \/ Depart \/ ProbesEnd \/ UNCHANGED vars
  PROVE  IInv'
<1> USE DEF IInv, NoExperimentInFullEffort, FullEffortAlone, ReclaimsAlone, HoldsCanary,
            Experimenting, Running, group, load, locks, control, scheduler, task
<1>1. CASE ApiRequest
  BY <1>1 DEF ApiRequest, MayStart, Claimed
<1>2. CASE ApiAbort
  BY <1>2 DEF ApiAbort, Abort
<1>3. CASE Arrive \/ Depart \/ ProbesEnd \/ UNCHANGED vars
  BY <1>3 DEF Arrive, Depart, ProbesEnd, vars
<1> QED
  BY <1>1, <1>2, <1>3

\* The inductive invariant holds.
LEMMA AlwaysIInv == Spec => []IInv
<1>1. IInv /\ [Next]_vars => IInv'
  BY SchedulerIInv, ExperimentIInv, ControllerIInv, EnvironmentIInv DEF Next
<1> QED
  BY <1>1, InitIInv, PTL DEF Spec

-----------------------------------------------------------------------------
\* Whoever gives the Canary back to production saw vLLM idle after the experiment had
\* stopped, however step, the experiment and full effort interleave, and whatever is
\* cancelled or fails in between (canary.py: reclaim, step, _experiment).
THEOREM ProductionAlone == Spec => []ServesWithoutProbes
<1>1. IInv => ServesWithoutProbes
  BY DEF IInv, HoldsCanary, ServesWithoutProbes
<1> QED
  BY <1>1, AlwaysIInv, PTL

\* Full effort stops what runs and what waits to start, and nothing starts under it
\* (canary.py: abort, may_start, step).
THEOREM FullEffortStopsExperiments == Spec => []NoExperimentInFullEffort
<1>1. IInv => NoExperimentInFullEffort
  BY DEF IInv
<1> QED
  BY <1>1, AlwaysIInv, PTL
=============================================================================
