---------------------------- MODULE CanaryControl ----------------------------
(***************************************************************************)
(* The Canary group between production and its experiments: three tasks    *)
(* share it without a lock of its own.  The Canary scheduler's step and    *)
(* its experiment task (controller/canary.py), and the Controller's tick   *)
(* under best_effort (controller/tier_controller.py); operators may start  *)
(* and abort experiments through the API.                                  *)
(*                                                                         *)
(* An action is the code between two awaits.  Of set_tier the model keeps  *)
(* what decides whether the group is routable; what the other groups, the  *)
(* solver and the production feedback say is a choice.  In best_effort a   *)
(* plan never wakes a parked group, so only expansion and full effort do.  *)
(***************************************************************************)
EXTENDS Integers

CONSTANT MaxInflight  \* bound: production requests on the Canary at a time

ASSUME BoundAssumption == MaxInflight \in Nat \ {0}

VARIABLES
  state,      \* Group.state of the Canary
  tier,       \* Group.tier
  pointed,    \* Group.effective is not None
  retry,      \* the group has an entry in TierController._retry
  inflight,   \* Group.n_inflight
  probes,     \* probe requests are queued or running in vLLM
  lock, old,  \* the set_tier each task waits in, and whether it found a point
  mode,       \* TierController.mode (pressed: warning or confirming)
  fullEffort, \* TierController._full_effort, shared with the Router
  table,      \* a tier table is published
  ctl,        \* where the Controller's tick is suspended
  sch,        \* where CanaryScheduler.step is suspended
  exp,        \* CanaryScheduler.task and where it is suspended
  cancel,     \* the task was cancelled and did not run since
  pending,    \* CanaryScheduler._pending is not None
  taken       \* observation: the Controller took the Canary while it explored

group == <<state, tier, pointed, retry>>
load == <<inflight, probes>>
locks == <<lock, old>>
control == <<mode, fullEffort, ctl>>
scheduler == <<sch, pending>>
task == <<exp, cancel, table>>
vars == <<group, load, locks, control, scheduler, task, taken>>

Tasks == {"ctl", "sch", "exp"}
Tiers == {"H", "MAX", "PARK"}

TypeOK ==
  /\ state \in {"active", "draining", "exploring", "park"}
  /\ tier \in Tiers
  /\ {pointed, retry, probes, fullEffort, table, cancel, pending, taken} \subseteq BOOLEAN
  /\ inflight \in 0..MaxInflight
  /\ lock \in [Tasks -> Tiers \cup {"none"}]
  /\ old \in [Tasks -> BOOLEAN]
  /\ mode \in {"energy", "pressed", "expanding", "full_effort"}
  /\ ctl \in {"idle", "lock", "expand_lock", "plan_lock", "fe_lock", "fe_join", "fe_quiesce",
              "fe_relock", "leaving"}
  /\ sch \in {"idle", "quiesce", "relock"}
  /\ exp \in {"none", "starting", "running", "publishing", "pub_lock", "published",
              "quiesce", "relock", "done"}

\* start: with a stored table the Canary serves at H (or its first lock failed and
\* is retried); without one it waits, exploring, for its first calibration.
Init ==
  /\ table \in BOOLEAN
  /\ state = IF table THEN "active" ELSE "exploring"
  /\ tier = IF table THEN "H" ELSE "MAX"
  /\ pointed \in {FALSE, table}
  /\ retry = (table /\ ~pointed)
  /\ inflight = 0 /\ probes = FALSE
  /\ lock = [a \in Tasks |-> "none"]
  /\ old = [a \in Tasks |-> FALSE]
  /\ mode = "energy" /\ fullEffort = FALSE
  /\ ctl = "idle" /\ sch = "idle" /\ exp = "none"
  /\ cancel = FALSE /\ pending = FALSE /\ taken = FALSE

Running == exp \notin {"none", "done"}
Experimenting == exp \in {"starting", "running", "publishing", "pub_lock", "published"}
Routable == state = "active" /\ pointed

-----------------------------------------------------------------------------
\* set_tier, split at its gather; `had` is whether the group has a point then.

BeginLock(a, t, had) ==
  /\ tier' = t
  /\ pointed' = (t # "PARK" /\ had)
  /\ lock' = [lock EXCEPT ![a] = t]
  /\ old' = [old EXCEPT ![a] = had]
  /\ UNCHANGED retry

\* The outcome counts only if the tier was not changed meanwhile.
EndLock(a, ok) ==
  LET mine == tier = lock[a] IN
  /\ lock' = [lock EXCEPT ![a] = "none"]
  /\ retry' = IF mine THEN ~ok ELSE retry
  /\ pointed' = IF mine /\ lock[a] # "PARK" /\ (ok \/ old[a]) THEN TRUE ELSE pointed
  /\ UNCHANGED <<tier, old>>

\* The group's tier after an experiment.
ServingTier == IF table /\ ~fullEffort THEN "H" ELSE "MAX"

\* Mutant: cancelling the probes' HTTP calls is taken for the end of their work.
HttpClosed == inflight = 0

\* quiesce saw vLLM idle.  A production request between P and D is in neither.
VllmIdle == ~probes

\* Mutant: only a running experiment is aborted.
AbortRunning ==
  /\ cancel' = Running
  /\ UNCHANGED pending

\* abort: cancel a running experiment, drop one that is about to start.
Abort ==
  /\ cancel' = Running
  /\ pending' = FALSE

-----------------------------------------------------------------------------
\* CanaryScheduler.step.

\* may_start, without what the budget and the other groups say.
MayStart == mode = "energy" /\ ~(state = "exploring" /\ exp # "none")

\* _begin: production gets no new request on the group.
Claimed == IF state = "active" THEN "draining" ELSE state

\* step gets past its reclaim.
StepDecides == sch = "idle" /\ ~Running /\ ~(exp = "done" /\ state = "exploring")

\* Mutant: only full effort makes up for a failed quiesce.
SchReclaimsForMax ==
  /\ sch = "idle" /\ exp = "done" /\ state = "exploring"
  /\ fullEffort
  /\ pending' = FALSE
  /\ sch' = "quiesce"
  /\ UNCHANGED <<group, load, locks, control, task, taken>>

\* The last experiment left the group exploring: reclaim it before anything else.
\* What step does after its reclaim is the next action of this task.
SchReclaims ==
  /\ sch = "idle" /\ exp = "done" /\ state = "exploring"
  /\ pending' = FALSE
  /\ sch' = "quiesce"
  /\ UNCHANGED <<group, load, locks, control, task, taken>>

SchQuiesced ==
  /\ sch = "quiesce" /\ VllmIdle
  /\ state' = "active"
  /\ \/ /\ ~fullEffort
        /\ BeginLock("sch", ServingTier, FALSE)
        /\ sch' = "relock"
     \/ /\ fullEffort
        /\ pointed' = FALSE
        /\ sch' = "idle"
        /\ UNCHANGED <<tier, retry, locks>>
  /\ UNCHANGED <<load, control, pending, task, taken>>

\* quiesce timed out: the group stays exploring.
SchQuiesceFails ==
  /\ sch = "quiesce"
  /\ sch' = "idle"
  /\ UNCHANGED <<group, load, locks, control, pending, task, taken>>

SchRelocked ==
  /\ sch = "relock"
  /\ \E ok \in BOOLEAN : EndLock("sch", ok)
  /\ sch' = "idle"
  /\ UNCHANGED <<state, load, control, pending, task, taken>>

\* A trigger fires (or one is pending) and the group is free of production.
SchStarts ==
  LET here == IF pending THEN state ELSE Claimed IN
  /\ StepDecides /\ (pending \/ MayStart)
  /\ ~(here = "draining" /\ inflight > 0)
  /\ pending' = FALSE
  /\ state' = "exploring"
  /\ exp' = "starting"
  /\ UNCHANGED <<tier, pointed, retry, load, locks, control, sch, cancel, table, taken>>

\* A trigger fires with production requests in flight: wait for them.
SchClaims ==
  /\ StepDecides /\ ~pending /\ MayStart
  /\ state \in {"active", "draining"} /\ inflight > 0
  /\ pending' = TRUE
  /\ state' = "draining"
  /\ UNCHANGED <<tier, pointed, retry, load, locks, control, sch, task, taken>>

\* The wait was too long; _draining_since may be that of an earlier claim when the
\* plan was draining the group already.
SchGivesUp ==
  /\ StepDecides /\ (pending \/ MayStart)
  /\ state = "draining" /\ inflight > 0
  /\ pending' = FALSE
  /\ state' = "active"
  /\ UNCHANGED <<tier, pointed, retry, load, locks, control, sch, task, taken>>

\* request, through the API: step goes on from there.
ApiRequest ==
  /\ ~Running /\ ~pending /\ MayStart
  /\ pending' = TRUE
  /\ state' = Claimed
  /\ UNCHANGED <<tier, pointed, retry, load, locks, control, sch, task, taken>>

\* abort, through the API: an experiment that was about to start gives the group
\* back to production, be the drain its own or the plan's.
ApiAbort ==
  /\ Running \/ pending
  /\ Abort
  /\ state' = IF pending /\ state = "draining" THEN "active" ELSE state
  /\ UNCHANGED <<tier, pointed, retry, load, locks, control, sch, exp, table, taken>>

-----------------------------------------------------------------------------
\* The experiment task.

\* A task cancelled before its first step runs nothing, not even its finally clause.
ExpBegins ==
  /\ exp = "starting"
  /\ exp' = IF cancel THEN "done" ELSE "running"
  /\ cancel' = FALSE
  /\ UNCHANGED <<group, load, locks, control, scheduler, table, taken>>

\* A window of the locator sends probes.
ExpProbes ==
  /\ exp = "running" /\ ~cancel
  /\ probes' = TRUE
  /\ UNCHANGED <<group, inflight, locks, control, scheduler, task, taken>>

\* publish: the table is adopted, then the other groups move to it one by one.
ExpPublishes ==
  /\ exp = "running" /\ ~cancel
  /\ table' = TRUE
  /\ exp' = "publishing"
  /\ UNCHANGED <<group, load, locks, control, scheduler, cancel, taken>>

\* The Canary is among the groups that move, when something made it active.
ExpMovesCanary ==
  /\ exp = "publishing" /\ ~cancel /\ state = "active"
  /\ BeginLock("exp", IF fullEffort THEN "MAX" ELSE "H", pointed)
  /\ exp' = "pub_lock"
  /\ UNCHANGED <<state, load, control, scheduler, cancel, table, taken>>

ExpMovedCanary ==
  /\ exp = "pub_lock" /\ ~cancel
  /\ \E ok \in BOOLEAN : EndLock("exp", ok)
  /\ exp' = "published"
  /\ UNCHANGED <<state, load, control, scheduler, cancel, table, taken>>

\* The body ends (a result, an error, a cancellation): the finally clause.  Under
\* full effort the Controller reclaims the group; else the task does, and waits in
\* quiesce, or in set_tier when the group is not exploring any more.
ExpEnds ==
  /\ exp \in {"running", "publishing", "published"} \/ (exp = "pub_lock" /\ cancel)
  /\ cancel' = FALSE
  /\ \/ /\ fullEffort
        /\ exp' = "done"
        /\ lock' = [lock EXCEPT !["exp"] = "none"]
        /\ UNCHANGED <<group, old, pending>>
     \/ /\ ~fullEffort /\ state = "exploring"
        /\ pending' = FALSE
        /\ exp' = "quiesce"
        /\ lock' = [lock EXCEPT !["exp"] = "none"]
        /\ UNCHANGED <<group, old>>
     \/ /\ ~fullEffort /\ state # "exploring"
        /\ pending' = FALSE
        /\ BeginLock("exp", ServingTier, pointed)
        /\ exp' = "relock"
        /\ UNCHANGED state
  /\ UNCHANGED <<load, control, sch, table, taken>>

ExpQuiesced ==
  /\ exp = "quiesce" /\ ~cancel /\ VllmIdle
  /\ state' = "active"
  /\ BeginLock("exp", ServingTier, FALSE)
  /\ exp' = "relock"
  /\ UNCHANGED <<load, control, scheduler, cancel, table, taken>>

ExpQuiesceFails ==
  /\ exp = "quiesce" /\ ~cancel
  /\ exp' = "done"
  /\ UNCHANGED <<group, load, locks, control, scheduler, cancel, table, taken>>

ExpRelocked ==
  /\ exp = "relock" /\ ~cancel
  /\ \E ok \in BOOLEAN : EndLock("exp", ok)
  /\ exp' = "done"
  /\ UNCHANGED <<state, load, control, scheduler, cancel, table, taken>>

\* Cancelled inside its finally clause: the rest of it never runs.
ExpCutShort ==
  /\ exp \in {"quiesce", "relock"} /\ cancel
  /\ exp' = "done"
  /\ cancel' = FALSE
  /\ lock' = [lock EXCEPT !["exp"] = "none"]
  /\ UNCHANGED <<group, load, old, control, scheduler, table, taken>>

-----------------------------------------------------------------------------
\* The Controller's tick: feedback, retries, the plan, the end of drains.

\* Warnings, production latency under pressure, their end, and a redirect (the
\* other groups may all serve).
Feedback ==
  /\ ctl = "idle"
  /\ \/ mode = "energy" /\ mode' = "pressed"
     \/ mode \in {"pressed", "expanding"} /\ mode' = "energy"
     \/ mode = "pressed" /\ state \in {"active", "exploring"} /\ mode' = "expanding"
  /\ UNCHANGED <<group, load, locks, fullEffort, ctl, scheduler, task, taken>>

\* _expand_capacity wakes groups of the list it made, production groups first.
ExpandOthers ==
  /\ ctl = "idle" /\ mode = "pressed"
  /\ state # "exploring" /\ ~Routable
  /\ mode' = "expanding"
  /\ ctl' = "expand_lock"
  /\ UNCHANGED <<group, load, locks, fullEffort, scheduler, task, taken>>

\* It wakes this group, whatever keeps it from serving, or needs no more groups.
ExpandCanary ==
  /\ ctl = "expand_lock"
  /\ \/ /\ state' = "active"
        /\ BeginLock("ctl", IF table THEN "H" ELSE "MAX", pointed)
        /\ ctl' = "lock"
        /\ taken' = (taken \/ state = "exploring")
     \/ /\ ctl' = "idle"
        /\ UNCHANGED <<group, locks, taken>>
  /\ UNCHANGED <<load, mode, fullEffort, scheduler, task>>

\* The part of _enter_full_effort up to its gather: every group that does not
\* explore serves at MAX.
ServeAtMax ==
  /\ state' = IF state = "exploring" THEN "exploring" ELSE "active"
  /\ IF state # "exploring" /\ tier # "MAX"
     THEN BeginLock("ctl", "MAX", pointed)
     ELSE UNCHANGED <<tier, pointed, retry, locks>>
  /\ ctl' = "fe_lock"

EnterFullEffort ==
  /\ ctl = "idle" /\ ~fullEffort
  /\ mode' = "full_effort" /\ fullEffort' = TRUE
  /\ Abort
  /\ ServeAtMax
  /\ UNCHANGED <<load, sch, exp, table, taken>>

\* Mutant: nothing is retried once the group does not explore any more.
RetryWhileExploring ==
  /\ ctl = "idle" /\ fullEffort /\ state = "exploring"
  /\ ServeAtMax
  /\ UNCHANGED <<load, mode, fullEffort, scheduler, task, taken>>

\* reclaim_retry, on every tick under full effort.
RetryFullEffort ==
  /\ ctl = "idle" /\ fullEffort
  /\ ServeAtMax
  /\ UNCHANGED <<load, mode, fullEffort, scheduler, task, taken>>

NeedsMax == state = "active" /\ (tier # "MAX" \/ ~pointed)

\* reclaim, from where the experiment task is known to be over: wait for vLLM, or
\* else lock what still needs MAX.
ReclaimAfterJoin ==
  /\ pending' = FALSE
  /\ \/ state = "exploring" /\ ctl' = "fe_quiesce" /\ UNCHANGED <<group, locks>>
     \/ /\ NeedsMax
        /\ BeginLock("ctl", "MAX", pointed)
        /\ ctl' = "fe_relock"
        /\ UNCHANGED state
     \/ /\ state # "exploring" /\ ~NeedsMax
        /\ ctl' = "idle"
        /\ UNCHANGED <<group, locks>>

\* The gather is over: reclaim cancels a task that still runs and joins it.
FullEffortReclaims ==
  /\ ctl = "fe_lock" /\ lock["ctl"] = "none"
  /\ \/ Running /\ cancel' = TRUE /\ ctl' = "fe_join" /\ UNCHANGED <<group, locks, pending>>
     \/ ~Running /\ ReclaimAfterJoin /\ UNCHANGED cancel
  /\ UNCHANGED <<load, mode, fullEffort, sch, exp, table, taken>>

FullEffortJoined ==
  /\ ctl = "fe_join" /\ ~Running
  /\ ReclaimAfterJoin
  /\ UNCHANGED <<load, mode, fullEffort, sch, task, taken>>

FullEffortQuiesced ==
  /\ ctl = "fe_quiesce" /\ VllmIdle
  /\ state' = "active"
  /\ BeginLock("ctl", "MAX", FALSE)
  /\ ctl' = "fe_relock"
  /\ UNCHANGED <<load, mode, fullEffort, scheduler, task, taken>>

\* The group stays exploring; the next tick tries again.
FullEffortQuiesceFails ==
  /\ ctl = "fe_quiesce"
  /\ ctl' = "idle"
  /\ UNCHANGED <<group, load, locks, mode, fullEffort, scheduler, task, taken>>

\* The load is gone: back to H, then to energy mode.
LeaveFullEffort ==
  /\ ctl = "idle" /\ fullEffort
  /\ state # "exploring" /\ (table \/ inflight = 0)
  /\ fullEffort' = FALSE
  /\ IF state = "active" /\ table
     THEN BeginLock("ctl", "H", pointed) ELSE UNCHANGED <<tier, pointed, retry, locks>>
  /\ ctl' = "leaving"
  /\ UNCHANGED <<state, load, mode, scheduler, task, taken>>

LeftFullEffort ==
  /\ ctl = "leaving" /\ lock["ctl"] = "none"
  /\ mode' = "energy"
  /\ ctl' = "idle"
  /\ UNCHANGED <<group, load, locks, fullEffort, scheduler, task, taken>>

\* _retry_locks; the retry of a draining or exploring group is forgotten.
RetryLock ==
  /\ ctl = "idle" /\ retry
  /\ \/ /\ state \in {"active", "park"}
        /\ BeginLock("ctl", tier, pointed)
        /\ ctl' = "lock"
     \/ /\ state \in {"draining", "exploring"}
        /\ retry' = FALSE
        /\ UNCHANGED <<tier, pointed, locks, ctl>>
  /\ UNCHANGED <<state, load, mode, fullEffort, scheduler, task, taken>>

\* _plan chose another working point: the groups of its list move to it, this one
\* too or only others.
PlanMoves ==
  /\ ctl = "idle" /\ table /\ mode \in {"energy", "pressed"}
  /\ state = "active"
  /\ \/ tier = "H" /\ BeginLock("ctl", "H", pointed)
     \/ (tier # "H" \/ pointed) /\ UNCHANGED <<tier, pointed, retry, locks>>
  /\ ctl' = "plan_lock"
  /\ UNCHANGED <<state, load, mode, fullEffort, scheduler, task, taken>>

\* After those moves the same plan may drain a group of the list it made before.
PlanMoved ==
  /\ ctl = "plan_lock" /\ lock["ctl"] = "none"
  /\ ctl' = "idle"
  /\ state' \in {state, "draining"}
  /\ taken' = (taken \/ (state = "exploring" /\ state' = "draining"))
  /\ UNCHANGED <<tier, pointed, retry, load, locks, mode, fullEffort, scheduler, task>>

PlanDrains ==
  /\ ctl = "idle" /\ table /\ mode \in {"energy", "pressed"}
  /\ state = "active"
  /\ state' = "draining"
  /\ UNCHANGED <<tier, pointed, retry, load, locks, control, scheduler, task, taken>>

\* _finish_draining
FinishDraining ==
  /\ ctl = "idle" /\ table
  /\ state = "draining" /\ inflight = 0
  /\ state' = "park"
  /\ BeginLock("ctl", "PARK", pointed)
  /\ ctl' = "lock"
  /\ UNCHANGED <<load, mode, fullEffort, scheduler, task, taken>>

\* The agents answered the set_tier the Controller waits in.
ControllerLocked ==
  /\ lock["ctl"] # "none"
  /\ \E ok \in BOOLEAN : EndLock("ctl", ok)
  /\ ctl' = IF ctl \in {"lock", "fe_relock"} THEN "idle" ELSE ctl
  /\ UNCHANGED <<state, load, mode, fullEffort, scheduler, task, taken>>

-----------------------------------------------------------------------------
\* Production on the group, and vLLM.

Arrive ==
  /\ Routable /\ inflight < MaxInflight
  /\ inflight' = inflight + 1
  /\ UNCHANGED <<group, probes, locks, control, scheduler, task, taken>>

Depart ==
  /\ inflight > 0
  /\ inflight' = inflight - 1
  /\ UNCHANGED <<group, probes, locks, control, scheduler, task, taken>>

ProbesEnd ==
  /\ probes
  /\ probes' = FALSE
  /\ UNCHANGED <<group, inflight, locks, control, scheduler, task, taken>>

-----------------------------------------------------------------------------
SchedulerStep ==
  \/ SchReclaims \/ SchQuiesced \/ SchQuiesceFails \/ SchRelocked
  \/ SchStarts \/ SchClaims \/ SchGivesUp

ExperimentStep ==
  \/ ExpBegins \/ ExpPublishes \/ ExpMovesCanary \/ ExpMovedCanary \/ ExpEnds
  \/ ExpQuiesced \/ ExpQuiesceFails \/ ExpRelocked \/ ExpCutShort

FullEffortStep ==
  \/ RetryFullEffort \/ FullEffortReclaims \/ FullEffortJoined
  \/ FullEffortQuiesced \/ FullEffortQuiesceFails \/ LeftFullEffort

ControllerStep ==
  \/ Feedback \/ ExpandOthers \/ ExpandCanary \/ EnterFullEffort \/ LeaveFullEffort \/ FullEffortStep
  \/ RetryLock \/ PlanMoves \/ PlanMoved \/ PlanDrains \/ FinishDraining
  \/ ControllerLocked

Next ==
  \/ SchedulerStep \/ ExperimentStep \/ ControllerStep
  \/ ApiRequest \/ ApiAbort \/ ExpProbes
  \/ Arrive \/ Depart \/ ProbesEnd

Spec == Init /\ [][Next]_vars

Quiesced == SchQuiesced \/ ExpQuiesced \/ FullEffortQuiesced

\* The loops run every period_s, windows and requests are bounded, agents answer or
\* time out.  Every tick looks at the retries and at the drains.  A quiesce that is
\* tried again and again finds vLLM idle some time, and a lock that is tried again and
\* again holds some time.
Runs ==
  /\ WF_vars(SchReclaims) /\ WF_vars(SchQuiesceFails) /\ WF_vars(SchRelocked)
  /\ WF_vars(ExperimentStep)
  /\ WF_vars(FullEffortStep) /\ WF_vars(PlanMoved) /\ WF_vars(ExpandCanary)
  /\ SF_vars(FinishDraining) /\ SF_vars(RetryLock) /\ WF_vars(ControllerLocked)
  /\ WF_vars(Depart) /\ WF_vars(ProbesEnd)
  /\ SF_vars(inflight = 0 /\ Quiesced)
  /\ SF_vars(ControllerLocked /\ retry' = FALSE)

FairSpec == Spec /\ Runs

-----------------------------------------------------------------------------
\* Properties.

\* The group serves production again only when vLLM holds no probe any more: whoever
\* reclaims it saw vLLM idle after the experiment had stopped, though two tasks may
\* reclaim at the same time (canary.py: reclaim, step, _experiment).  Not so when a
\* plan or an expansion took the group away while it explored.
ServesWithoutProbes == (state = "active" /\ probes) => taken

\* Under full effort no experiment goes on that was not told to stop: none is started,
\* not even one that was claimed before (canary.py: abort, may_start, step).
NoExperimentInFullEffort == (fullEffort /\ Experimenting) => cancel

\* An experiment that ended, however, gives the group back: a failed quiesce and a
\* cancellation inside the finally clause are made up for by step or by full effort.
CanaryComesBack ==
  (state = "exploring" /\ exp = "done") ~> (state # "exploring" \/ exp # "done")

\* Full effort gets the Canary to serve, through a failing drain, failing locks and
\* whatever the scheduler and the experiment were doing.
FullEffortGetsCanary == fullEffort ~> (Routable \/ ~fullEffort)

\* canary.py:3: "The Canary is an ordinary production group whenever it is not
\* experimenting", and tier_controller.py:615: "draining/exploring: not ours to lock".
ExperimentHoldsCanary == Experimenting => state = "exploring"

\* Not so, as an expansion reactivates the Canary and keeps the pending experiment
\* (tier_controller.py:562).  canary.py:15: "The Canary then drains (no new requests;
\* in-flight ones finish) and explores."  (The stale list of ExperimentHoldsCanary is
\* left aside.)
ExploresAlone == exp = "running" /\ ~cancel /\ ~taken => inflight = 0

\* tests/test_locator.py:281: "test_pressure_aborts_experiment_and_canary_serves_again";
\* tier_controller.py:236: "Retry from tick(), backing off".
ServesAgain == (state = "active" /\ ~pointed) ~> (pointed \/ state # "active")
=============================================================================
