# CanaTuneLLM in TLA+

CanaTune serves an LLM on pairs of GPUs (a prefill endpoint P and a decode endpoint D
form a *group*), admits requests against a latency objective, and lowers GPU clocks to
save energy. One group, the *Canary*, is taken out of production now and then to
measure which clocks are safe. These modules model the parts of `src/src/canatune`
whose correctness depends on the order of events or on a decision nobody can check by
eye: the request ledger, the admission policies, the life of the Canary group, the
feedback and the plan of the Controller, the change of a group's clocks, what the Canary
measures and what is concluded from it, what is kept over restarts, and the processes of
the job. TLC checks them on small instances; TLAPS proves most of their safety properties for
every instance.

## The system

Proxy, Router, Controller and Canary scheduler are tasks of one asyncio event loop, so
code between two `await`s is atomic and everything else interleaves. Agents, vLLM and the
process controller are processes of their own: they meet that loop through HTTP and
signals only.

| Component | State it keeps | Operations | Talks to |
|---|---|---|---|
| Proxy handler (`proxy/proxy.py`) | where each request is, its `Ticket` | `handle`, `stream()` | Router (admit, prefill_done, first_token, finish), P and D over HTTP |
| Router (`controller/router.py`) | counters of every `Group`, `_queue`, `_waiting_since`, `_signalled`, `clock_epochs`, samples | `admit`/`step`/`_release`, `_issue`, `prefill_done`, `first_token`, `finish` | reads group state, telemetry and tables; `pressure_event` wakes the Controller |
| Controller (`controller/tier_controller.py`) | `mode`, `_full_effort`, `_retry`, the plan; tier, point and state of each group | `tick` (feedback, retries, plan, drains), `set_tier`, `publish`, `wake` | agents over HTTP, Canary scheduler (`on_pressure`, `reclaim_canary`), Router flags |
| Canary scheduler (`controller/canary.py`) | `task`, `_pending`, `_draining_since`, history | `step`, `request`, `abort`, `reclaim`, the experiment task | Controller (`set_tier`, `publish`), locator and probes |
| Probe backend (`controller/probe.py`) | probe requests in flight | `lock`, windows, `quiesce` | P, D and agents over HTTP |
| Locator (`controller/locator.py`) | windows measured so far, the phase of the run | search for H, capacities, model fit, recheck, verify | probe backend |
| Frequency table (`controller/frequency_table.py`) | a decision and a revision per workload, its file | `read`, `write`, load | threads of its users |
| Domain (`domain/*.py`) | tier table, risk and slack tables, congestion counts, cluster model | lookup, record, `solve`, load and save | everybody |
| GPU agent (`infrastructure/gpu_agent.py`, `clocks.py`) | one lock per GPU | `lock`, `reset` | nvidia-smi / NVML |
| Telemetry (`infrastructure/telemetry.py`) | latest scrape per endpoint | scrape loop | P and D |
| Process controller (`controller/process_controller.py`) | children of the job | start, supervise, stop in order | srun steps, agents |
| Service and API (`service.py`, `app.py`, `api/control.py`) | - | assembly, `/canatune/*` | all of the above |
| Measurement (`measure.py`) | `windows.jsonl`, `requests.jsonl`, the window's outcomes | stages, scans, resume | P, D and agents over HTTP |
| Load generator (`loadgen.py`) | tasks of the replay, `requests.jsonl` | `run`, `send`, poller, recheck action | the proxy and agents over HTTP |
| Scripts | - | offline analysis | - |

What is hard here:

* **Cancellation at every await.** A client that leaves cancels `handle`; an abort
  cancels the experiment task, even inside its `finally` clause.
* **State read before an await and used after it.** The plan's list of active groups,
  the epochs of a ticket, the KV in flight seen by the gate.
* **Three tasks, one Canary.** The tick, the scheduler's step and the experiment all
  write the state, tier and point of the same group without a lock.
* **Failure and retry.** Locks fail, `quiesce` times out, full effort tries again.
* **Polling waiters.** The FIFO line is kept by tasks that sleep and wake in any order
  while the mode, the groups and the telemetry change.
* **Commands that outlive their caller.** A lock whose HTTP call timed out may still be
  executed, after the next `set_tier` has begun, or after the clocks were reset at the end
  of the job.
* **Processes that die at the wrong moment.** A signal in the middle of a start-up, a
  leader that exits and leaves members of its group, an agent that is gone when its
  clocks are to be reset.
* **Files over crashes and configurations.** What one process learned is the next one's
  starting point; a save may be cut anywhere, and the next configuration may differ.
* **Conclusions from few counts.** Sparse cells and bins borrow from others, in one
  direction only.
* **Answers judged by old evidence.** Feedback, plan and verification run on windows and
  caches that outlive what they were made for.

What makes each component correct, in a sentence: the ledger's counters are the
requests they stand for; the line is FIFO, leaves no residue and serves its front; the
Canary is in production or in an experiment, never in both, and always comes back; full
effort gets every group; the Router never assumes a clock that a GPU does not have; the
job starts in order, stops in the opposite order and leaves no process behind,
and nothing is sent to a clock that was reset; pressure is answered and passes; the plan keeps the peak and its
verified rates; a published H carries its load; what is loaded is whole, the
configuration's own and counted once; what is called safe was seen to be. `PROJECT.json` lists the hazards, line by line, with the
property that covers each.

## Modules

| Module | Models |
|---|---|
| `RequestLifecycle` | Router ledger, proxy handler and the Controller steps that read or stamp the ledger; variables are the `Ticket` fields, the `Group` counters, `clock_epochs`, and the place where each handler is suspended |
| `WaitingLine` | abstract: one FIFO line anybody may leave |
| `AdmissionQueue` | `overload: best_effort`: `admit`, `step`, `_release`, `_kv_blocked` and the room test of each mode; implements `WaitingLine` (`Line`) |
| `ServeQueue` | `overload: reject` and `serve`: the second half of `step` with `candidates`, `try_admit`, rescue, backfill and the deadlines; there is no line, every waiter decides from `_fresh` and `_holding` |
| `Admission` | `AdmissionQueue` or `ServeQueue`, as `settings.overload` says |
| `CanaryControl` | the tick, the scheduler's step, the experiment task and the API over the one Canary group |
| `Feedback` | `_feedback_control`: warning, pressure and backlog confirmed over ticks, the stages of the answer, and the way back |
| `Planner` | cluster model and solver (`evaluate`, `capacity`, `pack`, `solve`), `_plan` and the Canary's `_verify` with its caps |
| `ClockControl` | overlapping `set_tier` calls of one group, their HTTP commands and the agents that execute them: the part of `set_tier` that the other modules see as one change that holds or fails |
| `ClockPlans` | the points production runs at: `Planner` (which ones) or `ClockControl` (how they are set) |
| `TierLocator` | the Canary's experiments: location of H, capacity, relocation, recheck and verification, window by window, with a cache, cancellation and restarts |
| `ProbeWindow` | one measurement window of the probe backend from lock to result, and `quiesce` |
| `Locating` | what the Canary measures (`TierLocator`) or one window of it (`ProbeWindow`) |
| `FrequencyTable` | `WorkloadFrequencyTable`: threads, conditional writes, saves that fail, death |
| `Stores` | tier table, risk table and slack counts in memory and on disk, over starts, saves, shutdowns and deaths under several configurations |
| `Evidence` | slack counts and congestion counts: estimate, safe slack, knee, gate and slot cap |
| `RiskTable` | the lookup of the risk table, in every world that is monotone in the load |
| `ServiceTables` | prefill times measured per clock and how contradictions are resolved |
| `Measure`, `MeasureWindow` | the offline campaign over reruns; the verdict on one window |
| `StreamTimer` | the token events of a stream cut into chunks |
| `LoadRun` | the replay of a trace: request tasks, drain, poller, recheck action |
| `Knowledge` | everything that is learned, kept or seen from outside: `FrequencyTable`, `Stores`, `Evidence`, `RiskTable`, `ServiceTables`, `Measure` with `MeasureWindow`, `StreamTimer` and `LoadRun` |
| `ProcessSupervision` | `run`, `stop`, `_wait_then_kill` and `reset_agent_clocks`, the children and their clocks |
| `MC...` | instances for TLC |
| `FiniteLemmas` | lemmas about totals, ranks, least and largest members of finite sets |
| `..._proofs` | the theorems about the module they are named after and the parts it composes (`AdmissionQueue_proofs`: `Admission`) |

Some modules put parts side by side that share no state: `Admission` (the policies a Router
may run), `Locating` (the Canary's runs, and one window of them), `Knowledge` (what is
learned, kept or seen from outside), `ClockPlans` (the plan, and the commands) and
`MCCanaryControl` (who owns the Canary under full effort, and when full effort is). An
initial choice says whose behaviour it is; the other parts stay as they begin, and nothing
of them is obliged to happen. The reachable states are the union of those of the parts,
not their product. The interfaces between
them are the choices each part leaves to its environment: `Feedback` sees a clock change
as done at once because `ClockControl` shows what it may do meanwhile, `TierLocator`
takes a window's result as the world's answer because `ProbeWindow` shows how one ends.

Correspondence: an action is the code between two awaits of the function `map` names;
its name is that of the function or of what the code does there. `at[r]` is where
`handle` is suspended (`prefill` and `decode_call` wait for P and D, `reading` and
`streaming` for the body, `cleanup` is the `finally` clause). `changing[g]` counts the
`set_tier` calls of a group that wait in their gather. In `CanaryControl`, `ctl`, `sch`
and `exp` are the places of the three tasks and `lock[a]` the `set_tier` that task `a`
waits in. In `ClockControl`, `call[c]` is a `set_tier` suspended in its gather and
`queue[g]` what a GPU's agent has yet to execute. In `TierLocator`, `want` is the window
the run waits for and `phase` the code that comes after it. In `ProcessSupervision`,
`step` and `stage` say where `run` or `stop` is and `todo` what is left of its current
loop; `sent` and `held` are the lock commands outside and inside a GPU's lock. Variables called observations or history (`crossed`, `taken`, `rivals`, `gaveUp`,
`healthy`, `reset`, `owed`, `failed`, `fresh`, `raw`) are read by properties only. Operators whose
comment begins with "Mutant" are plausible bugs of the operator after them; no
specification uses them. They are there so that each property can be seen to fail.

Abstractions:

* Latencies, token counts, powers and predicted risks are small integers or free
  choices. Which group is chosen among those with room is free, and so is the moment of
  every timeout, trigger and arrival.
* Time is counted in periods where the code compares times with limits (`Feedback`,
  `Planner`, `ServeQueue`); a time is kept up to the largest limit it is compared with.
* In `Planner` the use of a P GPU is its busy share (the solver without a fitted predictor);
  the violation risk a predictor gives is left out, and with it the one use that need not
  grow with the rate. Capacity is the largest feasible rate; that the doubling and bisection
  of `capacity` find it is a theorem (`CapacityFound`), and an assumption of
  `MCClockControl` that TLC evaluates.
* In `CanaryControl` the other groups appear as choices (a plan may await them).
* In `ClockControl` the agent executes the commands of a GPU in the order they were sent
  and the event loop sees the answers in that order: an assumption, since each command
  has a connection of its own and the agent's `threading.Lock` promises no order. A lock
  the read-back does not confirm counts as held, as the agent says it does.
* In `TierLocator` a measurement shows the truth of the chosen `world`: repetition,
  noise and the fits are left out, and windows that differ in repetition or prompt mix
  only are one. A world in which a D clock runs a number of sequences cleanly runs as many
  cleanly at every higher clock: `joint` raises D's clock and keeps B* on that ground.
* `Evidence` and `RiskTable` compare a Wilson bound with a rate by the quadratic
  inequality it solves, in whole numbers.
* In `Stores` saving is synchronous, as it is in the code: nothing else runs, but the
  process may die at each step. A write is half a file until it is flushed.
* In `ProcessSupervision` one GPU stands for those of an agent, and its lock commands are
  counted: those on their way (on the network, or in a thread of the agent that has yet
  to take the GPU's lock, in whatever order) and the one that holds the lock. A reset whose
  answer failed has its effect at once or never; a later one could only unlock. The
  `PermissionError` branch of a kill, the sleep of `_wait_then_kill` and exit statuses are
  left out; the allocation, and with it the model, ends when the controller returns.
* In `Measure` a line cut off by a crash is torn; one that is complete and lacks only its
  newline is left out. In `FrequencyTable` a save fails with an `Exception`.

## Runs

| Run | Shows | Bounds |
|---|---|---|
| `RequestLedger` | `CountersExact`, `SumsExact`, `ParkedIdle` through every error, cancellation and double finish | 3 requests (2 streams), 2 groups, dynamic pairing, two prefill costs; no change of clocks except parking (`MaxEpoch = 0`), because the counters do not read epochs |
| `RequestLive` | `NoSampleAcrossChange`, every reservation is given back, every drain ends; changes overlap, fail and are cancelled | 1 streamed request on 2 groups, changes start up to epoch 2; a request that is not streamed takes fewer steps and is covered by the theorems |
| `AdmissionQueue` | best_effort: `NoResidue`, `OneSignalPerRequest`, `ServesLine` (the FIFO line), `FrontServed`. reject and serve: `ServePromises` (a late request goes last and the oldest of them first, no holder is refused whom nobody was in the way of and an idle group could take, waiting is bounded, no residue) | 3 waiters, one larger than the KV gate; 2 groups, one of which comes and goes; cold start and mode changes. ServeQueue: 3 requests of two lengths over one group that drains and comes back, SLO 5 and hold limit 6 retry periods |
| `CanaryControl` | no probes beside production, no experiment under full effort, the Canary comes back, full effort gets it; `PressureSettles` (calm brings the energy mode back from every stage, lasting pressure is answered) | 2 production requests on the Canary; Feedback: one production group and the Canary, 2 ticks per period, windows of 1 to 3 periods |
| `ProcessSupervision` | `StartsOnHealthy`, `StopsInOrder`, `NothingLeft`, `StaysReset` (nothing is sent to a clock that was reset; only what was on its way may lock it) through signals, exits and failures at every moment; the job ends (`JobEnds`) | the 2 agents of the job, 2 node steps and the proxy; commands to the GPU of the agent that is reset first (agents share no lock), one on its way while another holds the lock |
| `ClockControl` | commands: `SafeWithoutRivals`, `FailuresRetried` with refused, lost and late commands, time-outs and cancellation. Plan: `FailedRatesAvoided`, `SavesWithinPeak`, `NoFlapping` | 2 calls at once; MAX, PARK and two points for H in opposite order; 2 commands queued per GPU. Planner: 3 groups, 2 x 2 clocks, 2 demands, 2 failed verifications |
| `TierLocator` | locator: `TargetMet`, `NearOptimum`, `CapacityIsBest`; window: `EndsClean`; both end (`MeasuringEnds`) | 13 P clocks, 4 D clocks, 304 worlds (the feasible edge, the cheapest clock, slope, thermal limits, D's capacity and energy), 2 experiments or restarts after the first table. Window: 3 probes, 2 workers |
| `Knowledge` | `MemoryIsDisk`, `NoLostUpdate`, `OnlyImproves`; `SoundKnowledge`, `ForeignRiskKept`; `ConclusionsBacked` (slack, knees, gate, risk table, prefill times); `ResumesClean`; `ChunkingIrrelevant`; `RunAccounted` | 2 threads x 2 workloads up to revision 3; 3 configurations of 2 SLOs, 2 tables, 1 request each; 4 bins, 3 calibrations, 10 own requests; 8 risk cells of 2 samples; 3 clocks x 2 lengths; 1 single window and 2 scans over 2 rates, 2 early ends, 2 torn lines, windows of 4 requests; 2 stream events; a trace of 3 requests |
| `CanaryTaken` | finding: a stale list drains an exploring Canary | 1 production request |
| `CanaryStranded` | finding: an active group without a point that nobody locks again | 1 |
| `StaleConfirmation` | finding: full effort confirmed by pressure from before the last answer to it | 1, Feedback as above |
| `ProbeFailedLate` | finding: a probe that was late and failed is a violation and no request | 3 probes |

Why these bounds are enough to be interesting: a group's counters can only be wrong
through the steps of one request and the other requests sharing its P or D, and two
groups with dynamic pairing give every sharing; three waiters are the front, the one
that could overtake and one that could be stuck behind a residue; a second production
request adds nothing to the Canary's three tasks beyond "still in flight"; two agents
have an order, and a first one that may fail the second; two calls are the one that was
replaced and the one that replaced it, and two queued commands the late one and the new
one (three, with one point for H, were checked too: 4.5 million states). The plan needs
three groups to wake one, park one and keep one. Thirteen P clocks are the fewest at
which the coarse grid has inner points and both refinements have clocks to choose from.
Three configurations are one's own, one of the same SLO and one of another. Ten requests
over four bins make a bin sparse, a block merged and a knee possible with three as the
minimum of samples. Two events with both separators hold every way a cut can fall.

Bounds that cut behaviours are guards of the actions that would exceed them: `MaxEpoch`,
`MaxInflight`, `MaxQueue`, `MaxFails`, `MaxRuns`, `MaxTicks`, `MaxFinished`, `MaxTables`,
`MaxRevision`, `MaxOwn`, `MaxAll`, `MaxSamples`, `MaxSample`, `MaxEnds`, `MaxTorn`,
`MaxEvents`, `MaxAsks`. `ClockControl` has the one state constraint, `Observed`: behind a
state in which two calls of one tier have overlapped *and* a call has given up, both
properties of the commands are excused for ever, so nothing behind it is looked at.
Deadlock is not checked where the system may rest: every request closed, the job ended,
the campaign finished, a file written, or nothing that calls for a change.

### Fairness

* `RequestLifecycle!FairSpec`: calls to P and D end (`request_timeout_s`), agents answer
  or their HTTP client times out, `tick` runs every `period_s`. Clients owe nothing.
* `AdmissionQueue!Polls` (in `AdmissionFairSpec`): a sleeping waiter polls again, admitted requests end
  (`RequestLifecycle`). Neither the timeout nor arrivals are fair, and groups other than
  one stable one may stay unusable for ever. `ServeQueue` needs none: `WaitBounded` counts
  the periods and is a safety property.
* `CanaryControl!Runs`: weak fairness of the loops and of answers; strong fairness
  where a loop tries again and again and the attempt may be disturbed in between
  (retries, drains, `quiesce` when no request is left, a lock that finally holds). Nothing
  obliges an operator, a trigger, the plan or the feedback to act.
* `Feedback!Keeps`: the loop ticks every period and an experiment ends, by itself or by
  the abort of full effort. The weather (what production shows) owes nothing; the two
  properties are about a calm or a storm that lasts.
* `TierLocator!Goes`: the scheduler starts a location while there is no table, a run goes
  on, and not every window of every run is interrupted for ever (strong fairness: each
  attempt may be, but `_step` starts another one as long as there is no table).
* `ProbeWindow!Timers`: timers fire and arrival times come. Nothing is assumed of a
  request or of an engine. (`LocatingFair` is `Goes` and `Timers`, each for the behaviours
  that are its own.)
* `ProcessSupervision!FairSpec`: the controller's thread keeps running; each of its loops
  polls and each of its waits has a deadline. Nothing is assumed of children or signals.
* The other modules state safety only.

## Proofs

Every theorem holds for every value of the constants that the named assumption allows.
Where a module composes parts, the theorem is about the composition and its proof begins
with the step of the part: the others are unchanged.

`FiniteLemmas` has what the proofs need of finite sets. The library's induction theorems
take an operator as a parameter and cannot be used; its place is taken by `MinimalSet`
(every nonempty family of subsets of a finite set has a minimal member, a fact about the
subset ordering being well founded): a statement that failed would fail for a minimal set,
and one member less is the contradiction. From it come the total of a function over a set
(`TotalWith`, `TotalWithout`, `TotalAgrees`: the folds of the community modules add each
member once, in whatever order), the least and largest members, the ranks members take, and
that of two totals in a proportion some member is. `CountingUp` and `CountingDown` are
induction over `0..N` with a set in the predicate's place.

`RequestLifecycle_proofs`, for every finite set of requests, every set of groups, every
token count and cost, fixed or dynamic pairing and any epoch bound
(`ConstantsAssumption`):

* `TypeCorrect`: `Spec => []TypeOK`.
* `LedgerExact`: `Spec => []CountersExact`. `CountersExact` is not inductive: a release
  subtracts from the counters the ticket's *stage* names, so one must know that stage
  and handler agree. `Coherent` says that (for instance: a handler that waits for P has
  a ticket in stage `prefill`, a stage `decode` has its first-token stamp, a ticket past
  admission has both groups). Then each of `_issue`, `prefill_done`, `first_token` and
  `finish` has a lemma that moves one request between the sets and the counters by one.
* `SumsAreExact`: `Spec => []SumsExact`. The same, with what a request adds in place of
  one: a group's token and cost sums are totals over the sets `LedgerExact` speaks of, and a
  step changes one member (`TotalWith`, `TotalWithout`).
* `ParkedGroupsIdle`: `Spec => []ParkedIdle`, from `ParkedEmpty` (no live ticket on a
  parked group): the drain tests `n_inflight = 0`, which by exactness means the set is
  empty, and only routable groups are admitted to.
* `SamplesDoNotCross`: `Spec => []NoSampleAcrossChange`, from `EpochTells`: epochs only
  grow, so the ticket's epoch of a group whose clocks began or ended changing lies
  strictly below the group's.

`AdmissionQueue_proofs`, best_effort, for every set of requests and groups, every size and
gate, `fill` or not, with or without a cold start (`QueueAssumption`):

* `LeavesNoResidue`: `Spec => []NoResidue`. The invariant adds that nobody stands in the
  queue twice: `_release` removes the first occurrence only.
* `WarnsOnce`: `Spec => []OneSignalPerRequest`. `signals <= |arrived|` is not inductive;
  `SignalsCounted` bounds the signals by the requests that can have raised theirs, which
  leaves out those that wait and are not in `_signalled`.
* `ImplementsLine`: `Spec => ServesLine`, the safety part of the refinement: each action is a
  step of `WaitingLine` or leaves it alone. It needs what `RemoveFirst` does to a queue
  without repetitions (lemmas on sequences), and that a new request at the front found
  the queue empty.

reject and serve, for every finite set of requests and groups and any lengths, slacks and
limits (`ServeAssumption`: the wait under the short budget lies within the SLO, and a
request may be held for the SLO at least): `PromisesKept`, that is
`AdmissionSpec => ServePromises`. `SetsPartWaiters`: `_fresh` and `_holding` part the waiting
requests between them, nobody is in them twice. `FreshIsYoung` and `HolderIsOld`: which
side of the short budget each is on. `ExpiryAgrees`: what is left of a holder's time is its
deadline less its age. `Elders`: holders stand in the order of their age, since a request
joins at the end when its short budget is over and ages run alike; so the first late one
is the oldest of the late ones, which backfill promises.

`ProcessSupervision_proofs`, for any list of distinct agents (`AgentsAssumption`):
`StartUpOrder`, `ShutDownOrder`, `NothingSurvives`, `ClocksStayReset` (`StartsOnHealthy`,
`StopsInOrder`, `NothingLeft`, `StaysReset`). What they say of the children depends on
where the one thread is. `IInv` adds two facts that tie `step`, `stage` and `todo` to the
children. `StartUp`: while the job starts, later stages are not started, earlier ones are
healthy, what the current loop has left belongs to the current stage, and nothing was
terminated or reset. `ShutDown`: every child of a stage that `stop` has left behind, and
every child the kill loop has passed, is over, that is, nothing of its group exists or it
was sent SIGKILL, and a proxy whose leader still runs is one that survived it. The last
theorem needs both: a reset begins only when the proxy is over, so that no command is sent
after it. With the serialisation of the reset by the GPU's lock this leaves the commands
that were on their way by then (`owed`), each of which locks at most once. It holds for any
number of commands (`CommandsAssumption`). That a reset clock is never locked again cannot be
proved, as it is not so (`ResetIsFinal`).

`ClockControl_proofs`, how clocks are set and how they are chosen:

* `NeverTooFast` (`SafeWithoutRivals`) and `FailuresRemembered` (`FailuresRetried`), for any
  set of calls, points and length of the queues (`ClocksAssumption`). The invariant is about
  the call that is still current. `Posted`: a call waits for exactly the GPUs whose queues
  hold its command, one each. `Aims`: a call's target is a point of its tier. `Ordered`:
  without rivals one call at most is current, the Router sees the slower of its old and new
  point, its commands are the last of their queues, and a GPU that answered it well is at
  the target with nothing left to do; an older command may still be executed, but stands
  before it. `Settled`: where no call is current and nothing was given up, the group has its
  tier's point or a retry entry.
* `CapacityFound`, for any clocks, costs and caps: the two loops of `capacity` find the
  largest feasible rate. Doubling ends above a rate that is not feasible (`DoublingFacts`,
  counting down from the bound); `Largest` unfolds as the bisection does
  (`LargestHalved`), so the recursive function exists, and every such function is `Largest`
  (`BisectingFacts`). A group that carries a rate carries a lower one (`FeasibleDown`).
* `FailedNotPlanned` (`FailedRatesAvoided`), `SavingsCarryPeak` (`SavesWithinPeak`) and
  `WokenStay` (`NoFlapping`), for any clocks, cost tables, demands, number of groups and
  `t_down_s` (`PlannerAssumption`: with the Canary away there is a group to plan for, and
  `t_down_s` is not zero). Three facts about the solver come first. A configuration that
  carries a rate carries every lower one on as many groups or more (`CarriesLess`; groups
  are filled one by one, so this is about what is left for each). More groups never have
  less headroom (`MoreGroupsMoreRoom`). So what `solve` returns is one of its
  configurations, and if it is not feasible it is for all groups and none of any size
  carries the rate (`SolveIs`: the orders by power and by use have a first member). The
  invariant, `PlanInv`, is about time. `FailuresCapped`: a failed rate is at or above its
  point's cap. `StaysGrown`: while woken groups are to stay, the target is for as many or
  younger than they are. The last two are for demands that no configuration carries, where
  the plan is not feasible and yet may be followed. `Answered`: such a demand, met while the
  target is held, was answered at once, so production has the target's clocks already and
  nothing is left to lower. `TestsTarget` says why that survives the Canary's return to
  production, which adds a group: it left only when the others carried the peak, and a
  failed verification lowers the capacity of the target's point alone.

`CanaryControl_proofs` (`BoundAssumption`): `ProductionAlone` (`ServesWithoutProbes`) and
`FullEffortStopsExperiments` (`NoExperimentInFullEffort`). `FullEffortAlone`: full effort has
no pending experiment, its reclaim is taken under it, and past its join no task runs.
`ReclaimsAlone`: the scheduler reclaims what no task works on. `HoldsCanary`: probes in vLLM
mean that the group is exploring, or was taken from the experiment (finding 2).

`Locating_proofs`, the Canary's measurements:

* `LeavesNothing` (`EndsClean`), for any finite set of probes and any number of workers
  (`ProbesFinite`). `CountersAgree`: the probe's own counters are the sizes of the
  sets they stand for, by the same argument as the ledger. `LivesInside`: probes and
  the sampler live in the window's body or are being cancelled. `EnginesAsked`: P is asked
  before D, and an engine found idle stays idle, as nothing reaches it any more.
* `PublishedHCarries` (`TargetMet`) and `BestIsPublished` (`CapacityIsBest`), for any clock
  grids, search settings and any set of worlds (`LocatorAssumption`), for fill loads that
  contain the target load, as the default ones do (`FillsAtTarget`: locator.py:176,
  config.yaml:236). The code never checks at the end what it publishes: each phase relies on
  the ones before it. `CacheTrue`: what the cache calls good the world bears. `PhaseFits` says
  what each phase hands on: P's clock was seen good at the target load, the D clock runs v.b
  sequences cleanly, the fill loads still to come contain the target or the best so far is
  not below it, and of the loads seen at H the best is kept. `Kept` goes through the
  seventeen phases; a cancellation or a restart keeps the cache and drops the rest.

`Knowledge_proofs`, what is learned and kept (`KnowledgeAssumption` and the assumptions of
its parts):

* `MemoryAgrees` (`MemoryIsDisk`), `UpdatesKept` (`NoLostUpdate`), `FileImproves`
  (`OnlyImproves`) and `TableTypes`, for any threads, workloads and decisions of the
  frequency table. The properties speak of the
  moments when the lock is free; the invariant says what holds while it is taken. `Backed`:
  the file is what memory shows, or what it was before the write that holds the lock.
  `Improving`: that write improves on it. `SeenInFile`: what a thread has read was in the
  file, with a revision no greater than now. `Dead`: without a process there is no writer.
* `KnowledgeSound` (`SoundKnowledge`) and `ForeignKept` (`ForeignRiskKept`), for any number of
  configurations, starts and crashes. The invariant follows a sample: `SoundMemory` (what a
  process goes by), `SoundSaving` (what it is about to write) and `SoundDisk` (what a start
  will load) say the same of each of the three; `KeepsOwn`: the risk path is set only if the
  file is absent or this configuration's; `SeedApplied`: the calibration in the slack counts
  is that of the table that was applied last, if it has one.
* `CampaignClean` (`ResumesClean`), for any number of single windows, scans, rates, ends and
  torn lines. `Remembered`: a run goes by what is recorded, plus windows it has recorded itself
  and lost since to a torn line, all of them before the one it is at. `Chained`: with no torn
  line the rows are a chain, each the window that follows the last, and the run is on it.
  `NotBeyond`: nothing recorded tells the run to stop before where it is. `Written`: how often
  the rows of a window's requests may be on disk. That overload is never taken for a stall
  is about samples of any length: the medians of two halves, by the ranks of
  `FiniteLemmas`.
* `ConclusionsAreBacked` (`ConclusionsBacked`), for any counts, bins, seeds, clocks and times.
  The searches of the code are characterised by where they stop, so no recursion remains; what
  they conclude from is a proportion of totals, and `SomeAbove` gives the bin behind it. In
  a monotone world a violated pool has a violated lightest cell (`RiskInv`: cells count what
  the world does). `TablesInv`: the envelope of a table contradicts itself nowhere and
  settling it again changes nothing.
* `ReplayAccounted` (`RunAccounted`), for a trace of any length.
* `ChunksIrrelevant` (`ChunkingIrrelevant`), for any number of events, either separator, any
  chunks and any end. `StreamInv` says where the parser stands: some number of events
  arrived whole, exactly those are counted, and the buffer is what arrived behind them
  (`Portion`). The rest is about one call of `feed`. The wire is described by where its
  events end (`WireFacts`, `EndsOrdered`), and a separator is found nowhere but at such an
  end (`BlankPlace`, `BlankPlaceCRLF`): CR, LF, CR nowhere but in the separator of a CRLF
  event, an empty line nowhere but in one of the two. `feed` looks for CRLF first, so it may
  pass over events that end at LF: `CutFacts` says that it cuts at the end of *some* event
  if one is whole, and never inside one, and `CutOffLines` that `splitlines` finds in what
  it cuts off the line of each event in it, at its place, and nothing else that begins like
  a line; so all of them are counted (`CutOffCounts`). The loop is a recursive function,
  and so is the flattening of the wire. That such a function exists and unfolds is
  `CountingUp` over the prefixes of its domain (`Flattened`, `FedUnfolds`); what it computes
  is `CountingDown` over the events (`FedFacts`).

### What the attempts showed

Some statements were wrong or unprovable as they stood; TLC confirmed each on an instance.

* `RequestsKept` of the campaign counted a torn line as one window's loss. Two of them next to
  each other make one unreadable line of two rows: the bound is on the rows torn (`Joined`),
  and the run has two torn lines since.
* That overload is seen (`MeasureWindow`) is false of a window so long that its halves'
  medians differ by less than the threshold: what holds is that it is not taken for a stall.
* `CapacityIsBest` was stated over the whole cache. A verification at H may have measured a
  better load there which no location looks at: it is stated over the location's own windows.
* `DoomedLast` is false of a request that is late and still judged safe, which happens when the
  safe slack is negative (the slack table's first edge is): it speaks of the others. Without
  that, no late request is preferred to one in time.
* `NoIdleReject` is false under `doomed=backfill` of a prompt so long that even an idle group
  lacks the backfill slack for it: it is held to its limit and refused. And it needs
  `Slo <= HoldMax`, which config.yaml:137 asks of the operator and nothing checks.
* Two arms of a `CASE` in `Feedback` could both apply: which one was meant is written out.
* `SavesWithinPeak` said nothing of a tick at which window and plan stay the same: it was
  recognised by a change of one of them. It is recognised by what no other step leaves alone
  now. And it holds of a plan that is not feasible for a reason nobody had written down
  (`Answered`).
* The infinite use of a GPU that is saturated was the number 1000, which a busy one can
  exceed; then more groups could seem to have less headroom. It is beyond every use now
  (`Infinite`, `InfiniteIs`).
* `capacity` was the search itself. What the plan needs of it is that it is feasible, and
  the search is compared with that definition. The proof of it found an instance that TLC's
  bounds had missed: the model stopped doubling at its bound `Plenty`, and a search that
  ended there, on a power of two that is feasible, fell one short of it. It doubles beyond
  the bound now.
* `ChunkingIrrelevant` was held to be out of reach, as its parser is a recursion. What it needed
  was not a stronger prover but induction in the form of sets, and the remark that it does not
  matter *which* separator `feed` cuts at, only that every one is the end of an event.
* In the locator, the move to the joint search on a grid of one D clock used locals of the
  phase before, and the clean windows of higher D clocks had to be an assumption about worlds.

### Not proved

Out of this prover's reach: liveness under fairness (`FrontServed`, `EventuallyReleased`,
`DrainEnds`, `JobEnds`, `PressureSettles`, `MeasuringEnds` and those of `CanaryControl`),
and `ENABLED`.

`NearOptimum` is true of the instance's worlds, not of all. The search stops within two grid steps only where the coarse
grid and `refine_steps` are fine enough for it; the bisection of the feasible edge (`Edge`)
never looks above the cheapest coarse clock, so a minimum between that one and the next is
found only if it is near; and of a bracket of four steps the golden section puts both its
points on the middle one, which drops the upper half. What holds in every world is `TargetMet`:
whatever clock it settles on carries the load.

## Findings

1. **A stale list takes the Canary away from its experiment** (`CanaryTaken`): `_plan` makes
   its list before it awaits and drains from it afterwards.
2. **A stranded Canary** (`CanaryStranded`): an abort that meets the experiment's final
   `set_tier` leaves an active group without a point and without a retry.
3. **Old pressure confirms full effort** (`StaleConfirmation`): `_pressure_ticks` outlives the
   answer to the pressure it recorded. With the default settings, fourteen pressured event
   ticks that were answered by a redirect and three healthy periods after it are enough
   (tried with the real Controller and stub groups).
4. **A probe that is late and then fails** (`ProbeFailedLate`) makes violations exceed
   requests, and the Wilson bound fails with a `ValueError`.

### Known counterexamples

Stated in the modules as properties that do *not* hold (their comments begin with "Not
so"), found by TLC while modelling; no run checks them.

| Property | Module | What happens |
|---|---|---|
| `KvWithinGate` | `AdmissionQueue` | requests at P are invisible to the KV gate (router.py:475), contrary to the synchronous reservation router.py:40 promises: three requests pass it together |
| `ExploresAlone` | `CanaryControl` | expansion reactivates a draining Canary and keeps the pending experiment (tier_controller.py:562), which then explores over production, contrary to canary.py:15 |
| `PointIsSafe` | `ClockControl` | of two calls for one tier with different points, the earlier one raises the Router's point over the later one's slower clocks (tier_controller.py:232), contrary to groups.py:214 |
| `EveryAgentAsked` | `ProcessSupervision` | `reset_agent_clocks` guards each POST, but the GET before it is outside the `try` (process_controller.py:209): the agents behind a silent one are not asked |
| `ResetIsFinal` | `ProcessSupervision` | a lock command checks its clock before it takes the GPU's lock (gpu_agent.py:178, :180): one that was posted before the proxy died locks after the reset at the end of the job, and if the agent is ended too quickly for its own reset the clock stays locked, contrary to gpu_agent.py:330 |
| `CapacityHolds` | `TierLocator` | a recheck moves H to a neighbour and keeps the capacity of the H before (locator.py:1292), contrary to groups.py:92 |
| `OwnSlackCounts` | `Stores` | slack counts of another model or GPU are loaded whenever the SLO is the same (service.py:221), contrary to service.py:192 and :100 |
| `RerunsGoOn` | `Measure` | a torn line in a scan is skipped by `_done_keys` and not by `_read_window` (measure.py:683): each rerun ends in the JSON error |
| `PowerKnown` | `Measure` | a power window whose agent did not answer is recorded without energy, and every rerun skips it as done |
| `OneLineEach` | `LoadRun` | a request cancelled by the drain has no line, contrary to loadgen.py:16 ("one line per request") |
| `UnfinishedExact` | `LoadRun` | a task that ended in the turn the drain timed out has its line and is counted as unfinished |
| `OneRecheck` | `LoadRun` | a recheck whose answer is lost is asked for again |

### Seen while reading

Not stated in a module:

* `_wait_then_kill` reads the clock twice before it sleeps (process_controller.py:118, :120);
  if the deadline passes in between, `time.sleep` gets a negative number, and the
  `ValueError` leaves `stop` before the later stages are ended.
* `_lock` logs `confirm_ms` (tier_controller.py:212), which no agent sends (it sends
  `reach_ms`).
* A recheck after a verification or a restart probes with `prompt_limit` None, and the key
  of the window cache does not contain the limit; a reused window counts its samples again
  (`_cached`).
* B* is looked for from a hint; with a hint at or below the starting concurrency a D clock that
  is clean only below it ends the run in an error.
* Relocation never lowers D's clock; an interrupted relocation starts over, since
  `relocate` calls `forget()`.
* The search of `search_prefill` asks `feasible()`, which does not look at `aborted`; the last
  energy reading may be the sampler's.
* The estimate of the risk table is conservative but not monotone in the load; the bisection for
  the capacity assumes that slack risk is, and may settle below the largest feasible rate.
* A strict cap leaves rates just below it, so the next verification tests nearly the rate
  that failed.
* The tier table of another configuration is overwritten by the next publish; a table
  without `admission` evidence leaves the seed and the knees of the one before.
* Once the KV gate is at a level, no sample from above it arrives that could raise it.
* The frequency table takes a write back on `Exception` only, not on `KeyboardInterrupt`.
* `mostly` may confirm pressure in less than `confirm_s`.
* measure.py:27 says that each request is appended when it ends; rows are written when the
  window ends.
* `LoadRun.send` ignores `StreamTimer.error`: a stream that ends in an error event counts as "ok".

## Not modelled

* Floating-point estimation: the least-squares TTFT predictor, the cost book, the load
  estimator, the length model, the curvature and alpha fits of the locator, park power.
  What their results are used for is modelled, with the results as choices.
* The Controller's `_boost` and `_unboost`, and the pressure branch of the legacy tick.
* Parsing of requests and responses, configuration, logging, records, wiring of the
  service, telemetry scraping, the agent's readings.
* Trace generation and the analysis of a replay; the planning of clocks and rates of the
  offline campaign and its closed windows' statistics.
* `memory_plan.py` (an arithmetic check at the start) and everything under `scripts/`.
* Orders of execution within one agent other than that of sending (`ClockControl`), and a
  park command that meets an experiment's probes: the commands of `ClockControl` under the
  tasks of `CanaryControl`, whose product is out of TLC's reach.

`components` in `PROJECT.json` has the status of each part.

## Plan

What is left, in the order of what it would add:

1. `Feedback` with failing locks and a drain that takes time, so that expansion and full
   effort meet `CanaryControl`'s states instead of instant ones.
2. Agents that execute in any order, with what a point can still promise then.
3. `_boost` and `_unboost` in `Planner`.
4. The load estimator and the cost book over small integers, against reference
   definitions.
