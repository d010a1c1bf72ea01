------------------------------ MODULE Planner ------------------------------
(***************************************************************************)
(* The energy planner: the solver over the Canary's cluster model           *)
(* (domain/models.py), the Controller's plan step that follows it           *)
(* (tier_controller.py, _plan), and the Canary's verification of the point  *)
(* and the per-group rate the plan runs (canary.py, _verify), which caps a  *)
(* point in the model when it fails.                                        *)
(*                                                                          *)
(* Time is counted in ticks of the Controller.  Clock locks succeed and a   *)
(* drained group parks at once: ClockControl and CanaryControl model what   *)
(* happens in between.                                                      *)
(***************************************************************************)
EXTENDS Integers, Sequences, FiniteSets, FiniteSetsExt, SequencesExt

CONSTANTS
  PClocks, DClocks,     \* measured clocks, ascending integers
  Work,                 \* P clock -> percent of the SLO's P share per unit of rate
  Alpha, Delta,         \* D clock -> T_iter = alpha + delta X
  Tokens,               \* tokens per thousand ms of iteration and unit of rate
  Running,              \* D clock -> the sequences it may run (KV, B*, TPOT)
  PowerP, PowerD,       \* clock -> <<idle, dynamic>>
  ParkPower,
  Groups,               \* number of groups, the Canary included
  MinGroups,            \* min_active_groups
  Rates,                \* demands, in units of rate
  Hold,                 \* t_down_s in ticks
  MaxFails,             \* bound: rates at which verifications fail
  None

Points == PClocks \X DClocks

VARIABLES
  bestEffort, \* overload = best_effort
  window,    \* _demand: the demands of the last t_down_s, the present one last
  working,   \* tiers.working, or H: the clocks of tier H
  prod,      \* active production groups
  canary,    \* "active", "park" or "explore"
  plan,      \* the solver's last answer, or None
  held,      \* ticks since _target changed
  target,    \* _target: groups and point
  caps,      \* point -> the model's cap, or None
  capacity,  \* _capacities of the solver, which is rebuilt with every cap
  verified,  \* point -> the rate the Canary confirmed
  testing,   \* what the verification under way tests, or None
  failed,    \* history: point -> the rates at which a verification failed
  grown      \* history: groups the plan woke to, for t_down_s, and ticks since

config == <<working, prod, canary>>
model == <<caps, capacity, verified>>
vars == <<bestEffort, window, config, plan, held, target, model, testing, failed, grown>>

Peak(demands) == Max(Range(demands))

ActiveOf(p, c) == p + (IF c = "active" THEN 1 ELSE 0)

Active == ActiveOf(prod, canary)

\* The groups a plan may use.
Serving == Groups - (IF canary = "explore" THEN 1 ELSE 0)

-----------------------------------------------------------------------------
\* Solver._uniform: one group at a rate.

\* P utilization in percent of what the SLO allows.
UseP(rate, pt) == rate * Work[pt[1]]

\* D: running sequences by Little's law, in percent of what it may run.
Saturated(rate, pt) == rate * Tokens * Delta[pt[2]] >= 1000

RunningPct(rate, pt) ==
  (100 * rate * Tokens * Alpha[pt[2]]) \div (1000 - rate * Tokens * Delta[pt[2]])

\* math.inf: more than any use that is not.
Infinite ==
  100 * (Max(Rates) + 1) *
    (Max({Work[f] : f \in PClocks}) + Tokens * Max({Alpha[f] : f \in DClocks}) + 1)

UseD(rate, pt) ==
  IF Saturated(rate, pt) THEN Infinite ELSE RunningPct(rate, pt) \div Running[pt[2]]

\* Mutant: a group may run at the very rate at which its point failed.
CapKeptAt(rate, cap) == cap # None => rate <= cap

\* A verified cap is strict: the point failed at that rate.
CapKept(rate, cap) == cap # None => rate < cap

Feasible(rate, pt, cap) ==
  /\ UseP(rate, pt) <= 100
  /\ ~Saturated(rate, pt) /\ UseD(rate, pt) <= 100
  /\ CapKept(rate, cap)

UseCap(rate, pt) ==
  IF caps[pt] = None THEN 0
  ELSE IF caps[pt] = 0 THEN Infinite ELSE (100 * rate) \div caps[pt]

Use(rate, pt) == Max({UseP(rate, pt), UseD(rate, pt), UseCap(rate, pt)})

AtMost(x, limit) == IF x <= limit THEN x ELSE limit

\* One group's power: idle and busy share of both GPUs.
Power(rate, pt) ==
  LET busyP == AtMost(UseP(rate, pt), 100)
      busyD == IF Saturated(rate, pt) THEN 100 ELSE AtMost(RunningPct(rate, pt), 100)
  IN 100 * (PowerP[pt[1]][1] + PowerD[pt[2]][1])
       + PowerP[pt[1]][2] * busyP + PowerD[pt[2]][2] * busyD

\* Bound: a capacity beyond what any plan can use.
Plenty == 2 * Max(Rates) + 2

\* capacity: the largest feasible rate of a group.
CapacityOf(pt, cap) == Max({0} \cup {r \in 0..Plenty : Feasible(r, pt, cap)})

\* How it is found: the rate is doubled while it is feasible, then bisected between a
\* rate that is feasible and one that is not.
SearchedCapacity(pt, cap) ==
  LET top[hi \in Nat] == IF Feasible(hi, pt, cap) /\ hi <= Plenty THEN top[2 * hi] ELSE hi
      search[w \in Nat \X Nat] ==
        LET mid == (w[1] + w[2]) \div 2 IN
        IF w[2] - w[1] <= 1 THEN w[1]
        ELSE IF Feasible(mid, pt, cap) THEN search[<<mid, w[2]>>] ELSE search[<<w[1], mid>>]
  IN IF Feasible(0, pt, cap) THEN AtMost(search[<<0, top[1]>>], Plenty) ELSE 0

-----------------------------------------------------------------------------
\* evaluate: a group is filled to its capacity before the next is used, and the last
\* one takes what is left.
Filled(rate, n, pt) ==
  [i \in 1..n |->
    LET left == Max({0, rate - (i - 1) * capacity[pt]}) IN
    IF i = n THEN left ELSE AtMost(left, capacity[pt])]

Evaluate(rate, n, pt) ==
  LET rates == Filled(rate, n, pt)
  IN [n |-> n, point |-> pt, rates |-> rates,
      feasible |-> \A r \in {rates[i] : i \in 1..n} : Feasible(r, pt, caps[pt])]

PowerOf(e) ==
  SumFunction([i \in 1..e.n |-> Power(e.rates[i], e.point)])
    + (Groups - e.n) * 100 * ParkPower

UseOf(e) == Max({Use(e.rates[i], e.point) : i \in 1..e.n})

Sooner(a, b) == \* the order of points and group counts in solve
  \/ a.n < b.n
  \/ a.n = b.n /\ a.point[1] < b.point[1]
  \/ a.n = b.n /\ a.point[1] = b.point[1] /\ a.point[2] < b.point[2]

\* Lowest power of the feasible configurations, fewest groups among equals; none
\* feasible: most headroom, then more groups and higher clocks.
Cheapest(evals) ==
  LET best == Min({PowerOf(e) : e \in evals})
      among == {e \in evals : PowerOf(e) = best}
  IN CHOOSE e \in among : \A f \in among \ {e} : Sooner(e, f)

Roomiest(evals) ==
  LET best == Min({UseOf(e) : e \in evals})
      among == {e \in evals : UseOf(e) = best}
  IN CHOOSE e \in among : \A f \in among \ {e} : Sooner(f, e)

Solve(rate, top) ==
  LET evals == {Evaluate(rate, n, pt) : n \in MinGroups..top, pt \in Points}
      ok == {e \in evals : e.feasible}
  IN IF ok # {} THEN Cheapest(ok) ELSE Roomiest(evals)

-----------------------------------------------------------------------------
Init ==
  /\ bestEffort \in BOOLEAN
  /\ window = <<Max(Rates)>>
  /\ working = <<Max(PClocks), Max(DClocks)>>
  /\ prod = Groups - 1
  /\ canary = "active"
  /\ plan = None /\ target = None /\ held = 0
  /\ caps = [pt \in Points |-> None]
  /\ capacity = [pt \in Points |-> CapacityOf(pt, None)]
  /\ verified = [pt \in Points |-> 0]
  /\ testing = None
  /\ failed = [pt \in Points |-> {}]
  /\ grown = [to |-> 0, ago |-> 0]

\* The plan is made for the peak of the last t_down_s.
PlannedFor(demands) == Peak(demands)

\* The demands of the last t_down_s with a new one.
Shifted(rate) ==
  LET all == Append(window, rate) IN
  IF Len(all) > Hold + 1 THEN Tail(all) ELSE all

\* switch_gain: two percent.
Gains(current, goal) == 50 * (PowerOf(current) - PowerOf(goal)) > PowerOf(current)

\* Model-only pressure never expands in best effort.
OnlyWarns(current, goal) ==
  bestEffort /\ (\/ ~goal.feasible \/ ~current.feasible \/ goal.n > Active
                 \/ goal.point[1] > working[1] \/ goal.point[2] > working[2])

\* Mutant: a new target counts as held.
HeldOn(goal) == AtMost(held + 1, Hold)

HeldSince(goal) == IF target = <<goal.n, goal.point>> THEN AtMost(held + 1, Hold) ELSE 0

\* Woken production first, then the Canary; drained the Canary first, one group a step.
Woken(n) ==
  LET room == Groups - 1 - prod
      more == Max({0, n - Active})
  IN <<prod + AtMost(more, room),
       IF more > room /\ canary = "park" THEN "active" ELSE canary>>

\* Mutant: down to one group less than planned.
DrainedBelow(state, n) ==
  IF ActiveOf(state[1], state[2]) >= Max({n, 2})
  THEN IF state[2] = "active" THEN <<state[1], "park">> ELSE <<state[1] - 1, state[2]>>
  ELSE state

Drained(state, n) ==
  IF ActiveOf(state[1], state[2]) > Max({n, MinGroups})
  THEN IF state[2] = "active" THEN <<state[1], "park">> ELSE <<state[1] - 1, state[2]>>
  ELSE state

Moves(current, goal, calm) ==
  /\ ~OnlyWarns(current, goal)
  /\ <<goal.n, goal.point>> # <<Active, working>>
  /\ ~current.feasible \/ (HeldSince(goal) >= Hold /\ calm /\ Gains(current, goal))

Follow(goal) ==
  /\ working' = goal.point
  /\ LET after == Drained(Woken(goal.n), goal.n) IN
     prod' = after[1] /\ canary' = after[2]

GrownSince(n) ==
  CASE n > Active -> [to |-> n, ago |-> 0]
    [] n <= Active /\ grown.ago + 1 < Hold /\ grown.to > 0 -> [grown EXCEPT !.ago = @ + 1]
    [] OTHER -> [to |-> 0, ago |-> 0]

\* _plan: the demand is read, the target chosen and, if it is time, followed.  calm: no
\* production pressure for t_down_s, and the saving outweighs the change (_switch_s).
Tick(rate, calm) ==
  /\ window' = Shifted(rate)
  /\ LET current == Evaluate(rate, Max({Active, 1}), working)
         goal == Solve(PlannedFor(window'), Serving)
     IN /\ plan' = goal
        /\ held' = HeldSince(goal)
        /\ target' = <<goal.n, goal.point>>
        /\ IF Moves(current, goal, calm) THEN Follow(goal) ELSE UNCHANGED config
        /\ grown' = GrownSince(ActiveOf(prod', canary'))
  /\ UNCHANGED <<bestEffort, model, testing, failed>>

\* _unverified: the heaviest group of a feasible plan runs above the confirmed rate.
PlannedRate == Max(Range(plan.rates))

Unverified == plan # None /\ plan.feasible /\ PlannedRate > verified[plan.point]

\* may_start: the active groups without the Canary carry the peak (can_carry).
OthersCarry == prod >= 1 /\ Evaluate(Peak(window), prod, working).feasible

StartVerify ==
  /\ canary # "explore" /\ Unverified /\ OthersCarry
  /\ canary' = "explore"
  /\ testing' = [point |-> plan.point, rate |-> PlannedRate]
  /\ UNCHANGED <<bestEffort, window, working, prod, plan, held, target, model, failed, grown>>

\* Whatever the outcome, the Canary returns to production at H.
Returns ==
  /\ testing # None
  /\ testing' = None
  /\ canary' = "active"
  /\ UNCHANGED <<bestEffort, window, working, prod, plan, held, target, grown>>

VerifyOk ==
  /\ Returns
  /\ verified' = [verified EXCEPT ![testing.point] = Max({@, testing.rate})]
  /\ UNCHANGED <<caps, capacity, failed>>

CapAt(pt, rate) == IF caps[pt] = None THEN rate ELSE AtMost(caps[pt], rate)

VerifyFails ==
  /\ Returns
  /\ MapThenSumSet(LAMBDA pt : Cardinality(failed[pt]), Points) < MaxFails
  /\ LET cap == CapAt(testing.point, testing.rate) IN
     /\ caps' = [caps EXCEPT ![testing.point] = cap]
     /\ capacity' = [capacity EXCEPT ![testing.point] = CapacityOf(testing.point, cap)]
  /\ failed' = [failed EXCEPT ![testing.point] = @ \cup {testing.rate}]
  /\ UNCHANGED verified

VerifyAborted ==
  /\ Returns
  /\ UNCHANGED <<model, failed>>

\* publish: a new model, without caps, and its own H.
Publish ==
  /\ canary # "explore"
  /\ \E pt \in Points : working' = pt
  /\ caps' = [pt \in Points |-> None]
  /\ capacity' = [pt \in Points |-> CapacityOf(pt, None)]
  /\ failed' = [pt \in Points |-> {}]
  /\ verified' = [pt \in Points |-> 0]
  /\ target' = None /\ held' = 0
  /\ UNCHANGED <<bestEffort, window, prod, canary, plan, testing, grown>>

Next ==
  \/ \E rate \in Rates, calm \in BOOLEAN : Tick(rate, calm)
  \/ StartVerify \/ VerifyOk \/ VerifyFails \/ VerifyAborted
  \/ Publish

Spec == Init /\ [][Next]_vars

-----------------------------------------------------------------------------
\* Properties.

\* After a failed verification the point is "avoided at that rate": no later plan calls
\* a configuration feasible that loads a group to a rate at which its point failed, or
\* beyond, whatever failed in which order (the strict cap, kept as a minimum).
FailedRatesAvoided ==
  [][plan' # plan /\ plan'.feasible =>
       \A i \in DOMAIN plan'.rates, r \in failed[plan'.point] : plan'.rates[i] < r]_vars

\* Saving energy never costs capacity: a step of the plan that changes the clocks, or
\* leaves fewer groups, while the present configuration suffices leaves one that carries
\* every demand of the last t_down_s, packed as the solver packs it.
SavesWithinPeak ==
  [][/\ testing' = testing /\ target' # None
     /\ prod' < prod \/ (canary = "active" /\ canary' = "park") \/ working' # working
     /\ Evaluate(Last(window'), Max({Active, 1}), working).feasible
     => \A i \in DOMAIN window' :
          Evaluate(window'[i], Max({1, ActiveOf(prod', canary')}), working').feasible]_vars

\* No flapping: for t_down_s after it woke groups, and while the present configuration
\* suffices, the plan does not leave fewer than it woke.
NoFlapping ==
  [][/\ testing' = testing
     /\ ActiveOf(prod', canary') < Active
     /\ Evaluate(Last(window'), Max({Active, 1}), working).feasible
     => ActiveOf(prod', canary') >= grown.to]_vars
=============================================================================
