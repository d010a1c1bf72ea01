------------------------------ MODULE Feedback ------------------------------
(***************************************************************************)
(* Best effort under pressure (tier_controller.py, _feedback_control): what *)
(* production shows is a warning, pressure or a severe backlog; pressure    *)
(* that lasts is answered in stages, by waking groups, by redirecting new   *)
(* requests away from the groups that show it, and at last by full effort;  *)
(* a quiet time brings the energy mode back.                                *)
(*                                                                          *)
(* Time is counted in periods of the control loop; a pressure event wakes   *)
(* the loop in between.  Clock locks succeed at once (ClockControl), a group*)
(* parks at once, and an experiment is only its being under way             *)
(* (CanaryControl).                                                         *)
(***************************************************************************)
EXTENDS Integers, FiniteSets, FiniteSetsExt

CONSTANTS
  Groups, Canary,
  Confirm,   \* confirm_s
  Window,    \* confirm_window_s
  MinTicks,  \* ticks the window must hold to confirm pressure by its share
  Grace,     \* expansion_grace_s
  Down,      \* t_down_s
  MinStay,   \* full_effort_min_s
  Cool,      \* feedback_window_s
  MaxTicks   \* bound: ticks of the loop per period

VARIABLES
  weather,  \* what the environment will do from here on: anything, calm or storm
  state,    \* Group.state: active, park or explore
  cooled,   \* periods until a group has room again
  mode,     \* mode
  full,     \* _full_effort
  ticks,    \* _pressure_ticks: age -> the ticks of that age, all and with pressure
  since,    \* periods since pressure began (confirm), a severe backlog began (severe),
            \* the last pressure, the last warning, expansion and full effort; or Never
  redirected, \* _redirected_at is not None
  reason,   \* why full effort was entered: severe, decode or pressure
  fresh     \* history: production showed pressure since the last expansion or redirect

control == <<mode, full, reason, ticks, since, redirected>>
vars == <<weather, state, cooled, control, fresh>>

Never == 99

\* A time that is only compared with a limit is kept up to the limit.
Older(age, d, limit) ==
  IF age = Never THEN Never ELSE IF age + d > limit THEN limit ELSE age + d

Idle == [all |-> 0, hot |-> 0]

Init ==
  /\ weather = "any"
  /\ state = [g \in Groups |-> "active"]
  /\ cooled = [g \in Groups |-> 0]
  /\ mode = "energy" /\ full = FALSE /\ reason = "none"
  /\ ticks = [a \in 0..Window |-> Idle]
  /\ since = [confirm |-> Never, severe |-> Never, pressure |-> Down, warning |-> Down,
              expanded |-> Never, full |-> 0]
  /\ redirected = FALSE
  /\ fresh = FALSE

-----------------------------------------------------------------------------
\* What one tick reads from the Router: warn (risk signals), level (near-SLO, or a
\* backlog of twice the SLO), old (near-SLO samples from before the expansion or of
\* requests admitted before the redirect), shown (groups with near-SLO requests of their
\* own), exhausted (the D capacity trigger), less (the offered rate fell below the exit
\* share of what it was) and idle (there is a tier table, or no request in flight).
\* What a tick does not look at is not varied: old samples under pressure, the groups
\* that show it and the load outside their stages.
Levels == {"none", "near", "severe"}

Signals ==
  [warn : BOOLEAN, exhausted : BOOLEAN,
   level : IF weather = "calm" THEN {"none"}
           ELSE IF weather = "storm" THEN Levels \ {"none"} ELSE Levels,
   old : IF mode = "expanding" THEN BOOLEAN ELSE {FALSE},
   shown : IF full THEN {{}} ELSE SUBSET Groups,
   less : IF full THEN BOOLEAN ELSE {FALSE}, idle : IF full THEN BOOLEAN ELSE {FALSE}]

Possible(s) ==
  CASE weather = "calm" ->
         ~s.warn /\ ~s.old /\ s.shown = {} /\ ~s.exhausted /\ (full => s.less /\ s.idle)
    [] weather = "storm" -> ~s.less /\ ~s.idle
    [] OTHER -> s.old => s.level = "none"

\* production_feedback: while an expansion is judged only what came after it counts.
Pressure(s) == s.level # "none" \/ (s.old /\ mode # "expanding")

-----------------------------------------------------------------------------
\* The bookkeeping at the start of a tick, d periods after the last one.

ConfirmAge(s, d) ==
  IF ~Pressure(s) THEN Never
  ELSE IF since.confirm = Never THEN 0 ELSE Older(since.confirm, d, Confirm)

SevereAge(s, d) ==
  IF s.level # "severe" THEN Never
  ELSE IF since.severe = Never THEN 0 ELSE Older(since.severe, d, Confirm)

\* Mutant: full effort itself counts as pressure.
PressureAgeInFull(s, d) ==
  IF Pressure(s) \/ s.exhausted \/ full THEN 0 ELSE Older(since.pressure, d, Down)

PressureAge(s, d) ==
  IF Pressure(s) \/ s.exhausted THEN 0 ELSE Older(since.pressure, d, Down)

WarningAge(s, d) == IF s.warn THEN 0 ELSE Older(since.warning, d, Down)

ExpandedAge(d) == Older(since.expanded, d, Grace)

TicksNow(s, d) ==
  LET kept == [a \in 0..Window |-> CASE a >= d -> ticks[a - d] [] OTHER -> Idle] IN
  [kept EXCEPT ![0] =
    [all |-> @.all + 1, hot |-> @.hot + (IF Pressure(s) THEN 1 ELSE 0)]]

\* confirm_fraction: three fifths of the ticks in the window.
Mostly(now) ==
  LET all == MapThenSumSet(LAMBDA a : now[a].all, 0..Window)
      hot == MapThenSumSet(LAMBDA a : now[a].hot, 0..Window)
  IN all >= MinTicks /\ 5 * hot >= 3 * all

Confirmed(s, d) ==
  \/ ConfirmAge(s, d) # Never /\ ConfirmAge(s, d) >= Confirm
  \/ Mostly(TicksNow(s, d))

Emergency(s, d) == SevereAge(s, d) # Never /\ SevereAge(s, d) >= Confirm

\* The mode once the warning and the pressure are noted.
Noted(s) ==
  CASE Pressure(s) /\ mode \in {"energy", "warning"} -> "confirming"
    [] s.warn /\ ~Pressure(s) /\ mode = "energy" -> "warning"
    [] OTHER -> mode

\* The times after the tick, with those of the stage it decided on.
Times(s, d, confirm, expanded, effort) ==
  since' = [confirm |-> confirm, severe |-> SevereAge(s, d),
            pressure |-> PressureAge(s, d), warning |-> WarningAge(s, d),
            expanded |-> expanded, full |-> effort]

Cooler(d) == [g \in Groups |-> Max({0, cooled[g] - d})]

Judged(s) == fresh' = (fresh \/ Pressure(s))

Keep(s, d) ==
  /\ Judged(s)
  /\ mode' = Noted(s)
  /\ Times(s, d, ConfirmAge(s, d), ExpandedAge(d), Older(since.full, d, MinStay))
  /\ cooled' = Cooler(d)
  /\ UNCHANGED <<full, reason, redirected, state>>

-----------------------------------------------------------------------------
\* The stages.

\* _enter_full_effort: everything but a running experiment serves at MAX.  Every tick in
\* full effort does it again.
Everyone == [g \in Groups |-> IF state[g] = "explore" THEN "explore" ELSE "active"]

EnterFull(s, d, why) ==
  /\ mode' = "full_effort" /\ full' = TRUE /\ reason' = why
  /\ redirected' = FALSE
  /\ state' = Everyone
  /\ Times(s, d, ConfirmAge(s, d), ExpandedAge(d), 0)
  /\ Judged(s)

QuietFor(s, d) == ~Pressure(s) /\ PressureAge(s, d) >= Down

\* Leaving needs quiet, the minimum stay, less load than at the start, no experiment
\* and, on a cold start, no request in flight.
MayLeave(s, d) ==
  /\ QuietFor(s, d)
  /\ Older(since.full, d, MinStay) >= MinStay
  /\ s.less
  /\ \A g \in Groups : Everyone[g] # "explore"
  /\ s.idle

StayInFull(s, d) ==
  /\ full /\ ~MayLeave(s, d)
  /\ mode' = "full_effort"
  /\ redirected' = FALSE
  /\ state' = Everyone
  /\ Times(s, d, ConfirmAge(s, d), ExpandedAge(d), Older(since.full, d, MinStay))
  /\ cooled' = Cooler(d)
  /\ Judged(s)
  /\ UNCHANGED <<full, reason>>

Recovered(s, d) ==
  /\ mode' = "energy" /\ full' = FALSE /\ reason' = "none" /\ redirected' = FALSE
  /\ Judged(s)
  /\ Times(s, d, ConfirmAge(s, d), Never, 0)
  /\ cooled' = Cooler(d)

LeaveFull(s, d) ==
  /\ full /\ MayLeave(s, d)
  /\ Recovered(s, d)
  /\ state' = Everyone

\* A severe backlog that lasts, or no D that can take more: at once, from any stage.
EmergencyFull(s, d) ==
  /\ ~full
  /\ Emergency(s, d) \/ s.exhausted
  /\ EnterFull(s, d, IF Emergency(s, d) THEN "severe" ELSE "decode")
  /\ cooled' = Cooler(d)

\* Not in full effort and not forced into it.
Staged(s, d) == ~full /\ ~Emergency(s, d) /\ ~s.exhausted

\* Pressure lasts beyond the grace of an expansion or a redirect.
Insufficient(s, d) ==
  /\ mode = "expanding"
  /\ ExpandedAge(d) >= Grace
  /\ Confirmed(s, d)

AllServe == \A g \in Groups : state[g] # "park"

NothingToExpand(s, d) == mode # "expanding" /\ Confirmed(s, d) /\ AllServe

\* _redirect: the groups that show pressure have no room for a feedback window.
CooledBy(s, d) == [g \in Groups |-> IF g \in s.shown THEN Cool ELSE Cooler(d)[g]]

Room(s, d) == \E g \in Groups : state[g] = "active" /\ CooledBy(s, d)[g] = 0

Redirects(s, d) ==
  \/ NothingToExpand(s, d)
  \/ Insufficient(s, d) /\ redirected

CanRedirect(s, d) == Redirects(s, d) /\ s.shown # {} /\ Room(s, d)

Redirect(s, d) ==
  /\ Staged(s, d) /\ CanRedirect(s, d)
  /\ mode' = "expanding" /\ redirected' = TRUE
  /\ cooled' = CooledBy(s, d)
  /\ Times(s, d, Never, 0, 0)
  /\ fresh' = FALSE
  /\ UNCHANGED <<full, reason, state>>

\* Neither an expansion nor a redirect is left; the attempt has cooled the groups.
LastResort(s, d) ==
  /\ Staged(s, d)
  /\ Insufficient(s, d) \/ NothingToExpand(s, d)
  /\ ~CanRedirect(s, d)
  /\ EnterFull(s, d, "pressure")
  /\ cooled' = IF Redirects(s, d) THEN CooledBy(s, d) ELSE Cooler(d)

\* _expand_capacity: at least one group more, production before the Canary; how many is
\* the measured capacity's answer.
Expand(s, d) ==
  /\ Staged(s, d)
  /\ mode # "expanding" /\ Confirmed(s, d) /\ ~AllServe
  /\ LET parked == {g \in Groups : state[g] = "park"} IN
     \E woken \in SUBSET parked :
       /\ woken # {} /\ (Canary \in woken => woken = parked)
       /\ state' = [g \in Groups |-> IF g \in woken THEN "active" ELSE state[g]]
  /\ mode' = "expanding"
  /\ cooled' = Cooler(d)
  /\ Times(s, d, Never, 0, 0)
  /\ fresh' = FALSE
  /\ UNCHANGED <<full, reason, redirected>>

\* The time of the last warning holds back the return from a warning only.
Calmed(s, d) ==
  /\ QuietFor(s, d)
  /\ Noted(s) \in {"warning", "confirming"} => WarningAge(s, d) >= Down

Waiting(s, d) ==
  /\ Staged(s, d)
  /\ \/ mode = "expanding" /\ ~(ExpandedAge(d) >= Grace)
     \/ /\ ~Confirmed(s, d)
        /\ mode = "expanding" => ExpandedAge(d) >= Grace
        /\ ~Calmed(s, d)
  /\ Keep(s, d)

Recover(s, d) ==
  /\ Staged(s, d) /\ ~Confirmed(s, d)
  /\ mode = "expanding" => ExpandedAge(d) >= Grace
  /\ Calmed(s, d)
  /\ Recovered(s, d)
  /\ UNCHANGED state

Decide(s, d) ==
  \/ StayInFull(s, d) \/ LeaveFull(s, d) \/ EmergencyFull(s, d)
  \/ Redirect(s, d) \/ LastResort(s, d) \/ Expand(s, d)
  \/ Waiting(s, d) \/ Recover(s, d)

\* run: the loop ticks every period, and at once when production signals pressure.
Tick(s, d) ==
  /\ Possible(s)
  /\ d = 0 => (s.level # "none" \/ s.warn) /\ ticks[0].all < MaxTicks
  /\ ticks' = TicksNow(s, d)
  /\ Decide(s, d)
  /\ UNCHANGED weather

TickNow == \E s \in Signals : Tick(s, 0)

TickAfterPeriod == \E s \in Signals : Tick(s, 1)

\* The plan, in a mode in which it runs, drains and parks a group.
Parks(g) ==
  /\ mode \in {"energy", "warning", "confirming"}
  /\ state[g] = "active" /\ \E h \in Groups \ {g} : state[h] = "active"
  /\ state' = [state EXCEPT ![g] = "park"]
  /\ UNCHANGED <<weather, cooled, control, fresh>>

ExperimentBegins ==
  /\ ~full
  /\ state[Canary] # "explore" /\ \E g \in Groups \ {Canary} : state[g] = "active"
  /\ state' = [state EXCEPT ![Canary] = "explore"]
  /\ UNCHANGED <<weather, cooled, control, fresh>>

\* It ends by itself or is aborted.
ExperimentEnds ==
  /\ state[Canary] = "explore"
  /\ state' = [state EXCEPT ![Canary] = "active"]
  /\ UNCHANGED <<weather, cooled, control, fresh>>

\* From now on production is calm for good, or overloaded for good.
Turns ==
  /\ weather = "any"
  /\ weather' \in {"calm", "storm"}
  /\ UNCHANGED <<state, cooled, control, fresh>>

Next ==
  \/ TickNow \/ TickAfterPeriod
  \/ \E g \in Groups : Parks(g)
  \/ ExperimentBegins \/ ExperimentEnds
  \/ Turns

\* The loop keeps ticking, and an experiment ends: it finishes or full effort aborts it.
Keeps == WF_vars(TickAfterPeriod) /\ WF_vars(ExperimentEnds)

Spec == Init /\ [][Next]_vars

FairSpec == Spec /\ Keeps

-----------------------------------------------------------------------------
\* Properties.

\* Once production is calm and the load gone, the cluster comes back to saving energy
\* from every stage, whatever was under way: nothing in full effort keeps it there
\* (the reclaim retried on every tick, an experiment that still runs, a cold start).
Recovers == weather = "calm" ~> mode = "energy"

\* Pressure that does not end is answered: from every stage, and although expansions
\* and redirects reset the confirmation, the cluster reaches full effort or serves
\* around the groups that show the pressure.
Answered == weather = "storm" ~> (full \/ redirected)

\* README.md:171: "After `expansion_grace_s`, persistent fresh feedback triggers
\* `full_effort`", and tests/test_router_controller.py:822: "Old pre-expansion samples
\* alone cannot trigger MAX, even after the grace period."
FreshEvidence ==
  [][mode = "expanding" /\ ~full /\ full' /\ reason' = "pressure" => fresh']_vars
=============================================================================
