----------------------------- MODULE ClockPlans -----------------------------
(***************************************************************************)
(* The points production runs at: the plan that chooses them (Planner) and  *)
(* the commands that set them (ClockControl).  A behaviour is one of either;*)
(* the other stays as it begins.                                            *)
(***************************************************************************)
EXTENDS ClockControl, FiniteSets

CONSTANTS  \* of Planner
  PClocks, DClocks, Work, Alpha, Delta, Tokens, Running, PowerP, PowerD, ParkPower,
  Groups, MinGroups, Rates, Hold, MaxFails, None

VARIABLES
  planning, \* which of the two
  bestEffort, window, working, prod, canary, plan, held, target, caps, capacity, verified,
  testing, failed, grown

PL == INSTANCE Planner

\* With the Canary exploring there are still min_active_groups to plan for: without them
\* solve raises its ValueError (models.py).  A switch waits for t_down_s, which is not zero.
ASSUME PlannerAssumption ==
  /\ IsFiniteSet(PClocks) /\ PClocks # {} /\ PClocks \subseteq Nat
  /\ IsFiniteSet(DClocks) /\ DClocks # {} /\ DClocks \subseteq Nat
  /\ Work \in [PClocks -> Nat]
  /\ Alpha \in [DClocks -> Nat] /\ Delta \in [DClocks -> Nat]
  /\ Running \in [DClocks -> Nat \ {0}]
  /\ Tokens \in Nat /\ ParkPower \in Nat
  /\ PowerP \in [PClocks -> Nat \X Nat] /\ PowerD \in [DClocks -> Nat \X Nat]
  /\ Groups \in Nat /\ MinGroups \in Nat /\ 1 <= MinGroups /\ MinGroups < Groups
  /\ IsFiniteSet(Rates) /\ Rates # {} /\ Rates \subseteq Nat
  /\ Hold \in Nat /\ Hold > 0
  /\ None \notin Nat /\ None \notin Nat \X (PClocks \X DClocks)
  /\ None \notin [point : PClocks \X DClocks, rate : Nat]

plans ==
  <<bestEffort, window, working, prod, canary, plan, held, target, caps, capacity,
    verified, testing, failed, grown>>

PointsInit ==
  /\ planning \in BOOLEAN
  /\ Init
  /\ PL!Init /\ (~planning => bestEffort)

ClockStep == ~planning /\ Next /\ UNCHANGED <<planning, plans>>

PlanStep == planning /\ PL!Next /\ UNCHANGED <<planning, vars>>

PointsNext == ClockStep \/ PlanStep

PointsSpec == PointsInit /\ [][PointsNext]_<<planning, vars, plans>>

-----------------------------------------------------------------------------
\* A rate a point failed at is not planned for it again (Planner).
FailedRatesAvoided == PL!FailedRatesAvoided

\* Groups are parked, and clocks changed, only if the rest carries the peak (Planner).
SavesWithinPeak == PL!SavesWithinPeak

\* The plan does not take back at once what it woke (Planner).
NoFlapping == PL!NoFlapping
=============================================================================
