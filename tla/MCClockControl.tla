--------------------------- MODULE MCClockControl ---------------------------
(***************************************************************************)
(* ClockControl: two points for tier H that differ in both clocks, in      *)
(* opposite order.  Planner: two clocks per side; a group carries 3, 4 or  *)
(* 5 units of rate, three of them the demands up to 12, none of them more. *)
(***************************************************************************)
EXTENDS ClockPlans, TLC

At(p, d) == [g \in {"prefill", "decode"} |-> IF g = "prefill" THEN p ELSE d]
MCPark == At(0, 0)
MCMax  == At(3, 3)
MCH    == {At(1, 2), At(2, 1)}

Symmetry == Permutations(Calls)

\* Both observations once made stay, and excuse both properties: nothing is left to see.
Observed == ~(rivals /\ gaveUp)

MCWork == 1 :> 30 @@ 2 :> 20
MCAlpha == 1 :> 60 @@ 2 :> 20
MCDelta == 1 :> 10 @@ 2 :> 5
MCRunning == 1 :> 4 @@ 2 :> 4
MCPowerP == 1 :> <<10, 20>> @@ 2 :> <<20, 40>>
MCPowerD == 1 :> <<10, 20>> @@ 2 :> <<15, 40>>

\* Doubling and bisection find the largest feasible rate (Solver.capacity), as
\* CapacityFound of ClockControl_proofs says for all constants.
ASSUME CapacityIsFound ==
  \A pt \in PL!Points, cap \in {None} \cup 0..7 :
    PL!SearchedCapacity(pt, cap) = PL!CapacityOf(pt, cap)
=============================================================================
