-------------------------- MODULE MCAdmissionQueue --------------------------
(***************************************************************************)
(* A small instance of Admission for TLC: for the line, one prompt larger   *)
(* than the gate and two below it; for the waiting sets, three requests of  *)
(* two lengths and one group that is drained and comes back.                *)
(***************************************************************************)
EXTENDS Admission, TLC

CONSTANTS big, w1, w2, w3

MCSize == [w \in Waiters |-> IF w = big THEN 5 ELSE 2]
MCOwn == w1 :> 1 @@ w2 :> 2 @@ w3 :> 1
MCIdle == w1 :> 1 @@ w2 :> 2 @@ w3 :> 2
=============================================================================
