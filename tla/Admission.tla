----------------------------- MODULE Admission -----------------------------
(***************************************************************************)
(* Admission under each value of settings.overload: the line of best_effort *)
(* (AdmissionQueue), or the waiting sets of reject and serve (ServeQueue).  *)
(* A Router runs one of them; the variables of the other stay as they begin,*)
(* where nothing of it is obliged to happen.                                *)
(***************************************************************************)
EXTENDS AdmissionQueue

CONSTANTS  \* of ServeQueue
  Callers,   \* its requests
  Pairs,     \* its groups
  Drainable, \* those that may be drained and come back
  Own, Idle, Slo, SafeSlack, BackfillSlack, MaxWait, HoldMax, Wall

VARIABLES
  bestEffort, \* which of the two
  policy, at, on, age, polled, fresh, holding, expires, pressure, serving, cold

SQ == INSTANCE ServeQueue WITH
  Waiters <- Callers, Groups <- Pairs, Unstable <- Drainable,
  place <- at, group <- on, usable <- serving, open <- cold

\* A request may be held for the SLO at least, and its wait under the short budget lies
\* within the SLO: config.yaml:137 (hold_max_ms, "the client's timeout") and :117
\* (max_wait_ms, "bounded wait inside the TTFT budget").
ASSUME ServeAssumption ==
  /\ IsFiniteSet(Callers)
  /\ IsFiniteSet(Pairs) /\ NoGroup \notin Pairs
  /\ Drainable \subseteq Pairs
  /\ Own \in [Callers -> Nat]
  /\ Idle \in [Callers -> Nat]
  /\ SafeSlack \in Int /\ BackfillSlack \in Nat
  /\ MaxWait \in Nat /\ Slo \in Nat /\ HoldMax \in Nat
  /\ MaxWait <= Slo /\ Slo <= HoldMax
  /\ Wall \in Nat

serveVars ==
  <<policy, at, on, age, polled, fresh, holding, expires, pressure, serving, cold>>

AdmissionInit ==
  /\ bestEffort \in BOOLEAN
  /\ Init
  /\ SQ!Init /\ (bestEffort => ~cold /\ policy.overload = "reject")

LineStep == bestEffort /\ Next /\ UNCHANGED <<bestEffort, serveVars>>

ServeStep == ~bestEffort /\ SQ!Next /\ UNCHANGED <<bestEffort, vars>>

AdmissionNext == LineStep \/ ServeStep

AdmissionSpec == AdmissionInit /\ [][AdmissionNext]_<<bestEffort, vars, serveVars>>

AdmissionFairSpec == AdmissionSpec /\ Polls

-----------------------------------------------------------------------------
\* What reject and serve promise: a late request goes last and the oldest of them first,
\* nobody is refused whom nobody was in the way of, nobody waits beyond the limit, and
\* a request that no longer waits leaves no trace (ServeQueue).
ServePromises ==
  SQ!DoomedLast /\ SQ!NoIdleReject /\ [](SQ!WaitBounded /\ SQ!NoResidue)
=============================================================================
