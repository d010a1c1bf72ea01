---------------------------- MODULE ClockControl ----------------------------
(***************************************************************************)
(* How the clock point of one production group is changed: set_tier calls  *)
(* of several tasks (controller/tier_controller.py), the HTTP commands     *)
(* they send to the GPU agents (infrastructure/clocks.py, five seconds to  *)
(* answer) and the agents that execute them one at a time per GPU          *)
(* (infrastructure/gpu_agent.py).                                          *)
(*                                                                         *)
(* A command whose caller timed out or was cancelled is lost or is         *)
(* executed later; commands for one GPU are executed in the order they     *)
(* were sent, and the event loop sees their answers in that order.         *)
(***************************************************************************)
EXTENDS Integers, Sequences, SequencesExt

CONSTANTS
  Calls,      \* set_tier calls that may be in flight at once
  Nobody,     \* the caller of a command nobody waits for
  NoPoint,    \* `effective` is None
  HPoints,    \* the points tier H stands for (table, then a working point, ...)
  MaxPoint, ParkPoint,
  MaxQueue    \* bound: no call begins while a GPU has this many commands queued

Gpus   == {"prefill", "decode"}
Tiers  == {"MAX", "H", "PARK"}
Points == HPoints \cup {MaxPoint, ParkPoint}
Mhz    == {p[g] : p \in Points, g \in Gpus}

ASSUME ClocksAssumption ==
  /\ Points \subseteq [Gpus -> Nat]
  /\ NoPoint \notin [Gpus -> Nat]
  /\ Nobody \notin Calls
  /\ MaxQueue \in Nat

VARIABLES
  tier,       \* group.tier
  effective,  \* group.effective, the point the Router assumes
  retry,      \* the group has an entry in _retry
  call,       \* what each call in flight is to set and what it waits for
  queue,      \* commands each GPU's agent has not executed yet
  clock,      \* the clock each GPU is locked at
  rivals,     \* observation: a call began while one of the same tier was in flight
  gaveUp      \* observation: a call was cancelled

vars == <<tier, effective, retry, call, queue, clock, rivals, gaveUp>>

Idle == [tier |-> "PARK", target |-> ParkPoint, old |-> NoPoint, ok |-> TRUE, waits |-> {}]
InFlight(c) == call[c].waits # {}

\* self.tiers.clocks
Targets(t) == CASE t = "MAX" -> {MaxPoint} [] t = "PARK" -> {ParkPoint} [] OTHER -> HPoints

Lower(m, n) == IF m <= n THEN m ELSE n
Slower(p, q) == [g \in Gpus |-> Lower(p[g], q[g])]

\* Cold start: MAX was locked and confirmed.
Init ==
  /\ tier = "MAX" /\ effective = MaxPoint /\ retry = FALSE
  /\ call = [c \in Calls |-> Idle]
  /\ queue = [g \in Gpus |-> <<>>]
  /\ clock = MaxPoint
  /\ rivals = FALSE /\ gaveUp = FALSE

\* set_tier up to its gather: the Router sees the slower point, both commands
\* are sent.
PointWhileChanging(t, p) ==
  IF t = "PARK" \/ effective = NoPoint THEN NoPoint ELSE Slower(effective, p)

Begin(c, t, p) ==
  /\ ~InFlight(c)
  /\ \A g \in Gpus : Len(queue[g]) < MaxQueue
  /\ tier' = t
  /\ effective' = PointWhileChanging(t, p)
  /\ call' = [call EXCEPT ![c] = [tier |-> t, target |-> p, old |-> effective,
                                  ok |-> TRUE, waits |-> Gpus]]
  /\ queue' = [g \in Gpus |-> Append(queue[g], [caller |-> c, mhz |-> p[g]])]
  /\ rivals' = (rivals \/ \E d \in Calls : InFlight(d) /\ call[d].tier = t)
  /\ UNCHANGED <<retry, clock, gaveUp>>

\* Mutant: whatever was set meanwhile.
StaysCurrent(k) == TRUE
\* set_tier knows whether a later call replaced it by the tier alone.
StillCurrent(k) == tier = k.tier

\* A failed call keeps the conservative point, or none.
PointAfter(k) ==
  CASE k.tier = "PARK"                                   -> effective
    [] k.tier # "PARK" /\ k.ok                            -> k.target
    [] k.tier # "PARK" /\ ~k.ok /\ k.old # NoPoint        -> Slower(k.old, k.target)
    [] k.tier # "PARK" /\ ~k.ok /\ k.old = NoPoint        -> effective

\* Mutant: a failure only keeps an entry that was there.
RetryWasThere(k) == retry /\ ~k.ok
RetryAfter(k) == ~k.ok

\* set_tier after its gather.
Conclude(k) ==
  IF StillCurrent(k) THEN effective' = PointAfter(k) /\ retry' = RetryAfter(k)
                     ELSE UNCHANGED <<effective, retry>>

\* One of the two answers of a call: the last one concludes it.
Answer(c, g, ok) ==
  LET k == [call[c] EXCEPT !.ok = @ /\ ok, !.waits = @ \ {g}] IN
    /\ call' = [call EXCEPT ![c] = IF k.waits = {} THEN Idle ELSE k]
    /\ IF k.waits = {} THEN Conclude(k) ELSE UNCHANGED <<effective, retry>>

\* The agent executes the oldest command of a GPU, confirmed or not, or it
\* fails, with or without effect on the clock.
Execute(g) ==
  /\ queue[g] # <<>>
  /\ LET cmd == Head(queue[g]) IN
       \E ok \in BOOLEAN :
         /\ clock' \in {[clock EXCEPT ![g] = cmd.mhz]} \cup (IF ok THEN {} ELSE {clock})
         /\ IF cmd.caller = Nobody THEN UNCHANGED <<call, effective, retry>>
                                   ELSE Answer(cmd.caller, g, ok)
  /\ queue' = [queue EXCEPT ![g] = Tail(@)]
  /\ UNCHANGED <<tier, rivals, gaveUp>>

\* What becomes of the commands of a call that stopped waiting for them.
Disowned(c, cmds) ==
  [i \in DOMAIN cmds |-> IF cmds[i].caller = c THEN [cmds[i] EXCEPT !.caller = Nobody]
                                               ELSE cmds[i]]
Dropped(c, cmds) == RemoveAt(cmds, CHOOSE i \in DOMAIN cmds : cmds[i].caller = c)

\* The actuator's request fails or times out: _lock returns False.
NoAnswer(c, g) ==
  /\ g \in call[c].waits
  /\ \E left \in {Disowned(c, queue[g]), Dropped(c, queue[g])} :
       queue' = [queue EXCEPT ![g] = left]
  /\ Answer(c, g, FALSE)
  /\ UNCHANGED <<tier, clock, rivals, gaveUp>>

\* The task that runs set_tier is cancelled (an experiment that publishes).
Cancel(c) ==
  /\ InFlight(c)
  /\ \E lost \in SUBSET call[c].waits :
       queue' = [g \in Gpus |-> IF g \in lost THEN Dropped(c, queue[g])
                                              ELSE Disowned(c, queue[g])]
  /\ call' = [call EXCEPT ![c] = Idle]
  /\ gaveUp' = TRUE
  /\ UNCHANGED <<tier, effective, retry, clock, rivals>>

Next ==
  \/ \E c \in Calls, t \in Tiers : \E p \in Targets(t) : Begin(c, t, p)
  \/ \E g \in Gpus : Execute(g)
  \/ \E c \in Calls : Cancel(c) \/ \E g \in Gpus : NoAnswer(c, g)

Spec == Init /\ [][Next]_vars

-----------------------------------------------------------------------------
Command == [caller : Calls \cup {Nobody}, mhz : Mhz]
Reached == [Gpus -> Mhz]   \* points made of the clocks of several points

TypeOK ==
  /\ tier \in Tiers /\ effective \in Reached \cup {NoPoint}
  /\ retry \in BOOLEAN /\ rivals \in BOOLEAN /\ gaveUp \in BOOLEAN
  /\ call \in [Calls -> [tier : Tiers, target : Points, old : Reached \cup {NoPoint},
                         ok : BOOLEAN, waits : SUBSET Gpus]]
  /\ queue \in [Gpus -> Seq(Command)]
  /\ clock \in Reached

\* No clock a GPU has, or is about to get, is lower than the Router assumes.
Covered(g) ==
  /\ effective[g] <= clock[g]
  /\ \A i \in DOMAIN queue[g] : effective[g] <= queue[g][i].mhz

\* Not so when two calls of one tier overlap (tier_controller.py:232).
\* Group.effective "is the slower of old and new while a change is in flight":
\* it never promises a clock the GPUs do not have.
PointIsSafe == effective # NoPoint => \A g \in Gpus : Covered(g)

\* ... which failures, time-outs, commands executed long after their caller gave
\* up, cancellations and overlapping calls do not break, as long as no two
\* calls of one tier overlap (set_tier knows a later call by its tier only).
SafeWithoutRivals == rivals \/ PointIsSafe

\* A lock that failed is not forgotten: when no call is in flight and none was
\* cancelled, the group has a point of its tier, or is to be locked again.
FailuresRetried ==
  (\A c \in Calls : ~InFlight(c)) /\ ~gaveUp
    => retry \/ tier = "PARK" \/ effective \in Targets(tier)

=============================================================================
