-------------------------- MODULE RequestLifecycle --------------------------
(***************************************************************************)
(* One admitted request from its reservation to its release: the Router's  *)
(* ledger (controller/router.py: _issue, prefill_done, first_token,        *)
(* finish), the proxy handler that drives it (proxy/proxy.py: handle and   *)
(* its stream() generator), and the Controller steps that read the ledger  *)
(* or stamp it (clock changes, draining, parking, waking).                 *)
(*                                                                         *)
(* Everything runs on one event loop: an action is the code between two    *)
(* awaits.  Token counts and prefill costs are small numbers; latency      *)
(* values, the risk table's contents and the log are left out.             *)
(***************************************************************************)
EXTENDS Integers, FiniteSets, FiniteSetsExt

CONSTANTS
  Requests,   \* production requests the Router admits
  Groups,     \* P/D groups
  NoGroup,    \* the group of a request that was not admitted yet
  Streams,    \* requests with "stream": true
  Exact,      \* requests whose prompt length is known exactly
  Tokens,     \* prompt tokens of each request
  Costs,      \* values the prefill cost S(L) takes over the clock points
  Dynamic,    \* pairing: dynamic (the D may be another group's) or fixed
  MaxEpoch    \* bound: no clock change or wake starts at a higher clock epoch

ASSUME ConstantsAssumption ==
  /\ NoGroup \notin Groups
  /\ IsFiniteSet(Requests)
  /\ Streams \subseteq Requests
  /\ Exact \subseteq Requests
  /\ Tokens \in [Requests -> Nat \ {0}]
  /\ Costs \subseteq Nat
  /\ Dynamic \in BOOLEAN
  /\ MaxEpoch \in Nat

VARIABLES
  at,         \* where the handler of each request is suspended
  pg, dg,     \* ticket.group and ticket.dgroup
  stage,      \* ticket.stage ("none" before admission)
  gotFirst,   \* requests with ticket.first_token_at set
  own,        \* ticket.s_own_ms: the prefill cost reserved at admission
  pEpoch,     \* ticket.clock_epoch
  dEpoch,     \* ticket.decode_epoch
  samples,    \* requests recorded as clean samples (table.record)
  nAtP, pendingMs, nAwait, tAwait, kvInflight, nDecoding, nInflight,
              \* the Group counters
  gstate,     \* Group.state
  pointed,    \* groups whose `effective` point is not None
  epoch,      \* router.clock_epochs
  changing,   \* set_tier calls of each group that wait for the agents
  crossed     \* observation: requests in flight when a change began or ended

tickets  == <<pg, dg, stage, gotFirst, own, pEpoch, dEpoch>>
counters == <<nAtP, pendingMs, nAwait, tAwait, kvInflight, nDecoding, nInflight>>
clocks   == <<gstate, pointed, epoch, changing>>
vars == <<at, tickets, samples, counters, clocks, crossed>>

Places == {"new", "prefill", "decode_call", "reading", "streaming",
           "cleanup", "closed"}
Stages == {"none", "prefill", "transfer", "decode", "done"}

Live(r) == stage[r] \in {"prefill", "transfer", "decode"}

\* The requests a counter of group g stands for.
AtP(g)      == {r \in Requests : pg[r] = g /\ stage[r] = "prefill"}
Awaiting(g) == {r \in Requests : dg[r] = g /\ stage[r] \in {"prefill", "transfer"}}
InTransfer(g) == {r \in Requests : dg[r] = g /\ stage[r] = "transfer"}
Decoding(g) == {r \in Requests : dg[r] = g /\ stage[r] = "decode"}
InFlight(g) == {r \in Requests : Live(r) /\ (pg[r] = g \/ dg[r] = g)}

TypeOK ==
  /\ at \in [Requests -> Places]
  /\ pg \in [Requests -> Groups \cup {NoGroup}]
  /\ dg \in [Requests -> Groups \cup {NoGroup}]
  /\ stage \in [Requests -> Stages]
  /\ gotFirst \subseteq Requests
  /\ own \in [Requests -> Nat]
  /\ pEpoch \in [Requests -> Nat]
  /\ dEpoch \in [Requests -> Nat]
  /\ samples \subseteq Requests
  /\ nAtP \in [Groups -> Int]
  /\ pendingMs \in [Groups -> Int]
  /\ nAwait \in [Groups -> Int]
  /\ tAwait \in [Groups -> Int]
  /\ kvInflight \in [Groups -> Int]
  /\ nDecoding \in [Groups -> Int]
  /\ nInflight \in [Groups -> Int]
  /\ gstate \in [Groups -> {"active", "draining", "park"}]
  /\ pointed \subseteq Groups
  /\ epoch \in [Groups -> Nat]
  /\ changing \in [Groups -> Nat]
  /\ crossed \subseteq Requests

Init ==
  /\ at = [r \in Requests |-> "new"]
  /\ pg = [r \in Requests |-> NoGroup]
  /\ dg = [r \in Requests |-> NoGroup]
  /\ stage = [r \in Requests |-> "none"]
  /\ gotFirst = {}
  /\ own = [r \in Requests |-> 0]
  /\ pEpoch = [r \in Requests |-> 0]
  /\ dEpoch = [r \in Requests |-> 0]
  /\ samples = {}
  /\ nAtP = [g \in Groups |-> 0]
  /\ pendingMs = [g \in Groups |-> 0]
  /\ nAwait = [g \in Groups |-> 0]
  /\ tAwait = [g \in Groups |-> 0]
  /\ kvInflight = [g \in Groups |-> 0]
  /\ nDecoding = [g \in Groups |-> 0]
  /\ nInflight = [g \in Groups |-> 0]
  /\ gstate = [g \in Groups |-> "active"]
  /\ pointed = Groups
  /\ epoch = [g \in Groups |-> 0]
  /\ changing = [g \in Groups |-> 0]
  /\ crossed = {}

-----------------------------------------------------------------------------
\* The Router's ledger.

Floor0(x) == IF x < 0 THEN 0 ELSE x

Routable(g) == gstate[g] = "active" /\ g \in pointed

Routes == {route \in Groups \X Groups :
             /\ Dynamic \/ route[1] = route[2]
             /\ Routable(route[1]) /\ Routable(route[2])}

\* _issue: the reservation of route (p, d); c is S(L) at p's clock point now.
Reserve(r, p, d, c) ==
  /\ pg' = [pg EXCEPT ![r] = p]
  /\ dg' = [dg EXCEPT ![r] = d]
  /\ stage' = [stage EXCEPT ![r] = "prefill"]
  /\ own' = [own EXCEPT ![r] = c]
  /\ pEpoch' = [pEpoch EXCEPT ![r] = epoch[p]]
  /\ dEpoch' = [dEpoch EXCEPT ![r] = epoch[d]]
  /\ nAtP' = [nAtP EXCEPT ![p] = @ + 1]
  /\ pendingMs' = [pendingMs EXCEPT ![p] = @ + c]
  /\ nAwait' = [nAwait EXCEPT ![d] = @ + 1]
  /\ tAwait' = [tAwait EXCEPT ![d] = @ + Tokens[r]]
  /\ nInflight' = [g \in Groups |->
                     IF g \in {p, d} THEN nInflight[g] + 1 ELSE nInflight[g]]
  /\ UNCHANGED <<gotFirst, kvInflight, nDecoding>>

\* Mutant: S(L) is looked up again, at the clock point of now.
LeavePrefillRecosted(r) ==
  /\ nAtP' = [g \in Groups |->
                IF pg[r] = g /\ stage[r] = "prefill" THEN nAtP[g] - 1 ELSE nAtP[g]]
  /\ \E c \in Costs :
       pendingMs' = [g \in Groups |->
                       IF pg[r] = g /\ stage[r] = "prefill"
                       THEN Floor0(pendingMs[g] - c) ELSE pendingMs[g]]

\* _leave_stage: give back what the current stage holds.
LeavePrefill(r) ==
  /\ nAtP' = [g \in Groups |->
                IF pg[r] = g /\ stage[r] = "prefill" THEN nAtP[g] - 1 ELSE nAtP[g]]
  /\ pendingMs' = [g \in Groups |->
                     IF pg[r] = g /\ stage[r] = "prefill"
                     THEN Floor0(pendingMs[g] - own[r]) ELSE pendingMs[g]]

KvAfterLeaving(r) ==
  [g \in Groups |-> IF dg[r] = g /\ stage[r] = "transfer"
                    THEN Floor0(kvInflight[g] - Tokens[r]) ELSE kvInflight[g]]

DecodingAfterLeaving(r) ==
  [g \in Groups |-> IF dg[r] = g /\ stage[r] = "decode"
                    THEN nDecoding[g] - 1 ELSE nDecoding[g]]

\* The part of first_token and finish that ends the wait for D's first token.
StopAwaiting(r) ==
  /\ nAwait' = [g \in Groups |->
                  IF dg[r] = g /\ r \notin gotFirst THEN nAwait[g] - 1 ELSE nAwait[g]]
  /\ tAwait' = [g \in Groups |->
                  IF dg[r] = g /\ r \notin gotFirst
                  THEN tAwait[g] - Tokens[r] ELSE tAwait[g]]

\* prefill_done
PrefillDone(r) ==
  /\ LeavePrefill(r)
  /\ stage' = [stage EXCEPT ![r] = "transfer"]
  /\ kvInflight' = [kvInflight EXCEPT ![dg[r]] = @ + Tokens[r]]
  /\ UNCHANGED <<pg, dg, gotFirst, own, pEpoch, dEpoch, nAwait, tAwait,
                 nDecoding, nInflight>>

\* first_token, for the first chunk that carries a token
TokenSeen(r) ==
  /\ StopAwaiting(r)
  /\ LeavePrefill(r)
  /\ kvInflight' = KvAfterLeaving(r)
  /\ nDecoding' = [DecodingAfterLeaving(r) EXCEPT ![dg[r]] = @ + 1]
  /\ stage' = [stage EXCEPT ![r] = "decode"]
  /\ gotFirst' = gotFirst \cup {r}
  /\ UNCHANGED <<pg, dg, own, pEpoch, dEpoch, nInflight>>

\* Mutant: only the epoch of P is compared.
CleanAtP(r, status) ==
  /\ status = "ok"
  /\ r \in gotFirst
  /\ r \in Exact
  /\ epoch[pg[r]] = pEpoch[r]

\* finish: the sample of r is clean
Clean(r, status) ==
  /\ status = "ok"
  /\ r \in gotFirst
  /\ r \in Exact
  /\ epoch[pg[r]] = pEpoch[r]
  /\ epoch[dg[r]] = dEpoch[r]

\* Mutant: only P's group forgets the request.
ReleaseAtP(r, status) ==
  /\ StopAwaiting(r)
  /\ LeavePrefill(r)
  /\ kvInflight' = KvAfterLeaving(r)
  /\ nDecoding' = DecodingAfterLeaving(r)
  /\ nInflight' = [nInflight EXCEPT ![pg[r]] = @ - 1]
  /\ stage' = [stage EXCEPT ![r] = "done"]
  /\ samples' = IF Clean(r, status) THEN samples \cup {r} ELSE samples
  /\ UNCHANGED <<pg, dg, gotFirst, own, pEpoch, dEpoch>>

Release(r, status) ==
  /\ StopAwaiting(r)
  /\ LeavePrefill(r)
  /\ kvInflight' = KvAfterLeaving(r)
  /\ nDecoding' = DecodingAfterLeaving(r)
  /\ nInflight' = [g \in Groups |->
                     IF g \in {pg[r], dg[r]} THEN nInflight[g] - 1 ELSE nInflight[g]]
  /\ stage' = [stage EXCEPT ![r] = "done"]
  /\ samples' = IF Clean(r, status) THEN samples \cup {r} ELSE samples
  /\ UNCHANGED <<pg, dg, gotFirst, own, pEpoch, dEpoch>>

Finished(r) == stage[r] = "done"

\* Mutant: finish releases whatever was finished before.
FinishAgain(r, status) == Release(r, status)

\* finish: a second call is a no-op
Finish(r, status) ==
  \/ ~Finished(r) /\ Release(r, status)
  \/ Finished(r) /\ UNCHANGED <<tickets, counters, samples>>

-----------------------------------------------------------------------------
\* The proxy handler: one action per stretch of code between two awaits.

Go(r, place) == at' = [at EXCEPT ![r] = place]

\* admit returned a ticket; the handler posts to P.
Admit(r) ==
  /\ at[r] = "new"
  /\ \E route \in Routes, c \in Costs :
       Reserve(r, route[1], route[2], c)
  /\ Go(r, "prefill")
  /\ UNCHANGED <<samples, clocks, crossed>>

\* As Admit, but X-Request-Id is refused: reserved and finished at once.
AdmitBadRequest(r) ==
  /\ at[r] = "new"
  /\ \E route \in Routes :
       /\ pg' = [pg EXCEPT ![r] = route[1]]
       /\ dg' = [dg EXCEPT ![r] = route[2]]
  /\ stage' = [stage EXCEPT ![r] = "done"]
  /\ Go(r, "closed")
  /\ UNCHANGED <<gotFirst, own, pEpoch, dEpoch, samples, counters, clocks,
                 crossed>>

\* P answered 200 with the KV hand-off; the handler sends the decode request.
PrefillReturns(r) ==
  /\ at[r] = "prefill"
  /\ PrefillDone(r)
  /\ Go(r, "decode_call")
  /\ UNCHANGED <<samples, clocks, crossed>>

\* P answered another status or no usable hand-off, or the call failed.  (With
\* a 200 the code passes through prefill_done first and gives the KV back at once.)
PrefillFails(r) ==
  /\ at[r] = "prefill"
  /\ Finish(r, "prefill_error")
  /\ Go(r, "cleanup")
  /\ UNCHANGED <<clocks, crossed>>

\* D accepted a streaming request: the response owns the ticket from here on.
StreamHandedOff(r) ==
  /\ at[r] = "decode_call" /\ r \in Streams
  /\ Go(r, "streaming")
  /\ UNCHANGED <<tickets, counters, samples, clocks, crossed>>

\* D accepted a non-streaming request: the handler reads the whole body.
BodyRead(r) ==
  /\ at[r] = "decode_call" /\ r \notin Streams
  /\ Go(r, "reading")
  /\ UNCHANGED <<tickets, counters, samples, clocks, crossed>>

\* D refused, sent no event stream, or the call (or the read) failed.
DecodeFails(r) ==
  /\ at[r] \in {"decode_call", "reading"}
  /\ Finish(r, "decode_error")
  /\ Go(r, "cleanup")
  /\ UNCHANGED <<clocks, crossed>>

BodyComplete(r) ==
  /\ at[r] = "reading"
  /\ Finish(r, "ok")
  /\ Go(r, "cleanup")
  /\ UNCHANGED <<clocks, crossed>>

\* handle is cancelled at an await: nothing finished the request yet, the
\* handler's finally clause first closes its clients.
Cancelled(r) ==
  /\ at[r] \in {"prefill", "decode_call", "reading"}
  /\ Go(r, "cleanup")
  /\ UNCHANGED <<tickets, counters, samples, clocks, crossed>>

\* Mutant: the finally clause only closes the clients.
FinallyWithoutFinish(r) ==
  /\ at[r] = "cleanup"
  /\ Go(r, "closed")
  /\ UNCHANGED <<tickets, counters, samples, clocks, crossed>>

\* The finally clause of handle: finish again, whatever happened before.
Finally(r) ==
  /\ at[r] = "cleanup"
  /\ Finish(r, "client_disconnected")
  /\ Go(r, "closed")
  /\ UNCHANGED <<clocks, crossed>>

\* stream(): the first chunk with a token (first_token returns early later on).
FirstToken(r) ==
  /\ at[r] = "streaming"
  /\ r \notin gotFirst /\ ~Finished(r)
  /\ TokenSeen(r)
  /\ UNCHANGED <<at, samples, clocks, crossed>>

\* stream() ends: complete, on a D error, or closed by a client that left.
StreamEnds(r) ==
  /\ at[r] = "streaming"
  /\ \E status \in {"ok", "decode_error", "client_disconnected"} : Finish(r, status)
  /\ Go(r, "closed")
  /\ UNCHANGED <<clocks, crossed>>

HandlerStep(r) ==
  \/ PrefillReturns(r) \/ PrefillFails(r)
  \/ StreamHandedOff(r) \/ BodyRead(r) \/ BodyComplete(r) \/ DecodeFails(r)
  \/ Finally(r) \/ StreamEnds(r)

-----------------------------------------------------------------------------
\* The Controller: clock changes and the life of a group.

\* set_tier up to its gather: the epoch moves, Park takes the point away.
BeginChange(g, park) ==
  /\ epoch' = [epoch EXCEPT ![g] = @ + 1]
  /\ changing' = [changing EXCEPT ![g] = @ + 1]
  /\ pointed' = IF park THEN pointed \ {g} ELSE pointed
  /\ crossed' = crossed \cup InFlight(g)
  /\ UNCHANGED <<at, tickets, samples, counters>>

\* A change of the working point of a group that serves or drains.
ChangeClocks(g) ==
  /\ gstate[g] # "park" /\ epoch[g] < MaxEpoch
  /\ BeginChange(g, FALSE)
  /\ UNCHANGED gstate

\* set_tier after its gather: the epoch moves again; a point that was lost comes
\* back when both locks held and the tier was not changed meanwhile.
EndChange(g) ==
  /\ changing[g] > 0
  /\ epoch' = [epoch EXCEPT ![g] = @ + 1]
  /\ changing' = [changing EXCEPT ![g] = @ - 1]
  /\ \E ok \in BOOLEAN :
       pointed' = IF ok /\ gstate[g] # "park" THEN pointed \cup {g} ELSE pointed
  /\ crossed' = crossed \cup InFlight(g)
  /\ UNCHANGED <<at, tickets, samples, counters, gstate>>

\* The task that runs set_tier is cancelled inside its gather (canary abort).
CancelChange(g) ==
  /\ changing[g] > 0 /\ gstate[g] # "park"
  /\ changing' = [changing EXCEPT ![g] = @ - 1]
  /\ UNCHANGED <<at, tickets, samples, counters, gstate, pointed, epoch,
                 crossed>>

\* The plan gives a group up, or the Canary is to explore.
Drain(g) ==
  /\ gstate[g] = "active"
  /\ gstate' = [gstate EXCEPT ![g] = "draining"]
  /\ UNCHANGED <<at, tickets, samples, counters, pointed, epoch, changing,
                 crossed>>

\* Full effort, or the end of a drain that took too long.
Undrain(g) ==
  /\ gstate[g] = "draining"
  /\ gstate' = [gstate EXCEPT ![g] = "active"]
  /\ UNCHANGED <<at, tickets, samples, counters, pointed, epoch, changing,
                 crossed>>

\* Mutant: the drain looks at the requests at P only.
FinishDrainingAtP(g) ==
  /\ gstate[g] = "draining" /\ nAtP[g] = 0
  /\ gstate' = [gstate EXCEPT ![g] = "park"]
  /\ BeginChange(g, TRUE)

\* _finish_draining: nothing in flight any more, park.
FinishDraining(g) ==
  /\ gstate[g] = "draining" /\ nInflight[g] = 0
  /\ gstate' = [gstate EXCEPT ![g] = "park"]
  /\ BeginChange(g, TRUE)

\* wake
Wake(g) ==
  /\ gstate[g] = "park" /\ epoch[g] < MaxEpoch
  /\ gstate' = [gstate EXCEPT ![g] = "active"]
  /\ BeginChange(g, FALSE)

RequestStep(r) ==
  \/ Admit(r) \/ AdmitBadRequest(r) \/ HandlerStep(r)
  \/ Cancelled(r) \/ FirstToken(r)

ControllerStep(g) ==
  \/ ChangeClocks(g) \/ EndChange(g) \/ CancelChange(g)
  \/ Drain(g) \/ Undrain(g) \/ FinishDraining(g) \/ Wake(g)

Next ==
  \/ \E r \in Requests : RequestStep(r)
  \/ \E g \in Groups : ControllerStep(g)

Spec == Init /\ [][Next]_vars

\* Every call to P or D ends: httpx bounds it by request_timeout_s.  The agents
\* answer set_tier or its HTTP client times out.  tick() runs every period_s.
FairSpec ==
  /\ Spec
  /\ \A r \in Requests : WF_vars(HandlerStep(r))
  /\ \A g \in Groups : WF_vars(EndChange(g)) /\ WF_vars(FinishDraining(g))

-----------------------------------------------------------------------------
\* Properties.

\* The four request counters of a group are exactly the requests they stand for,
\* whatever error, cancellation or double finish() ends a request: group choice,
\* the KV and slot gates and the drain decide on these counters alone
\* (router.py _issue, _leave_stage, first_token, finish).
CountersExact ==
  \A g \in Groups :
    /\ nAtP[g] = Cardinality(AtP(g))
    /\ nAwait[g] = Cardinality(Awaiting(g))
    /\ nDecoding[g] = Cardinality(Decoding(g))
    /\ nInflight[g] = Cardinality(InFlight(g))

\* The sums a group keeps are the sums over the same requests: prompt tokens that
\* wait for a first token, KV tokens in transfer, and the pending prefill cost as
\* reserved at admission (clocks may have changed since); the max(0, ...) of
\* _leave_stage never hides a difference.
SumsExact ==
  \A g \in Groups :
    /\ tAwait[g] = MapThenSumSet(LAMBDA r : Tokens[r], Awaiting(g))
    /\ kvInflight[g] = MapThenSumSet(LAMBDA r : Tokens[r], InTransfer(g))
    /\ pendingMs[g] = MapThenSumSet(LAMBDA r : own[r], AtP(g))

\* A group that was parked (_finish_draining saw n_inflight = 0) has no handler
\* that still uses its P or D or has still to release a reservation on it.
ParkedIdle ==
  \A g \in Groups, r \in Requests :
    gstate[g] = "park" /\ g \in {pg[r], dg[r]} => at[r] = "closed" \/ Finished(r)

\* A request that was in flight when a clock change of its P's or D's group began
\* or ended is never recorded as a clean sample (finish against set_tier's two
\* epoch bumps), however many changes overlap and even if one is cancelled.
NoSampleAcrossChange == samples \cap crossed = {}

\* Every reservation is given back in the end: no error path, cancellation or
\* abandoned stream of proxy.handle keeps a request in flight for ever.
EventuallyReleased == \A r \in Requests : Live(r) ~> Finished(r)

\* A group that drains becomes idle and is parked, unless it is taken back:
\* _finish_draining waits for nothing that need not happen.
DrainEnds ==
  \A g \in Groups : gstate[g] = "draining" ~> gstate[g] # "draining"
=============================================================================
