----------------------------- MODULE ServeQueue -----------------------------
(***************************************************************************)
(* The waiting requests of the Router's earlier policies, overload: reject  *)
(* and overload: serve (controller/router.py: the second half of step, with *)
(* candidates, try_admit and _release).  There is no line: every waiter     *)
(* polls for itself once per retry period, and step decides from the sets   *)
(* _fresh and _holding whose turn it is.                                    *)
(*                                                                          *)
(* Time is counted in retry periods.  A period ends when every waiter has   *)
(* polled in it; the order of the polls within a period is free.            *)
(***************************************************************************)
EXTENDS Integers, FiniteSets, Sequences, SequencesExt

CONSTANTS
  Waiters,       \* requests
  Groups,        \* P/D groups (fixed pairing)
  NoGroup,
  Unstable,      \* groups that may be drained and come back
  Own,           \* S(L): each request's own prefill time
  Idle,          \* the Canary's idle TTFT at each request's length
  Slo,           \* ttft_slo_ms
  SafeSlack,     \* least slack whose risk is within theta
  BackfillSlack, \* backfill_slack_ms
  MaxWait,       \* max_wait_ms
  HoldMax,       \* hold_max_ms
  Wall           \* decode_max_running

VARIABLES
  policy,   \* settings.overload and settings.doomed
  place,    \* where the task of each request is
  group,    \* the group that serves it
  age,      \* waited_ms
  polled,   \* waiters that polled in this period
  fresh,    \* router._fresh
  holding,  \* router._holding
  expires,  \* router._expires, as the time that is left
  pressure, \* router.pressure: rejections, overflows and held requests
  usable,   \* routable groups (a stale D snapshot has the same effect)
  open      \* router.open_admission (no tier table yet)

tasks == <<place, group>>
time == <<age, polled>>
line == <<fresh, holding, expires>>
environment == <<policy, usable, open>>
vars == <<tasks, time, line, pressure, environment>>

Policies ==
  {[overload |-> "reject", doomed |-> "backfill"],
   [overload |-> "serve", doomed |-> "backfill"],
   [overload |-> "serve", doomed |-> "dispatch"]}

Places == {"new", "waiting", "prefill", "decoding", "done", "rejected", "gone"}

TypeOK ==
  /\ policy \in Policies
  /\ place \in [Waiters -> Places]
  /\ group \in [Waiters -> Groups \cup {NoGroup}]
  /\ age \in [Waiters -> Nat]
  /\ polled \subseteq Waiters
  /\ fresh \subseteq Waiters
  /\ holding \in Seq(Waiters)
  /\ expires \in [Waiters -> Nat]
  /\ pressure \in Nat
  /\ usable \subseteq Groups
  /\ open \in BOOLEAN

Init ==
  /\ policy \in Policies
  /\ place = [w \in Waiters |-> "new"]
  /\ group = [w \in Waiters |-> NoGroup]
  /\ age = [w \in Waiters |-> 0]
  /\ polled = {}
  /\ fresh = {}
  /\ holding = <<>>
  /\ expires = [w \in Waiters |-> 0]
  /\ pressure = 0
  /\ usable = Groups
  /\ open \in BOOLEAN

Waits(w) == place[w] = "waiting"

-----------------------------------------------------------------------------
\* What candidates sees.

Served(g, places) == {w \in Waiters : group[w] = g /\ place[w] \in places}

\* _within_limits: fresh telemetry, and one more request within decode_max_running.
WithinLimits ==
  {g \in usable : Cardinality(Served(g, {"prefill", "decoding"})) + 1 <= Wall}

\* _predict: the request's own prefill behind P's pending work.
Predicted(w, g) == MapThenSumSet(LAMBDA v : Own[v], Served(g, {"prefill"})) + Own[w]

\* candidates(tokens, waited): before the first table any routable group.
Feasible(w, waited) ==
  IF open THEN usable
  ELSE {g \in WithinLimits : Slo - waited - Predicted(w, g) >= SafeSlack}

Nearest(w, groups) ==
  {g \in groups : \A h \in groups : Predicted(w, g) <= Predicted(w, h)}

-----------------------------------------------------------------------------
\* step: the bookkeeping of one poll, before anything is admitted.

Serving == policy.overload = "serve" /\ ~open

PastWait(w) == age[w] + 1 > MaxWait

IsHolder(w) == Serving /\ PastWait(w)

BeginsToHold(w) == IsHolder(w) /\ w \notin Range(holding)

FreshNow(w) ==
  IF BeginsToHold(w) THEN fresh \ {w}
  ELSE IF ~PastWait(w) THEN fresh \cup {w} ELSE fresh

HoldingNow(w) == IF BeginsToHold(w) THEN Append(holding, w) ELSE holding

\* deadline_ms: the SLO less the idle TTFT; a passed deadline counts as zero.
Deadline(w) == Max({0, Slo - Idle[w]})

ExpiresNow(w) ==
  IF BeginsToHold(w) THEN [expires EXCEPT ![w] = Max({0, Deadline(w) - age[w]})]
  ELSE expires

\* Mutant: the head of the expired holders, whoever else holds within its deadline.
OldestExpired(w) ==
  /\ IsHolder(w)
  /\ FreshNow(w) = {}
  /\ LET expired == SelectSeq(HoldingNow(w), LAMBDA v : ExpiresNow(w)[v] <= 0) IN
     expired # <<>> /\ Head(expired) = w

\* Whether this poll may take a group although it cannot meet the SLO any more.
IsHead(w) ==
  /\ IsHolder(w)
  /\ FreshNow(w) = {}
  /\ \/ policy.doomed = "dispatch" /\ Head(HoldingNow(w)) = w
     \/ /\ policy.doomed # "dispatch"
        /\ \A v \in Range(HoldingNow(w)) : ExpiresNow(w)[v] <= 0
        /\ Head(HoldingNow(w)) = w

\* try_admit: what this poll may take, as (kind, group); candidates come first, a
\* holder may be rescued while that meets the SLO, the head is served late.
Offers(w) ==
  LET nearest == Nearest(w, WithinLimits)
      spare == Nearest(w, Feasible(w, BackfillSlack))
      inTime == \A g \in nearest : age[w] + Predicted(w, g) <= Slo
  IN IF Feasible(w, age[w]) # {} THEN {"fits"} \X Feasible(w, age[w])
     ELSE IF ~IsHolder(w) \/ WithinLimits = {} THEN {}
     ELSE IF inTime THEN {"rescue"} \X nearest
     ELSE IF ~IsHead(w) THEN {}
     ELSE IF policy.doomed = "dispatch" THEN {"doomed"} \X nearest
     ELSE {"backfill"} \X spare

\* _release: the waiter leaves every structure.
Released(w, hold) ==
  /\ holding' = RemoveFirst(hold, w)
  /\ expires' = [expires EXCEPT ![w] = 0]
  /\ fresh' = fresh \ {w}

-----------------------------------------------------------------------------
\* Polls.  The first one comes with the request.

MayPoll(w) == place[w] = "new" \/ (Waits(w) /\ w \notin polled)

HeldCount(w) == IF BeginsToHold(w) THEN 1 ELSE 0

Dispatch(w) ==
  /\ MayPoll(w)
  /\ \E offer \in Offers(w) :
       /\ group' = [group EXCEPT ![w] = offer[2]]
       /\ pressure' = pressure + HeldCount(w) + (IF offer[1] = "fits" THEN 0 ELSE 1)
  /\ place' = [place EXCEPT ![w] = "prefill"]
  /\ Released(w, HoldingNow(w))
  /\ UNCHANGED <<time, environment>>

GivesUp(w) == PastWait(w) /\ (~Serving \/ age[w] + 1 > HoldMax)

Reject(w) ==
  /\ MayPoll(w)
  /\ Offers(w) = {}
  /\ GivesUp(w)
  /\ place' = [place EXCEPT ![w] = "rejected"]
  /\ pressure' = pressure + HeldCount(w) + 1
  /\ Released(w, HoldingNow(w))
  /\ UNCHANGED <<group, time, environment>>

KeepWaiting(w) ==
  /\ MayPoll(w)
  /\ Offers(w) = {}
  /\ ~GivesUp(w)
  /\ place' = [place EXCEPT ![w] = "waiting"]
  /\ polled' = polled \cup {w}
  /\ fresh' = FreshNow(w)
  /\ holding' = HoldingNow(w)
  /\ expires' = ExpiresNow(w)
  /\ pressure' = pressure + HeldCount(w)
  /\ UNCHANGED <<group, age, environment>>

\* The client goes away; admit's finally clause releases the waiter.
Cancel(w) ==
  /\ Waits(w)
  /\ place' = [place EXCEPT ![w] = "gone"]
  /\ Released(w, holding)
  /\ UNCHANGED <<group, time, pressure, environment>>

-----------------------------------------------------------------------------
\* Admitted requests, the Controller and time.

Progress(w) ==
  /\ \/ place[w] = "prefill" /\ place' = [place EXCEPT ![w] = "decoding"]
     \/ place[w] \in {"prefill", "decoding"} /\ place' = [place EXCEPT ![w] = "done"]
  /\ UNCHANGED <<group, time, line, pressure, environment>>

GroupChanges(g) ==
  /\ g \in Unstable
  /\ usable' \in {usable \cup {g}, usable \ {g}}
  /\ UNCHANGED <<tasks, time, line, pressure, policy, open>>

Publish ==
  /\ open /\ open' = FALSE
  /\ UNCHANGED <<tasks, time, line, pressure, policy, usable>>

Tick ==
  /\ \E w \in Waiters : Waits(w)
  /\ \A w \in Waiters : Waits(w) => w \in polled
  /\ polled' = {}
  /\ age' = [w \in Waiters |-> IF Waits(w) THEN age[w] + 1 ELSE age[w]]
  /\ expires' = [w \in Waiters |-> Max({0, expires[w] - 1})]
  /\ UNCHANGED <<tasks, fresh, holding, pressure, environment>>

Next ==
  \/ \E w \in Waiters :
       Dispatch(w) \/ Reject(w) \/ KeepWaiting(w) \/ Cancel(w) \/ Progress(w)
  \/ \E g \in Groups : GroupChanges(g)
  \/ Publish
  \/ Tick

Spec == Init /\ [][Next]_vars

-----------------------------------------------------------------------------
\* Properties.

\* _fresh and _holding part the waiting requests between them, without one twice; a
\* request that was served, turned away or cancelled is in neither, where it would
\* keep late requests from their turn for ever (step, _release, admit).
NoResidue ==
  /\ fresh \cap Range(holding) = {}
  /\ fresh \cup Range(holding) = {w \in Waiters : Waits(w)}
  /\ IsInjective(holding)

\* A request that cannot meet the SLO any more, and is not judged safe, takes a group
\* only when every other waiting request is past its deadline too, and none of them
\* waits longer: late requests never stand before one that can still be served in time,
\* and go oldest first (step; doomed: backfill).
DoomedLast ==
  [][\A w \in Waiters :
       /\ policy.doomed = "backfill" /\ ~open
       /\ place[w] \in {"new", "waiting"} /\ place'[w] = "prefill"
       /\ age[w] + Predicted(w, group'[w]) > Slo
       /\ group'[w] \notin Feasible(w, age[w])
       => \A v \in Waiters \ {w} :
            Waits(v) => age[v] >= Deadline(v) /\ age[v] <= age[w]]_vars

\* Nobody waits longer than its policy allows, across the first published table, at
\* which a request under the short budget becomes a holder (step).
WaitBounded ==
  \A w \in Waiters :
    Waits(w) => age[w] <= IF policy.overload = "serve" THEN HoldMax ELSE MaxWait

\* A holder is turned away only when somebody else waits for the same capacity, or no
\* idle group within the limits could take it with the backfill slack: the rules that
\* keep late requests back do not end in refusing one that nobody was in the way of
\* (step, try_admit).
NoIdleReject ==
  [][\A w \in Waiters :
       Serving /\ Waits(w) /\ place'[w] = "rejected" =>
         \/ \E v \in Waiters \ {w} : Waits(v)
         \/ \A g \in WithinLimits :
              \/ Served(g, {"prefill", "decoding"}) # {}
              \/ policy.doomed = "backfill" /\ Slo - BackfillSlack - Own[w] < SafeSlack]_vars
=============================================================================
