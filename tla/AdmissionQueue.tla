--------------------------- MODULE AdmissionQueue ---------------------------
(***************************************************************************)
(* The waiting line in front of the Router under overload: best_effort      *)
(* (controller/router.py: admit, step, _release, and what candidates,       *)
(* try_admit and _admit_baseline let through), with the KV bytes in flight  *)
(* that its gate reads.                                                     *)
(*                                                                          *)
(* Every waiter is a task that runs step() and sleeps retry_period; the     *)
(* order in which sleeping tasks wake is free.  The predictions behind the  *)
(* SLO warning are a choice: a request may be judged safe or not.           *)
(***************************************************************************)
EXTENDS Integers, FiniteSets, Sequences, SequencesExt

CONSTANTS
  Waiters,   \* requests
  Groups,    \* P/D groups (fixed pairing)
  NoGroup,
  Unstable,  \* groups that may stop or start to be usable
  Size,      \* KV of each request's prompt
  Gate,      \* kv_fraction x kv_buffer_bytes
  Fill,      \* group_choice: fill (no KV gate in baseline mode)
  ColdStart  \* no tier table is published when the Router starts

ASSUME QueueAssumption ==
  /\ NoGroup \notin Groups
  /\ Unstable \subseteq Groups
  /\ Size \in [Waiters -> Nat \ {0}]
  /\ Gate \in Nat \ {0}
  /\ Fill \in BOOLEAN
  /\ ColdStart \in BOOLEAN

VARIABLES
  place,      \* where the task of each request is
  group,      \* the group that serves it
  queue,      \* router._queue
  waiting,    \* keys of router._waiting_since
  signalled,  \* router._signalled
  signals,    \* router.risk_signals
  rejections, \* router.rejections
  kv,         \* Group.inflight_bytes
  usable,     \* routable groups with fresh telemetry and D below the KV wall
  routable,   \* Group.routable
  baseline,   \* router.baseline_mode (full effort)
  open        \* router.open_admission (no tier table yet)

tasks == <<place, group, kv>>
line == <<queue, waiting, signalled>>
counts == <<signals, rejections>>
environment == <<usable, routable, baseline, open>>
vars == <<tasks, line, counts, environment>>

Places == {"new", "waiting", "prefill", "transfer", "done", "rejected", "gone"}

TypeOK ==
  /\ place \in [Waiters -> Places]
  /\ group \in [Waiters -> Groups \cup {NoGroup}]
  /\ queue \in Seq(Waiters)
  /\ waiting \subseteq Waiters
  /\ signalled \subseteq Waiters
  /\ signals \in Nat
  /\ rejections \in Nat
  /\ kv \in [Groups -> Nat]
  /\ usable \subseteq routable
  /\ routable \subseteq Groups
  /\ baseline \in BOOLEAN
  /\ open \in BOOLEAN

Init ==
  /\ place = [w \in Waiters |-> "new"]
  /\ group = [w \in Waiters |-> NoGroup]
  /\ queue = <<>>
  /\ waiting = {}
  /\ signalled = {}
  /\ signals = 0
  /\ rejections = 0
  /\ kv = [g \in Groups |-> 0]
  /\ usable = Groups
  /\ routable = Groups
  /\ baseline = FALSE
  /\ open = ColdStart

-----------------------------------------------------------------------------
\* Mutant: the gate without its exemption.
KvBlockedAlways(w, g) == kv[g] + Size[w] > Gate

\* _kv_blocked: a request alone on an empty link is never blocked.
KvBlocked(w, g) ==
  \/ kv[g] >= Gate
  \/ kv[g] > 0 /\ kv[g] + Size[w] > Gate

\* Group g is within the hard limits for w: _admit_baseline in baseline mode, any
\* routable group at cold start, else _within_limits of candidates.
Room(w, g) ==
  \/ baseline /\ g \in usable /\ (Fill \/ ~KvBlocked(w, g))
  \/ ~baseline /\ open /\ g \in routable
  \/ ~baseline /\ ~open /\ g \in usable /\ ~KvBlocked(w, g)

SomeRoom(w) == \E g \in Groups : Room(w, g)

\* candidates() found a group it predicts to be safe.  It need not, even with room;
\* at cold start every routable group counts as safe.
MayBeSafe(w, safe) ==
  /\ safe => SomeRoom(w)
  /\ open /\ SomeRoom(w) => safe

\* The first attempt of a request appends it to the queue.
Enqueued(w) == IF w \in Range(queue) THEN queue ELSE Append(queue, w)

\* Mutant: whoever polls first is served.
AnyoneIsFront(w) == TRUE

IsFront(w) == Head(Enqueued(w)) = w

\* The SLO warning of step, once per waiting request; baseline mode predicts nothing.
Warns(w) ==
  /\ ~baseline /\ w \notin signalled
  /\ \E safe \in BOOLEAN : MayBeSafe(w, safe) /\ ~safe

MayStaySilent(w) ==
  \/ baseline \/ w \in signalled
  \/ \E safe \in BOOLEAN : MayBeSafe(w, safe) /\ safe

\* _release: the waiter leaves every structure.
Released(w, q) ==
  /\ queue' = RemoveFirst(q, w)
  /\ waiting' = waiting \ {w}
  /\ signalled' = signalled \ {w}

\* step: w is the front and some group has room (the choice among them is free).
TakeGroup(w) ==
  /\ place[w] \in {"new", "waiting"}
  /\ IsFront(w)
  /\ \E g \in Groups :
       /\ Room(w, g)
       /\ group' = [group EXCEPT ![w] = g]
  /\ place' = [place EXCEPT ![w] = "prefill"]
  /\ \/ Warns(w) /\ signals' = signals + 1
     \/ MayStaySilent(w) /\ signals' = signals
  /\ Released(w, Enqueued(w))
  /\ UNCHANGED <<kv, rejections, environment>>

\* Mutant: a poll that warned is not remembered.
KeepWaitingUnmarked(w) ==
  /\ place[w] \in {"new", "waiting"}
  /\ ~(IsFront(w) /\ SomeRoom(w))
  /\ place' = [place EXCEPT ![w] = "waiting"]
  /\ queue' = Enqueued(w)
  /\ waiting' = waiting \cup {w}
  /\ signals' = IF Warns(w) THEN signals + 1 ELSE signals
  /\ signals < 5
  /\ UNCHANGED <<group, kv, signalled, rejections, environment>>

\* step: w is not the front, or no group has room; it sleeps and tries again.
KeepWaiting(w) ==
  /\ place[w] \in {"new", "waiting"}
  /\ ~(IsFront(w) /\ SomeRoom(w))
  /\ place' = [place EXCEPT ![w] = "waiting"]
  /\ queue' = Enqueued(w)
  /\ waiting' = waiting \cup {w}
  /\ \/ Warns(w) /\ signals' = signals + 1 /\ signalled' = signalled \cup {w}
     \/ MayStaySilent(w) /\ UNCHANGED <<signals, signalled>>
  /\ UNCHANGED <<group, kv, rejections, environment>>

\* step: waited hold_max.
TimeOut(w) ==
  /\ place[w] = "waiting"
  /\ place' = [place EXCEPT ![w] = "rejected"]
  /\ Released(w, queue)
  /\ rejections' = rejections + 1
  /\ UNCHANGED <<group, kv, signals, environment>>

\* Mutant: admit without its finally clause.
CancelKeepsPlace(w) ==
  /\ place[w] = "waiting"
  /\ place' = [place EXCEPT ![w] = "gone"]
  /\ UNCHANGED <<group, kv, line, counts, environment>>

\* The task is cancelled in its sleep; admit's finally clause releases the waiter.
Cancel(w) ==
  /\ place[w] = "waiting"
  /\ place' = [place EXCEPT ![w] = "gone"]
  /\ Released(w, queue)
  /\ UNCHANGED <<group, kv, counts, environment>>

\* prefill_done: only now does the request's KV count as in flight.
PrefillDone(w) ==
  /\ place[w] = "prefill"
  /\ place' = [place EXCEPT ![w] = "transfer"]
  /\ kv' = [kv EXCEPT ![group[w]] = @ + Size[w]]
  /\ UNCHANGED <<group, line, counts, environment>>

PrefillFails(w) ==
  /\ place[w] = "prefill"
  /\ place' = [place EXCEPT ![w] = "done"]
  /\ UNCHANGED <<group, kv, line, counts, environment>>

\* First token, or the end of the request.
KvArrived(w) ==
  /\ place[w] = "transfer"
  /\ place' = [place EXCEPT ![w] = "done"]
  /\ kv' = [kv EXCEPT ![group[w]] = Max({0, @ - Size[w]})]
  /\ UNCHANGED <<group, line, counts, environment>>

-----------------------------------------------------------------------------
\* The Controller and the telemetry around the queue.

\* A group is drained, parked, woken or re-locked; its D scrape goes stale or back.
GroupChanges(g) ==
  /\ g \in Unstable
  /\ \E r \in {routable \cup {g}, routable \ {g}} :
       /\ routable' = r
       /\ usable' \in {(usable \ {g}) \cap r, (usable \cup {g}) \cap r}
  /\ UNCHANGED <<tasks, line, counts, baseline, open>>

\* Full effort begins or ends.
ModeChanges ==
  /\ baseline' = ~baseline
  /\ UNCHANGED <<tasks, line, counts, usable, routable, open>>

Publish ==
  /\ open /\ open' = FALSE
  /\ UNCHANGED <<tasks, line, counts, usable, routable, baseline>>

WaiterStep(w) == TakeGroup(w) \/ KeepWaiting(w)

RequestStep(w) == PrefillDone(w) \/ PrefillFails(w) \/ KvArrived(w)

Next ==
  \/ \E w \in Waiters : WaiterStep(w) \/ TimeOut(w) \/ Cancel(w) \/ RequestStep(w)
  \/ \E g \in Groups : GroupChanges(g)
  \/ ModeChanges
  \/ Publish

Spec == Init /\ [][Next]_vars

\* A waiter polls again after retry_period; an admitted request gets its answer or
\* an error (RequestLifecycle).  Nothing obliges the timeout to come, nor a request
\* to arrive.
Polls ==
  \A w \in Waiters :
    /\ WF_vars(place[w] = "waiting" /\ TakeGroup(w))
    /\ WF_vars(RequestStep(w))

FairSpec == Spec /\ Polls

-----------------------------------------------------------------------------
\* Properties.

\* The three structures of the line hold exactly the requests whose task waits: a
\* served, timed-out or cancelled request leaves nothing behind that would block
\* the front for ever or count as an unfinished wait (step, _release, admit).
NoResidue ==
  LET sleeping == {w \in Waiters : place[w] = "waiting"} IN
  /\ Range(queue) = sleeping /\ Len(queue) = Cardinality(sleeping)
  /\ waiting = sleeping
  /\ signalled \subseteq sleeping

\* However often it polls, one request raises at most one risk signal: pressure
\* counts requests, not polls (step, signal_pressure).
OneSignalPerRequest ==
  signals <= Cardinality({w \in Waiters : place[w] # "new"})

\* Admission is the FIFO line of WaitingLine, in every mode and across its changes.
Line == INSTANCE WaitingLine WITH
          line <- queue,
          outcome <- [w \in Waiters |->
                        CASE place[w] = "new" -> "outside"
                          [] place[w] = "waiting" -> "in_line"
                          [] place[w] \in {"rejected", "gone"} -> "left"
                          [] OTHER -> "served"]

ServesLine == Line!LineSpec

\* The front is served without help from the timeout, even when its prompt is larger
\* than the KV gate: nobody overtakes it, so the link empties (step, _kv_blocked).
FrontServed == Line!FairLineSpec

\* Not so, as requests at P are not counted (router.py:475).  router.py:40: "Reservations
\* are taken synchronously inside the event loop, so two requests can never both see the
\* same free slot", and router.py:7 lists among the hard guards that the KV bytes in
\* flight stay below the gate.  One larger prompt alone on its link is allowed.
KvWithinGate ==
  \A g \in Groups :
    kv[g] > Gate =>
      Cardinality({w \in Waiters : group[w] = g /\ place[w] = "transfer"}) <= 1
=============================================================================
