------------------------------ MODULE LoadRun ------------------------------
(***************************************************************************)
(* The load generator (loadgen.py): plays a trace against the proxy, one   *)
(* task per request, polls the agents, asks the Canary for a recheck, and  *)
(* stops.  A step is the code between two awaits; when a time comes is     *)
(* free, but for the order of the trace.                                   *)
(***************************************************************************)
EXTENDS Integers, FiniteSets

CONSTANT
  Requests,  \* length of the trace
  MaxAsks    \* bound: rechecks the Canary starts

Trace == 1..Requests

VARIABLES
  stage,      \* of run: play, drain, settle, stop or over
  sent,       \* requests sent so far
  task,       \* of a request: none, running, ended or cancelled
  pending,    \* the tasks whose done callback has not run
  rows,       \* lines of requests.jsonl
  unfinished, \* as run.json will have it
  ask,        \* the action task: waiting, asking, done or cancelled
  started,    \* rechecks the Canary started for it
  poller      \* the background poller: on, or ended

tasks == <<task, pending, rows>>
action == <<ask, started>>
vars == <<stage, sent, tasks, unfinished, action, poller>>

Init ==
  /\ stage = "play" /\ sent = 0
  /\ task = [i \in Trace |-> "none"] /\ pending = {}
  /\ rows = [i \in Trace |-> 0]
  /\ unfinished = 0
  /\ ask = "waiting" /\ started = 0
  /\ poller = "on"

-----------------------------------------------------------------------------
\* run: the trace.

\* The next arrival is sent at its time, whether or not earlier ones were answered.
SendNext ==
  /\ stage = "play" /\ sent < Requests
  /\ sent' = sent + 1
  /\ task' = [task EXCEPT ![sent + 1] = "running"]
  /\ pending' = pending \cup {sent + 1}
  /\ UNCHANGED <<stage, rows, unfinished, action, poller>>

\* The trace is over; what runs gets drain_timeout_s.
PlayedOut ==
  /\ stage = "play" /\ sent = Requests
  /\ stage' = "drain"
  /\ UNCHANGED <<sent, tasks, unfinished, action, poller>>

\* cancel() of a task that has ended does nothing.
CancelAll ==
  /\ task' = [i \in Trace |-> IF task[i] = "running" THEN "cancelled" ELSE task[i]]
  /\ ask' = IF ask = "done" THEN "done" ELSE "cancelled"

\* Mutant: counts after the cancelled tasks have left the set.
DrainCountsLate ==
  /\ stage = "drain"
  /\ unfinished' = 0
  /\ CancelAll
  /\ stage' = "settle"
  /\ UNCHANGED <<sent, pending, rows, started, poller>>

\* All requests have ended, or the time is over: what is pending is counted, cancelled
\* and waited for.
DrainEnds ==
  /\ stage = "drain"
  /\ unfinished' = Cardinality(pending)
  /\ CancelAll
  /\ stage' = "settle"
  /\ UNCHANGED <<sent, pending, rows, started, poller>>

\* gather returns; the poller is told to stop.
Settled ==
  /\ stage = "settle" /\ \A i \in Trace : task[i] # "running"
  /\ ask \in {"done", "cancelled"}
  /\ stage' = "stop"
  /\ UNCHANGED <<sent, tasks, unfinished, action, poller>>

PollerEnds ==
  /\ stage = "stop" /\ poller = "on"
  /\ poller' = "ended"
  /\ UNCHANGED <<stage, sent, tasks, unfinished, action>>

\* run.json is written.
Finish ==
  /\ stage = "stop" /\ poller = "ended"
  /\ stage' = "over"
  /\ UNCHANGED <<sent, tasks, unfinished, action, poller>>

-----------------------------------------------------------------------------
\* send: the stream ends, the request is refused, or any error but a cancellation.
RequestEnds(i) ==
  /\ task[i] = "running"
  /\ task' = [task EXCEPT ![i] = "ended"]
  /\ rows' = [rows EXCEPT ![i] = @ + 1]
  /\ UNCHANGED <<stage, sent, pending, unfinished, action, poller>>

\* The done callback, in a later turn of the loop than the task's end.
Discarded(i) ==
  /\ i \in pending /\ task[i] \in {"ended", "cancelled"}
  /\ pending' = pending \ {i}
  /\ UNCHANGED <<stage, sent, task, rows, unfinished, action, poller>>

-----------------------------------------------------------------------------
\* _action: asks every 5 s until the Canary starts or the phase is over.

PhaseBegins ==
  /\ ask = "waiting"
  /\ ask' = "asking"
  /\ UNCHANGED <<stage, sent, tasks, unfinished, started, poller>>

\* The Canary starts, and its answer arrives or is lost (HTTP timeout).
Accepted(lost) ==
  /\ ask = "asking" /\ started < MaxAsks
  /\ started' = started + 1
  /\ ask' = IF lost THEN "asking" ELSE "done"
  /\ UNCHANGED <<stage, sent, tasks, unfinished, poller>>

PhaseEnds ==
  /\ ask = "asking"
  /\ ask' = "done"
  /\ UNCHANGED <<stage, sent, tasks, unfinished, started, poller>>

Next ==
  \/ SendNext \/ PlayedOut \/ DrainEnds \/ Settled \/ PollerEnds \/ Finish
  \/ \E i \in Trace : RequestEnds(i) \/ Discarded(i)
  \/ PhaseBegins \/ PhaseEnds
  \/ \E lost \in BOOLEAN : Accepted(lost)

Spec == Init /\ [][Next]_vars

-----------------------------------------------------------------------------
\* When run.json is written nothing runs that could still record, no request has two
\* lines, and each without one is among the unfinished: a comparison of two runs loses
\* no request silently (run, send).
RunAccounted ==
  stage = "over" =>
    /\ sent = Requests /\ poller = "ended"
    /\ \A i \in Trace : task[i] \in {"ended", "cancelled"} /\ rows[i] <= 1
    /\ Cardinality({i \in Trace : rows[i] = 0}) <= unfinished

\* Not so: loadgen.py:16, "one line per request as the client saw it".  A cancelled
\* request has none, and summarize offers fewer requests than the trace.
OneLineEach == stage = "over" => \A i \in Trace : rows[i] = 1

\* Not so: `unfinished` are those without a line.  A task whose callback has not run when
\* the drain times out has its line and is counted.
UnfinishedExact ==
  stage = "over" => unfinished = Cardinality({i \in Trace : rows[i] = 0})

\* Not so: the action asks for one recheck.  A lost answer is asked for again.
OneRecheck == started <= 1
=============================================================================
