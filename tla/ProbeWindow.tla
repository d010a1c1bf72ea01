---------------------------- MODULE ProbeWindow ----------------------------
(***************************************************************************)
(* One measurement window of the probe backend (controller/probe.py): the  *)
(* clocks are locked, an energy reading is taken, probe requests run open  *)
(* (at their arrival times) or closed (a fixed number of workers), a       *)
(* second reading ends the window; whatever still runs is cancelled.  The  *)
(* engines may work on a request whose HTTP call is gone, so quiesce asks  *)
(* both of them before production comes back.                              *)
(*                                                                         *)
(* A step is the code between two awaits.  Times are abstracted: when a    *)
(* timer fires is free, and a request may take for ever.                   *)
(***************************************************************************)
EXTENDS Integers, FiniteSets

CONSTANTS
  Req,          \* the probes of the window
  Workers,      \* concurrency of a closed window
  AbortMin      \* abort_min_requests

VARIABLES
  kind,        \* "open" or "closed"
  phase,       \* where the window is
  ending,      \* how it leaves its body: result, failed or cancelled
  stage,       \* per probe: unsent, prefill, transfer, decode, ended or dropped
  late,        \* probes whose first token missed the target
  ok,          \* probes that ended without an error
  violations,  \* counted by the window
  aborted,     \* an open window stopped early
  sampler,     \* the sampling task runs
  nAwait, inflight, decoding, atPrefill,   \* the probe's own counters
  engine       \* work the engines have: <<"P" or "D", probe>>

probes   == <<stage, late, ok, violations, nAwait, inflight, decoding, atPrefill>>
vars     == <<kind, phase, ending, aborted, sampler, engine, probes>>

Init ==
  /\ kind \in {"open", "closed"}
  /\ phase = "lock" /\ ending = "none"
  /\ stage = [r \in Req |-> "unsent"] /\ late = {} /\ ok = {}
  /\ violations = 0 /\ aborted = FALSE /\ sampler = FALSE
  /\ nAwait = 0 /\ inflight = 0 /\ decoding = 0 /\ atPrefill = {}
  /\ engine = {}

Live     == {r \in Req : stage[r] \in {"prefill", "transfer", "decode"}}
Outcomes == {r \in Req : stage[r] = "ended"}
Unsent   == {r \in Req : stage[r] = "unsent"}
InBody   == phase \in {"running", "drain", "last"}

-----------------------------------------------------------------------------
\* The window.

\* Two lock commands; unless both are confirmed the window fails.
Lock(good) ==
  /\ phase = "lock"
  /\ IF good THEN phase' = "first" /\ UNCHANGED ending
             ELSE phase' = "done" /\ ending' = "failed"
  /\ UNCHANGED <<kind, aborted, sampler, engine, probes>>

FirstReading(good) ==
  /\ phase = "first"
  /\ IF good THEN phase' = "running" /\ sampler' = TRUE /\ UNCHANGED ending
             ELSE phase' = "done" /\ ending' = "failed" /\ UNCHANGED sampler
  /\ UNCHANGED <<kind, aborted, engine, probes>>

\* Twice theta, one violation in five.
TooManyViolations ==
  /\ Cardinality(Outcomes) >= AbortMin
  /\ 5 * violations > Cardinality(Outcomes)

\* request: a probe is sent, at its arrival time or by a worker that is free.
Send(r) ==
  /\ phase = "running" /\ r \in Unsent
  /\ IF kind = "open" THEN ~TooManyViolations ELSE Cardinality(Live) < Workers
  /\ stage' = [stage EXCEPT ![r] = "prefill"]
  /\ nAwait' = nAwait + 1
  /\ atPrefill' = atPrefill \cup {r}
  /\ engine' = engine \cup {<<"P", r>>}
  /\ UNCHANGED <<kind, phase, ending, aborted, sampler, late, ok, violations,
                 inflight, decoding>>

\* An open window stops while the rate is clearly above abort_above; else it goes on
\* until everything is sent, a closed one until its time is over.
StopSending ==
  /\ phase = "running"
  /\ kind = "open" => Unsent = {} \/ TooManyViolations
  /\ phase' = "drain"
  /\ aborted' = (kind = "open" /\ Unsent # {})
  /\ UNCHANGED <<kind, ending, sampler, engine, probes>>

\* asyncio.wait with a timeout.
Drained ==
  /\ phase = "drain"
  /\ phase' = "last"
  /\ UNCHANGED <<kind, ending, aborted, sampler, engine, probes>>

LastReading(good) ==
  /\ phase = "last"
  /\ phase' = "cleanup"
  /\ ending' = IF good THEN "result" ELSE "failed"
  /\ UNCHANGED <<kind, aborted, sampler, engine, probes>>

\* The experiment is cancelled in one of the window's awaits.
Cancel ==
  /\ phase \in {"lock", "first"} \/ InBody
  /\ phase' = IF InBody THEN "cleanup" ELSE "done"
  /\ ending' = "cancelled"
  /\ UNCHANGED <<kind, aborted, sampler, engine, probes>>

-----------------------------------------------------------------------------
\* The probes.

\* Mutant: a probe in transfer keeps its tokens.
LeavesInflight(r) ==
  /\ IF stage[r] = "decode"
       THEN decoding' = decoding - 1 /\ UNCHANGED nAwait
       ELSE nAwait' = nAwait - 1 /\ UNCHANGED decoding
  /\ inflight' = inflight
  /\ atPrefill' = atPrefill \ {r}

\* request's finally clause.
Leaves(r) ==
  /\ IF stage[r] = "decode"
       THEN decoding' = decoding - 1 /\ UNCHANGED <<nAwait, inflight>>
       ELSE /\ nAwait' = nAwait - 1
            /\ inflight' = inflight - (IF stage[r] = "transfer" THEN 1 ELSE 0)
            /\ UNCHANGED decoding
  /\ atPrefill' = atPrefill \ {r}

\* The outcome is appended and recorded; one without a first token is no violation.
Ends(r, good, violated) ==
  /\ Leaves(r)
  /\ stage' = [stage EXCEPT ![r] = "ended"]
  /\ ok' = IF good THEN ok \cup {r} ELSE ok
  /\ violations' = violations + (IF violated THEN 1 ELSE 0)
  /\ UNCHANGED <<kind, phase, ending, aborted, sampler, late>>

PrefillReturns(r) ==
  /\ InBody /\ stage[r] = "prefill"
  /\ stage' = [stage EXCEPT ![r] = "transfer"]
  /\ atPrefill' = atPrefill \ {r}
  /\ inflight' = inflight + 1
  /\ engine' = (engine \ {<<"P", r>>}) \cup {<<"D", r>>}
  /\ UNCHANGED <<kind, phase, ending, aborted, sampler, late, ok, violations,
                 nAwait, decoding>>

\* The first event of the stream with a token.
FirstToken(r) ==
  /\ InBody /\ stage[r] = "transfer"
  /\ stage' = [stage EXCEPT ![r] = "decode"]
  /\ nAwait' = nAwait - 1 /\ inflight' = inflight - 1 /\ decoding' = decoding + 1
  /\ late' \in {late, late \cup {r}}
  /\ UNCHANGED <<kind, phase, ending, aborted, sampler, ok, violations, atPrefill, engine>>

\* The stream is over, perhaps without any token; slow: TPOT above its target.
StreamEnds(r) ==
  /\ InBody /\ stage[r] \in {"transfer", "decode"}
  /\ \E slow \in BOOLEAN :
       Ends(r, TRUE, stage[r] = "decode" /\ (r \in late \/ slow))
  /\ engine' = engine \ {<<"D", r>>}

\* Any error of the two calls; the first token may have been late before.
ProbeFails(r) ==
  /\ InBody /\ r \in Live
  /\ Ends(r, FALSE, r \in late)
  /\ engine' \in {engine, engine \ {<<"P", r>>, <<"D", r>>}}

\* The finally clause of the window cancels its tasks, which get no further, and waits.
DropProbe(r) ==
  /\ phase = "cleanup" /\ r \in Live
  /\ Leaves(r)
  /\ stage' = [stage EXCEPT ![r] = "dropped"]
  /\ UNCHANGED <<kind, phase, ending, aborted, sampler, late, ok, violations, engine>>

Cleaned ==
  /\ phase = "cleanup" /\ Live = {}
  /\ sampler' = FALSE
  /\ phase' = "done"
  /\ UNCHANGED <<kind, ending, aborted, engine, probes>>

\* _result, as far as it counts.
Result == [requests |-> Cardinality(ok), violations |-> violations, aborted |-> aborted]

-----------------------------------------------------------------------------
\* quiesce: both engines report nothing running or waiting, the P engine first.

Busy(e) == \E r \in Req : <<e, r>> \in engine

AskP ==
  /\ phase = "done"
  /\ phase' = IF Busy("P") THEN "done" ELSE "ask_d"
  /\ UNCHANGED <<kind, ending, aborted, sampler, engine, probes>>

AskD ==
  /\ phase = "ask_d"
  /\ phase' = IF Busy("D") THEN "done" ELSE "quiet"
  /\ UNCHANGED <<kind, ending, aborted, sampler, engine, probes>>

\* Not idle within drain_timeout_s: TimeoutError, the group stays exploring.
GiveUp ==
  /\ phase \in {"done", "ask_d"}
  /\ phase' = "gave_up"
  /\ UNCHANGED <<kind, ending, aborted, sampler, engine, probes>>

\* An engine drops or completes work nobody waits for.
EngineEnds ==
  /\ \E w \in engine : w[2] \notin Live /\ engine' = engine \ {w}
  /\ UNCHANGED <<kind, phase, ending, aborted, sampler, probes>>

Over == phase \in {"quiet", "gave_up"} /\ UNCHANGED vars

WindowStep ==
  \/ \E good \in BOOLEAN : Lock(good) \/ FirstReading(good) \/ LastReading(good)
  \/ StopSending \/ Drained \/ Cleaned
  \/ \E r \in Req : DropProbe(r)

Next ==
  \/ WindowStep \/ Cancel
  \/ \E r \in Req : \/ Send(r) \/ PrefillReturns(r) \/ FirstToken(r)
                    \/ StreamEnds(r) \/ ProbeFails(r)
  \/ AskP \/ AskD \/ GiveUp \/ EngineEnds \/ Over

Spec == Init /\ [][Next]_vars

\* Timers fire and arrival times come; nothing is assumed of a request or an engine.
Timers == WF_vars(WindowStep) /\ \A r \in Req : WF_vars(Send(r))

FairSpec == Spec /\ Timers

-----------------------------------------------------------------------------
\* Types.
TypeOK ==
  /\ kind \in {"open", "closed"} /\ ending \in {"none", "result", "failed", "cancelled"}
  /\ phase \in {"lock", "first", "running", "drain", "last", "cleanup", "done",
                "ask_d", "quiet", "gave_up"}
  /\ stage \in [Req -> {"unsent", "prefill", "transfer", "decode", "ended", "dropped"}]
  /\ late \subseteq Req /\ ok \subseteq Outcomes
  /\ violations \in 0..Cardinality(Req) /\ aborted \in BOOLEAN /\ sampler \in BOOLEAN
  /\ nAwait \in 0..Cardinality(Req) /\ inflight \in 0..Cardinality(Req)
  /\ decoding \in 0..Cardinality(Req) /\ atPrefill \subseteq Req
  /\ engine \subseteq {"P", "D"} \X Req

\* What later windows start from: a window that ended in any way leaves no task behind
\* and its counters at zero (they are features of the TTFT predictor).
NothingLeftOver ==
  phase \in {"done", "ask_d", "quiet", "gave_up"} =>
    /\ Live = {} /\ ~sampler
    /\ nAwait = 0 /\ inflight = 0 /\ decoding = 0 /\ atPrefill = {}

\* quiesce returns only if neither engine works on a probe (the comment in quiesce:
\* cancellation closes HTTP; vLLM must also report no queued or running work).
QuietMeansIdle == phase = "quiet" => engine = {}

\* Both, as one property: production and later windows find nothing of this one.
EndsClean == NothingLeftOver /\ QuietMeansIdle

\* A window ends although requests hang.
WindowOver == phase \notin {"lock", "first", "running", "drain", "last", "cleanup"}

WindowEnds == <>WindowOver

\* "A failed probe is data, never a crash" (probe.py:300): the window's violations are
\* among the requests it reports, as wilson_ucb needs for a rate (else it takes the
\* root of a negative number).
FailedProbeIsData ==
  (phase = "done" /\ ending = "result" /\ Result.requests > 0) =>
    Result.violations <= Result.requests
=============================================================================
