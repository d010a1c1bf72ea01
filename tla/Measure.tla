------------------------------ MODULE Measure ------------------------------
(***************************************************************************)
(* The offline measurement campaign (measure.py): windows in a fixed order, *)
(* first those of the lut, power and decode stages, then rate scans, which  *)
(* repeat a stalled window once and end at the first saturated rate.  A run *)
(* may end anywhere - out of time, a lock that fails, a killed job - and is *)
(* started again on the same directory, where windows.jsonl tells what is   *)
(* done.                                                                    *)
(*                                                                          *)
(* Of a summary the verdict is kept, and for the single windows whether the *)
(* energy is known.  A killed job may leave the last line of windows.jsonl  *)
(* torn; what is appended next joins that line.                             *)
(***************************************************************************)
EXTENDS Integers, FiniteSets, Sequences, SequencesExt

CONSTANTS
  Singles,    \* windows of lut, power and decode
  Scans,      \* rate scans, each over
  Rates,      \* this many rates
  Verdicts,   \* of a window: [stalls, hot], those of module MeasureWindow
  MaxEnds,    \* bound: runs that end early
  MaxTorn,    \* bound: torn lines
  Torn, Bad   \* a torn last line; a line that is not JSON

VARIABLES
  pc,       \* "down", "start", "warmup", "window", "requests", "summary", "ended"
  at,       \* the window the campaign has come to
  summary,  \* the row of the window measured last
  length,   \* plan.load_window_s
  windows,  \* windows.jsonl
  rows,     \* requests.jsonl: how often the requests of each window were written
  done,
  ends

vars == <<pc, at, summary, length, windows, rows, done, ends>>

Key(s, r, a) == [scan |-> s, rate |-> r, attempt |-> a]

\* The windows of stage_lut, stage_power and stage_decode (scan 0), and those of the
\* scans of stage_load, stage_mix and stage_scans.
Keys ==
  {Key(0, i, 0) : i \in 1..Singles}
    \union {Key(s, r, a) : s \in 1..Scans, r \in 1..Rates, a \in 0..1}

Begin(s) == Key(s, 1, 0)

End == Begin(Scans + 1)

First == IF Singles > 0 THEN Key(0, 1, 0) ELSE Begin(1)

-----------------------------------------------------------------------------
\* _scan and the loops of the stages: the window after k, given its verdict.
Follows(k, v) ==
  IF k.scan = 0
  THEN IF k.rate < Singles THEN Key(0, k.rate + 1, 0) ELSE Begin(1)
  ELSE IF v.stalls /\ k.attempt = 0
  THEN Key(k.scan, k.rate, 1)
  ELSE IF (~v.stalls /\ v.hot) \/ k.rate = Rates
  THEN Begin(k.scan + 1)
  ELSE Key(k.scan, k.rate + 1, 0)

Readable == {i \in DOMAIN windows : windows[i] \notin {Torn, Bad}}

\* Rows that became one line with the torn one before them.
Joined == {i \in DOMAIN windows : windows[i] = Bad}

\* _done_keys: lines that cannot be read are skipped.
DoneKeys == {windows[i].key : i \in Readable}

Init ==
  /\ pc = "down" /\ at = First /\ summary = Bad /\ length = "plan"
  /\ windows = <<>> /\ rows = [k \in Keys |-> 0]
  /\ done = {} /\ ends = 0

\* Measure(...), run.
Start ==
  /\ pc = "down"
  /\ pc' = "start" /\ at' = First
  /\ done' = DoneKeys
  /\ UNCHANGED <<summary, length, windows, rows, ends>>

\* stage_warmup: a window of another length, never recorded.
WarmUp ==
  /\ pc = "start"
  /\ pc' = "warmup" /\ length' = "warmup"
  /\ UNCHANGED <<at, summary, windows, rows, done, ends>>

Warm ==
  /\ pc = "warmup"
  /\ pc' = "window" /\ length' = "plan"
  /\ UNCHANGED <<at, summary, windows, rows, done, ends>>

Proceed(k) ==
  /\ at' = k
  /\ pc' = IF k = End THEN "ended" ELSE "window"

\* The process is gone, with what it held in memory.
Stop ==
  /\ pc' = "down"
  /\ at' = First /\ summary' = Bad /\ length' = "plan" /\ done' = {}

\* A window that is done: a scan reads its verdict back, line by line (_read_window),
\* and a line that is not JSON raises.
Skip ==
  /\ pc = "window" /\ at \in done
  /\ LET row == CHOOSE i \in Readable :
                  windows[i].key = at /\ \A j \in Readable : windows[j].key = at => i <= j
     IN IF at.scan > 0 /\ \E i \in 1..row : i \notin Readable
        THEN Stop
        ELSE Proceed(Follows(at, windows[row])) /\ UNCHANGED <<summary, length, done>>
  /\ UNCHANGED <<windows, rows, ends>>

\* window: no time left; lock: a clock that cannot be set.
EndEarly ==
  /\ pc = "window" /\ at \notin done
  /\ ends < MaxEnds
  /\ ends' = ends + 1
  /\ Stop
  /\ UNCHANGED <<windows, rows>>

\* energy, _summary: a reading that fails ends nothing; the joules need both.
Joules(before, after) == before /\ after

\* window: locks, readings, the body and the summary.
Run ==
  /\ pc = "window" /\ at \notin done
  /\ pc' = "requests"
  /\ \E v \in IF at.scan = 0 THEN {[stalls |-> FALSE, hot |-> FALSE]} ELSE Verdicts,
        before \in BOOLEAN, after \in BOOLEAN :
       summary' = [key |-> at, stalls |-> v.stalls, hot |-> v.hot, length |-> length,
                   energy |-> at.scan = 0 => Joules(before, after)]
  /\ UNCHANGED <<at, length, windows, rows, done, ends>>

\* window: the rows of its requests, then its own.
WriteRequests ==
  /\ pc = "requests"
  /\ pc' = "summary"
  /\ rows' = [rows EXCEPT ![at] = @ + 1]
  /\ UNCHANGED <<at, summary, length, windows, done, ends>>

\* JsonlLog.write.
Appended ==
  IF windows # <<>> /\ Last(windows) = Torn
  THEN Append(Front(windows), Bad)
  ELSE Append(windows, summary)

\* Mutant: the window's own row does not wait for those of its requests.
SummaryFirst ==
  /\ pc = "requests"
  /\ windows' = Appended
  /\ done' = done \union {at}
  /\ Proceed(Follows(at, summary))
  /\ UNCHANGED <<summary, length, rows, ends>>

WriteSummary ==
  /\ pc = "summary"
  /\ windows' = Appended
  /\ done' = done \union {at}
  /\ Proceed(Follows(at, summary))
  /\ UNCHANGED <<summary, length, rows, ends>>

\* The job is killed, perhaps in the middle of a row.
Kill ==
  /\ pc \notin {"down", "ended"}
  /\ ends < MaxEnds
  /\ ends' = ends + 1
  /\ Stop
  /\ \/ UNCHANGED windows
     \/ /\ pc = "summary"
        /\ Cardinality({i \in DOMAIN windows : windows[i] \in {Torn, Bad}}) < MaxTorn
        /\ windows' = Append(windows, Torn)
  /\ UNCHANGED rows

Next ==
  \/ Start \/ WarmUp \/ Warm \/ Skip \/ EndEarly
  \/ Run \/ WriteRequests \/ WriteSummary \/ Kill

Spec == Init /\ [][Next]_vars

-----------------------------------------------------------------------------
\* As long as no line is torn, the windows on disk are those one uninterrupted run would
\* have written, of the length the plan gives them, whatever ended the runs before
\* (measure.py:27, run, window, _scan, stage_warmup).
LikeOneRun ==
  Readable = DOMAIN windows =>
    \A i \in DOMAIN windows :
      /\ windows[i].key = IF i = 1 THEN First ELSE Follows(windows[i - 1].key, windows[i - 1])
      /\ windows[i].length = "plan"

\* Torn lines or not, no window is recorded twice, and once a scan has met a saturated
\* rate at the first attempt, no higher rate of it is measured (_done_keys, _scan).
NeverBeyond ==
  \A i, j \in Readable :
    i < j =>
      /\ windows[i].key # windows[j].key
      /\ LET low == windows[i] high == windows[j] IN
         low.key.scan = high.key.scan /\ low.hot /\ ~low.stalls /\ low.key.attempt = 0 =>
           high.key.rate <= low.key.rate

\* The requests of a window that counts as done are on disk, and again only for a run that
\* was ended or a row that was lost to a torn line (window; _done_keys asks windows.jsonl
\* alone).
RequestsKept ==
  \A i \in Readable :
    LET n == rows[windows[i].key] IN n >= 1 /\ n <= 1 + ends + Cardinality(Joined)

\* A campaign resumes as if it had never stopped.
ResumesClean == LikeOneRun /\ NeverBeyond /\ RequestsKept

\* Not so: every rerun goes on after the last finished window.  A scan's row behind a
\* torn line is never read back, and each rerun ends there (measure.py:683; _done_keys
\* skips the line).
RerunsGoOn ==
  [][pc = "window" /\ at \in done => pc' # "down" \/ ends' > ends]_vars

\* Not so: a single window that is done has its energy, which the power stage is for.
\* One whose agent did not answer is recorded without, and skipped by every rerun.
PowerKnown == \A i \in Readable : windows[i].energy
=============================================================================
