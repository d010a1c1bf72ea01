--------------------------- MODULE MeasureWindow ---------------------------
(***************************************************************************)
(* What the campaign concludes from one open-loop window (measure.py):      *)
(* whether it stalled, which is a disturbance, and whether the pair was     *)
(* saturated, which is its load.                                            *)
(***************************************************************************)
EXTENDS Integers, FiniteSets, Sequences, SequencesExt

CONSTANT MaxSample  \* bound: requests of a window

\* One window's requests in the order they were sent, as <<prefill, ttft>>: 0 normal,
\* 1 above saturation_ttft_ms, 2 above stall_ms, -1 none.  request: a failed one is data.
Failed == <<-1, -1>>

Unfinished == <<-2, -2>>

Sample ==
  SeqOf({<<0, 0>>, <<0, 1>>, <<1, 1>>, <<2, 2>>, <<0, -1>>, Failed, Unfinished}, MaxSample)

\* _open: what outlasts the drain is cancelled and leaves no outcome.
Drained(sample) == {i \in DOMAIN sample : sample[i] # Unfinished}

Ok(sample) == {i \in Drained(sample) : sample[i] # Failed}

Slow(sample) == {i \in Ok(sample) : sample[i][1] = 2}

\* The last tenth, at least three.
TailOf(sample) ==
  LET ok == Ok(sample) size == Max({3, Cardinality(ok) \div 10}) IN
  {i \in ok : Cardinality({j \in ok : j > i}) < size}

\* _stalls: the median of the tail is normal, which takes more than half of it.
Stalls(sample) ==
  /\ Slow(sample) # {}
  /\ LET tail == TailOf(sample) IN
     2 * Cardinality({i \in tail : sample[i][1] = 0}) > Cardinality(tail)

\* p95(ttft) > saturation_ttft_ms: the index is rounded from 0.95 (n - 1).
Saturated(sample) ==
  LET n == Cardinality({i \in Ok(sample) : sample[i][2] >= 0})
      hot == Cardinality({i \in Ok(sample) : sample[i][2] > 0})
  IN n > 0 /\ hot >= n - (19 * (n - 1) + 10) \div 20

\* _summary, as far as the campaign reads it.
Verdict(sample) == [stalls |-> Stalls(sample), hot |-> Saturated(sample)]

Verdicts == {Verdict(sample) : sample \in Sample}

-----------------------------------------------------------------------------
\* A load the pair cannot keep up with is no stall: where half of the last requests are
\* slow none is reported, and where all are, the scan gets its verdict (_stalls against
\* _summary's p95).  A queue that only grows is not enough for that: of fifty requests
\* with the last two slow, the median of the tail is normal.
OverloadIsSeen ==
  \A sample \in Sample :
    LET tail == TailOf(sample) slow == tail \cap Slow(sample) IN
    /\ 2 * Cardinality(slow) >= Cardinality(tail) => ~Stalls(sample)
    /\ tail # {} /\ slow = tail => Saturated(sample)
=============================================================================
