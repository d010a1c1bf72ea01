------------------------------ MODULE Evidence ------------------------------
(***************************************************************************)
(* Requests and violations per bin, and what admission concludes from them: *)
(* the slack counts (domain/admission.py, SlackRisk), whose bins are ranges *)
(* of predicted slack, and the congestion counts (domain/calibration.py,    *)
(* KneeCounts), whose bins are levels of KV in flight or of requests at P.  *)
(* Both add production's own counts to a seed from the Canary's windows.    *)
(*                                                                          *)
(* The Wilson bound is not computed: whether it is within a rate a/b is the *)
(* quadratic inequality it is the solution of, in whole numbers.            *)
(***************************************************************************)
EXTENDS Integers, FiniteSets, FiniteSetsExt, Sequences, SequencesExt

CONSTANTS
  Top,        \* the bins are 0..Top; SlackRisk has Top edges
  Theta,      \* theta in twentieths
  MinSamples,
  Seeds,      \* calibrations the Canary may publish
  MaxOwn,     \* bound: own requests per bin
  MaxAll      \* bound: own requests in all

Bins == 0..Top

Unit == 20

VARIABLES
  own,  \* counts / live: bin -> <<requests, violations>>
  seed  \* the calibration's counts

vars == <<own, seed>>

Nothing == [b \in Bins |-> <<0, 0>>]

Init == own = Nothing /\ seed = Nothing

\* record.
Record(b, violated) ==
  /\ own[b][1] < MaxOwn
  /\ MapThenSumSet(LAMBDA c : own[c][1], Bins) < MaxAll
  /\ own' = [own EXCEPT ![b] = <<@[1] + 1, @[2] + (IF violated THEN 1 ELSE 0)>>]
  /\ UNCHANGED seed

\* set_seed, and the new KneeCounts of _apply_table.
NewSeed(counts) ==
  /\ seed # counts
  /\ seed' = counts
  /\ UNCHANGED own

Next ==
  \/ \E b \in Bins, violated \in BOOLEAN : Record(b, violated)
  \/ \E counts \in Seeds : NewSeed(counts)

Spec == Init /\ [][Next]_vars

-----------------------------------------------------------------------------
\* _cell, counts.
Cell(b) == <<own[b][1] + seed[b][1], own[b][2] + seed[b][2]>>

Requests(b) == Cell(b)[1]

Violations(b) == Cell(b)[2]

Enough(b) == Requests(b) >= MinSamples

Square(x) == x * x

\* wilson_ucb(k, n) <= p / q, for 0 < p < q: the bound is the rate at which k of n lies
\* z = 1.28 standard errors below it.
WilsonWithin(k, n, p, q) ==
  /\ n > 0
  /\ q * k <= p * n
  /\ 625 * Square(q * k - p * n) >= 1024 * p * (q - p) * n

\* 1 - wilson_ucb(n - k, n) > p / q: the lower bound of the rate k / n passes p / q.
WilsonAbove(k, n, p, q) ==
  /\ n > 0
  /\ q * k > p * n
  /\ 625 * Square(q * k - p * n) > 1024 * p * (q - p) * n

-----------------------------------------------------------------------------
\* SlackRisk.  A slack is counted in edges: the slack s reaches the edges up to s.

\* bucket: edges reached.
Bucket(s) == Cardinality({e \in 1..Top : s >= e})

\* Mutant: a sparse bucket borrows from the nearest observed one above.
BorrowAbove(b) ==
  LET observed == {c \in Bins : c >= b /\ Enough(c)} IN
  IF observed = {} THEN {} ELSE {Min(observed)}

\* estimate: the bucket whose record decides, b itself or the nearest observed bucket
\* with less slack; none: the risk is unknown.
Decides(b) ==
  LET observed == {c \in Bins : c <= b /\ Enough(c)} IN
  IF observed = {} THEN {} ELSE {Max(observed)}

\* estimate(s).risk <= target / Unit.
SafeAt(s, target) ==
  \E c \in Decides(Bucket(s)) : WilsonWithin(Violations(c), Requests(c), target, Unit)

\* safe_slack: going down from the top, the lowest observed bucket before the first
\* that is above the target; its lower edge, none for the lowest bucket.
SafeFrom(target) ==
  LET observed == {b \in Bins : Enough(b)}
      within(b) == WilsonWithin(Violations(b), Requests(b), target, Unit)
      run == {b \in observed : \A c \in observed : c >= b => within(c)}
  IN IF run = {} THEN 0 ELSE Min(run)

\* backfill_slack_ms without a setting: half of theta, else the top edge.
BackfillSlack == IF SafeFrom(Theta \div 2) = 0 THEN Top ELSE SafeFrom(Theta \div 2)

-----------------------------------------------------------------------------
\* KneeCounts.knee.

\* The bins a count was made in, ascending.
Seen == {b \in Bins : Requests(b) > 0}

SumOf(bins) ==
  <<SumFunctionOnSet([b \in Bins |-> Requests(b)], bins),
    SumFunctionOnSet([b \in Bins |-> Violations(b)], bins)>>

\* The bins merged upwards from b until they hold enough samples; all the rest, too
\* few, otherwise.
Block(b) ==
  LET up == {c \in Seen : c >= b}
      full == {c \in up : SumOf({d \in up : d <= c})[1] >= MinSamples}
  IN IF full = {} THEN up ELSE {c \in up : c <= Min(full)}

\* The rate a knee must pass: theta, or the rate of all bins below if that is more.
Floor(b) ==
  LET head == SumOf({c \in Seen : c < b}) IN
  IF Unit * head[2] > Theta * head[1] THEN <<head[2], head[1]>> ELSE <<Theta, Unit>>

Congested(b) ==
  LET block == SumOf(Block(b)) IN
  WilsonAbove(block[2], block[1], Floor(b)[1], Floor(b)[2])

\* In a merged block, its first bin that is above the floor itself.
FirstAbove(b) ==
  Min({c \in Block(b) : Floor(b)[2] * Violations(c) > Floor(b)[1] * Requests(c)})

\* The candidates in turn: the lowest seen bin has nothing below to compare with, and
\* the search ends where the rest together is too sparse.
NoKnee == -1

Knee ==
  LET candidates ==
        {b \in Seen : b # Min(Seen) /\ SumOf({c \in Seen : c >= b})[1] >= MinSamples}
      congested == {b \in candidates : Congested(b)}
  IN IF congested = {} THEN NoKnee ELSE FirstAbove(Min(congested))

\* gate_of_bin and kv_gate_bin: buffer shares in Tenths-ths; p_slot_cap, p_slot_bin.
Tenths == Top + 1

GateOf(b) == Max({1, b})

GateBin(bytes, buffer) == Max({0, Min({Tenths - 1, (bytes * Tenths) \div buffer})})

\* kv_gate_fraction, in Tenths-ths: the buffer itself if no level is congested.
Gate == IF Knee = NoKnee THEN Tenths ELSE GateOf(Knee)

\* p_slot_cap: P takes a request while fewer are at it.
NoCap == -1

SlotCap == IF Knee = NoKnee THEN NoCap ELSE Max({1, Knee})

SlotBin(n) == Min({n, Top})

-----------------------------------------------------------------------------
\* Properties.

\* Every slack from the backfill margin on is one admission itself calls safe at that
\* risk, sparse buckets included: a late request that backfills finds a group that
\* would take a fresh one (safe_slack against estimate and bucket).
BackfillIsSafe ==
  SafeFrom(Theta \div 2) > 0 =>
    \A s \in BackfillSlack..(Top + 1) : SafeAt(s, Theta \div 2)

\* A slack is called safe only on enough requests admitted with no more slack, which
\* kept within theta, and never past a well-sampled bucket in between that did not
\* (estimate: risk does not grow with slack).
SafeIsBacked ==
  \A s \in 0..(Top + 1) :
    SafeAt(s, Theta) =>
      \E c \in Bins :
        /\ c <= s /\ Requests(c) >= MinSamples
        /\ Unit * Violations(c) <= Theta * Requests(c)
        /\ \A d \in Bins :
             c < d /\ d <= s /\ Requests(d) >= MinSamples =>
               Unit * Violations(d) <= Theta * Requests(d)

\* A knee is a level at which requests do violate more than theta, and more than at the
\* levels below the one the search stopped at: neither the calibration nor production's
\* own counts cap a level that is clean itself, or no worse than the lighter load
\* (knee, with its merged blocks).
KneeIsCongestion ==
  LET k == Knee IN
  k # NoKnee =>
    /\ Unit * Violations(k) > Theta * Requests(k)
    /\ \E b \in Seen : b > Min(Seen) /\ b <= k
         /\ LET head == SumOf({c \in Seen : c < b}) IN
            Violations(k) * head[1] > head[2] * Requests(k)

\* Admission's conclusions from slack, as one property.
SlackIsBacked == SafeIsBacked /\ BackfillIsSafe

\* The gate and the slot cap read from a knee shut exactly the levels that are counted
\* in its bin or a higher one: counts and limits agree about the edges (kv_gate_bin,
\* gate_of_bin, p_slot_bin, _kv_blocked).
GateMatchesBins ==
  LET buffer == 2 * Tenths + 1
      k == Knee
      gate == Gate
      cap == SlotCap
  IN k # NoKnee =>
       /\ \A bytes \in 0..(buffer + 2) :
            (bytes * Tenths >= gate * buffer) <=> (GateBin(bytes, buffer) >= k)
       /\ \A n \in 0..(Top + 2) : n >= cap <=> SlotBin(n) >= k
=============================================================================
