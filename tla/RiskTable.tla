----------------------------- MODULE RiskTable -----------------------------
(***************************************************************************)
(* The risk table R(clock, N_await, L_in, D busy) of domain/risk.py, at one *)
(* clock point.  A lookup goes by the cell's own record when that has enough*)
(* samples, else by the records of heavier cells, single or pooled, and     *)
(* never below what lighter cells show.                                     *)
(*                                                                          *)
(* The table is run in every world its monotonicity assumption allows: the  *)
(* loads at which requests violate the SLO are closed upwards.              *)
(***************************************************************************)
EXTENDS Integers, FiniteSets, FiniteSetsExt, Functions

CONSTANTS
  AwaitEdges, PromptEdges,  \* bucket edges
  MinSamples,
  MaxSamples,               \* bound: samples per cell
  Theta                     \* the target risk in percent

\* _index: the first edge that is no less than the value, or the overflow bucket.
Bucket(edges, value) == Cardinality({e \in edges : e < value})

Rows == 0..Cardinality(AwaitEdges)
Cols == 0..Cardinality(PromptEdges)

Cells == Rows \X Cols \X {0, 1}

\* More requests queued, a longer prompt, or D busy instead of idle.
NoLighter(c, d) == c[1] >= d[1] /\ c[2] >= d[2] /\ c[3] >= d[3]

VARIABLES
  cells,  \* _cells: requests and violations
  world   \* the cells in which requests violate

vars == <<cells, world>>

UpwardClosed(u) == \A c \in u, d \in Cells : NoLighter(d, c) => d \in u

Init ==
  /\ cells = [c \in Cells |-> [admitted |-> 0, violated |-> 0]]
  /\ world \in {u \in SUBSET Cells : UpwardClosed(u)}

\* record: a clean sample of production, or of one of the Canary's windows.
Record(c) ==
  /\ cells[c].admitted < MaxSamples
  /\ cells' = [cells EXCEPT ![c] =
       [admitted |-> @.admitted + 1,
        violated |-> @.violated + (IF c \in world THEN 1 ELSE 0)]]
  /\ UNCHANGED world

Next == \E c \in Cells : Record(c)

Spec == Init /\ [][Next]_vars

-----------------------------------------------------------------------------
\* _estimate, as the question whether the estimate is within a target (percent).

Pooled(region) ==
  [admitted |-> SumFunctionOnSet([c \in Cells |-> cells[c].admitted], region),
   violated |-> SumFunctionOnSet([c \in Cells |-> cells[c].violated], region)]

Enough(stats) == stats.admitted >= MinSamples

Within(stats, target) == 100 * stats.violated <= target * stats.admitted

Lighter(c) == {d \in Cells \ {c} : NoLighter(c, d)}

Heavier(c) == {d \in Cells \ {c} : NoLighter(d, c)}

\* The row and the column of cells no lighter, sparse ones included.
Regions(c) ==
  {{d \in Cells : NoLighter(d, c) /\ d[1] = c[1]},
   {d \in Cells : NoLighter(d, c) /\ d[2] = c[2]}}

UpperWithin(c, target) ==
  \/ \E d \in Heavier(c) : Enough(cells[d]) /\ Within(cells[d], target)
  \/ \E region \in Regions(c) : Enough(Pooled(region)) /\ Within(Pooled(region), target)

LowerWithin(c, target) ==
  \A d \in Lighter(c) : Enough(cells[d]) => Within(cells[d], target)

EstimateWithin(c, target) ==
  /\ LowerWithin(c, target)
  /\ IF Enough(cells[c]) THEN Within(cells[c], target) ELSE UpperWithin(c, target)

\* lookup.
CellOf(await, tokens, busy) ==
  <<Bucket(AwaitEdges, await), Bucket(PromptEdges, tokens), busy>>

Safe(await, tokens, busy) == EstimateWithin(CellOf(await, tokens, busy), Theta)

-----------------------------------------------------------------------------
\* Properties.

Loads(edges) == 0..(Max(edges) + 1)

\* In every world in which risk grows with the load, however unevenly it was sampled:
\* a state called safe is one whose requests meet the SLO, and a cell with enough
\* samples of its own that meet it is called safe.  No single, pooled or sparse record
\* of other cells ever speaks for a heavier load than its own (_estimate).
SafeIsSafe ==
  \A await \in Loads(AwaitEdges), tokens \in Loads(PromptEdges), busy \in {0, 1} :
    LET cell == CellOf(await, tokens, busy) IN
    /\ Safe(await, tokens, busy) => cell \notin world
    /\ Enough(cells[cell]) /\ cell \notin world => Safe(await, tokens, busy)
=============================================================================
