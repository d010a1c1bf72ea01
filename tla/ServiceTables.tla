--------------------------- MODULE ServiceTables ---------------------------
(***************************************************************************)
(* The prefill times the Canary measures per P clock and prompt length, and *)
(* how contradictions among them are resolved (locator.py).  A higher clock *)
(* is never slower, so a table that says otherwise was disturbed: its       *)
(* clocks are measured once more, and what still contradicts is replaced by *)
(* the envelope of the lower clocks.                                        *)
(***************************************************************************)
EXTENDS Integers

CONSTANTS
  TableClocks,  \* P clocks
  Lengths,      \* prompt lengths
  Times,        \* prefill times a probe may show
  Missing,      \* a length without a time
  EpsPct,       \* eps in percent
  None

VARIABLES
  times,   \* prefill_ms_by_clock
  raw,     \* history: as it was measured last
  again,   \* the clocks that are measured once more; None: not decided yet
  settled

vars == <<times, raw, again, settled>>

Row == [Lengths -> Times \union {Missing}]

Timed(table, f, n) == table[f][n] # Missing

\* table_conflicts.
Contradict(table, lo, hi) ==
  \E n \in Lengths :
    /\ Timed(table, lo, n) /\ Timed(table, hi, n)
    /\ 100 * table[hi][n] > (100 + EpsPct) * table[lo][n]

TableConflicts(table) ==
  {f \in TableClocks :
     \E g \in TableClocks :
       (f < g /\ Contradict(table, f, g)) \/ (g < f /\ Contradict(table, g, f))}

\* The clock and those below it that have a time for the length.
UpTo(table, f, n) == {g \in TableClocks : g <= f /\ Timed(table, g, n)}

\* The smallest of their times.
Envelope(table) ==
  [f \in TableClocks |->
     [n \in Lengths |->
        IF Timed(table, f, n)
        THEN CHOOSE t \in {table[g][n] : g \in UpTo(table, f, n)} :
               \A g \in UpTo(table, f, n) : t <= table[g][n]
        ELSE Missing]]

Init ==
  /\ times \in [TableClocks -> Row] /\ raw = times
  /\ again = None /\ settled = FALSE

-----------------------------------------------------------------------------
\* consistent_tables: the clocks involved are measured once more, one after the other.
Compare ==
  /\ again = None
  /\ again' = TableConflicts(times)
  /\ UNCHANGED <<times, raw, settled>>

Remeasure ==
  /\ again \notin {None, {}}
  /\ \E f \in again, anew \in Row :
       /\ \A g \in again : f <= g
       /\ again' = again \ {f}
       /\ times' = [times EXCEPT ![f] = anew]
  /\ raw' = times'
  /\ UNCHANGED settled

\* What still contradicts takes the envelope.
Settle ==
  /\ again = {} /\ ~settled
  /\ settled' = TRUE
  /\ times' = IF TableConflicts(times) = {} THEN times ELSE Envelope(times)
  /\ UNCHANGED <<raw, again>>

Next == Compare \/ Remeasure \/ Settle

Spec == Init /\ [][Next]_vars

-----------------------------------------------------------------------------
\* What the cost model is built from contradicts itself nowhere, has each of its times
\* from a probe at that clock or a lower one, and is used as it was measured if the last
\* measurement does not contradict itself (consistent_tables).
TablesConsistent ==
  settled =>
    /\ TableConflicts(times) = {}
    /\ TableConflicts(raw) = {} => times = raw
    /\ \A f \in TableClocks, n \in Lengths :
         /\ Timed(times, f, n) <=> Timed(raw, f, n)
         /\ Timed(times, f, n) => \E g \in TableClocks : g <= f /\ times[f][n] = raw[g][n]
=============================================================================
