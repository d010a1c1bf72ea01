------------------------------- MODULE Stores -------------------------------
(***************************************************************************)
(* What the Router and the Canary have learned, in memory and on disk: the  *)
(* tier table (domain/groups.py, TierStore), the risk table (domain/risk.py)*)
(* and the slack counts (domain/admission.py, SlackRisk), as service.py     *)
(* loads and saves them.  The proxy is started, stopped and killed, and     *)
(* started again under the same or another configuration.                   *)
(*                                                                          *)
(* A count remembers under which configuration each of its samples was      *)
(* measured; the program does not.  Saving is synchronous: while a file is  *)
(* written nothing else runs, but the process may die.                      *)
(***************************************************************************)
EXTENDS Integers, FiniteSets

CONSTANTS
  Configs,     \* configuration identities
  SloOf,       \* the TTFT SLO of each, which fixes the slack edges
  None,
  Half,        \* half a file
  MaxFinished, \* bound: recorded requests
  MaxTables    \* bound: published tables

VARIABLES
  config,   \* the configuration the proxy runs under, or None
  tier,     \* tiers.table
  cells,    \* RiskTable._cells: samples per configuration
  counts,   \* SlackRisk.counts: samples per configuration
  seed,     \* SlackRisk.seed: the tables whose calibration is counted in it
  applied,  \* router._applied_key
  keeps,    \* RiskTable.path is set
  saving,   \* the save under way
  disk,     \* the three files
  finished, \* requests recorded so far under each configuration
  tables    \* tables published so far

learned == <<tier, cells, counts, seed, applied, keeps>>
history == <<finished, tables>>
vars == <<config, learned, saving, disk, history>>

Zero == [c \in Configs |-> 0]

Tables == [by : Configs, rev : 1..MaxTables, admission : BOOLEAN, capped : BOOLEAN]

Init ==
  /\ config = None
  /\ tier = None /\ cells = Zero /\ counts = Zero
  /\ seed = {} /\ applied = 0 /\ keeps = FALSE
  /\ saving = None
  /\ disk = [tier |-> None, risk |-> None, slack |-> None]
  /\ finished = Zero
  /\ tables = 0

Running == config # None

Idle == Running /\ saving = None

-----------------------------------------------------------------------------
\* Start-up: build_runtime.

\* RiskTable.load: a file of another identity is refused.
RiskReadable(c) == disk.risk # None /\ disk.risk.by = c

\* SlackRisk.load: only the bucket edges are compared.
SlackReadable(c) == disk.slack # None /\ disk.slack.edges = SloOf[c]

\* Mutant: a refused risk table leaves its path in place.
KeepsPath(c) == TRUE

\* from_config: a refused file is not saved over either (path None).
KeepsRiskPath(c) == disk.risk = None \/ RiskReadable(c)

\* TierStore.load.
TierLoaded(c) ==
  IF disk.tier # None /\ disk.tier.by = c THEN disk.tier ELSE None

Start(c) ==
  /\ ~Running
  /\ config' = c
  /\ cells' = IF RiskReadable(c) THEN disk.risk.cells ELSE Zero
  /\ keeps' = KeepsRiskPath(c)
  /\ tier' = TierLoaded(c)
  /\ counts' = IF SlackReadable(c) THEN disk.slack.counts ELSE Zero
  /\ seed' = IF SlackReadable(c) THEN disk.slack.seed ELSE {}
  /\ applied' = 0
  /\ UNCHANGED <<saving, disk, history>>

-----------------------------------------------------------------------------
\* Serving.

\* finish: a clean sample joins the risk table, and the slack counts when the ticket
\* was predicted.
Record ==
  /\ Idle
  /\ finished[config] < MaxFinished
  /\ finished' = [finished EXCEPT ![config] = @ + 1]
  /\ cells' = [cells EXCEPT ![config] = @ + 1]
  /\ \E n \in {0, 1} : counts' = [counts EXCEPT ![config] = @ + n]
  /\ UNCHANGED <<config, tier, seed, applied, keeps, saving, disk, tables>>

\* set_seed: replaced, not accumulated, by each new calibration.
SeedOf(t) == {t.rev}

\* _apply_table, before the first decision on a new table.  A table without a
\* calibration leaves the seed as it is.
ApplyTable ==
  /\ Idle
  /\ tier # None /\ applied # tier.rev
  /\ applied' = tier.rev
  /\ seed' = IF tier.admission THEN SeedOf(tier) ELSE seed
  /\ UNCHANGED <<config, tier, cells, counts, keeps, saving, disk, history>>

BeginSave(file, content) ==
  saving' = [file |-> file, content |-> content, whole |-> FALSE]

\* publish: the table is in force first and saved then.
Publish ==
  /\ Idle
  /\ tables < MaxTables
  /\ tables' = tables + 1
  /\ \E calibrated \in BOOLEAN :
       tier' = [by |-> config, rev |-> tables + 1, admission |-> calibrated,
                capped |-> FALSE]
  /\ BeginSave("tier", tier')
  /\ UNCHANGED <<config, cells, counts, seed, applied, keeps, disk, finished>>

\* verify found the table's point infeasible: the table in force gets a cap.
Cap ==
  /\ Idle
  /\ tier # None /\ ~tier.capped
  /\ tier' = [tier EXCEPT !.capped = TRUE]
  /\ BeginSave("tier", tier')
  /\ UNCHANGED <<config, cells, counts, seed, applied, keeps, disk, history>>

-----------------------------------------------------------------------------
\* Saving: a temporary file, its contents synced, then the replacement.

WriteTemp ==
  /\ saving # None /\ ~saving.whole
  /\ saving' = [saving EXCEPT !.whole = TRUE]
  /\ UNCHANGED <<config, learned, disk, history>>

SlackFile == [edges |-> SloOf[config], counts |-> counts, seed |-> seed]

\* Shutdown goes on from the risk table to the slack counts and then ends; a failure of
\* the first ends it at once.
Ended(file, done) == file = "slack" \/ (file = "risk" /\ ~done)

\* Memory is gone with the process.
Gone ==
  /\ config' = None
  /\ tier' = None /\ cells' = Zero /\ counts' = Zero
  /\ seed' = {} /\ applied' = 0 /\ keeps' = FALSE
  /\ saving' = None

After(file, done) ==
  IF Ended(file, done) THEN Gone
  ELSE /\ UNCHANGED <<config, learned>>
       /\ IF file = "risk" THEN BeginSave("slack", SlackFile) ELSE saving' = None

\* Mutant: the file is opened for writing in place.
ReplaceUnwritten ==
  /\ saving # None
  /\ disk' = [disk EXCEPT ![saving.file] =
                IF saving.whole THEN saving.content ELSE Half]
  /\ IF saving.whole THEN After(saving.file, TRUE)
     ELSE saving' = [saving EXCEPT !.whole = TRUE] /\ UNCHANGED <<config, learned>>
  /\ UNCHANGED history

Replace ==
  /\ saving # None /\ saving.whole
  /\ disk' = [disk EXCEPT ![saving.file] = saving.content]
  /\ After(saving.file, TRUE)
  /\ UNCHANGED history

\* The write or the replacement fails; the temporary file is removed.
SaveFails ==
  /\ saving # None
  /\ After(saving.file, FALSE)
  /\ UNCHANGED <<disk, history>>

\* Runtime.shutdown: the tasks have ended; the risk table is saved unless its file
\* belongs to another configuration.
Shutdown ==
  /\ Idle
  /\ IF keeps THEN BeginSave("risk", [by |-> config, cells |-> cells])
     ELSE BeginSave("slack", SlackFile)
  /\ UNCHANGED <<config, learned, disk, history>>

\* The process is killed, with the event loop anywhere.
Crash ==
  /\ Running
  /\ Gone
  /\ UNCHANGED <<disk, history>>

Next ==
  \/ \E c \in Configs : Start(c)
  \/ Record \/ ApplyTable \/ Publish \/ Cap
  \/ WriteTemp \/ Replace \/ SaveFails
  \/ Shutdown \/ Crash

Spec == Init /\ [][Next]_vars

-----------------------------------------------------------------------------
\* Properties.

\* Whenever the process dies, each file is absent or a whole earlier or newer version:
\* a start-up never meets half a table (save: temporary file, fsync, replace).
WholeFiles == \A f \in DOMAIN disk : disk[f] # Half

\* What admission and the solver go by was measured under the configuration that
\* runs, whatever files earlier configurations left (load, from_config).
OwnTables ==
  Running =>
    /\ tier # None => tier.by = config
    /\ \A c \in Configs \ {config} : cells[c] = 0

\* "A table from another configuration is neither reused nor overwritten"
\* (service.py:192): no run of one configuration changes the risk file of another,
\* over any number of starts, shutdowns and crashes.
ForeignRiskKept ==
  [][\A c \in Configs :
       disk.risk # None /\ disk.risk.by = c /\ disk'.risk # disk.risk => config = c]_vars

\* No request counts twice, across every save, crash and reload, and the calibration
\* in the slack counts is one table's (load merges by assignment, set_seed replaces).
CountedOnce ==
  /\ \A c \in Configs : cells[c] <= finished[c] /\ counts[c] <= finished[c]
  /\ Cardinality(seed) <= 1
  /\ Running /\ tier # None /\ applied = tier.rev /\ tier.admission => seed = {tier.rev}

\* What a process goes by is whole, its own configuration's and counted once, whatever
\* crashed, failed or was started in between.
SoundKnowledge == WholeFiles /\ OwnTables /\ CountedOnce

\* Not so: service.py:192 says of a table of another configuration that it is "neither reused
\* nor overwritten", and identity (service.py:100) that a change of the configuration
\* starts new ones.  The slack counts, the risk table admission really reads, are
\* loaded whenever the SLO is the same.
OwnSlackCounts ==
  Running => \A c \in Configs \ {config} : counts[c] = 0
=============================================================================
