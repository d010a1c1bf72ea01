----------------------------- MODULE Knowledge -----------------------------
(***************************************************************************)
(* What CanaTune has learned: the files it is kept in (Stores), the         *)
(* frequency decisions (FrequencyTable), what is concluded from counts      *)
(* (Evidence) and from the risk table (RiskTable), the table of prefill     *)
(* times (ServiceTables), the measurement campaign (Measure), the tokens    *)
(* seen in a stream (StreamTimer) and the replay of a trace (LoadRun).      *)
(* They share nothing; a behaviour is one of one part, and the others stay  *)
(* as they begin.                                                           *)
(***************************************************************************)
EXTENDS FrequencyTable, MeasureWindow

CONSTANTS
  Configs, SloOf, Half, MaxFinished, MaxTables,                 \* of Stores
  Top, Theta, MinSamples, Seeds, MaxOwn, MaxAll,                \* of Evidence
  AwaitEdges, PromptEdges, RiskSamples, MaxSamples, RiskTheta,  \* of RiskTable
  Singles, Scans, Rates, MaxEnds, MaxTorn, Torn, Bad,           \* of Measure
  TableClocks, Lengths, Times, Missing, EpsPct,                 \* of ServiceTables
  MaxEvents,                                                    \* of StreamTimer
  Arrivals, MaxAsks                                             \* of LoadRun

VARIABLES
  part,
  config, tier, cells, counts, calibration, applied, keeps, saving, files, finished, tables,
  own, seed,
  risk, world,
  pc, at, summary, length, windows, rows, done, ends,
  times, raw, again, settled,
  events, arrived, buffer, tokens, error,
  stage, sent, task, pending, written, unfinished, ask, started, poller

S == INSTANCE Stores WITH seed <- calibration, disk <- files

E == INSTANCE Evidence

R == INSTANCE RiskTable WITH MinSamples <- RiskSamples, Theta <- RiskTheta, cells <- risk

M == INSTANCE Measure

T == INSTANCE ServiceTables

ST == INSTANCE StreamTimer

L == INSTANCE LoadRun WITH Requests <- Arrivals, rows <- written

\* What the files of the risk table and of the slack counts hold.
RiskFiles == [by : Configs, cells : [Configs -> Nat]]

SlackFiles ==
  [edges : {SloOf[c] : c \in Configs}, counts : [Configs -> Nat], seed : SUBSET (1..MaxTables)]

\* What a line of windows.jsonl holds.
WindowRows ==
  [key : M!Keys, stalls : BOOLEAN, hot : BOOLEAN, length : {"plan"}, energy : BOOLEAN]

ASSUME KnowledgeAssumption ==
  /\ MaxTables \in Nat
  /\ Half # None /\ Half \notin S!Tables /\ Half \notin RiskFiles /\ Half \notin SlackFiles
  /\ Singles \in Nat /\ Scans \in Nat /\ Rates \in Nat \ {0} /\ Singles + Scans > 0
  /\ Torn # Bad /\ Torn \notin WindowRows /\ Bad \notin WindowRows
  /\ Top \in Nat /\ Theta \in Nat /\ MinSamples \in Nat
  /\ \A s \in Seeds : \A b \in E!Bins : s[b][1] \in Nat /\ s[b][2] \in 0..s[b][1]
  /\ IsFiniteSet(AwaitEdges) /\ IsFiniteSet(PromptEdges)
  /\ RiskSamples \in Nat \ {0} /\ RiskTheta \in 0..99
  /\ TableClocks \subseteq Nat /\ IsFiniteSet(TableClocks)
  /\ \A fs \in SUBSET TableClocks : None # fs
  /\ Times \subseteq Nat /\ Missing \notin Times /\ EpsPct \in Nat
  /\ Arrivals \in Nat /\ MaxEvents \in Nat

storesVars ==
  <<config, tier, cells, counts, calibration, applied, keeps, saving, files, finished, tables>>
evidenceVars == <<own, seed>>
riskVars == <<risk, world>>
measureVars == <<pc, at, summary, length, windows, rows, done, ends>>
tablesVars == <<times, raw, again, settled>>
streamVars == <<events, arrived, buffer, tokens, error>>
loadVars == <<stage, sent, task, pending, written, unfinished, ask, started, poller>>
clientVars == <<streamVars, loadVars>>

Parts == {"frequency", "stores", "evidence", "risk", "tables", "measure", "stream", "load"}

PartsInit ==
  /\ part \in Parts
  /\ Init /\ S!Init /\ E!Init /\ M!Init
  /\ IF part = "risk" THEN R!Init
     ELSE R!Init /\ world = {}
  /\ IF part = "tables" THEN T!Init
     ELSE times = None /\ raw = None /\ again = None /\ settled = FALSE
  /\ ST!Init /\ (part # "stream" => events = <<>>)
  /\ L!Init

FrequencyPart ==
  /\ part = "frequency" /\ Next
  /\ UNCHANGED <<part, storesVars, evidenceVars, riskVars, measureVars, tablesVars,
                 clientVars>>

StoresPart ==
  /\ part = "stores" /\ S!Next
  /\ UNCHANGED <<part, vars, evidenceVars, riskVars, measureVars, tablesVars,
                 clientVars>>

EvidencePart ==
  /\ part = "evidence" /\ E!Next
  /\ UNCHANGED <<part, vars, storesVars, riskVars, measureVars, tablesVars,
                 clientVars>>

RiskPart ==
  /\ part = "risk" /\ R!Next
  /\ UNCHANGED <<part, vars, storesVars, evidenceVars, measureVars, tablesVars,
                 clientVars>>

MeasurePart ==
  /\ part = "measure" /\ M!Next
  /\ UNCHANGED <<part, vars, storesVars, evidenceVars, riskVars, tablesVars, clientVars>>

TablesPart ==
  /\ part = "tables" /\ T!Next
  /\ UNCHANGED <<part, vars, storesVars, evidenceVars, riskVars, measureVars, clientVars>>

StreamPart ==
  /\ part = "stream" /\ ST!Next
  /\ UNCHANGED <<part, vars, storesVars, evidenceVars, riskVars, measureVars, tablesVars, loadVars>>

LoadPart ==
  /\ part = "load" /\ L!Next
  /\ UNCHANGED <<part, vars, storesVars, evidenceVars, riskVars, measureVars, tablesVars, streamVars>>

PartsNext ==
  FrequencyPart \/ StoresPart \/ EvidencePart \/ RiskPart \/ TablesPart \/ MeasurePart
  \/ StreamPart \/ LoadPart

partsVars ==
  <<part, vars, storesVars, evidenceVars, riskVars, measureVars, tablesVars, clientVars>>

PartsSpec == PartsInit /\ [][PartsNext]_partsVars

-----------------------------------------------------------------------------
\* What is loaded is whole, the configuration's own, and counted once (Stores).
SoundKnowledge == S!SoundKnowledge

\* A risk table of another configuration is not overwritten (Stores).
ForeignRiskKept == S!ForeignRiskKept

\* What admission concludes has evidence behind it: a slack called safe was seen to be,
\* at no more slack, a knee is a level worse than those below it, and the gate made of
\* it shuts that level and those above (Evidence); in a monotone world a state called
\* safe is safe (RiskTable); measured prefill times do not contradict each other
\* (ServiceTables).
ConclusionsBacked ==
  /\ part = "evidence" => E!SlackIsBacked /\ E!KneeIsCongestion /\ E!GateMatchesBins
  /\ part = "risk" => R!SafeIsSafe
  /\ part = "tables" => T!TablesConsistent

\* An interrupted campaign writes what one run would have, and overload is not taken for
\* a stall (Measure, MeasureWindow).
ResumesClean == part = "measure" => M!ResumesClean /\ OverloadIsSeen

\* Tokens and errors of a stream do not depend on how it is cut into chunks (StreamTimer).
ChunkingIrrelevant == ST!ChunkingIrrelevant

\* A replay loses no request and leaves nothing running (LoadRun).
RunAccounted == L!RunAccounted
=============================================================================
