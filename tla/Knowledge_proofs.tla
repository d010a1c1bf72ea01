-------------------------- MODULE Knowledge_proofs --------------------------
(***************************************************************************)
(* Proofs about what CanaTune has learned, part by part: the frequency      *)
(* table, the files, the replay of a trace, the measuring campaign, the     *)
(* conclusions of tables and counts, the tokens of a stream.                *)
(***************************************************************************)
EXTENDS Knowledge, FiniteLemmas, SequenceTheorems, TLAPS

(***************************************************************************)
(* What WorkloadFrequencyTable promises for any threads, workloads and      *)
(* decisions: memory agrees with the file whenever the lock is free, no     *)
(* conditional write is based on a decision it has not seen, and the file   *)
(* never goes back.                                                         *)
(*                                                                          *)
(* The inductive invariant says what is true while the lock is held: taking *)
(* the write back would restore the file, and the write improves on it.     *)
(***************************************************************************)

\* Without a process there is no writer, and nothing was read.
Dead == entries = None => holder = None /\ seen = NothingSeen

\* With one, the file exists; it is what memory shows, or was before the write that
\* holds the lock.
Backed ==
  entries # None =>
    /\ disk # None
    /\ holder = None => entries = disk
    /\ holder # None => TakenBack = disk

\* The write under way is one revision further and improves on what it replaces.
Improving ==
  holder # None =>
    LET w == holder.workload IN
    /\ entries[w].revision = holder.before.revision + 1
    /\ Improves(holder.before.value, entries[w].value)

\* What a thread has read was in the file, at a revision the file has not left behind
\* without counting on: at the same revision it is still the same entry.
SeenInFile ==
  \A t \in Writers, w \in Workloads :
    seen[t][w] # None =>
      /\ disk # None
      /\ seen[t][w].revision <= disk[w].revision
      /\ seen[t][w].revision = disk[w].revision => seen[t][w] = disk[w]

IInv == TypeOK /\ Dead /\ Backed /\ Improving /\ SeenInFile /\ NoLostUpdate

-----------------------------------------------------------------------------
\* A fresh table and nothing read are well typed.
LEMMA FreshTypes ==
  /\ Fresh \in Tables
  /\ NothingSeen \in [Writers -> [Workloads -> Entries \cup {None}]]
BY FrequencyTableAssumption DEF Fresh, NothingSeen, Tables, Entries

\* While the lock is held there is a process, and taking the write back gives the file:
\* the entry before it is the file's, and the other workloads' entries are.
LEMMA Held ==
  ASSUME IInv, holder # None
  PROVE  /\ entries \in Tables /\ disk \in Tables /\ holder \in Holds
         /\ holder.before = disk[holder.workload]
         /\ \A w \in Workloads : w # holder.workload => entries[w] = disk[w]
<1>1. entries # None
  BY DEF IInv, Dead
<1>2. entries \in Tables /\ disk \in Tables /\ holder \in Holds
  BY <1>1 DEF IInv, TypeOK, Backed
<1>3. TakenBack = disk
  BY <1>1 DEF IInv, Backed
<1> QED
  BY <1>2, <1>3 DEF TakenBack, Tables, Holds

\* The first state: nothing runs, nothing is saved.
LEMMA InitIInv == Init => IInv
BY FreshTypes DEF Init, IInv, TypeOK, Dead, Backed, Improving, SeenInFile, NoLostUpdate,
                  NothingSeen

-----------------------------------------------------------------------------
\* Starting reads the file, or saves a fresh one.
LEMMA StartIInv ==
  ASSUME IInv, Start
  PROVE  IInv'
<1>1. entries = None /\ holder = None /\ seen = NothingSeen
  BY DEF IInv, Dead, Start
<1>2. entries' \in Tables /\ disk' = entries' /\ UNCHANGED <<holder, seen>>
  BY FreshTypes DEF IInv, TypeOK, Start
<1>3. entries' # None
  BY <1>2, FrequencyTableAssumption
<1>4. \A t \in Writers, w \in Workloads : seen'[t][w] = None
  BY <1>1, <1>2 DEF NothingSeen
<1>5. TypeOK'
  BY <1>2 DEF IInv, TypeOK
<1> QED
  BY <1>1, <1>2, <1>3, <1>4, <1>5 DEF IInv, Dead, Backed, Improving, SeenInFile, NoLostUpdate

\* Reading waits for the lock, so it sees what is in the file.
LEMMA ReadIInv ==
  ASSUME IInv, NEW t \in Writers, NEW w \in Workloads, Read(t, w)
  PROVE  IInv'
<1>1. entries # None /\ holder = None /\ entries = disk /\ entries \in Tables
  BY DEF IInv, TypeOK, Backed, Read, Free
<1>2. UNCHANGED <<entries, disk, holder>> /\ seen' = [seen EXCEPT ![t][w] = entries[w]]
  BY DEF Read
<1>3. entries[w] \in Entries
  BY <1>1 DEF Tables
<1>4. TypeOK'
  BY <1>2, <1>3 DEF IInv, TypeOK
<1>5. \A u \in Writers, x \in Workloads :
        seen'[u][x] = IF u = t /\ x = w THEN disk[w] ELSE seen[u][x]
  BY <1>1, <1>2 DEF IInv, TypeOK
<1>6. SeenInFile'
  <2> SUFFICES ASSUME NEW u \in Writers, NEW x \in Workloads, seen'[u][x] # None
               PROVE  /\ disk' # None
                      /\ seen'[u][x].revision <= disk'[x].revision
                      /\ seen'[u][x].revision = disk'[x].revision => seen'[u][x] = disk'[x]
    BY DEF SeenInFile
  <2>1. CASE u = t /\ x = w
    <3>1. disk[w].revision \in Nat
      BY <1>1, <1>3 DEF Entries
    <3> QED
      BY <2>1, <3>1, <1>1, <1>2, <1>5
  <2>2. CASE ~(u = t /\ x = w)
    BY <2>2, <1>2, <1>5 DEF IInv, SeenInFile
  <2> QED
    BY <2>1, <2>2
<1> QED
  BY <1>1, <1>2, <1>4, <1>6 DEF IInv, Dead, Backed, Improving, NoLostUpdate, TakenBack

\* A write changes one entry of what is in the file, and keeps what was there.
LEMMA WriteIInv ==
  ASSUME IInv, NEW t \in Writers, NEW w \in Workloads, NEW v \in Decisions,
         NEW conditional \in BOOLEAN, Write(t, w, v, conditional)
  PROVE  IInv'
<1> DEFINE entry == [revision |-> entries[w].revision + 1, value |-> v]
           hold == [by |-> t, workload |-> w, before |-> entries[w],
                    conditional |-> conditional]
<1>1. entries # None /\ holder = None /\ entries = disk /\ entries \in Tables
  BY DEF IInv, TypeOK, Backed, Write, Free
<1>2. /\ entries' = [entries EXCEPT ![w] = entry]
      /\ holder' = hold
      /\ UNCHANGED <<disk, seen>>
  BY DEF Write
<1>3. entries[w] \in Entries /\ entry \in Entries
  <2>1. entries[w] \in Entries /\ entries[w].revision < MaxRevision
    BY <1>1 DEF Tables, Write
  <2> QED
    BY <2>1, FrequencyTableAssumption DEF Entries
<1>4. entries' \in Tables /\ hold \in Holds
  BY <1>1, <1>2, <1>3 DEF Tables, Holds
<1>5. entries' # None /\ holder' # None
  BY <1>2, <1>4, FrequencyTableAssumption
<1>6. TypeOK'
  BY <1>2, <1>4 DEF IInv, TypeOK
<1>7. entries'[w] = entry
  BY <1>1, <1>2 DEF Tables
<1>8. TakenBack' = disk'
  <2>1. TakenBack' = [entries' EXCEPT ![w] = entries[w]]
    BY <1>2 DEF TakenBack
  <2>2. [entries' EXCEPT ![w] = entries[w]] = entries
    BY <1>1, <1>2 DEF Tables
  <2> QED
    BY <2>1, <2>2, <1>1, <1>2
<1>9. Improving'
  BY <1>2, <1>7 DEF Improving, Write, Improves
<1>10. SeenInFile'
  BY <1>2 DEF IInv, SeenInFile
<1>11. NoLostUpdate'
  <2> SUFFICES ASSUME conditional
               PROVE  seen[t][w].value = entries[w].value
    BY <1>2 DEF NoLostUpdate
  <2>1. seen[t][w] # None /\ seen[t][w].revision = entries[w].revision
    BY DEF Write, Expected
  <2>2. seen[t][w] = disk[w]
    BY <2>1, <1>1 DEF IInv, SeenInFile
  <2> QED
    BY <2>2, <1>1
<1> QED
  BY <1>1, <1>2, <1>5, <1>6, <1>8, <1>9, <1>10, <1>11 DEF IInv, Dead, Backed

\* Saving brings the file to the next revision.
LEMMA SavedIInv ==
  ASSUME IInv, Saved
  PROVE  IInv'
<1>1. holder # None /\ disk' = entries /\ holder' = None /\ UNCHANGED <<entries, seen>>
  BY DEF Saved
<1>2. /\ entries \in Tables /\ disk \in Tables /\ holder \in Holds
      /\ holder.before = disk[holder.workload]
      /\ \A w \in Workloads : w # holder.workload => entries[w] = disk[w]
  BY <1>1, Held
<1>3. entries # None /\ disk # None
  BY <1>2, FrequencyTableAssumption
<1>4. TypeOK'
  BY <1>1, <1>2 DEF IInv, TypeOK
<1>5. SeenInFile'
  <2> SUFFICES ASSUME NEW t \in Writers, NEW w \in Workloads, seen[t][w] # None
               PROVE  /\ seen[t][w].revision <= entries[w].revision
                      /\ seen[t][w].revision = entries[w].revision => seen[t][w] = entries[w]
    BY <1>1, <1>3 DEF SeenInFile
  <2>1. /\ seen[t][w].revision <= disk[w].revision
        /\ seen[t][w].revision = disk[w].revision => seen[t][w] = disk[w]
    BY DEF IInv, SeenInFile
  <2>2. CASE w # holder.workload
    BY <2>1, <2>2, <1>2
  <2>3. CASE w = holder.workload
    <3>1. entries[w].revision = disk[w].revision + 1
      BY <2>3, <1>1, <1>2 DEF IInv, Improving
    <3>2. seen[t][w].revision \in Nat /\ disk[w].revision \in Nat
      BY <1>2 DEF IInv, TypeOK, Tables, Entries
    <3> QED
      BY <2>1, <3>1, <3>2
  <2> QED
    BY <2>2, <2>3
<1> QED
  BY <1>1, <1>3, <1>4, <1>5 DEF IInv, Dead, Backed, Improving, NoLostUpdate

\* A failed save takes the write back, and memory is the file again.
LEMMA SaveFailsIInv ==
  ASSUME IInv, SaveFails
  PROVE  IInv'
<1>1. /\ holder # None /\ entries' = TakenBack /\ holder' = None
      /\ UNCHANGED <<disk, seen>>
  BY DEF SaveFails
<1>2. entries # None /\ disk \in Tables
  BY <1>1, Held, FrequencyTableAssumption
<1>3. entries' = disk
  BY <1>1, <1>2 DEF IInv, Backed
<1>4. entries' # None
  BY <1>2, <1>3, FrequencyTableAssumption
<1>5. TypeOK'
  BY <1>1, <1>2, <1>3 DEF IInv, TypeOK
<1> QED
  BY <1>1, <1>3, <1>4, <1>5 DEF IInv, Dead, Backed, Improving, SeenInFile, NoLostUpdate

\* A death leaves the file.
LEMMA CrashIInv ==
  ASSUME IInv, Crash
  PROVE  IInv'
<1>1. entries' = None /\ holder' = None /\ seen' = NothingSeen /\ UNCHANGED disk
  BY DEF Crash
<1>2. \A t \in Writers, w \in Workloads : seen'[t][w] = None
  BY <1>1 DEF NothingSeen
<1>3. TypeOK'
  BY <1>1, FreshTypes DEF IInv, TypeOK
<1> QED
  BY <1>1, <1>2, <1>3 DEF IInv, Dead, Backed, Improving, SeenInFile, NoLostUpdate

\* Every step keeps the invariant.
LEMMA NextIInv == IInv /\ [Next]_vars => IInv'
<1> SUFFICES ASSUME IInv, [Next]_vars
             PROVE  IInv'
  OBVIOUS
<1>1. CASE Start
  BY <1>1, StartIInv
<1>2. ASSUME NEW t \in Writers, NEW w \in Workloads, Read(t, w)
      PROVE  IInv'
  BY <1>2, ReadIInv
<1>3. ASSUME NEW t \in Writers, NEW w \in Workloads, NEW v \in Decisions,
             NEW conditional \in BOOLEAN, Write(t, w, v, conditional)
      PROVE  IInv'
  BY <1>3, WriteIInv
<1>4. CASE Saved
  BY <1>4, SavedIInv
<1>5. CASE SaveFails
  BY <1>5, SaveFailsIInv
<1>6. CASE Crash
  BY <1>6, CrashIInv
<1>7. CASE UNCHANGED vars
  BY <1>7 DEF vars, IInv, TypeOK, Dead, Backed, Improving, SeenInFile, NoLostUpdate, TakenBack
<1> QED
  BY <1>1, <1>2, <1>3, <1>4, <1>5, <1>6, <1>7 DEF Next

\* The inductive invariant holds.
LEMMA AlwaysIInv == Spec => []IInv
BY InitIInv, NextIInv, PTL DEF Spec

-----------------------------------------------------------------------------
\* Every variable keeps its type.
THEOREM TableTypes == Spec => []TypeOK
<1>1. IInv => TypeOK
  BY DEF IInv
<1> QED
  BY <1>1, AlwaysIInv, PTL

\* Whenever the lock is free, memory is what a restart would read: neither a failed save
\* nor a death leaves a decision only this process knows (write, _persist_locked).
THEOREM MemoryAgrees == Spec => []MemoryIsDisk
<1>1. IInv => MemoryIsDisk
  BY DEF IInv, Backed, MemoryIsDisk, Free
<1> QED
  BY <1>1, AlwaysIInv, PTL

\* A conditional write replaces the decision its thread had read, whatever others wrote
\* and failed saves took back meanwhile (RevisionConflict).
THEOREM UpdatesKept == Spec => []NoLostUpdate
<1>1. IInv => NoLostUpdate
  BY DEF IInv
<1> QED
  BY <1>1, AlwaysIInv, PTL

\* The file never goes back: each save is one revision further for one workload, and
\* replaces a measured decision only by a measured one of less energy (Improves).
THEOREM FileImproves == Spec => OnlyImproves
<1> DEFINE Better ==
      disk # None =>
        \A w \in Workloads :
          disk'[w] # disk[w] =>
            /\ disk'[w].revision = disk[w].revision + 1
            /\ disk[w].value # None /\ disk[w].value.met =>
                 disk'[w].value.met /\ disk'[w].value.mark < disk[w].value.mark
<1>1. IInv /\ [Next]_vars => [Better]_vars
  <2> SUFFICES ASSUME IInv, Next, disk # None, NEW w \in Workloads, disk'[w] # disk[w]
               PROVE  /\ disk'[w].revision = disk[w].revision + 1
                      /\ disk[w].value # None /\ disk[w].value.met =>
                           /\ disk'[w].value.met
                           /\ disk'[w].value.mark < disk[w].value.mark
    OBVIOUS
  <2>1. ~Start
    BY DEF Start
  <2>2. Saved
    BY <2>1 DEF Next, Read, Write, SaveFails, Crash
  <2>3. /\ holder # None /\ disk' = entries
        /\ holder.before = disk[holder.workload]
        /\ \A x \in Workloads : x # holder.workload => entries[x] = disk[x]
    BY <2>2, Held DEF Saved
  <2>4. w = holder.workload
    BY <2>3
  <2> QED
    BY <2>3, <2>4 DEF IInv, Improving, Improves
<1> QED
  BY <1>1, AlwaysIInv, PTL DEF Spec, OnlyImproves

-----------------------------------------------------------------------------
\* A step of Knowledge is a step of one part, and no other part sees it.
LEMMA PartSteps ==
  [PartsNext]_partsVars =>
    /\ [S!Next]_(S!vars)
    /\ [E!Next]_(E!vars) /\ [R!Next]_(R!vars) /\ [T!Next]_(T!vars)
    /\ [M!Next]_(M!vars) /\ [ST!Next]_(ST!vars) /\ [L!Next]_(L!vars)
    /\ part' = part
<1> USE DEF partsVars, storesVars, evidenceVars, riskVars, measureVars, tablesVars,
            clientVars, streamVars, loadVars, S!vars, S!learned, S!history, E!vars,
            R!vars, T!vars, M!vars, ST!vars, L!vars, L!tasks, L!action
<1> QED
  BY DEF PartsNext, FrequencyPart, StoresPart, EvidencePart, RiskPart, TablesPart,
         MeasurePart, StreamPart, LoadPart

\* The parts count as FiniteSets does.
LEMMA SameCardinality ==
  \A X : S!Cardinality(X) = Cardinality(X) /\ L!Cardinality(X) = Cardinality(X)
  BY DEF S!Cardinality, L!Cardinality, Cardinality

-----------------------------------------------------------------------------
(***************************************************************************)
(* The files of domain/groups.py, risk.py and admission.py over any number  *)
(* of configurations, starts, shutdowns and crashes: what a process goes by *)
(* is whole, its own and counted once, and a foreign risk table is kept.    *)
(***************************************************************************)

Revisions == 1..MaxTables

Counts == [Configs -> Nat]

-----------------------------------------------------------------------------
\* What is true of a table, risk samples and slack counts wherever they are: in memory,
\* in a save under way or in a file.

SoundTier(t) == t \in S!Tables /\ t.rev <= tables

SoundCells(s, c) ==
  s \in Counts /\ \A d \in Configs : s[d] <= finished[d] /\ (d # c => s[d] = 0)

SoundRisk(f) == f \in RiskFiles /\ SoundCells(f.cells, f.by)

SoundSlackCounts(s) == s \in Counts /\ \A d \in Configs : s[d] <= finished[d]

SoundSeed(s) == s \in SUBSET Revisions /\ (s = {} \/ \E r \in Revisions : s = {r})

SoundSlack(f) == f \in SlackFiles /\ SoundSlackCounts(f.counts) /\ SoundSeed(f.seed)

SoundDisk ==
  /\ DOMAIN files = {"tier", "risk", "slack"}
  /\ files.tier # None => SoundTier(files.tier)
  /\ files.risk # None => SoundRisk(files.risk)
  /\ files.slack # None => SoundSlack(files.slack)

\* A save of the risk table is one of the running configuration, over no other's.
SoundSaving ==
  saving # None =>
    /\ S!Running
    /\ saving \in [file : {"tier", "risk", "slack"}, content : {saving.content}, whole : BOOLEAN]
    /\ saving.file = "tier" => SoundTier(saving.content)
    /\ saving.file = "risk" =>
         keeps /\ SoundRisk(saving.content) /\ saving.content.by = config
    /\ saving.file = "slack" => SoundSlack(saving.content)

\* The path of the risk table is kept where the file is absent or the configuration's.
KeepsOwn == keeps /\ files.risk # None => files.risk.by = config

SoundMemory ==
  /\ finished \in Counts /\ tables \in Nat /\ tables <= MaxTables
  /\ applied \in Nat /\ applied <= tables
  /\ SoundSlackCounts(counts) /\ SoundSeed(calibration)
  /\ \A c \in Configs : cells[c] <= finished[c]
  /\ cells \in Counts
  /\ S!Running =>
       /\ config \in Configs
       /\ SoundCells(cells, config)
       /\ tier # None => SoundTier(tier) /\ tier.by = config

SeedApplied ==
  S!Running /\ tier # None /\ applied = tier.rev /\ tier.admission => calibration = {tier.rev}

FilesInv == SoundDisk /\ SoundSaving /\ KeepsOwn /\ SoundMemory /\ SeedApplied

-----------------------------------------------------------------------------
\* Nothing is known and nothing is kept at the start.
LEMMA InitFiles == PartsInit => FilesInv
<1> SUFFICES ASSUME PartsInit PROVE FilesInv
  OBVIOUS
<1>1. S!Zero \in Counts /\ \A c \in Configs : S!Zero[c] = 0
  BY DEF S!Zero, Counts
<1>2. SoundSeed({})
  BY DEF SoundSeed
<1>3. SoundDisk /\ SoundSaving /\ KeepsOwn /\ SeedApplied
  BY DEF PartsInit, S!Init, SoundDisk, SoundSaving, KeepsOwn, SeedApplied, S!Running
<1>4. SoundMemory
  BY <1>1, <1>2, KnowledgeAssumption DEF PartsInit, S!Init, SoundMemory, SoundSlackCounts, KnowledgeAssumption, S!Running
<1> QED
  BY <1>3, <1>4 DEF FilesInv

\* A start takes what a readable file holds, or begins with nothing.
LEMMA StartFiles ==
  ASSUME FilesInv, NEW c \in Configs, S!Start(c)
  PROVE  FilesInv'
<1> USE DEF FilesInv, S!history
<1>1. S!Zero \in Counts /\ \A d \in Configs : S!Zero[d] = 0
  BY DEF S!Zero, Counts
<1>2. SoundSeed({})
  BY DEF SoundSeed
<1>3. SoundDisk'
  BY DEF S!Start, SoundDisk, SoundTier, SoundRisk, SoundCells, SoundSlack, SoundSlackCounts, SoundSeed
<1>4. saving = None /\ SoundSaving'
  BY DEF S!Start, SoundSaving
<1>5. KeepsOwn'
  BY DEF S!Start, KeepsOwn, S!KeepsRiskPath, S!RiskReadable
<1>6. SoundMemory'
  <2>1. SoundSlackCounts(counts)' /\ SoundSeed(calibration)'
    <3>1. CASE S!SlackReadable(c)
      BY <3>1 DEF S!Start, S!SlackReadable, SoundDisk, SoundSlack, SoundSlackCounts, SoundSeed
    <3>2. CASE ~S!SlackReadable(c)
      BY <1>1, <1>2, <3>2 DEF S!Start, SoundSlackCounts, SoundSeed, SoundMemory, Counts
    <3> QED BY <3>1, <3>2
  <2>2. SoundCells(cells, c)'
    <3>1. CASE S!RiskReadable(c)
      BY <3>1 DEF S!Start, S!RiskReadable, SoundDisk, SoundRisk, SoundCells
    <3>2. CASE ~S!RiskReadable(c)
      BY <1>1, <3>2 DEF S!Start, SoundCells, SoundMemory, Counts
    <3> QED BY <3>1, <3>2
  <2>3. tier' # None => SoundTier(tier)' /\ tier'.by = c
    BY DEF S!Start, S!TierLoaded, SoundDisk, SoundTier
  <2> QED
    BY <2>1, <2>2, <2>3 DEF S!Start, SoundMemory, SoundCells
<1>7. SeedApplied'
  BY DEF S!Start, SeedApplied, S!TierLoaded, SoundDisk, SoundTier, S!Tables
<1> QED
  BY <1>3, <1>4, <1>5, <1>6, <1>7

-----------------------------------------------------------------------------
\* A recorded request counts once in each place.
LEMMA RecordFiles ==
  ASSUME FilesInv, S!Record
  PROVE  FilesInv'
<1> USE DEF FilesInv, S!Record, S!Idle
<1>1. PICK n \in {0, 1} : counts' = [counts EXCEPT ![config] = @ + n]
  OBVIOUS
<1>2. finished' \in Counts /\ cells' \in Counts /\ counts' \in Counts
  BY <1>1 DEF SoundMemory, SoundSlackCounts, Counts
<1>3. \A d \in Configs : finished[d] <= finished'[d] /\ finished[d] \in Nat /\ finished'[d] \in Nat
  BY DEF SoundMemory, Counts
<1>4. SoundDisk'
  <2>1. \A f : SoundRisk(f) => SoundRisk(f)'
    BY <1>3 DEF SoundRisk, SoundCells, RiskFiles, Counts
  <2>2. \A f : SoundSlack(f) => SoundSlack(f)'
    BY <1>3 DEF SoundSlack, SoundSlackCounts, SlackFiles, SoundSeed, Counts
  <2> QED
    BY <2>1, <2>2 DEF SoundDisk, SoundTier
<1>5. SoundSaving' /\ KeepsOwn' /\ SeedApplied'
  BY DEF SoundSaving, KeepsOwn, SeedApplied, S!Running
<1>6. SoundMemory'
  <2>1. \A d \in Configs : cells'[d] <= finished'[d] /\ counts'[d] <= finished'[d]
    BY <1>1 DEF SoundMemory, SoundSlackCounts, Counts, S!Running
  <2>2. \A d \in Configs : d # config => cells'[d] = 0
    BY DEF SoundMemory, SoundCells, Counts, S!Running
  <2> QED
    BY <1>2, <2>1, <2>2 DEF SoundMemory, SoundCells, SoundSlackCounts, SoundSeed, SoundTier, S!Running
<1> QED
  BY <1>4, <1>5, <1>6

\* The seed becomes the calibration of the table in force.
LEMMA ApplyFiles ==
  ASSUME FilesInv, S!ApplyTable
  PROVE  FilesInv'
<1> USE DEF FilesInv, S!ApplyTable, S!Idle, S!history
<1>1. SoundDisk' /\ SoundSaving' /\ KeepsOwn'
  BY DEF SoundDisk, SoundTier, SoundRisk, SoundCells, SoundSlack, SoundSlackCounts, SoundSeed,
         SoundSaving, KeepsOwn, S!Running
<1>2. tier.rev \in Revisions /\ tier.rev <= tables /\ tier.rev \in Nat
  BY DEF SoundMemory, SoundTier, S!Tables, Revisions, S!Running
<1>3. SoundSeed(calibration)' /\ SeedApplied'
  BY <1>2 DEF SoundMemory, SoundSeed, S!SeedOf, SeedApplied
<1>4. SoundMemory'
  BY <1>2, <1>3 DEF SoundMemory, SoundSlackCounts, SoundCells, SoundTier, S!Running
<1> QED
  BY <1>1, <1>3, <1>4

\* A published table has a revision nobody has applied.
LEMMA PublishFiles ==
  ASSUME FilesInv, S!Publish
  PROVE  FilesInv'
<1> USE DEF FilesInv, S!Publish, S!Idle
<1>1. tables' = tables + 1 /\ tables' \in Nat /\ tables' <= MaxTables /\ tables \in Nat
  BY KnowledgeAssumption DEF SoundMemory, KnowledgeAssumption
<1>2. tier' \in S!Tables /\ tier'.by = config /\ tier'.rev = tables + 1
  BY <1>1, KnowledgeAssumption DEF SoundMemory, S!Tables, S!Running, KnowledgeAssumption
<1>3. saving' = [file |-> "tier", content |-> tier', whole |-> FALSE]
  BY DEF S!BeginSave
<1>4. \A t : SoundTier(t) => SoundTier(t)'
  BY <1>1 DEF SoundTier, S!Tables
<1>5. SoundDisk'
  BY <1>4 DEF SoundDisk, SoundRisk, SoundCells, SoundSlack, SoundSlackCounts, SoundSeed
<1>6. SoundTier(tier)'
  BY <1>1, <1>2 DEF SoundTier, S!Tables
<1>7. SoundSaving'
  BY <1>3, <1>6 DEF SoundSaving, SoundTier, S!Running
<1>8. KeepsOwn'
  BY DEF KeepsOwn
<1>9. SoundMemory' /\ SeedApplied'
  BY <1>1, <1>2, <1>6 DEF SoundMemory, SeedApplied, SoundSlackCounts, SoundCells, SoundSeed, S!Running
<1> QED
  BY <1>5, <1>7, <1>8, <1>9

\* A cap changes neither the owner nor the revision of the table.
LEMMA CapFiles ==
  ASSUME FilesInv, S!Cap
  PROVE  FilesInv'
<1> USE DEF FilesInv, S!Cap, S!Idle, S!history
<1>1. tier \in S!Tables /\ tier.by = config /\ tier.rev <= tables
  BY DEF SoundMemory, SoundTier, S!Running
<1>2. /\ tier' \in S!Tables /\ tier'.by = config /\ tier'.rev = tier.rev
      /\ tier'.admission = tier.admission
  BY <1>1 DEF S!Tables
<1>3. saving' = [file |-> "tier", content |-> tier', whole |-> FALSE]
  BY DEF S!BeginSave
<1>4. SoundTier(tier)'
  BY <1>1, <1>2 DEF SoundTier
<1>5. SoundDisk' /\ KeepsOwn'
  BY DEF SoundDisk, SoundTier, SoundRisk, SoundCells, SoundSlack, SoundSlackCounts, SoundSeed, KeepsOwn
<1>6. SoundSaving'
  BY <1>3, <1>4 DEF SoundSaving, SoundTier, S!Running
<1>7. SoundMemory' /\ SeedApplied'
  BY <1>1, <1>2, <1>4 DEF SoundMemory, SeedApplied, SoundSlackCounts, SoundCells, SoundSeed, S!Running
<1> QED
  BY <1>5, <1>6, <1>7

-----------------------------------------------------------------------------
\* The end of a process: memory is gone, the files stay.
LEMMA GoneFiles ==
  ASSUME SoundMemory, SoundDisk', S!Gone, UNCHANGED S!history
  PROVE  FilesInv'
<1> USE DEF S!Gone, S!history
<1>1. S!Zero \in Counts /\ \A d \in Configs : S!Zero[d] = 0
  BY DEF S!Zero, Counts
<1>2. SoundSaving' /\ KeepsOwn' /\ SeedApplied'
  BY DEF SoundSaving, KeepsOwn, SeedApplied, S!Running
<1>3. SoundMemory'
  BY <1>1 DEF SoundMemory, SoundSlackCounts, SoundSeed, S!Running, Counts
<1> QED
  BY <1>2, <1>3 DEF FilesInv

\* S!After a save the process goes on, saves the slack counts or has ended.
LEMMA AfterFiles ==
  ASSUME SoundMemory, SoundDisk', SeedApplied, KeepsOwn', saving # None,
         SoundSaving, NEW last \in BOOLEAN, S!After(saving.file, last), UNCHANGED S!history
  PROVE  FilesInv'
<1>1. CASE S!Ended(saving.file, last)
  BY <1>1, GoneFiles DEF S!After
<1>2. CASE ~S!Ended(saving.file, last)
  <2> USE DEF S!learned, S!history
  <2>1. /\ UNCHANGED <<config, tier, cells, counts, calibration, applied, keeps>>
        /\ IF saving.file = "risk" THEN S!BeginSave("slack", S!SlackFile) ELSE saving' = None
    BY <1>2 DEF S!After
  <2>2. SoundMemory' /\ SeedApplied'
    BY <2>1 DEF SoundMemory, SeedApplied, SoundSlackCounts, SoundCells, SoundSeed, SoundTier, S!Running
  <2>3. SoundSlack(S!SlackFile)'
    BY <2>1, <2>2 DEF S!SlackFile, SoundSlack, SlackFiles, Counts, Revisions, SoundMemory, SoundSlackCounts, SoundSeed,
                      SoundSaving, S!Running
  <2>4. S!SlackFile' = S!SlackFile
    BY <2>1 DEF S!SlackFile
  <2>5. SoundSaving'
    <3>1. CASE saving.file = "risk"
      <4>1. saving' = [file |-> "slack", content |-> S!SlackFile, whole |-> FALSE]
        BY <2>1, <3>1 DEF S!BeginSave
      <4> QED
        BY <2>1, <2>3, <2>4, <4>1 DEF SoundSaving, S!Running
    <3>2. CASE saving.file # "risk"
      BY <2>1, <3>2 DEF SoundSaving
    <3> QED
      BY <3>1, <3>2
  <2> QED
    BY <2>2, <2>5 DEF FilesInv
<1> QED
  BY <1>1, <1>2

\* A replacement puts a sound content in its file; a failed save changes no file.
LEMMA SavingFiles ==
  ASSUME FilesInv, S!WriteTemp \/ S!Replace \/ S!SaveFails \/ S!Shutdown \/ S!Crash
  PROVE  FilesInv'
<1> USE DEF FilesInv, S!history
<1>1. CASE S!WriteTemp
  <2> USE <1>1 DEF S!WriteTemp, S!learned
  <2>1. SoundDisk' /\ KeepsOwn' /\ SeedApplied'
    BY DEF SoundDisk, SoundTier, SoundRisk, SoundCells, SoundSlack, SoundSlackCounts, SoundSeed,
           KeepsOwn, SeedApplied, S!Running
  <2>2. SoundMemory'
    BY DEF SoundMemory, SoundCells, SoundSlackCounts, SoundSeed, SoundTier, S!Running
  <2>3. SoundSaving'
    BY DEF SoundSaving, SoundTier, SoundRisk, SoundCells, SoundSlack, SoundSlackCounts, SoundSeed,
           S!Running
  <2> QED
    BY <2>1, <2>2, <2>3
<1>2. CASE S!Replace
  <2>1. /\ saving # None /\ S!After(saving.file, TRUE) /\ UNCHANGED <<finished, tables>>
        /\ files' = [files EXCEPT ![saving.file] = saving.content]
    BY <1>2 DEF S!Replace
  <2>2. SoundDisk'
    BY <2>1 DEF SoundDisk, SoundSaving, SoundTier, SoundRisk, SoundCells, SoundSlack,
                SoundSlackCounts, SoundSeed
  <2>3. KeepsOwn'
    <3>1. CASE S!Ended(saving.file, TRUE)
      BY <2>1, <3>1 DEF S!After, S!Gone, KeepsOwn
    <3>2. CASE ~S!Ended(saving.file, TRUE)
      BY <2>1, <3>2 DEF S!After, S!learned, KeepsOwn, SoundSaving, SoundDisk
    <3> QED BY <3>1, <3>2
  <2> QED
    BY <2>1, <2>2, <2>3, AfterFiles
<1>3. CASE S!SaveFails
  <2>1. saving # None /\ S!After(saving.file, FALSE) /\ UNCHANGED <<files, finished, tables>>
    BY <1>3 DEF S!SaveFails
  <2>2. SoundDisk'
    BY <2>1 DEF SoundDisk, SoundTier, SoundRisk, SoundCells, SoundSlack, SoundSlackCounts, SoundSeed
  <2>3. KeepsOwn'
    <3>1. CASE S!Ended(saving.file, FALSE)
      BY <2>1, <3>1 DEF S!After, S!Gone, KeepsOwn
    <3>2. CASE ~S!Ended(saving.file, FALSE)
      BY <2>1, <3>2 DEF S!After, S!learned, KeepsOwn
    <3> QED BY <3>1, <3>2
  <2> QED
    BY <2>1, <2>2, <2>3, AfterFiles
<1>4. CASE S!Shutdown
  <2> USE <1>4 DEF S!Shutdown, S!Idle, S!learned
  <2>1. SoundDisk' /\ KeepsOwn' /\ SoundMemory' /\ SeedApplied'
    BY DEF SoundDisk, SoundTier, SoundRisk, SoundCells, SoundSlack, SoundSlackCounts, SoundSeed,
           KeepsOwn, SoundMemory, SeedApplied, S!Running
  <2>2. CASE keeps
    <3>1. saving' = [file |-> "risk", content |-> [by |-> config, cells |-> cells], whole |-> FALSE]
      BY <2>2 DEF S!BeginSave
    <3>2. SoundRisk([by |-> config, cells |-> cells])'
      BY DEF SoundRisk, RiskFiles, Counts, SoundMemory, SoundCells, S!Running
    <3> QED
      BY <2>1, <2>2, <3>1, <3>2 DEF SoundSaving, S!Running, SoundRisk
  <2>3. CASE ~keeps
    <3>1. saving' = [file |-> "slack", content |-> S!SlackFile, whole |-> FALSE]
      BY <2>3 DEF S!BeginSave
    <3>2. SoundSlack(S!SlackFile)' /\ S!SlackFile' = S!SlackFile
      BY <2>1 DEF SoundSlack, SlackFiles, S!SlackFile, Counts, Revisions, SoundMemory,
                  SoundSlackCounts, SoundSeed, S!Running
    <3> QED
      BY <2>1, <3>1, <3>2 DEF SoundSaving, S!Running
  <2> QED BY <2>2, <2>3
<1>5. CASE S!Crash
  <2>1. SoundDisk'
    BY <1>5 DEF S!Crash, SoundDisk, SoundTier, SoundRisk, SoundCells, SoundSlack, SoundSlackCounts, SoundSeed
  <2> QED
    BY <1>5, <2>1, GoneFiles DEF S!Crash
<1> QED
  BY <1>1, <1>2, <1>3, <1>4, <1>5

\* The invariant holds in every reachable state.
LEMMA FilesInvariant == PartsSpec => []FilesInv
<1>1. FilesInv /\ [S!Next]_(S!vars) => FilesInv'
  <2> SUFFICES ASSUME FilesInv, [S!Next]_(S!vars) PROVE FilesInv'
    OBVIOUS
  <2>1. ASSUME NEW c \in Configs, S!Start(c) PROVE FilesInv'
    BY <2>1, StartFiles
  <2>2. CASE S!Record
    BY <2>2, RecordFiles
  <2>3. CASE S!ApplyTable
    BY <2>3, ApplyFiles
  <2>4. CASE S!Publish
    BY <2>4, PublishFiles
  <2>5. CASE S!Cap
    BY <2>5, CapFiles
  <2>6. CASE S!WriteTemp \/ S!Replace \/ S!SaveFails \/ S!Shutdown \/ S!Crash
    BY <2>6, SavingFiles
  <2>7. CASE UNCHANGED S!vars
    BY <2>7 DEF S!vars, S!learned, S!history, FilesInv, SoundDisk, SoundTier, SoundRisk, SoundCells,
                SoundSlack, SoundSlackCounts, SoundSeed, SoundSaving, KeepsOwn, SoundMemory,
                SeedApplied, S!Running
  <2> QED
    BY <2>1, <2>2, <2>3, <2>4, <2>5, <2>6, <2>7 DEF S!Next
<1> QED
  BY <1>1, InitFiles, PartSteps, PTL DEF PartsSpec

-----------------------------------------------------------------------------
\* Whatever crashed, failed or was started in between, the files are whole, what a
\* process goes by was measured under its configuration, and nothing counts twice.
THEOREM KnowledgeSound == PartsSpec => []SoundKnowledge
<1>1. FilesInv => SoundKnowledge
  <2> SUFFICES ASSUME FilesInv PROVE SoundKnowledge
    OBVIOUS
  <2> USE DEF FilesInv
  <2>1. S!WholeFiles
    BY KnowledgeAssumption DEF SoundDisk, SoundTier, SoundRisk, SoundSlack, KnowledgeAssumption, S!WholeFiles
  <2>2. S!OwnTables
    BY DEF S!OwnTables, SoundMemory, SoundCells
  <2>3. S!Cardinality(calibration) <= 1
    <3>1. calibration = {} \/ \E r \in Revisions : calibration = {r}
      BY DEF SoundMemory, SoundSeed
    <3>2. Cardinality(calibration) = 0 \/ Cardinality(calibration) = 1
      BY <3>1, FS_EmptySet, FS_Singleton
    <3> QED
      BY <3>2, SameCardinality
  <2>4. S!CountedOnce
    BY <2>3 DEF S!CountedOnce, SoundMemory, SoundSlackCounts, SeedApplied
  <2> QED
    BY <2>1, <2>2, <2>4 DEF SoundKnowledge, S!SoundKnowledge
<1> QED
  BY <1>1, FilesInvariant, PTL

\* No run of one configuration changes the risk file of another.
THEOREM ForeignKept == PartsSpec => ForeignRiskKept
<1> DEFINE Kept ==
      \A c \in Configs :
        files.risk # None /\ files.risk.by = c /\ files'.risk # files.risk => config = c
<1>1. FilesInv /\ [S!Next]_(S!vars) => [Kept]_(S!vars)
  <2> SUFFICES ASSUME FilesInv, S!Next PROVE Kept
    OBVIOUS
  <2>1. CASE S!Replace
    BY <2>1 DEF S!Replace, FilesInv, SoundDisk, SoundSaving, KeepsOwn
  <2>2. CASE ~S!Replace
    BY <2>2 DEF S!Next, S!Start, S!Record, S!ApplyTable, S!Publish, S!Cap, S!WriteTemp, S!SaveFails, S!Shutdown, S!Crash
  <2> QED
    BY <2>1, <2>2
<1> QED
  BY <1>1, FilesInvariant, PartSteps, PTL DEF PartsSpec, ForeignRiskKept, S!ForeignRiskKept
-----------------------------------------------------------------------------
(***************************************************************************)
(* The replay of a trace (loadgen.py), for any number of requests: a task   *)
(* that could still write its line is pending, so what is counted when the  *)
(* drain ends covers every request without one.                             *)
(***************************************************************************)

Accounted ==
  /\ sent \in 0..Arrivals
  /\ stage \in {"play", "drain", "settle", "stop", "over"}
  /\ task \in [L!Trace -> {"none", "running", "ended", "cancelled"}]
  /\ pending \subseteq L!Trace
  /\ written \in [L!Trace -> Nat]
  /\ unfinished \in Nat
  /\ \A i \in L!Trace :
       /\ task[i] = "none" <=> i > sent
       /\ task[i] = "running" => i \in pending
       /\ written[i] = IF task[i] = "ended" THEN 1 ELSE 0
  /\ stage # "play" => sent = Arrivals
  /\ IF stage \in {"play", "drain"}
     THEN \A i \in L!Trace : task[i] # "cancelled"
     ELSE /\ \A i \in L!Trace : task[i] # "running"
          /\ Cardinality({i \in L!Trace : written[i] = 0}) <= unfinished
  /\ stage = "over" => poller = "ended"

\* Nothing is sent yet.
LEMMA InitAccounted == PartsInit => Accounted
  BY KnowledgeAssumption DEF KnowledgeAssumption, PartsInit, L!Init, L!Trace, Accounted

\* The drain counts what is pending, which every request without a line is.
LEMMA DrainAccounted ==
  ASSUME Accounted, L!DrainEnds
  PROVE  Accounted'
<1> DEFINE lost == {i \in L!Trace : written[i] = 0}
<1>1. /\ stage = "drain" /\ stage' = "settle" /\ sent' = sent
      /\ task' = [i \in L!Trace |-> IF task[i] = "running" THEN "cancelled" ELSE task[i]]
      /\ unfinished' = Cardinality(pending)
      /\ UNCHANGED <<pending, written>>
  BY SameCardinality DEF L!DrainEnds, L!CancelAll
<1>2. lost \subseteq pending
  BY <1>1 DEF Accounted, L!Trace
<1>3. IsFiniteSet(pending)
  <2>1. IsFiniteSet(1..Arrivals)
    BY KnowledgeAssumption, FS_Interval DEF KnowledgeAssumption
  <2>2. pending \in SUBSET (1..Arrivals)
    BY DEF Accounted, L!Trace
  <2> QED
    BY <2>1, <2>2, FS_Subset
<1>4. Cardinality(lost) <= unfinished' /\ unfinished' \in Nat
  <2> HIDE DEF lost
  <2>1. Cardinality(lost) <= Cardinality(pending) /\ Cardinality(pending) \in Nat
    BY <1>2, <1>3, FS_Subset, FS_CardinalityType
  <2> QED
    BY <1>1, <2>1
<1>5. \A i \in L!Trace : task'[i] # "running"
  BY <1>1
<1> QED
  BY <1>1, <1>4, <1>5 DEF Accounted

\* Every step of the replay keeps the account.
LEMMA AccountedStep == Accounted /\ [L!Next]_(L!vars) => Accounted'
<1> SUFFICES ASSUME Accounted, [L!Next]_(L!vars)
             PROVE  Accounted'
  OBVIOUS
<1> USE DEF L!tasks, L!action
<1>1. CASE L!SendNext
  <2>1. /\ stage = "play" /\ sent < Arrivals /\ sent' = sent + 1 /\ sent' \in L!Trace
        /\ task' = [task EXCEPT ![sent + 1] = "running"]
        /\ pending' = pending \cup {sent + 1}
        /\ UNCHANGED <<stage, written, unfinished, poller>>
    BY <1>1, KnowledgeAssumption DEF KnowledgeAssumption, L!SendNext, Accounted, L!Trace
  <2> QED
    BY <2>1, KnowledgeAssumption DEF KnowledgeAssumption, Accounted, L!Trace
<1>2. CASE L!PlayedOut \/ L!Settled \/ L!PollerEnds \/ L!Finish
  BY <1>2 DEF L!PlayedOut, L!Settled, L!PollerEnds, L!Finish, Accounted
<1>3. CASE L!DrainEnds
  BY <1>3, DrainAccounted
<1>4. ASSUME NEW i \in L!Trace, L!RequestEnds(i) \/ L!Discarded(i)
      PROVE  Accounted'
  <2>1. CASE L!RequestEnds(i)
    <3>1. /\ task[i] = "running" /\ task' = [task EXCEPT ![i] = "ended"]
          /\ written' = [written EXCEPT ![i] = @ + 1]
          /\ UNCHANGED <<stage, sent, pending, unfinished, poller>>
      BY <2>1 DEF L!RequestEnds
    <3>2. stage \in {"play", "drain"}
      BY <3>1 DEF Accounted
    <3> QED
      BY <3>1, <3>2 DEF Accounted
  <2>2. CASE L!Discarded(i)
    BY <2>2 DEF L!Discarded, Accounted
  <2> QED
    BY <1>4, <2>1, <2>2
<1>5. CASE L!PhaseBegins \/ L!PhaseEnds \/ \E lost \in BOOLEAN : L!Accepted(lost)
  BY <1>5 DEF L!PhaseBegins, L!PhaseEnds, L!Accepted, Accounted
<1>6. CASE UNCHANGED L!vars
  BY <1>6 DEF L!vars, Accounted
<1> QED
  BY <1>1, <1>2, <1>3, <1>4, <1>5, <1>6 DEF L!Next

\* A replay of any length leaves nothing running that could still record, writes no
\* request twice, and counts every request without a line as unfinished.
THEOREM ReplayAccounted == PartsSpec => []RunAccounted
<1>1. Accounted => RunAccounted
  <2> SUFFICES ASSUME Accounted, stage = "over"
               PROVE  /\ sent = Arrivals /\ poller = "ended"
                      /\ \A i \in L!Trace :
                           task[i] \in {"ended", "cancelled"} /\ written[i] <= 1
                      /\ L!Cardinality({i \in L!Trace : written[i] = 0}) <= unfinished
    BY DEF RunAccounted, L!RunAccounted
  <2> QED
    BY SameCardinality DEF Accounted, L!Trace
<1> QED
  BY <1>1, InitAccounted, AccountedStep, PartSteps, PTL DEF PartsSpec
-----------------------------------------------------------------------------
(***************************************************************************)
(* The measurement campaign (measure.py) over any plan, ended and started  *)
(* again any number of times.  A run goes through the windows in one order *)
(* and passes only what is recorded, what it records itself, or a row that *)
(* it lost to a torn line; it never comes back to the last in one run.     *)
(***************************************************************************)

Measuring == pc \in {"window", "requests", "summary"}

Lines == Seq(WindowRows \cup {Torn, Bad})

\* Window k comes before window l.
Before(k, l) ==
  \/ k.scan < l.scan
  \/ k.scan = l.scan /\ k.rate < l.rate
  \/ k.scan = l.scan /\ k.rate = l.rate /\ k.attempt < l.attempt

Campaign ==
  /\ pc \in {"down", "start", "warmup", "window", "requests", "summary", "ended"}
  /\ windows \in Lines
  /\ rows \in [M!Keys -> Nat]
  /\ ends \in Nat /\ done \subseteq M!Keys
  /\ pc \in {"down", "start", "warmup"} => at = M!First
  /\ pc # "warmup" => length = "plan"
  /\ Measuring => at \in M!Keys
  /\ pc \in {"requests", "summary"} =>
       /\ at \notin done
       /\ summary \in WindowRows /\ summary.key = at /\ (at.scan = 0 => ~summary.hot)

\* What a run goes by is what is recorded, but for rows it lost to a torn line.
Remembered ==
  pc # "down" =>
    /\ M!DoneKeys \subseteq done
    /\ pc \in {"start", "warmup"} => done = M!DoneKeys
    /\ Measuring => \A k \in done \ M!DoneKeys : Before(k, at)
    /\ M!Readable = DOMAIN windows => done = M!DoneKeys

\* A window is recorded once, and no rate beyond a saturated one.
Distinct ==
  \A i, j \in M!Readable : windows[i].key = windows[j].key => i = j

\* v lets its scan go on.
GoesOn(v) == ~v.hot \/ v.stalls

\* Where the run is, nothing it has recorded tells it to stop before.
NotBeyond(k) ==
  \A i \in M!Readable :
    LET row == windows[i] IN
    row.key.scan = k.scan /\ row.key.attempt = 0 =>
      /\ row.key.rate < k.rate => GoesOn(row)
      /\ row.key.rate = k.rate /\ k.attempt = 1 => row.stalls

Stopping ==
  /\ M!NeverBeyond
  /\ \A i \in M!Readable : windows[i].key.scan = 0 => ~windows[i].hot
  /\ Measuring => NotBeyond(at)

\* The window that follows the first p rows.
Upcoming(p) == IF p = 0 THEN M!First ELSE M!Follows(windows[p].key, windows[p])

\* Without torn lines the rows are a chain, and the run is somewhere on it.
Chained ==
  M!Readable = DOMAIN windows =>
    /\ \A i \in DOMAIN windows : windows[i].key = Upcoming(i - 1)
    /\ Measuring => \E p \in 0..Len(windows) : at = Upcoming(p)

\* The rows of requests are accounted for: by the window's row, by the end of a run, or
\* by a row lost to a torn line.
Written ==
  \A k \in M!Keys :
    LET counted == k \in M!DoneKeys \/ (pc = "summary" /\ at = k) IN
    /\ counted => rows[k] >= 1
    /\ rows[k] <= ends + Cardinality(M!Joined) + (IF counted THEN 1 ELSE 0)

CampaignInv == Campaign /\ Remembered /\ Distinct /\ Stopping /\ Chained /\ Written

-----------------------------------------------------------------------------
LEMMA CampaignFacts ==
  /\ M!First \in M!Keys /\ M!First.attempt = 0 /\ M!First.rate = 1
  /\ M!First.scan \in {0, 1}
  /\ \A k \in M!Keys : /\ k.scan \in Nat /\ k.rate \in Nat /\ k.attempt \in {0, 1}
                       /\ k.rate >= 1 /\ k # M!End
                       /\ k = M!Key(k.scan, k.rate, k.attempt)
                       /\ IF k.scan = 0 THEN k.rate <= Singles /\ k.attempt = 0
                          ELSE k.scan <= Scans /\ k.rate <= Rates
  /\ \A r \in WindowRows : /\ r \notin {Torn, Bad} /\ r.key \in M!Keys
                           /\ r.stalls \in BOOLEAN /\ r.hot \in BOOLEAN /\ r.length = "plan"
<1> USE KnowledgeAssumption DEF KnowledgeAssumption
<1>1. M!First \in M!Keys /\ M!First.attempt = 0 /\ M!First.rate = 1 /\ M!First.scan \in {0, 1}
  BY DEF M!First, M!Keys, M!Key, M!Begin
<1>2. ASSUME NEW k \in M!Keys
      PROVE  /\ k.scan \in Nat /\ k.rate \in Nat /\ k.attempt \in {0, 1}
             /\ k.rate >= 1 /\ k # M!End
             /\ k = M!Key(k.scan, k.rate, k.attempt)
             /\ IF k.scan = 0 THEN k.rate <= Singles /\ k.attempt = 0
                ELSE k.scan <= Scans /\ k.rate <= Rates
  BY DEF M!Keys, M!Key, M!Begin, M!End
<1>3. ASSUME NEW r \in WindowRows
      PROVE  /\ r \notin {Torn, Bad} /\ r.key \in M!Keys
             /\ r.stalls \in BOOLEAN /\ r.hot \in BOOLEAN /\ r.length = "plan"
  BY DEF WindowRows
<1> QED BY <1>1, <1>2, <1>3

\* The window after k is another attempt at it, the next rate, or the next scan.
LEMMA FollowsHow ==
  ASSUME NEW k \in M!Keys, NEW v, v.stalls \in BOOLEAN, v.hot \in BOOLEAN
  PROVE  /\ M!Follows(k, v) \in M!Keys \cup {M!End}
         /\ M!Follows(k, v).scan \in Nat
         /\ M!Follows(k, v).rate \in Nat
         /\ M!Follows(k, v).attempt \in {0, 1}
         /\ \/ /\ M!Follows(k, v).scan = k.scan /\ M!Follows(k, v).rate = k.rate
               /\ M!Follows(k, v).attempt = 1 /\ k.attempt = 0
               /\ v.stalls
            \/ /\ M!Follows(k, v).scan = k.scan /\ M!Follows(k, v).rate = k.rate + 1
               /\ M!Follows(k, v).attempt = 0
               /\ k.scan > 0 => GoesOn(v)
            \/ /\ M!Follows(k, v).scan = k.scan + 1 /\ M!Follows(k, v).rate = 1
               /\ M!Follows(k, v).attempt = 0
<1> DEFINE f == M!Follows(k, v)
<1> USE KnowledgeAssumption DEF KnowledgeAssumption
<1>1. CASE k.scan = 0 /\ k.rate < Singles
  <2>1. f = M!Key(0, k.rate + 1, 0)
    BY <1>1 DEF M!Follows
  <2> QED BY <1>1, <2>1, CampaignFacts DEF M!Key, M!Keys
<1>2. CASE k.scan = 0 /\ ~(k.rate < Singles)
  <2>1. f = M!Key(1, 1, 0)
    BY <1>2 DEF M!Follows, M!Begin
  <2>2. f \in M!Keys \cup {M!End}
    BY <2>1, CampaignFacts DEF M!Key, M!Keys, M!End, M!Begin
  <2> QED BY <1>2, <2>1, <2>2, CampaignFacts DEF M!Key
<1>3. CASE k.scan # 0 /\ v.stalls /\ k.attempt = 0
  <2>1. f = M!Key(k.scan, k.rate, 1)
    BY <1>3 DEF M!Follows
  <2> QED BY <1>3, <2>1, CampaignFacts DEF M!Key, M!Keys
<1>4. CASE k.scan # 0 /\ ~(v.stalls /\ k.attempt = 0) /\ ((~v.stalls /\ v.hot) \/ k.rate = Rates)
  <2>1. f = M!Key(k.scan + 1, 1, 0)
    BY <1>4 DEF M!Follows, M!Begin
  <2>2. k.scan \in 1..Scans /\ 1 \in 1..Rates
    BY <1>4, CampaignFacts
  <2>3. CASE k.scan + 1 \in 1..Scans
    BY <2>1, <2>2, <2>3 DEF M!Key, M!Keys
  <2>4. CASE k.scan = Scans
    BY <2>1, <2>4 DEF M!Key, M!End, M!Begin
  <2>5. f \in M!Keys \cup {M!End}
    BY <2>2, <2>3, <2>4
  <2> QED BY <1>4, <2>1, <2>5, CampaignFacts DEF M!Key
<1>5. CASE k.scan # 0 /\ ~(v.stalls /\ k.attempt = 0) /\ ~((~v.stalls /\ v.hot) \/ k.rate = Rates)
  <2>1. f = M!Key(k.scan, k.rate + 1, 0)
    BY <1>5 DEF M!Follows
  <2>2. GoesOn(v)
    BY <1>5 DEF GoesOn
  <2>3. k.scan \in 1..Scans /\ k.rate + 1 \in 1..Rates
    BY <1>5, CampaignFacts
  <2>4. f \in M!Keys
    BY <2>1, <2>3 DEF M!Keys, M!Key
  <2> QED BY <1>5, <2>1, <2>2, <2>4, CampaignFacts DEF M!Key
<1>6. \/ k.scan = 0 /\ k.rate < Singles
      \/ k.scan = 0 /\ ~(k.rate < Singles)
      \/ k.scan # 0 /\ v.stalls /\ k.attempt = 0
      \/ k.scan # 0 /\ ~(v.stalls /\ k.attempt = 0) /\ ((~v.stalls /\ v.hot) \/ k.rate = Rates)
      \/ k.scan # 0 /\ ~(v.stalls /\ k.attempt = 0) /\ ~((~v.stalls /\ v.hot) \/ k.rate = Rates)
  OBVIOUS
<1> HIDE DEF f
<1> QED BY <1>1, <1>2, <1>3, <1>4, <1>5, <1>6 DEF f

\* It comes later, and what came before k comes before it.
LEMMA FollowsLater ==
  ASSUME NEW k \in M!Keys, NEW v, v.stalls \in BOOLEAN, v.hot \in BOOLEAN
  PROVE  /\ Before(k, M!Follows(k, v))
         /\ \A l \in M!Keys : Before(l, k) => Before(l, M!Follows(k, v))
<1> DEFINE f == M!Follows(k, v)
<1>1. /\ f.scan \in Nat /\ f.rate \in Nat /\ f.attempt \in {0, 1}
      /\ \/ f.scan = k.scan /\ f.rate = k.rate /\ f.attempt = 1 /\ k.attempt = 0
         \/ f.scan = k.scan /\ f.rate = k.rate + 1
         \/ f.scan = k.scan + 1
  BY FollowsHow
<1> HIDE DEF f
<1>2. Before(k, f) /\ \A l \in M!Keys : Before(l, k) => Before(l, f)
  BY <1>1, CampaignFacts DEF Before
<1> QED BY <1>2 DEF f

\* The lines of the file, readable, joined and torn.
LEMMA LineFacts ==
  ASSUME Campaign
  PROVE  /\ DOMAIN windows = 1..Len(windows) /\ Len(windows) \in Nat
         /\ M!Readable \subseteq 1..Len(windows)
         /\ \A i \in M!Readable : windows[i] \in WindowRows
         /\ \A i \in DOMAIN windows : windows[i] \in WindowRows \cup {Torn, Bad}
         /\ M!DoneKeys \subseteq M!Keys
         /\ IsFiniteSet(M!Joined) /\ Cardinality(M!Joined) \in Nat
<1>1. DOMAIN windows = 1..Len(windows) /\ Len(windows) \in Nat
  BY DEF Campaign, Lines
<1>2. \A i \in DOMAIN windows : windows[i] \in WindowRows \cup {Torn, Bad}
  BY DEF Campaign, Lines
<1>3. IsFiniteSet(1..Len(windows)) /\ M!Joined \in SUBSET (1..Len(windows))
  BY <1>1, FS_Interval DEF M!Joined
<1>4. IsFiniteSet(M!Joined) /\ Cardinality(M!Joined) \in Nat
  BY <1>3, FS_Subset, FS_CardinalityType
<1> QED BY <1>1, <1>2, <1>4, CampaignFacts DEF M!Readable, M!DoneKeys

-----------------------------------------------------------------------------
\* A whole row appended is read from now on; a torn one is not.
LEMMA Added ==
  ASSUME Campaign, NEW row \in WindowRows \cup {Torn}, windows' = Append(windows, row)
  PROVE  /\ windows' \in Lines
         /\ Len(windows') = Len(windows) + 1
         /\ DOMAIN windows' = DOMAIN windows \cup {Len(windows')}
         /\ \A i \in DOMAIN windows : windows'[i] = windows[i]
         /\ windows'[Len(windows')] = row
         /\ M!Readable' = IF row = Torn THEN M!Readable ELSE M!Readable \cup {Len(windows')}
         /\ M!Joined' = M!Joined
<1> USE KnowledgeAssumption DEF KnowledgeAssumption
<1> DEFINE n == Len(windows)
<1>1. windows \in Lines /\ n \in Nat /\ DOMAIN windows = 1..n /\ n + 1 \notin DOMAIN windows
  BY LineFacts DEF Campaign
<1>2. /\ windows' \in Lines /\ Len(windows') = n + 1 /\ windows'[n + 1] = row
      /\ \A i \in 1..n : windows'[i] = windows[i]
  BY <1>1, AppendProperties DEF Lines
<1>3. DOMAIN windows' = 1..(n + 1) /\ 1..(n + 1) = DOMAIN windows \cup {n + 1}
  BY <1>1, <1>2 DEF Lines
<1>4. row # Bad /\ (row \in {Torn, Bad} <=> row = Torn)
  BY CampaignFacts
<1> HIDE DEF n
<1>5. M!Readable' = IF row = Torn THEN M!Readable ELSE M!Readable \cup {n + 1}
  BY <1>1, <1>2, <1>3, <1>4 DEF M!Readable
<1>6. M!Joined' = M!Joined
  BY <1>1, <1>2, <1>3, <1>4 DEF M!Joined
<1> QED BY <1>1, <1>2, <1>3, <1>5, <1>6 DEF n

\* A row that meets a torn one is lost with it.
LEMMA JoinedUp ==
  ASSUME Campaign, windows # <<>>, windows[Len(windows)] = Torn,
         windows' = Append(M!Front(windows), Bad)
  PROVE  /\ windows' \in Lines
         /\ Len(windows') = Len(windows)
         /\ DOMAIN windows' = DOMAIN windows
         /\ \A i \in M!Readable : windows'[i] = windows[i]
         /\ M!Readable' = M!Readable
         /\ Len(windows) \in DOMAIN windows \ M!Readable
         /\ Cardinality(M!Joined') = Cardinality(M!Joined) + 1
<1> USE KnowledgeAssumption DEF KnowledgeAssumption
<1> DEFINE n == Len(windows)
           front == M!Front(windows)
<1>1. windows \in Lines /\ n \in Nat /\ DOMAIN windows = 1..n
  BY LineFacts DEF Campaign
<1>2. n > 0
  BY <1>1, EmptySeq DEF Lines
<1>3. front \in Lines /\ Len(front) = n - 1 /\ \A i \in 1..(n - 1) : front[i] = windows[i]
  BY <1>1, <1>2, SubSeqProperties DEF M!Front, Lines
<1>4. /\ windows' \in Lines /\ Len(windows') = n /\ windows'[n] = Bad
      /\ \A i \in 1..(n - 1) : windows'[i] = windows[i]
  <2>1. Bad \in WindowRows \cup {Torn, Bad}
    OBVIOUS
  <2> HIDE DEF n, front
  <2>2. Len(front) + 1 = n
    BY <1>1, <1>3
  <2> QED BY <1>1, <1>3, <2>1, <2>2, AppendProperties DEF Lines, front
<1>5. DOMAIN windows' = 1..n
  BY <1>4 DEF Lines
<1>6. n \in 1..n /\ 1..n = 1..(n - 1) \cup {n}
  BY <1>1, <1>2
<1>7. n \notin M!Readable /\ n \notin M!Joined
  BY DEF M!Readable, M!Joined
<1> HIDE DEF n, front
<1>8. M!Readable' = M!Readable
  BY <1>1, <1>4, <1>5, <1>6, <1>7 DEF M!Readable, n
<1>9. M!Joined' = M!Joined \cup {n}
  BY <1>1, <1>4, <1>5, <1>6, <1>7 DEF M!Joined, n
<1>10. Cardinality(M!Joined') = Cardinality(M!Joined) + 1
  BY <1>7, <1>9, LineFacts, FS_AddElement
<1>11. \A i \in M!Readable : windows'[i] = windows[i]
  BY <1>1, <1>4, <1>6, <1>7, LineFacts DEF n
<1> QED BY <1>1, <1>4, <1>5, <1>6, <1>7, <1>8, <1>10, <1>11 DEF n

-----------------------------------------------------------------------------
LEMMA InitCampaign == PartsInit => CampaignInv
<1> SUFFICES ASSUME M!Init PROVE CampaignInv
  BY DEF PartsInit
<1> USE DEF M!Init
<1>1. M!Readable = {} /\ M!DoneKeys = {} /\ M!Joined = {}
  BY DEF M!Readable, M!DoneKeys, M!Joined
<1>2. windows \in Lines /\ DOMAIN windows = {}
  BY DEF Lines
<1>3. Campaign
  BY <1>2 DEF Campaign, Measuring
<1>4. Remembered /\ Distinct /\ Stopping /\ Chained
  BY <1>1, <1>2 DEF Remembered, Distinct, Stopping, Chained, M!NeverBeyond, Measuring
<1>5. Written
  BY <1>1, FS_EmptySet DEF Written
<1> QED BY <1>3, <1>4, <1>5 DEF CampaignInv

\* What stays the same while windows.jsonl does.
LEMMA SameFile ==
  ASSUME windows' = windows
  PROVE  /\ M!Readable' = M!Readable /\ M!DoneKeys' = M!DoneKeys /\ M!Joined' = M!Joined
         /\ M!NeverBeyond' = M!NeverBeyond /\ Distinct' = Distinct
         /\ \A k : NotBeyond(k)' = NotBeyond(k)
         /\ \A p : Upcoming(p)' = Upcoming(p)
BY DEF M!Readable, M!DoneKeys, M!Joined, M!NeverBeyond, Distinct, NotBeyond, Upcoming

\* A run that is gone leaves nothing to come back to but the files.
LEMMA Gone ==
  ASSUME CampaignInv, M!Stop, windows' = windows, rows' = rows, ends' \in {ends, ends + 1},
         pc = "summary" => ends' = ends + 1
  PROVE  CampaignInv'
<1> USE DEF CampaignInv
<1>1. ends \in Nat /\ ends' \in Nat /\ ends' >= ends
  BY DEF Campaign
<1>2. Campaign'
  BY <1>1 DEF Campaign, M!Stop, Measuring
<1>3. Remembered' /\ Distinct' /\ Stopping' /\ Chained'
  <2>1. pc' = "down" /\ ~Measuring'
    BY DEF M!Stop, Measuring
  <2>2. Remembered'
    BY <2>1 DEF Remembered
  <2>3. Distinct'
    BY SameFile
  <2>4. Stopping'
    BY <2>1, SameFile DEF Stopping
  <2>5. Chained'
    BY <2>1, SameFile DEF Chained
  <2> QED BY <2>2, <2>3, <2>4, <2>5
<1>4. Written'
  <2> SUFFICES ASSUME NEW k \in M!Keys
               PROVE  /\ k \in M!DoneKeys => rows[k] >= 1
                      /\ rows[k] <= ends' + Cardinality(M!Joined) + (IF k \in M!DoneKeys THEN 1 ELSE 0)
    BY SameFile DEF Written, M!Stop
  <2>1. rows[k] \in Nat /\ Cardinality(M!Joined) \in Nat
    BY LineFacts DEF Campaign
  <2>2. CASE k \in M!DoneKeys
    BY <1>1, <2>1, <2>2 DEF Written
  <2>3. CASE k \notin M!DoneKeys /\ pc = "summary"
    BY <1>1, <2>1, <2>3 DEF Written
  <2>4. CASE k \notin M!DoneKeys /\ pc # "summary"
    BY <1>1, <2>1, <2>4 DEF Written
  <2> QED BY <2>2, <2>3, <2>4
<1> QED BY <1>2, <1>3, <1>4

LEMMA StartCampaign == CampaignInv /\ M!Start => CampaignInv'
<1> SUFFICES ASSUME CampaignInv, M!Start PROVE CampaignInv'
  OBVIOUS
<1> USE DEF CampaignInv, M!Start
<1>1. ~Measuring /\ ~Measuring'
  BY DEF Measuring
<1>2. Campaign'
  BY <1>1, LineFacts DEF Campaign
<1>3. Remembered'
  BY <1>1, SameFile DEF Remembered
<1>4. Distinct' /\ Stopping' /\ Chained'
  BY <1>1, SameFile DEF Stopping, Chained
<1>5. Written'
  BY SameFile DEF Written
<1> QED BY <1>2, <1>3, <1>4, <1>5

LEMMA WarmUpCampaign == CampaignInv /\ M!WarmUp => CampaignInv'
<1> SUFFICES ASSUME CampaignInv, M!WarmUp PROVE CampaignInv'
  OBVIOUS
<1> USE DEF CampaignInv, M!WarmUp
<1>1. ~Measuring /\ ~Measuring'
  BY DEF Measuring
<1>2. Campaign'
  BY <1>1 DEF Campaign
<1>3. Remembered'
  BY <1>1, SameFile DEF Remembered
<1>4. Distinct' /\ Stopping' /\ Chained'
  BY <1>1, SameFile DEF Stopping, Chained
<1>5. Written'
  BY SameFile DEF Written
<1> QED BY <1>2, <1>3, <1>4, <1>5

LEMMA WarmCampaign == CampaignInv /\ M!Warm => CampaignInv'
<1> SUFFICES ASSUME CampaignInv, M!Warm PROVE CampaignInv'
  OBVIOUS
<1> USE DEF CampaignInv, M!Warm
<1>1. Measuring' /\ ~Measuring /\ at' = M!First
  BY DEF Measuring, Campaign
<1>2. Campaign'
  BY <1>1, CampaignFacts DEF Campaign
<1>3. Remembered'
  <2>1. \A k \in done \ M!DoneKeys : Before(k, at')
    BY DEF Remembered
  <2> QED BY <2>1, <1>1, SameFile DEF Remembered
<1>4. Distinct'
  BY SameFile
<1>5. NotBeyond(M!First)
  <2> SUFFICES ASSUME NEW i \in M!Readable PROVE windows[i].key.rate >= 1 /\ windows[i].key.rate \in Nat
    BY CampaignFacts DEF NotBeyond
  <2> QED BY CampaignFacts, LineFacts
<1>6. Stopping'
  BY <1>1, <1>5, SameFile DEF Stopping
<1>7. Chained'
  <2>1. Upcoming(0) = M!First /\ 0 \in 0..Len(windows)
    BY LineFacts DEF Upcoming
  <2> QED BY <1>1, <2>1, SameFile DEF Chained
<1>8. Written'
  BY SameFile DEF Written
<1> QED BY <1>2, <1>3, <1>4, <1>6, <1>7, <1>8

LEMMA RunCampaign == CampaignInv /\ M!Run => CampaignInv'
<1> SUFFICES ASSUME CampaignInv, M!Run PROVE CampaignInv'
  OBVIOUS
<1> USE DEF CampaignInv
<1>1. Measuring /\ Measuring' /\ pc = "window" /\ pc' = "requests" /\ at \notin done /\ at \in M!Keys
  BY DEF Measuring, Campaign, M!Run
<1>2. UNCHANGED <<at, length, windows, rows, done, ends>> /\ length = "plan"
  BY DEF M!Run, Campaign
<1>3. summary' \in WindowRows /\ summary'.key = at /\ (at.scan = 0 => ~summary'.hot)
  <2>1. PICK v \in IF at.scan = 0 THEN {[stalls |-> FALSE, hot |-> FALSE]} ELSE Verdicts,
             before \in BOOLEAN, after \in BOOLEAN :
          summary' = [key |-> at, stalls |-> v.stalls, hot |-> v.hot, length |-> length,
                      energy |-> at.scan = 0 => M!Joules(before, after)]
    BY DEF M!Run
  <2>2. v.stalls \in BOOLEAN /\ v.hot \in BOOLEAN
    <3>1. ASSUME NEW ok PROVE Stalls(ok) \in BOOLEAN /\ Saturated(ok) \in BOOLEAN
      BY DEF Stalls, Saturated
    <3>2. CASE v \in Verdicts
      BY <3>1, <3>2 DEF Verdicts, Verdict
    <3>3. v = [stalls |-> FALSE, hot |-> FALSE] \/ v \in Verdicts
      BY <2>1
    <3>4. CASE v = [stalls |-> FALSE, hot |-> FALSE]
      BY <3>4
    <3> QED BY <3>2, <3>3, <3>4
  <2>3. at.scan = 0 => ~v.hot
    BY <2>1
  <2>4. (at.scan = 0 => M!Joules(before, after)) \in BOOLEAN
    OBVIOUS
  <2> QED BY <1>1, <1>2, <2>1, <2>2, <2>3, <2>4 DEF WindowRows
<1>4. Campaign'
  BY <1>1, <1>2, <1>3 DEF Campaign
<1>5. Remembered'
  BY <1>1, <1>2, SameFile DEF Remembered
<1>6. Distinct' /\ Stopping' /\ Chained'
  BY <1>1, <1>2, SameFile DEF Stopping, Chained
<1>7. Written'
  BY <1>1, <1>2, SameFile DEF Written
<1> QED BY <1>4, <1>5, <1>6, <1>7

LEMMA RequestsCampaign == CampaignInv /\ M!WriteRequests => CampaignInv'
<1> SUFFICES ASSUME CampaignInv, M!WriteRequests PROVE CampaignInv'
  OBVIOUS
<1> USE DEF CampaignInv
<1>1. /\ Measuring /\ Measuring' /\ pc = "requests" /\ pc' = "summary"
      /\ at \notin done /\ at \in M!Keys /\ M!DoneKeys \subseteq done
  BY DEF Measuring, Campaign, Remembered, M!WriteRequests
<1>2. UNCHANGED <<at, summary, length, windows, done, ends>>
  BY DEF M!WriteRequests
<1>3. rows' = [rows EXCEPT ![at] = rows[at] + 1] /\ rows \in [M!Keys -> Nat]
  BY DEF M!WriteRequests, Campaign
<1>4. Campaign'
  BY <1>1, <1>2, <1>3 DEF Campaign
<1>5. Remembered'
  BY <1>1, <1>2, SameFile DEF Remembered
<1>6. Distinct' /\ Stopping' /\ Chained'
  BY <1>1, <1>2, SameFile DEF Stopping, Chained
<1>7. Written'
  <2> SUFFICES ASSUME NEW k \in M!Keys
               PROVE  LET counted == k \in M!DoneKeys \/ at = k IN
                      /\ counted => rows'[k] >= 1
                      /\ rows'[k] <= ends + Cardinality(M!Joined) + (IF counted THEN 1 ELSE 0)
    BY <1>1, <1>2, SameFile DEF Written
  <2>1. Cardinality(M!Joined) \in Nat /\ ends \in Nat /\ rows[k] \in Nat
    BY LineFacts DEF Campaign
  <2>2. CASE k = at
    BY <1>1, <1>3, <2>1, <2>2 DEF Written
  <2>3. CASE k # at
    BY <1>1, <1>3, <2>1, <2>3 DEF Written
  <2> QED BY <2>2, <2>3
<1> QED BY <1>4, <1>5, <1>6, <1>7

\* The window after k is not beyond what k and those before it have shown.
LEMMA NextNotBeyond ==
  ASSUME Campaign, NEW k \in M!Keys, NotBeyond(k),
         NEW v, v.stalls \in BOOLEAN, v.hot \in BOOLEAN, k.scan = 0 => ~v.hot,
         \A i \in M!Readable : windows[i].key = k => windows[i] = v
  PROVE  /\ NotBeyond(M!Follows(k, v))
         /\ M!Follows(k, v).scan = k.scan /\ k.attempt = 0 =>
              /\ k.rate < M!Follows(k, v).rate => GoesOn(v)
              /\ k.rate = M!Follows(k, v).rate /\ M!Follows(k, v).attempt = 1 => v.stalls
<1> DEFINE f == M!Follows(k, v)
<1>1. /\ k.scan \in Nat /\ k.rate \in Nat /\ k.attempt \in {0, 1}
      /\ k = M!Key(k.scan, k.rate, k.attempt)
  BY CampaignFacts
<1>2. /\ f.scan \in Nat /\ f.rate \in Nat /\ f.attempt \in {0, 1}
      /\ \/ f.scan = k.scan /\ f.rate = k.rate /\ f.attempt = 1 /\ k.attempt = 0 /\ v.stalls
         \/ f.scan = k.scan /\ f.rate = k.rate + 1 /\ f.attempt = 0 /\ (k.scan > 0 => GoesOn(v))
         \/ f.scan = k.scan + 1 /\ f.rate = 1 /\ f.attempt = 0
  BY FollowsHow
<1>3. k.scan = 0 => GoesOn(v)
  BY DEF GoesOn
<1> HIDE DEF f
<1>4. f.scan = k.scan /\ k.attempt = 0 =>
        (k.rate < f.rate => GoesOn(v)) /\ (k.rate = f.rate /\ f.attempt = 1 => v.stalls)
  BY <1>1, <1>2, <1>3
<1>5. ASSUME NEW i \in M!Readable, windows[i].key.scan = f.scan, windows[i].key.attempt = 0
      PROVE  /\ windows[i].key.rate < f.rate => GoesOn(windows[i])
             /\ windows[i].key.rate = f.rate /\ f.attempt = 1 => windows[i].stalls
  <2> DEFINE row == windows[i]
  <2>1. /\ row.key.rate \in Nat /\ row.key.rate >= 1
        /\ row.key = M!Key(row.key.scan, row.key.rate, row.key.attempt)
        /\ row.key.scan \in Nat
    BY LineFacts, CampaignFacts
  <2>2. row.key.scan = k.scan =>
          /\ row.key.rate < k.rate => GoesOn(row)
          /\ row.key.rate = k.rate /\ k.attempt = 1 => row.stalls
    BY <1>5 DEF NotBeyond
  <2>3. row.key.scan = k.scan /\ row.key.rate = k.rate /\ k.attempt = 0 => row = v
    BY <1>1, <1>5, <2>1
  <2>4. row.stalls => GoesOn(row)
    BY DEF GoesOn
  <2>5. row.key.scan = f.scan
    BY <1>5
  <2> HIDE DEF row
  <2>6. /\ row.key.rate < f.rate => GoesOn(row)
        /\ row.key.rate = f.rate /\ f.attempt = 1 => row.stalls
    BY <1>1, <1>2, <1>3, <2>1, <2>2, <2>3, <2>4, <2>5
  <2> QED BY <2>6 DEF row
<1> QED BY <1>4, <1>5 DEF NotBeyond, f

\* Where the run goes on.
LEMMA ProceedsTo ==
  ASSUME Campaign, NEW k \in M!Keys, NEW v, v.stalls \in BOOLEAN, v.hot \in BOOLEAN,
         M!Proceed(M!Follows(k, v))
  PROVE  /\ at' = M!Follows(k, v) /\ pc' \in {"window", "ended"}
         /\ Measuring' => at' \in M!Keys
BY FollowsHow DEF M!Proceed, Measuring

LEMMA SkipCampaign == CampaignInv /\ M!Skip => CampaignInv'
<1> SUFFICES ASSUME CampaignInv, M!Skip PROVE CampaignInv'
  OBVIOUS
<1> USE DEF CampaignInv
<1> DEFINE Here == {i \in M!Readable : windows[i].key = at}
           row == CHOOSE i \in M!Readable :
                    windows[i].key = at /\ \A j \in M!Readable : windows[j].key = at => i <= j
<1>1. /\ Measuring /\ pc = "window" /\ at \in done /\ at \in M!Keys
      /\ UNCHANGED <<windows, rows, ends>>
  BY DEF Measuring, Campaign, M!Skip
<1>2. at \in M!DoneKeys
  <2>1. ~Before(at, at)
    BY <1>1, CampaignFacts DEF Before
  <2> QED BY <1>1, <2>1 DEF Remembered
<1>3. \E i \in M!Readable : windows[i].key = at /\ \A j \in M!Readable : windows[j].key = at => i <= j
  <2>1. PICK i \in M!Readable : windows[i].key = at
    BY <1>2 DEF M!DoneKeys
  <2>2. \A j \in M!Readable : windows[j].key = at => i <= j
    BY <2>1, LineFacts DEF Distinct
  <2> QED BY <2>1, <2>2
<1>4. row \in M!Readable /\ windows[row].key = at
  BY <1>3
<1>5. row \in DOMAIN windows /\ row \in 1..Len(windows) /\ windows[row] \in WindowRows
  BY <1>4, LineFacts
<1> HIDE DEF row
<1>6. CASE M!Stop
  BY <1>1, <1>6, Gone
<1>7. CASE M!Proceed(M!Follows(at, windows[row])) /\ UNCHANGED <<summary, length, done>>
  <2> DEFINE v == windows[row]
             f == M!Follows(at, v)
  <2>1. v.stalls \in BOOLEAN /\ v.hot \in BOOLEAN
    BY <1>5, CampaignFacts
  <2>2. at' = f /\ pc' \in {"window", "ended"} /\ (Measuring' => at' \in M!Keys)
    BY <1>1, <1>7, <2>1, ProceedsTo
  <2>3. Campaign'
    BY <1>1, <1>7, <2>2 DEF Campaign
  <2>4. Remembered'
    <3>1. ASSUME NEW k \in done \ M!DoneKeys PROVE Before(k, f)
      <4>1. Before(k, at) /\ at \in M!Keys
        BY <1>1 DEF Remembered
      <4>2. k \in M!Keys
        BY DEF Campaign
      <4> QED BY <1>1, <2>1, <4>1, <4>2, FollowsLater
    <3>2. pc # "down" /\ pc' \notin {"start", "warmup"}
      BY <1>1, <2>2
    <3> QED BY <1>1, <1>7, <2>2, <3>1, <3>2, SameFile DEF Remembered
  <2>5. Distinct'
    BY <1>1, SameFile
  <2>6. Stopping'
    <3>1. \A i \in M!Readable : windows[i].key = at => windows[i] = v
      BY <1>4 DEF Distinct
    <3>2. at.scan = 0 => ~v.hot
      BY <1>4 DEF Stopping
    <3>3. NotBeyond(at)
      BY <1>1 DEF Stopping
    <3>4. NotBeyond(f)
      BY <1>1, <2>1, <3>1, <3>2, <3>3, NextNotBeyond
    <3> HIDE DEF f, v
    <3> QED BY <1>1, <2>2, <3>4, SameFile DEF Stopping
  <2>7. Chained'
    <3>1. f = Upcoming(row) /\ row \in 0..Len(windows)
      BY <1>4, <1>5 DEF Upcoming
    <3> HIDE DEF f, v
    <3> QED BY <1>1, <2>2, <3>1, SameFile DEF Chained
  <2>8. Written'
    BY <1>1, <2>2, SameFile DEF Written
  <2> QED BY <2>3, <2>4, <2>5, <2>6, <2>7, <2>8
<1> QED BY <1>6, <1>7 DEF M!Skip, row

LEMMA EndEarlyCampaign == CampaignInv /\ M!EndEarly => CampaignInv'
BY Gone DEF M!EndEarly

\* The window's own row is on disk, or lost with a torn line before it.
LEMMA SummaryCampaign == CampaignInv /\ M!WriteSummary => CampaignInv'
<1> SUFFICES ASSUME CampaignInv, M!WriteSummary PROVE CampaignInv'
  OBVIOUS
<1> USE DEF CampaignInv
<1> DEFINE f == M!Follows(at, summary)
<1>1. /\ Measuring /\ pc = "summary" /\ at \in M!Keys /\ at \notin done
      /\ done' = done \cup {at} /\ UNCHANGED <<summary, length, rows, ends>>
      /\ M!DoneKeys \subseteq done
  BY DEF Measuring, Campaign, Remembered, M!WriteSummary
<1>2. summary \in WindowRows /\ summary.key = at /\ (at.scan = 0 => ~summary.hot)
  BY <1>1 DEF Campaign
<1>3. summary.stalls \in BOOLEAN /\ summary.hot \in BOOLEAN /\ summary \notin {Torn, Bad}
  BY <1>2, CampaignFacts
<1>4. at' = f /\ pc' \in {"window", "ended"} /\ (Measuring' => at' \in M!Keys)
  BY <1>1, <1>3, ProceedsTo DEF M!WriteSummary
<1>5. /\ NotBeyond(f)
      /\ f.scan = at.scan /\ at.attempt = 0 =>
           (at.rate < f.rate => GoesOn(summary))
           /\ (at.rate = f.rate /\ f.attempt = 1 => summary.stalls)
  <2>1. NotBeyond(at)
    BY <1>1 DEF Stopping
  <2>2. \A i \in M!Readable : windows[i].key = at => windows[i] = summary
    BY <1>1 DEF M!DoneKeys
  <2> QED BY <1>1, <1>2, <1>3, <2>1, <2>2, NextNotBeyond
<1>6. Before(at, f) /\ \A k \in done \ M!DoneKeys : Before(k, f)
  <2>1. Before(at, f)
    BY <1>1, <1>3, FollowsLater
  <2>2. ASSUME NEW k \in done \ M!DoneKeys PROVE Before(k, f)
    <3>1. Before(k, at) /\ k \in M!Keys
      BY <1>1 DEF Remembered, Campaign
    <3> QED BY <1>1, <1>3, <3>1, FollowsLater
  <2> QED BY <2>1, <2>2
<1>7. \A k \in M!Keys : rows[k] \in Nat
  BY DEF Campaign
<1>8. Cardinality(M!Joined) \in Nat /\ ends \in Nat
  BY LineFacts DEF Campaign
<1> HIDE DEF f
<1>9. CASE windows # <<>> /\ windows[Len(windows)] = Torn
  <2>1. windows' = Append(M!Front(windows), Bad)
    BY <1>9 DEF M!WriteSummary, M!Appended, M!Last
  <2>2. /\ windows' \in Lines /\ Len(windows') = Len(windows)
        /\ DOMAIN windows' = DOMAIN windows
        /\ \A i \in M!Readable : windows'[i] = windows[i]
        /\ M!Readable' = M!Readable
        /\ Len(windows) \in DOMAIN windows \ M!Readable
        /\ Cardinality(M!Joined') = Cardinality(M!Joined) + 1
    BY <1>9, <2>1, JoinedUp
  <2>3. M!DoneKeys' = M!DoneKeys
    BY <2>2 DEF M!DoneKeys
  <2>4. Campaign'
    BY <1>1, <1>4, <2>2 DEF Campaign
  <2>5. Remembered'
    BY <1>1, <1>4, <1>6, <2>2, <2>3 DEF Remembered
  <2>6. Distinct'
    BY <2>2 DEF Distinct
  <2>7. Stopping'
    <3>1. M!NeverBeyond'
      BY <2>2 DEF Stopping, M!NeverBeyond
    <3>2. Measuring' => NotBeyond(at)'
      BY <1>4, <1>5, <2>2 DEF NotBeyond
    <3> QED BY <2>2, <3>1, <3>2 DEF Stopping
  <2>8. Chained'
    BY <2>2 DEF Chained
  <2>9. Written'
    <3> SUFFICES ASSUME NEW k \in M!Keys
                 PROVE  /\ k \in M!DoneKeys => rows[k] >= 1
                        /\ rows[k] <= ends + (Cardinality(M!Joined) + 1)
                             + (IF k \in M!DoneKeys THEN 1 ELSE 0)
      BY <1>1, <1>4, <2>2, <2>3 DEF Written
    <3>1. CASE k \in M!DoneKeys
      BY <1>7, <1>8, <3>1 DEF Written
    <3>2. CASE k \notin M!DoneKeys /\ k = at
      BY <1>1, <1>7, <1>8, <3>2 DEF Written
    <3>3. CASE k \notin M!DoneKeys /\ k # at
      BY <1>1, <1>7, <1>8, <3>3 DEF Written
    <3> QED BY <3>1, <3>2, <3>3
  <2> QED BY <2>4, <2>5, <2>6, <2>7, <2>8, <2>9
<1>10. CASE ~(windows # <<>> /\ windows[Len(windows)] = Torn)
  <2>1. windows' = Append(windows, summary)
    BY <1>10 DEF M!WriteSummary, M!Appended, M!Last
  <2> PICK n : n = Len(windows')
    OBVIOUS
  <2>2. /\ windows' \in Lines /\ n = Len(windows) + 1
        /\ DOMAIN windows' = DOMAIN windows \cup {n}
        /\ \A i \in DOMAIN windows : windows'[i] = windows[i]
        /\ windows'[n] = summary
        /\ M!Readable' = M!Readable \cup {n}
        /\ M!Joined' = M!Joined
    BY <1>2, <1>3, <2>1, Added
  <2>3. /\ DOMAIN windows = 1..Len(windows) /\ Len(windows) \in Nat
        /\ M!Readable \subseteq DOMAIN windows /\ n \notin DOMAIN windows
    BY <2>2, LineFacts
  <2>4. \A i \in M!Readable : windows'[i] = windows[i] /\ i < n /\ windows[i].key # at
    BY <1>1, <2>2, <2>3 DEF M!DoneKeys
  <2>5. M!DoneKeys' = M!DoneKeys \cup {at}
    BY <1>2, <2>2, <2>4 DEF M!DoneKeys
  <2>6. Campaign'
    BY <1>1, <1>4, <2>2 DEF Campaign
  <2>7. Remembered'
    <3>1. M!Readable' = DOMAIN windows' => M!Readable = DOMAIN windows
      BY <2>2, <2>3
    <3> QED BY <1>1, <1>4, <1>6, <2>5, <3>1 DEF Remembered
  <2>8. Distinct'
    BY <1>2, <2>2, <2>4 DEF Distinct
  <2>9. Stopping'
    <3>1. M!NeverBeyond'
      <4> SUFFICES ASSUME NEW i \in M!Readable', NEW j \in M!Readable', i < j
                   PROVE  /\ windows'[i].key # windows'[j].key
                          /\ windows'[i].key.scan = windows'[j].key.scan /\ windows'[i].hot
                             /\ ~windows'[i].stalls /\ windows'[i].key.attempt = 0 =>
                               windows'[j].key.rate <= windows'[i].key.rate
        BY DEF M!NeverBeyond
      <4>1. CASE i \in M!Readable /\ j \in M!Readable
        BY <2>4, <4>1 DEF Stopping, M!NeverBeyond
      <4>2. CASE i \in M!Readable /\ j = n
        <5>1. NotBeyond(at)
          BY <1>1 DEF Stopping
        <5>2. windows'[i] = windows[i] /\ windows'[j] = summary /\ windows[i].key # at
          BY <2>2, <2>4, <4>2
        <5>3. windows[i].key.rate \in Nat /\ at.rate \in Nat
          BY <1>1, <4>2, LineFacts, CampaignFacts
        <5>4. windows[i].key.scan = at.scan /\ windows[i].hot /\ ~windows[i].stalls
              /\ windows[i].key.attempt = 0 => ~(windows[i].key.rate < at.rate)
          BY <4>2, <5>1 DEF NotBeyond, GoesOn
        <5> QED BY <1>2, <5>2, <5>3, <5>4
      <4>3. CASE i = n
        BY <2>2, <2>3, <2>4, <4>3
      <4> QED BY <2>2, <4>1, <4>2, <4>3
    <3>2. \A i \in M!Readable' : windows'[i].key.scan = 0 => ~windows'[i].hot
      BY <1>2, <2>2, <2>4 DEF Stopping
    <3>3. NotBeyond(at)'
      <4> SUFFICES ASSUME NEW i \in M!Readable', windows'[i].key.scan = f.scan,
                          windows'[i].key.attempt = 0
                   PROVE  /\ windows'[i].key.rate < f.rate => GoesOn(windows'[i])
                          /\ windows'[i].key.rate = f.rate /\ f.attempt = 1 => windows'[i].stalls
        BY <1>4 DEF NotBeyond, GoesOn
      <4>1. CASE i \in M!Readable
        BY <1>5, <2>4, <4>1 DEF NotBeyond
      <4>2. CASE i = n
        BY <1>2, <1>5, <2>2, <4>2
      <4> QED BY <2>2, <4>1, <4>2
    <3> QED BY <3>1, <3>2, <3>3 DEF Stopping
  <2>10. Chained'
    <3> SUFFICES ASSUME M!Readable = DOMAIN windows
                 PROVE  /\ \A i \in DOMAIN windows' : windows'[i].key = Upcoming(i - 1)'
                        /\ \E p \in 0..n : at' = Upcoming(p)'
      BY <2>2, <2>3 DEF Chained
    <3>1. \A p \in 0..Len(windows) : Upcoming(p)' = Upcoming(p)
      BY <2>2, <2>3 DEF Upcoming
    <3>2. PICK p : p \in 0..Len(windows) /\ at = Upcoming(p)
      BY <1>1 DEF Chained
    <3>3. p = Len(windows)
      <4>1. ASSUME p + 1 \in DOMAIN windows PROVE FALSE
        <5>1. windows[p + 1].key = Upcoming((p + 1) - 1)
          BY <4>1 DEF Chained
        <5>2. (p + 1) - 1 = p
          BY <3>2
        <5>3. windows[p + 1].key = at
          BY <3>2, <5>1, <5>2
        <5> QED BY <2>4, <4>1, <5>3
      <4> HIDE DEF CampaignInv
      <4>2. Len(windows) \in Nat
        BY <2>3
      <4>3. p + 1 \in 1..Len(windows) \/ p = Len(windows)
        BY <3>2, <4>2
      <4> QED BY <2>3, <4>1, <4>3
    <3>4. Upcoming(n)' = f
      BY <1>1, <1>2, <2>2, <2>3 DEF Upcoming, f
    <3>5. ASSUME NEW i \in DOMAIN windows' PROVE windows'[i].key = Upcoming(i - 1)'
      <4>1. CASE i \in DOMAIN windows
        <5>1. i - 1 \in 0..Len(windows)
          BY <2>3, <4>1
        <5> QED BY <2>2, <3>1, <4>1, <5>1 DEF Chained
      <4>2. CASE i = n
        <5>1. i - 1 = Len(windows)
          BY <2>2, <2>3, <4>2
        <5> QED BY <1>2, <2>2, <2>3, <3>1, <3>2, <3>3, <4>2, <5>1
      <4> QED BY <2>2, <4>1, <4>2
    <3>6. n \in 0..n
      BY <2>2, <2>3
    <3> QED BY <1>4, <3>4, <3>5, <3>6
  <2>11. Written'
    <3> SUFFICES ASSUME NEW k \in M!Keys
                 PROVE  LET counted == k \in M!DoneKeys \/ k = at IN
                        /\ counted => rows[k] >= 1
                        /\ rows[k] <= ends + Cardinality(M!Joined) + (IF counted THEN 1 ELSE 0)
      BY <1>1, <1>4, <2>2, <2>5 DEF Written
    <3> QED BY <1>1, <1>7, <1>8 DEF Written
  <2> QED BY <2>6, <2>7, <2>8, <2>9, <2>10, <2>11
<1> QED BY <1>9, <1>10

LEMMA KillCampaign == CampaignInv /\ M!Kill => CampaignInv'
<1> SUFFICES ASSUME CampaignInv, M!Kill PROVE CampaignInv'
  OBVIOUS
<1> USE DEF CampaignInv
<1>1. M!Stop /\ ends' = ends + 1 /\ rows' = rows
  BY DEF M!Kill
<1>2. CASE windows' = windows
  BY <1>1, <1>2, Gone
<1>3. CASE windows' = Append(windows, Torn)
  <2>1. /\ windows' \in Lines /\ Len(windows') = Len(windows) + 1
        /\ DOMAIN windows' = DOMAIN windows \cup {Len(windows')}
        /\ \A i \in DOMAIN windows : windows'[i] = windows[i]
        /\ windows'[Len(windows')] = Torn
        /\ M!Readable' = M!Readable /\ M!Joined' = M!Joined
    BY <1>3, Added
  <2>2. \A i \in M!Readable : windows'[i] = windows[i]
    BY <2>1 DEF M!Readable
  <2>3. M!DoneKeys' = M!DoneKeys /\ M!NeverBeyond' /\ Distinct'
    BY <2>1, <2>2 DEF M!DoneKeys, M!NeverBeyond, Distinct, Stopping
  <2>4. pc' = "down" /\ ~Measuring' /\ M!Readable' # DOMAIN windows'
    <3>1. Len(windows') \notin M!Readable'
      BY <2>1 DEF M!Readable
    <3> QED BY <1>1, <2>1, <3>1 DEF M!Stop, Measuring
  <2>5. Campaign'
    BY <1>1, <2>1, <2>4 DEF Campaign, M!Stop
  <2>6. Remembered' /\ Chained'
    BY <2>4 DEF Remembered, Chained
  <2>7. Stopping'
    BY <2>1, <2>2, <2>3, <2>4 DEF Stopping
  <2>8. Written'
    <3> SUFFICES ASSUME NEW k \in M!Keys
                 PROVE  /\ k \in M!DoneKeys => rows[k] >= 1
                        /\ rows[k] <= (ends + 1) + Cardinality(M!Joined)
                             + (IF k \in M!DoneKeys THEN 1 ELSE 0)
      BY <1>1, <2>1, <2>3, <2>4 DEF Written
    <3>1. rows[k] \in Nat /\ Cardinality(M!Joined) \in Nat /\ ends \in Nat
      BY LineFacts DEF Campaign
    <3>2. CASE k \in M!DoneKeys
      BY <3>1, <3>2 DEF Written
    <3>3. CASE k \notin M!DoneKeys /\ pc = "summary" /\ k = at
      BY <3>1, <3>3 DEF Written
    <3>4. CASE k \notin M!DoneKeys /\ ~(pc = "summary" /\ k = at)
      BY <3>1, <3>4 DEF Written
    <3> QED BY <3>2, <3>3, <3>4
  <2> QED BY <2>3, <2>5, <2>6, <2>7, <2>8
<1> QED BY <1>2, <1>3 DEF M!Kill

LEMMA CampaignInvariant == PartsSpec => []CampaignInv
<1>1. CampaignInv /\ [M!Next]_(M!vars) => CampaignInv'
  <2> SUFFICES ASSUME CampaignInv, [M!Next]_(M!vars) PROVE CampaignInv'
    OBVIOUS
  <2>1. CASE M!Next
    BY <2>1, StartCampaign, WarmUpCampaign, WarmCampaign, SkipCampaign, EndEarlyCampaign,
       RunCampaign, RequestsCampaign, SummaryCampaign, KillCampaign DEF M!Next
  <2>2. CASE UNCHANGED M!vars
    <3> USE <2>2 DEF M!vars, CampaignInv
    <3>1. Measuring' = Measuring
      BY DEF Measuring
    <3>2. Campaign' /\ Written'
      BY <3>1, SameFile DEF Campaign, Written
    <3>3. Remembered' /\ Distinct' /\ Stopping' /\ Chained'
      BY <3>1, SameFile DEF Remembered, Stopping, Chained
    <3> QED BY <3>2, <3>3
  <2> QED BY <2>1, <2>2
<1> QED BY <1>1, InitCampaign, PartSteps, PTL DEF PartsSpec

LEMMA CampaignResumes == CampaignInv => M!ResumesClean
<1> SUFFICES ASSUME CampaignInv PROVE M!ResumesClean
  OBVIOUS
<1> USE DEF CampaignInv
<1>1. M!LikeOneRun
  <2> SUFFICES ASSUME M!Readable = DOMAIN windows, NEW i \in DOMAIN windows
               PROVE  /\ windows[i].key = IF i = 1 THEN M!First
                                          ELSE M!Follows(windows[i - 1].key, windows[i - 1])
                      /\ windows[i].length = "plan"
    BY DEF M!LikeOneRun
  <2>1. windows[i].length = "plan"
    BY LineFacts, CampaignFacts
  <2>2. i \in Nat /\ (i = 1 <=> i - 1 = 0)
    BY LineFacts
  <2>3. windows[i].key = Upcoming(i - 1)
    BY DEF Chained
  <2> QED BY <2>1, <2>2, <2>3 DEF Upcoming
<1>2. M!NeverBeyond
  BY DEF Stopping
<1>3. M!RequestsKept
  <2> SUFFICES ASSUME NEW i \in M!Readable
               PROVE  /\ rows[windows[i].key] >= 1
                      /\ rows[windows[i].key] <= 1 + ends + M!Cardinality(M!Joined)
    BY DEF M!RequestsKept
  <2>1. windows[i].key \in M!DoneKeys /\ windows[i].key \in M!Keys
    BY LineFacts DEF M!DoneKeys
  <2>2. rows[windows[i].key] \in Nat /\ Cardinality(M!Joined) \in Nat /\ ends \in Nat
    BY <2>1, LineFacts DEF Campaign
  <2>3. M!Cardinality(M!Joined) = Cardinality(M!Joined)
    BY DEF M!Cardinality, Cardinality
  <2> QED BY <2>1, <2>2, <2>3 DEF Written
<1> QED BY <1>1, <1>2, <1>3 DEF M!ResumesClean

-----------------------------------------------------------------------------
\* Of the requests of a window that count, the tail is the last ones: three or all, and
\* at least a tenth.
LEMMA TailSize ==
  ASSUME NEW sample \in Sample
  PROVE  /\ IsFiniteSet(Ok(sample)) /\ TailOf(sample) \subseteq Ok(sample)
         /\ \/ TailOf(sample) = Ok(sample)
            \/ /\ Cardinality(TailOf(sample)) >= 3
               /\ Cardinality(TailOf(sample)) >= Cardinality(Ok(sample)) \div 10
<1> DEFINE ok == Ok(sample)
           tenth == Cardinality(ok) \div 10
           size == Max({3, tenth})
<1>1. ok \in SUBSET Int /\ IsFiniteSet(ok)
  <2>1. PICK n \in Nat : DOMAIN sample = 1..n
    BY DEF Sample, SeqOf
  <2>2. ok \in SUBSET (1..n)
    BY <2>1 DEF Ok, Drained
  <2>3. IsFiniteSet(1..n)
    BY <2>1, FS_Interval
  <2> HIDE DEF ok
  <2>4. IsFiniteSet(ok)
    BY <2>2, <2>3, FS_Subset
  <2> QED BY <2>2, <2>4
<1> HIDE DEF ok
<1>2. tenth \in Nat
  BY <1>1, FS_CardinalityType
<1> HIDE DEF tenth
<1>3. size \in Nat /\ size >= 3 /\ size >= tenth
  <2>1. \E x \in {3, tenth} : \A y \in {3, tenth} : x >= y
    BY <1>2
  <2> QED BY <1>2, <2>1 DEF Max
<1>4. TailOf(sample) = {i \in ok : Cardinality({j \in ok : j > i}) < size}
  BY DEF TailOf, ok, tenth
<1> HIDE DEF size
<1>5. TailOf(sample) = ok \/ Cardinality(TailOf(sample)) >= size
  BY <1>1, <1>3, <1>4, LastOnes
<1>6. TailOf(sample) \in SUBSET ok
  BY <1>4
<1>7. Cardinality(TailOf(sample)) \in Nat
  BY <1>1, <1>6, FS_Subset, FS_CardinalityType
<1>8. Cardinality(TailOf(sample)) >= size => Cardinality(TailOf(sample)) >= 3 /\ Cardinality(TailOf(sample)) >= tenth
  BY <1>2, <1>3, <1>7
<1> QED BY <1>1, <1>5, <1>6, <1>8 DEF ok, tenth

\* A stall is not concluded from a tail half of which is slow, and a slow tail saturates.
LEMMA OverloadSeen == OverloadIsSeen
<1> SUFFICES ASSUME NEW sample \in Sample
             PROVE  LET tail == TailOf(sample) slow == tail \cap Slow(sample) IN
                    /\ 2 * Cardinality(slow) >= Cardinality(tail) => ~Stalls(sample)
                    /\ tail # {} /\ slow = tail => Saturated(sample)
  BY DEF OverloadIsSeen
<1> DEFINE ok == Ok(sample)
           tail == TailOf(sample)
           slow == tail \cap Slow(sample)
           normal == {i \in tail : sample[i][1] = 0}
           hot == {i \in ok : sample[i][2] > 0}
           served == {i \in ok : sample[i][2] >= 0}
<1>1. /\ IsFiniteSet(ok) /\ tail \in SUBSET ok
      /\ tail = ok \/ (Cardinality(tail) >= 3 /\ Cardinality(tail) >= Cardinality(ok) \div 10)
  BY TailSize
<1>2. \A i \in ok : sample[i][1] = 2 => sample[i][2] = 2
  <2>1. \A i \in DOMAIN sample :
          sample[i] \in {<<0, 0>>, <<0, 1>>, <<1, 1>>, <<2, 2>>, <<0, -1>>, Failed, Unfinished}
    BY DEF Sample, SeqOf
  <2> QED BY <2>1 DEF Ok, Drained, Failed, Unfinished
<1>3. \A i \in slow : sample[i][1] = 2
  BY DEF Slow
<1>4. /\ IsFiniteSet(tail) /\ slow \in SUBSET tail /\ normal \in SUBSET (tail \ slow)
      /\ hot \in SUBSET ok /\ served \in SUBSET ok
  BY <1>1, <1>3, FS_Subset
<1>5. Stalls(sample) => 2 * Cardinality(normal) > Cardinality(tail)
  BY DEF Stalls
<1>6. Saturated(sample) <=>
        /\ Cardinality(served) > 0
        /\ Cardinality(hot) >= Cardinality(served) - (19 * (Cardinality(served) - 1) + 10) \div 20
  BY DEF Saturated
<1>7. slow = tail => tail \in SUBSET hot /\ tail \in SUBSET served
  <2>1. slow = tail => \A i \in tail : i \in ok /\ sample[i][2] = 2
    BY <1>1, <1>2, <1>3
  <2> QED BY <2>1
<1> HIDE DEF ok, tail, slow, normal, hot, served
<1>8. IsFiniteSet(slow) /\ IsFiniteSet(tail \ slow) /\ IsFiniteSet(hot) /\ IsFiniteSet(served)
  BY <1>1, <1>4, FS_Subset, FS_Difference
<1>9. /\ Cardinality(ok) \in Nat /\ Cardinality(tail) \in Nat /\ Cardinality(slow) \in Nat
      /\ Cardinality(normal) \in Nat /\ Cardinality(hot) \in Nat /\ Cardinality(served) \in Nat
  BY <1>1, <1>4, <1>8, FS_Subset, FS_CardinalityType
<1>10. Cardinality(normal) <= Cardinality(tail) - Cardinality(slow)
  <2>1. tail \cap slow = slow
    BY <1>4
  <2>2. Cardinality(tail \ slow) = Cardinality(tail) - Cardinality(slow)
    BY <1>4, <2>1, FS_Difference
  <2> QED BY <1>4, <1>8, <2>2, FS_Subset
<1>11. 2 * Cardinality(slow) >= Cardinality(tail) => ~Stalls(sample)
  BY <1>5, <1>9, <1>10
<1>12. ASSUME tail # {}, slow = tail PROVE Saturated(sample)
  <2>1. /\ Cardinality(tail) > 0 /\ Cardinality(tail) <= Cardinality(hot)
        /\ Cardinality(tail) <= Cardinality(served) /\ Cardinality(served) <= Cardinality(ok)
    <3>1. Cardinality(tail) # 0
      BY <1>4, <1>12, FS_EmptySet
    <3> QED BY <1>1, <1>4, <1>7, <1>8, <1>9, <1>12, <3>1, FS_Subset
  <2> DEFINE t == Cardinality(tail)
             n == Cardinality(served)
             k == (19 * (n - 1) + 10) \div 20
             q == Cardinality(ok) \div 10
  <2>2. k \in Int /\ 20 * k <= 19 * n - 9 /\ 19 * n - 9 < 20 * k + 20
    BY <1>9
  <2>3. q \in Int /\ 10 * q <= Cardinality(ok) /\ Cardinality(ok) < 10 * q + 10
    BY <1>9
  <2>4. t = Cardinality(ok) \/ (t >= 3 /\ t >= q)
    BY <1>1
  <2> HIDE DEF k, q, t, n
  <2>5. t \in Nat /\ n \in Nat /\ t > 0 /\ t <= n /\ n <= Cardinality(ok)
    BY <1>9, <2>1 DEF t, n
  <2>6. t >= n - k
    BY <1>9, <2>2, <2>3, <2>4, <2>5
  <2> QED BY <1>6, <1>9, <2>1, <2>2, <2>5, <2>6 DEF t, n, k
<1> QED BY <1>11, <1>12 DEF ok, tail, slow, normal, hot, served

\* An interrupted campaign goes on as one that was never interrupted, and overload is not
\* taken for a stall.
THEOREM CampaignClean == PartsSpec => []ResumesClean
<1>1. CampaignInv => ResumesClean
  BY CampaignResumes, OverloadSeen DEF ResumesClean
<1> QED
  BY <1>1, CampaignInvariant, PTL

-----------------------------------------------------------------------------
(***************************************************************************)
(* The risk table (domain/risk.py) with any edges, in every world in which  *)
(* risk grows with the load: the cells of a pool that speaks for a cell are *)
(* no lighter, so if it violates, all of them did.                          *)
(***************************************************************************)

RiskCounts == [admitted : Nat, violated : Nat]

RiskInv ==
  /\ world \subseteq R!Cells /\ R!UpwardClosed(world)
  /\ risk \in [R!Cells -> RiskCounts]
  /\ \A c \in R!Cells : risk[c].violated = IF c \in world THEN risk[c].admitted ELSE 0

LEMMA RiskInvariant == PartsSpec => []RiskInv
<1>1. PartsInit => RiskInv
  <2> SUFFICES ASSUME PartsInit PROVE RiskInv
    OBVIOUS
  <2>1. R!Init \/ (risk = [c \in R!Cells |-> [admitted |-> 0, violated |-> 0]] /\ world = {})
    BY DEF PartsInit, R!Init
  <2>2. world \subseteq R!Cells /\ R!UpwardClosed(world)
    BY <2>1 DEF R!Init, R!UpwardClosed
  <2>3. risk = [c \in R!Cells |-> [admitted |-> 0, violated |-> 0]]
    BY <2>1 DEF R!Init
  <2> QED BY <2>2, <2>3 DEF RiskInv, RiskCounts
<1>2. RiskInv /\ [R!Next]_(R!vars) => RiskInv'
  <2> SUFFICES ASSUME RiskInv, [R!Next]_(R!vars) PROVE RiskInv'
    OBVIOUS
  <2>1. CASE UNCHANGED R!vars
    BY <2>1 DEF RiskInv, R!vars, R!UpwardClosed
  <2>2. ASSUME NEW c \in R!Cells, R!Record(c) PROVE RiskInv'
    <3>1. world' = world /\ R!UpwardClosed(world)' /\ world \subseteq R!Cells
      BY <2>2 DEF R!Record, RiskInv, R!UpwardClosed
    <3>2. risk' = [risk EXCEPT ![c] =
                     [admitted |-> risk[c].admitted + 1,
                      violated |-> risk[c].violated + (IF c \in world THEN 1 ELSE 0)]]
      BY <2>2 DEF R!Record
    <3>3. risk \in [R!Cells -> RiskCounts]
      BY DEF RiskInv
    <3>4. risk' \in [R!Cells -> RiskCounts]
      BY <3>2, <3>3 DEF RiskCounts
    <3>5. \A d \in R!Cells : risk'[d].violated = IF d \in world THEN risk'[d].admitted ELSE 0
      BY <3>2, <3>3 DEF RiskInv, RiskCounts
    <3> QED BY <3>1, <3>4, <3>5 DEF RiskInv
  <2> QED BY <2>1, <2>2 DEF R!Next
<1> QED BY <1>1, <1>2, PartSteps, PTL DEF PartsSpec

\* The cells, and those a load falls into.
LEMMA RiskCells ==
  /\ IsFiniteSet(R!Cells)
  /\ \A waited, prompt : \A busy \in {0, 1} : R!CellOf(waited, prompt, busy) \in R!Cells
<1> DEFINE strips == 0..Cardinality(AwaitEdges)
           cols == 0..Cardinality(PromptEdges)
           pairs == (strips \X cols) \X {0, 1}
           f == [p \in pairs |-> <<p[1][1], p[1][2], p[2]>>]
<1>1. Cardinality(AwaitEdges) \in Nat /\ Cardinality(PromptEdges) \in Nat
  BY KnowledgeAssumption, FS_CardinalityType DEF KnowledgeAssumption
<1>2. R!Rows = strips /\ R!Cols = cols /\ R!Cells = strips \X cols \X {0, 1}
  BY DEF R!Rows, R!Cols, R!Cells, R!Cardinality, Cardinality
<1>3. IsFiniteSet(strips) /\ IsFiniteSet(cols) /\ IsFiniteSet({0, 1})
  <2> USE <1>1
  <2>1. IsFiniteSet(strips)
    BY FS_Interval
  <2>2. IsFiniteSet(cols)
    BY FS_Interval
  <2>3. IsFiniteSet({0, 1})
    <3>1. IsFiniteSet({0})
      BY FS_Singleton
    <3>2. {0, 1} = {0} \cup {1}
      OBVIOUS
    <3> QED BY <3>1, <3>2, FS_AddElement
  <2> QED BY <2>1, <2>2, <2>3
<1> HIDE DEF strips, cols
<1>4. IsFiniteSet(pairs)
  <2>1. IsFiniteSet(strips \X cols)
    BY <1>3, FS_Product
  <2> QED BY <1>3, <2>1, FS_Product
<1>5. f \in Surjection(pairs, R!Cells)
  <2>1. f \in [pairs -> R!Cells]
    BY <1>2
  <2>2. ASSUME NEW c \in R!Cells PROVE \E p \in pairs : f[p] = c
    <3>1. c[1] \in strips /\ c[2] \in cols /\ c[3] \in {0, 1} /\ c = <<c[1], c[2], c[3]>>
      BY <1>2
    <3>2. <<<<c[1], c[2]>>, c[3]>> \in pairs
      BY <3>1
    <3>3. f[<<<<c[1], c[2]>>, c[3]>>] = c
      BY <3>1, <3>2
    <3> QED BY <3>2, <3>3
  <2> HIDE DEF f, pairs
  <2> QED BY <2>1, <2>2 DEF Surjection
<1>6. IsFiniteSet(R!Cells)
  <2> HIDE DEF f, pairs
  <2> QED BY <1>4, <1>5, FS_Surjection
<1>7. ASSUME NEW edges, IsFiniteSet(edges), NEW value
      PROVE  R!Bucket(edges, value) \in 0..Cardinality(edges)
  <2>1. {e \in edges : e < value} \in SUBSET edges
    OBVIOUS
  <2>2. Cardinality({e \in edges : e < value}) <= Cardinality(edges)
        /\ IsFiniteSet({e \in edges : e < value})
    BY <1>7, <2>1, FS_Subset
  <2>3. Cardinality({e \in edges : e < value}) \in Nat /\ Cardinality(edges) \in Nat
    BY <1>7, <2>2, FS_CardinalityType
  <2> QED BY <2>2, <2>3 DEF R!Bucket, R!Cardinality, Cardinality
<1>8. ASSUME NEW waited, NEW prompt, NEW busy \in {0, 1}
      PROVE  R!CellOf(waited, prompt, busy) \in R!Cells
  <2>1. R!Bucket(AwaitEdges, waited) \in strips /\ R!Bucket(PromptEdges, prompt) \in cols
    BY <1>7, KnowledgeAssumption DEF KnowledgeAssumption, strips, cols
  <2> QED BY <1>2, <2>1 DEF R!CellOf
<1> QED BY <1>6, <1>8

\* A set of counts that all violated is not within a target below 100 percent.
LEMMA AllViolated ==
  ASSUME NEW n \in Nat, n > 0, NEW target \in 0..99
  PROVE  ~(100 * n <= target * n)
<1>1. target * n + (99 - target) * n = 99 * n
  OBVIOUS
<1>2. (99 - target) * n >= 0
  OBVIOUS
<1>3. target * n \in Int /\ (99 - target) * n \in Int
  OBVIOUS
<1> QED BY <1>1, <1>2, <1>3

LEMMA RiskSafe ==
  ASSUME RiskInv, NEW c \in R!Cells
  PROVE  /\ R!EstimateWithin(c, RiskTheta) => c \notin world
         /\ R!Enough(risk[c]) /\ c \notin world => R!EstimateWithin(c, RiskTheta)
<1> USE DEF RiskInv, RiskCounts
<1>1. RiskSamples \in Nat /\ RiskSamples > 0 /\ RiskTheta \in 0..99
  BY KnowledgeAssumption DEF KnowledgeAssumption
<1>2. \A d \in R!Cells : risk[d].admitted \in Nat /\ risk[d].violated \in Nat
  OBVIOUS
<1>3. ASSUME NEW d \in R!Cells, d \in world, R!Enough(risk[d]), R!Within(risk[d], RiskTheta)
      PROVE  FALSE
  <2>1. risk[d].violated = risk[d].admitted /\ risk[d].admitted >= RiskSamples
    BY <1>3 DEF R!Enough
  <2>2. 100 * risk[d].admitted <= RiskTheta * risk[d].admitted
    BY <1>3, <2>1 DEF R!Within
  <2>3. risk[d].admitted \in Nat /\ risk[d].admitted > 0
    BY <1>1, <1>2, <2>1
  <2> QED BY <1>1, <2>2, <2>3, AllViolated
<1>4. ASSUME NEW d \in R!Cells, d \notin world PROVE R!Within(risk[d], RiskTheta)
  <2>1. risk[d].violated = 0
    BY <1>4
  <2>2. RiskTheta * risk[d].admitted \in Nat
    BY <1>1, <1>2
  <2> QED BY <2>1, <2>2 DEF R!Within
<1>5. ASSUME c \in world, NEW region \in R!Regions(c),
             R!Enough(R!Pooled(region)), R!Within(R!Pooled(region), RiskTheta)
      PROVE  FALSE
  <2>1. region \in SUBSET R!Cells /\ \A d \in region : R!NoLighter(d, c)
    BY DEF R!Regions
  <2>2. \A d \in region : d \in world
    BY <1>5, <2>1 DEF R!UpwardClosed
  <2> DEFINE adm == [d \in R!Cells |-> risk[d].admitted]
             vio == [d \in R!Cells |-> risk[d].violated]
  <2>3. \A d \in region : adm[d] \in Nat /\ adm[d] \in Int /\ vio[d] = adm[d]
    BY <1>2, <2>1, <2>2
  <2>4. R!Pooled(region).admitted = TotalOf(adm, region)
        /\ R!Pooled(region).violated = TotalOf(vio, region)
    BY DEF R!Pooled, TotalOf, MapThenSumSet, MapThenFoldSet, R!SumFunctionOnSet,
           R!FoldFunctionOnSet, R!MapThenFoldSet
  <2>5. IsFiniteSet(region)
    BY <2>1, RiskCells, FS_Subset
  <2> HIDE DEF adm, vio
  <2>6. TotalOf(vio, region) = TotalOf(adm, region)
    BY <2>3, <2>5, TotalAgrees
  <2>7. TotalOf(adm, region) \in Nat
    BY <2>3, <2>5, TotalIsNat
  <2>8. TotalOf(adm, region) >= RiskSamples
    BY <1>5, <2>4 DEF R!Enough
  <2>9. 100 * TotalOf(adm, region) <= RiskTheta * TotalOf(adm, region)
    BY <1>5, <2>4, <2>6 DEF R!Within
  <2>10. TotalOf(adm, region) > 0
    BY <1>1, <2>7, <2>8
  <2> QED BY <1>1, <2>7, <2>9, <2>10, AllViolated
<1>6. ASSUME R!EstimateWithin(c, RiskTheta), c \in world PROVE FALSE
  <2>1. CASE R!Enough(risk[c])
    BY <1>3, <1>6, <2>1 DEF R!EstimateWithin
  <2>2. CASE ~R!Enough(risk[c])
    <3>1. R!UpperWithin(c, RiskTheta)
      BY <1>6, <2>2 DEF R!EstimateWithin
    <3>2. \A d \in R!Heavier(c) : d \in R!Cells /\ d \in world
      BY <1>6 DEF R!Heavier, R!UpwardClosed
    <3> QED BY <1>3, <1>5, <1>6, <3>1, <3>2 DEF R!UpperWithin
  <2> QED BY <2>1, <2>2
<1>7. ASSUME R!Enough(risk[c]), c \notin world PROVE R!EstimateWithin(c, RiskTheta)
  <2>1. \A d \in R!Lighter(c) : d \in R!Cells /\ d \notin world
    BY <1>7 DEF R!Lighter, R!UpwardClosed
  <2> QED BY <1>4, <1>7, <2>1 DEF R!EstimateWithin, R!LowerWithin
<1> QED BY <1>6, <1>7

LEMMA RiskBacked == RiskInv => R!SafeIsSafe
BY RiskCells, RiskSafe DEF R!SafeIsSafe, R!Safe

-----------------------------------------------------------------------------
(***************************************************************************)
(* The prefill tables (consistent_tables) over any clocks, lengths and      *)
(* measured times: the envelope of a table contradicts itself nowhere.      *)
(***************************************************************************)

PrefillTables == [TableClocks -> T!Row]

TablesInv ==
  part = "tables" =>
    /\ times \in PrefillTables /\ raw \in PrefillTables
    /\ again \in {None} \cup SUBSET TableClocks
    /\ settled => again = {}
    /\ ~settled => raw = times
    /\ T!TablesConsistent

\* The envelope of a table: each of its times is one of the table's at the clock or a
\* lower one, and none is larger.
LEMMA EnvelopeFacts ==
  ASSUME NEW table \in PrefillTables
  PROVE  /\ T!Envelope(table) \in PrefillTables
         /\ \A f \in TableClocks, n \in Lengths :
              /\ T!Timed(T!Envelope(table), f, n) <=> T!Timed(table, f, n)
              /\ T!Timed(table, f, n) =>
                   /\ \E g \in T!UpTo(table, f, n) : T!Envelope(table)[f][n] = table[g][n]
                   /\ \A g \in T!UpTo(table, f, n) : T!Envelope(table)[f][n] <= table[g][n]
<1> DEFINE env == T!Envelope(table)
<1>1. ASSUME NEW f \in TableClocks, NEW n \in Lengths, T!Timed(table, f, n)
      PROVE  \E t \in {table[g][n] : g \in T!UpTo(table, f, n)} :
               \A g \in T!UpTo(table, f, n) : t <= table[g][n]
  <2> DEFINE U == T!UpTo(table, f, n)
             time == [g \in U |-> table[g][n]]
  <2>1. U \in SUBSET TableClocks /\ f \in U
    BY <1>1, KnowledgeAssumption DEF KnowledgeAssumption, T!UpTo
  <2>2. IsFiniteSet(U) /\ U # {}
    BY <2>1, KnowledgeAssumption, FS_Subset DEF KnowledgeAssumption
  <2>3. \A g \in U : time[g] \in Int
    <3>1. \A g \in U : table[g][n] \in Times
      BY DEF T!UpTo, T!Timed, PrefillTables, T!Row
    <3>2. \A t \in Times : t \in Int
      BY KnowledgeAssumption DEF KnowledgeAssumption
    <3>3. \A g \in U : table[g][n] \in Int
      BY <3>1, <3>2
    <3> HIDE DEF U
    <3> QED BY <3>3
  <2> HIDE DEF U
  <2>4. PICK m \in U : \A g \in U : time[m] <= time[g]
    <3> HIDE DEF time
    <3> QED BY <2>2, <2>3, LeastMember
  <2>5. table[m][n] \in {table[g][n] : g \in U} /\ \A g \in U : table[m][n] <= table[g][n]
    BY <2>4
  <2> QED BY <2>5 DEF U
<1>2. ASSUME NEW f \in TableClocks, NEW n \in Lengths, T!Timed(table, f, n)
      PROVE  /\ env[f][n] \in {table[g][n] : g \in T!UpTo(table, f, n)}
             /\ \A g \in T!UpTo(table, f, n) : env[f][n] <= table[g][n]
  <2>1. env[f][n] = CHOOSE t \in {table[g][n] : g \in T!UpTo(table, f, n)} :
                      \A g \in T!UpTo(table, f, n) : t <= table[g][n]
    BY <1>2 DEF T!Envelope
  <2> HIDE DEF env
  <2> QED BY <1>1, <1>2, <2>1
<1>3. ASSUME NEW f \in TableClocks, NEW n \in Lengths, ~T!Timed(table, f, n)
      PROVE  env[f][n] = Missing
  BY <1>3 DEF T!Envelope
<1>4. \A f \in TableClocks, n \in Lengths :
        \A g \in T!UpTo(table, f, n) : table[g][n] \in Times
  BY DEF T!UpTo, T!Timed, PrefillTables, T!Row
<1>5. ASSUME NEW f \in TableClocks, NEW n \in Lengths
      PROVE  /\ env[f][n] \in Times \cup {Missing}
             /\ env[f][n] # Missing <=> T!Timed(table, f, n)
  <2>1. Missing \notin Times
    BY KnowledgeAssumption DEF KnowledgeAssumption
  <2> HIDE DEF env
  <2> QED BY <1>2, <1>3, <1>4, <2>1
<1>6. env \in PrefillTables
  <2>1. env = [f \in TableClocks |-> [n \in Lengths |-> env[f][n]]]
    BY DEF T!Envelope
  <2> HIDE DEF env
  <2>2. [f \in TableClocks |-> [n \in Lengths |-> env[f][n]]] \in PrefillTables
    BY <1>5 DEF PrefillTables, T!Row
  <2> QED BY <2>1, <2>2
<1> HIDE DEF env
<1> QED BY <1>2, <1>5, <1>6 DEF T!Timed, env

\* It contradicts itself nowhere.
LEMMA EnvelopeConsistent ==
  ASSUME NEW table \in PrefillTables
  PROVE  T!TableConflicts(T!Envelope(table)) = {}
<1> DEFINE env == T!Envelope(table)
<1>1. TableClocks \subseteq Nat /\ Times \subseteq Nat /\ EpsPct \in Nat
  BY KnowledgeAssumption DEF KnowledgeAssumption
<1>2. env \in PrefillTables
  BY EnvelopeFacts
<1>3. ASSUME NEW lo \in TableClocks, NEW hi \in TableClocks, lo < hi, NEW n \in Lengths,
             T!Timed(env, lo, n), T!Timed(env, hi, n)
      PROVE  ~(100 * env[hi][n] > (100 + EpsPct) * env[lo][n])
  <2>1. env[lo][n] \in Nat /\ env[hi][n] \in Nat
    BY <1>1, <1>2, <1>3 DEF T!Timed, PrefillTables, T!Row
  <2>2. PICK g \in T!UpTo(table, lo, n) : env[lo][n] = table[g][n]
    BY <1>3, EnvelopeFacts
  <2>3. g \in T!UpTo(table, hi, n)
    BY <1>1, <1>3, <2>2 DEF T!UpTo
  <2>4. env[hi][n] <= env[lo][n]
    BY <1>3, <2>2, <2>3, EnvelopeFacts
  <2> HIDE DEF env
  <2>5. (100 + EpsPct) * env[lo][n] = 100 * env[lo][n] + EpsPct * env[lo][n]
    BY <1>1, <2>1
  <2>6. EpsPct * env[lo][n] \in Nat
    BY <1>1, <2>1
  <2> QED BY <2>1, <2>4, <2>5, <2>6
<1> HIDE DEF env
<1>4. \A lo, hi \in TableClocks : lo < hi => ~T!Contradict(env, lo, hi)
  BY <1>3 DEF T!Contradict
<1> QED BY <1>4 DEF T!TableConflicts, env

LEMMA TablesInvariant == PartsSpec => []TablesInv
<1>1. PartsInit => TablesInv
  <2> SUFFICES ASSUME PartsInit, part = "tables" PROVE TablesInv
    BY DEF TablesInv
  <2>1. T!Init
    BY DEF PartsInit
  <2> QED BY <2>1 DEF TablesInv, T!Init, PrefillTables, T!TablesConsistent
<1>2. TablesInv /\ [T!Next]_(T!vars) /\ part' = part => TablesInv'
  <2> SUFFICES ASSUME TablesInv, [T!Next]_(T!vars), part' = part, part = "tables" PROVE TablesInv'
    BY DEF TablesInv
  <2> USE DEF TablesInv
  <2>1. CASE UNCHANGED T!vars
    BY <2>1 DEF T!vars, T!TablesConsistent
  <2>2. CASE T!Compare
    <3>1. again' \in SUBSET TableClocks /\ again # {}
      BY <2>2, KnowledgeAssumption DEF KnowledgeAssumption, T!Compare, T!TableConflicts
    <3> QED BY <2>2, <3>1 DEF T!Compare, T!TablesConsistent
  <2>3. CASE T!Remeasure
    <3>1. again \in SUBSET TableClocks /\ ~settled
      BY <2>3 DEF T!Remeasure
    <3>2. PICK f \in again, anew \in T!Row :
            again' = again \ {f} /\ times' = [times EXCEPT ![f] = anew]
      BY <2>3 DEF T!Remeasure
    <3>3. times' \in PrefillTables /\ raw' = times' /\ settled' = settled
      BY <2>3, <3>2 DEF T!Remeasure, PrefillTables
    <3> QED BY <3>1, <3>2, <3>3 DEF T!TablesConsistent
  <2>4. CASE T!Settle
    <3>1. /\ raw' = raw /\ again = {} /\ again' = again /\ raw = times /\ times \in PrefillTables
          /\ times' = IF T!TableConflicts(times) = {} THEN times ELSE T!Envelope(times)
          /\ settled'
      BY <2>4 DEF T!Settle
    <3>2. CASE T!TableConflicts(times) = {}
      <4>1. \A f \in TableClocks, n \in Lengths :
              T!Timed(times, f, n) => \E g \in TableClocks : g <= f /\ times[f][n] = times[g][n]
        BY KnowledgeAssumption DEF KnowledgeAssumption
      <4> QED BY <3>1, <3>2, <4>1 DEF T!TablesConsistent
    <3>3. CASE T!TableConflicts(times) # {}
      <4> DEFINE env == T!Envelope(times)
      <4>1. times' = env /\ raw' = times
        BY <3>1, <3>3
      <4>2. env \in PrefillTables /\ T!TableConflicts(env) = {}
        BY <3>1, EnvelopeFacts, EnvelopeConsistent
      <4>3. \A f \in TableClocks, n \in Lengths :
              /\ T!Timed(env, f, n) <=> T!Timed(times, f, n)
              /\ T!Timed(env, f, n) => \E g \in TableClocks : g <= f /\ env[f][n] = times[g][n]
        BY <3>1, EnvelopeFacts DEF T!UpTo
      <4> HIDE DEF env
      <4> QED BY <3>1, <3>3, <4>1, <4>2, <4>3 DEF T!TablesConsistent
    <3> QED BY <3>2, <3>3
  <2> QED BY <2>1, <2>2, <2>3, <2>4 DEF T!Next
<1> QED BY <1>1, <1>2, PartSteps, PTL DEF PartsSpec

-----------------------------------------------------------------------------
(***************************************************************************)
(* What admission concludes from counts (domain/admission.py and            *)
(* domain/calibration.py), from any counts and any seed: the arguments are  *)
(* about the bins the searches stop at, and about proportions of totals.    *)
(***************************************************************************)

EvidenceInv ==
  /\ own \in [E!Bins -> Nat \X Nat]
  /\ \A b \in E!Bins : seed[b][1] \in Nat /\ seed[b][2] \in Nat

LEMMA EvidenceInvariant == PartsSpec => []EvidenceInv
<1>1. PartsInit => EvidenceInv
  BY DEF PartsInit, E!Init, E!Nothing, EvidenceInv
<1>2. EvidenceInv /\ [E!Next]_(E!vars) => EvidenceInv'
  <2> SUFFICES ASSUME EvidenceInv, [E!Next]_(E!vars) PROVE EvidenceInv'
    OBVIOUS
  <2>1. CASE UNCHANGED E!vars
    BY <2>1 DEF E!vars, EvidenceInv
  <2>2. ASSUME NEW b \in E!Bins, NEW violated \in BOOLEAN, E!Record(b, violated)
        PROVE  EvidenceInv'
    BY <2>2 DEF E!Record, EvidenceInv
  <2>3. ASSUME NEW published \in Seeds, E!NewSeed(published) PROVE EvidenceInv'
    BY <2>3, KnowledgeAssumption DEF E!NewSeed, EvidenceInv, KnowledgeAssumption
  <2> QED BY <2>1, <2>2, <2>3 DEF E!Next
<1> QED BY <1>1, <1>2, PartSteps, PTL DEF PartsSpec

LEMMA EvidenceCounts ==
  ASSUME EvidenceInv, NEW b \in E!Bins
  PROVE  E!Requests(b) \in Nat /\ E!Violations(b) \in Nat
BY DEF EvidenceInv, E!Requests, E!Violations, E!Cell

LEMMA BinsFinite ==
  /\ Top \in Nat /\ E!Bins = 0..Top
  /\ \A X \in SUBSET E!Bins : IsFiniteSet(X) /\ X \in SUBSET Int
<1>1. Top \in Nat /\ E!Bins = 0..Top
  BY KnowledgeAssumption DEF KnowledgeAssumption, E!Bins
<1>2. IsFiniteSet(0..Top)
  BY <1>1, FS_Interval
<1>3. ASSUME NEW X \in SUBSET E!Bins PROVE IsFiniteSet(X) /\ X \in SUBSET Int
  <2>1. X \in SUBSET (0..Top)
    BY <1>1
  <2>2. IsFiniteSet(X)
    BY <1>2, <2>1, FS_Subset
  <2>3. X \in SUBSET Int
    BY <1>1, <2>1
  <2> QED BY <2>2, <2>3
<1> QED BY <1>1, <1>3

\* The largest and the smallest of some bins, and of any numbers known to have them.
LEMMA MaxIs ==
  ASSUME NEW X \in SUBSET Int, NEW m \in X, \A x \in X : x <= m
  PROVE  E!Max(X) = m
<1>1. \A x \in X : m >= x
  OBVIOUS
<1>2. \A n \in X : (\A x \in X : n >= x) => n = m
  OBVIOUS
<1> QED BY <1>1, <1>2 DEF E!Max

LEMMA MinIs ==
  ASSUME NEW X \in SUBSET Int, NEW m \in X, \A x \in X : m <= x
  PROVE  E!Min(X) = m
<1>1. \A n \in X : (\A x \in X : n <= x) => n = m
  OBVIOUS
<1> QED BY <1>1 DEF E!Min

LEMMA MaxOfBins ==
  ASSUME NEW X \in SUBSET E!Bins, X # {}
  PROVE  E!Max(X) \in X /\ \A x \in X : x <= E!Max(X)
<1>1. IsFiniteSet(X) /\ X \in SUBSET Int
  BY BinsFinite
<1>2. PICK m \in X : \A x \in X : x <= m
  BY <1>1, LargestNumber
<1> QED BY <1>1, <1>2, MaxIs

LEMMA MinOfBins ==
  ASSUME NEW X \in SUBSET E!Bins, X # {}
  PROVE  E!Min(X) \in X /\ \A x \in X : E!Min(X) <= x
<1>1. IsFiniteSet(X) /\ X \in SUBSET Int
  BY BinsFinite
<1> DEFINE f == [x \in X |-> x]
<1>2. PICK m \in X : \A x \in X : f[m] <= f[x]
  <2>1. \A x \in X : f[x] \in Int
    BY <1>1
  <2> HIDE DEF f
  <2> QED BY <1>1, <2>1, LeastMember
<1> QED BY <1>1, <1>2, MinIs

\* A slack falls into the bucket of the edges it reaches.
LEMMA BucketIs ==
  ASSUME NEW s \in 0..(Top + 1)
  PROVE  E!Bucket(s) = IF s <= Top THEN s ELSE Top
<1> DEFINE m == IF s <= Top THEN s ELSE Top
<1>1. Top \in Nat /\ m \in Nat
  BY BinsFinite
<1>2. {e \in 1..Top : s >= e} = 1..m
  BY <1>1
<1> HIDE DEF m
<1>3. Cardinality(1..m) = m
  <2>1. 1 \in Int /\ m \in Int
    BY <1>1
  <2>2. Cardinality(1..m) = IF 1 > m THEN 0 ELSE m - 1 + 1
    BY <2>1, FS_Interval
  <2> QED BY <1>1, <2>2
<1>4. E!Bucket(s) = m
  BY <1>2, <1>3 DEF E!Bucket, E!Cardinality, Cardinality
<1> QED BY <1>4 DEF m

LEMMA SafeSlack == EvidenceInv => E!SafeIsBacked
<1> SUFFICES ASSUME EvidenceInv, NEW s \in 0..(Top + 1), E!SafeAt(s, Theta)
             PROVE  \E c \in E!Bins :
                      /\ c <= s /\ E!Requests(c) >= MinSamples
                      /\ E!Unit * E!Violations(c) <= Theta * E!Requests(c)
                      /\ \A d \in E!Bins :
                           c < d /\ d <= s /\ E!Requests(d) >= MinSamples =>
                             E!Unit * E!Violations(d) <= Theta * E!Requests(d)
  BY DEF E!SafeIsBacked
<1> DEFINE b == E!Bucket(s)
           observed == {c \in E!Bins : c <= b /\ E!Enough(c)}
<1>1. Top \in Nat /\ E!Bins = 0..Top /\ b \in E!Bins /\ b <= s
      /\ \A d \in E!Bins : d <= s => d <= b
  BY BinsFinite, BucketIs
<1>2. observed # {}
      /\ E!WilsonWithin(E!Violations(E!Max(observed)), E!Requests(E!Max(observed)), Theta, E!Unit)
  <2>1. PICK c \in E!Decides(b) :
          E!WilsonWithin(E!Violations(c), E!Requests(c), Theta, E!Unit)
    BY DEF E!SafeAt
  <2> QED BY <2>1 DEF E!Decides
<1>3. E!Max(observed) \in observed /\ \A x \in observed : x <= E!Max(observed)
  <2>1. observed \in SUBSET E!Bins
    OBVIOUS
  <2> HIDE DEF observed
  <2> QED BY <1>2, <2>1, MaxOfBins
<1> DEFINE c == E!Max(observed)
<1>4. c \in E!Bins /\ c <= b /\ E!Requests(c) >= MinSamples
      /\ \A x \in observed : x <= c
  BY <1>3 DEF E!Enough
<1>5. E!Unit * E!Violations(c) <= Theta * E!Requests(c)
  BY <1>2 DEF E!WilsonWithin
<1>6. ASSUME NEW d \in E!Bins, c < d, d <= s, E!Requests(d) >= MinSamples PROVE FALSE
  <2>1. d \in observed
    BY <1>1, <1>6 DEF E!Enough
  <2>2. d <= c
    BY <1>4, <2>1
  <2> HIDE DEF c
  <2> QED BY <1>1, <1>4, <1>6, <2>2
<1> HIDE DEF c, observed, b
<1> QED BY <1>1, <1>4, <1>5, <1>6

LEMMA SafeBackfill == EvidenceInv => E!BackfillIsSafe
<1> DEFINE target == Theta \div 2
           observed == {b \in E!Bins : E!Enough(b)}
           within(b) == E!WilsonWithin(E!Violations(b), E!Requests(b), target, E!Unit)
           run == {b \in observed : \A c \in observed : c >= b => within(c)}
<1> SUFFICES ASSUME EvidenceInv, E!SafeFrom(target) > 0,
                    NEW s \in E!BackfillSlack..(Top + 1)
             PROVE  E!SafeAt(s, target)
  BY DEF E!BackfillIsSafe
<1>1. E!SafeFrom(target) = IF run = {} THEN 0 ELSE E!Min(run)
  BY DEF E!SafeFrom
<1>2. run # {}
  BY <1>1
<1>3. run \in SUBSET E!Bins /\ run \in SUBSET observed /\ observed \in SUBSET E!Bins
  OBVIOUS
<1> DEFINE m == E!Min(run)
<1>4. m \in run /\ m \in observed /\ m \in E!Bins
  <2> HIDE DEF run, observed
  <2> QED BY <1>2, <1>3, MinOfBins
<1>5. E!BackfillSlack = m /\ m > 0
  BY <1>1, <1>2 DEF E!BackfillSlack
<1>6. \A c \in observed : c >= m => within(c)
  BY <1>4
<1> HIDE DEF m, run
<1> DEFINE b == E!Bucket(s)
           below == {c \in E!Bins : c <= b /\ E!Enough(c)}
<1>7. Top \in Nat /\ E!Bins = 0..Top /\ b \in E!Bins /\ m <= b
  BY <1>4, <1>5, BinsFinite, BucketIs
<1>8. m \in below /\ below \in SUBSET E!Bins
  BY <1>4, <1>7
<1>9. E!Max(below) \in below /\ m <= E!Max(below)
  <2> HIDE DEF below
  <2> QED BY <1>8, MaxOfBins
<1>10. E!Max(below) \in observed /\ E!Max(below) >= m
  BY <1>7, <1>9
<1>11. within(E!Max(below))
  BY <1>6, <1>10
<1>12. E!Decides(b) = {E!Max(below)}
  BY <1>8 DEF E!Decides
<1> HIDE DEF below, observed
<1> QED BY <1>11, <1>12 DEF E!SafeAt

\* The counts of some bins together.
RequestsOf == [b \in E!Bins |-> E!Requests(b)]

ViolationsOf == [b \in E!Bins |-> E!Violations(b)]

LEMMA SumsOfBins ==
  ASSUME EvidenceInv, NEW X \in SUBSET E!Bins
  PROVE  /\ E!SumOf(X)[1] = TotalOf(RequestsOf, X) /\ E!SumOf(X)[1] \in Nat
         /\ E!SumOf(X)[2] = TotalOf(ViolationsOf, X) /\ E!SumOf(X)[2] \in Nat
<1>1. E!SumOf(X) = <<TotalOf(RequestsOf, X), TotalOf(ViolationsOf, X)>>
  BY DEF E!SumOf, TotalOf, MapThenSumSet, MapThenFoldSet, E!SumFunctionOnSet,
         E!FoldFunctionOnSet, E!MapThenFoldSet, RequestsOf, ViolationsOf
<1>2. \A x \in X : RequestsOf[x] \in Nat /\ ViolationsOf[x] \in Nat
  BY EvidenceCounts DEF RequestsOf, ViolationsOf
<1>3. TotalOf(RequestsOf, X) \in Nat /\ TotalOf(ViolationsOf, X) \in Nat
  BY <1>2, BinsFinite, TotalIsNat
<1> QED BY <1>1, <1>3

\* A knee is a bin above the one its search stopped at, in which requests violate more
\* than that search's floor: the first bin of the merged block to do so.
LEMMA KneeFacts ==
  ASSUME EvidenceInv, E!Knee # E!NoKnee
  PROVE  \E b \in E!Seen :
           /\ E!Min(E!Seen) \in E!Seen /\ b > E!Min(E!Seen)
           /\ E!Knee \in E!Bins /\ b <= E!Knee
           /\ E!Floor(b)[2] * E!Violations(E!Knee) > E!Floor(b)[1] * E!Requests(E!Knee)
<1> DEFINE candidates ==
             {b \in E!Seen : /\ b # E!Min(E!Seen)
                             /\ E!SumOf({c \in E!Seen : c >= b})[1] >= MinSamples}
           congested == {b \in candidates : E!Congested(b)}
           b0 == E!Min(congested)
           lowest == E!Min(E!Seen)
<1>1. congested # {} /\ E!Knee = E!FirstAbove(b0)
  BY DEF E!Knee
<1>2. E!Seen \in SUBSET E!Bins /\ congested \in SUBSET E!Seen
  BY DEF E!Seen
<1>3. b0 \in congested
  <2> HIDE DEF congested
  <2> QED BY <1>1, <1>2, MinOfBins
<1>4. b0 \in E!Seen /\ b0 # lowest /\ E!Congested(b0)
  BY <1>3
<1> HIDE DEF b0, candidates, congested
<1>5. lowest \in E!Seen /\ lowest <= b0
  BY <1>2, <1>4, MinOfBins
<1>6. b0 \in Int /\ lowest \in Int /\ b0 > lowest
  <2>1. b0 \in Int /\ lowest \in Int
    BY <1>2, <1>4, <1>5, BinsFinite
  <2> HIDE DEF lowest
  <2> QED BY <1>4, <1>5, <2>1
<1> DEFINE block == E!Block(b0)
           p == E!Floor(b0)[1]
           q == E!Floor(b0)[2]
           above == {c \in block : q * E!Violations(c) > p * E!Requests(c)}
<1>7. block \in SUBSET E!Bins /\ \A c \in block : c >= b0
  BY <1>2 DEF E!Block
<1>8. p \in Nat /\ q \in Nat
  <2>1. {c \in E!Seen : c < b0} \in SUBSET E!Bins
    BY <1>2
  <2>2. E!SumOf({c \in E!Seen : c < b0})[1] \in Nat /\ E!SumOf({c \in E!Seen : c < b0})[2] \in Nat
    BY <2>1, SumsOfBins
  <2>3. Theta \in Nat
    BY KnowledgeAssumption DEF KnowledgeAssumption
  <2> QED BY <2>2, <2>3 DEF E!Floor, E!Unit
<1>9. q * E!SumOf(block)[2] > p * E!SumOf(block)[1]
  BY <1>4 DEF E!Congested, E!WilsonAbove
<1> HIDE DEF block, p, q
<1>10. \E c \in block : q * ViolationsOf[c] > p * RequestsOf[c]
  <2>1. \A c \in block : ViolationsOf[c] \in Nat /\ RequestsOf[c] \in Nat
    BY <1>7, EvidenceCounts DEF RequestsOf, ViolationsOf
  <2>2. IsFiniteSet(block)
    BY <1>7, BinsFinite
  <2>3. q * TotalOf(ViolationsOf, block) > p * TotalOf(RequestsOf, block)
    BY <1>7, <1>9, SumsOfBins
  <2> QED BY <1>8, <2>1, <2>2, <2>3, SomeAbove
<1>11. above # {} /\ above \in SUBSET E!Bins
  BY <1>7, <1>10 DEF RequestsOf, ViolationsOf
<1>12. E!Knee = E!Min(above)
  BY <1>1 DEF E!FirstAbove, p, q, block
<1>13. E!Knee \in above
  <2> HIDE DEF above
  <2> QED BY <1>11, <1>12, MinOfBins
<1>14. E!Knee \in E!Bins /\ b0 <= E!Knee
  <2>1. E!Knee \in E!Bins /\ E!Knee >= b0
    BY <1>7, <1>13
  <2>2. E!Knee \in Int
    BY <2>1, BinsFinite
  <2> QED BY <1>6, <2>1, <2>2
<1>15. q * E!Violations(E!Knee) > p * E!Requests(E!Knee)
  BY <1>13
<1> QED BY <1>4, <1>5, <1>6, <1>14, <1>15 DEF p, q, lowest

LEMMA KneeCongested == EvidenceInv => E!KneeIsCongestion
<1> DEFINE k == E!Knee
<1> SUFFICES ASSUME EvidenceInv, k # E!NoKnee
             PROVE  /\ E!Unit * E!Violations(k) > Theta * E!Requests(k)
                    /\ \E b \in E!Seen : b > E!Min(E!Seen) /\ b <= k
                         /\ LET head == E!SumOf({c \in E!Seen : c < b}) IN
                            E!Violations(k) * head[1] > head[2] * E!Requests(k)
  BY DEF E!KneeIsCongestion
<1>1. PICK b \in E!Seen :
        /\ E!Min(E!Seen) \in E!Seen /\ b > E!Min(E!Seen) /\ k \in E!Bins /\ b <= k
        /\ E!Floor(b)[2] * E!Violations(k) > E!Floor(b)[1] * E!Requests(k)
  BY KneeFacts
<1>2. E!Violations(k) \in Nat /\ E!Requests(k) \in Nat /\ Theta \in Nat
  BY <1>1, EvidenceCounts, KnowledgeAssumption DEF KnowledgeAssumption
<1> DEFINE below == {c \in E!Seen : c < b}
           lowest == E!Min(E!Seen)
           heads == E!SumOf(below)
<1>3. E!Seen \in SUBSET E!Bins /\ below \in SUBSET E!Bins /\ lowest \in below
  <2>1. E!Seen \in SUBSET E!Bins
    BY DEF E!Seen
  <2>2. b \in Int /\ lowest \in Int
    BY <1>1, <2>1, BinsFinite
  <2> QED BY <1>1, <2>1, <2>2
<1>4. heads[1] \in Nat /\ heads[2] \in Nat /\ heads[1] = TotalOf(RequestsOf, below)
  <2> HIDE DEF below
  <2> QED BY <1>3, SumsOfBins
<1>5. heads[1] > 0
  <2>1. \A c \in below : RequestsOf[c] \in Nat /\ RequestsOf[c] \in Int
    BY <1>3, EvidenceCounts DEF RequestsOf
  <2>2. RequestsOf[lowest] > 0
    BY <1>1, <1>3 DEF E!Seen, RequestsOf
  <2> HIDE DEF below, lowest, heads
  <2>3. IsFiniteSet(below) /\ IsFiniteSet(below \ {lowest})
    BY <1>3, BinsFinite, FS_RemoveElement
  <2>4. TotalOf(RequestsOf, below) = RequestsOf[lowest] + TotalOf(RequestsOf, below \ {lowest})
    BY <1>3, <2>1, <2>3, TotalWithout
  <2>5. TotalOf(RequestsOf, below \ {lowest}) \in Nat
    BY <2>1, <2>3, TotalIsNat
  <2>6. RequestsOf[lowest] \in Nat
    BY <1>3, <2>1
  <2> QED BY <1>4, <2>2, <2>4, <2>5, <2>6
<1>6. E!Floor(b) = IF 20 * heads[2] > Theta * heads[1] THEN <<heads[2], heads[1]>>
                   ELSE <<Theta, 20>>
  BY DEF E!Floor, E!Unit
<1> HIDE DEF heads, k
<1>7. 20 * E!Violations(k) > Theta * E!Requests(k)
      /\ E!Violations(k) * heads[1] > heads[2] * E!Requests(k)
  <2> DEFINE v == E!Violations(k)
             r == E!Requests(k)
             x == heads[1]
             y == heads[2]
  <2>1. v \in Nat /\ r \in Nat /\ x \in Nat /\ y \in Nat /\ x > 0
    BY <1>2, <1>4, <1>5
  <2>2. CASE 20 * y > Theta * x
    <3>1. x * v > y * r
      BY <1>1, <1>6, <2>2
    <3> HIDE DEF v, r, x, y
    <3>2. v * x > y * r /\ y * 20 >= Theta * x
      BY <1>2, <2>1, <2>2, <3>1
    <3>3. v * 20 > Theta * r
      BY <1>2, <2>1, <3>2, Proportions
    <3> QED BY <2>1, <3>2, <3>3 DEF v, r, x, y
  <2>3. CASE ~(20 * y > Theta * x)
    <3>1. 20 * v > Theta * r
      BY <1>1, <1>6, <2>3
    <3> HIDE DEF v, r, x, y
    <3>2. v * 20 > Theta * r /\ Theta * x >= y * 20
      BY <1>2, <2>1, <2>3, <3>1
    <3>3. v * x > y * r
      BY <1>2, <2>1, <3>2, Proportions
    <3> QED BY <3>1, <3>3 DEF v, r, x, y
  <2> QED BY <2>2, <2>3
<1> QED BY <1>1, <1>7 DEF E!Unit, heads

LEMMA GateMatches == EvidenceInv => E!GateMatchesBins
<1> DEFINE k == E!Knee
           size == 2 * E!Tenths + 1
<1> SUFFICES ASSUME EvidenceInv, k # E!NoKnee
             PROVE  /\ \A bytes \in 0..(size + 2) :
                         bytes * E!Tenths >= E!Gate * size <=> E!GateBin(bytes, size) >= k
                    /\ \A n \in 0..(Top + 2) : n >= E!SlotCap <=> E!SlotBin(n) >= k
  BY DEF E!GateMatchesBins
<1>1. Top \in Nat /\ k \in 1..Top
  <2>1. Top \in Nat /\ E!Bins = 0..Top
    BY BinsFinite
  <2>2. PICK b \in E!Seen : E!Min(E!Seen) \in E!Seen /\ b > E!Min(E!Seen) /\ k \in E!Bins /\ b <= k
    BY KneeFacts
  <2>3. b \in 0..Top /\ E!Min(E!Seen) \in 0..Top
    BY <2>1, <2>2 DEF E!Seen
  <2> HIDE DEF k
  <2> QED BY <2>1, <2>2, <2>3
<1>2. E!Max({1, k}) = k
  <2> HIDE DEF k
  <2> QED BY <1>1, MaxIs
<1>3. E!Gate = k /\ E!SlotCap = k
  BY <1>2 DEF E!Gate, E!SlotCap, E!GateOf
<1>4. E!Tenths = Top + 1 /\ size \in Nat /\ size > 0
  BY <1>1 DEF E!Tenths
<1> HIDE DEF k, size
<1>5. ASSUME NEW n \in Nat PROVE E!Min({n, Top}) = IF n <= Top THEN n ELSE Top
  BY <1>1, MinIs
<1>6. ASSUME NEW bytes \in 0..(size + 2)
      PROVE  bytes * E!Tenths >= k * size <=> E!GateBin(bytes, size) >= k
  <2> DEFINE fits == (bytes * E!Tenths) \div size
             least == IF fits <= Top THEN fits ELSE Top
  <2>1. bytes \in Nat /\ bytes * E!Tenths \in Nat
    <3>1. bytes \in Nat /\ E!Tenths \in Nat
      BY <1>1, <1>4
    <3> QED BY <3>1
  <2>2. fits \in Nat /\ (fits >= k <=> bytes * E!Tenths >= k * size)
    BY <1>1, <1>4, <2>1, QuotientAtLeast
  <2> HIDE DEF fits
  <2>3. E!Min({E!Tenths - 1, fits}) = least
    <3>1. E!Tenths - 1 = Top /\ {Top, fits} = {fits, Top}
      BY <1>1, <1>4
    <3> QED BY <1>5, <2>2, <3>1
  <2>4. E!Max({0, least}) = least
    <3>1. least \in Nat
      BY <1>1, <2>2
    <3> HIDE DEF least
    <3> QED BY <3>1, MaxIs
  <2>5. E!GateBin(bytes, size) = least
    BY <2>3, <2>4 DEF E!GateBin, fits
  <2> QED BY <1>1, <2>2, <2>5
<1>7. ASSUME NEW n \in 0..(Top + 2) PROVE n >= k <=> E!SlotBin(n) >= k
  <2>1. n \in Nat
    BY <1>1
  <2> QED BY <1>1, <1>5, <2>1 DEF E!SlotBin
<1> QED BY <1>3, <1>6, <1>7

-----------------------------------------------------------------------------
\* Everything admission concludes has its evidence: a slack that is called safe and one
\* late requests backfill from (admission.py, estimate and safe_slack), a knee and the
\* gate made of it (calibration.py), the risk table in a monotone world (risk.py), and
\* prefill times that were settled (service_tables.py), for every table of counts.
THEOREM ConclusionsAreBacked == PartsSpec => []ConclusionsBacked
<1>1. EvidenceInv /\ RiskInv /\ TablesInv => ConclusionsBacked
  BY SafeSlack, SafeBackfill, KneeCongested, GateMatches, RiskBacked
  DEF ConclusionsBacked, E!SlackIsBacked, TablesInv
<1> QED BY <1>1, EvidenceInvariant, RiskInvariant, TablesInvariant, PTL

(***************************************************************************)
(* However a stream is cut into chunks, StreamTimer counts the same         *)
(* (proxy/proxy.py).  feed looks for CRLF CRLF before LF LF, so what it     *)
(* takes out may hold several events; the argument is that it never ends    *)
(* inside an event, and that splitlines finds the line of every event in    *)
(* it.  The recursive functions of the model are reached by induction over  *)
(* 0..N with a set for the predicate (CountingUp, CountingDown).            *)
(***************************************************************************)

\* g[n] is q[1] to q[n], one after the other.
Joined(g, q, N, Y) ==
  /\ g \in [0..N -> Seq(Y)]
  /\ g[0] = <<>>
  /\ \A i \in 1..N : g[i] = g[i - 1] \o q[i]

\* There are such joined sequences.
LEMMA JoinExists ==
  ASSUME NEW Y, NEW N \in Nat, NEW q, \A i \in 1..N : q[i] \in Seq(Y)
  PROVE  \E g : Joined(g, q, N, Y)
<1> DEFINE Good(n) == \E g \in [0..n -> Seq(Y)] :
                        g[0] = <<>> /\ \A i \in 1..n : g[i] = g[i - 1] \o q[i]
           G == {n \in 0..N : Good(n)}
<1>1. 0 \in G
  <2>1. <<>> \in Seq(Y)
    OBVIOUS
  <2>2. Good(0)
    <3> DEFINE g == [i \in 0..0 |-> <<>>]
    <3>1. g \in [0..0 -> Seq(Y)] /\ g[0] = <<>> /\ \A i \in 1..0 : g[i] = g[i - 1] \o q[i]
      BY <2>1
    <3> HIDE DEF g
    <3> QED BY <3>1
  <2> HIDE DEF Good
  <2> QED BY <2>2
<1>2. ASSUME NEW n \in 0..(N - 1), n \in G PROVE n + 1 \in G
  <2>1. PICK h \in [0..n -> Seq(Y)] : h[0] = <<>> /\ \A i \in 1..n : h[i] = h[i - 1] \o q[i]
    BY <1>2
  <2> DEFINE g == [i \in 0..(n + 1) |-> IF i = n + 1 THEN h[n] \o q[n + 1] ELSE h[i]]
  <2>2. h[n] \in Seq(Y) /\ q[n + 1] \in Seq(Y)
    BY <2>1
  <2>3. h[n] \o q[n + 1] \in Seq(Y)
    BY <2>2, ConcatProperties
  <2>4. g \in [0..(n + 1) -> Seq(Y)] /\ g[0] = <<>>
    BY <2>1, <2>3
  <2>5. ASSUME NEW i \in 1..(n + 1) PROVE g[i] = g[i - 1] \o q[i]
    <3>1. i - 1 \in 0..n /\ i - 1 # n + 1 /\ g[i - 1] = h[i - 1]
      OBVIOUS
    <3>2. CASE i = n + 1
      <4>1. g[i] = h[n] \o q[n + 1] /\ i - 1 = n
        BY <3>2
      <4> QED BY <3>1, <3>2, <4>1
    <3>3. CASE i # n + 1
      <4>1. i \in 1..n /\ g[i] = h[i]
        BY <3>3
      <4> QED BY <3>1, <4>1, <2>1
    <3> QED BY <3>2, <3>3
  <2>6. Good(n + 1)
    <3> HIDE DEF g
    <3> QED BY <2>4, <2>5
  <2> HIDE DEF Good
  <2> QED BY <2>6
<1>3. 0..N \subseteq G
  <2> HIDE DEF G
  <2> QED BY <1>1, <1>2, CountingUp
<1>4. Good(N)
  <2> HIDE DEF Good
  <2> QED BY <1>3
<1> QED BY <1>4 DEF Joined

\* Flattening gives them.
LEMMA Flattened ==
  ASSUME NEW Y, NEW N \in Nat, NEW q, \A i \in 1..N : q[i] \in Seq(Y),
         NEW g, Joined(g, q, N, Y), NEW n \in 0..N
  PROVE  ST!FlattenSeq([i \in 1..n |-> q[i]]) = g[n]
<1> DEFINE s == [i \in 1..n |-> q[i]]
           Rec(f) == f = [i \in 1..Len(s) |-> IF i = 1 THEN s[i] ELSE f[i - 1] \o s[i]]
           flat == CHOOSE f : Rec(f)
<1>0. /\ g \in [0..N -> Seq(Y)] /\ g[0] = <<>>
      /\ \A i \in 1..N : g[i] = g[i - 1] \o q[i]
  BY DEF Joined
<1>1. ST!FlattenSeq(s) = IF Len(s) = 0 THEN s ELSE flat[Len(s)]
  BY DEF ST!FlattenSeq
<1>2. s \in Seq(Seq(Y)) /\ Len(s) = n
  OBVIOUS
<1>3. CASE n = 0
  <2>1. s = <<>>
    BY <1>3
  <2> QED BY <1>0, <1>1, <1>2, <1>3, <2>1
<1>4. CASE n # 0
  <2> DEFINE w == [i \in 1..n |-> g[i]]
  <2>1. Rec(w)
    <3>1. ASSUME NEW i \in 1..n
          PROVE  w[i] = IF i = 1 THEN s[i] ELSE w[i - 1] \o s[i]
      <4>0. i \in 1..N
        OBVIOUS
      <4>1. g[i] = g[i - 1] \o q[i] /\ q[i] \in Seq(Y)
        BY <4>0, <1>0
      <4>2. CASE i = 1
        <5>1. i - 1 = 0
          BY <4>2
        <5>2. <<>> \o q[i] = q[i]
          BY <4>1, ConcatEmptySeq
        <5> QED BY <1>0, <4>1, <4>2, <5>1, <5>2
      <4>3. CASE i # 1
        <5>1. i - 1 \in 1..n
          BY <4>3
        <5> QED BY <4>1, <4>3, <5>1
      <4> QED BY <4>2, <4>3
    <3> QED BY <3>1, <1>2
  <2>2. Rec(flat)
    <3> HIDE DEF Rec, w
    <3> QED BY <2>1
  <2> HIDE DEF flat
  <2> DEFINE A == {i \in 0..n : i = 0 \/ flat[i] = g[i]}
  <2>3. 0 \in A
    OBVIOUS
  <2>4. ASSUME NEW i \in 0..(n - 1), i \in A PROVE i + 1 \in A
    <3> DEFINE k == i + 1
    <3>0. k \in 1..n /\ k \in 1..N /\ k - 1 = i /\ (k = 1 <=> i = 0)
      OBVIOUS
    <3> HIDE DEF k
    <3>1. g[k] = g[i] \o q[k] /\ q[k] \in Seq(Y) /\ s[k] = q[k]
      BY <3>0, <1>0
    <3>2. flat[k] = IF k = 1 THEN s[k] ELSE flat[k - 1] \o s[k]
      <4> HIDE DEF s
      <4> QED BY <2>2, <1>2, <3>0
    <3>3. CASE i = 0
      <4>1. <<>> \o q[k] = q[k]
        BY <3>1, ConcatEmptySeq
      <4>2. flat[k] = g[k]
        BY <1>0, <3>0, <3>1, <3>2, <3>3, <4>1
      <4> QED BY <3>0, <4>2 DEF k
    <3>4. CASE i # 0
      <4>1. flat[i] = g[i]
        BY <2>4, <3>4
      <4>2. flat[k] = g[k]
        BY <3>0, <3>1, <3>2, <3>4, <4>1
      <4> QED BY <3>0, <4>2 DEF k
    <3> QED BY <3>3, <3>4
  <2>5. 0..n \subseteq A
    <3>1. n \in Nat
      OBVIOUS
    <3> HIDE DEF A
    <3> QED BY <3>1, <2>3, <2>4, CountingUp
  <2>6. flat[n] = g[n]
    BY <2>5, <1>4
  <2> QED BY <1>1, <1>2, <1>4, <2>6
<1> QED BY <1>3, <1>4

\* What a line begins with and what it says; with CR and LF, the symbols of the wire.
Heads == {"data:", ": ping"}
Said == ST!Payloads \cup {""}
Symbols == Heads \cup Said \cup {"\r", "\n"}

\* The two separators.
CRLF == <<"\r", "\n", "\r", "\n">>
LF == <<"\n", "\n">>

\* vLLM sends a sequence of events.
Streamed == events \in Seq(ST!Events)

\* The symbols of an event.
Piece(i) == events[i].line \o events[i].separator

\* The five kinds of symbol are apart.
LEMMA SymbolsApart ==
  /\ "\r" # "\n" /\ "\r" \notin Heads /\ "\n" \notin Heads
  /\ "\r" \notin Said /\ "\n" \notin Said
  /\ \A x \in Said : x \notin Heads
BY DEF Heads, Said, ST!Payloads

\* An event is a line of two symbols and a separator of four or two.
LEMMA PieceFacts ==
  ASSUME Streamed, NEW i \in 1..Len(events)
  PROVE  /\ Piece(i) \in Seq(Symbols)
         /\ events[i].line = <<Piece(i)[1], Piece(i)[2]>>
         /\ Piece(i)[1] \in Heads /\ Piece(i)[2] \in Said
         /\ \/ /\ events[i].separator = CRLF /\ Len(Piece(i)) = 6
               /\ Piece(i)[3] = "\r" /\ Piece(i)[4] = "\n"
               /\ Piece(i)[5] = "\r" /\ Piece(i)[6] = "\n"
            \/ /\ events[i].separator = LF /\ Len(Piece(i)) = 4
               /\ Piece(i)[3] = "\n" /\ Piece(i)[4] = "\n"
<1>1. events[i] \in ST!Events
  BY DEF Streamed
<1> DEFINE line == events[i].line
           sep == events[i].separator
<1>2. line \in ST!Lines /\ sep \in ST!Separators
  BY <1>1 DEF ST!Events
<1>3. PICK x \in Heads, y \in Said : line = <<x, y>>
  <2>1. CASE \E p \in ST!Payloads : line = <<"data:", p>>
    BY <2>1 DEF Heads, Said
  <2>2. CASE line = <<": ping", "">>
    BY <2>2 DEF Heads, Said
  <2> QED BY <1>2, <2>1, <2>2 DEF ST!Lines
<1>4. sep = CRLF \/ sep = LF
  BY <1>2 DEF ST!Separators, CRLF, LF
<1>5. Piece(i) = <<x, y>> \o sep
  BY <1>3 DEF Piece
<1> HIDE DEF line, sep
<1> DEFINE pair == <<x, y>>
<1>8. pair \in Seq(Symbols) /\ Len(pair) = 2 /\ pair[1] = x /\ pair[2] = y
  BY DEF Symbols
<1>9. Piece(i) = pair \o sep
  BY <1>5
<1> HIDE DEF pair
<1>6. CASE sep = CRLF
  <2>1. CRLF \in Seq(Symbols) /\ Len(CRLF) = 4
        /\ CRLF[1] = "\r" /\ CRLF[2] = "\n" /\ CRLF[3] = "\r" /\ CRLF[4] = "\n"
    BY DEF CRLF, Symbols
  <2>2. /\ Piece(i) \in Seq(Symbols) /\ Len(Piece(i)) = 6
        /\ \A k \in 1..6 : Piece(i)[k] = IF k <= 2 THEN pair[k] ELSE CRLF[k - 2]
    <3>1. /\ pair \o CRLF \in Seq(Symbols) /\ Len(pair \o CRLF) = Len(pair) + Len(CRLF)
          /\ \A k \in 1..Len(pair) + Len(CRLF) :
               (pair \o CRLF)[k] = IF k <= Len(pair) THEN pair[k] ELSE CRLF[k - Len(pair)]
      BY <1>8, <2>1, ConcatProperties
    <3> QED BY <1>6, <1>8, <1>9, <2>1, <3>1
  <2>4. line = <<Piece(i)[1], Piece(i)[2]>> /\ Piece(i)[1] \in Heads /\ Piece(i)[2] \in Said
    BY <2>2, <1>3, <1>8
  <2>5. /\ Piece(i)[3] = "\r" /\ Piece(i)[4] = "\n" /\ Piece(i)[5] = "\r" /\ Piece(i)[6] = "\n"
    BY <2>1, <2>2
  <2> QED BY <1>6, <2>2, <2>4, <2>5 DEF line, sep
<1>7. CASE sep = LF
  <2>1. LF \in Seq(Symbols) /\ Len(LF) = 2 /\ LF[1] = "\n" /\ LF[2] = "\n"
    BY DEF LF, Symbols
  <2>2. /\ Piece(i) \in Seq(Symbols) /\ Len(Piece(i)) = 4
        /\ \A k \in 1..4 : Piece(i)[k] = IF k <= 2 THEN pair[k] ELSE LF[k - 2]
    <3>1. /\ pair \o LF \in Seq(Symbols) /\ Len(pair \o LF) = Len(pair) + Len(LF)
          /\ \A k \in 1..Len(pair) + Len(LF) :
               (pair \o LF)[k] = IF k <= Len(pair) THEN pair[k] ELSE LF[k - Len(pair)]
      BY <1>8, <2>1, ConcatProperties
    <3> QED BY <1>7, <1>8, <1>9, <2>1, <3>1
  <2>4. line = <<Piece(i)[1], Piece(i)[2]>> /\ Piece(i)[1] \in Heads /\ Piece(i)[2] \in Said
    BY <2>2, <1>3, <1>8
  <2>5. Piece(i)[3] = "\n" /\ Piece(i)[4] = "\n"
    BY <2>1, <2>2
  <2> QED BY <1>7, <2>2, <2>4, <2>5 DEF line, sep
<1> QED BY <1>4, <1>6, <1>7

\* The wire is the events' symbols, each after the ends of those before.
LEMMA WireFacts ==
  ASSUME Streamed
  PROVE  /\ ST!EndOf(0) = 0
         /\ \A i \in 0..Len(events) : ST!EndOf(i) \in Nat
         /\ \A i \in 1..Len(events) : ST!EndOf(i) = ST!EndOf(i - 1) + Len(Piece(i))
         /\ ST!Wire \in Seq(Symbols) /\ Len(ST!Wire) = ST!EndOf(Len(events))
         /\ \A i \in 1..Len(events) : \A x \in 1..Len(Piece(i)) :
              ST!Wire[ST!EndOf(i - 1) + x] = Piece(i)[x]
<1> DEFINE N == Len(events)
           q == [i \in 1..N |-> Piece(i)]
<1>1. N \in Nat /\ DOMAIN events = 1..N
  BY DEF Streamed
<1>2. \A i \in 1..N : q[i] \in Seq(Symbols)
  BY PieceFacts
<1> HIDE DEF N
<1>0. PICK g : Joined(g, q, N, Symbols)
  <2> HIDE DEF q
  <2> QED BY <1>1, <1>2, JoinExists
<1>3. /\ g \in [0..N -> Seq(Symbols)] /\ g[0] = <<>>
      /\ \A i \in 1..N : g[i] = g[i - 1] \o q[i]
  BY <1>0 DEF Joined
<1>4. ASSUME NEW n \in 0..N PROVE ST!FlattenSeq([i \in 1..n |-> q[i]]) = g[n]
  <2> HIDE DEF q
  <2> QED BY <1>0, <1>1, <1>2, Flattened
<1>5. ST!Wire = g[N]
  <2>1. N \in 0..N
    BY <1>1
  <2>2. [i \in DOMAIN events |-> events[i].line \o events[i].separator] = [i \in 1..N |-> q[i]]
    BY <1>1 DEF Piece
  <2> HIDE DEF q
  <2> QED BY <1>4, <2>1, <2>2 DEF ST!Wire
<1>6. ASSUME NEW n \in 0..N PROVE ST!EndOf(n) = Len(g[n])
  <2>1. \A j \in 1..n : j \in 1..N
    BY <1>1
  <2>2. [j \in 1..n |-> events[j].line \o events[j].separator] = [i \in 1..n |-> q[i]]
    BY <2>1 DEF Piece
  <2> HIDE DEF q
  <2> QED BY <1>4, <2>2 DEF ST!EndOf
<1>7. ASSUME NEW i \in 1..N
      PROVE  /\ i - 1 \in 0..N /\ i \in 0..N
             /\ g[i] \in Seq(Symbols) /\ g[i - 1] \in Seq(Symbols)
             /\ g[i] = g[i - 1] \o Piece(i) /\ Piece(i) \in Seq(Symbols)
             /\ Len(g[i]) = Len(g[i - 1]) + Len(Piece(i))
             /\ \A k \in 1..Len(g[i - 1]) + Len(Piece(i)) :
                  g[i][k] = IF k <= Len(g[i - 1]) THEN g[i - 1][k]
                            ELSE Piece(i)[k - Len(g[i - 1])]
  <2>1. i - 1 \in 0..N /\ i \in 0..N
    BY <1>1
  <2>2. g[i] \in Seq(Symbols) /\ g[i - 1] \in Seq(Symbols)
    BY <1>3, <2>1
  <2>3. g[i] = g[i - 1] \o Piece(i) /\ Piece(i) \in Seq(Symbols)
    BY <1>2, <1>3
  <2>4. /\ Len(g[i]) = Len(g[i - 1]) + Len(Piece(i))
        /\ \A k \in 1..Len(g[i - 1]) + Len(Piece(i)) :
             (g[i - 1] \o Piece(i))[k] = IF k <= Len(g[i - 1]) THEN g[i - 1][k]
                                         ELSE Piece(i)[k - Len(g[i - 1])]
    BY <2>2, <2>3, ConcatProperties
  <2> QED BY <2>1, <2>2, <2>3, <2>4
<1>8. \A i \in 0..N : ST!EndOf(i) \in Nat
  BY <1>6
<1>9. \A i \in 1..N : ST!EndOf(i) = ST!EndOf(i - 1) + Len(Piece(i))
  BY <1>6, <1>7
<1>10. ST!EndOf(0) = 0
  BY <1>1, <1>3, <1>6
<1>11. ST!Wire \in Seq(Symbols) /\ Len(ST!Wire) = ST!EndOf(N)
  BY <1>1, <1>3, <1>5, <1>6
<1> DEFINE Placed(n) == \A i \in 1..n : \A x \in 1..Len(Piece(i)) :
                          g[n][ST!EndOf(i - 1) + x] = Piece(i)[x]
           G == {n \in 0..N : (\A i \in 1..n : ST!EndOf(i) <= ST!EndOf(n)) /\ Placed(n)}
<1>12. 0 \in G
  BY <1>1
<1>13. ASSUME NEW n \in 0..(N - 1), n \in G PROVE n + 1 \in G
  <2> DEFINE m == n + 1
  <2>1. m \in 1..N /\ m - 1 = n /\ n \in 0..N /\ m \in 0..N
    BY <1>1
  <2> HIDE DEF m
  <2>2. /\ ST!EndOf(m) = ST!EndOf(n) + Len(Piece(m)) /\ Len(Piece(m)) \in Nat
        /\ ST!EndOf(n) \in Nat /\ ST!EndOf(n) = Len(g[n])
    BY <2>1, <1>6, <1>7, <1>8, <1>9
  <2>3. \A i \in 1..n : ST!EndOf(i) <= ST!EndOf(n) /\ ST!EndOf(i) \in Nat
    BY <1>1, <1>8, <1>13
  <2>4. ASSUME NEW i \in 1..m PROVE ST!EndOf(i) <= ST!EndOf(m)
    <3>1. CASE i = m
      BY <3>1, <2>2
    <3>2. CASE i # m
      <4>1. i \in 1..n
        BY <2>1, <3>2
      <4> QED BY <4>1, <2>2, <2>3
    <3> QED BY <3>1, <3>2
  <2>5. ASSUME NEW i \in 1..m, NEW x \in 1..Len(Piece(i))
        PROVE  g[m][ST!EndOf(i - 1) + x] = Piece(i)[x]
    <3> DEFINE k == ST!EndOf(i - 1) + x
    <3>1. i \in 1..N
      BY <2>1, <1>1
    <3>2. ST!EndOf(i - 1) \in Nat /\ x \in Nat /\ x >= 1
          /\ ST!EndOf(i) = ST!EndOf(i - 1) + Len(Piece(i)) /\ x <= Len(Piece(i))
          /\ Len(Piece(i)) \in Nat
      BY <3>1, <1>7, <1>8, <1>9
    <3>3. k \in 1..Len(g[n]) + Len(Piece(m)) /\ k <= ST!EndOf(i)
      <4>1. ST!EndOf(i) <= ST!EndOf(m) /\ ST!EndOf(i) \in Nat
        BY <2>4, <3>1, <1>8, <1>1
      <4> QED BY <4>1, <3>2, <2>2
    <3>4. g[m][k] = IF k <= Len(g[n]) THEN g[n][k] ELSE Piece(m)[k - Len(g[n])]
      <4> HIDE DEF k
      <4> QED BY <3>3, <2>1, <1>7
    <3>5. CASE i = m
      <4>1. k = Len(g[n]) + x
        BY <3>5, <2>1, <2>2
      <4>2. ~(k <= Len(g[n])) /\ k - Len(g[n]) = x
        BY <4>1, <3>2, <2>2
      <4> HIDE DEF k
      <4>3. g[m][k] = Piece(i)[x]
        BY <3>4, <3>5, <4>2
      <4> QED BY <4>3 DEF k
    <3>6. CASE i # m
      <4>1. i \in 1..n
        BY <2>1, <3>6
      <4>2. k <= Len(g[n])
        <5>1. ST!EndOf(i) <= ST!EndOf(n) /\ ST!EndOf(i) \in Nat
          BY <4>1, <2>3
        <5> QED BY <5>1, <3>2, <3>3, <2>2
      <4>3. g[n][ST!EndOf(i - 1) + x] = Piece(i)[x]
        BY <1>13, <4>1
      <4> HIDE DEF k
      <4>4. g[m][k] = g[n][k]
        BY <3>4, <4>2
      <4> QED BY <4>3, <4>4 DEF k
    <3> QED BY <3>5, <3>6
  <2>6. Placed(m)
    BY <2>5
  <2> HIDE DEF Placed
  <2>7. m \in G
    BY <2>1, <2>4, <2>6
  <2> QED BY <2>7 DEF m
<1>14. 0..N \subseteq G
  <2> HIDE DEF G
  <2> QED BY <1>1, <1>12, <1>13, CountingUp
<1>15. Placed(N)
  <2> HIDE DEF Placed
  <2> QED BY <1>1, <1>14
<1> QED BY <1>5, <1>8, <1>9, <1>10, <1>11, <1>15 DEF N

\* Ends are apart.
LEMMA EndsGrow ==
  ASSUME Streamed, NEW j \in 0..Len(events), NEW i \in 0..(j - 1)
  PROVE  ST!EndOf(i) + 4 <= ST!EndOf(j)
<1> DEFINE N == Len(events)
           G == {n \in 0..N : \A k \in 0..(n - 1) : ST!EndOf(k) + 4 <= ST!EndOf(n)}
<1>1. N \in Nat
  BY DEF Streamed
<1>2. 0 \in G
  BY <1>1
<1>3. ASSUME NEW n \in 0..(N - 1), n \in G PROVE n + 1 \in G
  <2> DEFINE m == n + 1
  <2>1. m \in 1..N /\ m - 1 = n /\ n \in 0..N /\ m \in 0..N
    BY <1>1
  <2> HIDE DEF m
  <2>2. ST!EndOf(m) = ST!EndOf(n) + Len(Piece(m)) /\ ST!EndOf(n) \in Nat
    <3> HIDE DEF N
    <3>1. ST!EndOf(m) = ST!EndOf(m - 1) + Len(Piece(m))
      BY <2>1, WireFacts DEF N
    <3>2. ST!EndOf(n) \in Nat
      BY <2>1, WireFacts DEF N
    <3> QED BY <2>1, <3>1, <3>2
  <2>3. Len(Piece(m)) \in Nat /\ Len(Piece(m)) >= 4
    <3> HIDE DEF N, G
    <3>1. Len(Piece(m)) = 6 \/ Len(Piece(m)) = 4
      BY <2>1, PieceFacts DEF N
    <3> DEFINE size == Len(Piece(m))
    <3>2. size = 6 \/ size = 4
      BY <3>1
    <3> HIDE DEF size
    <3>3. size \in Nat /\ size >= 4
      BY <3>2
    <3> QED BY <3>3 DEF size
  <2>4. ASSUME NEW k \in 0..(m - 1) PROVE ST!EndOf(k) + 4 <= ST!EndOf(m)
    <3>1. CASE k = n
      BY <3>1, <2>2, <2>3
    <3>2. CASE k # n
      <4>1. k \in 0..(n - 1) /\ k \in 0..N
        BY <2>1, <3>2
      <4>2. ST!EndOf(k) + 4 <= ST!EndOf(n) /\ ST!EndOf(k) \in Nat
        BY <1>3, <4>1, WireFacts
      <4> QED BY <4>2, <2>2, <2>3
    <3> QED BY <3>1, <3>2
  <2>5. m \in G
    BY <2>1, <2>4
  <2> QED BY <2>5 DEF m
<1>4. 0..N \subseteq G
  <2> HIDE DEF G
  <2> QED BY <1>1, <1>2, <1>3, CountingUp
<1> QED BY <1>4

\* Ends in the order of the events.
LEMMA EndsOrdered ==
  ASSUME Streamed, NEW i \in 0..Len(events), NEW j \in 0..Len(events)
  PROVE  /\ ST!EndOf(i) \in Nat /\ ST!EndOf(j) \in Nat
         /\ i < j => ST!EndOf(i) + 4 <= ST!EndOf(j)
         /\ ST!EndOf(i) <= ST!EndOf(j) <=> i <= j
         /\ ST!EndOf(i) = ST!EndOf(j) <=> i = j
<1>1. ST!EndOf(i) \in Nat /\ ST!EndOf(j) \in Nat
  BY WireFacts
<1>2. Len(events) \in Nat
  BY DEF Streamed
<1>3. i < j => ST!EndOf(i) + 4 <= ST!EndOf(j)
  <2>1. i < j => i \in 0..(j - 1)
    OBVIOUS
  <2> QED BY <2>1, EndsGrow
<1>4. j < i => ST!EndOf(j) + 4 <= ST!EndOf(i)
  <2>1. j < i => j \in 0..(i - 1)
    OBVIOUS
  <2> QED BY <2>1, EndsGrow
<1>5. i < j \/ i = j \/ j < i
  BY <1>2
<1> QED BY <1>1, <1>3, <1>4, <1>5

\* Every place of the wire is in an event.
LEMMA InWhich ==
  ASSUME Streamed, NEW p \in 1..ST!EndOf(Len(events))
  PROVE  \E i \in 1..Len(events) : \E x \in 1..Len(Piece(i)) : p = ST!EndOf(i - 1) + x
<1> DEFINE N == Len(events)
           In(i, k) == \E x \in 1..Len(Piece(i)) : k = ST!EndOf(i - 1) + x
           G == {n \in 0..N : \A k \in 1..ST!EndOf(n) : \E i \in 1..n : In(i, k)}
<1>1. N \in Nat
  BY DEF Streamed
<1>2. 0 \in G
  BY <1>1, WireFacts
<1>3. ASSUME NEW n \in 0..(N - 1), n \in G PROVE n + 1 \in G
  <2> DEFINE m == n + 1
  <2>1. m \in 1..N /\ m - 1 = n /\ n \in 0..N /\ m \in 0..N /\ n \in Nat
    BY <1>1
  <2> HIDE DEF m
  <2>2. ST!EndOf(m) = ST!EndOf(n) + Len(Piece(m)) /\ ST!EndOf(n) \in Nat
    BY <2>1, WireFacts
  <2>3. Len(Piece(m)) \in Nat
    BY <2>1, PieceFacts
  <2>4. ASSUME NEW k \in 1..ST!EndOf(m) PROVE \E i \in 1..m : In(i, k)
    <3>1. CASE k <= ST!EndOf(n)
      <4>1. k \in 1..ST!EndOf(n)
        BY <3>1, <2>2
      <4>2. PICK i \in 1..n : In(i, k)
        BY <1>3, <4>1
      <4>3. i \in 1..m
        BY <2>1
      <4> HIDE DEF In
      <4> QED BY <4>2, <4>3
    <3>2. CASE k > ST!EndOf(n)
      <4>1. k - ST!EndOf(n) \in 1..Len(Piece(m)) /\ k = ST!EndOf(n) + (k - ST!EndOf(n))
        BY <3>2, <2>2, <2>3
      <4>2. In(m, k)
        BY <4>1, <2>1
      <4>3. m \in 1..m
        BY <2>1
      <4> HIDE DEF In
      <4> QED BY <4>2, <4>3
    <3> QED BY <3>1, <3>2, <2>2
  <2> HIDE DEF In
  <2>5. m \in G
    BY <2>1, <2>4
  <2> QED BY <2>5 DEF m
<1>4. 0..N \subseteq G
  <2> HIDE DEF G
  <2> QED BY <1>1, <1>2, <1>3, CountingUp
<1>5. N \in G
  BY <1>1, <1>4
<1> HIDE DEF In
<1>6. \E i \in 1..N : In(i, p)
  BY <1>5
<1> QED BY <1>6 DEF In

\* An event on the wire.
LEMMA OnTheWire ==
  ASSUME Streamed, NEW i \in 1..Len(events), NEW base, base = ST!EndOf(i - 1)
  PROVE  /\ base \in Nat /\ i - 1 \in 0..Len(events)
         /\ ST!Wire[base + 1] \in Heads /\ ST!Wire[base + 2] \in Said
         /\ events[i].line = <<ST!Wire[base + 1], ST!Wire[base + 2]>>
         /\ \/ /\ events[i].separator = CRLF
               /\ Len(Piece(i)) = 6 /\ ST!EndOf(i) = base + 6
               /\ ST!Wire[base + 3] = "\r" /\ ST!Wire[base + 4] = "\n"
               /\ ST!Wire[base + 5] = "\r" /\ ST!Wire[base + 6] = "\n"
            \/ /\ events[i].separator = LF
               /\ Len(Piece(i)) = 4 /\ ST!EndOf(i) = base + 4
               /\ ST!Wire[base + 3] = "\n" /\ ST!Wire[base + 4] = "\n"
<1>1. i - 1 \in 0..Len(events)
  BY DEF Streamed
<1>2. base \in Nat /\ ST!EndOf(i) = base + Len(Piece(i))
  BY <1>1, WireFacts
<1>3. \A x \in 1..Len(Piece(i)) : ST!Wire[base + x] = Piece(i)[x]
  BY WireFacts
<1>4. Len(Piece(i)) \in {4, 6}
  BY PieceFacts
<1>5. ST!Wire[base + 1] = Piece(i)[1] /\ ST!Wire[base + 2] = Piece(i)[2]
      /\ ST!Wire[base + 3] = Piece(i)[3] /\ ST!Wire[base + 4] = Piece(i)[4]
  BY <1>3, <1>4
<1>6. Len(Piece(i)) = 6 => ST!Wire[base + 5] = Piece(i)[5] /\ ST!Wire[base + 6] = Piece(i)[6]
  BY <1>3
<1>7. events[i].line = <<Piece(i)[1], Piece(i)[2]>> /\ Piece(i)[1] \in Heads
      /\ Piece(i)[2] \in Said
  BY PieceFacts
<1>8. \/ /\ events[i].separator = CRLF /\ Len(Piece(i)) = 6
         /\ Piece(i)[3] = "\r" /\ Piece(i)[4] = "\n"
         /\ Piece(i)[5] = "\r" /\ Piece(i)[6] = "\n"
      \/ /\ events[i].separator = LF /\ Len(Piece(i)) = 4
         /\ Piece(i)[3] = "\n" /\ Piece(i)[4] = "\n"
  BY PieceFacts
<1> QED BY <1>1, <1>2, <1>5, <1>6, <1>7, <1>8

\* After an event comes the next one's line.
LEMMA NextHead ==
  ASSUME Streamed, NEW i \in 1..Len(events), ST!EndOf(i) < ST!EndOf(Len(events))
  PROVE  ST!Wire[ST!EndOf(i) + 1] \in Heads
<1>1. Len(events) \in Nat /\ Len(events) \in 0..Len(events) /\ i \in 0..Len(events)
  BY DEF Streamed
<1>2. i # Len(events)
  BY <1>1, EndsOrdered
<1>3. i + 1 \in 1..Len(events) /\ (i + 1) - 1 = i
  BY <1>1, <1>2
<1>4. ST!Wire[ST!EndOf((i + 1) - 1) + 1] \in Heads
  BY <1>3, OnTheWire
<1> QED BY <1>3, <1>4

\* A line begins nowhere but at the start of an event.
LEMMA HeadPlace ==
  ASSUME Streamed, NEW p \in 1..ST!EndOf(Len(events)), ST!Wire[p] \in Heads
  PROVE  \E i \in 1..Len(events) : p = ST!EndOf(i - 1) + 1
<1>0. PICK i \in 1..Len(events) : \E x \in 1..Len(Piece(i)) : p = ST!EndOf(i - 1) + x
  BY InWhich
<1>1. PICK x \in 1..Len(Piece(i)) : p = ST!EndOf(i - 1) + x
  BY <1>0
<1> DEFINE base == ST!EndOf(i - 1)
<1>2. base = ST!EndOf(i - 1) /\ p = base + x
  BY <1>1
<1> HIDE DEF base
<1>3. /\ base \in Nat /\ ST!Wire[base + 2] \in Said
      /\ \/ /\ Len(Piece(i)) = 6
            /\ ST!Wire[base + 3] = "\r" /\ ST!Wire[base + 4] = "\n"
            /\ ST!Wire[base + 5] = "\r" /\ ST!Wire[base + 6] = "\n"
         \/ /\ Len(Piece(i)) = 4
            /\ ST!Wire[base + 3] = "\n" /\ ST!Wire[base + 4] = "\n"
  BY <1>2, OnTheWire
<1>4. x = 1
  <2>0. Len(Piece(i)) = 6 \/ Len(Piece(i)) = 4
    BY <1>3
  <2>1. x \in 1..6 /\ (Len(Piece(i)) = 4 => x <= 4)
    <3>1. CASE Len(Piece(i)) = 6
      BY <1>1, <3>1
    <3>2. CASE Len(Piece(i)) = 4
      BY <1>1, <3>2
    <3> QED BY <2>0, <3>1, <3>2
  <2>2. x # 2 /\ x # 3 /\ x # 4
    BY <1>2, <1>3, SymbolsApart
  <2>3. ASSUME x = 5 \/ x = 6 PROVE FALSE
    <3>1. Len(Piece(i)) = 6
      BY <2>0, <2>1, <2>3
    <3>2. ST!Wire[base + 5] = "\r" /\ ST!Wire[base + 6] = "\n"
      BY <1>3, <3>1
    <3>3. ST!Wire[p] = "\r" \/ ST!Wire[p] = "\n"
      BY <1>2, <2>3, <3>2
    <3> QED BY <3>3, SymbolsApart
  <2> QED BY <2>1, <2>2, <2>3
<1> QED BY <1>2, <1>4

\* An empty line, in either form, is nowhere but at the end of an event.
LEMMA BlankPlace ==
  ASSUME Streamed, NEW p \in Nat \ {0}, p + 1 <= ST!EndOf(Len(events)),
         ST!Wire[p] = "\n", ST!Wire[p + 1] = "\n"
  PROVE  \E i \in 1..Len(events) : events[i].separator = LF /\ p + 1 = ST!EndOf(i)
<1>e. ST!EndOf(Len(events)) \in Nat /\ p \in 1..ST!EndOf(Len(events))
  <2>1. Len(events) \in 0..Len(events)
    BY DEF Streamed
  <2>2. ST!EndOf(Len(events)) \in Nat
    BY <2>1, WireFacts
  <2> QED BY <2>2
<1>0. PICK i \in 1..Len(events) : \E x \in 1..Len(Piece(i)) : p = ST!EndOf(i - 1) + x
  BY <1>e, InWhich
<1>1. PICK x \in 1..Len(Piece(i)) : p = ST!EndOf(i - 1) + x
  BY <1>0
<1> DEFINE base == ST!EndOf(i - 1)
<1>2. base = ST!EndOf(i - 1) /\ p = base + x
  BY <1>1
<1> HIDE DEF base
<1>3. /\ base \in Nat /\ ST!Wire[base + 1] \in Heads /\ ST!Wire[base + 2] \in Said
      /\ \/ /\ events[i].separator = CRLF
            /\ Len(Piece(i)) = 6 /\ ST!EndOf(i) = base + 6
            /\ ST!Wire[base + 3] = "\r" /\ ST!Wire[base + 4] = "\n"
            /\ ST!Wire[base + 5] = "\r" /\ ST!Wire[base + 6] = "\n"
         \/ /\ events[i].separator = LF
            /\ Len(Piece(i)) = 4 /\ ST!EndOf(i) = base + 4
            /\ ST!Wire[base + 3] = "\n" /\ ST!Wire[base + 4] = "\n"
  BY <1>2, OnTheWire
<1>4. p # ST!EndOf(i)
  <2>1. ASSUME p = ST!EndOf(i) PROVE FALSE
    <3>1. ST!EndOf(i) < ST!EndOf(Len(events))
      BY <1>e, <2>1
    <3>2. ST!Wire[ST!EndOf(i) + 1] \in Heads
      BY <3>1, NextHead
    <3> QED BY <2>1, <3>2, SymbolsApart
  <2> QED BY <2>1
<1>5. x # 1 /\ x # 2
  BY <1>2, <1>3, SymbolsApart
<1>6. CASE events[i].separator = LF
  <2>1. CRLF # LF
    BY DEF CRLF, LF
  <2>2. Len(Piece(i)) = 4 /\ ST!EndOf(i) = base + 4
    BY <1>3, <1>6, <2>1
  <2>3. x = 3
    BY <1>1, <1>2, <1>4, <1>5, <2>2
  <2> QED BY <1>2, <1>3, <1>6, <2>2, <2>3
<1>7. CASE events[i].separator # LF
  <2>1. /\ Len(Piece(i)) = 6 /\ ST!EndOf(i) = base + 6
        /\ ST!Wire[base + 3] = "\r" /\ ST!Wire[base + 5] = "\r"
    BY <1>3, <1>7
  <2>2. x \in 1..6 /\ x # 6
    BY <1>1, <1>2, <1>4, <2>1
  <2>3. x # 3 /\ x # 5
    BY <1>2, <2>1, SymbolsApart
  <2>4. x # 4
    <3>1. x = 4 => p + 1 = base + 5
      BY <1>2, <1>3
    <3> QED BY <3>1, <2>1, SymbolsApart
  <2> QED BY <1>5, <2>2, <2>3, <2>4
<1> QED BY <1>6, <1>7

\* The same of CR, LF, CR.
LEMMA BlankPlaceCRLF ==
  ASSUME Streamed, NEW p \in Nat \ {0}, p + 3 <= ST!EndOf(Len(events)),
         ST!Wire[p] = "\r", ST!Wire[p + 1] = "\n", ST!Wire[p + 2] = "\r"
  PROVE  \E i \in 1..Len(events) : events[i].separator = CRLF /\ p + 3 = ST!EndOf(i)
<1>e. ST!EndOf(Len(events)) \in Nat /\ p \in 1..ST!EndOf(Len(events))
  <2>1. Len(events) \in 0..Len(events)
    BY DEF Streamed
  <2>2. ST!EndOf(Len(events)) \in Nat
    BY <2>1, WireFacts
  <2> QED BY <2>2
<1>0. PICK i \in 1..Len(events) : \E x \in 1..Len(Piece(i)) : p = ST!EndOf(i - 1) + x
  BY <1>e, InWhich
<1>1. PICK x \in 1..Len(Piece(i)) : p = ST!EndOf(i - 1) + x
  BY <1>0
<1> DEFINE base == ST!EndOf(i - 1)
<1>2. base = ST!EndOf(i - 1) /\ p = base + x
  BY <1>1
<1> HIDE DEF base
<1>3. /\ base \in Nat /\ ST!Wire[base + 1] \in Heads /\ ST!Wire[base + 2] \in Said
      /\ \/ /\ events[i].separator = CRLF
            /\ Len(Piece(i)) = 6 /\ ST!EndOf(i) = base + 6
            /\ ST!Wire[base + 3] = "\r" /\ ST!Wire[base + 4] = "\n"
            /\ ST!Wire[base + 5] = "\r" /\ ST!Wire[base + 6] = "\n"
         \/ /\ events[i].separator = LF
            /\ Len(Piece(i)) = 4 /\ ST!EndOf(i) = base + 4
            /\ ST!Wire[base + 3] = "\n" /\ ST!Wire[base + 4] = "\n"
  BY <1>2, OnTheWire
<1>5. x # 1 /\ x # 2 /\ x # 4
  BY <1>2, <1>3, SymbolsApart
<1>6. CASE events[i].separator = LF
  <2>1. CRLF # LF
    BY DEF CRLF, LF
  <2>2. Len(Piece(i)) = 4 /\ ST!Wire[base + 3] = "\n"
    BY <1>3, <1>6, <2>1
  <2>3. x = 3
    BY <1>1, <1>5, <2>2
  <2> QED BY <1>2, <2>2, <2>3, SymbolsApart
<1>7. CASE events[i].separator # LF
  <2>1. /\ events[i].separator = CRLF /\ Len(Piece(i)) = 6 /\ ST!EndOf(i) = base + 6
        /\ ST!Wire[base + 6] = "\n"
    BY <1>3, <1>7
  <2>2. x \in 1..6 /\ x # 6
    BY <1>1, <1>2, <2>1, SymbolsApart
  <2>3. x # 5
    <3>1. ASSUME x = 5 PROVE FALSE
      <4>1. p + 1 = ST!EndOf(i) /\ p + 2 = ST!EndOf(i) + 1
        <5>1. p = base + 5 /\ ST!EndOf(i) = base + 6 /\ base \in Nat
          BY <1>2, <1>3, <2>1, <3>1
        <5> QED BY <5>1
      <4>2. ST!EndOf(i) < ST!EndOf(Len(events))
        BY <1>e, <4>1
      <4>3. ST!Wire[ST!EndOf(i) + 1] \in Heads
        BY <4>2, NextHead
      <4> QED BY <4>1, <4>3, SymbolsApart
    <3> QED BY <3>1
  <2>4. x = 3
    BY <1>5, <2>2, <2>3
  <2> QED BY <1>2, <1>3, <2>1, <2>4
<1> QED BY <1>6, <1>7

\* The symbols that arrived between two moments.
Portion(from, to) == SubSeq(ST!Wire, from + 1, to)

\* Its symbols are those of the wire.
LEMMA PortionFacts ==
  ASSUME Streamed, NEW to \in 0..ST!EndOf(Len(events)), NEW from \in 0..to
  PROVE  /\ Portion(from, to) \in Seq(Symbols) /\ Len(Portion(from, to)) = to - from
         /\ \A i \in 1..(to - from) : Portion(from, to)[i] = ST!Wire[from + i]
<1>1. Len(ST!Wire) = ST!EndOf(Len(events)) /\ ST!Wire \in Seq(Symbols)
  BY WireFacts
<1>2. \A i \in (from + 1)..to : ST!Wire[i] \in Symbols
  <2>1. Len(ST!Wire) \in Nat
    BY <1>1
  <2>2. \A i \in (from + 1)..to : i \in 1..Len(ST!Wire)
    BY <1>1, <2>1
  <2> QED BY <1>1, <2>2
<1>3. /\ Portion(from, to) \in Seq(Symbols)
      /\ Len(Portion(from, to)) = IF from + 1 <= to THEN to - (from + 1) + 1 ELSE 0
      /\ \A i \in 1..to - (from + 1) + 1 : Portion(from, to)[i] = ST!Wire[(from + 1) + i - 1]
  <2>1. from + 1 \in Int /\ to \in Int
    OBVIOUS
  <2> QED BY <1>2, <2>1, SubSeqProperties DEF Portion
<1>4. Len(Portion(from, to)) = to - from
  BY <1>3
<1>5. ASSUME NEW i \in 1..(to - from) PROVE Portion(from, to)[i] = ST!Wire[from + i]
  <2>1. i \in 1..to - (from + 1) + 1 /\ (from + 1) + i - 1 = from + i
    OBVIOUS
  <2> QED BY <1>3, <2>1
<1> QED BY <1>3, <1>4, <1>5

\* Where a separator is found it stands, and where none is found none stands.
LEMMA FindFacts ==
  ASSUME NEW b \in Seq(Symbols), NEW sep \in Seq(Symbols), Len(sep) > 0
  PROVE  \/ /\ ST!Find(b, sep) = 0
            /\ \A i \in 1..(Len(b) - Len(sep) + 1) :
                 ~\A x \in 1..Len(sep) : b[i + x - 1] = sep[x]
         \/ /\ ST!Find(b, sep) \in 1..(Len(b) - Len(sep) + 1)
            /\ \A x \in 1..Len(sep) : b[ST!Find(b, sep) + x - 1] = sep[x]
<1> DEFINE places == {i \in 1..Len(b) : ST!IsPrefix(sep, SubSeq(b, i, Len(b)))}
           Stands(i) == \A x \in 1..Len(sep) : b[i + x - 1] = sep[x]
<1>1. ST!Find(b, sep) = IF places = {} THEN 0 ELSE CHOOSE i \in places : \A j \in places : i <= j
  BY DEF ST!Find
<1>2. Len(b) \in Nat /\ Len(sep) \in Nat
  OBVIOUS
<1>3. ASSUME NEW i \in 1..Len(b)
      PROVE  ST!IsPrefix(sep, SubSeq(b, i, Len(b))) <=>
               i <= Len(b) - Len(sep) + 1 /\ Stands(i)
  <2> DEFINE t == SubSeq(b, i, Len(b))
  <2>1. /\ t \in Seq(Symbols) /\ Len(t) = Len(b) - i + 1
        /\ \A x \in 1..Len(b) - i + 1 : t[x] = b[i + x - 1]
    <3>1. \A x \in i..Len(b) : b[x] \in Symbols
      OBVIOUS
    <3>2. i \in Int /\ Len(b) \in Int
      OBVIOUS
    <3> QED BY <3>1, <3>2, SubSeqProperties
  <2> HIDE DEF t
  <2>2. Len(sep) <= Len(t) <=> i <= Len(b) - Len(sep) + 1
    BY <1>2, <2>1
  <2>3. ASSUME Len(sep) <= Len(t)
        PROVE  SubSeq(sep, 1, Len(sep)) = SubSeq(t, 1, Len(sep)) <=> Stands(i)
    <3>1. SubSeq(sep, 1, Len(sep)) = sep
      BY SubSeqFull
    <3>2. /\ SubSeq(t, 1, Len(sep)) \in Seq(Symbols) /\ Len(SubSeq(t, 1, Len(sep))) = Len(sep)
          /\ \A x \in 1..Len(sep) : SubSeq(t, 1, Len(sep))[x] = t[x]
      <4>1. \A x \in 1..Len(sep) : t[x] \in Symbols
        BY <1>2, <2>1, <2>3
      <4>2. 1 \in Int /\ Len(sep) \in Int
        BY <1>2
      <4>3. /\ SubSeq(t, 1, Len(sep)) \in Seq(Symbols)
            /\ Len(SubSeq(t, 1, Len(sep))) = IF 1 <= Len(sep) THEN Len(sep) - 1 + 1 ELSE 0
            /\ \A x \in 1..Len(sep) - 1 + 1 : SubSeq(t, 1, Len(sep))[x] = t[1 + x - 1]
        BY <4>1, <4>2, SubSeqProperties
      <4>4. Len(sep) - 1 + 1 = Len(sep) /\ \A x \in 1..Len(sep) : 1 + x - 1 = x
        BY <1>2
      <4> QED BY <1>2, <4>3, <4>4
    <3>3. \A x \in 1..Len(sep) : t[x] = b[i + x - 1]
      BY <1>2, <2>1, <2>3
    <3> DEFINE u == SubSeq(t, 1, Len(sep))
    <3>4. u \in Seq(Symbols) /\ Len(u) = Len(sep) /\ \A x \in 1..Len(sep) : u[x] = b[i + x - 1]
      BY <3>2, <3>3
    <3> HIDE DEF u
    <3>5. Stands(i) => sep = u
      <4>1. Stands(i) => \A x \in 1..Len(sep) : sep[x] = u[x]
        BY <3>4
      <4> HIDE DEF Stands
      <4> QED BY <3>4, <4>1, SeqEqual
    <3>6. sep = u => Stands(i)
      BY <3>4
    <3> HIDE DEF Stands
    <3> QED BY <3>1, <3>5, <3>6 DEF u
  <2>4. ST!IsPrefix(sep, t) <=> Len(sep) <= Len(t) /\ SubSeq(sep, 1, Len(sep)) = SubSeq(t, 1, Len(sep))
    BY DEF ST!IsPrefix
  <2> HIDE DEF Stands
  <2> QED BY <2>2, <2>3, <2>4 DEF t
<1>4. CASE places = {}
  <2>1. ASSUME NEW i \in 1..(Len(b) - Len(sep) + 1) PROVE ~Stands(i)
    <3>1. i \in 1..Len(b)
      BY <1>2
    <3>2. i \notin places
      BY <1>4
    <3> HIDE DEF Stands
    <3> QED BY <1>3, <3>1, <3>2
  <2> QED BY <1>1, <1>4, <2>1
<1>5. CASE places # {}
  <2>1. IsFiniteSet(places)
    <3>1. places \in SUBSET (1..Len(b)) /\ IsFiniteSet(1..Len(b))
      BY <1>2, FS_Interval
    <3> HIDE DEF places
    <3> QED BY <3>1, FS_Subset
  <2> DEFINE f == [i \in places |-> i]
  <2>2. PICK m \in places : \A j \in places : m <= j
    <3>1. \A i \in places : f[i] \in Int
      BY <1>2
    <3>2. PICK m \in places : \A j \in places : f[m] <= f[j]
      <4> HIDE DEF f, places
      <4> QED BY <1>5, <2>1, <3>1, LeastMember
    <3> HIDE DEF places
    <3> QED BY <3>2
  <2>3. ST!Find(b, sep) \in places
    <3> HIDE DEF places
    <3> QED BY <1>1, <1>5, <2>2
  <2>4. ST!Find(b, sep) \in 1..Len(b) /\ ST!IsPrefix(sep, SubSeq(b, ST!Find(b, sep), Len(b)))
    BY <2>3
  <2>5. ST!Find(b, sep) <= Len(b) - Len(sep) + 1 /\ Stands(ST!Find(b, sep))
    <3> HIDE DEF Stands
    <3> QED BY <1>3, <2>4
  <2> QED BY <1>2, <2>4, <2>5
<1> QED BY <1>4, <1>5

\* The separators.
LEMMA SeparatorFacts ==
  /\ CRLF \in Seq(Symbols) /\ Len(CRLF) = 4
  /\ CRLF[1] = "\r" /\ CRLF[2] = "\n" /\ CRLF[3] = "\r" /\ CRLF[4] = "\n"
  /\ LF \in Seq(Symbols) /\ Len(LF) = 2 /\ LF[1] = "\n" /\ LF[2] = "\n"
BY DEF CRLF, LF, Symbols

\* Where the buffer begins with an event, Cut finds the end of an event that is whole,
\* perhaps of a later one, and finds none only where none is whole.
LEMMA CutFacts ==
  ASSUME Streamed, NEW j \in 0..Len(events), NEW to \in ST!EndOf(j)..ST!EndOf(Len(events)),
         NEW b, b = Portion(ST!EndOf(j), to)
  PROVE  \/ /\ ST!Cut(b)[1] = 0
            /\ \A m \in (j + 1)..Len(events) : ST!EndOf(m) > to
         \/ \E m \in (j + 1)..Len(events) :
              /\ ST!EndOf(m) <= to
              /\ ST!Cut(b)[1] = ST!EndOf(m - 1) - ST!EndOf(j) + 3
              /\ ST!Cut(b)[1] + ST!Cut(b)[2] - 1 = ST!EndOf(m) - ST!EndOf(j)
<1> DEFINE N == Len(events)
           from == ST!EndOf(j)
           crlf == ST!Find(b, CRLF)
           lf == ST!Find(b, LF)
<1>1. /\ N \in Nat /\ N \in 0..N /\ from \in Nat /\ ST!EndOf(N) \in Nat
      /\ to \in 0..ST!EndOf(N) /\ from \in 0..to
  <2>1. N \in Nat /\ N \in 0..N
    BY DEF Streamed
  <2>2. ST!EndOf(N) \in Nat /\ from \in Nat
    BY <2>1, WireFacts
  <2> QED BY <2>1, <2>2
<1>2. /\ b \in Seq(Symbols) /\ Len(b) = to - from
      /\ \A i \in 1..(to - from) : b[i] = ST!Wire[from + i]
  BY <1>1, PortionFacts
<1>3. ST!Cut(b) = IF crlf > 0 THEN <<crlf, 4>> ELSE <<lf, 2>>
  BY DEF ST!Cut, CRLF, LF
<1>4. \/ /\ crlf = 0
         /\ \A i \in 1..(Len(b) - 4 + 1) : ~\A x \in 1..4 : b[i + x - 1] = CRLF[x]
      \/ /\ crlf \in 1..(Len(b) - 4 + 1)
         /\ \A x \in 1..4 : b[crlf + x - 1] = CRLF[x]
  <2>1. CRLF \in Seq(Symbols) /\ Len(CRLF) > 0 /\ Len(CRLF) = 4
    BY SeparatorFacts
  <2>2. \/ /\ crlf = 0
           /\ \A i \in 1..(Len(b) - Len(CRLF) + 1) :
                ~\A x \in 1..Len(CRLF) : b[i + x - 1] = CRLF[x]
        \/ /\ crlf \in 1..(Len(b) - Len(CRLF) + 1)
           /\ \A x \in 1..Len(CRLF) : b[crlf + x - 1] = CRLF[x]
    BY <1>2, <2>1, FindFacts
  <2> HIDE DEF crlf
  <2> QED BY <2>1, <2>2
<1>5. \/ /\ lf = 0
         /\ \A i \in 1..(Len(b) - 2 + 1) : ~\A x \in 1..2 : b[i + x - 1] = LF[x]
      \/ /\ lf \in 1..(Len(b) - 2 + 1)
         /\ \A x \in 1..2 : b[lf + x - 1] = LF[x]
  <2>1. LF \in Seq(Symbols) /\ Len(LF) > 0 /\ Len(LF) = 2
    BY SeparatorFacts
  <2>2. \/ /\ lf = 0
           /\ \A i \in 1..(Len(b) - Len(LF) + 1) :
                ~\A x \in 1..Len(LF) : b[i + x - 1] = LF[x]
        \/ /\ lf \in 1..(Len(b) - Len(LF) + 1)
           /\ \A x \in 1..Len(LF) : b[lf + x - 1] = LF[x]
    BY <1>2, <2>1, FindFacts
  <2> HIDE DEF lf
  <2> QED BY <2>1, <2>2
<1> HIDE DEF N, from, crlf, lf
\* An event ends behind where the buffer begins if and only if it is one of those to come.
<1>6. ASSUME NEW m \in 1..N, ST!EndOf(m) > from PROVE m \in (j + 1)..N
  <2>1. ST!EndOf(m) <= ST!EndOf(j) <=> m <= j
    BY EndsOrdered DEF N
  <2>2. ST!EndOf(m) \in Nat
    <3>1. m \in 0..N
      OBVIOUS
    <3> QED BY <3>1, WireFacts DEF N
  <2> QED BY <1>1, <1>6, <2>1, <2>2 DEF from
<1>7. CASE crlf > 0
  <2>1. crlf \in 1..(Len(b) - 3) /\ \A x \in 1..4 : b[crlf + x - 1] = CRLF[x]
    BY <1>1, <1>2, <1>4, <1>7
  <2> DEFINE p == from + crlf
  <2>2. p \in Nat \ {0} /\ p + 3 <= ST!EndOf(N) /\ p + 3 <= to /\ p > from /\ crlf \in Nat
    <3>1. crlf \in Nat /\ crlf >= 1 /\ crlf <= to - from - 3
      BY <1>1, <1>2, <2>1
    <3>2. from \in Nat /\ to \in Nat /\ to <= ST!EndOf(N) /\ ST!EndOf(N) \in Nat
      BY <1>1
    <3>3. p = from + crlf
      OBVIOUS
    <3> HIDE DEF p
    <3> QED BY <3>1, <3>2, <3>3
  <2>3. b[crlf] = "\r" /\ b[crlf + 1] = "\n" /\ b[crlf + 2] = "\r"
    <3>1. crlf + 1 - 1 = crlf /\ crlf + 2 - 1 = crlf + 1 /\ crlf + 3 - 1 = crlf + 2
      BY <2>1
    <3>2. b[crlf + 1 - 1] = CRLF[1] /\ b[crlf + 2 - 1] = CRLF[2] /\ b[crlf + 3 - 1] = CRLF[3]
      BY <2>1
    <3> QED BY <3>1, <3>2, SeparatorFacts
  <2>4. ST!Wire[p] = "\r" /\ ST!Wire[p + 1] = "\n" /\ ST!Wire[p + 2] = "\r"
    <3>1. crlf \in 1..(to - from) /\ crlf + 1 \in 1..(to - from) /\ crlf + 2 \in 1..(to - from)
      BY <1>1, <1>2, <2>1
    <3>2. b[crlf] = ST!Wire[from + crlf] /\ b[crlf + 1] = ST!Wire[from + (crlf + 1)]
          /\ b[crlf + 2] = ST!Wire[from + (crlf + 2)]
      BY <1>2, <3>1
    <3>3. from + crlf = p /\ from + (crlf + 1) = p + 1 /\ from + (crlf + 2) = p + 2
      <4>1. from \in Nat /\ crlf \in Nat
        BY <1>1, <2>2
      <4> QED BY <4>1
    <3> HIDE DEF p
    <3>4. b[crlf] = ST!Wire[p] /\ b[crlf + 1] = ST!Wire[p + 1] /\ b[crlf + 2] = ST!Wire[p + 2]
      BY <3>2, <3>3
    <3> QED BY <2>3, <3>4
  <2>5. PICK m \in 1..N : events[m].separator = CRLF /\ p + 3 = ST!EndOf(m)
    <3> HIDE DEF p
    <3> QED BY <2>2, <2>4, BlankPlaceCRLF DEF N
  <2>6. ST!EndOf(m) = ST!EndOf(m - 1) + 6 /\ ST!EndOf(m - 1) \in Nat
    <3>1. CRLF # LF
      BY DEF CRLF, LF
    <3> QED BY <2>5, <3>1, OnTheWire DEF N
  <2>7. m \in (j + 1)..N
    BY <1>1, <1>6, <2>2, <2>5
  <2>8. ST!Cut(b)[1] = crlf /\ ST!Cut(b)[2] = 4
    BY <1>3, <1>7
  <2>9. /\ ST!EndOf(m) <= to
        /\ crlf = ST!EndOf(m - 1) - from + 3
        /\ crlf + 4 - 1 = ST!EndOf(m) - from
    BY <1>1, <2>2, <2>5, <2>6
  <2> QED BY <2>7, <2>8, <2>9 DEF N, from
<1>8. CASE ~(crlf > 0) /\ lf > 0
  <2>1. lf \in 1..(Len(b) - 1) /\ \A x \in 1..2 : b[lf + x - 1] = LF[x]
    BY <1>1, <1>2, <1>5, <1>8
  <2> DEFINE p == from + lf
  <2>2. p \in Nat \ {0} /\ p + 1 <= ST!EndOf(N) /\ p + 1 <= to /\ p > from /\ lf \in Nat
    BY <1>1, <1>2, <2>1
  <2>3. b[lf] = "\n" /\ b[lf + 1] = "\n"
    <3>1. lf + 1 - 1 = lf /\ lf + 2 - 1 = lf + 1
      BY <2>1
    <3>2. b[lf + 1 - 1] = LF[1] /\ b[lf + 2 - 1] = LF[2]
      BY <2>1
    <3> QED BY <3>1, <3>2, SeparatorFacts
  <2>4. ST!Wire[p] = "\n" /\ ST!Wire[p + 1] = "\n"
    <3>1. lf \in 1..(to - from) /\ lf + 1 \in 1..(to - from)
      BY <1>1, <1>2, <2>1
    <3>2. b[lf] = ST!Wire[from + lf] /\ b[lf + 1] = ST!Wire[from + (lf + 1)]
      BY <1>2, <3>1
    <3>3. from + (lf + 1) = p + 1
      BY <1>1, <2>1
    <3> QED BY <2>3, <3>2, <3>3
  <2>5. PICK m \in 1..N : events[m].separator = LF /\ p + 1 = ST!EndOf(m)
    <3> HIDE DEF p
    <3> QED BY <2>2, <2>4, BlankPlace DEF N
  <2>6. ST!EndOf(m) = ST!EndOf(m - 1) + 4 /\ ST!EndOf(m - 1) \in Nat
    <3>1. CRLF # LF
      BY DEF CRLF, LF
    <3> QED BY <2>5, <3>1, OnTheWire DEF N
  <2>7. m \in (j + 1)..N
    BY <1>1, <1>6, <2>2, <2>5
  <2>8. ST!Cut(b)[1] = lf /\ ST!Cut(b)[2] = 2
    BY <1>3, <1>8
  <2>9. /\ ST!EndOf(m) <= to
        /\ lf = ST!EndOf(m - 1) - from + 3
        /\ lf + 2 - 1 = ST!EndOf(m) - from
    BY <1>1, <2>2, <2>5, <2>6
  <2> QED BY <2>7, <2>8, <2>9 DEF N, from
<1>9. CASE ~(crlf > 0) /\ ~(lf > 0)
  <2>1. /\ ST!Cut(b)[1] = 0
        /\ \A i \in 1..(Len(b) - 3) : ~\A x \in 1..4 : b[i + x - 1] = CRLF[x]
        /\ \A i \in 1..(Len(b) - 1) : ~\A x \in 1..2 : b[i + x - 1] = LF[x]
    <3>1. crlf = 0 /\ \A i \in 1..(Len(b) - 4 + 1) : ~\A x \in 1..4 : b[i + x - 1] = CRLF[x]
      BY <1>4, <1>9
    <3>2. lf = 0 /\ \A i \in 1..(Len(b) - 2 + 1) : ~\A x \in 1..2 : b[i + x - 1] = LF[x]
      BY <1>5, <1>9
    <3>3. Len(b) - 4 + 1 = Len(b) - 3 /\ Len(b) - 2 + 1 = Len(b) - 1
      BY <1>1, <1>2
    <3>4. ST!Cut(b)[1] = 0
      BY <1>3, <1>9, <3>2
    <3> QED BY <3>1, <3>2, <3>3, <3>4
  <2>2. ASSUME NEW m \in (j + 1)..N, ST!EndOf(m) <= to PROVE FALSE
    <3> DEFINE base == ST!EndOf(m - 1)
    <3>1. m \in 1..N /\ m - 1 \in 0..N /\ j <= m - 1
      BY <1>1
    <3>2. from <= base /\ base \in Nat
      <4>1. ST!EndOf(j) <= ST!EndOf(m - 1) <=> j <= m - 1
        BY <3>1, EndsOrdered DEF N
      <4>2. ST!EndOf(m - 1) \in Nat
        BY <3>1, WireFacts DEF N
      <4> QED BY <3>1, <4>1, <4>2 DEF from
    <3> HIDE DEF base
    <3>3. \/ /\ ST!EndOf(m) = base + 6
             /\ ST!Wire[base + 3] = "\r" /\ ST!Wire[base + 4] = "\n"
             /\ ST!Wire[base + 5] = "\r" /\ ST!Wire[base + 6] = "\n"
          \/ /\ ST!EndOf(m) = base + 4
             /\ ST!Wire[base + 3] = "\n" /\ ST!Wire[base + 4] = "\n"
      BY <3>1, OnTheWire DEF base, N
    <3> DEFINE i == base - from + 3
    <3>4. i \in Nat /\ i >= 1 /\ from + i = base + 3 /\ from + (i + 1) = base + 4
          /\ from + (i + 2) = base + 5 /\ from + (i + 3) = base + 6
      BY <1>1, <3>2
    <3> HIDE DEF i
    <3>5. CASE ST!EndOf(m) = base + 6 /\ ST!Wire[base + 3] = "\r" /\ ST!Wire[base + 4] = "\n"
                 /\ ST!Wire[base + 5] = "\r" /\ ST!Wire[base + 6] = "\n"
      <4>1. i + 3 <= to - from
        BY <1>1, <2>2, <3>2, <3>4, <3>5
      <4>2. /\ b[i] = "\r" /\ b[i + 1] = "\n" /\ b[i + 2] = "\r" /\ b[i + 3] = "\n"
        <5>1. i \in 1..(to - from) /\ i + 1 \in 1..(to - from) /\ i + 2 \in 1..(to - from)
              /\ i + 3 \in 1..(to - from)
          BY <1>1, <3>4, <4>1
        <5>2. b[i] = ST!Wire[from + i] /\ b[i + 1] = ST!Wire[from + (i + 1)]
              /\ b[i + 2] = ST!Wire[from + (i + 2)] /\ b[i + 3] = ST!Wire[from + (i + 3)]
          BY <1>2, <5>1
        <5> QED BY <3>4, <3>5, <5>2
      <4>3. i \in 1..(Len(b) - 3)
        BY <1>1, <1>2, <3>4, <4>1
      <4>4. ASSUME NEW x \in 1..4 PROVE b[i + x - 1] = CRLF[x]
        <5>1. x = 1 \/ x = 2 \/ x = 3 \/ x = 4
          OBVIOUS
        <5>2. i + 1 - 1 = i /\ i + 2 - 1 = i + 1 /\ i + 3 - 1 = i + 2 /\ i + 4 - 1 = i + 3
          BY <3>4
        <5> QED BY <4>2, <5>1, <5>2, SeparatorFacts
      <4> QED BY <2>1, <4>3, <4>4
    <3>6. CASE ST!EndOf(m) = base + 4 /\ ST!Wire[base + 3] = "\n" /\ ST!Wire[base + 4] = "\n"
      <4>1. i + 1 <= to - from
        BY <1>1, <2>2, <3>2, <3>4, <3>6
      <4>2. b[i] = "\n" /\ b[i + 1] = "\n"
        <5>1. i \in 1..(to - from) /\ i + 1 \in 1..(to - from)
          BY <1>1, <3>4, <4>1
        <5>2. b[i] = ST!Wire[from + i] /\ b[i + 1] = ST!Wire[from + (i + 1)]
          BY <1>2, <5>1
        <5> QED BY <3>4, <3>6, <5>2
      <4>3. i \in 1..(Len(b) - 1)
        BY <1>1, <1>2, <3>4, <4>1
      <4>4. ASSUME NEW x \in 1..2 PROVE b[i + x - 1] = LF[x]
        <5>1. x = 1 \/ x = 2
          OBVIOUS
        <5>2. i + 1 - 1 = i /\ i + 2 - 1 = i + 1
          BY <3>4
        <5> QED BY <4>2, <5>1, <5>2, SeparatorFacts
      <4> QED BY <2>1, <4>3, <4>4
    <3> QED BY <3>3, <3>5, <3>6
  <2>3. \A m \in (j + 1)..N : ST!EndOf(m) > to
    <3>1. \A m \in (j + 1)..N : ST!EndOf(m) \in Nat
      <4>1. \A m \in (j + 1)..N : m \in 0..N
        BY <1>1
      <4> QED BY <4>1, WireFacts DEF N
    <3> QED BY <1>1, <2>2, <3>1
  <2> QED BY <2>1, <2>3 DEF N
<1> QED BY <1>7, <1>8, <1>9

\* Two symbols from a place on.
LEMMA PairOf ==
  ASSUME NEW e \in Seq(Symbols), NEW i \in Nat \ {0}, i + 1 <= Len(e)
  PROVE  SubSeq(e, i, i + 1) = <<e[i], e[i + 1]>>
<1> DEFINE k == i + 1
           u == SubSeq(e, i, k)
           w == <<e[i], e[k]>>
<1>1. k \in Int /\ i \in Int /\ k - i + 1 = 2 /\ i <= k /\ i + 1 - 1 = i /\ i + 2 - 1 = k
  OBVIOUS
<1>2. e[i] \in Symbols /\ e[k] \in Symbols
  <2>1. i \in 1..Len(e) /\ k \in 1..Len(e)
    OBVIOUS
  <2> QED BY <2>1
<1>3. \A x \in i..k : e[x] \in Symbols
  <2>1. \A x \in i..k : x = i \/ x = k
    OBVIOUS
  <2> HIDE DEF k
  <2> QED BY <1>2, <2>1
<1> HIDE DEF k
<1>4. /\ u \in Seq(Symbols) /\ Len(u) = IF i <= k THEN k - i + 1 ELSE 0
      /\ \A x \in 1..(k - i + 1) : u[x] = e[i + x - 1]
  BY <1>1, <1>3, SubSeqProperties
<1>5. u \in Seq(Symbols) /\ Len(u) = 2 /\ u[1] = e[i] /\ u[2] = e[k]
  BY <1>1, <1>4
<1>6. w \in Seq(Symbols) /\ Len(w) = 2 /\ w[1] = e[i] /\ w[2] = e[k]
  BY <1>2
<1> HIDE DEF u, w
<1>7. \A x \in 1..Len(u) : u[x] = w[x]
  <2>1. \A x \in 1..Len(u) : x = 1 \/ x = 2
    BY <1>5
  <2> QED BY <1>5, <1>6, <2>1
<1>8. u = w
  BY <1>5, <1>6, <1>7, SeqEqual
<1> QED BY <1>8 DEF u, w, k

\* The lines in e are those of the events behind j up to m.
HoldsLines(e, j, m) ==
  /\ \A r \in (j + 1)..m :
       /\ ST!EndOf(r - 1) - ST!EndOf(j) + 1 \in ST!LinesOf(e)
       /\ ST!LineAt(e, ST!EndOf(r - 1) - ST!EndOf(j) + 1) = events[r].line
  /\ \A i \in ST!LinesOf(e) : \E r \in (j + 1)..m : i = ST!EndOf(r - 1) - ST!EndOf(j) + 1

\* What is cut off holds the lines of the events up to the one it ends with.
LEMMA CutOffLines ==
  ASSUME Streamed, NEW j \in 0..Len(events), NEW to \in ST!EndOf(j)..ST!EndOf(Len(events)),
         NEW m \in (j + 1)..Len(events), ST!EndOf(m) <= to,
         NEW e, e = SubSeq(Portion(ST!EndOf(j), to), 1, ST!EndOf(m - 1) - ST!EndOf(j) + 2)
  PROVE  HoldsLines(e, j, m)
<1> DEFINE N == Len(events)
           from == ST!EndOf(j)
           size == ST!EndOf(m - 1) - from + 2
           b == Portion(from, to)
<1>1. /\ N \in Nat /\ N \in 0..N /\ from \in Nat /\ ST!EndOf(N) \in Nat
      /\ to \in 0..ST!EndOf(N) /\ from \in 0..to
  <2>1. N \in Nat /\ N \in 0..N
    BY DEF Streamed
  <2>2. ST!EndOf(N) \in Nat /\ from \in Nat
    BY <2>1, WireFacts
  <2> QED BY <2>1, <2>2
<1>2. m \in 1..N /\ m - 1 \in 0..N /\ m \in 0..N /\ j <= m - 1 /\ m \in Nat
  BY <1>1
<1>3. /\ from <= ST!EndOf(m - 1) /\ ST!EndOf(m - 1) \in Nat
      /\ ST!EndOf(m - 1) + 4 <= ST!EndOf(m) /\ ST!EndOf(m) \in Nat
  BY <1>2, EndsOrdered
<1>4. size \in Nat /\ size >= 2 /\ size <= to - from
  BY <1>1, <1>3
<1>5. /\ b \in Seq(Symbols) /\ Len(b) = to - from
      /\ \A i \in 1..(to - from) : b[i] = ST!Wire[from + i]
  BY <1>1, PortionFacts
<1>6. /\ e \in Seq(Symbols) /\ Len(e) = size
      /\ \A i \in 1..size : e[i] = ST!Wire[from + i]
  <2>1. e = SubSeq(b, 1, size)
    OBVIOUS
  <2> HIDE DEF size, b
  <2>2. \A i \in 1..size : b[i] \in Symbols
    BY <1>1, <1>4, <1>5
  <2>3. 1 \in Int /\ size \in Int
    BY <1>4
  <2>4. /\ SubSeq(b, 1, size) \in Seq(Symbols)
        /\ Len(SubSeq(b, 1, size)) = IF 1 <= size THEN size - 1 + 1 ELSE 0
        /\ \A i \in 1..size - 1 + 1 : SubSeq(b, 1, size)[i] = b[1 + i - 1]
    BY <2>2, <2>3, SubSeqProperties
  <2>5. size - 1 + 1 = size /\ 1 <= size
    BY <1>4
  <2>6. ASSUME NEW i \in 1..size PROVE e[i] = ST!Wire[from + i]
    <3>1. 1 + i - 1 = i /\ i \in 1..(to - from)
      BY <1>1, <1>4
    <3>2. SubSeq(b, 1, size)[i] = b[1 + i - 1]
      BY <2>4, <2>5
    <3> QED BY <1>5, <2>1, <3>1, <3>2
  <2>7. e \in Seq(Symbols) /\ Len(e) = size
    BY <2>1, <2>4, <2>5
  <2> QED BY <2>6, <2>7
<1>7. ST!LinesOf(e) = {i \in 1..size : i < size /\ e[i] \in Heads}
  <2>1. DOMAIN e = 1..size
    BY <1>6
  <2> HIDE DEF size
  <2> QED BY <1>6, <2>1 DEF ST!LinesOf, Heads
<1> HIDE DEF N, from, size, b
<1>8. ASSUME NEW r \in (j + 1)..m
      PROVE  LET i == ST!EndOf(r - 1) - from + 1 IN
             i \in ST!LinesOf(e) /\ ST!LineAt(e, i) = events[r].line
  <2> DEFINE base == ST!EndOf(r - 1)
             i == base - from + 1
  <2>1. r \in 1..N /\ r - 1 \in 0..N /\ j <= r - 1 /\ r - 1 <= m - 1
    BY <1>1, <1>2
  <2>2. from <= base /\ base \in Nat
    <3>1. ST!EndOf(j) <= ST!EndOf(r - 1) <=> j <= r - 1
      BY <2>1, EndsOrdered DEF N
    <3>2. ST!EndOf(r - 1) \in Nat
      BY <2>1, WireFacts DEF N
    <3> QED BY <2>1, <3>1, <3>2 DEF from
  <2>3. base <= ST!EndOf(m - 1)
    <3>1. ST!EndOf(r - 1) <= ST!EndOf(m - 1) <=> r - 1 <= m - 1
      BY <1>2, <2>1, EndsOrdered DEF N
    <3> QED BY <2>1, <3>1
  <2> HIDE DEF base
  <2>4. i \in Nat /\ i >= 1 /\ i + 1 <= size /\ from + i = base + 1 /\ from + (i + 1) = base + 2
    BY <1>1, <1>3, <2>2, <2>3 DEF size
  <2> HIDE DEF i
  <2>5. i \in 1..size /\ i + 1 \in 1..size
    BY <1>4, <2>4
  <2>6. e[i] = ST!Wire[base + 1] /\ e[i + 1] = ST!Wire[base + 2]
    <3>1. e[i] = ST!Wire[from + i] /\ e[i + 1] = ST!Wire[from + (i + 1)]
      BY <1>6, <2>5
    <3> QED BY <2>4, <3>1
  <2>7. ST!Wire[base + 1] \in Heads /\ events[r].line = <<ST!Wire[base + 1], ST!Wire[base + 2]>>
    BY <2>1, OnTheWire DEF N, base
  <2>8. i \in ST!LinesOf(e)
    <3>1. i < size
      BY <1>4, <2>4
    <3>2. e[i] \in Heads
      BY <2>6, <2>7
    <3> QED BY <1>7, <2>5, <3>1, <3>2
  <2>9. SubSeq(e, i, i + 1) = <<e[i], e[i + 1]>>
    <3>1. i \in Nat \ {0} /\ i + 1 <= Len(e)
      BY <1>6, <2>4
    <3> QED BY <1>6, <3>1, PairOf
  <2>10. ST!LineAt(e, i) = events[r].line
    BY <2>6, <2>7, <2>9 DEF ST!LineAt
  <2> QED BY <2>8, <2>10 DEF i, base
<1>9. ASSUME NEW i \in ST!LinesOf(e)
      PROVE  \E r \in (j + 1)..m : i = ST!EndOf(r - 1) - from + 1
  <2>1. i \in Nat /\ i >= 1 /\ i < size /\ i \in 1..size /\ e[i] \in Heads
    <3>1. i \in 1..size /\ i < size /\ e[i] \in Heads
      BY <1>7
    <3>2. i \in Nat /\ i >= 1
      BY <1>4, <3>1
    <3> QED BY <3>1, <3>2
  <2>2. ST!Wire[from + i] \in Heads
    BY <1>6, <2>1
  <2>3. from + i \in 1..ST!EndOf(N)
    BY <1>1, <1>4, <2>1
  <2> DEFINE p == from + i
  <2>4. PICK r \in 1..N : p = ST!EndOf(r - 1) + 1
    <3> HIDE DEF p
    <3>1. p \in 1..ST!EndOf(N) /\ ST!Wire[p] \in Heads
      BY <2>2, <2>3 DEF p
    <3> QED BY <3>1, HeadPlace DEF N
  <2>5. r - 1 \in 0..N /\ ST!EndOf(r - 1) \in Nat
    <3>1. r - 1 \in 0..N
      BY <1>1
    <3> QED BY <3>1, WireFacts DEF N
  <2>6. i = ST!EndOf(r - 1) - from + 1
    BY <1>1, <2>1, <2>4, <2>5
  <2>7. from <= ST!EndOf(r - 1) /\ ST!EndOf(r - 1) <= ST!EndOf(m - 1)
    <3>1. i <= ST!EndOf(m - 1) - from + 1
      BY <1>1, <1>3, <2>1 DEF size
    <3>2. ST!EndOf(r - 1) \in Nat /\ ST!EndOf(m - 1) \in Nat /\ i \in Nat /\ from \in Nat /\ i >= 1
      BY <1>1, <1>3, <2>1, <2>5
    <3> QED BY <2>6, <3>1, <3>2
  <2>8. r \in (j + 1)..m
    <3>1. ST!EndOf(j) <= ST!EndOf(r - 1) <=> j <= r - 1
      BY <2>5, EndsOrdered DEF N
    <3>2. ST!EndOf(r - 1) <= ST!EndOf(m - 1) <=> r - 1 <= m - 1
      BY <1>2, <2>5, EndsOrdered DEF N
    <3>3. j <= r - 1 /\ r - 1 <= m - 1
      BY <2>7, <3>1, <3>2 DEF from
    <3> QED BY <1>2, <3>3
  <2> QED BY <2>6, <2>8
<1> QED BY <1>8, <1>9 DEF from, HoldsLines

\* What feed's loop does with the last n symbols of the buffer: it stops there, or takes
\* out an event and goes on with what is left, x of it.
Suffix(b, n) == SubSeq(b, Len(b) - n + 1, Len(b))

Stops(b, n) == ST!Cut(Suffix(b, n))[1] = 0

CutOff(b, n) == SubSeq(Suffix(b, n), 1, ST!Cut(Suffix(b, n))[1] - 1)

CutSize(b, n) == ST!Cut(Suffix(b, n))[1] + ST!Cut(Suffix(b, n))[2] - 1

TokensIn(e) == ST!Cardinality({i \in ST!LinesOf(e) : ST!IsToken(ST!LineAt(e, i))})

ErrorIn(e) == \E i \in ST!LinesOf(e) : ST!IsError(ST!LineAt(e, i))

Taken(b, n, x) ==
  IF Stops(b, n) THEN [buffer |-> Suffix(b, n), tokens |-> 0, error |-> FALSE]
  ELSE [x EXCEPT !.tokens = @ + TokensIn(CutOff(b, n)), !.error = @ \/ ErrorIn(CutOff(b, n))]

\* The end of a buffer.
LEMMA SuffixFacts ==
  ASSUME NEW b \in Seq(Symbols), NEW n \in 0..Len(b)
  PROVE  Suffix(b, n) \in Seq(Symbols) /\ Len(Suffix(b, n)) = n
<1> DEFINE first == Len(b) - n + 1
<1>1. first \in Int /\ Len(b) \in Int /\ Len(b) - first + 1 = n /\ (first <= Len(b) <=> n > 0)
  OBVIOUS
<1>2. \A i \in first..Len(b) : b[i] \in Symbols
  OBVIOUS
<1>3. n \in Nat
  OBVIOUS
<1>4. Suffix(b, n) = SubSeq(b, first, Len(b))
  BY DEF Suffix
<1> HIDE DEF first
<1>5. /\ SubSeq(b, first, Len(b)) \in Seq(Symbols)
      /\ Len(SubSeq(b, first, Len(b))) = IF first <= Len(b) THEN Len(b) - first + 1 ELSE 0
  BY <1>1, <1>2, SubSeqProperties
<1> QED BY <1>1, <1>3, <1>4, <1>5

\* What is taken out is a part of the buffer.
LEMMA CutSizes ==
  ASSUME NEW b \in Seq(Symbols), NEW n \in 0..Len(b), ~Stops(b, n)
  PROVE  CutSize(b, n) \in 1..n
<1> DEFINE s == Suffix(b, n)
           crlf == ST!Find(s, CRLF)
           lf == ST!Find(s, LF)
<1>1. s \in Seq(Symbols) /\ Len(s) = n /\ n \in Nat
  BY SuffixFacts
<1>2. ST!Cut(s) = IF crlf > 0 THEN <<crlf, 4>> ELSE <<lf, 2>>
  BY DEF ST!Cut, CRLF, LF
<1>3. ST!Cut(s)[1] # 0 /\ CutSize(b, n) = ST!Cut(s)[1] + ST!Cut(s)[2] - 1
  BY DEF Stops, CutSize
<1> HIDE DEF s
<1>4. crlf = 0 \/ crlf \in 1..(Len(s) - Len(CRLF) + 1)
  <2>1. CRLF \in Seq(Symbols) /\ Len(CRLF) > 0
    BY SeparatorFacts
  <2> QED BY <1>1, <2>1, FindFacts
<1>5. lf = 0 \/ lf \in 1..(Len(s) - Len(LF) + 1)
  <2>1. LF \in Seq(Symbols) /\ Len(LF) > 0
    BY SeparatorFacts
  <2> QED BY <1>1, <2>1, FindFacts
<1> HIDE DEF crlf, lf
<1>6. CASE crlf > 0
  <2>1. ST!Cut(s)[1] = crlf /\ ST!Cut(s)[2] = 4
    BY <1>2, <1>6
  <2>2. crlf \in 1..(n - 4 + 1)
    BY <1>1, <1>4, <1>6, SeparatorFacts
  <2> QED BY <1>1, <1>3, <2>1, <2>2
<1>7. CASE ~(crlf > 0)
  <2>1. ST!Cut(s)[1] = lf /\ ST!Cut(s)[2] = 2
    BY <1>2, <1>7
  <2>2. lf \in 1..(n - 2 + 1)
    BY <1>1, <1>3, <1>5, <2>1, SeparatorFacts
  <2> QED BY <1>1, <1>3, <2>1, <2>2
<1> QED BY <1>6, <1>7

\* The loop is what its steps make of it.
LEMMA FedUnfolds ==
  ASSUME NEW b \in Seq(Symbols)
  PROVE  \E f : /\ ST!Fed(b) = f[Len(b)]
                /\ \A n \in 0..Len(b) : f[n] = Taken(b, n, f[n - CutSize(b, n)])
<1> DEFINE L0 == Len(b)
           Rec(f) == f = [n \in 0..Len(b) |-> Taken(b, n, f[n - CutSize(b, n)])]
           rest == CHOOSE f : Rec(f)
<1>1. ST!Fed(b) = rest[Len(b)]
  BY DEF ST!Fed, Taken, Stops, Suffix, CutOff, CutSize, TokensIn, ErrorIn
<1>2. L0 \in Nat
  OBVIOUS
<1>3. ASSUME NEW n \in 0..L0, Stops(b, n), NEW x, NEW y PROVE Taken(b, n, x) = Taken(b, n, y)
  BY <1>3 DEF Taken
<1>4. \A n \in 0..L0 : ~Stops(b, n) => CutSize(b, n) \in 1..n
  BY CutSizes
<1> DEFINE Follows(f, i) == f[i] = Taken(b, i, f[i - CutSize(b, i)])
           Good(n) == \E f : \A i \in 0..n : Follows(f, i)
           G == {n \in 0..L0 : Good(n)}
<1>5. 0 \in G
  <2> DEFINE f == [i \in 0..0 |-> Taken(b, 0, 0)]
  <2>1. 0 \in 0..L0 /\ Stops(b, 0)
    BY <1>2, <1>4
  <2>2. ASSUME NEW i \in 0..0 PROVE Follows(f, i)
    <3>1. i = 0 /\ f[i] = Taken(b, 0, 0)
      OBVIOUS
    <3> HIDE DEF f
    <3> QED BY <1>3, <2>1, <3>1
  <2>3. Good(0)
    <3> HIDE DEF f, Follows
    <3> QED BY <2>2
  <2> HIDE DEF Good
  <2> QED BY <2>1, <2>3
<1>6. ASSUME NEW n \in 0..(L0 - 1), n \in G PROVE n + 1 \in G
  <2> DEFINE m == n + 1
  <2>1. m \in 0..L0 /\ m - 1 = n /\ n \in 0..L0 /\ m \in Nat /\ n \in Nat /\ m = n + 1
    BY <1>2
  <2> HIDE DEF m
  <2>2. Good(n)
    <3> HIDE DEF Good
    <3> QED BY <1>6
  <2>3. PICK h : \A i \in 0..n : Follows(h, i)
    <3> HIDE DEF Follows
    <3> QED BY <2>2
  <2> DEFINE f == [i \in 0..m |-> IF i = m THEN Taken(b, m, h[m - CutSize(b, m)]) ELSE h[i]]
  <2>4. ASSUME NEW i \in 0..m PROVE Follows(f, i)
    <3>1. f[i] = Taken(b, i, h[i - CutSize(b, i)])
      <4>1. CASE i = m
        BY <4>1
      <4>2. CASE i # m
        <5>1. i \in 0..n /\ f[i] = h[i]
          BY <2>1, <4>2
        <5> HIDE DEF f
        <5> QED BY <2>3, <5>1
      <4> QED BY <4>1, <4>2
    <3>2. i \in 0..L0
      BY <2>1
    <3>3. CASE Stops(b, i)
      <4> HIDE DEF f
      <4> QED BY <1>3, <3>1, <3>2, <3>3
    <3>4. CASE ~Stops(b, i)
      <4>1. CutSize(b, i) \in 1..i
        BY <1>4, <3>2, <3>4
      <4>2. i - CutSize(b, i) \in 0..m /\ i - CutSize(b, i) # m
        BY <2>1, <4>1
      <4>3. f[i - CutSize(b, i)] = h[i - CutSize(b, i)]
        BY <4>2
      <4> HIDE DEF f
      <4> QED BY <3>1, <4>3
    <3> QED BY <3>3, <3>4
  <2>5. Good(m)
    <3> HIDE DEF f, Follows
    <3> QED BY <2>4
  <2>6. m \in G
    <3> HIDE DEF Good
    <3> QED BY <2>1, <2>5
  <2> QED BY <2>1, <2>6
<1>7. 0..L0 \subseteq G
  <2> HIDE DEF G, L0
  <2> QED BY <1>2, <1>5, <1>6, CountingUp
<1>8. Good(L0)
  <2> HIDE DEF Good, L0
  <2> QED BY <1>2, <1>7
<1>9. PICK h : \A i \in 0..L0 : Follows(h, i)
  <2> HIDE DEF Follows, L0
  <2> QED BY <1>8
<1>10. \E f : Rec(f)
  <2> DEFINE f == [i \in 0..L0 |-> h[i]]
  <2>1. ASSUME NEW i \in 0..L0 PROVE h[i] = Taken(b, i, f[i - CutSize(b, i)])
    <3>1. h[i] = Taken(b, i, h[i - CutSize(b, i)])
      BY <1>9
    <3>2. CASE Stops(b, i)
      <4> HIDE DEF f, L0
      <4> QED BY <1>3, <3>1, <3>2
    <3>3. CASE ~Stops(b, i)
      <4>1. CutSize(b, i) \in 1..i
        BY <1>4, <3>3
      <4>2. i - CutSize(b, i) \in 0..L0
        BY <1>2, <4>1
      <4>3. f[i - CutSize(b, i)] = h[i - CutSize(b, i)]
        BY <4>2
      <4> HIDE DEF f
      <4> QED BY <3>1, <4>3
    <3> QED BY <3>2, <3>3
  <2>2. Rec(f)
    BY <2>1
  <2> HIDE DEF Rec, f
  <2> QED BY <2>2
<1>11. Rec(rest)
  <2> HIDE DEF Rec
  <2> QED BY <1>10
<1> HIDE DEF rest
<1>12. ASSUME NEW n \in 0..Len(b) PROVE rest[n] = Taken(b, n, rest[n - CutSize(b, n)])
  BY <1>11
<1> QED BY <1>1, <1>12

\* What is counted in the piece cut off are the tokens and errors of its events.
LEMMA CutOffCounts ==
  ASSUME Streamed, NEW j \in 0..Len(events), NEW to \in ST!EndOf(j)..ST!EndOf(Len(events)),
         NEW m \in (j + 1)..Len(events), ST!EndOf(m) <= to,
         NEW e, e = SubSeq(Portion(ST!EndOf(j), to), 1, ST!EndOf(m - 1) - ST!EndOf(j) + 2)
  PROVE  /\ TokensIn(e) = Cardinality({r \in (j + 1)..m : ST!IsToken(events[r].line)})
         /\ ErrorIn(e) <=> \E r \in (j + 1)..m : ST!IsError(events[r].line)
<1> DEFINE f == [r \in (j + 1)..m |-> ST!EndOf(r - 1) - ST!EndOf(j) + 1]
           X == {r \in (j + 1)..m : ST!IsToken(events[r].line)}
           Z == {i \in ST!LinesOf(e) : ST!IsToken(ST!LineAt(e, i))}
<1>a. HoldsLines(e, j, m)
  <2> HIDE DEF f, X, Z
  <2> QED BY CutOffLines
<1>1. \A r \in (j + 1)..m : f[r] \in ST!LinesOf(e) /\ ST!LineAt(e, f[r]) = events[r].line
  BY <1>a DEF HoldsLines
<1>0. \A i \in ST!LinesOf(e) : \E r \in (j + 1)..m : i = ST!EndOf(r - 1) - ST!EndOf(j) + 1
  <2> HIDE DEF f, X, Z
  <2> QED BY <1>a DEF HoldsLines
<1>2. ASSUME NEW i \in ST!LinesOf(e) PROVE \E r \in (j + 1)..m : i = f[r]
  <2>1. PICK r \in (j + 1)..m : i = ST!EndOf(r - 1) - ST!EndOf(j) + 1
    BY <1>0
  <2>2. f[r] = i
    BY <2>1
  <2> QED BY <2>2
<1>3. ASSUME NEW x \in (j + 1)..m, NEW y \in (j + 1)..m, f[x] = f[y] PROVE x = y
  <2>1. Len(events) \in Nat
    BY DEF Streamed
  <2>2. x - 1 \in 0..Len(events) /\ y - 1 \in 0..Len(events) /\ j \in 0..Len(events)
    BY <2>1
  <2>3. ST!EndOf(x - 1) \in Nat /\ ST!EndOf(y - 1) \in Nat /\ ST!EndOf(j) \in Nat
    BY <2>2, WireFacts
  <2>4. ST!EndOf(x - 1) - ST!EndOf(j) + 1 = ST!EndOf(y - 1) - ST!EndOf(j) + 1
    BY <1>3
  <2>5. ST!EndOf(x - 1) = ST!EndOf(y - 1)
    BY <2>3, <2>4
  <2>6. x - 1 = y - 1
    BY <2>2, <2>5, EndsOrdered
  <2> QED BY <2>6
<1> HIDE DEF f
<1>4. Cardinality(Z) = Cardinality(X)
  <2>1. IsFiniteSet(X)
    <3>1. IsFiniteSet((j + 1)..m) /\ X \in SUBSET ((j + 1)..m)
      <4>1. j + 1 \in Int /\ m \in Int
        OBVIOUS
      <4> QED BY <4>1, FS_Interval
    <3> HIDE DEF X
    <3> QED BY <3>1, FS_Subset
  <2>2. \A x \in X : f[x] \in Z
    BY <1>1
  <2>3. ASSUME NEW z \in Z PROVE \E x \in X : f[x] = z
    <3>1. z \in ST!LinesOf(e) /\ ST!IsToken(ST!LineAt(e, z))
      OBVIOUS
    <3>2. PICK r \in (j + 1)..m : z = f[r]
      BY <1>2, <3>1
    <3>3. ST!IsToken(events[r].line)
      BY <1>1, <3>1, <3>2
    <3> QED BY <3>2, <3>3
  <2>4. \A x, y \in X : f[x] = f[y] => x = y
    BY <1>3
  <2> HIDE DEF X, Z
  <2> QED BY <2>1, <2>2, <2>3, <2>4, SameSize
<1>5. TokensIn(e) = Cardinality(Z)
  BY DEF TokensIn, ST!Cardinality, Cardinality
<1>6. ErrorIn(e) <=> \E r \in (j + 1)..m : ST!IsError(events[r].line)
  BY <1>1, <1>2 DEF ErrorIn
<1> QED BY <1>4, <1>5, <1>6

\* The tokens among the events behind j up to k, and whether one is an error.
Tally(j, k) == Cardinality({r \in (j + 1)..k : ST!IsToken(events[r].line)})
AnyError(j, k) == \E r \in (j + 1)..k : ST!IsError(events[r].line)

\* Both add up.
LEMMA TallyFacts ==
  ASSUME NEW j \in Nat, NEW m \in Nat, NEW k \in Nat, j <= m, m <= k
  PROVE  /\ Tally(j, k) \in Nat /\ Tally(j, m) \in Nat /\ Tally(m, k) \in Nat
         /\ Tally(j, k) = Tally(j, m) + Tally(m, k)
         /\ AnyError(j, k) <=> AnyError(j, m) \/ AnyError(m, k)
<1> DEFINE X == {r \in (j + 1)..m : ST!IsToken(events[r].line)}
           Y == {r \in (m + 1)..k : ST!IsToken(events[r].line)}
           Z == {r \in (j + 1)..k : ST!IsToken(events[r].line)}
<1>1. (j + 1)..k = ((j + 1)..m) \cup ((m + 1)..k) /\ ((j + 1)..m) \cap ((m + 1)..k) = {}
  OBVIOUS
<1>2. Z = X \cup Y /\ X \cap Y = {}
  BY <1>1
<1>3. IsFiniteSet(X) /\ IsFiniteSet(Y)
  <2>1. X \in SUBSET ((j + 1)..m) /\ Y \in SUBSET ((m + 1)..k)
    OBVIOUS
  <2>2. IsFiniteSet((j + 1)..m) /\ IsFiniteSet((m + 1)..k)
    <3>1. j + 1 \in Int /\ m \in Int /\ m + 1 \in Int /\ k \in Int
      OBVIOUS
    <3> QED BY <3>1, FS_Interval
  <2> HIDE DEF X, Y
  <2> QED BY <2>1, <2>2, FS_Subset
<1> HIDE DEF X, Y, Z
<1>4. Cardinality(Z) = Cardinality(X) + Cardinality(Y) - Cardinality(X \cap Y)
  BY <1>2, <1>3, FS_Union
<1>5. /\ Cardinality(X \cap Y) = 0 /\ Cardinality(X) \in Nat /\ Cardinality(Y) \in Nat
  BY <1>2, <1>3, FS_EmptySet, FS_CardinalityType
<1>6. Tally(j, k) = Cardinality(Z) /\ Tally(j, m) = Cardinality(X) /\ Tally(m, k) = Cardinality(Y)
  BY DEF Tally, X, Y, Z
<1>7. AnyError(j, k) <=> AnyError(j, m) \/ AnyError(m, k)
  BY <1>1 DEF AnyError
<1> QED BY <1>4, <1>5, <1>6, <1>7

\* The loop of feed takes every event that is whole and counts it once.
LEMMA FedFacts ==
  ASSUME Streamed, NEW j \in 0..Len(events), NEW to \in ST!EndOf(j)..ST!EndOf(Len(events))
  PROVE  \E k \in j..Len(events) :
           /\ ST!EndOf(k) <= to /\ \A m \in (k + 1)..Len(events) : ST!EndOf(m) > to
           /\ ST!Fed(Portion(ST!EndOf(j), to)) =
                [buffer |-> Portion(ST!EndOf(k), to), tokens |-> Tally(j, k), error |-> AnyError(j, k)]
<1> DEFINE N == Len(events)
           from == ST!EndOf(j)
           b == Portion(from, to)
           Result(i, k) == [buffer |-> Portion(ST!EndOf(k), to), tokens |-> Tally(i, k),
                            error |-> AnyError(i, k)]
           Done(k) == ST!EndOf(k) <= to /\ \A m \in (k + 1)..N : ST!EndOf(m) > to
<1>1. /\ N \in Nat /\ N \in 0..N /\ from \in Nat /\ ST!EndOf(N) \in Nat
      /\ to \in 0..ST!EndOf(N) /\ from \in 0..to
  <2>1. N \in Nat /\ N \in 0..N
    BY DEF Streamed
  <2>2. ST!EndOf(N) \in Nat /\ from \in Nat
    BY <2>1, WireFacts
  <2> QED BY <2>1, <2>2
<1>2. /\ b \in Seq(Symbols) /\ Len(b) = to - from
      /\ \A i \in 1..(to - from) : b[i] = ST!Wire[from + i]
  BY <1>1, PortionFacts
<1> HIDE DEF b
<1>3. PICK f : /\ ST!Fed(b) = f[Len(b)]
               /\ \A n \in 0..Len(b) : f[n] = Taken(b, n, f[n - CutSize(b, n)])
  BY <1>2, FedUnfolds
<1> HIDE DEF N, from
\* The last symbols of the buffer, back to the end of an event, are what arrived since.
<1>4. ASSUME NEW i \in j..N, ST!EndOf(i) <= to
      PROVE  /\ to - ST!EndOf(i) \in 0..Len(b)
             /\ Suffix(b, to - ST!EndOf(i)) = Portion(ST!EndOf(i), to)
  <2> DEFINE n == to - ST!EndOf(i)
             s == Suffix(b, n)
             t == Portion(ST!EndOf(i), to)
  <2>1. i \in 0..N /\ ST!EndOf(i) \in Nat /\ from <= ST!EndOf(i)
    <3>1. i \in 0..N /\ j \in 0..N /\ j <= i
      BY <1>1 DEF N
    <3>2. ST!EndOf(i) \in Nat
      BY <3>1, WireFacts DEF N
    <3>3. ST!EndOf(j) <= ST!EndOf(i) <=> j <= i
      BY <3>1, EndsOrdered DEF N
    <3> QED BY <3>1, <3>2, <3>3 DEF from
  <2>2. n \in 0..Len(b) /\ n \in Nat /\ Len(b) \in Nat
    BY <1>1, <1>2, <1>4, <2>1
  <2>3. s \in Seq(Symbols) /\ Len(s) = n
    <3> HIDE DEF n
    <3> QED BY <1>2, <2>2, SuffixFacts
  <2>4. /\ t \in Seq(Symbols) /\ Len(t) = n
        /\ \A x \in 1..n : t[x] = ST!Wire[ST!EndOf(i) + x]
    <3>1. ST!EndOf(i) \in 0..to /\ to \in 0..ST!EndOf(Len(events))
      BY <1>1, <1>4, <2>1 DEF N
    <3> QED BY <3>1, PortionFacts
  <2>5. ASSUME NEW x \in 1..n PROVE s[x] = t[x]
    <3> DEFINE first == Len(b) - n + 1
    <3>1. first \in Int /\ Len(b) \in Int /\ x \in 1..(Len(b) - first + 1)
      BY <2>2
    <3>2. \A y \in first..Len(b) : b[y] \in Symbols
      <4>1. \A y \in first..Len(b) : y \in 1..Len(b)
        BY <2>2
      <4> QED BY <1>2, <4>1
    <3>3. first + x - 1 \in 1..(to - from) /\ from + (first + x - 1) = ST!EndOf(i) + x
      <4>1. first + x - 1 = ST!EndOf(i) - from + x
        <5>1. first = Len(b) - (to - ST!EndOf(i)) + 1 /\ x \in Nat
          BY <2>2
        <5>2. Len(b) = to - from /\ to \in Int /\ from \in Int /\ ST!EndOf(i) \in Int
          BY <1>1, <1>2, <2>1
        <5> HIDE DEF first, n
        <5>3. first = ST!EndOf(i) - from + 1
          BY <5>1, <5>2
        <5> QED BY <5>1, <5>2, <5>3
      <4>2. x \in Nat /\ x >= 1 /\ x <= to - ST!EndOf(i)
        BY <1>1, <2>1
      <4> HIDE DEF first, n
      <4> QED BY <1>1, <2>1, <4>1, <4>2
    <3>4. s = SubSeq(b, first, Len(b))
      BY DEF Suffix
    <3> HIDE DEF first, s
    <3>5. SubSeq(b, first, Len(b))[x] = b[first + x - 1]
      BY <3>1, <3>2, SubSeqProperties
    <3>6. b[first + x - 1] = ST!Wire[from + (first + x - 1)]
      BY <1>2, <3>3
    <3> QED BY <2>4, <3>3, <3>4, <3>5, <3>6
  <2> HIDE DEF s, t, n
  <2>6. s = t
    BY <2>3, <2>4, <2>5, SeqEqual
  <2> QED BY <2>2, <2>6 DEF n, s, t
<1> DEFINE Good(i) == ST!EndOf(i) <= to =>
                        \E k \in i..N : Done(k) /\ f[to - ST!EndOf(i)] = Result(i, k)
           G == {i \in 0..N : j <= i => Good(i)}
<1>5. ASSUME NEW i \in 0..N, \A k \in (i + 1)..N : k \in G PROVE i \in G
  <2> SUFFICES ASSUME j <= i, ST!EndOf(i) <= to
               PROVE  \E k \in i..N : Done(k) /\ f[to - ST!EndOf(i)] = Result(i, k)
    OBVIOUS
  <2> HIDE DEF Good, Result, Done
  <2> DEFINE n == to - ST!EndOf(i)
             s == Portion(ST!EndOf(i), to)
  <2>1. n \in 0..Len(b) /\ Suffix(b, n) = s /\ i \in Nat /\ i \in j..N
    <3>1. i \in j..N /\ i \in Nat
      BY <1>1
    <3> QED BY <1>4, <3>1
  <2>2. f[n] = Taken(b, n, f[n - CutSize(b, n)])
    <3> HIDE DEF n
    <3> QED BY <1>3, <2>1
  <2>3. ST!EndOf(i) \in Nat /\ to \in ST!EndOf(i)..ST!EndOf(N)
    <3>1. ST!EndOf(i) \in Nat
      BY WireFacts DEF N
    <3> QED BY <1>1, <3>1
  <2>4. \/ /\ ST!Cut(s)[1] = 0
           /\ \A m \in (i + 1)..N : ST!EndOf(m) > to
        \/ \E m \in (i + 1)..N :
             /\ ST!EndOf(m) <= to
             /\ ST!Cut(s)[1] = ST!EndOf(m - 1) - ST!EndOf(i) + 3
             /\ ST!Cut(s)[1] + ST!Cut(s)[2] - 1 = ST!EndOf(m) - ST!EndOf(i)
    <3> HIDE DEF s
    <3> QED BY <2>3, CutFacts DEF N, s
  <2> HIDE DEF n, s
  <2>5. CASE ST!Cut(s)[1] = 0 /\ \A m \in (i + 1)..N : ST!EndOf(m) > to
    <3>1. Stops(b, n)
      BY <2>1, <2>5 DEF Stops
    <3>2. f[n] = [buffer |-> s, tokens |-> 0, error |-> FALSE]
      BY <2>1, <2>2, <3>1 DEF Taken
    <3>3. Tally(i, i) = 0 /\ ~AnyError(i, i)
      <4>1. (i + 1)..i = {}
        BY <2>1
      <4>2. {r \in (i + 1)..i : ST!IsToken(events[r].line)} = {}
        BY <4>1
      <4> QED BY <4>1, <4>2, FS_EmptySet DEF Tally, AnyError
    <3>4. f[n] = Result(i, i)
      BY <3>2, <3>3 DEF Result, s, AnyError
    <3>5. Done(i)
      BY <2>3, <2>5 DEF Done
    <3>6. i \in i..N
      BY <2>1
    <3> QED BY <3>4, <3>5, <3>6 DEF n
  <2>6. ASSUME NEW m \in (i + 1)..N, ST!EndOf(m) <= to,
               ST!Cut(s)[1] = ST!EndOf(m - 1) - ST!EndOf(i) + 3,
               ST!Cut(s)[1] + ST!Cut(s)[2] - 1 = ST!EndOf(m) - ST!EndOf(i)
        PROVE  \E k \in i..N : Done(k) /\ f[n] = Result(i, k)
    <3>1. m \in 0..N /\ m \in Nat /\ m - 1 \in 0..N /\ i <= m - 1 /\ i \in 0..N
      BY <1>1, <2>1
    <3>2. /\ ST!EndOf(m) \in Nat /\ ST!EndOf(m - 1) \in Nat
          /\ ST!EndOf(i) <= ST!EndOf(m - 1)
      <4>1. ST!EndOf(i) <= ST!EndOf(m - 1) <=> i <= m - 1
        BY <3>1, EndsOrdered DEF N
      <4> QED BY <3>1, <4>1, WireFacts DEF N
    <3>3. ~Stops(b, n)
      <4>1. ST!Cut(s)[1] # 0
        BY <2>3, <2>6, <3>2
      <4> QED BY <2>1, <4>1 DEF Stops
    <3>4. n - CutSize(b, n) = to - ST!EndOf(m)
      <4>1. CutSize(b, n) = ST!EndOf(m) - ST!EndOf(i)
        BY <2>1, <2>6 DEF CutSize
      <4> QED BY <2>3, <3>2, <4>1 DEF n
    <3>5. PICK k \in m..N : Done(k) /\ f[to - ST!EndOf(m)] = Result(m, k)
      <4>1. m \in G /\ j <= m
        BY <1>5, <3>1
      <4>2. Good(m)
        BY <4>1
      <4> QED BY <2>6, <4>2 DEF Good
    <3>6. /\ TokensIn(CutOff(b, n)) = Tally(i, m)
          /\ ErrorIn(CutOff(b, n)) <=> AnyError(i, m)
      <4> DEFINE e == CutOff(b, n)
      <4>1. e = SubSeq(Portion(ST!EndOf(i), to), 1, ST!EndOf(m - 1) - ST!EndOf(i) + 2)
        <5>1. ST!Cut(s)[1] - 1 = ST!EndOf(m - 1) - ST!EndOf(i) + 2
          BY <2>3, <2>6, <3>2
        <5> QED BY <2>1, <5>1 DEF CutOff, s
      <4> HIDE DEF e
      <4>2. /\ TokensIn(e) = Cardinality({r \in (i + 1)..m : ST!IsToken(events[r].line)})
            /\ ErrorIn(e) <=> \E r \in (i + 1)..m : ST!IsError(events[r].line)
        BY <2>3, <2>6, <4>1, CutOffCounts DEF N
      <4> QED BY <4>2 DEF e, Tally, AnyError
    <3>7. /\ Tally(i, k) = Tally(m, k) + Tally(i, m)
          /\ AnyError(i, k) <=> AnyError(m, k) \/ AnyError(i, m)
      <4>1. k \in Nat /\ i <= m /\ m <= k
        BY <2>1, <3>1
      <4>2. /\ Tally(i, m) \in Nat /\ Tally(m, k) \in Nat
            /\ Tally(i, k) = Tally(i, m) + Tally(m, k)
            /\ AnyError(i, k) <=> AnyError(i, m) \/ AnyError(m, k)
        BY <2>1, <3>1, <4>1, TallyFacts
      <4> QED BY <4>2
    <3>8. f[n] = [Result(m, k) EXCEPT !.tokens = @ + Tally(i, m), !.error = @ \/ AnyError(i, m)]
      <4>1. f[n] = [Result(m, k) EXCEPT !.tokens = @ + TokensIn(CutOff(b, n)),
                                        !.error = @ \/ ErrorIn(CutOff(b, n))]
        BY <2>2, <3>3, <3>4, <3>5 DEF Taken
      <4>2. ErrorIn(CutOff(b, n)) = AnyError(i, m)
        BY <3>6 DEF ErrorIn, AnyError
      <4> QED BY <3>6, <4>1, <4>2
    <3>9. f[n] = Result(i, k)
      <4>1. AnyError(i, k) = (AnyError(m, k) \/ AnyError(i, m))
        BY <3>7 DEF AnyError
      <4> QED BY <3>7, <3>8, <4>1 DEF Result
    <3>10. k \in i..N
      BY <2>1, <3>1, <3>5
    <3> QED BY <3>5, <3>9, <3>10
  <2> QED BY <2>4, <2>5, <2>6 DEF n
<1>6. 0..N \subseteq G
  <2> HIDE DEF G
  <2> QED BY <1>1, <1>5, CountingDown
<1>7. Good(j)
  <2>1. j \in G /\ j <= j
    BY <1>6 DEF N
  <2> HIDE DEF Good
  <2> QED BY <2>1
<1>8. PICK k \in j..N : Done(k) /\ f[to - ST!EndOf(j)] = Result(j, k)
  <2>1. ST!EndOf(j) <= to
    BY <1>1 DEF from
  <2> HIDE DEF Done, Result
  <2> QED BY <1>7, <2>1
<1> QED BY <1>2, <1>3, <1>8 DEF N, from, b

\* The events up to some k arrived whole, and no others: they are counted, and the buffer
\* holds what arrived behind them.
StreamInv ==
  /\ Streamed
  /\ arrived \in 0..ST!EndOf(Len(events))
  /\ \E k \in 0..Len(events) :
       /\ ST!EndOf(k) <= arrived /\ \A m \in (k + 1)..Len(events) : ST!EndOf(m) > arrived
       /\ buffer = Portion(ST!EndOf(k), arrived)
       /\ tokens = Tally(0, k) /\ error = AnyError(0, k)

\* Nothing has arrived.
LEMMA InitStream == PartsInit => StreamInv
<1> SUFFICES ASSUME PartsInit PROVE StreamInv
  OBVIOUS
<1>1. /\ events \in UNION {[1..n -> ST!Events] : n \in 0..MaxEvents}
      /\ arrived = 0 /\ buffer = <<>> /\ tokens = 0 /\ error = FALSE
  BY DEF PartsInit, ST!Init
<1>2. Streamed /\ Len(events) \in Nat
  <2>1. PICK n \in 0..MaxEvents : events \in [1..n -> ST!Events]
    BY <1>1
  <2>2. n \in Nat
    BY KnowledgeAssumption DEF KnowledgeAssumption
  <2>3. events \in Seq(ST!Events)
    BY <2>1, <2>2
  <2> QED BY <2>3 DEF Streamed
<1>3. ST!EndOf(0) = 0 /\ ST!EndOf(Len(events)) \in Nat
  <2>1. Len(events) \in 0..Len(events)
    BY <1>2
  <2> QED BY <1>2, <2>1, WireFacts
<1>4. ASSUME NEW m \in (0 + 1)..Len(events) PROVE ST!EndOf(m) > 0
  <2>1. m \in 0..Len(events) /\ 0 \in 0..Len(events) /\ 0 < m
    BY <1>2
  <2>2. ST!EndOf(0) + 4 <= ST!EndOf(m) /\ ST!EndOf(m) \in Nat
    BY <1>2, <2>1, EndsOrdered
  <2> QED BY <1>3, <2>2
<1>5. Portion(0, 0) = <<>>
  BY SubSeqEmpty DEF Portion
<1>6. Tally(0, 0) = 0 /\ AnyError(0, 0) = FALSE
  <2>1. (0 + 1)..0 = {}
    OBVIOUS
  <2>2. {r \in (0 + 1)..0 : ST!IsToken(events[r].line)} = {}
    BY <2>1
  <2> QED BY <2>1, <2>2, FS_EmptySet DEF Tally, AnyError
<1>7. 0 \in 0..Len(events)
  BY <1>2
<1>8. arrived \in 0..ST!EndOf(Len(events))
  BY <1>1, <1>3
<1>9. /\ ST!EndOf(0) <= arrived /\ \A m \in (0 + 1)..Len(events) : ST!EndOf(m) > arrived
      /\ buffer = Portion(ST!EndOf(0), arrived)
      /\ tokens = Tally(0, 0) /\ error = AnyError(0, 0)
  <2>1. buffer = Portion(ST!EndOf(0), arrived)
    BY <1>1, <1>3, <1>5
  <2>2. tokens = Tally(0, 0) /\ error = AnyError(0, 0)
    BY <1>1, <1>6
  <2>3. ST!EndOf(0) <= arrived
    BY <1>1, <1>3
  <2>4. \A m \in (0 + 1)..Len(events) : ST!EndOf(m) > arrived
    BY <1>1, <1>4
  <2> QED BY <2>1, <2>2, <2>3, <2>4
<1> QED BY <1>2, <1>7, <1>8, <1>9 DEF StreamInv

\* What is true of the stream does not change.
LEMMA SameStream ==
  ASSUME events' = events
  PROVE  /\ Streamed' = Streamed
         /\ ST!Wire' = ST!Wire
         /\ \A i : ST!EndOf(i)' = ST!EndOf(i)
         /\ \A j, k : Tally(j, k)' = Tally(j, k) /\ AnyError(j, k)' = AnyError(j, k)
<1>1. Streamed' = Streamed
  BY DEF Streamed
<1>2. ST!Wire' = ST!Wire
  BY DEF ST!Wire
<1>3. \A i : ST!EndOf(i)' = ST!EndOf(i)
  BY DEF ST!EndOf
<1>4. \A j, k : Tally(j, k)' = Tally(j, k) /\ AnyError(j, k)' = AnyError(j, k)
  BY DEF Tally, AnyError
<1> QED BY <1>1, <1>2, <1>3, <1>4

\* A chunk of any size keeps it.
LEMMA FeedStream ==
  ASSUME StreamInv, NEW n \in 1..Len(ST!Wire), ST!Feed(n)
  PROVE  StreamInv'
<1>1. Streamed /\ arrived \in 0..ST!EndOf(Len(events))
  BY DEF StreamInv
<1>2. /\ Len(events) \in Nat /\ Len(events) \in 0..Len(events)
      /\ ST!EndOf(Len(events)) \in Nat /\ Len(ST!Wire) = ST!EndOf(Len(events))
      /\ ST!Wire \in Seq(Symbols)
  <2>1. Len(events) \in Nat /\ Len(events) \in 0..Len(events)
    BY <1>1 DEF Streamed
  <2> QED BY <1>1, <2>1, WireFacts
<1> DEFINE to == arrived + n
           chunk == SubSeq(ST!Wire, arrived + 1, arrived + n)
           fed == ST!Fed(ST!Buffered(chunk))
<1>3. /\ to <= Len(ST!Wire) /\ arrived' = to /\ events' = events
      /\ buffer' = fed.buffer /\ tokens' = tokens + fed.tokens /\ error' = (error \/ fed.error)
  BY DEF ST!Feed
<1>4. PICK j \in 0..Len(events) :
        /\ ST!EndOf(j) <= arrived
        /\ buffer = Portion(ST!EndOf(j), arrived)
        /\ tokens = Tally(0, j) /\ error = AnyError(0, j)
  BY DEF StreamInv
<1>5. ST!EndOf(j) \in Nat /\ j \in Nat /\ arrived \in Nat /\ n \in Nat /\ n >= 1
  BY <1>1, <1>2, WireFacts
<1>6. to \in ST!EndOf(j)..ST!EndOf(Len(events))
  BY <1>1, <1>2, <1>3, <1>4, <1>5
<1>7. ST!Buffered(chunk) = Portion(ST!EndOf(j), to)
  <2>1. /\ ST!EndOf(j) + 1 \in 1..Len(ST!Wire) + 1
        /\ arrived \in (ST!EndOf(j) + 1) - 1..Len(ST!Wire)
        /\ arrived + n \in arrived..Len(ST!Wire)
    BY <1>1, <1>2, <1>3, <1>4, <1>5
  <2>2. SubSeq(ST!Wire, ST!EndOf(j) + 1, arrived) \o SubSeq(ST!Wire, arrived + 1, arrived + n)
          = SubSeq(ST!Wire, ST!EndOf(j) + 1, arrived + n)
    BY <1>2, <2>1, ConcatAdjacentSubSeq
  <2> QED BY <1>4, <2>2 DEF ST!Buffered, Portion
<1> HIDE DEF to, chunk, fed
<1>8. PICK k \in j..Len(events) :
        /\ ST!EndOf(k) <= to /\ \A m \in (k + 1)..Len(events) : ST!EndOf(m) > to
        /\ ST!Fed(Portion(ST!EndOf(j), to)) =
             [buffer |-> Portion(ST!EndOf(k), to), tokens |-> Tally(j, k), error |-> AnyError(j, k)]
  BY <1>1, <1>6, FedFacts
<1>9. fed.buffer = Portion(ST!EndOf(k), to) /\ fed.tokens = Tally(j, k) /\ fed.error = AnyError(j, k)
  BY <1>7, <1>8 DEF fed
<1>10. /\ Tally(0, k) = Tally(0, j) + Tally(j, k)
       /\ AnyError(0, k) <=> AnyError(0, j) \/ AnyError(j, k)
  <2>1. 0 \in Nat /\ k \in Nat /\ 0 <= j /\ j <= k
    BY <1>5
  <2> QED BY <1>5, <2>1, TallyFacts
<1>11. buffer' = Portion(ST!EndOf(k), to) /\ tokens' = Tally(0, k) /\ error' = AnyError(0, k)
  <2>1. error' = (AnyError(0, j) \/ AnyError(j, k))
    BY <1>3, <1>4, <1>9
  <2>2. error' = AnyError(0, k)
    BY <1>10, <2>1 DEF AnyError
  <2> QED BY <1>3, <1>4, <1>9, <1>10, <2>2
<1>12. k \in 0..Len(events) /\ to \in 0..ST!EndOf(Len(events))
  BY <1>2, <1>5, <1>6
<1>13. /\ Streamed' /\ Len(events)' = Len(events)
       /\ ST!Wire' = ST!Wire
       /\ \A i : ST!EndOf(i)' = ST!EndOf(i)
       /\ \A i, m : Tally(i, m)' = Tally(i, m) /\ AnyError(i, m)' = AnyError(i, m)
  BY <1>1, <1>3, SameStream
<1>14. arrived' \in 0..ST!EndOf(Len(events))'
  BY <1>3, <1>12, <1>13
<1>15. /\ ST!EndOf(k)' <= arrived' /\ \A m \in (k + 1)..Len(events)' : ST!EndOf(m)' > arrived'
       /\ buffer' = Portion(ST!EndOf(k), arrived)'
       /\ tokens' = Tally(0, k)' /\ error' = AnyError(0, k)'
  <2>1. Portion(ST!EndOf(k), arrived)' = Portion(ST!EndOf(k), to)
    BY <1>3, <1>13 DEF Portion
  <2>2. ST!EndOf(k)' <= arrived' /\ \A m \in (k + 1)..Len(events)' : ST!EndOf(m)' > arrived'
    BY <1>3, <1>8, <1>13
  <2> QED BY <1>11, <1>13, <2>1, <2>2
<1>16. k \in 0..Len(events)'
  BY <1>12, <1>13
<1> QED BY <1>13, <1>14, <1>15, <1>16 DEF StreamInv

\* Every step keeps it.
LEMMA StreamInvariant == PartsSpec => []StreamInv
<1>1. StreamInv /\ [ST!Next]_(ST!vars) => StreamInv'
  <2> SUFFICES ASSUME StreamInv, [ST!Next]_(ST!vars) PROVE StreamInv'
    OBVIOUS
  <2>1. CASE ST!Next
    BY <2>1, FeedStream DEF ST!Next
  <2>2. CASE UNCHANGED ST!vars
    <3>1. UNCHANGED <<events, arrived, buffer, tokens, error>>
      BY <2>2 DEF ST!vars
    <3>2. PICK k \in 0..Len(events) :
            /\ ST!EndOf(k) <= arrived /\ \A m \in (k + 1)..Len(events) : ST!EndOf(m) > arrived
            /\ buffer = Portion(ST!EndOf(k), arrived)
            /\ tokens = Tally(0, k) /\ error = AnyError(0, k)
      BY DEF StreamInv
    <3>3. /\ Streamed' = Streamed /\ Len(events)' = Len(events)
          /\ ST!Wire' = ST!Wire
          /\ \A i : ST!EndOf(i)' = ST!EndOf(i)
          /\ \A i, m : Tally(i, m)' = Tally(i, m) /\ AnyError(i, m)' = AnyError(i, m)
      BY <3>1, SameStream
    <3>4. Streamed' /\ arrived' \in 0..ST!EndOf(Len(events))'
      BY <3>1, <3>3 DEF StreamInv
    <3>5. Portion(ST!EndOf(k), arrived)' = Portion(ST!EndOf(k), arrived)
      BY <3>1, <3>3 DEF Portion
    <3>6. ST!EndOf(k)' <= arrived' /\ \A m \in (k + 1)..Len(events)' : ST!EndOf(m)' > arrived'
      BY <3>1, <3>2, <3>3
    <3>7. /\ buffer' = Portion(ST!EndOf(k), arrived)'
          /\ tokens' = Tally(0, k)' /\ error' = AnyError(0, k)'
      BY <3>1, <3>2, <3>3, <3>5
    <3>8. k \in 0..Len(events)'
      BY <3>3
    <3> QED BY <3>4, <3>6, <3>7, <3>8 DEF StreamInv
  <2> QED BY <2>1, <2>2
<1> QED BY <1>1, InitStream, PartSteps, PTL DEF PartsSpec

\* What is counted does not depend on how the stream was cut: StreamTimer.feed counts the
\* tokens of exactly the events that arrived whole, and knows an error when one did, for
\* any number of events, either separator and any chunks (proxy.py, StreamTimer).
THEOREM ChunksIrrelevant == PartsSpec => []ChunkingIrrelevant
<1>1. StreamInv => ChunkingIrrelevant
  <2> SUFFICES ASSUME StreamInv PROVE ST!ChunkingIrrelevant
    BY DEF ChunkingIrrelevant
  <2>1. Streamed /\ arrived \in 0..ST!EndOf(Len(events))
    BY DEF StreamInv
  <2>2. PICK k \in 0..Len(events) :
          /\ ST!EndOf(k) <= arrived /\ \A m \in (k + 1)..Len(events) : ST!EndOf(m) > arrived
          /\ tokens = Tally(0, k) /\ error = AnyError(0, k)
    BY DEF StreamInv
  <2>3. Len(events) \in Nat /\ DOMAIN events = 1..Len(events)
    BY <2>1 DEF Streamed
  <2>4. /\ \A i \in 0..Len(events) : ST!EndOf(i) \in Nat
        /\ arrived \in Nat
    <3>1. Len(events) \in 0..Len(events)
      BY <2>3
    <3> QED BY <2>1, <3>1, WireFacts
  <2>5. ASSUME NEW i \in 1..Len(events) PROVE ST!EndOf(i) <= arrived <=> i <= k
    <3>1. i \in 0..Len(events) /\ ST!EndOf(i) \in Nat /\ ST!EndOf(k) \in Nat
      BY <2>4
    <3>2. ST!EndOf(i) <= ST!EndOf(k) <=> i <= k
      BY <2>1, <3>1, EndsOrdered
    <3>3. CASE i <= k
      BY <2>2, <2>4, <3>1, <3>2, <3>3
    <3>4. CASE ~(i <= k)
      <4>1. i \in (k + 1)..Len(events)
        BY <3>4
      <4>2. ST!EndOf(i) > arrived
        BY <2>2, <4>1
      <4> QED BY <2>4, <3>1, <3>4, <4>2
    <3> QED BY <3>3, <3>4
  <2>6. ST!Whole = (0 + 1)..k
    BY <2>3, <2>5 DEF ST!Whole
  <2>7. tokens = ST!Cardinality({i \in ST!Whole : ST!IsToken(events[i].line)})
    BY <2>2, <2>6 DEF Tally, ST!Cardinality, Cardinality
  <2>8. error = \E i \in ST!Whole : ST!IsError(events[i].line)
    BY <2>2, <2>6 DEF AnyError
  <2> QED BY <2>7, <2>8 DEF ST!ChunkingIrrelevant
<1> QED BY <1>1, StreamInvariant, PTL
=============================================================================
