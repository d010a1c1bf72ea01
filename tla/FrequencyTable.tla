--------------------------- MODULE FrequencyTable ---------------------------
(***************************************************************************)
(* WorkloadFrequencyTable (controller/frequency_table.py): one decision per *)
(* workload, with a revision.  Threads read and write it under one lock, a  *)
(* write may name the revision it expects, every accepted write is saved as *)
(* a whole document before the lock is given up, and a failed save takes it *)
(* back.  The process may die and start again from the file.                *)
(*                                                                          *)
(* A decision is a measured one, with its energy, or a fallback, with its   *)
(* reason: the mark stands for either.  Saving replaces the file at once or *)
(* not at all (Stores models how).                                          *)
(***************************************************************************)
EXTENDS Naturals

CONSTANTS
  Workloads, Writers, Marks,
  None,
  MaxRevision  \* bound: writes of one workload

Decisions == [met : BOOLEAN, mark : Marks]

Entries == [revision : 0..MaxRevision, value : Decisions \cup {None}]

Tables == [Workloads -> Entries]

Holds == [by : Writers, workload : Workloads, before : Entries, conditional : BOOLEAN]

ASSUME FrequencyTableAssumption ==
  /\ MaxRevision \in Nat
  /\ None \notin Decisions /\ None \notin Entries
  /\ None \notin Tables /\ None \notin Holds

VARIABLES
  entries,  \* _entries, or None while no process runs
  disk,     \* the file, or None
  holder,   \* the write that holds the lock while it is saved, or None
  seen      \* the entry each thread read last

vars == <<entries, disk, holder, seen>>

Fresh == [w \in Workloads |-> [revision |-> 0, value |-> None]]

NothingSeen == [t \in Writers |-> [w \in Workloads |-> None]]

Init ==
  /\ entries = None
  /\ disk = None
  /\ holder = None
  /\ seen = NothingSeen

\* The constructor: the file, or a fresh table that is saved first.
Start ==
  /\ entries = None
  /\ entries' = IF disk = None THEN Fresh ELSE disk
  /\ disk' = entries'
  /\ UNCHANGED <<holder, seen>>

Free == entries # None /\ holder = None

Read(t, w) ==
  /\ Free
  /\ seen' = [seen EXCEPT ![t][w] = entries[w]]
  /\ UNCHANGED <<entries, disk, holder>>

\* Mutant: a fallback may replace a measured decision.
ImprovesOrFallsBack(current, v) ==
  current # None /\ current.met => ~v.met \/ v.mark < current.mark

\* A measured decision only gives way to a measured one of less energy.
Improves(current, v) ==
  current # None /\ current.met => v.met /\ v.mark < current.mark

\* Mutant: the expected revision is a lower bound.
ExpectedOrLater(t, w) == seen[t][w] # None /\ seen[t][w].revision <= entries[w].revision

Expected(t, w) == seen[t][w] # None /\ seen[t][w].revision = entries[w].revision

\* write, from the lock to the save, with the revision the thread has read or without.
Write(t, w, v, conditional) ==
  /\ Free
  /\ conditional => Expected(t, w)
  /\ entries[w].value # v /\ Improves(entries[w].value, v)
  /\ entries[w].revision < MaxRevision
  /\ entries' = [entries EXCEPT ![w] = [revision |-> @.revision + 1, value |-> v]]
  /\ holder' = [by |-> t, workload |-> w, before |-> entries[w], conditional |-> conditional]
  /\ UNCHANGED <<disk, seen>>

Saved ==
  /\ holder # None
  /\ disk' = entries
  /\ holder' = None
  /\ UNCHANGED <<entries, seen>>

\* Mutant: the failed save leaves the entry.
NotTakenBack == entries

TakenBack == [entries EXCEPT ![holder.workload] = holder.before]

SaveFails ==
  /\ holder # None
  /\ entries' = TakenBack
  /\ holder' = None
  /\ UNCHANGED <<disk, seen>>

\* The process dies, and what its threads had read with it.
Crash ==
  /\ entries # None
  /\ entries' = None
  /\ holder' = None
  /\ seen' = NothingSeen
  /\ UNCHANGED disk

Next ==
  \/ Start
  \/ \E t \in Writers, w \in Workloads :
       \/ Read(t, w)
       \/ \E v \in Decisions, conditional \in BOOLEAN : Write(t, w, v, conditional)
  \/ Saved \/ SaveFails \/ Crash

Spec == Init /\ [][Next]_vars

-----------------------------------------------------------------------------
\* Properties.

TypeOK ==
  /\ entries \in Tables \cup {None}
  /\ disk \in Tables \cup {None}
  /\ holder \in Holds \cup {None}
  /\ seen \in [Writers -> [Workloads -> Entries \cup {None}]]

\* Whoever gets the lock finds in memory what a restart would find: a failed or
\* interrupted save never leaves a decision that only this process knows, nor undoes
\* another workload's (write, _persist_locked).
MemoryIsDisk == Free => entries = disk

\* The file never goes back: over writes, failures, deaths and restarts each workload's
\* revision only grows, a measured decision is only replaced by one of less energy,
\* and two saves of one workload have distinct revisions.
OnlyImproves ==
  [][disk # None =>
       \A w \in Workloads :
         disk'[w] # disk[w] =>
           /\ disk'[w].revision = disk[w].revision + 1
           /\ disk[w].value # None /\ disk[w].value.met =>
                disk'[w].value.met /\ disk'[w].value.mark < disk[w].value.mark]_vars

\* No update is lost: a write on condition of a revision is only saved over the very
\* decision its thread had read, whatever other threads wrote and the failed saves
\* took back in between (RevisionConflict).
NoLostUpdate ==
  holder # None /\ holder.conditional =>
    seen[holder.by][holder.workload].value = holder.before.value
=============================================================================
