---------------------- MODULE ProcessSupervision_proofs ----------------------
(***************************************************************************)
(* What ProcessSupervision promises for any number of agents: the order of *)
(* start-up and shutdown, nothing left behind, and no command to a clock   *)
(* that was reset.                                                         *)
(***************************************************************************)
EXTENDS ProcessSupervision, TLAPS

Starting == step \in {"start", "health", "supervise"}

\* The names the current loop still has to process.
Left == {todo[i] : i \in DOMAIN todo}
LeftBehind == {Tail(todo)[i] : i \in DOMAIN Tail(todo)}

\* While starting: nothing of a later stage runs, everything of an earlier one
\* was healthy, nothing was signalled or reset, and the loop starts children
\* of its own stage.
StartUp ==
  Starting =>
    /\ \A c \in Children : StageOf(c) > stage => group[c] = "none"
    /\ \A c \in Children : StageOf(c) < stage => c \in healthy
    /\ step = "start" => \A c \in Left : StageOf(c) = stage
    /\ termed = {} /\ reset = {}

\* Nothing more is to be done for a child: its group is gone or was killed, and
\* the proxy's leader exited unless it survived SIGKILL.
Over(c) == Finished(c) /\ (c = "proxy" /\ group[c] = "up" => stuck)

\* While stopping: the stages behind are over, and so is what the loop over
\* the current stage has processed.
ShutDown ==
  ~Starting =>
    /\ \A c \in Children : StageOf(c) > 4 - stage => Over(c)
    /\ step = "kill" => \A c \in Children : StageOf(c) = 4 - stage => c \in Left \/ Over(c)
    /\ step = "wait" => /\ todo # <<>>
                        /\ Finished(Head(todo))
                        /\ \A c \in Children : StageOf(c) = 4 - stage
                             => c \in LeftBehind \/ c = Head(todo) \/ Over(c)
    /\ step = "reset" => stage = 3
    /\ step = "done" => stage = 3 /\ \A c \in Children : Over(c)
    /\ \A c \in termed : StageOf(c) >= 4 - stage
    /\ reset # {} => stage = 3

IInv == TypeOK /\ StartsOnHealthy /\ StartUp /\ ShutDown /\ StaysReset

-----------------------------------------------------------------------------
\* Every child belongs to one of the three stages.
LEMMA Stages ==
  /\ \A c \in Children : StageOf(c) \in 1..3
  /\ StageOf("proxy") = 3
  /\ "proxy" \in Children
  /\ \A a \in Agents : StageOf(a) = 1
  /\ Agents \subseteq Children
BY AgentsAssumption DEF StageOf, Children, Nodes

\* The names listed for a stage are exactly its children.
LEMMA StageNames ==
  ASSUME NEW k \in 1..3
  PROVE  /\ StartNames(k) \in Seq(Children)
         /\ \A c \in Children :
              StageOf(c) = k <=> \E i \in DOMAIN StartNames(k) : StartNames(k)[i] = c
<1>1. CASE k = 1
  <2>1. StartNames(k) = AgentOrder
    BY <1>1 DEF StartNames
  <2>2. AgentOrder \in Seq(Children)
    BY AgentsAssumption DEF Children
  <2>3. \A c \in Children : StageOf(c) = 1 <=> c \in Agents
    BY AgentsAssumption DEF StageOf, Children, Nodes
  <2> QED
    BY <1>1, <2>1, <2>2, <2>3 DEF Agents
<1>2. CASE k = 2
  <2>1. StartNames(k) = <<"prefill", "decode">>
    BY <1>2 DEF StartNames
  <2>2. \A c \in Children : StageOf(c) = 2 <=> c \in {"prefill", "decode"}
    BY AgentsAssumption DEF StageOf, Children, Nodes
  <2>3. <<"prefill", "decode">> \in Seq(Nodes)
    BY DEF Nodes
  <2>4. /\ StartNames(k) \in Seq(Children)
        /\ DOMAIN StartNames(k) = 1..2
        /\ StartNames(k)[1] = "prefill" /\ StartNames(k)[2] = "decode"
    BY <2>1, <2>3 DEF Children
  <2>5. \A c : c \in {"prefill", "decode"} <=> \E i \in 1..2 : StartNames(k)[i] = c
    BY <2>4
  <2> QED
    BY <1>2, <2>2, <2>4, <2>5
<1>3. CASE k = 3
  <2>1. StartNames(k) = <<"proxy">>
    BY <1>3 DEF StartNames
  <2>2. \A c \in Children : StageOf(c) = 3 <=> c = "proxy"
    BY AgentsAssumption DEF StageOf, Children, Nodes
  <2>3. <<"proxy">> \in Seq({"proxy"})
    OBVIOUS
  <2>4. /\ StartNames(k) \in Seq(Children)
        /\ DOMAIN StartNames(k) = 1..1
        /\ StartNames(k)[1] = "proxy"
    BY <2>1, <2>3 DEF Children
  <2> QED
    BY <1>3, <2>2, <2>4
<1> QED
  BY <1>1, <1>2, <1>3

\* The initial state satisfies the invariant.
LEMMA InitIInv == Init => IInv
<1> SUFFICES ASSUME Init PROVE IInv
  OBVIOUS
<1>1. /\ StartNames(1) \in Seq(Children)
      /\ \A c \in Children :
           StageOf(c) = 1 <=> \E i \in DOMAIN StartNames(1) : StartNames(1)[i] = c
  BY StageNames
<1>2. TypeOK
  <2>1. group \in [Children -> {"none", "up", "leftover", "gone"}]
    BY DEF Init
  <2>2. todo \in Seq(Children)
    BY <1>1 DEF Init
  <2>3. step \in Steps /\ step # "reset" /\ stage \in 1..3
    BY DEF Init, Steps
  <2>4. /\ healthy \subseteq Children /\ termed \subseteq Children
        /\ killed \subseteq Children
        /\ stop \in BOOLEAN /\ stuck \in BOOLEAN
    BY DEF Init
  <2>5. /\ locked \subseteq Agents /\ held \subseteq Agents /\ reset \subseteq Agents
        /\ sent \in [Agents -> Nat] /\ owed \in [Agents -> Nat]
        /\ \A a \in Agents : sent[a] <= MaxCommands[a]
    BY CommandsAssumption DEF Init
  <2> QED
    BY <2>1, <2>2, <2>3, <2>4, <2>5 DEF TypeOK, ClocksOK
<1>3. StartsOnHealthy /\ StaysReset
  BY DEF Init, StartsOnHealthy, Started, StaysReset
<1>4. StartUp
  <2>1. \A c \in Left : StageOf(c) = 1
    <3>1. \A i \in DOMAIN todo : todo[i] \in Children
      BY <1>1 DEF Init
    <3> QED
      BY <1>1, <3>1 DEF Init, Left
  <2> QED
    BY <2>1, Stages DEF Init, StartUp
<1>5. ShutDown
  BY DEF Init, ShutDown, Starting
<1> QED
  BY <1>2, <1>3, <1>4, <1>5 DEF IInv

\* Each step keeps the types.
LEMMA TypeStep == TypeOK /\ [Next]_vars => TypeOK'
<1> SUFFICES ASSUME TypeOK, [Next]_vars PROVE TypeOK'
  OBVIOUS
<1> USE DEF TypeOK, ClocksOK
<1>e. <<>> \in Seq(Children)
  OBVIOUS
<1>0. CASE UNCHANGED vars
  BY <1>0 DEF vars, signals, clocks
<1>1. CASE StartChild
  <2>1. Head(todo) \in Children /\ Tail(todo) \in Seq(Children)
    BY <1>1 DEF StartChild
  <2> QED
    BY <1>1, <2>1 DEF StartChild, signals, clocks
<1>2. CASE AllStarted
  BY <1>2 DEF AllStarted, signals, clocks, Steps
<1>3. CASE StartFails \/ HealthInterrupted \/ HealthTimesOut \/ ServiceExited \/ Signalled
  <2>1. todo' \in Seq(Children) /\ step' = "term" /\ stage' = 1
    BY <1>3, <1>e DEF StartFails, HealthInterrupted, HealthTimesOut, ServiceExited,
                      Signalled, Leave
  <2>2. UNCHANGED <<group, healthy, stop, signals, clocks>>
    BY <1>3 DEF StartFails, HealthInterrupted, HealthTimesOut, ServiceExited, Signalled
  <2> QED
    BY <2>1, <2>2 DEF signals, clocks, Steps
<1>4. CASE Healthy
  <2>1. CASE stage = 3
    BY <1>4, <2>1 DEF Healthy, signals, clocks, Steps
  <2>2. CASE stage # 3
    <3>1. stage + 1 \in 1..3
      BY <2>2
    <3>2. StartNames(stage + 1) \in Seq(Children)
      BY <3>1, StageNames
    <3> QED
      BY <1>4, <2>2, <3>1, <3>2 DEF Healthy, signals, clocks, Steps
  <2> QED
    BY <2>1, <2>2
<1>5. CASE Terminate
  <2>1. StopNames(stage) \in Seq(Children)
    BY StageNames DEF StopNames
  <2> QED
    BY <1>5, <2>1 DEF Terminate, clocks, Steps
<1>6. CASE KillNext
  <2>1. Head(todo) \in Children
    BY <1>6 DEF KillNext
  <2> QED
    BY <1>6, <2>1 DEF KillNext, clocks, Steps
<1>7. CASE Reaped \/ DidNotExit
  <2>1. todo # <<>> => Tail(todo) \in Seq(Children)
    OBVIOUS
  <2>2. todo # <<>> /\ todo' = Tail(todo)
    BY <1>7 DEF Reaped, DidNotExit
  <2> QED
    BY <1>7, <2>1, <2>2 DEF Reaped, DidNotExit, signals, clocks, Steps
<1>8. CASE NextStage
  <2>1. AgentOrder \in Seq(Children)
    BY AgentsAssumption DEF Children
  <2>2. todo' \in Seq(Children)
    BY <1>8, <1>e, <2>1 DEF NextStage
  <2>3. step' \in Steps /\ stage' \in 1..3 /\ (step' = "reset" => todo' \in Seq(Agents))
    BY <1>8, AgentsAssumption DEF NextStage, Steps
  <2> QED
    BY <1>8, <2>2, <2>3 DEF NextStage, signals, clocks
<1>9. CASE ResetDone \/ ResetFails
  <2>1. todo # <<>> /\ Tail(todo) \in Seq(Children) /\ Head(todo) \in Children
    BY <1>9 DEF ResetDone, ResetFails
  <2>2. todo \in Seq(Agents) /\ Head(todo) \in Agents /\ Tail(todo) \in Seq(Agents)
    BY <1>9, <2>1 DEF ResetDone, ResetFails
  <2>3. todo' \in Seq(Children) /\ todo' \in Seq(Agents)
    BY <1>9, <2>1, <2>2 DEF ResetDone, ResetFails
  <2>4. /\ owed' \in [Agents -> Nat] /\ reset' \subseteq Agents
        /\ locked' \subseteq Agents /\ UNCHANGED <<sent, held>>
    BY <1>9, <2>2 DEF ResetDone, ResetFails, ResetClock
  <2> QED
    BY <1>9, <2>2, <2>3, <2>4 DEF ResetDone, ResetFails, signals
<1>10. CASE AgentSilent \/ ResetEnds
  <2>1. todo' \in Seq(Children) /\ step' = "term"
    BY <1>10, <1>e DEF AgentSilent, ResetEnds
  <2> QED
    BY <1>10, <2>1 DEF AgentSilent, ResetEnds, signals, clocks, Steps
<1>11. ASSUME NEW c \in Children, ChildExits(c) \/ LeftoverEnds(c)
       PROVE  TypeOK'
  <2>1. CASE ChildExits(c)
    <3>1. sent' \in [Agents -> Nat] /\ \A a \in Agents : sent'[a] <= sent[a]
      BY <2>1 DEF ChildExits
    <3>2. \A a \in Agents : sent'[a] <= MaxCommands[a]
      BY <3>1, CommandsAssumption
    <3>3. locked' \subseteq Agents /\ held' \subseteq Agents
      BY <2>1 DEF ChildExits
    <3> QED
      BY <2>1, <3>1, <3>2, <3>3 DEF ChildExits, signals
  <2>2. CASE LeftoverEnds(c)
    BY <2>2 DEF LeftoverEnds, signals, clocks
  <2> QED
    BY <1>11, <2>1, <2>2
<1>12. ASSUME NEW a \in Agents, ProxySends(a) \/ CommandLost(a) \/ AgentTakesLock(a)
                                 \/ AgentLocks(a)
       PROVE  TypeOK'
  <2>1. MaxCommands[a] \in Nat /\ sent[a] \in Nat
    BY CommandsAssumption
  <2>2. /\ sent' \in [Agents -> Nat]
        /\ \A b \in Agents : sent'[b] <= MaxCommands[b]
    <3>1. CASE ProxySends(a)
      <4>1. sent' = [sent EXCEPT ![a] = sent[a] + 1] /\ sent[a] + 1 <= MaxCommands[a]
        BY <2>1, <3>1 DEF ProxySends
      <4> QED
        BY <2>1, <4>1
    <3>2. CASE CommandLost(a) \/ AgentTakesLock(a)
      <4>1. sent' = [sent EXCEPT ![a] = sent[a] - 1] /\ sent[a] - 1 \in Nat
        BY <2>1, <3>2 DEF CommandLost, AgentTakesLock
      <4> QED
        BY <2>1, <4>1
    <3>3. CASE AgentLocks(a)
      BY <3>3 DEF AgentLocks
    <3> QED
      BY <1>12, <3>1, <3>2, <3>3
  <2>3. locked' \subseteq Agents /\ held' \subseteq Agents
    BY <1>12 DEF ProxySends, CommandLost, AgentTakesLock, AgentLocks
  <2>4. UNCHANGED <<step, stage, todo, group, healthy, stop, signals, reset, owed>>
    BY <1>12 DEF ProxySends, CommandLost, AgentTakesLock, AgentLocks
  <2> QED
    BY <2>2, <2>3, <2>4 DEF signals
<1>13. CASE Signal
  BY <1>13 DEF Signal, signals, clocks
<1> QED
  BY <1>0, <1>1, <1>2, <1>3, <1>4, <1>5, <1>6, <1>7, <1>8, <1>9, <1>10, <1>11, <1>12, <1>13
  DEF Next, Controller, Environment

\* Each step keeps what the start-up and the shutdown rely on.
LEMMA OrderStep ==
  ASSUME IInv, [Next]_vars, TypeOK'
  PROVE  StartsOnHealthy' /\ StartUp' /\ ShutDown' /\ StaysReset'
<1> USE Stages DEF IInv, Outstanding
<1> DEFINE Ord == StartsOnHealthy' /\ StartUp' /\ ShutDown' /\ StaysReset'
<1> USE DEF Ord
<1>0. CASE UNCHANGED vars
  BY <1>0 DEF vars, signals, clocks, StartsOnHealthy, StartUp, ShutDown, StaysReset,
              Started, Starting, Left, LeftBehind, Over, Finished, Exists
<1>1. CASE StartChild
  <2>1. /\ Head(todo) \in Left /\ Head(todo) \in Children
        /\ \A i \in DOMAIN Tail(todo) : Tail(todo)[i] \in Left
    BY <1>1 DEF StartChild, Left, TypeOK
  <2>2. StageOf(Head(todo)) = stage
    BY <1>1, <2>1 DEF StartChild, StartUp, Starting
  <2>3. \A c \in Children : group'[c] = IF c = Head(todo) THEN "up" ELSE group[c]
    BY <1>1, <2>1 DEF StartChild, TypeOK
  <2>4. StartUp'
    BY <1>1, <2>1, <2>2, <2>3 DEF StartChild, StartUp, Starting, Left, signals, clocks, TypeOK
  <2>5. StartsOnHealthy'
    BY <1>1, <2>1, <2>2, <2>3
    DEF StartChild, StartUp, Starting, StartsOnHealthy, Started, TypeOK
  <2>6. ShutDown' /\ StaysReset'
    BY <1>1 DEF StartChild, ShutDown, Starting, StaysReset, signals, clocks
  <2> QED
    BY <2>4, <2>5, <2>6
<1>2. CASE AllStarted
  BY <1>2 DEF AllStarted, signals, clocks, StartsOnHealthy, StartUp, ShutDown, StaysReset,
              Started, Starting
<1>3. CASE StartFails \/ HealthInterrupted \/ HealthTimesOut \/ ServiceExited \/ Signalled
  <2>1. /\ Starting /\ step' = "term" /\ stage' = 1
        /\ UNCHANGED <<group, healthy, stop, termed, killed, stuck, locked, sent, held, reset, owed>>
    BY <1>3 DEF StartFails, HealthInterrupted, HealthTimesOut, ServiceExited, Signalled,
                Leave, Starting, signals, clocks
  <2>2. ShutDown'
    BY <2>1 DEF ShutDown, StartUp, Starting
  <2> QED
    BY <2>1, <2>2 DEF StartsOnHealthy, StartUp, StaysReset, Started, Starting
<1>4. CASE Healthy
  <2>1. /\ Starting /\ Starting'
        /\ \A c \in Children : StageOf(c) <= stage => c \in healthy'
        /\ healthy \subseteq healthy'
        /\ UNCHANGED <<group, termed, reset, locked, sent, held, owed, stuck>>
    BY <1>4 DEF Healthy, Starting, StartUp, signals, clocks, TypeOK
  <2>2. StartUp'
    <3>1. CASE stage = 3
      BY <1>4, <2>1, <3>1 DEF Healthy, StartUp, Starting
    <3>2. CASE stage # 3
      <4>1. stage + 1 \in 1..3 /\ stage' = stage + 1 /\ todo' = StartNames(stage + 1)
        BY <1>4, <3>2 DEF Healthy, TypeOK
      <4>2. /\ StartNames(stage + 1) \in Seq(Children)
            /\ \A c \in Children : StageOf(c) = stage + 1 <=>
                 \E i \in DOMAIN StartNames(stage + 1) : StartNames(stage + 1)[i] = c
        BY <4>1, StageNames
      <4>3. \A c \in Left' : StageOf(c) = stage'
        BY <4>1, <4>2 DEF Left
      <4> QED
        BY <2>1, <4>1, <4>3 DEF StartUp, TypeOK
    <3> QED
      BY <3>1, <3>2
  <2> QED
    BY <2>1, <2>2 DEF StartsOnHealthy, Started, ShutDown, StaysReset
<1>5. CASE Terminate
  <2>1. /\ 4 - stage \in 1..3 /\ step' = "kill" /\ todo' = StartNames(4 - stage)
        /\ UNCHANGED <<stage, group, healthy, killed, stuck, locked, sent, held, reset, owed>>
    BY <1>5 DEF Terminate, StopNames, clocks, TypeOK
  <2>2. \A c \in Children : StageOf(c) = 4 - stage => c \in Left'
    BY <2>1, StageNames DEF Left
  <2>3. \A c \in termed' : StageOf(c) >= 4 - stage
    BY <1>5 DEF Terminate, ShutDown, Starting, TypeOK
  <2>4. ShutDown'
    BY <1>5, <2>1, <2>2, <2>3 DEF Terminate, ShutDown, Starting, Over, Finished, Exists
  <2> QED
    BY <2>1, <2>4 DEF StartsOnHealthy, StartUp, StaysReset, Started, Starting
<1>6. CASE KillNext
  <2>1. /\ todo # <<>> /\ todo \in Seq(Children) /\ step' = "wait"
        /\ killed \subseteq killed'
        /\ UNCHANGED <<stage, todo, group, healthy, termed, stuck, locked, sent, held, reset, owed>>
    BY <1>6 DEF KillNext, clocks, TypeOK
  <2>2. Finished(Head(todo))'
    BY <1>6, <2>1 DEF KillNext, Survives, Finished, Exists
  <2>3. \A c \in Left : c \in LeftBehind \/ c = Head(todo)
    <3> SUFFICES ASSUME NEW i \in DOMAIN todo PROVE todo[i] \in LeftBehind \/ todo[i] = Head(todo)
      BY DEF Left
    <3>1. CASE i = 1
      BY <3>1, <2>1
    <3>2. CASE i # 1
      <4>1. i - 1 \in DOMAIN Tail(todo) /\ Tail(todo)[i - 1] = todo[i]
        BY <2>1, <3>2
      <4> QED
        BY <4>1 DEF LeftBehind
    <3> QED
      BY <3>1, <3>2
  <2>4. \A c \in Children : Over(c) => Over(c)'
    BY <2>1 DEF Over, Finished, Exists
  <2>5. LeftBehind' = LeftBehind /\ Head(todo)' = Head(todo)
    BY <2>1 DEF LeftBehind
  <2>6. ShutDown'
    BY <1>6, <2>1, <2>2, <2>3, <2>4, <2>5 DEF KillNext, ShutDown, Starting
  <2> QED
    BY <2>1, <2>6 DEF StartsOnHealthy, StartUp, StaysReset, Started, Starting
<1>7. CASE Reaped \/ DidNotExit
  <2>1. /\ step = "wait" /\ step' = "kill" /\ todo' = Tail(todo)
        /\ stuck => stuck'
        /\ group[Head(todo)] = "up" => stuck'
        /\ UNCHANGED <<stage, group, healthy, termed, killed, locked, sent, held, reset, owed>>
    BY <1>7 DEF Reaped, DidNotExit, signals, clocks
  <2>2. Left' = LeftBehind
    BY <2>1 DEF Left, LeftBehind
  <2>3. \A c \in Children : Over(c) => Over(c)'
    BY <2>1 DEF Over, Finished, Exists
  <2>4. \A c \in Children : c = Head(todo) => Over(c)'
    BY <2>1 DEF Over, Finished, Exists, ShutDown, Starting
  <2>5. ShutDown'
    BY <2>1, <2>2, <2>3, <2>4 DEF ShutDown, Starting
  <2>6. StaysReset'
    BY <2>1 DEF StaysReset, TypeOK
  <2> QED
    BY <2>1, <2>5, <2>6 DEF StartsOnHealthy, StartUp, Started, Starting
<1>8. CASE NextStage
  <2>1. /\ step = "kill" /\ Left = {} /\ ~Starting'
        /\ UNCHANGED <<group, healthy, termed, killed, stuck, locked, sent, held, reset, owed>>
    BY <1>8 DEF NextStage, Starting, Left, signals, clocks
  <2>2. \A c \in Children : StageOf(c) >= 4 - stage => Over(c)
    BY <2>1 DEF ShutDown, Starting, TypeOK
  <2>3. \A c \in Children : Over(c)' <=> Over(c)
    BY <2>1 DEF Over, Finished, Exists
  <2>4. ShutDown'
    BY <1>8, <2>1, <2>2, <2>3 DEF NextStage, ShutDown, Starting, TypeOK
  <2> QED
    BY <2>1, <2>4 DEF StartsOnHealthy, StartUp, StaysReset, Started, Starting
<1>9. CASE ResetDone \/ ResetFails \/ AgentSilent \/ ResetEnds
  <2>1. /\ step = "reset" /\ step' \in {"reset", "term"} /\ stage = 3
        /\ UNCHANGED <<stage, group, healthy, termed, killed, stuck>>
        /\ reset' # {} => stage = 3
    BY <1>9 DEF ResetDone, ResetFails, AgentSilent, ResetEnds, ShutDown, Starting,
                signals, clocks
  <2>2. StaysReset'
    <3>1. CASE ResetDone
      <4>1. Head(todo) \in Agents /\ Head(todo) \notin held
        BY <3>1 DEF ResetDone, TypeOK
      <4>2. \A a \in Agents : owed'[a] = IF a = Head(todo) THEN sent[a] ELSE owed[a]
        BY <3>1, <4>1 DEF ResetDone, ResetClock, TypeOK, ClocksOK
      <4>3. \A a \in reset' : a \in reset \/ a = Head(todo)
        BY <3>1 DEF ResetDone, ResetClock
      <4>4. locked' = locked \ {Head(todo)} /\ UNCHANGED <<sent, held, stuck>>
        BY <3>1 DEF ResetDone, ResetClock, signals
      <4> QED
        BY <4>1, <4>2, <4>3, <4>4 DEF StaysReset, TypeOK, ClocksOK
    <3>2. CASE ResetFails
      <4>1. locked' \subseteq locked /\ UNCHANGED <<sent, held, reset, owed, stuck>>
        BY <3>2 DEF ResetFails, signals
      <4> QED
        BY <4>1 DEF StaysReset
    <3>3. CASE AgentSilent \/ ResetEnds
      BY <3>3 DEF AgentSilent, ResetEnds, StaysReset, signals, clocks
    <3> QED
      BY <1>9, <3>1, <3>2, <3>3
  <2>3. ShutDown'
    BY <2>1 DEF ShutDown, Starting, Over, Finished, Exists
  <2> QED
    BY <2>1, <2>2, <2>3 DEF StartsOnHealthy, StartUp, Started, Starting
<1>10. ASSUME NEW c \in Children, ChildExits(c) \/ LeftoverEnds(c)
       PROVE  Ord
  <2>1. /\ \A d \in Children : group'[d] # group[d] =>
               group[d] # "none" /\ group'[d] \in {"leftover", "gone"} /\ (Exists(d)' => Exists(d))
        /\ UNCHANGED <<step, stage, todo, healthy, termed, killed, stuck, reset>>
    BY <1>10 DEF ChildExits, LeftoverEnds, signals, clocks, TypeOK, Exists
  <2>2. \A d \in Children : Started(d)' <=> Started(d)
    BY <2>1 DEF Started
  <2>3. \A d \in Children : (Finished(d) => Finished(d)') /\ (Over(d) => Over(d)')
    BY <2>1 DEF Over, Finished, Exists
  <2>4. StartsOnHealthy' /\ StartUp'
    BY <2>1, <2>2 DEF StartsOnHealthy, StartUp, Starting, Started, Left
  <2>5. ShutDown'
    <3>1. step = "wait" => Head(todo) \in Children
      BY DEF ShutDown, Starting, TypeOK
    <3> QED
      BY <2>1, <2>3, <3>1 DEF ShutDown, Starting, Left, LeftBehind
  <2>6. StaysReset'
    <3>1. CASE ChildExits(c)
      <4>1. \A a \in Agents :
              /\ sent[a] \in Nat /\ sent'[a] \in Nat /\ sent'[a] <= sent[a]
              /\ a \in held' => a \in held
              /\ a \in locked' => a \in locked \/ a \in held
        BY <3>1 DEF ChildExits, TypeOK, ClocksOK
      <4>2. owed' = owed /\ reset' = reset /\ stuck' = stuck
        BY <2>1, <3>1 DEF ChildExits
      <4>3. reset \subseteq Agents /\ owed \in [Agents -> Nat]
        BY DEF TypeOK, ClocksOK
      <4> QED
        BY <4>1, <4>2, <4>3 DEF StaysReset
    <3>2. CASE LeftoverEnds(c)
      BY <2>1, <3>2 DEF LeftoverEnds, StaysReset, clocks
    <3> QED
      BY <1>10, <3>1, <3>2
  <2> QED
    BY <2>4, <2>5, <2>6
<1>11. ASSUME NEW a \in Agents, ProxySends(a) \/ CommandLost(a) \/ AgentTakesLock(a)
                                 \/ AgentLocks(a)
       PROVE  Ord
  <2>1. UNCHANGED <<step, stage, todo, group, healthy, termed, killed, stuck, reset, owed>>
    BY <1>11 DEF ProxySends, CommandLost, AgentTakesLock, AgentLocks, signals
  <2>2. StartsOnHealthy' /\ StartUp' /\ ShutDown'
    BY <2>1 DEF StartsOnHealthy, StartUp, ShutDown, Started, Starting, Left, LeftBehind,
                Over, Finished, Exists
  <2>3. CASE ProxySends(a)
    <3>1. group["proxy"] = "up"
      BY <2>3 DEF ProxySends
    <3>2. reset # {} => stuck
      <4>1. CASE Starting
        BY <4>1 DEF StartUp
      <4>2. CASE ~Starting /\ reset # {}
        <5>1. stage = 3
          BY <4>2 DEF ShutDown
        <5>2. Over("proxy")
          BY <4>2, <5>1 DEF ShutDown
        <5> QED
          BY <5>2, <3>1 DEF Over
      <4> QED
        BY <4>1, <4>2
    <3> QED
      BY <2>1, <2>2, <3>2 DEF StaysReset
  <2>4. CASE CommandLost(a) \/ AgentTakesLock(a) \/ AgentLocks(a)
    <3>1. \A b \in Agents : b # a =>
             sent'[b] = sent[b] /\ (b \in held' <=> b \in held) /\ (b \in locked' <=> b \in locked)
      BY <2>4 DEF CommandLost, AgentTakesLock, AgentLocks, TypeOK, ClocksOK
    <3>2. Outstanding(a)' <= Outstanding(a)
      BY <2>4 DEF CommandLost, AgentTakesLock, AgentLocks, TypeOK, ClocksOK
    <3>3. a \in locked' => a \in locked \/ a \in held
      BY <2>4 DEF CommandLost, AgentTakesLock, AgentLocks
    <3>4. \A b \in Agents : Outstanding(b) \in Nat /\ Outstanding(b)' \in Nat
      BY DEF TypeOK, ClocksOK
    <3>5. \A b \in Agents : Outstanding(b)' <= Outstanding(b)
      BY <3>1, <3>2, <3>4
    <3>6. Outstanding(a) = 0 => a \notin held
      BY DEF TypeOK, ClocksOK
    <3>7. ASSUME ~stuck, NEW b \in reset
          PROVE  /\ Outstanding(b)' <= owed[b]
                 /\ owed[b] = 0 => b \notin locked'
      <4>1. b \in Agents /\ owed[b] \in Nat
        BY DEF TypeOK, ClocksOK
      <4>2. Outstanding(b) <= owed[b] /\ (owed[b] = 0 => b \notin locked)
        BY <3>7 DEF StaysReset
      <4> QED
        BY <3>1, <3>3, <3>4, <3>5, <3>6, <4>1, <4>2
    <3> QED
      BY <2>1, <2>2, <3>7 DEF StaysReset
  <2> QED
    BY <1>11, <2>3, <2>4
<1>12. CASE Signal
  BY <1>12 DEF Signal, signals, clocks, StartsOnHealthy, StartUp, ShutDown, StaysReset,
              Started, Starting, Left, LeftBehind, Over, Finished, Exists
<1> QED
  BY <1>0, <1>1, <1>2, <1>3, <1>4, <1>5, <1>6, <1>7, <1>8, <1>9, <1>10, <1>11, <1>12
  DEF Next, Controller, Environment

\* The invariant holds in every reachable state.
LEMMA Invariance == Spec => []IInv
<1>1. IInv /\ [Next]_vars => IInv'
  BY TypeStep, OrderStep DEF IInv
<1> QED
  BY <1>1, InitIInv, PTL DEF Spec

-----------------------------------------------------------------------------
\* No child is started before everything of the earlier stages was healthy,
\* however many agents there are and whatever interrupts the start-up.
THEOREM StartUpOrder == Spec => []StartsOnHealthy
BY Invariance, PTL DEF IInv

\* The proxy, the node steps and the agents are ended in this order.
THEOREM ShutDownOrder == Spec => []StopsInOrder
<1>1. IInv => StopsInOrder
  <2> SUFFICES ASSUME IInv, NEW c \in Children, NEW d \in Children,
                      c \in termed, StageOf(d) > StageOf(c)
               PROVE  Finished(d)
    BY DEF StopsInOrder
  <2>1. ~Starting
    BY DEF IInv, StartUp
  <2>2. StageOf(d) > 4 - stage
    BY <2>1, Stages DEF IInv, ShutDown, TypeOK
  <2> QED
    BY <2>1, <2>2 DEF IInv, ShutDown, Over
<1> QED
  BY <1>1, Invariance, PTL

\* When run() returns, every process group it started is gone or was killed.
THEOREM NothingSurvives == Spec => []NothingLeft
<1>1. IInv => NothingLeft
  BY DEF IInv, ShutDown, Starting, NothingLeft, Over
<1> QED
  BY <1>1, Invariance, PTL

\* After its reset no clock is sent a command: whatever locks it again was already
\* on its way, outside the GPU's lock, and a clock that owed nothing stays reset,
\* for any number of commands, unless a process survived its SIGKILL.
THEOREM ClocksStayReset == Spec => []StaysReset
BY Invariance, PTL DEF IInv
=============================================================================
