------------------------- MODULE ProcessSupervision -------------------------
(***************************************************************************)
(* The processes of one Slurm job (controller/process_controller.py): the  *)
(* GPU agents, the prefill and decode node steps and the proxy are started *)
(* in that order, each stage waiting for the health of what it started,    *)
(* supervised, and stopped in the opposite order; the clocks are reset     *)
(* between the end of the proxy and that of the agents.                    *)
(*                                                                         *)
(* The controller is one thread that polls, so an action is the code       *)
(* between two of its waits; children, signals and the clocks of the GPUs  *)
(* move at any moment.  One GPU stands for those of an agent.              *)
(***************************************************************************)
EXTENDS Integers, Sequences

CONSTANTS
  AgentOrder,  \* the agents in the order they are started and reset
  MaxCommands  \* bound: lock commands on their way to the GPU of each agent

Agents   == {AgentOrder[i] : i \in DOMAIN AgentOrder}
Nodes    == {"prefill", "decode"}
Children == Agents \cup Nodes \cup {"proxy"}

ASSUME AgentsAssumption ==
  /\ AgentOrder \in Seq(Agents)
  /\ \A i, j \in DOMAIN AgentOrder : AgentOrder[i] = AgentOrder[j] => i = j
  /\ Agents \cap (Nodes \cup {"proxy"}) = {}

ASSUME CommandsAssumption == MaxCommands \in [Agents -> Nat]

VARIABLES
  step,    \* where run() or stop() is
  stage,   \* which group of children it is at
  todo,    \* names the current loop has not processed yet
  group,   \* process group of each child: not started, its leader running,
           \* leader gone but members left, or gone
  healthy, \* observation: children that answered a health check
  stop,    \* _stop_event
  termed,  \* children whose group was sent SIGTERM
  killed,  \* children whose group was sent SIGKILL
  stuck,   \* "did not exit after SIGKILL" was printed
  locked,  \* agents with a locked clock
  sent,    \* lock commands of the proxy that have not entered the GPU's lock:
           \* on the network, or in a thread that has yet to take it
  held,    \* agents where a lock command holds the GPU's lock
  reset,   \* observation: agents that answered that the reset is done
  owed     \* observation: commands that were on their way when it was done

signals == <<termed, killed, stuck>>
clocks  == <<locked, sent, held, reset, owed>>
vars    == <<step, stage, todo, group, healthy, stop, signals, clocks>>

Steps == {"start", "health", "supervise", "term", "kill", "wait", "reset", "done"}
Started(c) == group[c] # "none"
Exists(c)  == group[c] \in {"up", "leftover"}
Exited(c)  == group[c] \in {"leftover", "gone"}

\* What run() starts at each stage, and what stop() ends at each stage.
StartNames(k) == CASE k = 1 -> AgentOrder
                   [] k = 2 -> <<"prefill", "decode">>
                   [] k = 3 -> <<"proxy">>
\* Mutant: the agents first, as they were started.
StopNamesAsStarted(k) == StartNames(k)
StopNames(k) == StartNames(4 - k)
StageOf(c) == IF c \in Agents THEN 1 ELSE IF c \in Nodes THEN 2 ELSE 3

Init ==
  /\ step = "start" /\ stage = 1 /\ todo = StartNames(1)
  /\ group = [c \in Children |-> "none"]
  /\ healthy = {} /\ stop = FALSE
  /\ termed = {} /\ killed = {} /\ stuck = FALSE
  /\ locked = {} /\ held = {} /\ reset = {}
  /\ sent = [a \in Agents |-> 0] /\ owed = [a \in Agents |-> 0]

(***************************************************************************)
(* run()                                                                   *)
(***************************************************************************)
\* The finally clause: stop() begins with the proxy.
Leave == step' = "term" /\ stage' = 1 /\ todo' = <<>>

StartChild ==
  /\ step = "start" /\ todo # <<>>
  /\ group' = [group EXCEPT ![Head(todo)] = "up"]
  /\ todo' = Tail(todo)
  /\ UNCHANGED <<step, stage, healthy, stop, signals, clocks>>

\* Popen raises OSError.
StartFails ==
  /\ step = "start" /\ todo # <<>>
  /\ Leave
  /\ UNCHANGED <<group, healthy, stop, signals, clocks>>

\* Every child of the stage was started: _wait_for_health.
AllStarted ==
  /\ step = "start" /\ todo = <<>>
  /\ step' = "health"
  /\ UNCHANGED <<stage, todo, group, healthy, stop, signals, clocks>>

\* Mutant: the event is not looked at after the wait.
HealthInterruptedGoesOn ==
  /\ step = "health" /\ stop
  /\ IF stage = 3
       THEN step' = "supervise" /\ UNCHANGED <<stage, todo>>
       ELSE step' = "start" /\ stage' = stage + 1 /\ todo' = StartNames(stage + 1)
  /\ UNCHANGED <<group, healthy, stop, signals, clocks>>

\* A health wait that a signal ended returns as if all were well; run() looks
\* at the event before it starts the next stage.
HealthInterrupted ==
  /\ step = "health" /\ stop
  /\ Leave
  /\ UNCHANGED <<group, healthy, stop, signals, clocks>>

Healthy ==
  /\ step = "health" /\ ~stop
  /\ \A c \in Children : ~Exited(c)
  /\ healthy' = healthy \cup {c \in Children : StageOf(c) = stage}
  /\ IF stage = 3
       THEN step' = "supervise" /\ UNCHANGED <<stage, todo>>
       ELSE step' = "start" /\ stage' = stage + 1 /\ todo' = StartNames(stage + 1)
  /\ UNCHANGED <<group, stop, signals, clocks>>

\* StartupError: the deadline passed before every URL answered.
HealthTimesOut ==
  /\ step = "health" /\ ~stop
  /\ Leave
  /\ UNCHANGED <<group, healthy, stop, signals, clocks>>

\* Mutant: children are watched while the job starts only.
ServiceExitedAtStart ==
  /\ step = "health" /\ ~stop
  /\ \E c \in Children : Exited(c)
  /\ Leave
  /\ UNCHANGED <<group, healthy, stop, signals, clocks>>

\* _exited_service, polled in the health waits and while supervising.
ServiceExited ==
  /\ step \in {"health", "supervise"} /\ ~stop
  /\ \E c \in Children : Exited(c)
  /\ Leave
  /\ UNCHANGED <<group, healthy, stop, signals, clocks>>

Signalled ==
  /\ step = "supervise" /\ stop
  /\ Leave
  /\ UNCHANGED <<group, healthy, stop, signals, clocks>>

(***************************************************************************)
(* stop()                                                                  *)
(***************************************************************************)
\* _wait_then_kill: SIGTERM to every group of the stage that was started.
Terminate ==
  /\ step = "term"
  /\ termed' = termed \cup {c \in Children : Started(c) /\ StageOf(c) = 4 - stage}
  /\ todo' = StopNames(stage)
  /\ step' = "kill"
  /\ UNCHANGED <<stage, group, healthy, stop, killed, stuck, clocks>>

\* Mutant: the leader is polled, not its group.
LeaderSurvives(c) == group[c] = "up"

\* The grace period ended, with or without the groups; one child after the
\* other is killed if anything of its group is left, ...
Survives(c) == Exists(c)

KillNext ==
  /\ step = "kill" /\ todo # <<>>
  /\ killed' = killed \cup (IF Survives(Head(todo)) THEN {Head(todo)} ELSE {})
  /\ step' = "wait"
  /\ UNCHANGED <<stage, todo, group, healthy, stop, termed, stuck, clocks>>

\* ... and waited for while its leader runs, for another grace period.
Reaped ==
  /\ step = "wait" /\ todo # <<>> /\ group[Head(todo)] # "up"
  /\ todo' = Tail(todo) /\ step' = "kill"
  /\ UNCHANGED <<stage, group, healthy, stop, signals, clocks>>

DidNotExit ==
  /\ step = "wait" /\ todo # <<>> /\ group[Head(todo)] = "up"
  /\ todo' = Tail(todo) /\ step' = "kill" /\ stuck' = TRUE
  /\ UNCHANGED <<stage, group, healthy, stop, termed, killed, clocks>>

\* Proxy, then node steps, then before_agents_stop, then the agents.
NextStage ==
  /\ step = "kill" /\ todo = <<>>
  /\ \/ stage = 1 /\ step' = "term" /\ stage' = 2 /\ todo' = <<>>
     \/ stage = 2 /\ step' = "reset" /\ stage' = 3 /\ todo' = AgentOrder
     \/ stage = 3 /\ step' = "done" /\ UNCHANGED <<stage, todo>>
  /\ UNCHANGED <<group, healthy, stop, signals, clocks>>

(***************************************************************************)
(* reset_agent_clocks, while the agents still run                          *)
(***************************************************************************)
\* The reset itself, as the agent executes it.
ResetClock(a) ==
  /\ locked' = locked \ {a}
  /\ reset' = reset \cup {a}
  /\ owed' = [owed EXCEPT ![a] = sent[a]]

\* Mutant: the agent resets a GPU while a lock command holds it.
ResetUnserialised ==
  /\ step = "reset" /\ todo # <<>>
  /\ group[Head(todo)] = "up"
  /\ ResetClock(Head(todo))
  /\ todo' = Tail(todo)
  /\ UNCHANGED <<step, stage, group, healthy, stop, signals, sent, held>>

\* GET /gpus and POST .../reset both answer.  The reset takes the GPU's lock: it
\* waits for the command that holds it, and for no other.
ResetDone ==
  /\ step = "reset" /\ todo # <<>>
  /\ group[Head(todo)] = "up" /\ Head(todo) \notin held
  /\ ResetClock(Head(todo))
  /\ todo' = Tail(todo)
  /\ UNCHANGED <<step, stage, group, healthy, stop, signals, sent, held>>

\* The POST fails or times out, with or without effect on the clock: the error is
\* noted and the loop goes on.
ResetFails ==
  /\ step = "reset" /\ todo # <<>>
  /\ LET a == Head(todo) IN
       /\ group[a] = "up"
       /\ locked' \in {locked, locked \ ({a} \ held)}
  /\ todo' = Tail(todo)
  /\ UNCHANGED <<step, stage, group, healthy, stop, signals, sent, held, reset, owed>>

\* The GET raises: the exception leaves the loop over the agents, stop()
\* notes it and goes on to end the agents.
AgentSilent ==
  /\ step = "reset" /\ todo # <<>>
  /\ step' = "term" /\ todo' = <<>>
  /\ UNCHANGED <<stage, group, healthy, stop, signals, clocks>>

ResetEnds ==
  /\ step = "reset" /\ todo = <<>>
  /\ step' = "term"
  /\ UNCHANGED <<stage, todo, group, healthy, stop, signals, clocks>>

(***************************************************************************)
(* Children, clocks and signals                                            *)
(***************************************************************************)
\* A leader exits (by itself, or by a signal), with or without members of its
\* group left behind.  The commands on their way to an agent end with it; it
\* resets its clocks on exit unless it is ended too quickly for that.
ChildExits(c) ==
  /\ group[c] = "up"
  /\ \E left \in {"leftover", "gone"} : group' = [group EXCEPT ![c] = left]
  /\ sent' = [a \in Agents |-> IF a = c THEN 0 ELSE sent[a]]
  /\ held' = held \ {c}
  /\ locked' \in {locked \ {c}, locked \cup (held \cap {c})}
  /\ UNCHANGED <<step, stage, todo, healthy, stop, signals, reset, owed>>

LeftoverEnds(c) ==
  /\ group[c] = "leftover"
  /\ group' = [group EXCEPT ![c] = "gone"]
  /\ UNCHANGED <<step, stage, todo, healthy, stop, signals, clocks>>

\* The proxy's Tier Controller (or its Canary) posts a lock command, on a
\* connection of its own.  It waits five seconds for the answer; then it may
\* post the next one while the first is still on its way.
ProxySends(a) ==
  /\ group["proxy"] = "up" /\ group[a] = "up" /\ sent[a] < MaxCommands[a]
  /\ sent' = [sent EXCEPT ![a] = @ + 1]
  /\ UNCHANGED <<step, stage, todo, group, healthy, stop, signals, locked, held, reset, owed>>

\* The connection breaks first, or the agent refuses the clock (400).
CommandLost(a) ==
  /\ sent[a] > 0
  /\ sent' = [sent EXCEPT ![a] = @ - 1]
  /\ UNCHANGED <<step, stage, todo, group, healthy, stop, signals, locked, held, reset, owed>>

\* One of them, not always the oldest, gets the GPU's lock: in a thread of the
\* agent, whether or not anybody still waits for the answer.
AgentTakesLock(a) ==
  /\ group[a] = "up" /\ sent[a] > 0 /\ a \notin held
  /\ sent' = [sent EXCEPT ![a] = @ - 1]
  /\ held' = held \cup {a}
  /\ UNCHANGED <<step, stage, todo, group, healthy, stop, signals, locked, reset, owed>>

\* nvidia-smi locks the clock, or fails; the GPU's lock is released.
AgentLocks(a) ==
  /\ a \in held
  /\ held' = held \ {a}
  /\ locked' \in {locked, locked \cup {a}}
  /\ UNCHANGED <<step, stage, todo, group, healthy, stop, signals, sent, reset, owed>>

\* SIGINT or SIGTERM; once set the event stays set.
Signal ==
  /\ ~stop
  /\ stop' = TRUE
  /\ UNCHANGED <<step, stage, todo, group, healthy, signals, clocks>>

Controller ==
  \/ StartChild \/ StartFails \/ AllStarted
  \/ HealthInterrupted \/ Healthy \/ HealthTimesOut \/ ServiceExited \/ Signalled
  \/ Terminate \/ KillNext \/ Reaped \/ DidNotExit \/ NextStage
  \/ ResetDone \/ ResetFails \/ AgentSilent \/ ResetEnds

\* The job's allocation ends with its controller: what happens later is not
\* part of the model.
Environment ==
  /\ step # "done"
  /\ \/ \E c \in Children : ChildExits(c) \/ LeftoverEnds(c)
     \/ \E a \in Agents : ProxySends(a) \/ CommandLost(a) \/ AgentTakesLock(a) \/ AgentLocks(a)
     \/ Signal

Next == Controller \/ Environment

Spec == Init /\ [][Next]_vars
\* The controller thread keeps running: its loops poll and its waits end.
FairSpec == Spec /\ WF_vars(Controller)

(***************************************************************************)
(* Properties                                                              *)
(***************************************************************************)
ClocksOK ==
  /\ locked \subseteq Agents /\ held \subseteq Agents /\ reset \subseteq Agents
  /\ sent \in [Agents -> Nat] /\ owed \in [Agents -> Nat]
  /\ \A a \in Agents : sent[a] <= MaxCommands[a]

TypeOK ==
  /\ step \in Steps /\ stage \in 1..3 /\ todo \in Seq(Children)
  /\ step = "reset" => todo \in Seq(Agents)
  /\ group \in [Children -> {"none", "up", "leftover", "gone"}]
  /\ healthy \subseteq Children /\ stop \in BOOLEAN
  /\ termed \subseteq Children /\ killed \subseteq Children /\ stuck \in BOOLEAN
  /\ ClocksOK

\* No child is started before everything of the stages before it answered its
\* health check, whatever signal or failure hits the start-up ("they must be
\* up before the Controller locks any clock").
StartsOnHealthy ==
  \A c, d \in Children :
     Started(c) /\ StageOf(d) < StageOf(c) => d \in healthy

\* stop() ends the proxy, then the node steps, then the agents: a group is sent
\* SIGTERM only when nothing of a later stage is left, or it was sent SIGKILL.
Finished(c) == ~Exists(c) \/ c \in killed
StopsInOrder ==
  \A c, d \in Children :
     c \in termed /\ StageOf(d) > StageOf(c) => Finished(d)

\* When the job returns nothing it started is left that was not killed, be it
\* the members of a group whose leader had exited long before.
NothingLeft == step = "done" => \A c \in Children : Finished(c)

\* Once a clock was reset, no lock command is sent to it any more: those that may
\* still lock it are the ones that were on their way, outside the GPU's lock, when
\* the reset was done.  A clock that owed none stays reset.  This is so unless a
\* process survived its SIGKILL.
Outstanding(a) == sent[a] + (IF a \in held THEN 1 ELSE 0)
StaysReset ==
  ~stuck =>
    \A a \in reset :
      /\ Outstanding(a) <= owed[a]
      /\ owed[a] = 0 => a \notin locked

\* A signal, or a child that exits, ends the job.
JobEnds ==
  (stop \/ \E c \in Children : Exited(c)) ~> (step = "done")

\* Not so, as the GET of an agent is outside the try (process_controller.py:209).
\* reset_agent_clocks: "Reset every GPU of every agent": when the loop over the
\* agents ends, no agent behind the one it stands at still runs.
EveryAgentAsked ==
  [][ step = "reset" /\ step' = "term"
        => \A i \in 2..Len(todo) : group[todo[i]] # "up" ]_vars

\* Not so, as a command checks its clock before it takes the lock (gpu_agent.py:178)
\* and the lock is not fair: "Never leave clocks locked after the job"
\* (gpu_agent.py:330), not even those that answered their reset.
ResetIsFinal == step = "done" /\ ~stuck => reset \cap locked = {}

=============================================================================
