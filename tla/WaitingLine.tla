----------------------------- MODULE WaitingLine -----------------------------
(***************************************************************************)
(* What best_effort admission promises (router.py, module comment: "Requests*)
(* dispatch FIFO ... Only the service wait timeout rejects them"): one line *)
(* of waiting requests, served from the front only, that anybody may leave. *)
(* AdmissionQueue implements it.                                            *)
(***************************************************************************)
EXTENDS Sequences, SequencesExt

CONSTANT Waiters

VARIABLES line,    \* the requests that wait, oldest first
          outcome  \* what became of each request

lvars == <<line, outcome>>

LineInit ==
  /\ line = <<>>
  /\ outcome = [w \in Waiters |-> "outside"]

\* A request that finds capacity and nobody before it does not wait.
ServedAtOnce(w) ==
  /\ outcome[w] = "outside" /\ line = <<>>
  /\ outcome' = [outcome EXCEPT ![w] = "served"]
  /\ UNCHANGED line

Join(w) ==
  /\ outcome[w] = "outside"
  /\ line' = Append(line, w)
  /\ outcome' = [outcome EXCEPT ![w] = "in_line"]

ServeFront ==
  /\ line # <<>>
  /\ outcome' = [outcome EXCEPT ![Head(line)] = "served"]
  /\ line' = Tail(line)

\* Timed out (503) or cancelled.
Leave(w) ==
  /\ outcome[w] = "in_line"
  /\ outcome' = [outcome EXCEPT ![w] = "left"]
  /\ \E i \in DOMAIN line : line[i] = w /\ line' = RemoveAt(line, i)

LineNext ==
  \/ ServeFront
  \/ \E w \in Waiters : ServedAtOnce(w) \/ Join(w) \/ Leave(w)

LineSpec == LineInit /\ [][LineNext]_lvars

\* The front is served as long as there is one.
FairLineSpec == LineSpec /\ WF_lvars(ServeFront)
=============================================================================
