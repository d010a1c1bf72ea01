--------------------------- MODULE MCTierLocator ---------------------------
(***************************************************************************)
(* A small instance of Locating for TLC.  Of the locator's worlds, one      *)
(* family varies what P does (feasible from clock `edge` up, cheapest at    *)
(* `valley`, flat or steep), the other what D does; the probe's window has  *)
(* three probes.                                                            *)
(***************************************************************************)
EXTENDS Locating

Dist(a, b) == IF a < b THEN b - a ELSE a - b

PWorlds ==
  {[cap |-> [f \in P |-> IF f >= edge THEN 18 + f ELSE 6],
    energy |-> [f \in P |-> 100 + slope * Dist(f, valley)],
    limited |-> {NP}, feff |-> feff, oversized |-> feff = NP,
    clean |-> [d \in D |-> 12], joules |-> [d \in D |-> 10 + d], fits |-> D, dmin |-> 1] :
     edge \in {1, 4, 6, 10, 12}, valley \in {1, 2, 4, 6, 7, 9, 11, 13},
     slope \in {1, 9}, feff \in {NP - 1, NP}}

DWorlds ==
  {[cap |-> [f \in P |-> 18 + f], energy |-> [f \in P |-> 100 + 9 * f], limited |-> {},
    feff |-> NP, oversized |-> FALSE,
    clean |-> [d \in D |-> top - (ND - d) * step],
    joules |-> [d \in D |-> IF d = cheap THEN 10 ELSE 20], fits |-> fits, dmin |-> dmin] :
     top \in {3, 11, 20}, step \in {0, 1}, cheap \in D, fits \in {{}, {ND}, D}, dmin \in {1, 3}}

MCWorlds == PWorlds \cup DWorlds
MCPlans == {<<7, 1, 21>>, <<NP, ND, 40>>}
MCFill == <<3, 5, 8, 10>>
=============================================================================
