---------------------------- MODULE MCKnowledge ----------------------------
(***************************************************************************)
(* A small instance of Knowledge for TLC: three configurations, two of one *)
(* SLO (another model or GPU); four bins of slack; two buckets of waiting   *)
(* requests and two of prompt lengths; a single window and two scans over   *)
(* two rates; three clocks and two lengths, of whose times 104 is within    *)
(* eps of 100; a trace of three requests.                                   *)
(***************************************************************************)
EXTENDS Knowledge, TLC

CONSTANTS a, b, c

MCSloOf == (a :> 1) @@ (b :> 1) @@ (c :> 2)

\* Calibrations with a clean and with a violating middle.
MCSeeds ==
  {[i \in 0..Top |-> <<0, 0>>],
   [i \in 0..Top |-> IF i = 0 THEN <<3, 1>> ELSE IF i = 1 THEN <<6, 0>> ELSE <<1, 1>>],
   [i \in 0..Top |-> IF i = Top THEN <<8, 0>> ELSE IF i = 1 THEN <<4, 4>> ELSE <<0, 0>>]}
=============================================================================
