------------------------- MODULE MCRequestLifecycle -------------------------
(***************************************************************************)
(* Small instances of RequestLifecycle for TLC.                            *)
(***************************************************************************)
EXTENDS RequestLifecycle, TLC

CONSTANTS r1, r2, r3

\* Different prompt lengths, so that a mixed-up release shows in the sums.
MCTokens == [r \in Requests |-> IF r = r1 THEN 1 ELSE IF r = r2 THEN 2 ELSE 4]

Symmetry == Permutations(Groups)
=============================================================================
