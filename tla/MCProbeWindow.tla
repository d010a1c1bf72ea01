--------------------------- MODULE MCProbeWindow ---------------------------
EXTENDS ProbeWindow, TLC
CONSTANTS r1, r2, r3
MCReq == {r1, r2, r3}
Symmetry == Permutations(MCReq)
=============================================================================
