------------------------- MODULE MCInterruptedTurns -------------------------
EXTENDS InterruptedTurns, TLC
CONSTANTS c1, c2, p1, p2
ClientSymmetry == Permutations({c1, c2})
=============================================================================
