------------------------- MODULE MCMessageReceipts -------------------------
EXTENDS MessageReceipts, TLC
CONSTANTS m1, m2, i1, i2
IntentSymmetry == Permutations({i1, i2})
=============================================================================
