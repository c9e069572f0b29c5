----------------------------- MODULE MCCatchUp -----------------------------
EXTENDS CatchUp, TLC
CONSTANTS a, b, c, v1, v2
IdSymmetry == Permutations({a, b, c}) \cup Permutations({v1, v2})
=============================================================================
