----------------------------- MODULE MCLabelStore -----------------------------
EXTENDS LabelStore, TLC
CONSTANTS a, b, red, blue, v, w
StoreSymmetry == Permutations({a, b}) \cup Permutations({red, blue}) \cup Permutations({v, w})
=============================================================================
