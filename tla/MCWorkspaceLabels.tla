-------------------------- MODULE MCWorkspaceLabels --------------------------
EXTENDS WorkspaceLabels, TLC
CONSTANTS a, b, red, blue, w
LabelSymmetry == Permutations({a, b}) \cup Permutations({red, blue})
=============================================================================
