----------------------------- MODULE MCAgentRun -----------------------------
EXTENDS AgentRun, TLC
CONSTANTS c1, c2
MCCallers == {c1, c2}
CallerSymmetry == Permutations(MCCallers)
=============================================================================
