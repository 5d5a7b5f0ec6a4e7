--------------------------- MODULE MCAgentTracker ---------------------------
(* Small instances of AgentTracker for TLC.                                 *)
EXTENDS AgentTracker, TLC

Symmetry == Permutations(Sessions) \cup Permutations(Threads) \cup Permutations(Panes)
=============================================================================
