--------------------------- MODULE MCAgentOwnership ---------------------------
(* AgentOwnership on a small instance. *)
EXTENDS AgentOwnership, TLC

AgentSymmetry == Permutations(Agents)
==============================================================================
