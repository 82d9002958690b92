-------------------------------- MODULE MCAgentRun --------------------------------
(* Model values for AgentRun: runs of one kind are interchangeable.        *)
EXTENDS AgentRun, TLC

RunSymmetry == Permutations(Runs \ Blank)
=============================================================================
