-------------------------- MODULE MCAgentSupervisor --------------------------
(* Instances of AgentSupervisor.  Callers and workspaces are               *)
(* interchangeable.                                                        *)
EXTENDS AgentSupervisor, TLC

Symmetric == Permutations(Callers) \cup Permutations(Workspaces)
=============================================================================
