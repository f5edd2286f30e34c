------------------------- MODULE MCAgentEnrollment -------------------------
(***************************************************************************)
(* AgentEnrollment with a few tokens, hosts, agents and replicas.          *)
(***************************************************************************)
EXTENDS AgentEnrollment, TLC

Symmetry == Permutations(Agent) \cup Permutations(Token)
              \cup Permutations(Host) \cup Permutations(Replica)
=============================================================================
