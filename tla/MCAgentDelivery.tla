-------------------------- MODULE MCAgentDelivery --------------------------
(***************************************************************************)
(* AgentDelivery with three sources, so that an insert can overflow the    *)
(* table while a batch is in flight.                                       *)
(***************************************************************************)
EXTENDS AgentDelivery, TLC

Symmetry == Permutations(Source)
=============================================================================
