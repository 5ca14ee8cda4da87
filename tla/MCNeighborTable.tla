-------------------------- MODULE MCNeighborTable --------------------------
(* Three nodes around an agent, with more or less room in its table. *)
EXTENDS NeighborTable
=============================================================================
