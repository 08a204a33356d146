------------------------- MODULE MCRoleSingleEntity -------------------------
(* RoleSingleEntity for TLC: the cfg files choose the faults of a run. *)
EXTENDS RoleSingleEntity
=============================================================================
