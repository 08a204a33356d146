------------------------------- MODULE MCAoi -------------------------------
(* A small space for TLC. *)
EXTENDS Aoi
=============================================================================
