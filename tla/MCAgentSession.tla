--------------------------- MODULE MCAgentSession ---------------------------
(* The account's sessions on small instances. *)
EXTENDS AgentSession
=============================================================================
