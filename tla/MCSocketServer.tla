--------------------------- MODULE MCSocketServer ---------------------------
(* A small socket server for TLC. *)
EXTENDS SocketServer, TLC
CONSTANTS v1, v2
TwoAndOne == v1 :> 2 @@ v2 :> 1
=============================================================================
