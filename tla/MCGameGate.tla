----------------------------- MODULE MCGameGate -----------------------------
(* Instances of GameGate for TLC. *)
EXTENDS GameGate, TLC

GateSymmetry == Permutations(Users) \cup Permutations(Fds) \cup Permutations(Sessions)

=============================================================================
