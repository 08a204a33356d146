----------------------------- MODULE RoleStore -----------------------------
(***************************************************************************)
(* What the role tables promise the rest of the game server: one role's    *)
(* row is a single value, whatever tiers it is copied to.  A row is the    *)
(* set of the writes it reflects.  A write is added to it, at most one at  *)
(* a time, and none is ever taken back.  A row that Delete took out of the *)
(* database may be served until it is unloaded, and then it is gone.       *)
(***************************************************************************)
EXTENDS Integers

CONSTANTS MaxWrites, None

VARIABLES
    value,      \* the row
    deleted     \* the database has no row

store == <<value, deleted>>

Writes == 1..MaxWrites

Init == (value = None /\ deleted) \/ (value = {} /\ ~deleted)

Add == value = None /\ deleted /\ value' = {} /\ ~deleted'

Write(w) ==
    /\ value # None /\ w \notin value
    /\ value' = value \cup {w}
    /\ UNCHANGED deleted

Delete == deleted' /\ value' \in {value, None}

Unload == deleted /\ value' = None /\ UNCHANGED deleted

Next == Add \/ (\E w \in Writes : Write(w)) \/ Delete \/ Unload

Spec == Init /\ [][Next]_store
=============================================================================
