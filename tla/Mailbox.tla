------------------------------ MODULE Mailbox ------------------------------
(***************************************************************************)
(* What skynet promises a service: a box of messages that are taken in the *)
(* order in which they were put there, one at a time - the callback of a   *)
(* service never runs in two threads - and that are thrown away only when  *)
(* the service is retired and not running.                                 *)
(***************************************************************************)
EXTENDS Naturals, Sequences

CONSTANTS Services, Messages

VARIABLES
    box,      \* by service, the messages that wait
    running,  \* by service, the set of messages its callback is running for
    retired   \* the services that are retired

Init ==
    /\ box = [s \in Services |-> <<>>]
    /\ running = [s \in Services |-> {}]
    /\ retired = {}

Put(s, m) ==
    /\ box' = [box EXCEPT ![s] = Append(@, m)]
    /\ UNCHANGED <<running, retired>>

Take(s) ==
    /\ box[s] # <<>> /\ running[s] = {}
    /\ running' = [running EXCEPT ![s] = {Head(box[s])}]
    /\ box' = [box EXCEPT ![s] = Tail(@)]
    /\ UNCHANGED retired

Finish(s) ==
    /\ running[s] # {}
    /\ running' = [running EXCEPT ![s] = {}]
    /\ UNCHANGED <<box, retired>>

Retire(s) ==
    /\ retired' = retired \cup {s}
    /\ UNCHANGED <<box, running>>

Drop(s) ==
    /\ s \in retired /\ box[s] # <<>> /\ running[s] = {}
    /\ box' = [box EXCEPT ![s] = Tail(@)]
    /\ UNCHANGED <<running, retired>>

Next ==
    \E s \in Services :
        \/ \E m \in Messages : Put(s, m)
        \/ Take(s) \/ Finish(s) \/ Retire(s) \/ Drop(s)

Spec == Init /\ [][Next]_<<box, running, retired>>

=============================================================================
