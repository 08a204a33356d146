-------------------------- MODULE MCServiceQueue --------------------------
EXTENDS ServiceQueue

CONSTANTS w1, w2

MCWorkers == {w1, w2}
MCWeight == [w \in MCWorkers |-> IF w = w1 THEN -1 ELSE 0]
=============================================================================
