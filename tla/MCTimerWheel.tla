---------------------------- MODULE MCTimerWheel ----------------------------
EXTENDS TimerWheel, TLC

TimerSymmetry == Permutations(Timers)
=============================================================================
