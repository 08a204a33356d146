----------------------------- MODULE TimerWheel -----------------------------
(***************************************************************************)
(* skynet's timers (skynet_timer.c): a wheel for the current block of      *)
(* TIME_NEAR ticks and four levels of TIME_LEVEL slots each, whose lists   *)
(* are moved down when their block begins.  The word that counts the ticks *)
(* wraps around.                                                           *)
(*                                                                         *)
(* Services add timers from every worker while the timer thread runs       *)
(* timer_update; the spinlock is free only while a list that was taken     *)
(* from the wheel is dispatched.  The powers of two of the code are        *)
(* constants, its masks and shifts are divisions and remainders.           *)
(*                                                                         *)
(* Left out: skynet_timeout with time <= 0, which pushes the message at    *)
(* once, and a clock that goes backwards.                                  *)
(***************************************************************************)
EXTENDS Integers, Sequences, FiniteSets, Functions

CONSTANTS
    Timers,   \* the timers that may be pending at once
    NEAR,     \* TIME_NEAR
    LEVEL,    \* TIME_LEVEL
    MaxTime,  \* bound: the longest timeout
    MaxLag    \* bound: ticks that skynet_updatetime catches up in one go

\* The ticks of a slot of t[l]: NEAR * LEVEL^l
Size[l \in 0..4] == IF l = 0 THEN NEAR ELSE LEVEL * Size[l - 1]

Wrap == Size[4]   \* 2^32 in the code

ASSUME WheelAssumption ==
    /\ IsFiniteSet(Timers)
    /\ NEAR \in Nat \ {0, 1} /\ LEVEL \in Nat \ {0, 1}
    /\ MaxTime \in 1..(Wrap \div 2) - 1   \* a positive int
    /\ MaxLag \in Nat \ {0}

VARIABLES
    time,     \* T->time
    wheel,    \* by place: the list of timers there
    expire,   \* node->expire
    firing,   \* the list that dispatch_list has still to go through
    pc,       \* of the timer thread
    diff,     \* calls of timer_update still to make
    \* History:
    pending,  \* the timers that were added and have not fired
    due,      \* by pending timer: ticks until it should fire
    earlier   \* by pending timer: the pending ones that were added before it

vars == <<time, wheel, expire, firing, pc, diff, pending, due, earlier>>

\* <<-1, i>> is near[i], <<l, i>> is t[l][i]
Places == ({-1} \X (0..NEAR - 1)) \cup ((0..3) \X (0..LEVEL - 1))

\* The variables have the values the code can give them; time and expire are
\* words that wrap around (uint32_t).
TypeOK ==
    /\ time \in 0..Wrap - 1
    /\ wheel \in [Places -> Seq(Timers)]
    /\ expire \in [Timers -> 0..Wrap - 1]
    /\ firing \in Seq(Timers)
    /\ pc \in {"idle", "exec1", "disp1", "shift", "exec2", "disp2"}
    /\ diff \in 0..MaxLag
    /\ pending \subseteq Timers
    /\ due \in [Timers -> 0..MaxTime]
    /\ earlier \in [Timers -> SUBSET Timers]

\* A node that has run for any time and has no timer pending
Init ==
    /\ time \in 0..Wrap - 1
    /\ wheel = [p \in Places |-> <<>>]
    /\ expire = [n \in Timers |-> 0]
    /\ firing = <<>> /\ pending = {}
    /\ pc = "idle" /\ diff = 0
    /\ due = [n \in Timers |-> 0]
    /\ earlier = [n \in Timers |-> {}]

-----------------------------------------------------------------------------
(* add_node *)

\* e and c are in the same block of the given size
SameBlock(e, c, size) == e \div size = c \div size

\* the level whose list takes a timer that is not in the current near block
LevelOf(e, c) ==
    CHOOSE i \in 0..3 :
        /\ i = 3 \/ SameBlock(e, c, Size[i + 1])
        /\ \A j \in 0..i - 1 : ~SameBlock(e, c, Size[j + 1])

\* the place of a timer that expires at e when the time is c
PlaceOf(e, c) ==
    IF SameBlock(e, c, NEAR)
      THEN <<-1, e % NEAR>>
      ELSE <<LevelOf(e, c), (e \div Size[LevelOf(e, c)]) % LEVEL>>

\* the wheel w after n, which expires at e, was linked to the end of its list
AddNode(w, n, e, c) == [w EXCEPT ![PlaceOf(e, c)] = Append(@, n)]

-----------------------------------------------------------------------------
(* skynet_timeout and timer_add *)

\* the timer thread is in its critical section
Locked == pc \in {"exec1", "shift", "exec2"}

Timeout(n, d) ==
    LET e == (time + d) % Wrap IN
    /\ ~Locked /\ n \notin pending
    /\ expire' = [expire EXCEPT ![n] = e]
    /\ wheel' = AddNode(wheel, n, e, time)
    /\ pending' = pending \cup {n}
    /\ due' = [due EXCEPT ![n] = d]
    /\ earlier' = [earlier EXCEPT ![n] = pending]
    /\ UNCHANGED <<time, firing, pc, diff>>

-----------------------------------------------------------------------------
(* skynet_updatetime and timer_update, in the timer thread *)

\* The clock went on by k ticks since the last call
UpdateTime(k) ==
    /\ pc = "idle" /\ diff = 0
    /\ diff' = k
    /\ UNCHANGED <<time, wheel, expire, firing, pc, pending, due, earlier>>

Update ==
    /\ pc = "idle" /\ diff > 0
    /\ pc' = "exec1"
    /\ UNCHANGED <<time, wheel, expire, firing, diff, pending, due, earlier>>

Now == <<-1, time % NEAR>>

\* timer_execute: the list of this tick is taken until it is empty
Execute ==
    /\ pc \in {"exec1", "exec2"}
    /\ IF wheel[Now] # <<>>
         THEN /\ firing' = wheel[Now]
              /\ wheel' = [wheel EXCEPT ![Now] = <<>>]
              /\ pc' = IF pc = "exec1" THEN "disp1" ELSE "disp2"
              /\ UNCHANGED diff
         ELSE /\ pc' = IF pc = "exec1" THEN "shift" ELSE "idle"
              /\ diff' = IF pc = "exec1" THEN diff ELSE diff - 1
              /\ UNCHANGED <<firing, wheel>>
    /\ UNCHANGED <<time, expire, pending, due, earlier>>

\* dispatch_list: one message is pushed, without the lock
Dispatch ==
    /\ pc \in {"disp1", "disp2"}
    /\ firing' = Tail(firing)
    /\ pending' = pending \ {Head(firing)}
    /\ due' = [due EXCEPT ![Head(firing)] = 0]
    /\ earlier' = [n \in Timers |->
                       IF n = Head(firing) THEN {} ELSE earlier[n] \ {Head(firing)}]
    /\ pc' = IF Len(firing) > 1 THEN pc ELSE IF pc = "disp1" THEN "exec1" ELSE "exec2"
    /\ UNCHANGED <<time, wheel, expire, diff>>

\* the timers of a list are added anew, the first one first
AddAll(w, list, c) ==
    LET added[k \in 0..Len(list)] ==
            IF k = 0 THEN w ELSE AddNode(added[k - 1], list[k], expire[list[k]], c)
    IN  added[Len(list)]

\* Mutant: the list is gone through from its end.
MovedReversed(p, ct) ==
    LET list == wheel[p]
        reversed == [k \in DOMAIN list |-> list[Len(list) + 1 - k]]
    IN  AddAll([wheel EXCEPT ![p] = <<>>], reversed, ct)

\* move_list of place p
Moved(p, ct) == AddAll([wheel EXCEPT ![p] = <<>>], wheel[p], ct)

\* Mutant: nothing is moved when the word wraps around.
BeginsBlockNoWrap(ct) ==
    {l \in 0..3 :
        /\ ct # 0
        /\ ct % Size[l] = 0
        /\ (ct \div Size[l]) % LEVEL # 0}

\* the level, if any, whose block begins at ct; the top one when ct is 0
BeginsBlock(ct) ==
    IF ct = 0 THEN {3}
    ELSE {l \in 0..3 : /\ ct % Size[l] = 0
                       /\ (ct \div Size[l]) % LEVEL # 0}

Ticked == (time + 1) % Wrap

\* timer_shift
Shift ==
    LET ct == Ticked IN
    /\ pc = "shift"
    /\ time' = ct
    /\ IF BeginsBlock(ct) = {} THEN UNCHANGED wheel
       ELSE \E l \in BeginsBlock(ct) :
              wheel' = Moved(<<l, (ct \div Size[l]) % LEVEL>>, ct)
    /\ due' = [n \in Timers |-> IF n \in pending THEN due[n] - 1 ELSE 0]
    /\ pc' = "exec2"
    /\ UNCHANGED <<expire, firing, diff, pending, earlier>>

Next ==
    \/ \E n \in Timers, d \in 1..MaxTime : Timeout(n, d)
    \/ \E k \in 1..MaxLag : UpdateTime(k)
    \/ Update \/ Execute \/ Dispatch \/ Shift

Spec == Init /\ [][Next]_vars

-----------------------------------------------------------------------------
(* Properties *)

\* A pending timer is in one list and there once, and only pending ones are:
\* each fires once and is freed once (link_clear, dispatch_list).
OnceInWheel ==
    /\ pending = Range(firing) \cup UNION {Range(wheel[p]) : p \in Places}
    /\ IsInjective(firing)
    /\ \A p \in Places :
          /\ IsInjective(wheel[p])
          /\ Range(wheel[p]) \cap Range(firing) = {}
          /\ \A q \in Places \ {p} : Range(wheel[p]) \cap Range(wheel[q]) = {}

\* A timer is taken from the wheel in the very tick in which its timeout ends,
\* once, across all levels and the wrap-around of the tick counter, and whatever
\* was added while a list was dispatched; none is passed over (timer_shift,
\* add_node, move_list).
OnTime ==
    /\ TypeOK /\ OnceInWheel
    /\ \A n \in Range(firing) : due[n] = 0
    /\ \A n \in pending \ Range(firing) :
          due[n] > 0 \/ (due[n] = 0 /\ pc = "exec2" /\ n \in Range(wheel[Now]))

\* Timers that end in the same tick fire together and in the order in which
\* they were added, on whatever levels they were put: skynet.fork and
\* skynet.sleep of one service rely on it.
SameTickInOrder ==
    firing # <<>> =>
        /\ Range(firing) = {n \in pending : due[n] = 0}
        /\ \A i, j \in DOMAIN firing : i < j => firing[i] \in earlier[firing[j]]

=============================================================================
