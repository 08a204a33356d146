-------------------------- MODULE TimerWheelProofs --------------------------
(***************************************************************************)
(* Theorems about skynet's timers: each fires once, in the tick in which   *)
(* its timeout ends, and those of one tick in the order in which they were *)
(* added, for wheels of any sizes and any number of timers.                *)
(*                                                                         *)
(* The argument is that the place of a timer is a function of its expire   *)
(* and the time alone (PlaceOf), which timer_shift keeps true by moving    *)
(* one list: a tick changes the place of no other pending timer.           *)
(***************************************************************************)
EXTENDS TimerWheel, WellFoundedInduction, TLAPS

-----------------------------------------------------------------------------
(* Division *)

\* Products grow with their factors.
LEMMA MulLess ==
    ASSUME NEW b \in Nat, NEW x \in Int, NEW y \in Int, x < y
    PROVE  b * x + b <= b * y
  <1>1. b * y - b * x = b * (y - x)
    OBVIOUS
  <1>2. b * (y - x) >= b * 1
    OBVIOUS
  <1> QED BY <1>1, <1>2

\* Quotient and remainder
LEMMA DivMod ==
    ASSUME NEW a \in Nat, NEW b \in Nat \ {0}
    PROVE  /\ a \div b \in Nat
           /\ a % b \in 0..b - 1
           /\ a = b * (a \div b) + (a % b)
  OBVIOUS

\* There is only one quotient and one remainder.
LEMMA DivUnique ==
    ASSUME NEW a \in Nat, NEW b \in Nat \ {0}, NEW q \in Nat, NEW r \in 0..b - 1,
           a = b * q + r
    PROVE  a \div b = q /\ a % b = r
  <1> DEFINE p == a \div b
             s == a % b
  <1>1. p \in Nat /\ s \in 0..b - 1 /\ a = b * p + s
    BY DivMod
  <1> HIDE DEF p, s
  <1>2. ~(p < q)
    BY <1>1, MulLess
  <1>3. ~(q < p)
    BY <1>1, MulLess
  <1>4. p = q
    BY <1>1, <1>2, <1>3
  <1>5. s = r
    BY <1>1, <1>4
  <1> QED BY <1>4, <1>5 DEF p, s

\* A block of the next level is the block of a block.
LEMMA DivDiv ==
    ASSUME NEW a \in Nat, NEW b \in Nat \ {0}, NEW c \in Nat \ {0}
    PROVE  a \div (c * b) = (a \div b) \div c
  <1> DEFINE p == a \div b
             s == a % b
             q == p \div c
             r == p % c
  <1>1. p \in Nat /\ s \in 0..b - 1 /\ a = b * p + s
    BY DivMod
  <1>2. q \in Nat /\ r \in 0..c - 1 /\ p = c * q + r
    BY <1>1, DivMod
  <1> HIDE DEF p, s, q, r
  <1>3. c * b \in Nat \ {0}
    OBVIOUS
  <1>4. b * r + b <= b * c
    BY <1>2, MulLess
  <1>5. a = (c * b) * q + (b * r + s)
    BY <1>1, <1>2
  <1>6. b * r + s \in 0..c * b - 1
    <2>1. b * r >= 0 BY <1>2
    <2> QED BY <1>1, <1>2, <1>4, <2>1
  <1>7. a \div (c * b) = q
    BY <1>3, <1>5, <1>6, <1>2, DivUnique
  <1> QED BY <1>7 DEF p, q

\* What a larger block divides, a smaller one divides as well, and its next
\* digit is 0.
LEMMA ModDown ==
    ASSUME NEW a \in Nat, NEW b \in Nat \ {0}, NEW c \in Nat \ {0}, a % (c * b) = 0
    PROVE  a % b = 0 /\ (a \div b) % c = 0
  <1> DEFINE q == a \div (c * b)
  <1>0. c * b \in Nat \ {0}
    OBVIOUS
  <1>1. q \in Nat /\ a = (c * b) * q + (a % (c * b))
    BY <1>0, DivMod
  <1> HIDE DEF q
  <1>2. c * q \in Nat
    BY <1>1
  <1>3. a = b * (c * q) + 0
    BY <1>1
  <1>4. a \div b = c * q /\ a % b = 0
    BY <1>2, <1>3, DivUnique
  <1>5. (c * q) % c = 0
    <2>1. c * q = c * q + 0
      BY <1>2
    <2> QED BY <2>1, <1>1, <1>2, DivUnique
  <1> QED BY <1>4, <1>5

\* The next number is in the same block, or begins the next one.
LEMMA DivNext ==
    ASSUME NEW a \in Nat, NEW b \in Nat \ {0}
    PROVE  /\ (a + 1) % b # 0 => (a + 1) \div b = a \div b
           /\ (a + 1) % b = 0 => a % b = b - 1
  <1> DEFINE q == a \div b
             r == a % b
  <1>1. q \in Nat /\ r \in 0..b - 1 /\ a = b * q + r
    BY DivMod
  <1> HIDE DEF q, r
  <1>2. CASE r = b - 1
    <2>1. a + 1 = b * (q + 1) + 0
      BY <1>1, <1>2
    <2>2. (a + 1) % b = 0
      BY <2>1, <1>1, DivUnique
    <2> QED BY <2>2, <1>2 DEF r
  <1>3. CASE r # b - 1
    <2>1. r + 1 \in 0..b - 1 /\ a + 1 = b * q + (r + 1)
      BY <1>1, <1>3
    <2>2. (a + 1) \div b = q /\ (a + 1) % b = r + 1
      BY <2>1, <1>1, DivUnique
    <2> QED BY <2>2, <1>1 DEF q
  <1> QED BY <1>2, <1>3

\* A sum of two numbers below the modulus
LEMMA ModSum ==
    ASSUME NEW b \in Nat \ {0}, NEW x \in 0..b - 1, NEW y \in 0..b - 1
    PROVE  (x + y) % b = IF x + y < b THEN x + y ELSE x + y - b
  <1>1. CASE x + y < b
    <2>1. x + y = b * 0 + (x + y) /\ x + y \in 0..b - 1
      BY <1>1
    <2> QED BY <2>1, <1>1, DivUnique
  <1>2. CASE ~(x + y < b)
    <2>1. x + y = b * 1 + (x + y - b) /\ x + y - b \in 0..b - 1
      BY <1>2
    <2> QED BY <2>1, <1>2, DivUnique
  <1> QED BY <1>1, <1>2

-----------------------------------------------------------------------------
(* The blocks of the wheels *)

\* The sizes are positive, each one LEVEL times the one below.
LEMMA Sizes ==
    /\ Size[0] = NEAR
    /\ \A l \in 0..4 : Size[l] \in Nat \ {0}
    /\ \A l \in 0..3 : Size[l + 1] = LEVEL * Size[l]
    /\ NEAR \in Nat \ {0} /\ LEVEL \in Nat \ {0, 1} /\ Wrap \in Nat \ {0}
  <1> DEFINE S1 == LEVEL * NEAR
             S2 == LEVEL * S1
             S3 == LEVEL * S2
             S4 == LEVEL * S3
             G == [l \in 0..4 |-> IF l = 0 THEN NEAR ELSE IF l = 1 THEN S1
                     ELSE IF l = 2 THEN S2 ELSE IF l = 3 THEN S3 ELSE S4]
  <1>0. NEAR \in Nat \ {0} /\ LEVEL \in Nat \ {0, 1}
    BY WheelAssumption
  <1>1. G = [l \in 0..4 |-> IF l = 0 THEN NEAR ELSE LEVEL * G[l - 1]]
    OBVIOUS
  <1>2. Size = [l \in 0..4 |-> IF l = 0 THEN NEAR ELSE LEVEL * Size[l - 1]]
    <2> HIDE DEF G
    <2> QED BY <1>1 DEF Size
  <1>3. /\ Size[0] = NEAR
        /\ Size[1] = LEVEL * Size[0] /\ Size[2] = LEVEL * Size[1]
        /\ Size[3] = LEVEL * Size[2] /\ Size[4] = LEVEL * Size[3]
    BY <1>2
  <1>4. Size[0] \in Nat \ {0}
    BY <1>3, <1>0
  <1>5. Size[1] \in Nat \ {0}
    BY <1>3, <1>4, <1>0
  <1>6. Size[2] \in Nat \ {0}
    BY <1>3, <1>5, <1>0
  <1>7. Size[3] \in Nat \ {0}
    BY <1>3, <1>6, <1>0
  <1>8. Size[4] \in Nat \ {0}
    BY <1>3, <1>7, <1>0
  <1>9. \A l \in 0..4 : l = 0 \/ l = 1 \/ l = 2 \/ l = 3 \/ l = 4
    OBVIOUS
  <1>10. \A l \in 0..3 : l = 0 \/ l = 1 \/ l = 2 \/ l = 3
    OBVIOUS
  <1>11. \A l \in 0..4 : Size[l] \in Nat \ {0}
    BY <1>4, <1>5, <1>6, <1>7, <1>8, <1>9
  <1>12. \A l \in 0..3 : Size[l + 1] = LEVEL * Size[l]
    BY <1>3, <1>10
  <1> QED BY <1>0, <1>3, <1>8, <1>11, <1>12 DEF Wrap

\* Half of the time is at least a slot of the top wheel, and no slot is
\* larger than one of the top wheel.
LEMMA SizesBelow ==
    /\ 2 * Size[3] <= Wrap
    /\ \A l \in 0..3 : Size[l] <= Size[3]
  <1>1. \A l \in 0..3 : 2 * Size[l] <= Size[l + 1]
    <2> SUFFICES ASSUME NEW l \in 0..3 PROVE 2 * Size[l] <= LEVEL * Size[l]
      BY Sizes
    <2> DEFINE s == Size[l]
    <2>1. s \in Nat /\ LEVEL \in Nat /\ LEVEL >= 2
      BY Sizes
    <2> HIDE DEF s
    <2>2. 2 * s <= LEVEL * s
      BY <2>1
    <2> QED BY <2>2 DEF s
  <1>2. /\ 2 * Size[0] <= Size[1] /\ 2 * Size[1] <= Size[2]
        /\ 2 * Size[2] <= Size[3] /\ 2 * Size[3] <= Size[4]
    <2>1. 0 \in 0..3 /\ 1 \in 0..3 /\ 2 \in 0..3 /\ 3 \in 0..3
      OBVIOUS
    <2>2. 0 + 1 = 1 /\ 1 + 1 = 2 /\ 2 + 1 = 3 /\ 3 + 1 = 4
      OBVIOUS
    <2> QED BY <1>1, <2>1, <2>2
  <1>3. Size[0] \in Nat /\ Size[1] \in Nat /\ Size[2] \in Nat /\ Size[3] \in Nat
    BY Sizes
  <1>4. \A l \in 0..3 : l = 0 \/ l = 1 \/ l = 2 \/ l = 3
    OBVIOUS
  <1>5. Size[0] <= Size[3] /\ Size[1] <= Size[3] /\ Size[2] <= Size[3] /\ Size[3] <= Size[3]
    BY <1>2, <1>3
  <1> QED BY <1>2, <1>4, <1>5 DEF Wrap

\* The digit of a time at level l, by which its slot is chosen
Digit(e, l) == (e \div Size[l]) % LEVEL

\* Times in one block of a level are in one block of the next level; times in
\* one block of the next level whose digits agree are in one of this level.
LEMMA Blocks ==
    ASSUME NEW e \in Nat, NEW c \in Nat, NEW l \in 0..3
    PROVE  /\ SameBlock(e, c, Size[l]) => SameBlock(e, c, Size[l + 1]) /\ Digit(e, l) = Digit(c, l)
           /\ SameBlock(e, c, Size[l + 1]) /\ Digit(e, l) = Digit(c, l)
                  => SameBlock(e, c, Size[l])
  <1> DEFINE x == e \div Size[l]
             y == c \div Size[l]
  <1>1. Size[l] \in Nat \ {0} /\ Size[l + 1] = LEVEL * Size[l] /\ LEVEL \in Nat \ {0}
    BY Sizes
  <1>2. e \div Size[l + 1] = x \div LEVEL /\ c \div Size[l + 1] = y \div LEVEL
    BY <1>1, DivDiv
  <1>3. x \in Nat /\ y \in Nat
    BY <1>1, DivMod
  <1> HIDE DEF x, y
  <1>4. x = LEVEL * (x \div LEVEL) + (x % LEVEL) /\ y = LEVEL * (y \div LEVEL) + (y % LEVEL)
    BY <1>1, <1>3, DivMod
  <1>5. Digit(e, l) = x % LEVEL /\ Digit(c, l) = y % LEVEL
    BY DEF x, y, Digit
  <1>6. SameBlock(e, c, Size[l]) <=> x = y
    BY DEF SameBlock, x, y
  <1>7. SameBlock(e, c, Size[l + 1]) <=> x \div LEVEL = y \div LEVEL
    BY <1>2 DEF SameBlock
  <1> QED BY <1>4, <1>5, <1>6, <1>7

\* Every block contains the smaller blocks of its times.
LEMMA BlocksUp ==
    ASSUME NEW e \in Nat, NEW c \in Nat, NEW i \in 0..4, NEW j \in 0..4, i <= j,
           SameBlock(e, c, Size[i])
    PROVE  SameBlock(e, c, Size[j])
  <1> DEFINE P(l) == SameBlock(e, c, Size[l])
  <1>1. \A l \in 0..3 : P(l) => P(l + 1)
    BY Blocks
  <1>2. (P(0) => P(1)) /\ (P(1) => P(2)) /\ (P(2) => P(3)) /\ (P(3) => P(4))
    <2> HIDE DEF P
    <2>1. 0 \in 0..3 /\ 1 \in 0..3 /\ 2 \in 0..3 /\ 3 \in 0..3
      OBVIOUS
    <2>2. 0 + 1 = 1 /\ 1 + 1 = 2 /\ 2 + 1 = 3 /\ 3 + 1 = 4
      OBVIOUS
    <2> QED BY <1>1, <2>1, <2>2
  <1>3. P(i)
    OBVIOUS
  <1> HIDE DEF P
  <1>4. i \in {0, 1, 2, 3, 4} /\ j \in {0, 1, 2, 3, 4}
    OBVIOUS
  <1>5. P(j)
    BY <1>2, <1>3, <1>4
  <1> QED BY <1>5 DEF P

\* All times are in one block of the size of the whole wheel.
LEMMA OneTopBlock ==
    ASSUME NEW e \in 0..Wrap - 1, NEW c \in 0..Wrap - 1
    PROVE  SameBlock(e, c, Size[4])
  <1>1. Wrap \in Nat \ {0} /\ e = Wrap * 0 + e /\ c = Wrap * 0 + c
    BY Sizes
  <1>2. e \div Wrap = 0 /\ c \div Wrap = 0
    BY <1>1, DivUnique
  <1> QED BY <1>2 DEF SameBlock, Wrap

-----------------------------------------------------------------------------
(* The place of a timer *)

Slot(e, l) == <<l, Digit(e, l)>>

\* The level of a timer is the one whose block it shares with the time and in
\* whose slot it is apart from the time.
LEMMA PlaceIs ==
    ASSUME NEW e \in 0..Wrap - 1, NEW c \in 0..Wrap - 1, NEW l \in 0..3,
           SameBlock(e, c, Size[l + 1]), ~SameBlock(e, c, Size[l])
    PROVE  PlaceOf(e, c) = Slot(e, l)
  <1>0. e \in Nat /\ c \in Nat
    BY Sizes
  <1>1. \A j \in 0..4 : j <= l => ~SameBlock(e, c, Size[j])
    BY <1>0, BlocksUp
  <1>2. ~SameBlock(e, c, NEAR)
    BY <1>1, Sizes
  <1> DEFINE C(i) == /\ i = 3 \/ SameBlock(e, c, Size[i + 1])
                     /\ \A j \in 0..i - 1 : ~SameBlock(e, c, Size[j + 1])
  <1>3. C(l)
    <2>1. \A j \in 0..l - 1 : j + 1 \in 0..4 /\ j + 1 <= l
      OBVIOUS
    <2> QED BY <1>1, <2>1
  <1>4. ASSUME NEW i \in 0..3, C(i) PROVE i = l
    <2>1. CASE i < l
      <3>1. i # 3 /\ i + 1 \in 0..4 /\ i + 1 <= l
        BY <2>1
      <3> QED BY <3>1, <1>1, <1>4
    <2>2. CASE l < i
      <3>1. l \in 0..i - 1
        BY <2>2
      <3> QED BY <3>1, <1>4
    <2> QED BY <2>1, <2>2
  <1>5. LevelOf(e, c) = CHOOSE i \in 0..3 : C(i)
    BY DEF LevelOf
  <1> HIDE DEF C
  <1>6. LevelOf(e, c) = l
    BY <1>3, <1>4, <1>5
  <1> QED BY <1>2, <1>6 DEF PlaceOf, Slot, Digit

\* A timer is in the near wheel or on one of the levels.
LEMMA PlaceCases ==
    ASSUME NEW e \in 0..Wrap - 1, NEW c \in 0..Wrap - 1
    PROVE  \/ SameBlock(e, c, Size[0]) /\ PlaceOf(e, c) = <<-1, e % NEAR>>
           \/ \E l \in 0..3 : /\ SameBlock(e, c, Size[l + 1]) /\ ~SameBlock(e, c, Size[l])
                               /\ PlaceOf(e, c) = Slot(e, l)
  <1> DEFINE P(l) == SameBlock(e, c, Size[l])
  <1>1. CASE P(0)
    BY <1>1, Sizes DEF PlaceOf
  <1>2. CASE ~P(0)
    <2>1. P(4)
      BY OneTopBlock
    <2>2. \E l \in 0..3 : P(l + 1) /\ ~P(l)
      <3> HIDE DEF P
      <3>1. 0 \in 0..3 /\ 1 \in 0..3 /\ 2 \in 0..3 /\ 3 \in 0..3
        OBVIOUS
      <3>2. 0 + 1 = 1 /\ 1 + 1 = 2 /\ 2 + 1 = 3 /\ 3 + 1 = 4
        OBVIOUS
      <3> QED BY <1>2, <2>1, <3>1, <3>2
    <2> QED BY <2>2, PlaceIs
  <1> QED BY <1>1, <1>2

\* The wheel has the place of every timer.
LEMMA PlaceType ==
    ASSUME NEW e \in 0..Wrap - 1, NEW c \in 0..Wrap - 1
    PROVE  PlaceOf(e, c) \in Places
  <1>0. e \in Nat
    BY Sizes
  <1>1. e % NEAR \in 0..NEAR - 1
    BY <1>0, Sizes, DivMod
  <1>2. \A l \in 0..3 : Digit(e, l) \in 0..LEVEL - 1
    <2> SUFFICES ASSUME NEW l \in 0..3 PROVE Digit(e, l) \in 0..LEVEL - 1
      OBVIOUS
    <2>0. Size[l] \in Nat \ {0}
      BY Sizes
    <2>1. e \div Size[l] \in Nat
      BY <1>0, <2>0, DivMod
    <2> QED BY <2>1, Sizes, DivMod DEF Digit
  <1> QED BY <1>1, <1>2, PlaceCases DEF Slot, Places

\* A timer of the list of this tick expires now.
LEMMA PlaceNow ==
    ASSUME NEW e \in 0..Wrap - 1, NEW c \in 0..Wrap - 1
    PROVE  PlaceOf(e, c) = <<-1, c % NEAR>> <=> e = c
  <1>0. e \in Nat /\ c \in Nat /\ NEAR \in Nat \ {0} /\ Size[0] = NEAR
    BY Sizes
  <1>1. ASSUME PlaceOf(e, c) = <<-1, c % NEAR>> PROVE e = c
    <2>1. \A l \in 0..3 : Slot(e, l) # <<-1, c % NEAR>>
      BY DEF Slot
    <2>2. SameBlock(e, c, NEAR) /\ <<-1, e % NEAR>> = <<-1, c % NEAR>>
      BY <2>1, <1>1, <1>0, PlaceCases
    <2>3. e \div NEAR = c \div NEAR /\ e % NEAR = c % NEAR
      BY <2>2 DEF SameBlock
    <2>4. e = NEAR * (e \div NEAR) + (e % NEAR) /\ c = NEAR * (c \div NEAR) + (c % NEAR)
      BY <1>0, DivMod
    <2> QED BY <2>3, <2>4
  <1>2. ASSUME e = c PROVE PlaceOf(e, c) = <<-1, c % NEAR>>
    BY <1>2 DEF PlaceOf, SameBlock
  <1> QED BY <1>1, <1>2

-----------------------------------------------------------------------------
(* A tick *)

\* The next time
Succ(c) == (c + 1) % Wrap

\* It wraps around.
LEMMA SuccIs ==
    ASSUME NEW c \in 0..Wrap - 1
    PROVE  /\ Succ(c) \in 0..Wrap - 1
           /\ Succ(c) = IF c = Wrap - 1 THEN 0 ELSE c + 1
  <1>0. Wrap \in Nat \ {0}
    BY Sizes
  <1>1. Wrap >= 2
    <2>1. 2 * Size[3] <= Wrap /\ Size[3] \in Nat \ {0}
      BY Sizes, SizesBelow
    <2> QED BY <2>1, <1>0
  <1>2. Succ(c) = IF c + 1 < Wrap THEN c + 1 ELSE c + 1 - Wrap
    <2>1. 1 \in 0..Wrap - 1
      BY <1>0, <1>1
    <2> QED BY <1>0, <2>1, ModSum DEF Succ
  <1> QED BY <1>0, <1>1, <1>2

\* A timer that ends in d ticks and expires at e
Ahead(e, c, d) == d \in 1..MaxTime /\ e = (c + d) % Wrap

\* The longest timeout is less than half of the time.
LEMMA HalfWrap == MaxTime \in Nat /\ 2 * MaxTime < Wrap
  <1>0. Wrap \in Nat \ {0}
    BY Sizes
  <1>1. Wrap \div 2 \in Nat /\ Wrap % 2 \in 0..1 /\ Wrap = 2 * (Wrap \div 2) + (Wrap % 2)
    BY <1>0
  <1>2. MaxTime \in 1..(Wrap \div 2) - 1
    BY WheelAssumption
  <1> DEFINE h == Wrap \div 2
             r == Wrap % 2
  <1>3. h \in Nat /\ r \in 0..1 /\ Wrap = 2 * h + r /\ MaxTime \in 1..h - 1
    BY <1>1, <1>2
  <1> HIDE DEF h, r
  <1> QED BY <1>3, <1>0

\* Where a timer stands after one more tick
LEMMA AheadNext ==
    ASSUME NEW c \in 0..Wrap - 1, NEW d \in 0..MaxTime, NEW e, e = (c + d) % Wrap
    PROVE  /\ e \in 0..Wrap - 1
           /\ e = IF c + d < Wrap THEN c + d ELSE c + d - Wrap
           /\ d > 0 => e = (Succ(c) + (d - 1)) % Wrap
           /\ e = c <=> d = 0
  <1>0. Wrap \in Nat \ {0} /\ MaxTime \in Nat /\ 2 * MaxTime < Wrap
    BY Sizes, HalfWrap
  <1>1. d \in 0..Wrap - 1
    BY <1>0
  <1>2. e = IF c + d < Wrap THEN c + d ELSE c + d - Wrap
    BY <1>0, <1>1, ModSum
  <1>3. ASSUME d > 0 PROVE e = (Succ(c) + (d - 1)) % Wrap
    <2>1. d - 1 \in 0..Wrap - 1
      BY <1>0, <1>3
    <2>2. Succ(c) \in 0..Wrap - 1 /\ Succ(c) = IF c = Wrap - 1 THEN 0 ELSE c + 1
      BY SuccIs
    <2> DEFINE s == Succ(c)
    <2> HIDE DEF s
    <2>3. s \in 0..Wrap - 1 /\ s = IF c = Wrap - 1 THEN 0 ELSE c + 1
      BY <2>2 DEF s
    <2>4. (s + (d - 1)) % Wrap = IF s + (d - 1) < Wrap THEN s + (d - 1) ELSE s + (d - 1) - Wrap
      BY <2>1, <2>3, <1>0, ModSum
    <2>5. e = (s + (d - 1)) % Wrap
      BY <2>4, <2>3, <1>2, <1>0
    <2> QED BY <2>5 DEF s
  <1> QED BY <1>0, <1>2, <1>3

\* A timer is never in the block that ends with this tick: it would have to
\* be behind.
LEMMA NotBehind ==
    ASSUME NEW c \in 0..Wrap - 1, NEW d, NEW e, Ahead(e, c, d),
           NEW l \in 0..3, c % Size[l] = Size[l] - 1
    PROVE  ~SameBlock(e, c, Size[l])
  <1> DEFINE b == Size[l]
             x == e \div b
             y == c \div b
             r == e % b
  <1>0. Wrap \in Nat \ {0} /\ MaxTime \in Nat /\ 2 * MaxTime < Wrap /\ d \in 1..MaxTime
    BY Sizes, HalfWrap DEF Ahead
  <1>1. b \in Nat \ {0} /\ 2 * b <= Wrap
    <2>1. Size[3] \in Nat /\ 2 * Size[3] <= Wrap /\ b <= Size[3] /\ b \in Nat \ {0}
      BY Sizes, SizesBelow
    <2> QED BY <2>1, <1>0
  <1>2. e \in 0..Wrap - 1 /\ (e = IF c + d < Wrap THEN c + d ELSE c + d - Wrap)
    <2>1. d \in 0..MaxTime /\ e = (c + d) % Wrap
      BY <1>0 DEF Ahead
    <2> QED BY <2>1, AheadNext
  <1>3. e \in Nat /\ c \in Nat
    BY <1>0, <1>2
  <1>4. r \in 0..b - 1 /\ e = b * x + r /\ c = b * y + (b - 1) /\ x \in Nat /\ y \in Nat
    BY <1>1, <1>3, DivMod
  <1>5. SUFFICES ASSUME x = y PROVE FALSE
    BY DEF SameBlock
  <1> HIDE DEF b, x, y, r
  <1>6. c - e = b - 1 - r
    BY <1>1, <1>3, <1>4, <1>5
  <1> QED BY <1>0, <1>1, <1>2, <1>3, <1>4, <1>6

\* In a tick that begins no block of t[0], no timer changes its place.
LEMMA StillInPlace ==
    ASSUME NEW c \in 0..Wrap - 1, NEW e \in 0..Wrap - 1, BeginsBlock(Succ(c)) = {}
    PROVE  PlaceOf(e, Succ(c)) = PlaceOf(e, c)
  <1> DEFINE ct == Succ(c)
  <1>0. e \in Nat /\ c \in Nat /\ ct \in Nat /\ ct \in 0..Wrap - 1 /\ 3 \in {3}
    BY Sizes, SuccIs
  <1>1. ct # 0 /\ ct = c + 1
    BY SuccIs, <1>0 DEF BeginsBlock
  <1>2. \A l \in 0..3 : ~(ct % Size[l] = 0 /\ Digit(ct, l) # 0)
    BY <1>1 DEF BeginsBlock, Digit
  <1> SUFFICES PlaceOf(e, ct) = PlaceOf(e, c)
    OBVIOUS
  <1> HIDE DEF ct
  <1>3. ASSUME NEW l \in 0..3, ct % Size[l] = 0 PROVE ct % Size[l + 1] = 0
    <2> DEFINE b == Size[l]
               x == ct \div b
    <2>0. b \in Nat \ {0} /\ LEVEL \in Nat \ {0} /\ Size[l + 1] = LEVEL * b
      BY Sizes
    <2>1. x \in Nat /\ ct = b * x + 0
      BY <2>0, <1>0, <1>3, DivMod
    <2>2. x % LEVEL = 0
      BY <1>2, <1>3 DEF Digit
    <2> HIDE DEF b, x
    <2>3. x \div LEVEL \in Nat /\ x = LEVEL * (x \div LEVEL) + 0
      BY <2>0, <2>1, <2>2, DivMod
    <2> DEFINE q == x \div LEVEL
    <2>4. q \in Nat /\ x = LEVEL * q
      BY <2>3, <2>0
    <2> HIDE DEF q
    <2>5. ct = (LEVEL * b) * q + 0
      BY <2>1, <2>4, <2>0
    <2>6. LEVEL * b \in Nat \ {0} /\ 0 \in 0..(LEVEL * b) - 1
      BY <2>0
    <2>7. ct % (LEVEL * b) = 0
      BY <2>5, <2>6, <2>4, <1>0, DivUnique
    <2> QED BY <2>7, <2>0
  <1> DEFINE Z(l) == ct % Size[l] = 0
  <1>4. ~Z(0) /\ ~Z(1) /\ ~Z(2) /\ ~Z(3) /\ ~Z(4)
    <2>1. \A l \in 0..3 : Z(l) => Z(l + 1)
      BY <1>3
    <2>2. ~Z(4)
      <3>1. Wrap \in Nat \ {0} /\ ct = Wrap * 0 + ct
        BY Sizes, <1>0
      <3>2. ct % Wrap = ct
        BY <3>1, <1>0, DivUnique
      <3> QED BY <3>2, <1>1 DEF Wrap
    <2> HIDE DEF Z
    <2>3. 0 \in 0..3 /\ 1 \in 0..3 /\ 2 \in 0..3 /\ 3 \in 0..3
      OBVIOUS
    <2>4. 0 + 1 = 1 /\ 1 + 1 = 2 /\ 2 + 1 = 3 /\ 3 + 1 = 4
      OBVIOUS
    <2> QED BY <2>1, <2>2, <2>3, <2>4
  <1>5. ASSUME NEW l \in 0..4 PROVE SameBlock(e, ct, Size[l]) <=> SameBlock(e, c, Size[l])
    <2>1. l \in {0, 1, 2, 3, 4}
      OBVIOUS
    <2>2. (c + 1) % Size[l] # 0 /\ Size[l] \in Nat \ {0}
      BY <1>1, <1>4, <2>1, Sizes
    <2>3. ct \div Size[l] = c \div Size[l]
      BY <1>0, <1>1, <2>2, DivNext
    <2> QED BY <2>3 DEF SameBlock
  <1>6. CASE SameBlock(e, c, Size[0])
    <2>1. SameBlock(e, ct, Size[0]) /\ Size[0] = NEAR
      BY <1>5, <1>6, Sizes
    <2> QED BY <2>1, <1>6 DEF PlaceOf
  <1>7. CASE ~SameBlock(e, c, Size[0])
    <2>1. PICK l \in 0..3 : /\ SameBlock(e, c, Size[l + 1]) /\ ~SameBlock(e, c, Size[l])
                            /\ PlaceOf(e, c) = Slot(e, l)
      BY <1>7, PlaceCases
    <2>2. l + 1 \in 0..4 /\ l \in 0..4
      OBVIOUS
    <2>3. SameBlock(e, ct, Size[l + 1]) /\ ~SameBlock(e, ct, Size[l])
      BY <2>1, <2>2, <1>5
    <2>4. PlaceOf(e, ct) = Slot(e, l)
      BY <2>3, <1>0, PlaceIs
    <2> QED BY <2>1, <2>4
  <1> QED BY <1>6, <1>7

\* In a tick that begins a block of level l, only the timers of the slot that
\* begins change their places.
LEMMA OthersInPlace ==
    ASSUME NEW c \in 0..Wrap - 1, NEW d, NEW e, Ahead(e, c, d),
           NEW l \in BeginsBlock(Succ(c)), PlaceOf(e, c) # Slot(Succ(c), l)
    PROVE  PlaceOf(e, Succ(c)) = PlaceOf(e, c)
  <1> DEFINE ct == Succ(c)
  <1>0. e \in Nat /\ c \in Nat /\ ct \in Nat /\ ct \in 0..Wrap - 1 /\ e \in 0..Wrap - 1
    <2>1. d \in 0..MaxTime /\ e = (c + d) % Wrap
      BY HalfWrap DEF Ahead
    <2> QED BY <2>1, AheadNext, Sizes, SuccIs
  <1>1. l \in 0..3 /\ (IF ct = 0 THEN l = 3 ELSE ct % Size[l] = 0 /\ Digit(ct, l) # 0)
    BY DEF BeginsBlock, Digit
  <1>2. IF ct = 0 THEN c = Wrap - 1 ELSE ct = c + 1
    BY SuccIs, <1>0
  <1> SUFFICES PlaceOf(e, ct) = PlaceOf(e, c)
    OBVIOUS
  <1>c. PlaceOf(e, c) # Slot(ct, l)
    OBVIOUS
  <1> HIDE DEF ct
  <1>3. c % Size[l] = Size[l] - 1
    <2>1. CASE ct = 0
      <3>0. Size[3] \in Nat \ {0} /\ Size[4] = LEVEL * Size[3] /\ LEVEL \in Nat \ {0}
        <4>1. 3 + 1 = 4 /\ 3 \in 0..3
          OBVIOUS
        <4> QED BY Sizes, <4>1
      <3> DEFINE b == Size[3]
      <3>1. b \in Nat \ {0} /\ LEVEL \in Nat \ {0} /\ c = (LEVEL * b) - 1
        BY <3>0, <2>1, <1>2 DEF Wrap
      <3> HIDE DEF b
      <3>2. c = b * (LEVEL - 1) + (b - 1) /\ LEVEL - 1 \in Nat /\ b - 1 \in 0..b - 1
        BY <3>1
      <3>3. c % b = b - 1
        BY <3>1, <3>2, <1>0, DivUnique
      <3> QED BY <3>3, <1>1, <2>1 DEF b
    <2>2. CASE ct # 0
      <3>1. Size[l] \in Nat \ {0} /\ (c + 1) % Size[l] = 0
        BY <2>2, <1>1, <1>2, Sizes
      <3> QED BY <3>1, <1>0, DivNext
    <2> QED BY <2>1, <2>2
  <1>4. ~SameBlock(e, c, Size[l])
    BY <1>1, <1>3, NotBehind
  <1>5. ASSUME NEW j \in 0..4, l < j
        PROVE  SameBlock(e, ct, Size[j]) <=> SameBlock(e, c, Size[j])
    <2>1. CASE ct = 0
      <3>1. j = 4
        BY <2>1, <1>1, <1>5
      <3> QED BY <3>1, <1>0, OneTopBlock
    <2>2. CASE ct # 0
      <3> DEFINE Z(i) == ct % Size[i] = 0
      <3>1. \A i \in 0..3 : Z(i + 1) => Z(i) /\ Digit(ct, i) = 0
        <4> SUFFICES ASSUME NEW i \in 0..3, Z(i + 1) PROVE Z(i) /\ Digit(ct, i) = 0
          OBVIOUS
        <4>1. Size[i + 1] = LEVEL * Size[i] /\ Size[i] \in Nat \ {0} /\ LEVEL \in Nat \ {0}
          BY Sizes
        <4>2. ct % (LEVEL * Size[i]) = 0
          BY <4>1
        <4> QED BY <4>1, <4>2, <1>0, ModDown DEF Digit
      <3>2. Digit(ct, l) # 0
        BY <2>2, <1>1
      <3>3. ~Z(j)
        <4> HIDE DEF Z
        <4>1. 0 \in 0..3 /\ 1 \in 0..3 /\ 2 \in 0..3 /\ 3 \in 0..3
          OBVIOUS
        <4>2. 0 + 1 = 1 /\ 1 + 1 = 2 /\ 2 + 1 = 3 /\ 3 + 1 = 4
          OBVIOUS
        <4>3. /\ Z(1) => Z(0) /\ Digit(ct, 0) = 0
              /\ Z(2) => Z(1) /\ Digit(ct, 1) = 0
              /\ Z(3) => Z(2) /\ Digit(ct, 2) = 0
              /\ Z(4) => Z(3) /\ Digit(ct, 3) = 0
          BY <3>1, <4>1, <4>2
        <4>4. l \in {0, 1, 2, 3} /\ j \in {0, 1, 2, 3, 4}
          BY <1>1
        <4> QED BY <4>3, <4>4, <3>2, <1>5
      <3>4. Size[j] \in Nat \ {0} /\ (c + 1) % Size[j] # 0
        BY <3>3, <2>2, <1>2, Sizes
      <3>5. (c + 1) \div Size[j] = c \div Size[j]
        BY <3>4, <1>0, DivNext
      <3> QED BY <3>5, <2>2, <1>2 DEF SameBlock
    <2> QED BY <2>1, <2>2
  <1>6. ~SameBlock(e, c, Size[0])
    BY <1>0, <1>1, <1>4, BlocksUp
  <1>7. PICK i \in 0..3 : /\ SameBlock(e, c, Size[i + 1]) /\ ~SameBlock(e, c, Size[i])
                          /\ PlaceOf(e, c) = Slot(e, i)
    BY <1>0, <1>6, PlaceCases
  <1>8. l <= i
    <2> SUFFICES ASSUME i < l PROVE FALSE
      BY <1>1
    <2>1. i + 1 \in 0..4 /\ l \in 0..4 /\ i + 1 <= l
      BY <1>1
    <2> QED BY <2>1, <1>0, <1>4, <1>7, BlocksUp
  <1>9. SameBlock(e, ct, Size[i + 1])
    <2>1. i + 1 \in 0..4 /\ l < i + 1
      BY <1>1, <1>8
    <2> QED BY <2>1, <1>5, <1>7
  <1>10. ~SameBlock(e, ct, Size[i])
    <2>1. CASE l < i
      <3>1. i \in 0..4
        OBVIOUS
      <3> QED BY <2>1, <3>1, <1>5, <1>7
    <2>2. CASE l = i
      <3>1. Digit(e, l) # Digit(ct, l)
        BY <1>c, <1>7, <2>2 DEF Slot
      <3> QED BY <3>1, <2>2, <1>0, Blocks
    <2> QED BY <2>1, <2>2, <1>1, <1>8
  <1>11. PlaceOf(e, ct) = Slot(e, i)
    BY <1>0, <1>9, <1>10, PlaceIs
  <1> QED BY <1>7, <1>11

-----------------------------------------------------------------------------
(* Lists of timers *)

\* Every set of numbers has a least one: induction over the timers of a list
\* is a search for the first one at which it fails.
LEMMA NatMin ==
    ASSUME NEW T, T \subseteq Nat, T # {}
    PROVE  \E x \in T : \A y \in T : x <= y
  <1> DEFINE R == OpToRel(<, Nat)
  <1>1. IsWellFoundedOn(R, Nat)
    BY NatLessThanWellFounded
  <1>2. \A x, y \in Nat : y < x => <<y, x>> \in R
    BY DEF OpToRel
  <1> HIDE DEF R
  <1>3. PICK x \in T : \A y \in T : ~(<<y, x>> \in R)
    BY <1>1, WFMin, Zenon
  <1>4. ASSUME NEW y \in T PROVE x <= y
    <2>1. y \in Nat /\ x \in Nat /\ ~(y < x)
      BY <1>2, <1>3
    <2> QED BY <2>1
  <1> QED BY <1>4

\* A timer at the end of a list
LEMMA RangeAppend ==
    ASSUME NEW s \in Seq(Timers), NEW n \in Timers
    PROVE  /\ Append(s, n) \in Seq(Timers)
           /\ Range(Append(s, n)) = Range(s) \cup {n}
           /\ DOMAIN Append(s, n) = DOMAIN s \cup {Len(s) + 1}
           /\ \A i \in DOMAIN s : Append(s, n)[i] = s[i] /\ i <= Len(s)
           /\ Append(s, n)[Len(s) + 1] = n
  <1>1. /\ Append(s, n) \in Seq(Timers) /\ Len(Append(s, n)) = Len(s) + 1
        /\ \A i \in 1..Len(s) : Append(s, n)[i] = s[i]
        /\ Append(s, n)[Len(s) + 1] = n
    OBVIOUS
  <1>2. DOMAIN s = 1..Len(s) /\ DOMAIN Append(s, n) = 1..Len(s) + 1 /\ Len(s) \in Nat
    BY <1>1
  <1>3. DOMAIN Append(s, n) = DOMAIN s \cup {Len(s) + 1}
    BY <1>2
  <1>4. Range(Append(s, n)) = Range(s) \cup {n}
    BY <1>1, <1>2, <1>3 DEF Range
  <1> QED BY <1>1, <1>2, <1>3, <1>4

\* The lists of w hold the timers of X, once each, in their places at the
\* time c, and those that expire together in the order in which they were
\* added.
WheelOK(w, X, ex, ea, c) ==
    /\ w \in [Places -> Seq(Timers)]
    /\ \A p \in Places : \A n \in Range(w[p]) : n \in X /\ p = PlaceOf(ex[n], c)
    /\ \A n \in X : n \in Range(w[PlaceOf(ex[n], c)])
    /\ \A p \in Places : \A i, j \in DOMAIN w[p] :
          i < j => /\ w[p][i] # w[p][j]
                   /\ ex[w[p][i]] = ex[w[p][j]] => w[p][i] \in ea[w[p][j]]

\* A timer is added after all that expire with it.
LEMMA AddNodeOK ==
    ASSUME NEW w, NEW X \in SUBSET Timers, NEW ex \in [Timers -> 0..Wrap - 1], NEW ea,
           NEW c \in 0..Wrap - 1, WheelOK(w, X, ex, ea, c),
           NEW n \in Timers \ X, \A m \in X : ex[m] = ex[n] => m \in ea[n]
    PROVE  WheelOK(AddNode(w, n, ex[n], c), X \cup {n}, ex, ea, c)
  <1> DEFINE q == PlaceOf(ex[n], c)
             v == AddNode(w, n, ex[n], c)
  <1>1. q \in Places
    BY PlaceType
  <1>2. w \in [Places -> Seq(Timers)]
    BY DEF WheelOK
  <1>3. v = [w EXCEPT ![q] = Append(w[q], n)]
    BY DEF AddNode
  <1> HIDE DEF q, v
  <1>4. w[q] \in Seq(Timers)
    BY <1>1, <1>2
  <1>5. v \in [Places -> Seq(Timers)]
    BY <1>1, <1>2, <1>3, <1>4, RangeAppend
  <1>6. v[q] = Append(w[q], n) /\ \A p \in Places : p # q => v[p] = w[p]
    BY <1>1, <1>2, <1>3
  <1>7. Range(v[q]) = Range(w[q]) \cup {n}
    BY <1>4, <1>6, RangeAppend
  <1>8. ASSUME NEW p \in Places, NEW m \in Range(v[p])
        PROVE  m \in X \cup {n} /\ p = PlaceOf(ex[m], c)
    <2>1. m \in Range(w[p]) \/ (m = n /\ p = q)
      BY <1>6, <1>7, <1>8
    <2> QED BY <2>1 DEF WheelOK, q
  <1>9. ASSUME NEW m \in X \cup {n}
        PROVE  m \in Range(v[PlaceOf(ex[m], c)])
    <2>1. CASE m = n
      BY <2>1, <1>7 DEF q
    <2>2. CASE m \in X
      <3>1. m \in Range(w[PlaceOf(ex[m], c)]) /\ PlaceOf(ex[m], c) \in Places
        BY <2>2, PlaceType DEF WheelOK
      <3> QED BY <3>1, <1>6, <1>7
    <2> QED BY <2>1, <2>2
  <1>10. ASSUME NEW p \in Places, NEW i \in DOMAIN v[p], NEW j \in DOMAIN v[p], i < j
         PROVE  /\ v[p][i] # v[p][j]
                /\ ex[v[p][i]] = ex[v[p][j]] => v[p][i] \in ea[v[p][j]]
    <2>1. CASE p # q
      BY <2>1, <1>6, <1>10 DEF WheelOK
    <2>2. CASE p = q
      <3> DEFINE s == w[q]
      <3>0. s \in Seq(Timers) /\ DOMAIN s = 1..Len(s) /\ Len(s) \in Nat
        BY <1>4
      <3>1. /\ DOMAIN v[p] = DOMAIN s \cup {Len(s) + 1}
            /\ \A k \in DOMAIN s : v[p][k] = s[k] /\ k <= Len(s)
            /\ v[p][Len(s) + 1] = n
        BY <2>2, <1>4, <1>6, RangeAppend
      <3>2. i \in DOMAIN s /\ v[p][i] = s[i]
        BY <3>0, <3>1, <1>10
      <3>3. s[i] \in X
        BY <3>2, <1>1 DEF WheelOK, Range
      <3>4. CASE j \in DOMAIN s
        BY <3>1, <3>2, <3>4, <1>1, <1>10 DEF WheelOK
      <3>5. CASE j = Len(s) + 1
        BY <3>1, <3>2, <3>3, <3>5
      <3> QED BY <3>1, <3>4, <3>5
    <2> QED BY <2>1, <2>2
  <1>11. WheelOK(v, X \cup {n}, ex, ea, c)
    BY <1>5, <1>8, <1>9, <1>10 DEF WheelOK
  <1> QED BY <1>11 DEF v

\* The timers of a list are added after all that expire with them.
LEMMA AddAllOK ==
    ASSUME NEW w, NEW X \in SUBSET Timers, NEW c \in 0..Wrap - 1,
           expire \in [Timers -> 0..Wrap - 1],
           WheelOK(w, X, expire, earlier, c),
           NEW list \in Seq(Timers),
           \A j \in DOMAIN list : list[j] \notin X /\ \A m \in X : expire[m] # expire[list[j]],
           \A i, j \in DOMAIN list :
              i < j => /\ list[i] # list[j]
                       /\ expire[list[i]] = expire[list[j]] => list[i] \in earlier[list[j]]
    PROVE  WheelOK(AddAll(w, list, c), X \cup Range(list), expire, earlier, c)
  <1> DEFINE L == Len(list)
             Step(v, k) == AddNode(v, list[k], expire[list[k]], c)
             Fold(F, m) == F = [k \in 0..m |-> IF k = 0 THEN w ELSE Step(F[k - 1], k)]
             A(k) == X \cup {list[i] : i \in 1..k}
             OK(v, k) == WheelOK(v, A(k), expire, earlier, c)
  <1>0. L \in Nat /\ DOMAIN list = 1..L
    OBVIOUS
  <1>1. AddAll(w, list, c) = (CHOOSE F : Fold(F, L))[L]
    BY DEF AddAll
  <1>2. OK(w, 0)
    <2>1. A(0) = X
      OBVIOUS
    <2> QED BY <2>1
  <1>3. ASSUME NEW k \in 1..L, NEW v, OK(v, k - 1) PROVE OK(Step(v, k), k)
    <2>1. k \in DOMAIN list /\ list[k] \in Timers /\ k - 1 \in Nat
      BY <1>0
    <2>2. A(k) = A(k - 1) \cup {list[k]} /\ A(k - 1) \in SUBSET Timers
      <3>1. 1..k = 1..(k - 1) \cup {k}
        BY <1>0
      <3>2. \A i \in 1..(k - 1) : i \in DOMAIN list
        BY <1>0
      <3>3. \A i \in 1..(k - 1) : list[i] \in Timers
        BY <3>2
      <3> QED BY <3>1, <3>3
    <2>3. ASSUME NEW m \in A(k - 1)
          PROVE  m # list[k] /\ (expire[m] = expire[list[k]] => m \in earlier[list[k]])
      <3>1. CASE m \in X
        BY <3>1, <2>1
      <3>2. CASE m \notin X
        <4>1. PICK i \in 1..(k - 1) : m = list[i]
          BY <3>2, <2>3
        <4>2. i \in DOMAIN list /\ i < k
          BY <1>0
        <4> QED BY <4>1, <4>2, <2>1
      <3> QED BY <3>1, <3>2
    <2>4. WheelOK(v, A(k - 1), expire, earlier, c)
      BY <1>3
    <2> HIDE DEF A
    <2>5. list[k] \in Timers \ A(k - 1)
      BY <2>1, <2>3
    <2>6. WheelOK(AddNode(v, list[k], expire[list[k]], c), A(k - 1) \cup {list[k]},
                  expire, earlier, c)
      BY <2>2, <2>3, <2>4, <2>5, AddNodeOK
    <2> QED BY <2>2, <2>6
  <1> HIDE DEF L, Step, OK
  <1>4. \A m \in Nat : \E F : Fold(F, m)
    <2> DEFINE T == {m \in Nat : ~\E F : Fold(F, m)}
    <2>1. SUFFICES ASSUME T # {} PROVE FALSE
      OBVIOUS
    <2>2. PICK x \in T : \A y \in T : x <= y
      <3>1. T \subseteq Nat
        OBVIOUS
      <3> HIDE DEF T
      <3> QED BY <2>1, <3>1, NatMin
    <2>3. x # 0
      <3>1. Fold([k \in 0..0 |-> w], 0)
        OBVIOUS
      <3> QED BY <3>1
    <2>4. x \in Nat /\ x - 1 \in Nat /\ x - 1 \notin T
      BY <2>2, <2>3
    <2>5. PICK F : Fold(F, x - 1)
      BY <2>4
    <2> DEFINE G == [k \in 0..x |-> IF k = 0 THEN w ELSE Step(F[k - 1], k)]
    <2>6. \A k \in 0..x - 1 : G[k] = F[k]
      BY <2>4, <2>5
    <2>7. \A k \in 0..x : k # 0 => k - 1 \in 0..x - 1
      BY <2>4
    <2>8. G = [k \in 0..x |-> IF k = 0 THEN w ELSE Step(G[k - 1], k)]
      <3> HIDE DEF Fold
      <3> QED BY <2>6, <2>7
    <2>9. Fold(G, x)
      BY <2>8
    <2> QED BY <2>2, <2>9
  <1>5. PICK H : Fold(H, L) /\ AddAll(w, list, c) = H[L]
    <2> HIDE DEF Fold
    <2> QED BY <1>0, <1>1, <1>4
  <1>6. \A k \in 0..L : OK(H[k], k)
    <2> DEFINE T == {k \in 0..L : ~OK(H[k], k)}
    <2>1. SUFFICES ASSUME T # {} PROVE FALSE
      OBVIOUS
    <2>2. PICK x \in T : \A y \in T : x <= y
      <3>1. T \subseteq Nat
        BY <1>0
      <3> HIDE DEF T
      <3> QED BY <2>1, <3>1, NatMin
    <2>3. H[0] = w /\ \A k \in 1..L : H[k] = Step(H[k - 1], k)
      BY <1>0, <1>5
    <2>4. x \in 1..L /\ x - 1 \in 0..L /\ x - 1 \notin T
      BY <1>0, <1>2, <2>2, <2>3
    <2> QED BY <1>3, <2>2, <2>3, <2>4
  <1>7. OK(AddAll(w, list, c), L)
    BY <1>0, <1>5, <1>6
  <1>8. A(L) = X \cup Range(list)
    BY <1>0 DEF Range
  <1> QED BY <1>7, <1>8 DEF OK

-----------------------------------------------------------------------------
(* The inductive invariant *)

\* The pending timers that are in the wheel
InWheel == pending \ Range(firing)

\* The thread has a list in its hands while it dispatches, and a tick to make
\* while it is in timer_update.
ThreadInv ==
    /\ firing # <<>> <=> pc \in {"disp1", "disp2"}
    /\ pc # "idle" => diff > 0

\* The list in its hands is one of pending timers, in the order in which they
\* were added.
FiringInv ==
    /\ Range(firing) \subseteq pending
    /\ \A n \in Range(firing) : due[n] = 0
    /\ \A i, j \in DOMAIN firing :
          i < j => firing[i] # firing[j] /\ firing[i] \in earlier[firing[j]]

\* expire is the end of the timeout on the wheel's clock, and only after a tick
\* are there timers in the wheel whose timeout has ended.
DueInv ==
    /\ \A n \in pending : expire[n] = (time + due[n]) % Wrap
    /\ \A n \in InWheel : due[n] > 0 \/ pc = "exec2"

PlaceInv == WheelOK(wheel, InWheel, expire, earlier, time)

WheelInv == TypeOK /\ ThreadInv /\ FiringInv /\ DueInv /\ PlaceInv

\* An empty wheel is in order.
LEMMA InvInit == Init => WheelInv
  <1> SUFFICES ASSUME Init PROVE WheelInv
    OBVIOUS
  <1> USE DEF Init
  <1>1. TypeOK
    <2>1. Wrap \in Nat \ {0} /\ MaxTime \in Nat /\ MaxLag \in Nat
      BY Sizes, HalfWrap, WheelAssumption
    <2>2. <<>> \in Seq(Timers) /\ 0 \in 0..Wrap - 1 /\ 0 \in 0..MaxLag /\ 0 \in 0..MaxTime
      BY <2>1
    <2> QED BY <2>2 DEF TypeOK
  <1>2. Range(firing) = {} /\ InWheel = {}
    BY DEF Range, InWheel
  <1>3. ThreadInv
    BY DEF ThreadInv
  <1>4. FiringInv /\ DueInv
    BY <1>2 DEF FiringInv, DueInv
  <1>5. PlaceInv
    BY <1>2 DEF PlaceInv, WheelOK, Range
  <1> QED BY <1>1, <1>3, <1>4, <1>5 DEF WheelInv

\* The list of this tick is the place of the timers that expire now.
LEMMA NowPlace == ASSUME TypeOK PROVE Now \in Places /\ Now = PlaceOf(time, time)
  <1>1. time \in 0..Wrap - 1
    BY DEF TypeOK
  <1>2. Now = PlaceOf(time, time)
    BY <1>1, PlaceNow DEF Now
  <1>3. PlaceOf(time, time) \in Places
    BY <1>1, PlaceType
  <1> QED BY <1>2, <1>3

\* timer_add keeps the invariant.
LEMMA TimeoutInv ==
    ASSUME WheelInv, NEW n \in Timers, NEW d \in 1..MaxTime, Timeout(n, d)
    PROVE  WheelInv'
  <1> DEFINE e == (time + d) % Wrap
  <1>0. TypeOK /\ ThreadInv /\ FiringInv /\ DueInv /\ PlaceInv
    BY DEF WheelInv
  <1>1. /\ n \notin pending
        /\ expire' = [expire EXCEPT ![n] = e]
        /\ wheel' = AddNode(wheel, n, e, time)
        /\ pending' = pending \cup {n}
        /\ due' = [due EXCEPT ![n] = d]
        /\ earlier' = [earlier EXCEPT ![n] = pending]
        /\ UNCHANGED <<time, firing, pc, diff>>
    BY DEF Timeout
  <1>2. d \in 0..MaxTime /\ time \in 0..Wrap - 1
    BY <1>0, HalfWrap DEF TypeOK
  <1>3. e \in 0..Wrap - 1
    BY <1>2, AheadNext
  <1> HIDE DEF e
  <1>4. expire' \in [Timers -> 0..Wrap - 1] /\ expire'[n] = e /\ \A m \in Timers \ {n} : expire'[m] = expire[m]
    BY <1>0, <1>1, <1>3 DEF TypeOK
  <1>5. due' \in [Timers -> 0..MaxTime] /\ due'[n] = d /\ \A m \in Timers \ {n} : due'[m] = due[m]
    BY <1>0, <1>1, <1>2 DEF TypeOK
  <1>6. /\ earlier' \in [Timers -> SUBSET Timers] /\ earlier'[n] = pending
        /\ \A m \in Timers \ {n} : earlier'[m] = earlier[m]
    BY <1>0, <1>1 DEF TypeOK
  <1>7. pending \subseteq Timers /\ InWheel \subseteq pending /\ InWheel' = InWheel \cup {n}
    BY <1>0, <1>1 DEF TypeOK, InWheel, FiringInv
  <1>8. WheelOK(wheel, InWheel, expire', earlier', time)
    <2>0. wheel \in [Places -> Seq(Timers)]
      BY <1>0 DEF TypeOK
    <2>1. \A m \in InWheel : expire'[m] = expire[m] /\ earlier'[m] = earlier[m]
      BY <1>1, <1>4, <1>6, <1>7
    <2>2. \A p \in Places : \A m \in Range(wheel[p]) : m \in InWheel
      BY <1>0 DEF PlaceInv, WheelOK
    <2>3. \A p \in Places : \A i \in DOMAIN wheel[p] : wheel[p][i] \in InWheel
      BY <2>2 DEF Range
    <2>4. ASSUME NEW p \in Places, NEW m \in Range(wheel[p])
          PROVE  m \in InWheel /\ p = PlaceOf(expire'[m], time)
      BY <2>1, <2>2, <1>0 DEF PlaceInv, WheelOK
    <2>5. ASSUME NEW m \in InWheel
          PROVE  m \in Range(wheel[PlaceOf(expire'[m], time)])
      BY <2>1, <1>0 DEF PlaceInv, WheelOK
    <2>6. ASSUME NEW p \in Places, NEW i \in DOMAIN wheel[p], NEW j \in DOMAIN wheel[p], i < j
          PROVE  /\ wheel[p][i] # wheel[p][j]
                 /\ expire'[wheel[p][i]] = expire'[wheel[p][j]]
                        => wheel[p][i] \in earlier'[wheel[p][j]]
      BY <2>1, <2>3, <2>6, <1>0 DEF PlaceInv, WheelOK
    <2> QED BY <2>0, <2>4, <2>5, <2>6 DEF WheelOK
  <1>9. PlaceInv'
    <2>1. WheelOK(AddNode(wheel, n, expire'[n], time), InWheel \cup {n}, expire', earlier', time)
      <3> DEFINE ex == expire'
                 ea == earlier'
      <3>1. /\ ex \in [Timers -> 0..Wrap - 1] /\ WheelOK(wheel, InWheel, ex, ea, time)
            /\ InWheel \in SUBSET Timers /\ n \in Timers \ InWheel
            /\ \A m \in InWheel : m \in ea[n]
        BY <1>1, <1>4, <1>6, <1>7, <1>8
      <3> HIDE DEF ex, ea
      <3>2. WheelOK(AddNode(wheel, n, ex[n], time), InWheel \cup {n}, ex, ea, time)
        BY <3>1, <1>2, AddNodeOK
      <3> QED BY <3>2 DEF ex, ea
    <2> QED BY <2>1, <1>1, <1>4, <1>7 DEF PlaceInv
  <1>10. TypeOK'
    BY <1>0, <1>1, <1>4, <1>5, <1>6, <1>9 DEF TypeOK, PlaceInv, WheelOK
  <1>11. ThreadInv'
    BY <1>0, <1>1 DEF ThreadInv
  <1>12. FiringInv'
    <2>1. \A m \in Range(firing) : m \in Timers \ {n}
      BY <1>0, <1>1, <1>7 DEF FiringInv
    <2>2. \A i \in DOMAIN firing : firing[i] \in Timers \ {n}
      BY <2>1 DEF Range
    <2> QED BY <2>1, <2>2, <1>0, <1>1, <1>5, <1>6 DEF FiringInv
  <1>13. DueInv'
    <2>1. ASSUME NEW m \in pending' PROVE expire'[m] = (time' + due'[m]) % Wrap
      <3>1. CASE m = n
        BY <3>1, <1>1, <1>4, <1>5 DEF e
      <3>2. CASE m # n
        BY <3>2, <1>0, <1>1, <1>4, <1>5, <1>7 DEF DueInv
      <3> QED BY <3>1, <3>2
    <2>2. ASSUME NEW m \in InWheel' PROVE due'[m] > 0 \/ pc' = "exec2"
      BY <1>0, <1>1, <1>5, <1>7 DEF DueInv
    <2> QED BY <2>1, <2>2 DEF DueInv
  <1> QED BY <1>9, <1>10, <1>11, <1>12, <1>13 DEF WheelInv

\* timer_execute keeps the invariant: the list of this tick has the timers
\* whose timeout has ended, and no others.
LEMMA ExecuteInv == ASSUME WheelInv, Execute PROVE WheelInv'
  <1>0. TypeOK /\ ThreadInv /\ FiringInv /\ DueInv /\ PlaceInv
    BY DEF WheelInv
  <1>1. pc \in {"exec1", "exec2"} /\ UNCHANGED <<time, expire, pending, due, earlier>>
    BY DEF Execute
  <1>2. firing = <<>> /\ Range(firing) = {} /\ InWheel = pending
    BY <1>0, <1>1 DEF ThreadInv, Range, InWheel
  <1>3. /\ time \in 0..Wrap - 1 /\ pending \subseteq Timers /\ due \in [Timers -> 0..MaxTime]
        /\ expire \in [Timers -> 0..Wrap - 1] /\ wheel \in [Places -> Seq(Timers)]
    BY <1>0 DEF TypeOK
  <1>4. \A n \in pending : expire[n] = time <=> due[n] = 0
    BY <1>0, <1>3, AheadNext DEF DueInv
  <1>5. Now \in Places /\ Now = PlaceOf(time, time)
    BY <1>0, NowPlace
  <1>6. \A n \in pending : n \in Range(wheel[Now]) <=> due[n] = 0
    <2> SUFFICES ASSUME NEW n \in pending PROVE n \in Range(wheel[Now]) <=> due[n] = 0
      OBVIOUS
    <2>1. n \in Range(wheel[Now]) <=> PlaceOf(expire[n], time) = Now
      BY <1>0, <1>2, <1>5 DEF PlaceInv, WheelOK
    <2>2. PlaceOf(expire[n], time) = Now <=> expire[n] = time
      BY <1>3, PlaceNow DEF Now
    <2> QED BY <2>1, <2>2, <1>4
  <1>7. Range(wheel[Now]) \subseteq pending
    BY <1>0, <1>2, <1>5 DEF PlaceInv, WheelOK
  <1>8. CASE wheel[Now] # <<>>
    <2>1. /\ firing' = wheel[Now] /\ wheel' = [wheel EXCEPT ![Now] = <<>>]
          /\ pc' = (IF pc = "exec1" THEN "disp1" ELSE "disp2") /\ diff' = diff
      BY <1>8 DEF Execute
    <2>2. firing' \in Seq(Timers) /\ wheel' \in [Places -> Seq(Timers)]
      BY <2>1, <1>3, <1>5
    <2>3. TypeOK'
      BY <2>1, <2>2, <1>0, <1>1 DEF TypeOK
    <2>4. ThreadInv'
      BY <2>1, <1>0, <1>1, <1>8 DEF ThreadInv
    <2>5. wheel[Now] \in Seq(Timers)
      BY <1>3, <1>5
    <2>6. FiringInv'
      <3>1. Range(firing') \subseteq pending' /\ \A n \in Range(firing') : due'[n] = 0
        BY <2>1, <1>1, <1>6, <1>7
      <3>2. ASSUME NEW i \in DOMAIN firing', NEW j \in DOMAIN firing', i < j
            PROVE  firing'[i] # firing'[j] /\ firing'[i] \in earlier'[firing'[j]]
        <4>1. firing'[i] \in Range(firing') /\ firing'[j] \in Range(firing')
          BY DEF Range
        <4>2. expire[firing'[i]] = time /\ expire[firing'[j]] = time
          BY <4>1, <3>1, <1>1, <1>4
        <4> QED BY <4>2, <3>2, <2>1, <1>0, <1>1, <1>5 DEF PlaceInv, WheelOK
      <3> QED BY <3>1, <3>2 DEF FiringInv
    <2>7. InWheel' = pending \ Range(wheel[Now])
      BY <2>1, <1>1 DEF InWheel
    <2>8. DueInv'
      <3>1. \A n \in InWheel' : due[n] > 0
        BY <2>7, <1>3, <1>6
      <3> QED BY <3>1, <1>0, <1>1 DEF DueInv
    <2>9. PlaceInv'
      <3>1. wheel'[Now] = <<>> /\ \A p \in Places : p # Now => wheel'[p] = wheel[p]
        BY <2>1, <1>3, <1>5
      <3>2. Range(wheel'[Now]) = {} /\ DOMAIN wheel'[Now] = {}
        BY <3>1 DEF Range
      <3>3. ASSUME NEW p \in Places, NEW n \in Range(wheel'[p])
            PROVE  n \in InWheel' /\ p = PlaceOf(expire'[n], time')
        <4>1. p # Now /\ n \in Range(wheel[p])
          BY <3>1, <3>2, <3>3
        <4>2. n \in pending /\ p = PlaceOf(expire[n], time)
          BY <4>1, <1>0, <1>2 DEF PlaceInv, WheelOK
        <4>3. n \notin Range(wheel[Now])
          BY <4>1, <4>2, <1>0, <1>5 DEF PlaceInv, WheelOK
        <4> QED BY <4>2, <4>3, <2>7, <1>1
      <3>4. ASSUME NEW n \in InWheel'
            PROVE  n \in Range(wheel'[PlaceOf(expire'[n], time')])
        <4>1. n \in pending /\ n \notin Range(wheel[Now])
          BY <2>7
        <4>2. n \in Range(wheel[PlaceOf(expire[n], time)])
          BY <4>1, <1>0, <1>2 DEF PlaceInv, WheelOK
        <4>3. PlaceOf(expire[n], time) # Now /\ PlaceOf(expire[n], time) \in Places
          BY <4>1, <4>2, <1>3, PlaceType
        <4> QED BY <4>2, <4>3, <3>1, <1>1
      <3>5. ASSUME NEW p \in Places, NEW i \in DOMAIN wheel'[p], NEW j \in DOMAIN wheel'[p], i < j
            PROVE  /\ wheel'[p][i] # wheel'[p][j]
                   /\ expire'[wheel'[p][i]] = expire'[wheel'[p][j]]
                         => wheel'[p][i] \in earlier'[wheel'[p][j]]
        <4>1. p # Now /\ wheel'[p] = wheel[p]
          BY <3>1, <3>2, <3>5
        <4> QED BY <4>1, <3>5, <1>0, <1>1 DEF PlaceInv, WheelOK
      <3> QED BY <2>2, <3>3, <3>4, <3>5 DEF PlaceInv, WheelOK
    <2> QED BY <2>3, <2>4, <2>6, <2>8, <2>9 DEF WheelInv
  <1>9. CASE wheel[Now] = <<>>
    <2>1. /\ pc' = (IF pc = "exec1" THEN "shift" ELSE "idle")
          /\ diff' = (IF pc = "exec1" THEN diff ELSE diff - 1)
          /\ UNCHANGED <<firing, wheel>>
      BY <1>9 DEF Execute
    <2>2. diff \in 0..MaxLag /\ diff > 0 /\ MaxLag \in Nat
      BY <1>0, <1>1, WheelAssumption DEF TypeOK, ThreadInv
    <2>3. diff' \in 0..MaxLag
      BY <2>1, <2>2
    <2>4. TypeOK'
      BY <2>1, <2>3, <1>0, <1>1 DEF TypeOK
    <2>5. ThreadInv'
      BY <2>1, <2>2, <1>0, <1>1 DEF ThreadInv
    <2>6. FiringInv' /\ PlaceInv' /\ InWheel' = InWheel
      BY <2>1, <1>0, <1>1 DEF FiringInv, PlaceInv, InWheel
    <2>7. DueInv'
      <3>1. Range(wheel[Now]) = {}
        BY <1>9 DEF Range
      <3>2. \A n \in InWheel' : due'[n] > 0
        BY <3>1, <2>6, <1>1, <1>2, <1>3, <1>6
      <3> QED BY <3>2, <1>0, <1>1 DEF DueInv
    <2> QED BY <2>4, <2>5, <2>6, <2>7 DEF WheelInv
  <1> QED BY <1>8, <1>9

\* dispatch_list keeps the invariant.
LEMMA DispatchInv == ASSUME WheelInv, Dispatch PROVE WheelInv'
  <1> DEFINE h == Head(firing)
             rest == Tail(firing)
  <1>0. TypeOK /\ ThreadInv /\ FiringInv /\ DueInv /\ PlaceInv
    BY DEF WheelInv
  <1>1. /\ pc \in {"disp1", "disp2"} /\ firing' = rest
        /\ pending' = pending \ {h}
        /\ due' = [due EXCEPT ![h] = 0]
        /\ earlier' = [n \in Timers |-> IF n = h THEN {} ELSE earlier[n] \ {h}]
        /\ pc' = (IF Len(firing) > 1 THEN pc ELSE IF pc = "disp1" THEN "exec1" ELSE "exec2")
        /\ UNCHANGED <<time, wheel, expire, diff>>
    BY DEF Dispatch
  <1>2. firing \in Seq(Timers) /\ firing # <<>>
    BY <1>0, <1>1 DEF TypeOK, ThreadInv
  <1>3. /\ Len(firing) \in Nat \ {0} /\ DOMAIN firing = 1..Len(firing) /\ h = firing[1]
        /\ rest \in Seq(Timers) /\ Len(rest) = Len(firing) - 1
        /\ DOMAIN rest = 1..Len(firing) - 1
        /\ \A i \in 1..Len(firing) - 1 : rest[i] = firing[i + 1]
    BY <1>2
  <1> HIDE DEF h, rest
  <1>4. h \in Timers /\ h \in Range(firing)
    <2>1. 1 \in DOMAIN firing
      BY <1>3
    <2> QED BY <2>1, <1>2, <1>3 DEF Range
  <1>5. ASSUME NEW i \in DOMAIN rest
        PROVE  i + 1 \in DOMAIN firing /\ rest[i] = firing[i + 1] /\ rest[i] # h /\ rest[i] \in Range(firing)
    <2>1. i + 1 \in DOMAIN firing /\ rest[i] = firing[i + 1] /\ 1 \in DOMAIN firing /\ 1 < i + 1
      BY <1>3
    <2>2. firing[1] # firing[i + 1]
      BY <2>1, <1>0 DEF FiringInv
    <2> QED BY <2>1, <2>2, <1>3 DEF Range
  <1>6. Range(rest) = Range(firing) \ {h}
    <2>1. \A i \in DOMAIN firing : i = 1 \/ (i - 1 \in DOMAIN rest /\ rest[i - 1] = firing[i])
      BY <1>3
    <2>2. Range(firing) \ {h} \subseteq Range(rest)
      BY <2>1, <1>3 DEF Range
    <2>3. Range(rest) \subseteq Range(firing) \ {h}
      BY <1>5 DEF Range
    <2> QED BY <2>2, <2>3
  <1>7. InWheel' = InWheel /\ h \notin InWheel /\ InWheel \subseteq pending
    BY <1>1, <1>4, <1>6 DEF InWheel
  <1>8. \A n \in Timers \ {h} : due'[n] = due[n] /\ earlier'[n] = earlier[n] \ {h}
    BY <1>0, <1>1 DEF TypeOK
  <1>9. TypeOK'
    <2>1. 0 \in 0..MaxTime
      BY HalfWrap
    <2>2. due' \in [Timers -> 0..MaxTime]
      BY <2>1, <1>0, <1>1 DEF TypeOK
    <2>3. earlier' \in [Timers -> SUBSET Timers]
      BY <1>0, <1>1 DEF TypeOK
    <2> QED BY <2>2, <2>3, <1>0, <1>1, <1>3 DEF TypeOK
  <1>10. ThreadInv'
    <2>1. rest # <<>> <=> Len(firing) > 1
      BY <1>3
    <2> QED BY <2>1, <1>0, <1>1 DEF ThreadInv
  <1>11. pending \subseteq Timers
    BY <1>0 DEF TypeOK
  <1>12. FiringInv'
    <2>1. Range(firing') \subseteq pending' /\ \A n \in Range(firing') : due'[n] = 0
      BY <1>0, <1>1, <1>6, <1>8, <1>11 DEF FiringInv
    <2>2. ASSUME NEW i \in DOMAIN rest, NEW j \in DOMAIN rest, i < j
          PROVE  rest[i] # rest[j] /\ rest[i] \in earlier'[rest[j]]
      <3>1. i + 1 < j + 1
        BY <2>2, <1>3
      <3>2. rest[i] # rest[j] /\ rest[i] \in earlier[rest[j]]
        BY <3>1, <1>0, <1>5 DEF FiringInv
      <3>3. rest[j] \in Timers \ {h} /\ rest[i] # h
        BY <1>5, <1>3
      <3> QED BY <3>2, <3>3, <1>8
    <2> QED BY <2>1, <2>2, <1>1 DEF FiringInv
  <1>13. DueInv'
    <2>1. \A n \in pending' : expire'[n] = (time' + due'[n]) % Wrap
      BY <1>0, <1>1, <1>8, <1>11 DEF DueInv
    <2>2. ASSUME NEW n \in InWheel' PROVE due'[n] > 0
      BY <1>0, <1>1, <1>7, <1>8, <1>11 DEF DueInv
    <2> QED BY <2>1, <2>2 DEF DueInv
  <1>14. PlaceInv'
    <2>1. ASSUME NEW p \in Places, NEW i \in DOMAIN wheel[p], NEW j \in DOMAIN wheel[p], i < j,
                 expire[wheel[p][i]] = expire[wheel[p][j]]
          PROVE  wheel[p][i] \in earlier'[wheel[p][j]]
      <3>1. wheel[p][i] \in InWheel /\ wheel[p][j] \in InWheel
        BY <1>0 DEF PlaceInv, WheelOK, Range
      <3>2. wheel[p][i] \in earlier[wheel[p][j]]
        BY <2>1, <1>0 DEF PlaceInv, WheelOK
      <3> QED BY <3>1, <3>2, <1>7, <1>8, <1>11
    <2> DEFINE ea == earlier'
    <2> HIDE DEF ea
    <2>2. WheelOK(wheel, InWheel, expire, ea, time)
      <3>1. ASSUME NEW p \in Places, NEW i \in DOMAIN wheel[p], NEW j \in DOMAIN wheel[p], i < j
            PROVE  /\ wheel[p][i] # wheel[p][j]
                   /\ expire[wheel[p][i]] = expire[wheel[p][j]] => wheel[p][i] \in ea[wheel[p][j]]
        BY <2>1, <3>1, <1>0 DEF PlaceInv, WheelOK, ea
      <3> QED BY <3>1, <1>0 DEF PlaceInv, WheelOK
    <2> QED BY <2>2, <1>1, <1>7 DEF PlaceInv, ea
  <1> QED BY <1>9, <1>10, <1>12, <1>13, <1>14 DEF WheelInv

\* timer_shift keeps the invariant: after it moved the list of the block that
\* begins, every timer is in its place.
LEMMA ShiftInv == ASSUME WheelInv, Shift PROVE WheelInv'
  <1> DEFINE ct == Succ(time)
  <1>0. TypeOK /\ ThreadInv /\ FiringInv /\ DueInv /\ PlaceInv
    BY DEF WheelInv
  <1>1. /\ pc = "shift" /\ pc' = "exec2" /\ time' = ct
        /\ UNCHANGED <<expire, firing, diff, pending, earlier>>
        /\ due' = [n \in Timers |-> IF n \in pending THEN due[n] - 1 ELSE 0]
    BY DEF Shift, Ticked, Succ
  <1>2. \/ BeginsBlock(ct) = {} /\ wheel' = wheel
        \/ \E l \in BeginsBlock(ct) : wheel' = Moved(Slot(ct, l), ct)
    BY DEF Shift, Ticked, Succ, Slot, Digit
  <1>3. /\ time \in 0..Wrap - 1 /\ pending \subseteq Timers /\ due \in [Timers -> 0..MaxTime]
        /\ expire \in [Timers -> 0..Wrap - 1] /\ wheel \in [Places -> Seq(Timers)]
    BY <1>0 DEF TypeOK
  <1>4. ct \in 0..Wrap - 1
    BY <1>3, SuccIs
  <1>5. firing = <<>> /\ Range(firing) = {} /\ InWheel = pending /\ InWheel' = pending
    BY <1>0, <1>1 DEF ThreadInv, InWheel, Range
  <1>6. \A n \in pending : due[n] > 0 /\ Ahead(expire[n], time, due[n])
    <2>1. \A n \in pending : due[n] > 0
      BY <1>0, <1>1, <1>5 DEF DueInv
    <2>2. \A n \in pending : due[n] \in 1..MaxTime
      BY <2>1, <1>3, HalfWrap
    <2> QED BY <2>1, <2>2, <1>0 DEF DueInv, Ahead
  <1> HIDE DEF ct
  <1>7. PlaceInv'
    <2>1. CASE BeginsBlock(ct) = {} /\ wheel' = wheel
      <3>1. \A n \in pending : PlaceOf(expire[n], ct) = PlaceOf(expire[n], time)
        BY <2>1, <1>3, StillInPlace DEF ct
      <3>2. ASSUME NEW p \in Places, NEW n \in Range(wheel[p])
            PROVE  n \in pending /\ p = PlaceOf(expire[n], ct)
        BY <3>1, <1>0, <1>5 DEF PlaceInv, WheelOK
      <3>3. ASSUME NEW n \in pending PROVE n \in Range(wheel[PlaceOf(expire[n], ct)])
        BY <3>1, <1>0, <1>5 DEF PlaceInv, WheelOK
      <3>4. WheelOK(wheel, pending, expire, earlier, ct)
        BY <3>2, <3>3, <1>0 DEF PlaceInv, WheelOK
      <3> QED BY <3>4, <2>1, <1>1, <1>5 DEF PlaceInv
    <2>2. CASE \E l \in BeginsBlock(ct) : wheel' = Moved(Slot(ct, l), ct)
      <3>1. PICK l \in BeginsBlock(ct) : wheel' = Moved(Slot(ct, l), ct)
        BY <2>2
      <3> DEFINE q == Slot(ct, l)
                 list == wheel[q]
                 X == pending \ Range(list)
                 w == [wheel EXCEPT ![q] = <<>>]
      <3>2. q \in Places
        <4>1. l \in 0..3
          BY DEF BeginsBlock
        <4>2. ct \in Nat /\ Size[l] \in Nat \ {0} /\ LEVEL \in Nat \ {0}
          BY <4>1, <1>4, Sizes
        <4>3. ct \div Size[l] \in Nat
          BY <4>2, DivMod
        <4>4. Digit(ct, l) \in 0..LEVEL - 1
          BY <4>2, <4>3, DivMod DEF Digit
        <4> QED BY <4>1, <4>4 DEF Slot, Places
      <3>3. wheel' = AddAll(w, list, ct)
        BY <3>1 DEF Moved
      <3>4. \A n \in pending : PlaceOf(expire[n], time) # q
                                 => PlaceOf(expire[n], ct) = PlaceOf(expire[n], time)
        BY <1>3, <1>6, OthersInPlace DEF ct
      <3>5. \A n \in pending : n \in Range(list) <=> PlaceOf(expire[n], time) = q
        BY <3>2, <1>0, <1>5 DEF PlaceInv, WheelOK
      <3> HIDE DEF q
      <3>6. /\ w \in [Places -> Seq(Timers)] /\ w[q] = <<>>
            /\ \A p \in Places : p # q => w[p] = wheel[p]
        BY <3>2, <1>3
      <3>7. list \in Seq(Timers) /\ Range(list) \subseteq pending
        BY <3>2, <1>0, <1>3, <1>5 DEF PlaceInv, WheelOK
      <3> HIDE DEF w
      <3>8. Range(w[q]) = {} /\ DOMAIN w[q] = {}
        BY <3>6 DEF Range
      <3>9. WheelOK(w, X, expire, earlier, ct)
        <4>1. ASSUME NEW p \in Places, NEW n \in Range(w[p])
              PROVE  n \in X /\ p = PlaceOf(expire[n], ct)
          <5>1. p # q /\ n \in Range(wheel[p])
            BY <4>1, <3>6, <3>8
          <5>2. n \in pending /\ p = PlaceOf(expire[n], time)
            BY <5>1, <1>0, <1>5 DEF PlaceInv, WheelOK
          <5> QED BY <5>1, <5>2, <3>4, <3>5
        <4>2. ASSUME NEW n \in X PROVE n \in Range(w[PlaceOf(expire[n], ct)])
          <5>1. n \in pending /\ PlaceOf(expire[n], time) # q
            BY <3>5
          <5>2. n \in Range(wheel[PlaceOf(expire[n], time)]) /\ PlaceOf(expire[n], time) \in Places
            BY <5>1, <1>0, <1>3, <1>5, PlaceType DEF PlaceInv, WheelOK
          <5> QED BY <5>1, <5>2, <3>4, <3>6
        <4>3. ASSUME NEW p \in Places, NEW i \in DOMAIN w[p], NEW j \in DOMAIN w[p], i < j
              PROVE  /\ w[p][i] # w[p][j]
                     /\ expire[w[p][i]] = expire[w[p][j]] => w[p][i] \in earlier[w[p][j]]
          <5>1. p # q /\ w[p] = wheel[p]
            BY <4>3, <3>6, <3>8
          <5> QED BY <5>1, <4>3, <1>0 DEF PlaceInv, WheelOK
        <4> QED BY <4>1, <4>2, <4>3, <3>6 DEF WheelOK
      <3>10. ASSUME NEW j \in DOMAIN list
             PROVE  list[j] \notin X /\ \A m \in X : expire[m] # expire[list[j]]
        <4>1. list[j] \in Range(list)
          BY DEF Range
        <4> QED BY <4>1, <3>5, <3>7
      <3>11. ASSUME NEW i \in DOMAIN list, NEW j \in DOMAIN list, i < j
             PROVE  /\ list[i] # list[j]
                    /\ expire[list[i]] = expire[list[j]] => list[i] \in earlier[list[j]]
        BY <3>2, <3>11, <1>0 DEF PlaceInv, WheelOK
      <3>12. X \in SUBSET Timers /\ X \cup Range(list) = pending
        BY <1>3, <3>7
      <3> HIDE DEF X, list
      <3>13. WheelOK(AddAll(w, list, ct), X \cup Range(list), expire, earlier, ct)
        BY <1>3, <1>4, <3>7, <3>9, <3>10, <3>11, <3>12, AddAllOK
      <3> QED BY <3>3, <3>12, <3>13, <1>1, <1>5 DEF PlaceInv
    <2> QED BY <1>2, <2>1, <2>2
  <1>8. \A n \in pending : due'[n] = due[n] - 1 /\ due'[n] \in 0..MaxTime
    <2>1. \A n \in pending : due'[n] = due[n] - 1 /\ due[n] \in 1..MaxTime
      BY <1>1, <1>3, <1>6 DEF Ahead
    <2> QED BY <2>1, HalfWrap
  <1>9. due' \in [Timers -> 0..MaxTime]
    <2>1. 0 \in 0..MaxTime
      BY HalfWrap
    <2>2. ASSUME NEW n \in Timers PROVE due'[n] \in 0..MaxTime
      BY <2>1, <1>1, <1>8
    <2> QED BY <2>2, <1>1
  <1>10. TypeOK'
    BY <1>0, <1>1, <1>4, <1>7, <1>9 DEF TypeOK, PlaceInv, WheelOK
  <1>11. ThreadInv' /\ FiringInv'
    BY <1>0, <1>1, <1>5 DEF ThreadInv, FiringInv, Range
  <1>12. DueInv'
    <2>1. ASSUME NEW n \in pending PROVE expire[n] = (ct + (due[n] - 1)) % Wrap
      <3>1. due[n] \in 0..MaxTime /\ due[n] > 0 /\ expire[n] = (time + due[n]) % Wrap
        BY <1>0, <1>3, <1>6 DEF DueInv
      <3> QED BY <3>1, <1>3, AheadNext DEF ct
    <2> QED BY <2>1, <1>1, <1>8 DEF DueInv
  <1> QED BY <1>7, <1>10, <1>11, <1>12 DEF WheelInv

\* Every step keeps the invariant.
LEMMA InvNext == WheelInv /\ [Next]_vars => WheelInv'
  <1> SUFFICES ASSUME WheelInv, [Next]_vars PROVE WheelInv'
    OBVIOUS
  <1>0. TypeOK /\ ThreadInv /\ FiringInv /\ DueInv /\ PlaceInv
    BY DEF WheelInv
  <1>1. ASSUME NEW n \in Timers, NEW d \in 1..MaxTime, Timeout(n, d) PROVE WheelInv'
    BY <1>1, TimeoutInv
  <1>2. ASSUME NEW k \in 1..MaxLag, UpdateTime(k) PROVE WheelInv'
    <2>1. /\ pc = "idle" /\ diff' = k
          /\ UNCHANGED <<time, wheel, expire, firing, pc, pending, due, earlier>>
      BY <1>2 DEF UpdateTime
    <2>2. k \in 0..MaxLag
      BY WheelAssumption
    <2> QED BY <2>1, <2>2, <1>0
            DEF WheelInv, TypeOK, ThreadInv, FiringInv, DueInv, PlaceInv, InWheel
  <1>3. ASSUME Update PROVE WheelInv'
    <2>1. /\ pc = "idle" /\ diff > 0 /\ pc' = "exec1"
          /\ UNCHANGED <<time, wheel, expire, firing, diff, pending, due, earlier>>
      BY <1>3 DEF Update
    <2> QED BY <2>1, <1>0
            DEF WheelInv, TypeOK, ThreadInv, FiringInv, DueInv, PlaceInv, InWheel
  <1>4. CASE Execute
    BY <1>4, ExecuteInv
  <1>5. CASE Dispatch
    BY <1>5, DispatchInv
  <1>6. CASE Shift
    BY <1>6, ShiftInv
  <1>7. CASE UNCHANGED vars
    BY <1>7, <1>0
       DEF vars, WheelInv, TypeOK, ThreadInv, FiringInv, DueInv, PlaceInv, InWheel
  <1> QED BY <1>1, <1>2, <1>3, <1>4, <1>5, <1>6, <1>7 DEF Next

\* The invariant holds in every state: timer_add, timer_shift and timer_execute
\* keep each timer in the place that add_node computes for it.
THEOREM WheelInvariant == Spec => []WheelInv
  <1> QED BY InvInit, InvNext, PTL DEF Spec

\* The invariant puts every timer into one list.
LEMMA InvOnce == WheelInv => OnceInWheel
  <1> SUFFICES ASSUME WheelInv PROVE OnceInWheel
    OBVIOUS
  <1>0. TypeOK /\ FiringInv /\ PlaceInv
    BY DEF WheelInv
  <1>1. /\ pending \subseteq Timers /\ expire \in [Timers -> 0..Wrap - 1] /\ time \in 0..Wrap - 1
        /\ wheel \in [Places -> Seq(Timers)] /\ firing \in Seq(Timers)
    BY <1>0 DEF TypeOK
  <1>2. \A p \in Places : \A n \in Range(wheel[p]) : n \in InWheel /\ p = PlaceOf(expire[n], time)
    BY <1>0 DEF PlaceInv, WheelOK
  <1>3. \A n \in InWheel : \E p \in Places : n \in Range(wheel[p])
    BY <1>0, <1>1, PlaceType DEF PlaceInv, WheelOK, InWheel
  <1>4. pending = Range(firing) \cup UNION {Range(wheel[p]) : p \in Places}
    BY <1>0, <1>2, <1>3 DEF InWheel, FiringInv
  <1>5. IsInjective(firing)
    <2> SUFFICES ASSUME NEW i \in DOMAIN firing, NEW j \in DOMAIN firing, firing[i] = firing[j]
                 PROVE  i = j
      BY DEF IsInjective
    <2>1. i \in Int /\ j \in Int
      BY <1>1
    <2>2. ~(i < j) /\ ~(j < i)
      BY <1>0 DEF FiringInv
    <2> QED BY <2>1, <2>2
  <1>6. ASSUME NEW p \in Places PROVE IsInjective(wheel[p])
    <2> SUFFICES ASSUME NEW i \in DOMAIN wheel[p], NEW j \in DOMAIN wheel[p],
                        wheel[p][i] = wheel[p][j]
                 PROVE  i = j
      BY DEF IsInjective
    <2>1. wheel[p] \in Seq(Timers)
      BY <1>1
    <2>2. i \in Int /\ j \in Int
      BY <2>1
    <2>3. ~(i < j) /\ ~(j < i)
      BY <1>0 DEF PlaceInv, WheelOK
    <2> QED BY <2>2, <2>3
  <1>7. ASSUME NEW p \in Places
        PROVE  /\ Range(wheel[p]) \cap Range(firing) = {}
               /\ \A q \in Places \ {p} : Range(wheel[p]) \cap Range(wheel[q]) = {}
    BY <1>2 DEF InWheel
  <1> QED BY <1>4, <1>5, <1>6, <1>7 DEF OnceInWheel

\* Each timer fires once and in the very tick in which its timeout ends,
\* across all levels and the wrap of the 32-bit time (timer_shift, add_node,
\* move_list, timer_execute), for every NEAR and LEVEL of at least 2 and any
\* number of timers.
THEOREM TimersOnTime == Spec => []OnTime
  <1>1. WheelInv => OnTime
    <2> SUFFICES ASSUME WheelInv PROVE OnTime
      OBVIOUS
    <2>0. TypeOK /\ ThreadInv /\ FiringInv /\ DueInv /\ PlaceInv
      BY DEF WheelInv
    <2>1. OnceInWheel
      BY InvOnce
    <2>2. ASSUME NEW n \in pending \ Range(firing)
          PROVE  due[n] > 0 \/ (due[n] = 0 /\ pc = "exec2" /\ n \in Range(wheel[Now]))
      <3>1. /\ n \in InWheel /\ n \in Timers /\ due[n] \in 0..MaxTime /\ time \in 0..Wrap - 1
            /\ expire[n] = (time + due[n]) % Wrap
        BY <2>0 DEF TypeOK, InWheel, DueInv
      <3>2. CASE due[n] = 0
        <4>1. expire[n] = time
          BY <3>1, <3>2, AheadNext
        <4>2. n \in Range(wheel[Now])
          BY <4>1, <3>1, <2>0, NowPlace DEF PlaceInv, WheelOK
        <4> QED BY <4>2, <3>1, <3>2, <2>0 DEF DueInv
      <3> QED BY <3>1, <3>2, HalfWrap
    <2> QED BY <2>0, <2>1, <2>2 DEF OnTime, FiringInv
  <1> QED BY <1>1, WheelInvariant, PTL

\* Timers that end in one tick fire in the order in which they were added,
\* whichever levels they came down from (link, move_list, dispatch_list).
THEOREM TimersInOrder == Spec => []SameTickInOrder
  <1>1. WheelInv => SameTickInOrder
    <2> SUFFICES ASSUME WheelInv, firing # <<>>
                 PROVE  /\ Range(firing) = {n \in pending : due[n] = 0}
                        /\ \A i, j \in DOMAIN firing : i < j => firing[i] \in earlier[firing[j]]
      BY DEF SameTickInOrder
    <2>0. TypeOK /\ ThreadInv /\ FiringInv /\ DueInv
      BY DEF WheelInv
    <2>1. \A n \in pending \ Range(firing) : due[n] # 0
      BY <2>0 DEF ThreadInv, DueInv, InWheel
    <2> QED BY <2>0, <2>1 DEF FiringInv
  <1> QED BY <1>1, WheelInvariant, PTL
=============================================================================
