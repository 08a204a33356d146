------------------------- MODULE SocketServerProofs -------------------------
(***************************************************************************)
(* Invariants of the socket server and their proofs, for any number of     *)
(* services, slots, connections and messages of any size.                  *)
(*                                                                         *)
(* Messages are blocks of Size units.  The wire of a connection, what is   *)
(* left of a direct write and the high list are one sequence of blocks,    *)
(* and the low list is another: a message that was cut is always finished  *)
(* before the next one begins.                                             *)
(*                                                                         *)
(* A message goes from the hand of its service through the pipe into the   *)
(* line of the units that are on the wire or in the lists.  Alike messages *)
(* are in order in each, and what is further on was sent before.           *)
(*                                                                         *)
(* force_close frees the lists before it takes the lock, and a service can *)
(* write in between.  A slot whose messages were freed is `lost`: only for *)
(* the others is the wire whole, and only they have no gap.                *)
(***************************************************************************)
EXTENDS SocketServer, FiniteSetTheorems, SequenceTheorems, TLAPS

-----------------------------------------------------------------------------
(* The invariants *)

\* A slot that a connection has
Live(s) == s.type \notin {"INVALID", "RESERVE"}

Threads ==
    [pc : {"idle", "write", "inc", "push"}, n : Nat, id : {0} \cup Ids,
     cmd : {"D", "P", "W"}, msg : Msgs \cup {NoMsg}]
Conns ==
    [wire : Seq(Units), sent : SUBSET Msgs, closer : Services \cup {Nobody},
     promise : SUBSET Msgs]
Events == [from : Slots \cup {Pipe, Listen}, what : SUBSET {"read", "write"}]
Polls == {"ctrl", "first", "rest", "close", "clear", "abort"}
MsgCmds == {"D", "P"}

\* The variables have their types, and a service that is sending knows what.
TypeInv ==
    /\ slot \in [Slots -> Socket] /\ alloc_id \in 0..MaxId
    /\ pipe \in Seq(Cmds) /\ poll \in Polls /\ job \in Jobs
    /\ ev \subseteq Events /\ th \in [Services -> Threads]
    /\ known \in [Ids -> {"none", "accepted", "open"}]
    /\ conn \in [Ids -> Conns] /\ cut \subseteq Msgs
    /\ \A v \in Services : th[v].pc # "idle" =>
           /\ th[v].id \in Ids /\ th[v].msg \in Msgs /\ th[v].msg.from = v
           /\ th[v].pc = "write" => th[v].cmd = "D"
    /\ \A k \in 1..Len(pipe) : pipe[k].cmd \in MsgCmds => pipe[k].msg \in Msgs

\* The lock of slot i, which is s, is the service's that writes directly to its
\* connection.
LockOK(i, s, T) ==
    \A v \in Services :
        /\ s.lock = v <=> T[v].pc = "write" /\ HASH_ID(T[v].id) = i
        /\ s.lock = v => s.id = T[v].id

LockInv == \A i \in Slots : LockOK(i, slot[i], th)

\* Slot i, which is s, has an id that was given to it, and keeps its protocol,
\* tag and count until it is given again.  Nothing is left of a connection that
\* was closed.
SlotOK(i, s, last) ==
    /\ s.id # 0 => HASH_ID(s.id) = i /\ s.id <= last
    /\ s.id = 0 => s.type = "INVALID" /\ ~s.tcp
    /\ s.tcp => s.tag = s.id
    /\ Live(s) => s.tcp
    /\ s.type = "RESERVE" => ~s.tcp
    /\ ~Live(s) => /\ s.high = <<>> /\ s.low = <<>> /\ s.dw_buffer = <<>>
                   /\ s.lock = Nobody
    /\ s.lock # Nobody => s.dw_buffer = <<>> /\ s.type \in {"CONNECTED", "HALFCLOSE"}

SlotInv == \A i \in Slots : SlotOK(i, slot[i], alloc_id)

\* The command c waits for the slot s that was reserved for it, or is about an
\* id whose slot was taken by new_fd.
CmdOK(c, s, last) ==
    /\ c.id <= last
    /\ c.cmd # "O" /\ s.id = c.id => s.tcp
    /\ c.cmd = "O" => s.type = "RESERVE" /\ s.id = c.id

PipeInv ==
    /\ \A k \in 1..Len(pipe) : CmdOK(pipe[k], slot[HASH_ID(pipe[k].id)], alloc_id)
    /\ \A j \in 1..Len(pipe) : \A k \in 1..Len(pipe) :
           pipe[j].cmd = "O" /\ pipe[k].cmd = "O" /\ pipe[j].id = pipe[k].id => j = k

\* The service of t sends to an id whose slot s was taken by new_fd.
SenderOK(t, s, last) ==
    t.pc # "idle" => t.id <= last /\ (s.id = t.id => s.tcp)

SenderInv == \A v \in Services : SenderOK(th[v], slot[HASH_ID(th[v].id)], alloc_id)

\* What is known of an id, and what was sent to it, is about a connection.
KnownOK(id, s, x, c) ==
    /\ x # "none" \/ c # NoConn => s.id = id /\ Live(s)
    /\ x = "accepted" => s.type \in {"PACCEPT", "HALFCLOSE"}
    /\ x = "open" => s.type \in {"CONNECTED", "HALFCLOSE"}
    /\ c.sent # {} \/ c.promise # {} => x = "open"

KnownInv == \A id \in Ids : KnownOK(id, slot[HASH_ID(id)], known[id], conn[id])

\* The messages for id that are in the pipe p, and those that are about to be
InPipe(p, id) == {k \in 1..Len(p) : p[k].id = id /\ p[k].cmd \in MsgCmds}
InHand(T, id) == {v \in Services : T[v].id = id /\ T[v].pc = "push" /\ T[v].cmd # "W"}
Messages(p, T, id) == Cardinality(InPipe(p, id)) + Cardinality(InHand(T, id))

\* The count of a slot covers the messages that are underway.
CountInv ==
    \A i \in Slots : slot[i].tcp => slot[i].sending >= Messages(pipe, th, slot[i].id)

-----------------------------------------------------------------------------
\* The other units of the message of q[k] are around it, in order.
BlockIn(q, k) ==
    /\ q[k][2] <= k /\ k - q[k][2] + Size <= Len(q)
    /\ \A j \in 1..Size : /\ q[k - q[k][2] + j][1] = q[k][1]
                          /\ q[k - q[k][2] + j][2] = j

\* q consists of whole messages.
Blocks(q) == \A k \in 1..Len(q) : BlockIn(q, k)

\* A slot whose connection has kept its lists: force_close has not freed them
\* with messages in them.
Kept(s) == Live(s) /\ ~s.lost

\* w is on the wire of a connection that has the slot s.
WireOK(s, w) ==
    /\ Blocks(w \o High(s)) /\ Blocks(s.low)
    /\ s.lock # Nobody => Blocks(w) /\ Blocks(s.high)

WireInv ==
    \A i \in Slots : Kept(slot[i]) => WireOK(slot[i], conn[slot[i].id].wire)

\* The message m is on the wire w or in the lists of s, to its end.
Out(s, w, m) == <<m, Size>> \in Range(w) \cup Range(Pending(s))

\* The message m for id is in the pipe p, before any close of id.
Piped(p, id, m) ==
    \E k \in 1..Len(p) :
        /\ p[k].id = id /\ p[k].cmd \in MsgCmds /\ p[k].msg = m
        /\ \A j \in 1..k - 1 : p[j].cmd = "K" => p[j].id # id

\* The service of t is still sending m to id.
Held(t, id, m) == t.pc # "idle" /\ t.id = id /\ t.msg = m /\ t.cmd # "W"

\* What must not be lost of a connection: all that was sent, or what was sent
\* by the service that closed it first
Due(c) == IF c.closer = Nobody THEN c.sent ELSE c.promise

\* Nothing of a slot s that has kept its lists, with the connection c, is lost.
DueOK(s, c, p, T) ==
    /\ s.type = "HALFCLOSE" => c.closer # Nobody
    /\ \A m \in Due(c) :
           \/ Out(s, c.wire, m)
           \/ s.type # "HALFCLOSE" /\ Piped(p, s.id, m)
           \/ c.closer = Nobody /\ Held(T[m.from], s.id, m)

DueInv == \A i \in Slots : Kept(slot[i]) => DueOK(slot[i], conn[slot[i].id], pipe, th)

\* A close is underway only after its call.
Called(k, s, c) == k.cmd = "K" /\ s.id = k.id /\ Live(s) => c.closer # Nobody

CloseInv ==
    \A k \in 1..Len(pipe) :
        Called(pipe[k], slot[HASH_ID(pipe[k].id)], conn[pipe[k].id])

\* What force_close has freed is the slot s, with the connection c, of the job j.
\* When it closes because nothing is left what must be sent is on the wire.
JobOK(j, s, c) ==
    /\ j.id \in Ids /\ s.id = j.id /\ Live(s) /\ s.high = <<>> /\ s.low = <<>>
    /\ j.drained => /\ c.closer # Nobody
                    /\ \A m \in c.promise : <<m, Size>> \in Range(c.wire)

JobInv == poll = "close" => JobOK(job, slot[HASH_ID(job.id)], conn[job.id])

\* Messages are lost only of a connection that is about to be closed.
LostInv ==
    \A i \in Slots : Live(slot[i]) /\ slot[i].lost => poll = "close" /\ slot[i].id = job.id

Inv ==
    /\ TypeInv /\ LockInv /\ SlotInv /\ PipeInv /\ SenderInv
    /\ KnownInv /\ CountInv /\ WireInv /\ DueInv /\ CloseInv /\ JobInv /\ LostInv /\ cut = {}

-----------------------------------------------------------------------------
(* Sequences of units *)

\* The slot of an id is one of the slots.
LEMMA HashSlot == \A id \in Int : HASH_ID(id) \in Slots
  BY SocketAssumption DEF HASH_ID, Slots

\* A unit is a message and a number.
LEMMA UnitParts ==
    /\ \A u \in Units : u[1] \in Msgs /\ u[2] \in 1..Size
    /\ \A m \in Msgs, j \in 1..Size : <<m, j>> \in Units
  BY DEF Units

\* A concatenation, unit by unit
LEMMA Concat ==
    ASSUME NEW p \in Seq(Units), NEW q \in Seq(Units)
    PROVE  /\ p \o q \in Seq(Units) /\ Len(p \o q) = Len(p) + Len(q)
           /\ \A k \in 1..Len(p) : (p \o q)[k] = p[k]
           /\ \A k \in 1..Len(q) : (p \o q)[Len(p) + k] = q[k]
           /\ \A k \in Len(p) + 1..Len(p) + Len(q) : (p \o q)[k] = q[k - Len(p)]
  BY ConcatProperties, LenProperties

\* A part of a sequence, unit by unit
LEMMA Part ==
    ASSUME NEW p \in Seq(Units), NEW a \in Nat, NEW b \in Nat, a <= b, b <= Len(p)
    PROVE  /\ SubSeq(p, a + 1, b) \in Seq(Units) /\ Len(SubSeq(p, a + 1, b)) = b - a
           /\ \A k \in 1..b - a : SubSeq(p, a + 1, b)[k] = p[a + k]
  <1>1. \A k \in a + 1..b : p[k] \in Units
    BY LenProperties
  <1>2. /\ SubSeq(p, a + 1, b) \in Seq(Units)
        /\ Len(SubSeq(p, a + 1, b)) = IF a + 1 <= b THEN b - (a + 1) + 1 ELSE 0
        /\ \A k \in 1..b - (a + 1) + 1 : SubSeq(p, a + 1, b)[k] = p[a + 1 + k - 1]
    BY <1>1, SubSeqProperties
  <1> QED
    BY <1>2

\* A sequence is its first units and the rest.
LEMMA Split ==
    ASSUME NEW p \in Seq(Units), NEW n \in 0..Len(p)
    PROVE  SubSeq(p, 1, n) \o SubSeq(p, n + 1, Len(p)) = p
  <1>1. Len(p) \in Nat
    BY LenProperties
  <1>2. 1 \in 1..Len(p) + 1 /\ n \in 1 - 1..Len(p) /\ Len(p) \in n..Len(p)
    BY <1>1
  <1>3. SubSeq(p, 1, n) \o SubSeq(p, n + 1, Len(p)) = SubSeq(p, 1, Len(p))
    BY <1>2, ConcatAdjacentSubSeq
  <1> QED
    BY <1>3, SubSeqFull

\* What is in a concatenation is in one of its parts.
LEMMA RangeConcat ==
    ASSUME NEW p \in Seq(Units), NEW q \in Seq(Units)
    PROVE  Range(p \o q) = Range(p) \cup Range(q)
  <1>1. /\ DOMAIN p = 1..Len(p) /\ DOMAIN q = 1..Len(q)
        /\ DOMAIN (p \o q) = 1..Len(p) + Len(q) /\ Len(p) \in Nat /\ Len(q) \in Nat
    BY Concat, LenProperties
  <1>2. ASSUME NEW u \in Range(p \o q) PROVE u \in Range(p) \cup Range(q)
    <2>1. PICK k \in 1..Len(p) + Len(q) : u = (p \o q)[k]
      BY <1>1, <1>2 DEF Range
    <2>2. CASE k <= Len(p)
      BY <2>1, <2>2, <1>1, Concat DEF Range
    <2>3. CASE k > Len(p)
      <3>1. u = q[k - Len(p)] /\ k - Len(p) \in 1..Len(q)
        BY <2>1, <2>3, <1>1, Concat
      <3> QED
        BY <3>1, <1>1 DEF Range
    <2> QED
      BY <2>2, <2>3, <1>1
  <1>3. ASSUME NEW u \in Range(p) PROVE u \in Range(p \o q)
    <2>1. PICK k \in 1..Len(p) : u = p[k]
      BY <1>1, <1>3 DEF Range
    <2>2. u = (p \o q)[k] /\ k \in 1..Len(p) + Len(q)
      BY <2>1, <1>1, Concat
    <2> QED
      BY <2>2, <1>1 DEF Range
  <1>4. ASSUME NEW u \in Range(q) PROVE u \in Range(p \o q)
    <2>1. PICK k \in 1..Len(q) : u = q[k]
      BY <1>1, <1>4 DEF Range
    <2>2. u = (p \o q)[Len(p) + k] /\ Len(p) + k \in 1..Len(p) + Len(q)
      BY <2>1, <1>1, Concat
    <2> QED
      BY <2>2, <1>1 DEF Range
  <1> QED
    BY <1>2, <1>3, <1>4

\* The units of a message
LEMMA UnitsOfMsg ==
    ASSUME NEW m \in Msgs
    PROVE  /\ UnitsOf(m) \in Seq(Units) /\ Len(UnitsOf(m)) = Size
           /\ \A j \in 1..Size : UnitsOf(m)[j] = <<m, j>>
           /\ <<m, Size>> \in Range(UnitsOf(m))
           /\ UnitsOf(m) # <<>>
  <1>1. Size \in Nat \ {0}
    BY SocketAssumption
  <1>2. \A j \in 1..Size : <<m, j>> \in Units
    BY UnitParts
  <1>3. UnitsOf(m) \in [1..Size -> Units]
    BY <1>2 DEF UnitsOf
  <1>4. UnitsOf(m) \in Seq(Units)
    BY <1>1, <1>3
  <1>5. DOMAIN UnitsOf(m) = 1..Size /\ Len(UnitsOf(m)) = Size
    BY <1>1, <1>3, <1>4
  <1>6. \A j \in 1..Size : UnitsOf(m)[j] = <<m, j>>
    BY DEF UnitsOf
  <1>7. Size \in 1..Size
    BY <1>1
  <1>8. <<m, Size>> \in Range(UnitsOf(m))
    BY <1>5, <1>6, <1>7 DEF Range
  <1> QED
    BY <1>1, <1>4, <1>5, <1>6, <1>8

\* Nothing consists of whole messages.
LEMMA BlocksEmpty == Blocks(<<>>)
  BY DEF Blocks

\* One message is a whole message.
LEMMA BlocksOne ==
    ASSUME NEW m \in Msgs PROVE Blocks(UnitsOf(m))
  <1>1. /\ Len(UnitsOf(m)) = Size /\ Size \in Nat
        /\ \A j \in 1..Size : UnitsOf(m)[j] = <<m, j>>
    BY UnitsOfMsg, SocketAssumption
  <1>2. ASSUME NEW q, q = UnitsOf(m) PROVE Blocks(q)
    <2>1. \A k \in 1..Size : q[k][1] = m /\ q[k][2] = k
      BY <1>1, <1>2
    <2> QED
      BY <1>1, <1>2, <2>1 DEF Blocks, BlockIn
  <1> QED
    BY <1>2

\* The units of one block, from any of them
LEMMA BlockAt ==
    ASSUME NEW q \in Seq(Units), Blocks(q), NEW k \in 1..Len(q)
    PROVE  /\ q[k][2] \in 1..Size /\ q[k][1] \in Msgs
           /\ q[k][2] <= k /\ k - q[k][2] + Size <= Len(q)
           /\ \A j \in 1..Size : /\ q[k - q[k][2] + j][1] = q[k][1]
                                 /\ q[k - q[k][2] + j][2] = j
  <1>1. q[k] \in Units
    BY LenProperties
  <1>2. q[k][2] \in 1..Size /\ q[k][1] \in Msgs
    BY <1>1, UnitParts
  <1> QED
    BY <1>2 DEF Blocks, BlockIn

\* The unit at place n, when that is in the message of q[k]
LEMMA BlockUnit ==
    ASSUME NEW q \in Seq(Units), Blocks(q), NEW k \in 1..Len(q), NEW n \in 1..Len(q),
           NEW u \in 1..Size, q[k][2] = u, k - u < n, n <= k - u + Size
    PROVE  q[n][1] = q[k][1] /\ q[n][2] = n - k + u
  <1>1. Len(q) \in Nat /\ Size \in Nat
    BY LenProperties, SocketAssumption
  <1>2. n - k + u \in 1..Size
    BY <1>1
  <1>3. PICK j \in 1..Size : j = n - k + u
    BY <1>2
  <1>4. k - u + j = n
    BY <1>1, <1>3
  <1>5. q[k - u + j][1] = q[k][1] /\ q[k - u + j][2] = j
    BY BlockAt
  <1> QED
    BY <1>3, <1>4, <1>5

\* Whole messages behind whole messages
LEMMA BlocksConcat ==
    ASSUME NEW p \in Seq(Units), NEW q \in Seq(Units), Blocks(p), Blocks(q)
    PROVE  Blocks(p \o q)
  <1> DEFINE r == p \o q
  <1>1. Len(p) \in Nat /\ Len(q) \in Nat /\ Len(r) = Len(p) + Len(q) /\ Size \in Nat
    BY Concat, LenProperties, SocketAssumption
  <1>2. /\ \A k \in 1..Len(p) : r[k] = p[k]
        /\ \A k \in 1..Len(q) : r[Len(p) + k] = q[k]
    BY Concat
  <1> HIDE DEF r
  <1>3. ASSUME NEW k \in 1..Len(p) PROVE BlockIn(r, k)
    <2>1. PICK u \in 1..Size : p[k][2] = u
      BY BlockAt
    <2>2. u <= k /\ k - u + Size <= Len(p)
      BY <2>1, BlockAt
    <2>3. k - u + Size <= Len(r) /\ r[k] = p[k]
      BY <2>2, <1>1, <1>2
    <2>4. ASSUME NEW j \in 1..Size PROVE r[k - u + j][1] = r[k][1] /\ r[k - u + j][2] = j
      <3>1. k - u + j \in 1..Len(p)
        BY <2>2, <1>1
      <3>2. p[k - u + j][1] = p[k][1] /\ p[k - u + j][2] = j
        BY <2>1, BlockAt
      <3> QED
        BY <3>1, <3>2, <2>3, <1>2
    <2> QED
      BY <2>1, <2>2, <2>3, <2>4 DEF BlockIn
  <1>4. ASSUME NEW c \in 1..Len(q), NEW k \in Int, k = Len(p) + c PROVE BlockIn(r, k)
    <2>1. PICK u \in 1..Size : q[c][2] = u
      BY BlockAt
    <2>2. u <= c /\ c - u + Size <= Len(q)
      BY <2>1, BlockAt
    <2>3. u <= k /\ k - u + Size <= Len(r) /\ r[k] = q[c]
      BY <2>2, <1>1, <1>2, <1>4
    <2>5. r[k][2] = u
      BY <2>1, <2>3
    <2>4. ASSUME NEW j \in 1..Size PROVE r[k - u + j][1] = r[k][1] /\ r[k - u + j][2] = j
      <3>0. c - u + j \in Int
        BY <1>1
      <3>1. PICK n \in Int : n = c - u + j
        BY <3>0
      <3>2. n \in 1..Len(q) /\ c - u < n /\ n <= c - u + Size /\ n - c + u = j
        BY <3>1, <2>2, <1>1
      <3>5. q[n][1] = q[c][1] /\ q[n][2] = j
        BY <3>2, <2>1, BlockUnit
      <3>3. r[Len(p) + n] = q[n]
        BY <3>2, <1>2
      <3>4. Len(p) + n = k - u + j
        BY <3>1, <1>1, <1>4
      <3> QED
        BY <3>3, <3>4, <3>5, <2>3
    <2> QED
      BY <2>3, <2>4, <2>5 DEF BlockIn
  <1>5. ASSUME NEW k \in 1..Len(r) PROVE BlockIn(r, k)
    <2>1. CASE k <= Len(p)
      BY <2>1, <1>1, <1>3
    <2>2. CASE k > Len(p)
      <3>1. k - Len(p) \in 1..Len(q) /\ k = Len(p) + (k - Len(p)) /\ k \in Int
        BY <2>2, <1>1
      <3> QED
        BY <3>1, <1>4
    <2> QED
      BY <2>1, <2>2, <1>1
  <1>6. Blocks(r)
    BY <1>5 DEF Blocks
  <1> QED
    BY <1>6 DEF r

\* Whole messages can be cut before the first unit of one of them.
LEMMA BlocksCut ==
    ASSUME NEW q \in Seq(Units), Blocks(q), NEW c \in 0..Len(q),
           \A d \in 1..Len(q) : d = c + 1 => q[d][2] = 1
    PROVE  Blocks(SubSeq(q, 1, c)) /\ Blocks(SubSeq(q, c + 1, Len(q)))
  <1> DEFINE a == SubSeq(q, 1, c)
             b == SubSeq(q, c + 1, Len(q))
  <1>1. Len(q) \in Nat /\ Size \in Nat /\ c \in Nat /\ c <= Len(q)
    BY LenProperties, SocketAssumption
  <1>2. /\ Len(a) = c /\ \A k \in 1..c : a[k] = q[k]
        /\ Len(b) = Len(q) - c /\ \A k \in 1..Len(q) - c : b[k] = q[c + k]
    <2>1. Len(a) = c - 0 /\ \A k \in 1..c - 0 : a[k] = q[0 + k]
      BY <1>1, Part
    <2>2. Len(b) = Len(q) - c /\ \A k \in 1..Len(q) - c : b[k] = q[c + k]
      BY <1>1, Part
    <2> QED
      BY <2>1, <2>2, <1>1
  <1> HIDE DEF a, b
  \* No block goes over the cut.
  <1>3. ASSUME NEW k \in 1..Len(q), NEW u \in 1..Size, q[k][2] = u
        PROVE  ~(k - u < c /\ c < k - u + Size)
    <2>1. SUFFICES ASSUME k - u < c, c < k - u + Size PROVE FALSE
      OBVIOUS
    <2>2. k - u + Size <= Len(q)
      BY <1>3, BlockAt
    <2>3. c + 1 \in 1..Len(q) /\ c + 1 - k + u \in 1..Size
      BY <2>1, <2>2, <1>1
    <2>4. PICK d \in 1..Len(q), j \in 1..Size : d = c + 1 /\ j = c + 1 - k + u
      BY <2>3
    <2>5. j > 1 /\ d = k - u + j
      BY <2>1, <2>4, <1>1
    <2>6. q[d][2] = 1
      BY <2>4
    <2>7. k - u < d /\ d <= k - u + Size /\ d - k + u = j
      BY <2>1, <2>4, <1>1
    <2>8. q[d][2] = j
      BY <2>7, <1>3, BlockUnit
    <2> QED
      BY <2>5, <2>6, <2>8
  <1>4. ASSUME NEW k \in 1..c PROVE BlockIn(a, k)
    <2>1. k \in 1..Len(q)
      BY <1>1
    <2>2. PICK u \in 1..Size : q[k][2] = u
      BY <2>1, BlockAt
    <2>3. u <= k /\ k - u + Size <= c
      <3>1. u <= k
        BY <2>1, <2>2, BlockAt
      <3>2. ~(k - u < c /\ c < k - u + Size)
        BY <2>1, <2>2, <1>3
      <3> QED
        BY <3>1, <3>2, <1>1
    <2>4. ASSUME NEW j \in 1..Size PROVE a[k - u + j][1] = a[k][1] /\ a[k - u + j][2] = j
      <3>1. k - u + j \in 1..c
        BY <2>3, <1>1
      <3>2. q[k - u + j][1] = q[k][1] /\ q[k - u + j][2] = j
        BY <2>1, <2>2, BlockAt
      <3> QED
        BY <3>1, <3>2, <1>2
    <2>5. a[k][2] = u
      BY <2>2, <1>2
    <2> QED
      BY <2>3, <2>4, <2>5, <1>2 DEF BlockIn
  <1>5. ASSUME NEW k \in 1..Len(q) - c PROVE BlockIn(b, k)
    <2>0. c + k \in 1..Len(q)
      BY <1>1
    <2>1. PICK d \in 1..Len(q) : d = c + k
      BY <2>0
    <2>2. d \in 1..Len(q) /\ b[k] = q[d]
      BY <2>1, <1>1, <1>2
    <2>3. PICK u \in 1..Size : q[d][2] = u
      BY <2>2, BlockAt
    <2>4. u <= k /\ k - u + Size <= Len(q) - c
      <3>1. d - u + Size <= Len(q)
        BY <2>2, <2>3, BlockAt
      <3>2. ~(d - u < c /\ c < d - u + Size)
        BY <2>2, <2>3, <1>3
      <3> QED
        BY <3>1, <3>2, <2>1, <1>1
    <2>5. ASSUME NEW j \in 1..Size PROVE b[k - u + j][1] = b[k][1] /\ b[k - u + j][2] = j
      <3>0. d - u + j \in Int
        BY <1>1
      <3>1. PICK n \in Int : n = d - u + j
        BY <3>0
      <3>6. d - u >= 0 /\ d - u + Size <= Len(q)
        BY <2>1, <2>4, <1>1
      <3>2. n \in 1..Len(q) /\ d - u < n /\ n <= d - u + Size /\ n - d + u = j
        BY <3>1, <3>6, <1>1
      <3>5. q[n][1] = q[d][1] /\ q[n][2] = j
        BY <3>2, <2>3, BlockUnit
      <3>3. k - u + j \in 1..Len(q) - c /\ c + (k - u + j) = n
        BY <3>1, <2>1, <2>4, <1>1
      <3>4. b[k - u + j] = q[n]
        BY <3>3, <1>2
      <3> QED
        BY <3>4, <3>5, <2>2
    <2>6. b[k][2] = u
      BY <2>2, <2>3
    <2> QED
      BY <2>4, <2>5, <2>6, <1>2 DEF BlockIn
  <1>6. Blocks(a) /\ Blocks(b)
    BY <1>2, <1>4, <1>5 DEF Blocks
  <1> QED
    BY <1>6 DEF a, b

\* Behind the last unit of a message there is nothing, or the first of another.
LEMMA BlockEnd ==
    ASSUME NEW q \in Seq(Units), Blocks(q), NEW k \in 1..Len(q), NEW u \in 1..Size,
           q[k][2] = u, NEW c \in Int, c = k - u + Size
    PROVE  /\ c \in 0..Len(q) /\ c >= k
           /\ \A d \in 1..Len(q) : d = c + 1 => q[d][2] = 1
  <1>1. Len(q) \in Nat /\ Size \in Nat \ {0}
    BY LenProperties, SocketAssumption
  <1>2. u <= k /\ c <= Len(q)
    BY BlockAt
  <1>3. c \in 1..Len(q) /\ c >= k
    BY <1>1, <1>2
  <1>4. q[c][2] = Size
    <2>1. k - u < c /\ c <= k - u + Size /\ c - k + u = Size
      BY <1>1
    <2> QED
      BY <2>1, <1>3, BlockUnit
  <1>5. ASSUME NEW d \in 1..Len(q), d = c + 1 PROVE q[d][2] = 1
    <2>1. PICK w \in 1..Size : q[d][2] = w
      BY BlockAt
    <2>2. SUFFICES ASSUME w > 1 PROVE FALSE
      BY <2>1, <1>1
    <2>3. d - w < c /\ c <= d - w + Size /\ c - d + w < Size
      BY <2>2, <1>1, <1>5
    <2>4. q[c][2] = c - d + w
      BY <2>1, <2>3, <1>3, BlockUnit
    <2> QED
      BY <2>3, <2>4, <1>4
  <1> QED
    BY <1>1, <1>3, <1>5

\* What Blocks says of two units next to each other
LEMMA BlocksNeighbours ==
    ASSUME NEW q \in Seq(Units), Blocks(q), NEW k \in 1..Len(q)
    PROVE  IF q[k][2] > 1 THEN k > 1 /\ q[k - 1] = <<q[k][1], q[k][2] - 1>>
                          ELSE k = 1 \/ q[k - 1][2] = Size
  <1>1. Len(q) \in Nat /\ Size \in Nat \ {0}
    BY LenProperties, SocketAssumption
  <1>2. PICK u \in 1..Size : q[k][2] = u
    BY BlockAt
  <1>3. u <= k
    BY <1>2, BlockAt
  <1>4. CASE u > 1
    <2>1. u - 1 \in 1..Size /\ k - u + (u - 1) = k - 1 /\ k - 1 \in 1..Len(q) /\ k > 1
      BY <1>1, <1>3, <1>4
    <2>2. q[k - u + (u - 1)][1] = q[k][1] /\ q[k - u + (u - 1)][2] = u - 1
      BY <1>2, <2>1, BlockAt
    <2>3. q[k - 1] \in Units
      BY <2>1, LenProperties
    <2>4. q[k - 1][1] = q[k][1] /\ q[k - 1][2] = u - 1
      BY <2>1, <2>2
    <2>5. q[k - 1] = <<q[k - 1][1], q[k - 1][2]>>
      BY <2>3 DEF Units
    <2> QED
      BY <2>1, <2>4, <2>5, <1>2, <1>4
  <1>5. CASE ~(u > 1) /\ k # 1
    <2>1. k - 1 \in 1..Len(q)
      BY <1>1, <1>5
    <2>2. PICK w \in 1..Size : q[k - 1][2] = w
      BY <2>1, BlockAt
    <2>3. SUFFICES ASSUME w # Size PROVE FALSE
      BY <2>2, <1>2, <1>5
    <2>4. w + 1 \in 1..Size /\ k - 1 - w + (w + 1) = k
      BY <2>3, <1>1
    <2>5. q[k - 1 - w + (w + 1)][2] = w + 1
      BY <2>1, <2>2, <2>4, BlockAt
    <2> QED
      BY <2>4, <2>5, <1>1, <1>2, <1>5
  <1> QED
    BY <1>2, <1>4, <1>5

\* Sequences with the same units are the same.
LEMMA SameUnits ==
    ASSUME NEW p \in Seq(Units), NEW q \in Seq(Units), Len(p) = Len(q),
           \A k \in 1..Len(p) : p[k] = q[k]
    PROVE  p = q
  BY SeqEqual

\* Concatenation is associative.
LEMMA Assoc ==
    ASSUME NEW p \in Seq(Units), NEW q \in Seq(Units), NEW r \in Seq(Units)
    PROVE  (p \o q) \o r = p \o (q \o r)
  BY ConcatAssociative

\* Adjacent parts of a sequence make one part.
LEMMA Adjacent ==
    ASSUME NEW p \in Seq(Units), NEW a \in 0..Len(p), NEW b \in a..Len(p), NEW c \in b..Len(p)
    PROVE  SubSeq(p, a + 1, b) \o SubSeq(p, b + 1, c) = SubSeq(p, a + 1, c)
  <1>1. Len(p) \in Nat
    BY LenProperties
  <1>2. PICK m \in Int : m = a + 1
    BY <1>1
  <1>3. m \in 1..Len(p) + 1 /\ b \in m - 1..Len(p)
    BY <1>1, <1>2
  <1>4. SubSeq(p, m, b) \o SubSeq(p, b + 1, c) = SubSeq(p, m, c)
    BY <1>3, ConcatAdjacentSubSeq
  <1> QED
    BY <1>2, <1>4

\* The first n units of a concatenation, and the others
LEMMA TakeLeft ==
    ASSUME NEW p \in Seq(Units), NEW q \in Seq(Units), NEW n \in 0..Len(p)
    PROVE  /\ SubSeq(p \o q, 1, n) = SubSeq(p, 1, n)
           /\ SubSeq(p \o q, n + 1, Len(p \o q)) = SubSeq(p, n + 1, Len(p)) \o q
  <1> DEFINE r == p \o q
             a == SubSeq(r, 1, n)
             b == SubSeq(p, 1, n)
             c == SubSeq(r, n + 1, Len(r))
             d == SubSeq(p, n + 1, Len(p))
             e == d \o q
  <1>1. /\ Len(p) \in Nat /\ Len(q) \in Nat /\ n \in Nat /\ n <= Len(p)
        /\ r \in Seq(Units) /\ Len(r) = Len(p) + Len(q)
    BY Concat, LenProperties
  <1>2. /\ \A k \in 1..Len(p) : r[k] = p[k]
        /\ \A k \in Len(p) + 1..Len(p) + Len(q) : r[k] = q[k - Len(p)]
    BY Concat
  <1> HIDE DEF r
  <1>3. /\ a \in Seq(Units) /\ Len(a) = n /\ \A k \in 1..n : a[k] = r[k]
        /\ b \in Seq(Units) /\ Len(b) = n /\ \A k \in 1..n : b[k] = p[k]
    <2>1. n <= Len(r)
      BY <1>1
    <2>2. /\ SubSeq(r, 0 + 1, n) \in Seq(Units) /\ Len(SubSeq(r, 0 + 1, n)) = n - 0
          /\ \A k \in 1..n - 0 : SubSeq(r, 0 + 1, n)[k] = r[0 + k]
      BY <1>1, <2>1, Part
    <2>3. /\ SubSeq(p, 0 + 1, n) \in Seq(Units) /\ Len(SubSeq(p, 0 + 1, n)) = n - 0
          /\ \A k \in 1..n - 0 : SubSeq(p, 0 + 1, n)[k] = p[0 + k]
      BY <1>1, Part
    <2> QED
      BY <2>2, <2>3, <1>1
  <1>4. /\ c \in Seq(Units) /\ Len(c) = Len(r) - n /\ \A k \in 1..Len(r) - n : c[k] = r[n + k]
    BY <1>1, Part
  <1>5. /\ d \in Seq(Units) /\ Len(d) = Len(p) - n /\ \A k \in 1..Len(p) - n : d[k] = p[n + k]
    BY <1>1, Part
  <1> HIDE DEF a, b, c, d
  <1>6. /\ e \in Seq(Units) /\ Len(e) = Len(d) + Len(q)
        /\ \A k \in 1..Len(d) : e[k] = d[k]
        /\ \A k \in Len(d) + 1..Len(d) + Len(q) : e[k] = q[k - Len(d)]
    BY <1>5, Concat
  <1> HIDE DEF e
  <1>7. a = b
    <2>1. ASSUME NEW k \in 1..n PROVE a[k] = b[k]
      <3>1. k \in 1..Len(p)
        BY <1>1
      <3> QED
        BY <3>1, <1>2, <1>3
    <2> QED
      BY <2>1, <1>3, SameUnits
  <1>8. c = e
    <2>1. ASSUME NEW k \in 1..Len(c) PROVE c[k] = e[k]
      <3>1. c[k] = r[n + k]
        BY <1>4
      <3>2. CASE k <= Len(p) - n
        <4>1. n + k \in 1..Len(p) /\ k \in 1..Len(p) - n
          BY <3>2, <1>1
        <4>2. r[n + k] = p[n + k] /\ d[k] = p[n + k] /\ e[k] = d[k]
          BY <4>1, <1>1, <1>2, <1>5, <1>6
        <4> QED
          BY <4>2, <3>1
      <3>3. CASE k > Len(p) - n
        <4>1. /\ n + k \in Len(p) + 1..Len(p) + Len(q)
              /\ k \in Len(d) + 1..Len(d) + Len(q)
              /\ n + k - Len(p) = k - Len(d)
          BY <3>3, <1>1, <1>4, <1>5
        <4>2. r[n + k] = q[n + k - Len(p)]
          BY <4>1, <1>2
        <4>3. e[k] = q[k - Len(d)]
          BY <4>1, <1>6
        <4> QED
          BY <4>1, <4>2, <4>3, <3>1
      <3> QED
        BY <3>2, <3>3, <1>1
    <2>2. Len(c) = Len(e)
      BY <1>1, <1>4, <1>5, <1>6
    <2> QED
      BY <2>1, <2>2, <1>4, <1>6, SameUnits
  <1> QED
    BY <1>7, <1>8 DEF a, b, c, d, e, r

\* The units of a concatenation up to the unit n of its second part, and the
\* others
LEMMA TakeRight ==
    ASSUME NEW p \in Seq(Units), NEW q \in Seq(Units), NEW n \in 0..Len(q)
    PROVE  /\ SubSeq(p \o q, 1, Len(p) + n) = p \o SubSeq(q, 1, n)
           /\ SubSeq(p \o q, Len(p) + n + 1, Len(p \o q)) = SubSeq(q, n + 1, Len(q))
  <1> DEFINE r == p \o q
             a == SubSeq(r, 1, Len(p) + n)
             b == SubSeq(q, 1, n)
             e == p \o b
             c == SubSeq(r, Len(p) + n + 1, Len(r))
             d == SubSeq(q, n + 1, Len(q))
  <1>1. /\ Len(p) \in Nat /\ Len(q) \in Nat /\ n \in Nat /\ n <= Len(q)
        /\ r \in Seq(Units) /\ Len(r) = Len(p) + Len(q)
    BY Concat, LenProperties
  <1>2. /\ \A k \in 1..Len(p) : r[k] = p[k]
        /\ \A k \in Len(p) + 1..Len(p) + Len(q) : r[k] = q[k - Len(p)]
    BY Concat
  <1> HIDE DEF r
  <1>3. /\ a \in Seq(Units) /\ Len(a) = Len(p) + n /\ \A k \in 1..Len(p) + n : a[k] = r[k]
        /\ b \in Seq(Units) /\ Len(b) = n /\ \A k \in 1..n : b[k] = q[k]
    <2>1. Len(p) + n <= Len(r) /\ Len(p) + n \in Nat
      BY <1>1
    <2>2. PICK l \in Nat : l = Len(p) + n
      BY <2>1
    <2>3. /\ SubSeq(r, 0 + 1, l) \in Seq(Units) /\ Len(SubSeq(r, 0 + 1, l)) = l - 0
          /\ \A k \in 1..l - 0 : SubSeq(r, 0 + 1, l)[k] = r[0 + k]
      BY <1>1, <2>1, <2>2, Part
    <2>4. /\ SubSeq(q, 0 + 1, n) \in Seq(Units) /\ Len(SubSeq(q, 0 + 1, n)) = n - 0
          /\ \A k \in 1..n - 0 : SubSeq(q, 0 + 1, n)[k] = q[0 + k]
      BY <1>1, Part
    <2> QED
      BY <2>2, <2>3, <2>4, <1>1
  <1>4. /\ c \in Seq(Units) /\ Len(c) = Len(q) - n
        /\ \A k \in 1..Len(q) - n : c[k] = r[Len(p) + n + k]
    <2>1. Len(p) + n <= Len(r) /\ Len(p) + n \in Nat
      BY <1>1
    <2>2. PICK l \in Nat : l = Len(p) + n
      BY <2>1
    <2>3. /\ SubSeq(r, l + 1, Len(r)) \in Seq(Units) /\ Len(SubSeq(r, l + 1, Len(r))) = Len(r) - l
          /\ \A k \in 1..Len(r) - l : SubSeq(r, l + 1, Len(r))[k] = r[l + k]
      BY <1>1, <2>1, <2>2, Part
    <2> QED
      BY <2>2, <2>3, <1>1
  <1>5. /\ d \in Seq(Units) /\ Len(d) = Len(q) - n /\ \A k \in 1..Len(q) - n : d[k] = q[n + k]
    BY <1>1, Part
  <1> HIDE DEF a, b, c, d
  <1>6. /\ e \in Seq(Units) /\ Len(e) = Len(p) + Len(b)
        /\ \A k \in 1..Len(p) : e[k] = p[k]
        /\ \A k \in Len(p) + 1..Len(p) + Len(b) : e[k] = b[k - Len(p)]
    BY <1>3, Concat
  <1> HIDE DEF e
  <1>7. a = e
    <2>1. ASSUME NEW k \in 1..Len(p) + n PROVE a[k] = e[k]
      <3>1. a[k] = r[k]
        BY <1>3
      <3>2. CASE k <= Len(p)
        BY <3>1, <3>2, <1>1, <1>2, <1>6
      <3>3. CASE k > Len(p)
        <4>1. k \in Len(p) + 1..Len(p) + Len(q) /\ k - Len(p) \in 1..n
          BY <3>3, <1>1
        <4>2. k \in Len(p) + 1..Len(p) + Len(b)
          BY <3>3, <1>1, <1>3
        <4> QED
          BY <4>1, <4>2, <3>1, <1>2, <1>3, <1>6
      <3> QED
        BY <3>2, <3>3, <1>1
    <2>2. Len(a) = Len(e) /\ Len(a) = Len(p) + n
      BY <1>3, <1>6
    <2> QED
      BY <2>1, <2>2, <1>3, <1>6, SameUnits
  <1>8. c = d
    <2>1. ASSUME NEW k \in 1..Len(q) - n PROVE c[k] = d[k]
      <3>1. /\ Len(p) + n + k \in Len(p) + 1..Len(p) + Len(q)
            /\ Len(p) + n + k - Len(p) = n + k
        BY <1>1
      <3>2. c[k] = r[Len(p) + n + k] /\ d[k] = q[n + k]
        BY <1>4, <1>5
      <3> QED
        BY <3>1, <3>2, <1>2
    <2> QED
      BY <2>1, <1>4, <1>5, SameUnits
  <1> QED
    BY <1>7, <1>8 DEF a, b, c, d, e, r

\* A part of the end of a sequence
LEMMA PartOfEnd ==
    ASSUME NEW p \in Seq(Units), NEW a \in 0..Len(p), NEW d \in 0..Len(p) - a,
           NEW e \in Seq(Units), e = SubSeq(p, a + 1, Len(p))
    PROVE  /\ SubSeq(e, 1, d) = SubSeq(p, a + 1, a + d)
           /\ SubSeq(e, d + 1, Len(e)) = SubSeq(p, a + d + 1, Len(p))
  <1>1. /\ Len(p) \in Nat /\ a \in Nat /\ d \in Nat /\ a + d \in Nat
        /\ a <= Len(p) /\ a + d <= Len(p)
    BY LenProperties
  <1>2. Len(e) = Len(p) - a /\ \A k \in 1..Len(p) - a : e[k] = p[a + k]
    BY <1>1, Part
  <1>3. PICK b \in Nat : b = a + d
    BY <1>1
  <1> DEFINE x == SubSeq(e, 1, d)
             y == SubSeq(p, a + 1, b)
             z == SubSeq(e, d + 1, Len(e))
             w == SubSeq(p, b + 1, Len(p))
  <1>4. /\ x \in Seq(Units) /\ Len(x) = d /\ \A k \in 1..d : x[k] = e[k]
    <2>1. d <= Len(e)
      BY <1>1, <1>2
    <2>2. /\ SubSeq(e, 0 + 1, d) \in Seq(Units) /\ Len(SubSeq(e, 0 + 1, d)) = d - 0
          /\ \A k \in 1..d - 0 : SubSeq(e, 0 + 1, d)[k] = e[0 + k]
      BY <1>1, <2>1, Part
    <2> QED
      BY <2>2, <1>1
  <1>5. y \in Seq(Units) /\ Len(y) = b - a /\ \A k \in 1..b - a : y[k] = p[a + k]
    BY <1>1, <1>3, Part
  <1>6. z \in Seq(Units) /\ Len(z) = Len(e) - d /\ \A k \in 1..Len(e) - d : z[k] = e[d + k]
    <2>1. d <= Len(e) /\ Len(e) \in Nat
      BY <1>1, <1>2
    <2> QED
      BY <1>1, <2>1, Part
  <1>7. w \in Seq(Units) /\ Len(w) = Len(p) - b /\ \A k \in 1..Len(p) - b : w[k] = p[b + k]
    BY <1>1, <1>3, Part
  <1> HIDE DEF x, y, z, w
  <1>8. x = y
    <2>1. Len(x) = Len(y) /\ \A k \in 1..d : k \in 1..Len(p) - a /\ k \in 1..b - a
      BY <1>1, <1>3, <1>4, <1>5
    <2>2. \A k \in 1..Len(x) : x[k] = y[k]
      BY <2>1, <1>2, <1>4, <1>5
    <2> QED
      BY <2>1, <2>2, <1>4, <1>5, SameUnits
  <1>9. z = w
    <2>1. Len(z) = Len(w)
      BY <1>1, <1>2, <1>3, <1>6, <1>7
    <2>2. ASSUME NEW k \in 1..Len(z) PROVE z[k] = w[k]
      <3>1. k \in 1..Len(e) - d /\ d + k \in 1..Len(p) - a /\ a + (d + k) = b + k
        BY <1>1, <1>2, <1>3, <1>6
      <3>2. z[k] = e[d + k] /\ e[d + k] = p[a + (d + k)]
        BY <3>1, <1>2, <1>6
      <3>3. w[k] = p[b + k]
        BY <2>1, <1>7
      <3> QED
        BY <3>1, <3>2, <3>3
    <2> QED
      BY <2>1, <2>2, <1>6, <1>7, SameUnits
  <1> QED
    BY <1>3, <1>8, <1>9 DEF x, y, z, w

-----------------------------------------------------------------------------
(* send_buffer *)

\* t is s but for its lists.
SameButLists(s, t) ==
    /\ t.type = s.type /\ t.id = s.id /\ t.tcp = s.tcp /\ t.tag = s.tag
    /\ t.sending = s.sending /\ t.writing = s.writing /\ t.lock = s.lock /\ t.lost = s.lost

\* The lists of a socket are sequences of units.
LEMMA Lists ==
    ASSUME NEW s \in Socket
    PROVE  /\ s.high \in Seq(Units) /\ s.low \in Seq(Units) /\ s.dw_buffer \in Seq(Units)
           /\ High(s) \in Seq(Units) /\ Pending(s) \in Seq(Units)
           /\ Len(High(s)) \in Nat /\ Len(s.low) \in Nat
           /\ Len(Pending(s)) = Len(High(s)) + Len(s.low)
           /\ s.dw_buffer = <<>> => High(s) = s.high
           /\ s.high = <<>> /\ s.dw_buffer = <<>> => High(s) = <<>> /\ Pending(s) = s.low
           /\ High(s) = <<>> <=> s.dw_buffer = <<>> /\ s.high = <<>>
           /\ Pending(s) = <<>> <=> s.dw_buffer = <<>> /\ s.high = <<>> /\ s.low = <<>>
  <1>1. s.high \in Seq(Units) /\ s.low \in Seq(Units) /\ s.dw_buffer \in Seq(Units)
    BY DEF Socket
  <1>2. High(s) \in Seq(Units)
    BY <1>1, Concat DEF High
  <1>3. /\ Pending(s) \in Seq(Units) /\ Len(High(s)) \in Nat /\ Len(s.low) \in Nat
        /\ Len(Pending(s)) = Len(High(s)) + Len(s.low)
    BY <1>1, <1>2, Concat, LenProperties DEF Pending
  <1>4. s.dw_buffer = <<>> => High(s) = s.high
    BY <1>1, ConcatEmptySeq DEF High
  <1>5. s.high = <<>> /\ s.dw_buffer = <<>> => High(s) = <<>> /\ Pending(s) = s.low
    BY <1>1, <1>4, ConcatEmptySeq DEF Pending
  <1>6. High(s) = <<>> <=> s.dw_buffer = <<>> /\ s.high = <<>>
    BY <1>1, ConcatEqualIffEmpty DEF High
  <1>7. Pending(s) = <<>> <=> High(s) = <<>> /\ s.low = <<>>
    BY <1>1, <1>2, ConcatEqualIffEmpty DEF Pending
  <1> QED
    BY <1>1, <1>2, <1>3, <1>4, <1>5, <1>6, <1>7

\* raise_uncomplete leaves whole messages in the low list q, of which n units
\* were taken, when the rest of the message that was cut goes to the high list.
LEMMA RaisedLists ==
    ASSUME NEW q \in Seq(Units), Blocks(q), NEW n \in 0..Len(q),
           NEW t \in Socket, t.high = <<>>, t.low = SubSeq(q, n + 1, Len(q)),
           NEW b, b = Raised(t)
    PROVE  /\ b \in Socket /\ SameButLists(t, b) /\ b.dw_buffer = t.dw_buffer
           /\ \E c \in n..Len(q) :
                  /\ b.high = SubSeq(q, n + 1, c) /\ b.low = SubSeq(q, c + 1, Len(q))
                  /\ Blocks(SubSeq(q, 1, c)) /\ Blocks(SubSeq(q, c + 1, Len(q)))
  <1>1. Len(q) \in Nat /\ Size \in Nat \ {0} /\ n \in Nat /\ n <= Len(q)
    BY LenProperties, SocketAssumption
  <1>2. /\ t.low \in Seq(Units) /\ Len(t.low) = Len(q) - n
        /\ \A k \in 1..Len(q) - n : t.low[k] = q[n + k]
    BY <1>1, Part
  <1>3. CASE n = Len(q)
    <2>1. t.low = <<>>
      BY <1>1, <1>2, <1>3, EmptySeq
    <2>2. b = t
      BY <2>1 DEF Raised
    <2>3. SubSeq(q, n + 1, n) = <<>> /\ SubSeq(q, n + 1, Len(q)) = <<>>
      BY <1>1, <1>3, SubSeqEmpty
    <2>4. SubSeq(q, 1, n) = q
      BY <1>3, SubSeqFull
    <2>5. n \in n..Len(q)
      BY <1>1
    <2>6. /\ b.high = SubSeq(q, n + 1, n) /\ b.low = SubSeq(q, n + 1, Len(q))
          /\ Blocks(SubSeq(q, 1, n)) /\ Blocks(SubSeq(q, n + 1, Len(q)))
      BY <2>2, <2>3, <2>4, BlocksEmpty
    <2> QED
      BY <2>2, <2>5, <2>6 DEF SameButLists
  <1>4. CASE n # Len(q)
    <2>1. n + 1 \in 1..Len(q) /\ 1 \in 1..Len(q) - n
      BY <1>1, <1>4
    <2>2. PICK k \in 1..Len(q) : k = n + 1
      BY <2>1
    <2>3. PICK u \in 1..Size : q[k][2] = u
      BY BlockAt
    <2>4. t.low # <<>> /\ Head(t.low) = q[k]
      <3>1. t.low[1] = q[n + 1] /\ Len(t.low) > 0
        BY <1>1, <1>2, <2>1
      <3>2. ASSUME NEW e \in Seq(Units), Len(e) > 0 PROVE e # <<>> /\ Head(e) = e[1]
        BY <3>2
      <3> QED
        BY <3>1, <3>2, <1>2, <2>2
    <2>5. Head(t.low)[2] = u
      BY <2>3, <2>4
    <2>6. CASE u > 1
      <3>1. k - u + Size \in Int
        BY <1>1
      <3>2. PICK c \in Int : c = k - u + Size
        BY <3>1
      <3>3. /\ c \in 0..Len(q) /\ c >= k
            /\ \A d \in 1..Len(q) : d = c + 1 => q[d][2] = 1
        BY <2>3, <3>2, BlockEnd
      <3>4. Blocks(SubSeq(q, 1, c)) /\ Blocks(SubSeq(q, c + 1, Len(q)))
        BY <3>3, BlocksCut
      <3>5. PICK l \in Int : l = Size + 1 - u
        BY <1>1
      <3>6. l \in 0..Len(q) - n /\ n + l = c /\ c \in n..Len(q)
        BY <3>2, <3>3, <3>5, <2>2, <1>1
      <3>7. /\ SubSeq(t.low, 1, l) = SubSeq(q, n + 1, c)
            /\ SubSeq(t.low, l + 1, Len(t.low)) = SubSeq(q, c + 1, Len(q))
        BY <3>6, <1>2, PartOfEnd
      <3>8. b = [t EXCEPT !.high = SubSeq(t.low, 1, l),
                          !.low = SubSeq(t.low, l + 1, Len(t.low))]
        BY <2>4, <2>5, <2>6, <3>5 DEF Raised
      <3>9. /\ SubSeq(q, n + 1, c) \in Seq(Units) /\ SubSeq(q, c + 1, Len(q)) \in Seq(Units)
        BY <3>6, <1>1, Part
      <3>10. /\ b.high = SubSeq(q, n + 1, c) /\ b.low = SubSeq(q, c + 1, Len(q))
             /\ SameButLists(t, b) /\ b.dw_buffer = t.dw_buffer /\ b \in Socket
        BY <3>7, <3>8, <3>9 DEF Socket, SameButLists
      <3> QED
        BY <3>4, <3>6, <3>10
    <2>7. CASE ~(u > 1)
      <3>1. b = t
        BY <2>5, <2>7 DEF Raised
      <3>2. \A d \in 1..Len(q) : d = n + 1 => q[d][2] = 1
        BY <2>2, <2>3, <2>7, <1>1
      <3>3. Blocks(SubSeq(q, 1, n)) /\ Blocks(SubSeq(q, n + 1, Len(q)))
        BY <3>2, BlocksCut
      <3>4. SubSeq(q, n + 1, n) = <<>>
        BY <1>1, SubSeqEmpty
      <3>5. n \in n..Len(q)
        BY <1>1
      <3>6. b.high = SubSeq(q, n + 1, n) /\ b.low = SubSeq(q, n + 1, Len(q))
        BY <3>1, <3>4
      <3> QED
        BY <3>1, <3>3, <3>5, <3>6 DEF SameButLists
    <2> QED
      BY <2>6, <2>7
  <1> QED
    BY <1>3, <1>4

\* The kernel takes n units: they are followed by the rest, in whole messages.
LEMMA WrittenLists ==
    ASSUME NEW s \in Socket, NEW n \in 0..Len(Pending(s)), NEW w \in Seq(Units),
           Blocks(w \o High(s)), Blocks(s.low), NEW b, b = Written(s, n)
    PROVE  /\ b \in Socket /\ SameButLists(s, b) /\ b.dw_buffer = <<>>
           /\ Pending(b) = SubSeq(Pending(s), n + 1, Len(Pending(s)))
           /\ Blocks((w \o SubSeq(Pending(s), 1, n)) \o High(b)) /\ Blocks(b.low)
  <1>1. /\ High(s) \in Seq(Units) /\ s.low \in Seq(Units)
        /\ Len(High(s)) \in Nat /\ Len(s.low) \in Nat
        /\ Len(Pending(s)) = Len(High(s)) + Len(s.low)
    BY Lists
  <1>2. PICK h, l, k : h = High(s) /\ l = s.low /\ k = Len(h)
    OBVIOUS
  <1>3. /\ h \in Seq(Units) /\ l \in Seq(Units) /\ k \in Nat /\ Len(l) \in Nat
        /\ n \in Nat /\ n <= k + Len(l) /\ Pending(s) = h \o l
        /\ Blocks(w \o h) /\ Blocks(l) /\ Len(h) = k
    BY <1>1, <1>2 DEF Pending
  <1>4. PICK t : t = [s EXCEPT !.dw_buffer = <<>>,
                               !.high = SubSeq(h, n + 1, k),
                               !.low = IF n > k THEN SubSeq(@, n - k + 1, Len(@)) ELSE @]
    OBVIOUS
  <1>5. b = IF n >= k THEN Raised(t) ELSE t
    BY <1>2, <1>4 DEF Written
  <1>6. CASE n < k
    <2>1. SubSeq(h, n + 1, k) \in Seq(Units)
      BY <1>3, <1>6, Part
    <2>2. b = [s EXCEPT !.dw_buffer = <<>>, !.high = SubSeq(h, n + 1, k)]
      <3>1. ~(n >= k) /\ ~(n > k)
        BY <1>3, <1>6
      <3>2. b = t /\ t = [s EXCEPT !.dw_buffer = <<>>, !.high = SubSeq(h, n + 1, k), !.low = @]
        BY <3>1, <1>4, <1>5
      <3> QED
        BY <3>2 DEF Socket
    <2>3. b \in Socket /\ SameButLists(s, b)
      BY <2>1, <2>2, EmptySeq DEF Socket, SameButLists
    <2>4. b.dw_buffer = <<>> /\ b.high = SubSeq(h, n + 1, k) /\ b.low = l
      BY <2>2, <1>2 DEF Socket
    <2>5. n \in 0..Len(h)
      BY <1>3, <1>6
    <2>6. /\ SubSeq(h \o l, 1, n) = SubSeq(h, 1, n)
          /\ SubSeq(h \o l, n + 1, Len(h \o l)) = SubSeq(h, n + 1, k) \o l
      BY <2>5, <1>3, TakeLeft
    <2>7. High(b) = SubSeq(h, n + 1, k)
      BY <2>3, <2>4, Lists
    <2>8. Pending(b) = SubSeq(h \o l, n + 1, Len(h \o l))
      BY <2>4, <2>6, <2>7 DEF Pending
    <2>9. SubSeq(h, 1, n) \in Seq(Units)
      <3>1. SubSeq(h, 0 + 1, n) \in Seq(Units)
        BY <1>3, <1>6, Part
      <3> QED
        BY <3>1
    <2>10. SubSeq(h, 1, n) \o SubSeq(h, n + 1, k) = h
      BY <2>5, <1>3, Split
    <2>11. (w \o SubSeq(h, 1, n)) \o SubSeq(h, n + 1, k) = w \o h
      <3>1. (w \o SubSeq(h, 1, n)) \o SubSeq(h, n + 1, k)
            = w \o (SubSeq(h, 1, n) \o SubSeq(h, n + 1, k))
        BY <2>1, <2>9, Assoc
      <3> QED
        BY <3>1, <2>10
    <2> QED
      BY <2>3, <2>4, <2>6, <2>7, <2>8, <2>11, <1>3
  <1>7. CASE n >= k
    <2>1. n - k \in 0..Len(l)
      BY <1>3, <1>7
    <2>2. PICK m \in 0..Len(l) : m = n - k
      BY <2>1
    <2>3. Len(h) + m = n
      BY <2>2, <1>3
    <2>4. /\ SubSeq(h \o l, 1, n) = h \o SubSeq(l, 1, m)
          /\ SubSeq(h \o l, n + 1, Len(h \o l)) = SubSeq(l, m + 1, Len(l))
      <3>1. /\ SubSeq(h \o l, 1, Len(h) + m) = h \o SubSeq(l, 1, m)
            /\ SubSeq(h \o l, Len(h) + m + 1, Len(h \o l)) = SubSeq(l, m + 1, Len(l))
        BY <1>3, TakeRight
      <3> QED
        BY <3>1, <2>3
    <2>5. SubSeq(h, n + 1, k) = <<>>
      BY <1>3, <1>7, SubSeqEmpty
    <2>6. (IF n > k THEN SubSeq(l, n - k + 1, Len(l)) ELSE l) = SubSeq(l, m + 1, Len(l))
      <3>1. CASE n > k
        BY <3>1, <2>2
      <3>2. CASE ~(n > k)
        <4>1. m = 0
          BY <3>2, <2>2, <1>3, <1>7
        <4>2. SubSeq(l, 1, Len(l)) = l
          BY <1>3, SubSeqFull
        <4> QED
          BY <3>2, <4>1, <4>2
      <3> QED
        BY <3>1, <3>2
    <2>7. SubSeq(l, m + 1, Len(l)) \in Seq(Units)
      BY <2>2, <1>3, Part
    <2>8. t = [s EXCEPT !.dw_buffer = <<>>, !.high = <<>>, !.low = SubSeq(l, m + 1, Len(l))]
      BY <1>2, <1>4, <2>5, <2>6
    <2>9. /\ t \in Socket /\ t.high = <<>> /\ t.dw_buffer = <<>>
          /\ t.low = SubSeq(l, m + 1, Len(l)) /\ SameButLists(s, t)
      BY <2>7, <2>8, EmptySeq DEF Socket, SameButLists
    <2>10. b = Raised(t)
      BY <1>5, <1>7
    <2>11. /\ b \in Socket /\ SameButLists(t, b) /\ b.dw_buffer = t.dw_buffer
           /\ \E c \in m..Len(l) :
                  /\ b.high = SubSeq(l, m + 1, c) /\ b.low = SubSeq(l, c + 1, Len(l))
                  /\ Blocks(SubSeq(l, 1, c)) /\ Blocks(SubSeq(l, c + 1, Len(l)))
      BY <2>9, <2>10, <1>3, RaisedLists
    <2>12. PICK c \in m..Len(l) :
              /\ b.high = SubSeq(l, m + 1, c) /\ b.low = SubSeq(l, c + 1, Len(l))
              /\ Blocks(SubSeq(l, 1, c)) /\ Blocks(SubSeq(l, c + 1, Len(l)))
      BY <2>11
    <2>13. High(b) = SubSeq(l, m + 1, c)
      BY <2>9, <2>11, <2>12, Lists
    <2>14. m \in 0..Len(l) /\ c \in m..Len(l) /\ Len(l) \in c..Len(l) /\ 0 \in 0..Len(l)
      BY <2>2, <2>12, <1>3
    <2>15. Pending(b) = SubSeq(l, m + 1, Len(l))
      <3>1. SubSeq(l, m + 1, c) \o SubSeq(l, c + 1, Len(l)) = SubSeq(l, m + 1, Len(l))
        BY <2>14, <1>3, Adjacent
      <3> QED
        BY <3>1, <2>12, <2>13 DEF Pending
    <2>16. SubSeq(l, 1, m) \o SubSeq(l, m + 1, c) = SubSeq(l, 1, c)
      <3>1. m \in 0..Len(l) /\ SubSeq(l, 0 + 1, m) \o SubSeq(l, m + 1, c) = SubSeq(l, 0 + 1, c)
        BY <2>14, <1>3, Adjacent
      <3> QED
        BY <3>1
    <2>17. /\ SubSeq(l, 1, m) \in Seq(Units) /\ SubSeq(l, m + 1, c) \in Seq(Units)
           /\ SubSeq(l, 1, c) \in Seq(Units)
      <3>1. m \in Nat /\ c \in Nat /\ m <= c /\ c <= Len(l) /\ m <= Len(l)
        BY <2>2, <2>12, <1>3
      <3>2. SubSeq(l, 0 + 1, m) \in Seq(Units)
        BY <3>1, <1>3, Part
      <3>3. SubSeq(l, 0 + 1, c) \in Seq(Units)
        BY <3>1, <1>3, Part
      <3>4. SubSeq(l, m + 1, c) \in Seq(Units)
        BY <3>1, <1>3, Part
      <3> QED
        BY <3>2, <3>3, <3>4
    <2>18. (w \o (h \o SubSeq(l, 1, m))) \o SubSeq(l, m + 1, c) = (w \o h) \o SubSeq(l, 1, c)
      <3>1. w \o (h \o SubSeq(l, 1, m)) = (w \o h) \o SubSeq(l, 1, m)
        BY <2>17, <1>3, Assoc
      <3>2. w \o h \in Seq(Units)
        BY <1>3, Concat
      <3>3. ((w \o h) \o SubSeq(l, 1, m)) \o SubSeq(l, m + 1, c)
            = (w \o h) \o (SubSeq(l, 1, m) \o SubSeq(l, m + 1, c))
        BY <3>2, <2>17, Assoc
      <3> QED
        BY <3>1, <3>3, <2>16
    <2>19. Blocks((w \o h) \o SubSeq(l, 1, c))
      <3>1. w \o h \in Seq(Units)
        BY <1>3, Concat
      <3> QED
        BY <3>1, <2>12, <2>17, <1>3, BlocksConcat
    <2>20. SameButLists(s, b)
      BY <2>9, <2>11 DEF SameButLists
    <2> QED
      BY <2>4, <2>9, <2>11, <2>12, <2>13, <2>15, <2>18, <2>19, <2>20, <1>3
  <1> QED
    BY <1>3, <1>6, <1>7

\* t is s after force_close.
Emptied(s, t) ==
    /\ t \in Socket /\ t.type = "INVALID" /\ t.id = s.id /\ t.tcp = s.tcp /\ t.tag = s.tag
    /\ t.sending = s.sending /\ t.lock = s.lock
    /\ t.high = <<>> /\ t.low = <<>> /\ t.dw_buffer = <<>>

\* force_close empties the lists and leaves the count.
LEMMA ForceClosedEmptied ==
    ASSUME NEW s \in Socket PROVE Emptied(s, ForceClosed(s))
  <1>1. <<>> \in Seq(Units)
    BY EmptySeq
  <1> QED
    BY <1>1 DEF Emptied, ForceClosed, Closed, Freed, Socket, Types

\* ... also when dw_buffer was moved to the high list before
LEMMA ListedEmptied ==
    ASSUME NEW s \in Socket PROVE Emptied(s, ForceClosed(Listed(s)))
  <1>1. Listed(s) \in Socket
    BY Lists, EmptySeq DEF Listed, Socket
  <1>2. Emptied(Listed(s), ForceClosed(Listed(s)))
    BY <1>1, ForceClosedEmptied
  <1> QED
    BY <1>2 DEF Emptied, Listed, Socket

\* send_buffer leaves a connection with the rest, or closes a half closed one
\* when the kernel took everything.
LEMMA SendBufferLists ==
    ASSUME NEW s \in Socket, Live(s), NEW n \in 0..Len(Pending(s)), NEW w \in Seq(Units),
           Blocks(w \o High(s)), Blocks(s.low), NEW b, b = SendBuffer(s, n)
    PROVE  \/ /\ Emptied(s, b) /\ s.type = "HALFCLOSE" /\ n = Len(Pending(s))
           \/ /\ b \in Socket /\ b.type = s.type /\ b.id = s.id /\ b.tcp = s.tcp /\ b.tag = s.tag
              /\ b.sending = s.sending /\ b.lock = s.lock /\ b.lost = s.lost /\ b.dw_buffer = <<>>
              /\ Pending(b) = SubSeq(Pending(s), n + 1, Len(Pending(s)))
              /\ Blocks((w \o SubSeq(Pending(s), 1, n)) \o High(b)) /\ Blocks(b.low)
  <1>1. PICK r : r = Written(s, n)
    OBVIOUS
  <1>2. /\ r \in Socket /\ SameButLists(s, r) /\ r.dw_buffer = <<>>
        /\ Pending(r) = SubSeq(Pending(s), n + 1, Len(Pending(s)))
        /\ Blocks((w \o SubSeq(Pending(s), 1, n)) \o High(r)) /\ Blocks(r.low)
    BY <1>1, WrittenLists
  <1>3. PICK o : o = [r EXCEPT !.writing = FALSE]
    OBVIOUS
  <1>4. b = IF ~send_buffer_empty(r) THEN r
            ELSE IF r.type = "HALFCLOSE" THEN ForceClosed(o) ELSE o
    BY <1>1, <1>3 DEF SendBuffer
  <1>5. /\ o \in Socket /\ o.type = r.type /\ o.id = r.id /\ o.tcp = r.tcp /\ o.tag = r.tag
        /\ o.sending = r.sending /\ o.lock = r.lock /\ o.dw_buffer = r.dw_buffer
        /\ o.high = r.high /\ o.low = r.low /\ o.lost = r.lost
    BY <1>2, <1>3 DEF Socket
  <1>6. Pending(o) = Pending(r) /\ High(o) = High(r)
    BY <1>5 DEF Pending, High
  <1>7. CASE b = r
    BY <1>2, <1>7 DEF SameButLists
  <1>8. CASE b = o
    BY <1>2, <1>5, <1>6, <1>8 DEF SameButLists
  <1>9. CASE send_buffer_empty(r) /\ r.type = "HALFCLOSE" /\ b = ForceClosed(o)
    <2>1. Emptied(o, b)
      BY <1>5, <1>9, ForceClosedEmptied
    <2>2. Emptied(s, b)
      BY <2>1, <1>2, <1>5 DEF Emptied, SameButLists
    <2>3. Pending(r) = <<>>
      BY <1>2, <1>9, Lists DEF send_buffer_empty
    <2>4. n = Len(Pending(s))
      <3>1. Pending(s) \in Seq(Units) /\ Len(Pending(s)) \in Nat
        BY Lists, LenProperties
      <3>2. PICK l \in Nat : l = Len(Pending(s))
        BY <3>1
      <3>3. n \in Nat /\ n <= l
        BY <3>2
      <3>4. Len(SubSeq(Pending(s), n + 1, l)) = l - n
        BY <3>1, <3>2, <3>3, Part
      <3>5. Len(SubSeq(Pending(s), n + 1, l)) = 0
        <4>1. SubSeq(Pending(s), n + 1, l) = <<>>
          BY <2>3, <1>2, <3>2
        <4>2. ASSUME NEW q, q = <<>> PROVE Len(q) = 0
          BY <4>2
        <4> QED
          BY <4>1, <4>2
      <3> QED
        BY <3>2, <3>3, <3>4, <3>5
    <2> QED
      BY <2>2, <2>4, <1>2, <1>9 DEF SameButLists
  <1> QED
    BY <1>4, <1>7, <1>8, <1>9

-----------------------------------------------------------------------------
(* The pipe *)

\* The pipe without its first command
LEMMA PipeTail ==
    ASSUME NEW p \in Seq(Cmds), p # <<>>
    PROVE  /\ Tail(p) \in Seq(Cmds) /\ Len(Tail(p)) = Len(p) - 1 /\ Len(p) \in Nat \ {0}
           /\ Head(p) = p[1] /\ p[1] \in Cmds /\ 1 \in 1..Len(p)
           /\ \A k \in 1..Len(p) - 1 : Tail(p)[k] = p[k + 1] /\ k + 1 \in 1..Len(p)
  <1>1. Len(p) \in Nat \ {0}
    BY EmptySeq
  <1>2. /\ Tail(p) \in Seq(Cmds) /\ Len(Tail(p)) = Len(p) - 1
        /\ \A k \in 1..Len(Tail(p)) : Tail(p)[k] = p[k + 1]
    BY HeadTailProperties
  <1>3. 1 \in 1..Len(p) /\ \A k \in 1..Len(p) - 1 : k + 1 \in 1..Len(p)
    BY <1>1
  <1>4. p[1] \in Cmds
    BY <1>3, ElementOfSeq
  <1>5. Head(p) = p[1]
    OBVIOUS
  <1> QED
    BY <1>1, <1>2, <1>3, <1>4, <1>5

\* The pipe with one more command
LEMMA PipeAppend ==
    ASSUME NEW p \in Seq(Cmds), NEW c \in Cmds, NEW q, q = Append(p, c)
    PROVE  /\ q \in Seq(Cmds) /\ Len(q) = Len(p) + 1 /\ Len(p) \in Nat
           /\ \A k \in 1..Len(p) : q[k] = p[k]
           /\ \A k \in 1..Len(q) : k \notin 1..Len(p) => k = Len(p) + 1 /\ q[k] = c
  <1>1. Len(p) \in Nat /\ q \in Seq(Cmds) /\ Len(q) = Len(p) + 1
    BY LenProperties
  <1>2. \A k \in 1..Len(p) : q[k] = p[k]
    BY <1>1
  <1>3. q[Len(p) + 1] = c
    BY <1>1
  <1>4. \A k \in 1..Len(q) : k \notin 1..Len(p) => k = Len(p) + 1
    BY <1>1
  <1> QED
    BY <1>1, <1>2, <1>3, <1>4

\* The messages underway are finitely many.
LEMMA Counts ==
    ASSUME NEW p \in Seq(Cmds), NEW T, NEW id
    PROVE  /\ IsFiniteSet(InPipe(p, id)) /\ Cardinality(InPipe(p, id)) \in Nat
           /\ IsFiniteSet(InHand(T, id)) /\ Cardinality(InHand(T, id)) \in Nat
           /\ Messages(p, T, id) \in Nat
  <1>1. IsFiniteSet(1..Len(p)) /\ InPipe(p, id) \in SUBSET (1..Len(p))
    BY LenProperties, FS_Interval DEF InPipe
  <1>2. IsFiniteSet(Services) /\ InHand(T, id) \in SUBSET Services
    BY SocketAssumption DEF InHand
  <1>3. IsFiniteSet(InPipe(p, id)) /\ IsFiniteSet(InHand(T, id))
    BY <1>1, <1>2, FS_Subset
  <1>4. Cardinality(InPipe(p, id)) \in Nat /\ Cardinality(InHand(T, id)) \in Nat
    BY <1>3, FS_CardinalityType
  <1> QED
    BY <1>3, <1>4 DEF Messages

\* A command that is taken lowers the number if it is a message for id.
LEMMA CountTail ==
    ASSUME NEW p \in Seq(Cmds), p # <<>>, NEW id
    PROVE  Cardinality(InPipe(Tail(p), id)) <=
               Cardinality(InPipe(p, id))
               - (IF p[1].id = id /\ p[1].cmd \in MsgCmds THEN 1 ELSE 0)
  <1> DEFINE A == InPipe(Tail(p), id)
             B == InPipe(p, id)
             f == [k \in A |-> k + 1]
  <1>1. /\ Tail(p) \in Seq(Cmds) /\ Len(Tail(p)) = Len(p) - 1 /\ Len(p) \in Nat \ {0}
        /\ 1 \in 1..Len(p)
        /\ \A k \in 1..Len(p) - 1 : Tail(p)[k] = p[k + 1] /\ k + 1 \in 1..Len(p)
    BY PipeTail
  <1>2. IsFiniteSet(A) /\ IsFiniteSet(B) /\ Cardinality(A) \in Nat /\ Cardinality(B) \in Nat
    BY <1>1, Counts
  <1>3. \A k \in A : k \in Int /\ k + 1 \in B \ {1}
    BY <1>1 DEF InPipe
  <1>4. f \in Injection(A, B \ {1})
    BY <1>3 DEF Injection, IsInjective
  <1>5. /\ IsFiniteSet(B \ {1})
        /\ Cardinality(B \ {1}) = IF 1 \in B THEN Cardinality(B) - 1 ELSE Cardinality(B)
    BY <1>2, FS_RemoveElement
  <1>6. Cardinality(A) <= Cardinality(B \ {1})
    BY <1>4, <1>5, FS_Injection
  <1>7. 1 \in B <=> p[1].id = id /\ p[1].cmd \in MsgCmds
    BY <1>1 DEF InPipe
  <1> QED
    BY <1>2, <1>5, <1>6, <1>7

\* A command that is sent raises the number if it is a message for id.
LEMMA CountAppend ==
    ASSUME NEW p \in Seq(Cmds), NEW c \in Cmds, NEW id
    PROVE  Cardinality(InPipe(Append(p, c), id)) <=
               Cardinality(InPipe(p, id))
               + (IF c.id = id /\ c.cmd \in MsgCmds THEN 1 ELSE 0)
  <1> DEFINE q == Append(p, c)
             A == InPipe(q, id)
             B == InPipe(p, id)
  <1>1. /\ q \in Seq(Cmds) /\ Len(q) = Len(p) + 1 /\ Len(p) \in Nat
        /\ \A k \in 1..Len(p) : q[k] = p[k]
        /\ \A k \in 1..Len(q) : k \notin 1..Len(p) => k = Len(p) + 1 /\ q[k] = c
    BY PipeAppend
  <1> HIDE DEF q
  <1>2. IsFiniteSet(A) /\ IsFiniteSet(B) /\ Cardinality(A) \in Nat /\ Cardinality(B) \in Nat
    BY <1>1, Counts
  <1>3. A \subseteq B \cup {Len(p) + 1}
    BY <1>1 DEF InPipe
  <1>4. ~(c.id = id /\ c.cmd \in MsgCmds) => A \subseteq B
    BY <1>1 DEF InPipe
  <1>5. /\ IsFiniteSet(B \cup {Len(p) + 1})
        /\ Cardinality(B \cup {Len(p) + 1})
           = IF Len(p) + 1 \in B THEN Cardinality(B) ELSE Cardinality(B) + 1
    BY <1>2, FS_AddElement
  <1>6. Cardinality(A) <= Cardinality(B \cup {Len(p) + 1})
    BY <1>3, <1>5, FS_Subset
  <1>7. ~(c.id = id /\ c.cmd \in MsgCmds) => Cardinality(A) <= Cardinality(B)
    BY <1>2, <1>4, FS_Subset
  <1>8. Cardinality(A) <= Cardinality(B) + (IF c.id = id /\ c.cmd \in MsgCmds THEN 1 ELSE 0)
    BY <1>2, <1>5, <1>6, <1>7
  <1> QED
    BY <1>8 DEF q

\* One service goes on: the number of messages that services are about to send
LEMMA CountHand ==
    ASSUME NEW T, NEW U, NEW v \in Services, NEW id,
           \A x \in Services : x # v => U[x] = T[x]
    PROVE  /\ Cardinality(InHand(U, id)) <= Cardinality(InHand(T, id)) + 1
           /\ v \notin InHand(U, id) =>
                  Cardinality(InHand(U, id)) <= Cardinality(InHand(T, id))
           /\ v \notin InHand(U, id) /\ v \in InHand(T, id) =>
                  Cardinality(InHand(U, id)) <= Cardinality(InHand(T, id)) - 1
  <1> DEFINE A == InHand(U, id)
             B == InHand(T, id)
  <1>1. <<>> \in Seq(Cmds)
    BY EmptySeq
  <1>2. IsFiniteSet(A) /\ IsFiniteSet(B) /\ Cardinality(A) \in Nat /\ Cardinality(B) \in Nat
    BY <1>1, Counts
  <1>3. A \subseteq B \cup {v}
    BY DEF InHand
  <1>4. v \notin A => A \subseteq B \ {v}
    BY DEF InHand
  <1> HIDE DEF A, B
  <1>5. /\ IsFiniteSet(B \cup {v})
        /\ Cardinality(B \cup {v}) = IF v \in B THEN Cardinality(B) ELSE Cardinality(B) + 1
    BY <1>2, FS_AddElement
  <1>6. /\ IsFiniteSet(B \ {v})
        /\ Cardinality(B \ {v}) = IF v \in B THEN Cardinality(B) - 1 ELSE Cardinality(B)
    BY <1>2, FS_RemoveElement
  <1>7. Cardinality(A) <= Cardinality(B \cup {v})
    BY <1>3, <1>5, FS_Subset
  <1>8. v \notin A => Cardinality(A) <= Cardinality(B \ {v})
    BY <1>4, <1>6, FS_Subset
  <1>9. /\ Cardinality(A) <= Cardinality(B) + 1
        /\ v \notin A => Cardinality(A) <= Cardinality(B)
        /\ v \notin A /\ v \in B => Cardinality(A) <= Cardinality(B) - 1
    BY <1>2, <1>5, <1>6, <1>7, <1>8
  <1> QED
    BY <1>9 DEF A, B

\* What was in the pipe for another id, or before, stays there.
LEMMA PipedTail ==
    ASSUME NEW p \in Seq(Cmds), p # <<>>, NEW id, NEW m, Piped(p, id, m),
           p[1].id # id \/ p[1].cmd \notin MsgCmds \/ p[1].msg # m
    PROVE  Piped(Tail(p), id, m)
  <1>1. /\ Tail(p) \in Seq(Cmds) /\ Len(Tail(p)) = Len(p) - 1 /\ Len(p) \in Nat \ {0}
        /\ \A k \in 1..Len(p) - 1 : Tail(p)[k] = p[k + 1] /\ k + 1 \in 1..Len(p)
    BY PipeTail
  <1>2. PICK k \in 1..Len(p) :
            /\ p[k].id = id /\ p[k].cmd \in MsgCmds /\ p[k].msg = m
            /\ \A j \in 1..k - 1 : p[j].cmd = "K" => p[j].id # id
    BY DEF Piped
  <1>3. k # 1
    BY <1>2
  <1>4. k - 1 \in 1..Len(p) - 1
    BY <1>1, <1>3
  <1>5. PICK n \in 1..Len(p) - 1 : n = k - 1
    BY <1>4
  <1>6. n + 1 = k /\ Tail(p)[n] = p[k]
    BY <1>1, <1>5
  <1>7. ASSUME NEW j \in 1..n - 1 PROVE Tail(p)[j].cmd = "K" => Tail(p)[j].id # id
    <2>1. j + 1 \in 1..k - 1 /\ j \in 1..Len(p) - 1
      BY <1>1, <1>5
    <2> QED
      BY <2>1, <1>1, <1>2
  <1> QED
    BY <1>1, <1>2, <1>6, <1>7 DEF Piped

\* What was in the pipe stays there when a command is sent.
LEMMA PipedAppend ==
    ASSUME NEW p \in Seq(Cmds), NEW c \in Cmds, NEW id, NEW m, Piped(p, id, m)
    PROVE  Piped(Append(p, c), id, m)
  <1> DEFINE q == Append(p, c)
  <1>1. /\ q \in Seq(Cmds) /\ Len(q) = Len(p) + 1 /\ Len(p) \in Nat
        /\ \A k \in 1..Len(p) : q[k] = p[k]
    BY PipeAppend
  <1> HIDE DEF q
  <1>2. PICK k \in 1..Len(p) :
            /\ p[k].id = id /\ p[k].cmd \in MsgCmds /\ p[k].msg = m
            /\ \A j \in 1..k - 1 : p[j].cmd = "K" => p[j].id # id
    BY DEF Piped
  <1>3. k \in 1..Len(q) /\ \A j \in 1..k - 1 : j \in 1..Len(p)
    BY <1>1
  <1>4. Piped(q, id, m)
    BY <1>1, <1>2, <1>3 DEF Piped
  <1> QED
    BY <1>4 DEF q

-----------------------------------------------------------------------------
(* Steps.  A step changes one slot, with what is recorded of its id, or none. *)

Known == {"none", "accepted", "open"}

\* The slot of t becomes t; its id has come to the connection c and is known as x.
\* It keeps its id, or is given a new one.
Change(t, c, x) ==
    /\ t \in Socket /\ t.id \in Ids /\ c \in Conns /\ x \in Known
    /\ slot' = [slot EXCEPT ![HASH_ID(t.id)] = t]
    /\ conn' = [conn EXCEPT ![t.id] = c]
    /\ known' = [known EXCEPT ![t.id] = x]
    /\ cut' = cut
    /\ \/ /\ slot[HASH_ID(t.id)].id = t.id /\ (slot[HASH_ID(t.id)].tcp => t.tcp)
          /\ alloc_id' = alloc_id
       \/ slot[HASH_ID(t.id)].type = "INVALID" /\ alloc_id < t.id /\ alloc_id' = t.id

\* No slot is changed.
Still ==
    /\ slot' = slot /\ conn' = conn /\ known' = known
    /\ alloc_id' = alloc_id /\ cut' = cut

\* What the command k is sent with, and the first command is taken
Sends(k) ==
    /\ k \in Cmds /\ (k.cmd \in MsgCmds => k.msg \in Msgs)
    /\ pipe' = Append(pipe, k)
Drops == pipe # <<>> /\ pipe' = Tail(pipe)

\* A service goes on: what it is sending is u.
Moves(v, u) ==
    /\ v \in Services /\ u \in Threads /\ th' = [th EXCEPT ![v] = u]
    /\ u.pc # "idle" => /\ u.id \in Ids /\ u.msg \in Msgs /\ u.msg.from = v
                        /\ u.pc = "write" => u.cmd = "D"

\* The ids of the slots
LEMMA SlotIds ==
    ASSUME TypeInv, SlotInv, NEW j \in Slots
    PROVE  /\ slot[j] \in Socket /\ slot[j].id \in {0} \cup Ids
           /\ slot[j].id \in Ids => HASH_ID(slot[j].id) = j /\ slot[j].id <= alloc_id
           /\ slot[j].tcp => slot[j].id \in Ids
           /\ slot[j].type # "INVALID" => slot[j].id \in Ids
           /\ Live(slot[j]) => slot[j].tcp
           /\ slot[j].lock # Nobody => Live(slot[j])
  <1>1. slot[j] \in Socket
    BY DEF TypeInv
  <1>2. slot[j].id \in {0} \cup Ids
    BY <1>1 DEF Socket
  <1>3. SlotOK(j, slot[j], alloc_id)
    BY DEF SlotInv
  <1>4. \A d \in Ids : d # 0
    BY DEF Ids
  <1> QED
    BY <1>1, <1>2, <1>3, <1>4 DEF SlotOK

\* What is changed, and what is not
LEMMA Changed ==
    ASSUME TypeInv, SlotInv, NEW t, NEW c, NEW x, Change(t, c, x)
    PROVE  /\ HASH_ID(t.id) \in Slots /\ slot'[HASH_ID(t.id)] = t
           /\ \A j \in Slots : j # HASH_ID(t.id) =>
                  /\ slot'[j] = slot[j] /\ slot[j].id # t.id
                  /\ slot[j].id \in Ids => conn'[slot[j].id] = conn[slot[j].id]
           /\ conn'[t.id] = c /\ \A d \in Ids : d # t.id => conn'[d] = conn[d]
           /\ known'[t.id] = x /\ \A d \in Ids : d # t.id => known'[d] = known[d]
           /\ alloc_id' \in 0..MaxId /\ alloc_id <= alloc_id'
           /\ slot' \in [Slots -> Socket] /\ conn' \in [Ids -> Conns] /\ known' \in [Ids -> Known]
  <1>1. HASH_ID(t.id) \in Slots
    BY HashSlot DEF Change, Ids
  <1>2. slot \in [Slots -> Socket] /\ conn \in [Ids -> Conns] /\ known \in [Ids -> Known]
    BY DEF TypeInv, Known
  <1>3. /\ slot'[HASH_ID(t.id)] = t /\ slot' \in [Slots -> Socket]
        /\ \A j \in Slots : j # HASH_ID(t.id) => slot'[j] = slot[j]
    BY <1>1, <1>2 DEF Change
  <1>4. /\ conn'[t.id] = c /\ conn' \in [Ids -> Conns]
        /\ \A d \in Ids : d # t.id => conn'[d] = conn[d]
    BY <1>2 DEF Change
  <1>5. /\ known'[t.id] = x /\ known' \in [Ids -> Known]
        /\ \A d \in Ids : d # t.id => known'[d] = known[d]
    BY <1>2 DEF Change
  <1>6. \A j \in Slots : j # HASH_ID(t.id) => slot[j].id # t.id
    BY SlotIds DEF Change
  <1>7. alloc_id' \in 0..MaxId /\ alloc_id <= alloc_id'
    <2>1. alloc_id \in 0..MaxId /\ MaxId \in Nat /\ t.id \in 1..MaxId
      BY SocketAssumption DEF TypeInv, Change, Ids
    <2>2. alloc_id' = alloc_id \/ (alloc_id < t.id /\ alloc_id' = t.id)
      BY DEF Change
    <2> QED
      BY <2>1, <2>2
  <1> QED
    BY <1>1, <1>3, <1>4, <1>5, <1>6, <1>7

\* The other slots stay as they should be.
LEMMA ChangeSlots ==
    ASSUME TypeInv, SlotInv, NEW t, NEW c, NEW x, Change(t, c, x),
           SlotOK(HASH_ID(t.id), t, alloc_id')
    PROVE  SlotInv'
  <1>1. ASSUME NEW j \in Slots PROVE SlotOK(j, slot'[j], alloc_id')
    <2>1. CASE j = HASH_ID(t.id)
      BY <2>1, Changed
    <2>2. CASE j # HASH_ID(t.id)
      <3>1. slot'[j] = slot[j] /\ alloc_id <= alloc_id'
        BY <2>2, Changed
      <3>2. SlotOK(j, slot[j], alloc_id)
        BY DEF SlotInv
      <3>4. slot[j].id \in Ids \/ slot[j].id = 0
        BY SlotIds
      <3>5. slot[j].id # 0 => slot[j].id <= alloc_id'
        <4>1. alloc_id \in Int /\ alloc_id' \in Int
          BY Changed DEF TypeInv
        <4>2. slot[j].id # 0 => slot[j].id \in Int /\ slot[j].id <= alloc_id
          BY <3>2, <3>4 DEF SlotOK, Ids
        <4> QED
          BY <4>1, <4>2, <3>1
      <3> QED
        BY <3>1, <3>2, <3>5 DEF SlotOK
    <2> QED
      BY <2>1, <2>2
  <1> QED
    BY <1>1 DEF SlotInv

\* An id that is not the slot's is not known.
LEMMA ChangeKnown ==
    ASSUME TypeInv, SlotInv, KnownInv, NEW t, NEW c, NEW x, Change(t, c, x),
           KnownOK(t.id, t, x, c)
    PROVE  KnownInv'
  <1>1. ASSUME NEW d \in Ids PROVE KnownOK(d, slot'[HASH_ID(d)], known'[d], conn'[d])
    <2>1. CASE d = t.id
      BY <2>1, Changed
    <2>2. CASE d # t.id
      <3>1. /\ known'[d] = known[d] /\ conn'[d] = conn[d]
            /\ KnownOK(d, slot[HASH_ID(d)], known[d], conn[d])
        BY <2>2, Changed DEF KnownInv
      <3>2. CASE HASH_ID(d) # HASH_ID(t.id)
        <4>1. HASH_ID(d) \in Slots
          BY HashSlot DEF Ids
        <4>2. slot'[HASH_ID(d)] = slot[HASH_ID(d)]
          BY <3>2, <4>1, Changed
        <4> QED
          BY <3>1, <4>2
      <3>3. CASE HASH_ID(d) = HASH_ID(t.id)
        <4>1. slot[HASH_ID(d)].id # d \/ ~Live(slot[HASH_ID(d)])
          BY <3>3, <2>2 DEF Change, Live
        <4>2. known[d] = "none" /\ conn[d] = NoConn
          BY <3>1, <4>1 DEF KnownOK
        <4> QED
          BY <3>1, <4>2 DEF KnownOK, NoConn
      <3> QED
        BY <3>2, <3>3
    <2> QED
      BY <2>1, <2>2
  <1> QED
    BY <1>1 DEF KnownInv

\* The wires of the other slots are not written.
LEMMA ChangeWire ==
    ASSUME TypeInv, SlotInv, WireInv, NEW t, NEW c, NEW x, Change(t, c, x),
           Kept(t) => WireOK(t, c.wire)
    PROVE  WireInv'
  <1>1. ASSUME NEW j \in Slots, Kept(slot'[j])
        PROVE  WireOK(slot'[j], conn'[slot'[j].id].wire)
    <2>1. CASE j = HASH_ID(t.id)
      BY <2>1, <1>1, Changed
    <2>2. CASE j # HASH_ID(t.id)
      <3>1. slot'[j] = slot[j]
        BY <2>2, Changed
      <3>2. slot[j].id \in Ids
        BY <1>1, <3>1, SlotIds DEF Kept, Live
      <3>3. conn'[slot[j].id] = conn[slot[j].id]
        BY <2>2, <3>2, Changed
      <3> QED
        BY <1>1, <3>1, <3>3 DEF WireInv
    <2> QED
      BY <2>1, <2>2
  <1> QED
    BY <1>1 DEF WireInv

\* The locks of the other slots are not touched.
LEMMA ChangeLock ==
    ASSUME TypeInv, SlotInv, LockInv, NEW t, NEW c, NEW x, Change(t, c, x),
           LockOK(HASH_ID(t.id), t, th'),
           \A v \in Services : \/ th'[v] = th[v]
                               \/ /\ th[v].pc = "write" => HASH_ID(th[v].id) = HASH_ID(t.id)
                                  /\ th'[v].pc = "write" => HASH_ID(th'[v].id) = HASH_ID(t.id)
    PROVE  LockInv'
  <1>1. ASSUME NEW j \in Slots PROVE LockOK(j, slot'[j], th')
    <2>1. CASE j = HASH_ID(t.id)
      BY <2>1, Changed
    <2>2. CASE j # HASH_ID(t.id)
      <3>1. slot'[j] = slot[j] /\ LockOK(j, slot[j], th)
        BY <2>2, Changed DEF LockInv
      <3>2. ASSUME NEW v \in Services
            PROVE  /\ slot[j].lock = v <=> th'[v].pc = "write" /\ HASH_ID(th'[v].id) = j
                   /\ slot[j].lock = v => slot[j].id = th'[v].id
        <4>1. /\ slot[j].lock = v <=> th[v].pc = "write" /\ HASH_ID(th[v].id) = j
              /\ slot[j].lock = v => slot[j].id = th[v].id
          BY <3>1 DEF LockOK
        <4>2. CASE th'[v] = th[v]
          BY <4>1, <4>2
        <4>3. CASE th'[v] # th[v]
          BY <4>1, <4>3, <2>2
        <4> QED
          BY <4>2, <4>3
      <3> QED
        BY <3>1, <3>2 DEF LockOK
    <2> QED
      BY <2>1, <2>2
  <1> QED
    BY <1>1 DEF LockInv

\* The commands in the pipe are commands for ids.
LEMMA PipeCmds ==
    ASSUME TypeInv
    PROVE  \A k \in 1..Len(pipe) : pipe[k] \in Cmds /\ pipe[k].id \in Ids
  <1>1. \A k \in 1..Len(pipe) : pipe[k] \in Cmds
    BY ElementOfSeq DEF TypeInv
  <1> QED
    BY <1>1 DEF Cmds

\* A command that stays in the pipe still has its slot: the slot that changes is
\* not reserved for it.
LEMMA ChangeCmd ==
    ASSUME TypeInv, SlotInv, PipeInv, NEW t, NEW c, NEW x, Change(t, c, x),
           NEW k \in 1..Len(pipe),
           slot[HASH_ID(t.id)].type = "RESERVE" => pipe[k].cmd # "O" \/ pipe[k].id # t.id
    PROVE  CmdOK(pipe[k], slot'[HASH_ID(pipe[k].id)], alloc_id')
  <1>1. pipe[k] \in Cmds /\ pipe[k].id \in Ids
    BY PipeCmds
  <1>2. CmdOK(pipe[k], slot[HASH_ID(pipe[k].id)], alloc_id)
    BY DEF PipeInv
  <1>3. pipe[k].id <= alloc_id'
    <2>1. alloc_id \in Int /\ alloc_id' \in Int /\ alloc_id <= alloc_id' /\ pipe[k].id \in Int
      BY <1>1, Changed DEF TypeInv, Ids
    <2>2. pipe[k].id <= alloc_id
      BY <1>2 DEF CmdOK
    <2> QED
      BY <2>1, <2>2
  <1>4. CASE HASH_ID(pipe[k].id) # HASH_ID(t.id)
    <2>1. HASH_ID(pipe[k].id) \in Slots
      BY <1>1, HashSlot DEF Ids
    <2>2. slot'[HASH_ID(pipe[k].id)] = slot[HASH_ID(pipe[k].id)]
      BY <2>1, <1>4, Changed
    <2> QED
      BY <2>2, <1>2, <1>3 DEF CmdOK
  <1>5. CASE HASH_ID(pipe[k].id) = HASH_ID(t.id)
    <2>1. slot'[HASH_ID(pipe[k].id)] = t
      BY <1>5, Changed
    <2>2. CASE slot[HASH_ID(t.id)].id = t.id /\ (slot[HASH_ID(t.id)].tcp => t.tcp)
      BY <2>1, <2>2, <1>2, <1>3, <1>5 DEF CmdOK
    <2>3. CASE slot[HASH_ID(t.id)].type = "INVALID" /\ alloc_id < t.id
      <3>1. pipe[k].cmd # "O"
        BY <2>3, <1>2, <1>5 DEF CmdOK
      <3>2. pipe[k].id # t.id
        <4>1. alloc_id \in Int /\ pipe[k].id \in Int /\ pipe[k].id <= alloc_id
          BY <1>1, <1>2 DEF TypeInv, Ids, CmdOK
        <4> QED
          BY <4>1, <2>3
      <3> QED
        BY <3>1, <3>2, <2>1, <1>3 DEF CmdOK
    <2> QED
      BY <2>2, <2>3 DEF Change
  <1> QED
    BY <1>4, <1>5

\* The pipe after a step, if the commands that stay in it, and a new one, are
\* as they should be
LEMMA StepPipe ==
    ASSUME TypeInv, PipeInv,
           \A k \in 1..Len(pipe) : (Drops => k # 1) =>
               CmdOK(pipe[k], slot'[HASH_ID(pipe[k].id)], alloc_id'),
           \/ pipe' = pipe
           \/ Drops
           \/ \E k : /\ Sends(k) /\ CmdOK(k, slot'[HASH_ID(k.id)], alloc_id')
                     /\ k.cmd = "O" =>
                            \A n \in 1..Len(pipe) : pipe[n].cmd = "O" => pipe[n].id # k.id
    PROVE  PipeInv'
  <1>1. pipe \in Seq(Cmds) /\ Len(pipe) \in Nat
    BY LenProperties DEF TypeInv
  <1>2. CASE pipe' = pipe /\ ~Drops
    BY <1>2 DEF PipeInv
  <1>3. CASE Drops
    <2>1. /\ pipe' \in Seq(Cmds) /\ Len(pipe') = Len(pipe) - 1 /\ Len(pipe) \in Nat \ {0}
          /\ \A k \in 1..Len(pipe) - 1 : pipe'[k] = pipe[k + 1] /\ k + 1 \in 1..Len(pipe)
      BY <1>1, <1>3, PipeTail DEF Drops
    <2>2. ASSUME NEW k \in 1..Len(pipe')
          PROVE  CmdOK(pipe'[k], slot'[HASH_ID(pipe'[k].id)], alloc_id')
      <3>1. pipe'[k] = pipe[k + 1] /\ k + 1 \in 1..Len(pipe) /\ k + 1 # 1
        BY <2>1
      <3> QED
        BY <3>1
    <2>3. ASSUME NEW j \in 1..Len(pipe'), NEW k \in 1..Len(pipe'),
                 pipe'[j].cmd = "O", pipe'[k].cmd = "O", pipe'[j].id = pipe'[k].id
          PROVE  j = k
      <3>1. /\ pipe'[k] = pipe[k + 1] /\ k + 1 \in 1..Len(pipe)
            /\ pipe'[j] = pipe[j + 1] /\ j + 1 \in 1..Len(pipe)
        BY <2>1
      <3>2. j + 1 = k + 1
        BY <2>3, <3>1 DEF PipeInv
      <3> QED
        BY <3>2, <2>1
    <2> QED
      BY <2>2, <2>3 DEF PipeInv
  <1>4. ASSUME NEW c, Sends(c), CmdOK(c, slot'[HASH_ID(c.id)], alloc_id'), ~Drops,
               c.cmd = "O" => \A n \in 1..Len(pipe) : pipe[n].cmd = "O" => pipe[n].id # c.id
        PROVE  PipeInv'
    <2>1. /\ pipe' \in Seq(Cmds) /\ Len(pipe') = Len(pipe) + 1
          /\ \A k \in 1..Len(pipe) : pipe'[k] = pipe[k]
          /\ \A k \in 1..Len(pipe') : k \notin 1..Len(pipe) => k = Len(pipe) + 1 /\ pipe'[k] = c
      BY <1>1, <1>4, PipeAppend DEF Sends
    <2>2. ASSUME NEW k \in 1..Len(pipe')
          PROVE  CmdOK(pipe'[k], slot'[HASH_ID(pipe'[k].id)], alloc_id')
      BY <2>1, <1>4
    <2>3. ASSUME NEW j \in 1..Len(pipe'), NEW k \in 1..Len(pipe'),
                 pipe'[j].cmd = "O", pipe'[k].cmd = "O", pipe'[j].id = pipe'[k].id
          PROVE  j = k
      <3>2. CASE j \in 1..Len(pipe) /\ k \in 1..Len(pipe)
        BY <2>1, <2>3, <3>2 DEF PipeInv
      <3>3. CASE j \notin 1..Len(pipe) /\ k \notin 1..Len(pipe)
        BY <2>1, <3>3
      <3>4. CASE j \in 1..Len(pipe) /\ k \notin 1..Len(pipe)
        BY <2>1, <2>3, <3>4, <1>4
      <3>5. CASE j \notin 1..Len(pipe) /\ k \in 1..Len(pipe)
        BY <2>1, <2>3, <3>5, <1>4
      <3> QED
        BY <3>2, <3>3, <3>4, <3>5
    <2> QED
      BY <2>2, <2>3 DEF PipeInv
  <1> QED
    BY <1>2, <1>3, <1>4

\* The commands and their slots, when a slot changes that is not reserved, or
\* whose connection is opened
LEMMA ChangePipe ==
    ASSUME TypeInv, SlotInv, PipeInv, NEW t, NEW c, NEW x, Change(t, c, x),
           slot[HASH_ID(t.id)].type = "RESERVE" =>
               Drops /\ pipe[1].cmd = "O" /\ pipe[1].id = t.id,
           \/ pipe' = pipe
           \/ Drops
           \/ \E k : /\ Sends(k) /\ CmdOK(k, slot'[HASH_ID(k.id)], alloc_id')
                     /\ k.cmd = "O" =>
                            \A n \in 1..Len(pipe) : pipe[n].cmd = "O" => pipe[n].id # k.id
    PROVE  PipeInv'
  <1>1. ASSUME NEW k \in 1..Len(pipe), Drops => k # 1
        PROVE  CmdOK(pipe[k], slot'[HASH_ID(pipe[k].id)], alloc_id')
    <2>1. slot[HASH_ID(t.id)].type = "RESERVE" => pipe[k].cmd # "O" \/ pipe[k].id # t.id
      <3>1. 1 \in 1..Len(pipe)
        BY LenProperties DEF TypeInv
      <3> QED
        BY <3>1, <1>1 DEF PipeInv
    <2> QED
      BY <2>1, ChangeCmd
  <1> QED
    BY <1>1, StepPipe

\* A service that sends still has its slot.
LEMMA ChangeSender ==
    ASSUME TypeInv, SlotInv, SenderInv, NEW t, NEW c, NEW x, Change(t, c, x),
           \A v \in Services : \/ th'[v] = th[v]
                               \/ SenderOK(th'[v], slot'[HASH_ID(th'[v].id)], alloc_id')
    PROVE  SenderInv'
  <1>1. ASSUME NEW v \in Services, th'[v] = th[v]
        PROVE  SenderOK(th[v], slot'[HASH_ID(th[v].id)], alloc_id')
    <2>1. th[v].pc # "idle" => th[v].id \in Ids
      BY DEF TypeInv
    <2>2. SenderOK(th[v], slot[HASH_ID(th[v].id)], alloc_id)
      BY DEF SenderInv
    <2>3. SUFFICES ASSUME th[v].pc # "idle"
                   PROVE  /\ th[v].id <= alloc_id'
                          /\ slot'[HASH_ID(th[v].id)].id = th[v].id => slot'[HASH_ID(th[v].id)].tcp
      BY DEF SenderOK
    <2>4. th[v].id <= alloc_id /\ th[v].id \in Ids
      BY <2>1, <2>2, <2>3 DEF SenderOK
    <2>5. th[v].id <= alloc_id'
      <3>1. alloc_id \in Int /\ alloc_id' \in Int /\ alloc_id <= alloc_id' /\ th[v].id \in Int
        BY <2>4, Changed DEF TypeInv, Ids
      <3> QED
        BY <3>1, <2>4
    <2>6. CASE HASH_ID(th[v].id) # HASH_ID(t.id)
      <3>1. HASH_ID(th[v].id) \in Slots
        BY <2>4, HashSlot DEF Ids
      <3>2. slot'[HASH_ID(th[v].id)] = slot[HASH_ID(th[v].id)]
        BY <3>1, <2>6, Changed
      <3> QED
        BY <3>2, <2>2, <2>3, <2>5 DEF SenderOK
    <2>7. CASE HASH_ID(th[v].id) = HASH_ID(t.id)
      <3>1. slot'[HASH_ID(th[v].id)] = t
        BY <2>7, Changed
      <3>2. CASE slot[HASH_ID(t.id)].id = t.id /\ (slot[HASH_ID(t.id)].tcp => t.tcp)
        BY <3>1, <3>2, <2>2, <2>3, <2>5, <2>7 DEF SenderOK
      <3>3. CASE alloc_id < t.id
        <4>1. th[v].id # t.id
          <5>1. alloc_id \in Int /\ th[v].id \in Int /\ th[v].id <= alloc_id
            BY <2>4 DEF TypeInv, Ids
          <5> QED
            BY <5>1, <3>3
        <4> QED
          BY <3>1, <4>1, <2>5
      <3> QED
        BY <3>2, <3>3 DEF Change
    <2> QED
      BY <2>6, <2>7
  <1> QED
    BY <1>1 DEF SenderInv

\* The counts of the other slots still cover their messages.
LEMMA ChangeCount ==
    ASSUME TypeInv, SlotInv, CountInv, NEW t, NEW c, NEW x, Change(t, c, x),
           t.tcp => t.sending >= Messages(pipe', th', t.id),
           \A d \in Ids : d # t.id =>
               /\ Messages(pipe', th', d) \in Nat /\ Messages(pipe, th, d) \in Nat
               /\ Messages(pipe', th', d) <= Messages(pipe, th, d)
    PROVE  CountInv'
  <1>1. ASSUME NEW j \in Slots, slot'[j].tcp
        PROVE  slot'[j].sending >= Messages(pipe', th', slot'[j].id)
    <2>1. CASE j = HASH_ID(t.id)
      BY <2>1, <1>1, Changed
    <2>2. CASE j # HASH_ID(t.id)
      <3>1. slot'[j] = slot[j] /\ slot[j].id # t.id
        BY <2>2, Changed
      <3>2. slot[j].tcp /\ slot[j].id \in Ids /\ slot[j].sending \in Nat
        BY <3>1, <1>1, SlotIds DEF Socket
      <3>3. slot[j].sending >= Messages(pipe, th, slot[j].id)
        BY <3>2 DEF CountInv
      <3>4. /\ Messages(pipe', th', slot[j].id) \in Nat /\ Messages(pipe, th, slot[j].id) \in Nat
            /\ Messages(pipe', th', slot[j].id) <= Messages(pipe, th, slot[j].id)
        BY <3>1, <3>2
      <3> QED
        BY <3>1, <3>2, <3>3, <3>4
    <2> QED
      BY <2>1, <2>2
  <1> QED
    BY <1>1 DEF CountInv

\* What must not be lost are messages.
LEMMA DueMsgs ==
    ASSUME NEW c \in Conns PROVE Due(c) \subseteq Msgs
  <1>1. c.sent \subseteq Msgs /\ c.promise \subseteq Msgs
    BY DEF Conns
  <1> QED
    BY <1>1 DEF Due

\* Nothing of the connections of the other slots is lost.
LEMMA ChangeDue ==
    ASSUME TypeInv, SlotInv, DueInv, NEW t, NEW c, NEW x, Change(t, c, x),
           Kept(t) => DueOK(t, c, pipe', th'),
           \A d \in Ids : d # t.id => \A m \in Msgs :
               /\ Piped(pipe, d, m) => Piped(pipe', d, m)
               /\ Held(th[m.from], d, m) => Held(th'[m.from], d, m)
    PROVE  DueInv'
  <1>1. ASSUME NEW j \in Slots, Kept(slot'[j])
        PROVE  DueOK(slot'[j], conn'[slot'[j].id], pipe', th')
    <2>1. CASE j = HASH_ID(t.id)
      BY <2>1, <1>1, Changed
    <2>2. CASE j # HASH_ID(t.id)
      <3>1. slot'[j] = slot[j] /\ slot[j].id # t.id
        BY <2>2, Changed
      <3>2. slot[j].id \in Ids
        BY <1>1, <3>1, SlotIds DEF Kept, Live
      <3>3. conn'[slot[j].id] = conn[slot[j].id]
        BY <2>2, <3>2, Changed
      <3>4. DueOK(slot[j], conn[slot[j].id], pipe, th)
        BY <1>1, <3>1 DEF DueInv
      <3>5. Due(conn[slot[j].id]) \subseteq Msgs
        BY <3>2, DueMsgs DEF TypeInv
      <3>6. DueOK(slot[j], conn[slot[j].id], pipe', th')
        BY <3>1, <3>2, <3>4, <3>5 DEF DueOK
      <3> QED
        BY <3>1, <3>3, <3>6
    <2> QED
      BY <2>1, <2>2
  <1> QED
    BY <1>1 DEF DueInv

\* The closes that are underway: the connection that changes keeps its closer.
LEMMA ChangeClose ==
    ASSUME TypeInv, SlotInv, PipeInv, CloseInv, NEW t, NEW c, NEW x, Change(t, c, x),
           Live(t) /\ slot[HASH_ID(t.id)].tcp /\ slot[HASH_ID(t.id)].id = t.id =>
               Live(slot[HASH_ID(t.id)]),
           Live(t) /\ conn[t.id].closer # Nobody => c.closer # Nobody,
           \/ pipe' = pipe
           \/ Drops
           \/ \E k : Sends(k) /\ Called(k, slot'[HASH_ID(k.id)], conn'[k.id]) /\ k.cmd # "O"
           \/ \E k : Sends(k) /\ k.cmd = "O"
    PROVE  CloseInv'
  <1>1. ASSUME NEW k \in 1..Len(pipe)
        PROVE  Called(pipe[k], slot'[HASH_ID(pipe[k].id)], conn'[pipe[k].id])
    <2>1. pipe[k].id \in Ids /\ HASH_ID(pipe[k].id) \in Slots
      BY PipeCmds, HashSlot DEF Ids
    <2>2. /\ Called(pipe[k], slot[HASH_ID(pipe[k].id)], conn[pipe[k].id])
          /\ CmdOK(pipe[k], slot[HASH_ID(pipe[k].id)], alloc_id)
      BY DEF CloseInv, PipeInv
    <2>3. CASE pipe[k].id = t.id
      <3>1. slot'[HASH_ID(t.id)] = t /\ conn'[t.id] = c
        BY Changed
      <3>2. slot[HASH_ID(t.id)].id = t.id
        <4>1. alloc_id \in Int /\ pipe[k].id \in Int /\ pipe[k].id <= alloc_id
          BY <2>1, <2>2 DEF TypeInv, Ids, CmdOK
        <4>2. ~(alloc_id < t.id)
          BY <4>1, <2>3
        <4> QED
          BY <4>2 DEF Change
      <3> QED
        BY <2>2, <2>3, <3>1, <3>2 DEF Called, CmdOK
    <2>4. CASE pipe[k].id # t.id
      <3>1. conn'[pipe[k].id] = conn[pipe[k].id]
        BY <2>1, <2>4, Changed
      <3>2. CASE HASH_ID(pipe[k].id) = HASH_ID(t.id)
        BY <3>2, <2>4, Changed DEF Called
      <3>3. CASE HASH_ID(pipe[k].id) # HASH_ID(t.id)
        BY <3>1, <3>3, <2>1, <2>2, Changed DEF Called
      <3> QED
        BY <3>2, <3>3
    <2> QED
      BY <2>3, <2>4
  <1>2. pipe \in Seq(Cmds) /\ Len(pipe) \in Nat
    BY LenProperties DEF TypeInv
  <1>3. \A k \in 1..Len(pipe') : Called(pipe'[k], slot'[HASH_ID(pipe'[k].id)], conn'[pipe'[k].id])
    <2>1. CASE pipe' = pipe
      BY <2>1, <1>1
    <2>2. CASE Drops
      <3>1. /\ Len(pipe') = Len(pipe) - 1
            /\ \A k \in 1..Len(pipe) - 1 : pipe'[k] = pipe[k + 1] /\ k + 1 \in 1..Len(pipe)
        BY <2>2, <1>2, PipeTail DEF Drops
      <3> QED
        BY <3>1, <1>1
    <2>3. ASSUME NEW n, Sends(n), Called(n, slot'[HASH_ID(n.id)], conn'[n.id])
          PROVE  \A k \in 1..Len(pipe') :
                     Called(pipe'[k], slot'[HASH_ID(pipe'[k].id)], conn'[pipe'[k].id])
      <3>1. /\ \A k \in 1..Len(pipe) : pipe'[k] = pipe[k]
            /\ \A k \in 1..Len(pipe') : k \notin 1..Len(pipe) => pipe'[k] = n
        BY <2>3, <1>2, PipeAppend DEF Sends
      <3> QED
        BY <3>1, <2>3, <1>1
    <2>4. ASSUME NEW n, n.cmd = "O" PROVE Called(n, slot'[HASH_ID(n.id)], conn'[n.id])
      BY <2>4 DEF Called
    <2> QED
      BY <2>1, <2>2, <2>3, <2>4
  <1> QED
    BY <1>3 DEF CloseInv

\* What force_close has freed is still so, or freed in the step.
LEMMA ChangeJob ==
    ASSUME TypeInv, SlotInv, JobInv, NEW t, NEW c, NEW x, Change(t, c, x),
           \/ poll' # "close"
           \/ JobOK(job', t, c)
           \/ /\ poll = "close" /\ job' = job
              /\ job.id = t.id => JobOK(job, t, c)
    PROVE  JobInv'
  <1>1. SUFFICES ASSUME poll' = "close"
                 PROVE  JobOK(job', slot'[HASH_ID(job'.id)], conn'[job'.id])
    BY DEF JobInv
  <1>2. slot'[HASH_ID(t.id)] = t /\ conn'[t.id] = c
    BY Changed
  <1>3. CASE JobOK(job', t, c)
    <2>1. job'.id = t.id
      BY <1>3 DEF JobOK
    <2> QED
      BY <1>2, <1>3, <2>1
  <1>4. CASE /\ poll = "close" /\ job' = job
             /\ job.id = t.id => JobOK(job, t, c)
    <2>1. CASE job.id = t.id
      BY <1>2, <1>4, <2>1
    <2>2. CASE job.id # t.id
      <3>1. JobOK(job, slot[HASH_ID(job.id)], conn[job.id])
        BY <1>4 DEF JobInv
      <3>2. /\ job.id \in Ids /\ slot[HASH_ID(job.id)].id = job.id
            /\ Live(slot[HASH_ID(job.id)])
        BY <3>1 DEF JobOK
      <3>3. HASH_ID(job.id) # HASH_ID(t.id)
        BY <2>2, <3>2 DEF Change, Live
      <3>4. HASH_ID(job.id) \in Slots
        BY <3>2, HashSlot DEF Ids
      <3>5. slot'[HASH_ID(job.id)] = slot[HASH_ID(job.id)] /\ conn'[job.id] = conn[job.id]
        BY <2>2, <3>2, <3>3, <3>4, Changed
      <3> QED
        BY <1>4, <3>1, <3>5
    <2> QED
      BY <2>1, <2>2
  <1> QED
    BY <1>1, <1>3, <1>4

\* Messages are lost only of the connection that is about to be closed.
LEMMA ChangeLost ==
    ASSUME TypeInv, SlotInv, LostInv, NEW t, NEW c, NEW x, Change(t, c, x),
           Live(t) /\ t.lost => poll' = "close" /\ job'.id = t.id,
           poll # "close" \/ job.id = t.id \/ (poll' = poll /\ job' = job)
    PROVE  LostInv'
  <1>1. ASSUME NEW j \in Slots, Live(slot'[j]), slot'[j].lost
        PROVE  poll' = "close" /\ slot'[j].id = job'.id
    <2>1. CASE j = HASH_ID(t.id)
      BY <2>1, <1>1, Changed
    <2>2. CASE j # HASH_ID(t.id)
      <3>1. slot'[j] = slot[j] /\ slot[j].id # t.id
        BY <2>2, Changed
      <3>2. poll = "close" /\ slot[j].id = job.id
        BY <1>1, <3>1 DEF LostInv
      <3> QED
        BY <3>1, <3>2
    <2> QED
      BY <2>1, <2>2
  <1> QED
    BY <1>1 DEF LostInv

-----------------------------------------------------------------------------
(* Steps of the socket thread *)

\* The messages underway while the socket thread takes a command or none
LEMMA FewerMessages ==
    ASSUME TypeInv, th' = th, pipe' = pipe \/ Drops
    PROVE  /\ \A d : /\ Messages(pipe', th', d) \in Nat /\ Messages(pipe, th, d) \in Nat
                     /\ Messages(pipe', th', d) <= Messages(pipe, th, d)
           /\ Drops => \A d : pipe[1].id = d /\ pipe[1].cmd \in MsgCmds =>
                  Messages(pipe', th', d) <= Messages(pipe, th, d) - 1
  <1>1. pipe \in Seq(Cmds)
    BY DEF TypeInv
  <1>2. pipe' \in Seq(Cmds)
    BY <1>1, PipeTail DEF Drops
  <1>3. ASSUME NEW d
        PROVE  /\ Messages(pipe', th', d) \in Nat /\ Messages(pipe, th, d) \in Nat
               /\ Messages(pipe', th', d) <= Messages(pipe, th, d)
               /\ Drops /\ pipe[1].id = d /\ pipe[1].cmd \in MsgCmds =>
                      Messages(pipe', th', d) <= Messages(pipe, th, d) - 1
    <2>1. /\ Messages(pipe', th', d) \in Nat /\ Messages(pipe, th, d) \in Nat
          /\ Cardinality(InPipe(pipe, d)) \in Nat /\ Cardinality(InPipe(pipe', d)) \in Nat
          /\ Cardinality(InHand(th, d)) \in Nat
      BY <1>1, <1>2, Counts
    <2>2. /\ Messages(pipe', th', d) = Cardinality(InPipe(pipe', d)) + Cardinality(InHand(th, d))
          /\ Messages(pipe, th, d) = Cardinality(InPipe(pipe, d)) + Cardinality(InHand(th, d))
      BY DEF Messages
    <2>3. CASE pipe' = pipe /\ ~Drops
      BY <2>1, <2>2, <2>3
    <2>4. CASE Drops
      <3>1. Cardinality(InPipe(pipe', d)) <=
                Cardinality(InPipe(pipe, d))
                - (IF pipe[1].id = d /\ pipe[1].cmd \in MsgCmds THEN 1 ELSE 0)
        BY <1>1, <2>4, CountTail DEF Drops
      <3> QED
        BY <2>1, <2>2, <3>1
    <2> QED
      BY <2>3, <2>4
  <1> QED
    BY <1>3

\* A message that is in the pipe stays there, unless the socket thread takes it.
LEMMA StayPiped ==
    ASSUME TypeInv, pipe' = pipe \/ Drops, NEW d, NEW m, Piped(pipe, d, m),
           Drops => pipe[1].id # d \/ pipe[1].cmd \notin MsgCmds \/ pipe[1].msg # m
    PROVE  Piped(pipe', d, m)
  <1>1. pipe \in Seq(Cmds)
    BY DEF TypeInv
  <1> QED
    BY <1>1, PipedTail DEF Drops

\* The pipe cannot stay the same when a command is taken.
LEMMA NoDrop ==
    ASSUME TypeInv, pipe' = pipe PROVE ~Drops
  <1>1. pipe \in Seq(Cmds)
    BY DEF TypeInv
  <1> QED
    BY <1>1, PipeTail DEF Drops

\* The parts of the type invariant after a step
LEMMA StepTypeInv ==
    ASSUME slot' \in [Slots -> Socket], conn' \in [Ids -> Conns],
           known' \in [Ids -> Known], alloc_id' \in 0..MaxId,
           ev' \subseteq Events, cut' \subseteq Msgs,
           poll' \in Polls, job' \in Jobs,
           pipe' \in Seq(Cmds), th' \in [Services -> Threads],
           \A v \in Services : th'[v].pc # "idle" =>
               /\ th'[v].id \in Ids /\ th'[v].msg \in Msgs /\ th'[v].msg.from = v
               /\ th'[v].pc = "write" => th'[v].cmd = "D",
           \A k \in 1..Len(pipe') : pipe'[k].cmd \in MsgCmds => pipe'[k].msg \in Msgs
    PROVE  TypeInv'
  BY DEF TypeInv, Known

\* The types of the pipe and of the batch of events
LEMMA StepTypes ==
    ASSUME TypeInv, th' = th, pipe' = pipe \/ Drops
    PROVE  /\ pipe' \in Seq(Cmds) /\ th' \in [Services -> Threads]
           /\ \A v \in Services : th'[v].pc # "idle" =>
                  /\ th'[v].id \in Ids /\ th'[v].msg \in Msgs /\ th'[v].msg.from = v
                  /\ th'[v].pc = "write" => th'[v].cmd = "D"
           /\ \A k \in 1..Len(pipe') : pipe'[k].cmd \in MsgCmds => pipe'[k].msg \in Msgs
  <1>1. pipe \in Seq(Cmds) /\ th \in [Services -> Threads]
    BY DEF TypeInv
  <1>2. \A v \in Services : th[v].pc # "idle" =>
            /\ th[v].id \in Ids /\ th[v].msg \in Msgs /\ th[v].msg.from = v
            /\ th[v].pc = "write" => th[v].cmd = "D"
    BY DEF TypeInv
  <1>3. \A k \in 1..Len(pipe) : pipe[k].cmd \in MsgCmds => pipe[k].msg \in Msgs
    BY DEF TypeInv
  <1>4. CASE pipe' = pipe
    BY <1>1, <1>2, <1>3, <1>4
  <1>5. CASE Drops
    <2>1. /\ pipe' \in Seq(Cmds) /\ Len(pipe') = Len(pipe) - 1
          /\ \A k \in 1..Len(pipe) - 1 : pipe'[k] = pipe[k + 1] /\ k + 1 \in 1..Len(pipe)
      BY <1>1, <1>5, PipeTail DEF Drops
    <2> QED
      BY <2>1, <1>1, <1>2, <1>3
  <1> QED
    BY <1>4, <1>5

\* A step of the socket thread that changes a slot keeps the invariants when the
\* slot and its connection come out as they should be.
LEMMA ThreadStep ==
    ASSUME Inv, NEW t, NEW c, NEW x, Change(t, c, x), NEW s, s = slot[HASH_ID(t.id)],
           th' = th, pipe' = pipe \/ Drops, ev' \subseteq Events, poll' \in Polls, job' \in Jobs,
           t.lock = s.lock,
           SlotOK(HASH_ID(t.id), t, alloc_id'),
           KnownOK(t.id, t, x, c),
           Kept(t) => WireOK(t, c.wire) /\ DueOK(t, c, pipe', th),
           poll # "close" \/ job.id = t.id,
           Live(t) /\ t.lost => poll' = "close",
           poll' = "close" => JobOK(job', t, c),
           t.tcp => t.sending >= Messages(pipe', th', t.id),
           s.type = "RESERVE" => Drops /\ pipe[1].cmd = "O" /\ pipe[1].id = t.id,
           Live(t) /\ s.tcp /\ s.id = t.id => Live(s),
           Live(t) /\ conn[t.id].closer # Nobody => c.closer # Nobody,
           Drops => pipe[1].id = t.id
    PROVE  Inv'
  <1>1. /\ TypeInv /\ LockInv /\ SlotInv /\ PipeInv /\ SenderInv
        /\ KnownInv /\ CountInv /\ WireInv /\ DueInv /\ CloseInv /\ JobInv /\ LostInv /\ cut = {}
    BY DEF Inv
  <1>2. TypeInv'
    <2>1. /\ slot' \in [Slots -> Socket] /\ conn' \in [Ids -> Conns]
          /\ known' \in [Ids -> Known] /\ alloc_id' \in 0..MaxId
      BY <1>1, Changed
    <2>2. ev' \subseteq Events /\ cut' \subseteq Msgs
      BY <1>1 DEF TypeInv, Change
    <2>3. /\ pipe' \in Seq(Cmds) /\ th' \in [Services -> Threads]
          /\ \A v \in Services : th'[v].pc # "idle" =>
                 /\ th'[v].id \in Ids /\ th'[v].msg \in Msgs /\ th'[v].msg.from = v
                 /\ th'[v].pc = "write" => th'[v].cmd = "D"
          /\ \A k \in 1..Len(pipe') : pipe'[k].cmd \in MsgCmds => pipe'[k].msg \in Msgs
      BY <1>1, StepTypes
    <2> QED
      BY <2>1, <2>2, <2>3, StepTypeInv
  <1>3. LockInv'
    <2>1. HASH_ID(t.id) \in Slots
      BY <1>1, Changed
    <2>2. LockOK(HASH_ID(t.id), s, th)
      BY <1>1, <2>1 DEF LockInv
    <2>3. s.id = t.id \/ s.lock = Nobody
      <3>1. SlotOK(HASH_ID(t.id), s, alloc_id)
        BY <1>1, <2>1 DEF SlotInv
      <3> QED
        BY <3>1 DEF Change, SlotOK, Live
    <2>4. LockOK(HASH_ID(t.id), t, th')
      <3>1. \A v \in Services : v # Nobody
        BY SocketAssumption
      <3> QED
        BY <2>2, <2>3, <3>1 DEF LockOK
    <2> QED
      BY <1>1, <2>4, ChangeLock
  <1>4. SlotInv'
    BY <1>1, ChangeSlots
  <1>5. JobInv'
    BY <1>1, ChangeJob
  <1>6. PipeInv'
    BY <1>1, ChangePipe
  <1>7. SenderInv'
    BY <1>1, ChangeSender
  <1>8. KnownInv'
    BY <1>1, ChangeKnown
  <1>9. CountInv'
    <2>1. \A d \in Ids : /\ Messages(pipe', th', d) \in Nat /\ Messages(pipe, th, d) \in Nat
                         /\ Messages(pipe', th', d) <= Messages(pipe, th, d)
      BY <1>1, FewerMessages
    <2> QED
      BY <1>1, <2>1, ChangeCount
  <1>10. WireInv'
    BY <1>1, ChangeWire
  <1>11. DueInv'
    <2>1. ASSUME NEW d \in Ids, d # t.id, NEW m \in Msgs, Piped(pipe, d, m)
          PROVE  Piped(pipe', d, m)
      BY <1>1, <2>1, StayPiped
    <2>2. \A d \in Ids : d # t.id => \A m \in Msgs :
             /\ Piped(pipe, d, m) => Piped(pipe', d, m)
             /\ Held(th[m.from], d, m) => Held(th'[m.from], d, m)
      BY <2>1
    <2>3. Kept(t) => DueOK(t, c, pipe', th')
      OBVIOUS
    <2> QED
      BY <1>1, <2>2, <2>3, ChangeDue
  <1>12. CloseInv'
    BY <1>1, ChangeClose
  <1>14. LostInv'
    <2>1. Live(t) /\ t.lost => poll' = "close" /\ job'.id = t.id
      BY DEF JobOK
    <2> QED
      BY <1>1, <2>1, ChangeLost
  <1>13. cut' = {}
    BY <1>1 DEF Change
  <1> QED
    BY <1>2, <1>3, <1>4, <1>5, <1>6, <1>7, <1>8, <1>9, <1>10, <1>11, <1>12, <1>13,
       <1>14 DEF Inv

\* A step of the socket thread that changes no slot keeps the invariants, if it
\* does not drop a message for a connection.
LEMMA StillStep ==
    ASSUME Inv, Still, th' = th, pipe' = pipe \/ Drops,
           ev' \subseteq Events, poll # "close", poll' \in Polls \ {"close"}, job' \in Jobs,
           Drops => \/ pipe[1].cmd \notin MsgCmds
                    \/ ~IsSocket(slot[HASH_ID(pipe[1].id)], pipe[1].id)
    PROVE  Inv'
  <1>1. /\ TypeInv /\ LockInv /\ SlotInv /\ PipeInv /\ SenderInv
        /\ KnownInv /\ CountInv /\ WireInv /\ DueInv /\ CloseInv /\ JobInv /\ LostInv /\ cut = {}
    BY DEF Inv
  <1>2. TypeInv'
    <2>1. /\ slot' \in [Slots -> Socket] /\ conn' \in [Ids -> Conns]
          /\ known' \in [Ids -> Known] /\ alloc_id' \in 0..MaxId /\ cut' \subseteq Msgs
      BY <1>1 DEF TypeInv, Still, Known
    <2>2. /\ pipe' \in Seq(Cmds) /\ th' \in [Services -> Threads]
          /\ \A v \in Services : th'[v].pc # "idle" =>
                 /\ th'[v].id \in Ids /\ th'[v].msg \in Msgs /\ th'[v].msg.from = v
                 /\ th'[v].pc = "write" => th'[v].cmd = "D"
          /\ \A k \in 1..Len(pipe') : pipe'[k].cmd \in MsgCmds => pipe'[k].msg \in Msgs
      BY <1>1, StepTypes
    <2> QED
      BY <2>1, <2>2, StepTypeInv
  <1>3. LockInv'
    BY <1>1 DEF LockInv, Still
  <1>4. SlotInv'
    BY <1>1 DEF SlotInv, Still
  <1>5. PipeInv'
    <2>1. \A k \in 1..Len(pipe) : CmdOK(pipe[k], slot'[HASH_ID(pipe[k].id)], alloc_id')
      BY <1>1 DEF PipeInv, Still
    <2> QED
      BY <1>1, <2>1, StepPipe
  <1>6. SenderInv'
    BY <1>1 DEF SenderInv, Still
  <1>7. KnownInv'
    BY <1>1 DEF KnownInv, Still
  <1>8. CountInv'
    <2>1. ASSUME NEW j \in Slots, slot[j].tcp
          PROVE  slot[j].sending >= Messages(pipe', th', slot[j].id)
      <3>1. slot[j].sending \in Nat
        BY <1>1 DEF TypeInv, Socket
      <3>2. slot[j].sending >= Messages(pipe, th, slot[j].id)
        BY <1>1, <2>1 DEF CountInv
      <3>3. /\ Messages(pipe', th', slot[j].id) \in Nat /\ Messages(pipe, th, slot[j].id) \in Nat
            /\ Messages(pipe', th', slot[j].id) <= Messages(pipe, th, slot[j].id)
        BY <1>1, FewerMessages
      <3> QED
        BY <3>1, <3>2, <3>3
    <2> QED
      BY <2>1 DEF CountInv, Still
  <1>9. WireInv'
    BY <1>1 DEF WireInv, Still
  <1>10. DueInv'
    <2>1. ASSUME NEW j \in Slots, Kept(slot[j])
          PROVE  DueOK(slot[j], conn[slot[j].id], pipe', th')
      <3>1. DueOK(slot[j], conn[slot[j].id], pipe, th)
        BY <1>1, <2>1 DEF DueInv
      <3>2. slot[j].id \in Ids /\ HASH_ID(slot[j].id) = j
        BY <1>1, <2>1, SlotIds DEF Kept, Live
      <3>3. IsSocket(slot[j], slot[j].id)
        BY <2>1 DEF IsSocket, Kept, Live
      <3>4. Drops => pipe[1].id # slot[j].id \/ pipe[1].cmd \notin MsgCmds
        BY <3>2, <3>3
      <3>5. \A m : Piped(pipe, slot[j].id, m) => Piped(pipe', slot[j].id, m)
        BY <1>1, <3>4, StayPiped
      <3> QED
        BY <3>1, <3>5 DEF DueOK
    <2> QED
      BY <2>1 DEF DueInv, Still
  <1>11. CloseInv'
    <2>1. pipe \in Seq(Cmds)
      BY <1>1 DEF TypeInv
    <2>2. \A k \in 1..Len(pipe) : Called(pipe[k], slot[HASH_ID(pipe[k].id)], conn[pipe[k].id])
      BY <1>1 DEF CloseInv
    <2>3. \A k \in 1..Len(pipe') :
              Called(pipe'[k], slot[HASH_ID(pipe'[k].id)], conn[pipe'[k].id])
      <3>1. CASE pipe' = pipe
        BY <3>1, <2>2
      <3>2. CASE Drops
        <4>1. /\ Len(pipe') = Len(pipe) - 1
              /\ \A k \in 1..Len(pipe) - 1 : pipe'[k] = pipe[k + 1] /\ k + 1 \in 1..Len(pipe)
          BY <2>1, <3>2, PipeTail DEF Drops
        <4> QED
          BY <4>1, <2>2
      <3> QED
        BY <3>1, <3>2
    <2> QED
      BY <2>3 DEF CloseInv, Still
  <1>12. cut' = {}
    BY <1>1 DEF Still
  <1>13. JobInv' /\ LostInv'
    BY <1>1 DEF JobInv, LostInv, Still
  <1> QED
    BY <1>2, <1>3, <1>4, <1>5, <1>6, <1>7, <1>8, <1>9, <1>10, <1>11, <1>12, <1>13 DEF Inv

\* A connection is closed: its slot s becomes t, which no service has locked.
Shuts(s, t) ==
    /\ Emptied(s, t)
    /\ Live(s) /\ s.lock = Nobody /\ s.id \in Ids
    /\ slot' = [slot EXCEPT ![HASH_ID(s.id)] = t]
    /\ conn' = [conn EXCEPT ![s.id] = NoConn]
    /\ known' = [known EXCEPT ![s.id] = "none"]
    /\ cut' = cut /\ alloc_id' = alloc_id

\* Nothing is left of a connection that is closed.
LEMMA ShutStep ==
    ASSUME Inv, NEW s, s = slot[HASH_ID(s.id)], NEW t, Shuts(s, t),
           th' = th, pipe' = pipe \/ (Drops /\ pipe[1].id = s.id),
           ev' \subseteq Events, poll' \in Polls \ {"close"}, job' \in Jobs,
           poll # "close" \/ job.id = s.id
    PROVE  Inv'
  <1>1. TypeInv /\ SlotInv /\ CountInv
    BY DEF Inv
  <1>2. HASH_ID(s.id) \in Slots
    BY HashSlot DEF Shuts, Ids
  <1>3. s \in Socket /\ SlotOK(HASH_ID(s.id), s, alloc_id)
    BY <1>1, <1>2 DEF TypeInv, SlotInv
  <1>4. /\ t \in Socket /\ t.type = "INVALID" /\ t.id = s.id /\ t.tcp = s.tcp /\ t.tag = s.tag
        /\ t.sending = s.sending /\ t.lock = s.lock /\ t.high = <<>> /\ t.low = <<>>
        /\ t.dw_buffer = <<>>
    BY DEF Shuts, Emptied
  <1>5. NoConn \in Conns
    <2>1. <<>> \in Seq(Units)
      BY EmptySeq
    <2> QED
      BY <2>1 DEF NoConn, Conns
  <1>6. Change(t, NoConn, "none")
    BY <1>4, <1>5 DEF Change, Shuts, Known
  <1>7. ~Live(t) /\ ~Kept(t) /\ (poll # "close" \/ job.id = t.id)
    BY <1>4 DEF Live, Kept
  <1>8. SlotOK(HASH_ID(t.id), t, alloc_id')
    BY <1>3, <1>4, <1>7 DEF SlotOK, Shuts
  <1>9. KnownOK(t.id, t, "none", NoConn)
    BY DEF KnownOK, NoConn
  <1>10. t.tcp => t.sending >= Messages(pipe', th', t.id)
    <2>1. s.sending \in Nat
      BY <1>3 DEF Socket
    <2>2. s.tcp => s.sending >= Messages(pipe, th, s.id)
      BY <1>1, <1>2 DEF CountInv
    <2>3. /\ Messages(pipe', th', s.id) \in Nat /\ Messages(pipe, th, s.id) \in Nat
          /\ Messages(pipe', th', s.id) <= Messages(pipe, th, s.id)
      BY <1>1, FewerMessages
    <2> QED
      BY <2>1, <2>2, <2>3, <1>4
  <1>11. s.type # "RESERVE" /\ s = slot[HASH_ID(t.id)] /\ t.lock = s.lock
    BY <1>4 DEF Shuts, Live
  <1>12. pipe' = pipe \/ Drops
    OBVIOUS
  <1>13. CASE pipe' = pipe /\ ~Drops
    BY <1>6, <1>7, <1>8, <1>9, <1>10, <1>11, <1>13, ThreadStep
  <1>14. CASE Drops /\ pipe[1].id = s.id
    BY <1>4, <1>6, <1>7, <1>8, <1>9, <1>10, <1>11, <1>14, ThreadStep
  <1>15. ~(Drops /\ pipe' = pipe)
    BY <1>1, NoDrop
  <1> QED
    BY <1>13, <1>14, <1>15

\* sp_wait changes no slot.
LEMMA WaitStep ==
    ASSUME Inv, NEW what \in [Slots -> SUBSET {"read", "write"}],
           NEW accepting \in BOOLEAN, Wait(what, accepting)
    PROVE  Inv'
  <1>1. ASSUME NEW e \in ev' PROVE e \in Events
    <2>1. \/ \E i \in {j \in Slots : what[j] # {}} : e = [from |-> i, what |-> what[i]]
          \/ \E k \in {1} \cap DOMAIN pipe : e = [from |-> Pipe, what |-> {"read"}]
          \/ \E k \in {1 : b \in {accepting} \ {FALSE}} : e = [from |-> Listen, what |-> {"read"}]
      BY <1>1 DEF Wait
    <2>2. ASSUME NEW i \in Slots, e = [from |-> i, what |-> what[i]] PROVE e \in Events
      BY <2>2 DEF Events
    <2>3. /\ [from |-> Pipe, what |-> {"read"}] \in Events
          /\ [from |-> Listen, what |-> {"read"}] \in Events
      BY DEF Events
    <2> QED
      BY <2>1, <2>2, <2>3
  <1>2. /\ Still /\ th' = th /\ pipe' = pipe /\ job' = job
        /\ poll = "rest" /\ poll' = "first"
    BY DEF Wait, Still
  <1>3. ~Drops /\ job \in Jobs
    BY <1>2, NoDrop DEF Inv, TypeInv
  <1> QED
    BY <1>1, <1>2, <1>3, StillStep DEF Polls

\* A job for an id
LEMMA NewJob ==
    /\ NoJob \in Jobs
    /\ \A d \in {0} \cup Ids : [NoJob EXCEPT !.id = d] \in Jobs
    /\ \A d \in Ids, b \in BOOLEAN, next \in {"ctrl", "rest", "clear"} :
           [id |-> d, drained |-> b, next |-> next] \in Jobs
  BY DEF Jobs, NoJob

\* What an event finds
LEMMA DispatchFacts ==
    ASSUME Inv, NEW e \in ev, Dispatch(e)
    PROVE  /\ th' = th /\ pipe' = pipe /\ ~Drops /\ ev \ {e} \subseteq Events
           /\ poll # "close" /\ Onward \in {"ctrl", "rest"}
  <1>1. th' = th /\ pipe' = pipe /\ poll # "close" /\ Onward \in {"ctrl", "rest"}
    BY DEF Dispatch, Onward
  <1> QED
    BY <1>1, NoDrop DEF Inv, TypeInv

\* ... and leaves
LEMMA DoneFacts ==
    ASSUME Inv, NEW e \in ev, Done(e)
    PROVE  /\ th' = th /\ pipe' = pipe /\ ~Drops /\ ev' \subseteq Events
           /\ poll # "close" /\ poll' \in Polls \ {"close"} /\ job' \in Jobs
  BY DispatchFacts, NewJob DEF Done, Goes, Polls

\* An event that changes no slot
LEMMA QuietEvents ==
    ASSUME Inv, NEW e \in ev,
           \/ Ignore(e) \/ (ReportAccept(e) /\ Still) \/ StaleEvent(e)
           \/ ForwardMessage(e) \/ WriteBlocked(e)
    PROVE  Inv'
  <1>1. Still
    BY DEF Ignore, StaleEvent, ForwardMessage, WriteBlocked, Transfers, Still
  <1>2. CASE Ignore(e) \/ ReportAccept(e) \/ WriteBlocked(e)
    <2>1. Done(e)
      BY <1>2 DEF Ignore, ReportAccept, WriteBlocked
    <2> QED
      BY <2>1, <1>1, DoneFacts, StillStep
  <1>3. CASE StaleEvent(e)
    <2>1. /\ Dispatch(e) /\ ev' = ev \ {e}
          /\ poll' \in {"abort", Onward} /\ job' = NoJob
      BY <1>3 DEF StaleEvent, Goes
    <2>2. /\ th' = th /\ pipe' = pipe /\ ~Drops /\ ev' \subseteq Events
          /\ poll # "close" /\ poll' \in Polls \ {"close"} /\ job' \in Jobs
      BY <2>1, DispatchFacts, NewJob DEF Polls
    <2> QED
      BY <2>2, <1>1, StillStep
  <1>4. CASE ForwardMessage(e)
    <2>1. PICK g : g = [e EXCEPT !.what = {"write"}]
      OBVIOUS
    <2>2. e \in Events
      BY DEF Inv, TypeInv
    <2>3. g \in Events
      BY <2>1, <2>2 DEF Events
    <2>4. /\ ev' \subseteq (ev \ {e}) \cup {g}
          /\ Dispatch(e) /\ poll' = Onward /\ job' = NoJob
      BY <1>4, <2>1 DEF ForwardMessage, Goes
    <2>5. /\ th' = th /\ pipe' = pipe /\ ~Drops /\ ev' \subseteq Events
          /\ poll # "close" /\ poll' \in Polls \ {"close"} /\ job' \in Jobs
      BY <2>3, <2>4, DispatchFacts, NewJob DEF Polls
    <2> QED
      BY <2>5, <1>1, StillStep
  <1> QED
    BY <1>2, <1>3, <1>4

\* The socket thread goes on without a command, and past clear_closed_event.
LEMMA OnwardStep ==
    ASSUME Inv, NoCmd \/ ClearClosedEvent PROVE Inv'
  <1>1. /\ Still /\ th' = th /\ pipe' = pipe /\ poll # "close"
        /\ poll' \in {"ctrl", "rest"} /\ job' \in {job, NoJob} /\ ev' \subseteq ev
    BY DEF NoCmd, ClearClosedEvent, Continues, Goes, Still
  <1>2. /\ ~Drops /\ ev' \subseteq Events
        /\ poll' \in Polls \ {"close"} /\ job' \in Jobs
    BY <1>1, NoDrop, NewJob DEF Inv, TypeInv, Polls
  <1> QED
    BY <1>1, <1>2, StillStep

\* The command that the socket thread takes
LEMMA FirstCmd ==
    ASSUME TypeInv, pipe # <<>>
    PROVE  /\ Cmd = pipe[1] /\ Cmd \in Cmds /\ Cmd.id \in Ids /\ 1 \in 1..Len(pipe)
           /\ At = HASH_ID(Cmd.id) /\ At \in Slots
  <1>1. pipe \in Seq(Cmds)
    BY DEF TypeInv
  <1>2. Cmd = pipe[1] /\ Cmd \in Cmds /\ 1 \in 1..Len(pipe)
    BY <1>1, PipeTail DEF Cmd
  <1>3. Cmd.id \in Ids
    BY <1>2 DEF Cmds
  <1> QED
    BY <1>2, <1>3, HashSlot DEF At, Ids

\* A command that leaves its slot as it was, and is not a message for it
LEMMA QuietCmd ==
    ASSUME Inv, pipe # <<>>, Leaves(slot[At]), ev' = ev,
           poll # "close", poll' \in Polls \ {"close"}, job' \in Jobs,
           Cmd.cmd \notin MsgCmds \/ ~IsSocket(slot[At], Cmd.id),
           UNCHANGED <<alloc_id, th, known, conn, cut>>
    PROVE  Inv'
  <1>1. TypeInv
    BY DEF Inv
  <1>2. /\ Cmd = pipe[1] /\ Cmd \in Cmds /\ Cmd.id \in Ids
        /\ At = HASH_ID(Cmd.id) /\ At \in Slots
    BY <1>1, FirstCmd
  <1>3. slot' = slot /\ Drops
    <2>1. slot \in [Slots -> Socket]
      BY <1>1 DEF TypeInv
    <2> QED
      BY <1>2, <2>1 DEF Leaves, Drops
  <1>4. Still
    BY <1>3 DEF Still
  <1>5. ev' \subseteq Events
    BY <1>1 DEF TypeInv
  <1> QED
    BY <1>2, <1>3, <1>4, <1>5, StillStep

-----------------------------------------------------------------------------
(* The commands and events that end or write a connection *)

\* What is known of a slot that a connection has
LEMMA LiveSlot ==
    ASSUME Inv, NEW j \in Slots, NEW s, s = slot[j], Live(s)
    PROVE  /\ s \in Socket /\ s.id \in Ids /\ HASH_ID(s.id) = j /\ s = slot[HASH_ID(s.id)] /\ s.tcp
           /\ conn[s.id] \in Conns /\ conn[s.id].wire \in Seq(Units)
           /\ known[s.id] \in Known
           /\ ~s.lost => WireOK(s, conn[s.id].wire) /\ DueOK(s, conn[s.id], pipe, th)
           /\ poll # "close" => ~s.lost
           /\ KnownOK(s.id, s, known[s.id], conn[s.id])
           /\ SlotOK(HASH_ID(s.id), s, alloc_id)
           /\ s.sending \in Nat /\ s.sending >= Messages(pipe, th, s.id)
  <1>1. TypeInv /\ SlotInv
    BY DEF Inv
  <1>2. s \in Socket /\ s.id \in Ids /\ HASH_ID(s.id) = j /\ s.tcp
    BY <1>1, SlotIds DEF Live
  <1>3. conn[s.id] \in Conns /\ known[s.id] \in Known
    BY <1>1, <1>2 DEF TypeInv, Known
  <1>4. conn[s.id].wire \in Seq(Units) /\ s.sending \in Nat
    BY <1>2, <1>3 DEF Conns, Socket
  <1>5. ~s.lost => WireOK(s, conn[s.id].wire)
    BY DEF Inv, WireInv, Kept
  <1>6. ~s.lost => DueOK(s, conn[s.id], pipe, th)
    BY DEF Inv, DueInv, Kept
  <1>7. KnownOK(s.id, s, known[s.id], conn[s.id])
    BY <1>2 DEF Inv, KnownInv
  <1>8. SlotOK(j, s, alloc_id)
    BY DEF Inv, SlotInv
  <1>9. s.sending >= Messages(pipe, th, s.id)
    BY <1>2 DEF Inv, CountInv
  <1>10. poll # "close" => ~s.lost
    BY DEF Inv, LostInv
  <1> QED
    BY <1>2, <1>3, <1>4, <1>5, <1>6, <1>7, <1>8, <1>9, <1>10

\* A command finds a connection in its slot if that has the id.
LEMMA TakenLive ==
    ASSUME Inv, pipe # <<>>, Cmd.cmd # "O", IsSocket(slot[At], Cmd.id)
    PROVE  Live(slot[At]) /\ slot[At].id = Cmd.id
  <1>1. TypeInv /\ SlotInv /\ PipeInv
    BY DEF Inv
  <1>2. Cmd = pipe[1] /\ 1 \in 1..Len(pipe) /\ At = HASH_ID(Cmd.id) /\ At \in Slots
    BY <1>1, FirstCmd
  <1>3. CmdOK(Cmd, slot[At], alloc_id) /\ SlotOK(At, slot[At], alloc_id)
    BY <1>1, <1>2 DEF PipeInv, SlotInv
  <1> QED
    BY <1>3 DEF CmdOK, SlotOK, IsSocket, Live

\* When a close is taken all that its service had sent is in the lists.
LEMMA DueAtClose ==
    ASSUME Inv, poll = "ctrl", pipe # <<>>, Cmd.cmd = "K", IsSocket(slot[At], Cmd.id),
           NEW s, s = slot[At]
    PROVE  /\ conn[s.id].closer # Nobody
           /\ \A m \in conn[s.id].promise : Out(s, conn[s.id].wire, m)
  <1>1. TypeInv /\ CloseInv
    BY DEF Inv
  <1>2. Cmd = pipe[1] /\ 1 \in 1..Len(pipe) /\ At = HASH_ID(Cmd.id) /\ At \in Slots
    BY <1>1, FirstCmd
  <1>3. Live(s) /\ s.id = Cmd.id
    BY TakenLive
  <1>4. conn[s.id].closer # Nobody
    BY <1>1, <1>2, <1>3 DEF CloseInv, Called
  <1>5. DueOK(s, conn[s.id], pipe, th)
    BY <1>2, <1>3, LiveSlot
  <1>6. \A m : ~Piped(pipe, s.id, m)
    <2>1. SUFFICES ASSUME NEW m, Piped(pipe, s.id, m) PROVE FALSE
      OBVIOUS
    <2>2. PICK k \in 1..Len(pipe) :
              /\ pipe[k].id = s.id /\ pipe[k].cmd \in MsgCmds
              /\ \A j \in 1..k - 1 : pipe[j].cmd = "K" => pipe[j].id # s.id
      BY <2>1 DEF Piped
    <2>3. k # 1
      BY <2>2, <1>2 DEF MsgCmds
    <2>4. 1 \in 1..k - 1
      <3>1. Len(pipe) \in Nat
        BY <1>1, LenProperties DEF TypeInv
      <3> QED
        BY <2>3, <3>1
    <2> QED
      BY <2>2, <2>4, <1>2, <1>3
  <1> QED
    BY <1>4, <1>5, <1>6 DEF DueOK, Due

\* A socket with empty lists has everything on the wire.
LEMMA OutOnWire ==
    ASSUME NEW s \in Socket, NEW w, NEW m, Out(s, w, m), nomore_sending_data(s)
    PROVE  <<m, Size>> \in Range(w)
  <1>1. Pending(s) = <<>>
    BY Lists DEF nomore_sending_data, send_buffer_empty
  <1>2. Range(<<>>) = {}
    BY DEF Range
  <1> QED
    BY <1>1, <1>2 DEF Out

\* What was out stays so when the kernel takes n units of it.
LEMMA OutKept ==
    ASSUME NEW s \in Socket, NEW w \in Seq(Units), NEW n \in 0..Len(Pending(s)),
           NEW m, Out(s, w, m), NEW y, y = w \o SubSeq(Pending(s), 1, n)
    PROVE  /\ \A t : Pending(t) = SubSeq(Pending(s), n + 1, Len(Pending(s))) => Out(t, y, m)
           /\ y \in Seq(Units) /\ Range(w) \subseteq Range(y)
  <1>1. PICK p \in Seq(Units) : p = Pending(s)
    BY Lists
  <1>2. Len(p) \in Nat /\ n \in Nat /\ n <= Len(p)
    BY <1>1, LenProperties
  <1>3. SubSeq(p, 0 + 1, n) \in Seq(Units) /\ SubSeq(p, n + 1, Len(p)) \in Seq(Units)
    BY <1>2, Part
  <1>4. SubSeq(p, 1, n) \in Seq(Units)
    BY <1>3
  <1>5. y \in Seq(Units) /\ Range(y) = Range(w) \cup Range(SubSeq(p, 1, n))
    BY <1>1, <1>4, Concat, RangeConcat
  <1>6. Range(p) = Range(SubSeq(p, 1, n)) \cup Range(SubSeq(p, n + 1, Len(p)))
    <2>1. SubSeq(p, 1, n) \o SubSeq(p, n + 1, Len(p)) = p
      BY <1>1, Split
    <2> QED
      BY <2>1, <1>3, <1>4, RangeConcat
  <1>7. <<m, Size>> \in Range(w) \cup Range(p)
    BY <1>1 DEF Out
  <1> QED
    BY <1>1, <1>5, <1>6, <1>7 DEF Out

\* ... and is on the wire when the kernel takes all.
LEMMA OutAll ==
    ASSUME NEW s \in Socket, NEW w \in Seq(Units), NEW m, Out(s, w, m)
    PROVE  <<m, Size>> \in Range(w \o SubSeq(Pending(s), 1, Len(Pending(s))))
  <1>1. Pending(s) \in Seq(Units)
    BY Lists
  <1>2. SubSeq(Pending(s), 1, Len(Pending(s))) = Pending(s)
    BY <1>1, SubSeqFull
  <1>3. Range(w \o Pending(s)) = Range(w) \cup Range(Pending(s))
    BY <1>1, RangeConcat
  <1> QED
    BY <1>2, <1>3 DEF Out

\* The connection when the kernel took n units
LEMMA TookConn ==
    ASSUME Inv, NEW j \in Slots, NEW s, s = slot[j], Live(s), NEW n \in 0..Len(Pending(s))
    PROVE  \E c \in Conns :
               /\ Took(s, n) = [conn EXCEPT ![s.id] = c]
               /\ c.wire = conn[s.id].wire \o SubSeq(Pending(s), 1, n)
               /\ c.sent = conn[s.id].sent /\ c.closer = conn[s.id].closer
               /\ c.promise = conn[s.id].promise
  <1>1. s \in Socket /\ s.id \in Ids /\ conn[s.id] \in Conns /\ conn[s.id].wire \in Seq(Units)
    BY LiveSlot
  <1>2. conn \in [Ids -> Conns]
    BY DEF Inv, TypeInv
  <1>3. PICK y : y = conn[s.id].wire \o SubSeq(Pending(s), 1, n)
    OBVIOUS
  <1>4. y \in Seq(Units)
    <2>1. Pending(s) \in Seq(Units) /\ Len(Pending(s)) \in Nat
      BY <1>1, Lists, LenProperties
    <2>2. SubSeq(Pending(s), 0 + 1, n) \in Seq(Units)
      BY <2>1, Part
    <2>3. SubSeq(Pending(s), 1, n) \in Seq(Units)
      BY <2>2
    <2> QED
      BY <1>1, <1>3, <2>3, Concat
  <1>5. PICK c : c = [conn[s.id] EXCEPT !.wire = y]
    OBVIOUS
  <1>6. /\ c \in Conns /\ c.wire = y /\ c.sent = conn[s.id].sent
        /\ c.closer = conn[s.id].closer /\ c.promise = conn[s.id].promise
    BY <1>1, <1>4, <1>5 DEF Conns
  <1>7. Took(s, n) = [conn EXCEPT ![s.id] = c]
    BY <1>1, <1>2, <1>3, <1>5 DEF Took
  <1> QED
    BY <1>3, <1>6, <1>7

\* A connection that has come to c ends, with all that had to be sent written.
LEMMA EndsNoCut ==
    ASSUME Inv, NEW s, s.id \in Ids, NEW c, NEW drained \in BOOLEAN,
           Ends(s, [conn EXCEPT ![s.id] = c], drained),
           drained => \A m \in c.promise : <<m, Size>> \in Range(c.wire)
    PROVE  /\ conn' = [conn EXCEPT ![s.id] = NoConn]
           /\ known' = [known EXCEPT ![s.id] = "none"] /\ cut' = cut
  <1>1. conn \in [Ids -> Conns]
    BY DEF Inv, TypeInv
  <1> DEFINE C == [conn EXCEPT ![s.id] = c]
  <1>2. C[s.id] = c
    BY <1>1
  <1>3. conn' = [C EXCEPT ![s.id] = NoConn] /\ known' = [known EXCEPT ![s.id] = "none"]
    BY DEF Ends
  <1>4. conn' = [conn EXCEPT ![s.id] = NoConn]
    BY <1>1, <1>3
  <1>5. cut' = IF drained THEN cut \cup {m \in c.promise : <<m, Size>> \notin Range(c.wire)}
                          ELSE cut
    BY <1>2 DEF Ends
  <1> QED
    BY <1>3, <1>4, <1>5

\* In a step of the socket thread the slot j, which is s, becomes t, its id has
\* come to the connection c and is known as x.
Becomes(j, s, t, c, x) ==
    /\ j \in Slots /\ s = slot[j] /\ t \in Socket /\ c \in Conns /\ x \in Known
    /\ slot' = [slot EXCEPT ![j] = t] /\ conn' = [conn EXCEPT ![s.id] = c]
    /\ known' = [known EXCEPT ![s.id] = x] /\ cut' = cut /\ alloc_id' = alloc_id
    /\ th' = th /\ (pipe' = pipe \/ Drops)
    /\ Drops => pipe[1].id = s.id /\ pipe[1].cmd \notin MsgCmds
    /\ ev' \subseteq Events /\ poll # "close" /\ poll' \in Polls /\ job' \in Jobs
    /\ poll' = "close" => JobOK(job', t, c)

\* The socket thread goes on, and is not about to close.
Runs ==
    /\ th' = th /\ ev' \subseteq Events
    /\ poll # "close" /\ poll' \in Polls \ {"close"} /\ job' \in Jobs

LEMMA DoneRuns ==
    ASSUME Inv, NEW e \in ev, Done(e) PROVE Runs /\ pipe' = pipe /\ ~Drops
  BY DoneFacts DEF Runs

LEMMA CmdRuns ==
    ASSUME Inv, poll = "ctrl", pipe # <<>>, th' = th, ev' = ev,
           Continues \/ Reported \/ (poll' = poll /\ job' = job)
    PROVE  Runs
  <1>1. Cmd.id \in {0} \cup Ids /\ ev \subseteq Events /\ job \in Jobs
    BY FirstCmd DEF Inv, TypeInv
  <1>2. poll' \in {"ctrl", "clear"} /\ job' \in Jobs
    BY <1>1, NewJob DEF Continues, Reported, Goes
  <1> QED
    BY <1>1, <1>2 DEF Runs, Polls

\* A connection goes on: its slot s becomes t, which is live, too, and loses
\* nothing.
LEMMA LiveStep ==
    ASSUME Inv, NEW j, NEW s, NEW t, NEW c, NEW x, Becomes(j, s, t, c, x),
           Live(s), Live(t), t.id = s.id, t.tcp = s.tcp, t.tag = s.tag,
           t.sending = s.sending, t.lock = s.lock,
           t.lock # Nobody => t.dw_buffer = <<>> /\ t.type \in {"CONNECTED", "HALFCLOSE"},
           c.sent = conn[s.id].sent, c.closer = conn[s.id].closer,
           c.promise = conn[s.id].promise, KnownOK(t.id, t, x, c),
           t.lost => poll' = "close",
           ~t.lost => /\ WireOK(t, c.wire)
                      /\ \A m : Out(s, conn[s.id].wire, m) => Out(t, c.wire, m),
           s.type = "HALFCLOSE" => t.type = "HALFCLOSE",
           t.type = "HALFCLOSE" =>
               /\ c.closer # Nobody
               /\ \A m \in c.promise : Out(s, conn[s.id].wire, m)
    PROVE  Inv'
  <1>1. /\ s \in Socket /\ s.id \in Ids /\ HASH_ID(s.id) = j /\ s = slot[HASH_ID(s.id)] /\ s.tcp
        /\ DueOK(s, conn[s.id], pipe, th) /\ SlotOK(HASH_ID(s.id), s, alloc_id)
        /\ s.sending \in Nat /\ s.sending >= Messages(pipe, th, s.id)
    BY LiveSlot DEF Becomes
  <1>2. TypeInv
    BY DEF Inv
  <1>3. Change(t, c, x)
    BY <1>1 DEF Change, Becomes
  <1>4. SlotOK(HASH_ID(t.id), t, alloc_id')
    <2>1. t.type # "INVALID" /\ t.type # "RESERVE"
      BY DEF Live
    <2> QED
      BY <1>1, <2>1 DEF SlotOK, Becomes
  <1>5. t.tcp => t.sending >= Messages(pipe', th', t.id)
    <2>1. /\ Messages(pipe', th', s.id) \in Nat /\ Messages(pipe, th, s.id) \in Nat
          /\ Messages(pipe', th', s.id) <= Messages(pipe, th, s.id)
      BY <1>2, FewerMessages DEF Becomes
    <2> QED
      BY <2>1, <1>1
  <1>6. ASSUME ~t.lost PROVE DueOK(t, c, pipe', th)
    <2>1. Due(c) = Due(conn[s.id])
      BY DEF Due
    <2>2. \A m : Piped(pipe, s.id, m) => Piped(pipe', s.id, m)
      BY <1>2, StayPiped DEF Becomes
    <2>3. CASE t.type = "HALFCLOSE"
      BY <1>6, <2>3 DEF DueOK, Due
    <2>4. CASE t.type # "HALFCLOSE"
      BY <1>6, <2>1, <2>2, <2>4, <1>1 DEF DueOK
    <2> QED
      BY <2>3, <2>4
  <1>7. s.type # "RESERVE" /\ s = slot[HASH_ID(t.id)]
    BY <1>1 DEF Live
  <1>8. /\ th' = th /\ (pipe' = pipe \/ Drops) /\ (Drops => pipe[1].id = t.id)
        /\ ev' \subseteq Events /\ poll # "close" /\ poll' \in Polls /\ job' \in Jobs
        /\ poll' = "close" => JobOK(job', t, c)
    BY DEF Becomes
  <1>9. Kept(t) => WireOK(t, c.wire) /\ DueOK(t, c, pipe', th)
    BY <1>6 DEF Kept
  <1> QED
    BY <1>3, <1>4, <1>5, <1>7, <1>8, <1>9, ThreadStep

\* A connection gets another type, or its write event is enabled; the lists stay.
LEMMA RetypeStep ==
    ASSUME Inv, NEW j, NEW s, NEW t, NEW c, NEW x, Becomes(j, s, t, c, x),
           Live(s), Live(t), c = conn[s.id],
           t = [s EXCEPT !.type = t.type, !.writing = t.writing],
           KnownOK(t.id, t, x, c), s.lock # Nobody => t.type \in {"CONNECTED", "HALFCLOSE"},
           s.type = "HALFCLOSE" => t.type = "HALFCLOSE",
           t.type = "HALFCLOSE" =>
               /\ c.closer # Nobody
               /\ \A m \in c.promise : Out(s, c.wire, m)
    PROVE  Inv'
  <1>1. /\ s \in Socket /\ ~s.lost /\ WireOK(s, c.wire) /\ SlotOK(HASH_ID(s.id), s, alloc_id)
    BY LiveSlot DEF Becomes
  <1>2. /\ t.id = s.id /\ t.tcp = s.tcp /\ t.tag = s.tag
        /\ t.sending = s.sending /\ t.lock = s.lock /\ t.dw_buffer = s.dw_buffer
        /\ t.high = s.high /\ t.low = s.low /\ ~t.lost
    BY <1>1 DEF Socket
  <1>3. High(t) = High(s) /\ Pending(t) = Pending(s)
    BY <1>2 DEF High, Pending
  <1>4. WireOK(t, c.wire)
    BY <1>1, <1>2, <1>3 DEF WireOK
  <1>5. \A m : Out(s, c.wire, m) => Out(t, c.wire, m)
    BY <1>3 DEF Out
  <1>6. t.lock # Nobody => t.dw_buffer = <<>> /\ t.type \in {"CONNECTED", "HALFCLOSE"}
    BY <1>1, <1>2 DEF SlotOK
  <1> QED
    BY <1>2, <1>4, <1>5, <1>6, LiveStep

\* The slot s and its connection have come to b and c, and nothing is lost.
Passed(s, b, c) ==
    /\ b \in Socket /\ b.type = s.type /\ b.id = s.id /\ b.tcp = s.tcp /\ b.tag = s.tag
    /\ b.sending = s.sending /\ b.lock = s.lock /\ ~b.lost
    /\ b.lock # Nobody => b.dw_buffer = <<>>
    /\ c \in Conns /\ c.sent = conn[s.id].sent /\ c.closer = conn[s.id].closer
    /\ c.promise = conn[s.id].promise
    /\ WireOK(b, c.wire)
    /\ \A m : Out(s, conn[s.id].wire, m) => Out(b, c.wire, m)

\* ... when nothing is written,
LEMMA PassedSelf ==
    ASSUME Inv, poll # "close", NEW j \in Slots, NEW s, s = slot[j], Live(s)
    PROVE  Passed(s, s, conn[s.id])
  BY LiveSlot DEF Passed, SlotOK

\* ... and when the kernel takes n units
LEMMA PassedSent ==
    ASSUME Inv, poll # "close", NEW j \in Slots, NEW s, s = slot[j], Live(s), s.lock = Nobody,
           NEW n \in 0..Len(Pending(s)), NEW b, b = SendBuffer(s, n), b.type # "INVALID"
    PROVE  /\ \E c : Took(s, n) = [conn EXCEPT ![s.id] = c] /\ Passed(s, b, c)
           /\ Pending(b) = SubSeq(Pending(s), n + 1, Len(Pending(s)))
  <1>1. /\ s \in Socket /\ s.id \in Ids /\ conn[s.id] \in Conns /\ conn[s.id].wire \in Seq(Units)
        /\ WireOK(s, conn[s.id].wire) /\ ~s.lost
    BY LiveSlot
  <1>2. Blocks(conn[s.id].wire \o High(s)) /\ Blocks(s.low)
    BY <1>1 DEF WireOK
  <1>3. PICK c \in Conns :
               /\ Took(s, n) = [conn EXCEPT ![s.id] = c]
               /\ c.wire = conn[s.id].wire \o SubSeq(Pending(s), 1, n)
               /\ c.sent = conn[s.id].sent /\ c.closer = conn[s.id].closer
               /\ c.promise = conn[s.id].promise
    BY TookConn
  <1>4. /\ b \in Socket /\ b.type = s.type /\ b.id = s.id /\ b.tcp = s.tcp /\ b.tag = s.tag
        /\ b.sending = s.sending /\ b.lock = s.lock /\ b.lost = s.lost /\ b.dw_buffer = <<>>
        /\ Pending(b) = SubSeq(Pending(s), n + 1, Len(Pending(s)))
        /\ Blocks(c.wire \o High(b)) /\ Blocks(b.low)
    BY <1>1, <1>2, <1>3, SendBufferLists DEF Emptied
  <1>5. WireOK(b, c.wire)
    BY <1>4 DEF WireOK
  <1>6. ASSUME NEW m, Out(s, conn[s.id].wire, m) PROVE Out(b, c.wire, m)
    BY <1>1, <1>3, <1>4, <1>6, OutKept
  <1>7. Passed(s, b, c)
    BY <1>1, <1>3, <1>4, <1>5, <1>6 DEF Passed
  <1> QED
    BY <1>3, <1>4, <1>7

\* A connection goes on with the lists that it has come to, or force_close frees
\* them.
LEMMA PassedStep ==
    ASSUME Inv, NEW j, NEW s, NEW b, NEW t, NEW c, Becomes(j, s, t, c, known[s.id]),
           Live(s), Passed(s, b, c),
           \/ t = b
           \/ t = [b EXCEPT !.type = "HALFCLOSE"]
           \/ t = Freed(b) /\ poll' = "close",
           t.type = "HALFCLOSE" =>
               /\ conn[s.id].closer # Nobody
               /\ \A m \in conn[s.id].promise : Out(s, conn[s.id].wire, m)
    PROVE  Inv'
  <1>1. /\ s \in Socket /\ KnownOK(s.id, s, known[s.id], conn[s.id])
        /\ SlotOK(HASH_ID(s.id), s, alloc_id)
    BY LiveSlot DEF Becomes
  <1>2. /\ b \in Socket /\ b.type = s.type /\ b.id = s.id /\ b.tcp = s.tcp /\ b.tag = s.tag
        /\ b.sending = s.sending /\ b.lock = s.lock /\ ~b.lost
        /\ b.lock # Nobody => b.dw_buffer = <<>>
    BY DEF Passed
  <1>3. /\ t.type \in {s.type, "HALFCLOSE"} /\ t.id = s.id /\ t.tcp = s.tcp
        /\ t.tag = s.tag /\ t.sending = s.sending /\ t.lock = s.lock
        /\ t.dw_buffer = b.dw_buffer /\ (s.type = "HALFCLOSE" => t.type = "HALFCLOSE")
        /\ t.lost => poll' = "close"
    BY <1>2 DEF Socket, Types, Freed
  <1>4. ~t.lost => t.high = b.high /\ t.low = b.low
    BY <1>2 DEF Socket, Freed, send_buffer_empty
  <1>5. ASSUME ~t.lost
        PROVE  /\ WireOK(t, c.wire)
               /\ \A m : Out(s, conn[s.id].wire, m) => Out(t, c.wire, m)
    <2>1. High(t) = High(b) /\ Pending(t) = Pending(b) /\ t.low = b.low /\ t.high = b.high
      BY <1>3, <1>4, <1>5 DEF High, Pending
    <2>2. WireOK(b, c.wire) /\ \A m : Out(s, conn[s.id].wire, m) => Out(b, c.wire, m)
      BY DEF Passed
    <2>3. WireOK(t, c.wire)
      BY <1>2, <1>3, <2>1, <2>2 DEF WireOK
    <2> QED
      BY <2>1, <2>2, <2>3 DEF Out
  <1>6. Live(t)
    BY <1>3 DEF Live
  <1>7. /\ c.sent = conn[s.id].sent /\ c.closer = conn[s.id].closer
        /\ c.promise = conn[s.id].promise
    BY DEF Passed
  <1>8. KnownOK(t.id, t, known[s.id], c)
    BY <1>1, <1>3, <1>6, <1>7 DEF KnownOK, Live
  <1>9. t.lock # Nobody => t.dw_buffer = <<>> /\ t.type \in {"CONNECTED", "HALFCLOSE"}
    BY <1>1, <1>2, <1>3 DEF SlotOK
  <1> QED
    BY <1>3, <1>5, <1>6, <1>7, <1>8, <1>9, LiveStep

\* A command closes the connection in its slot.
LEMMA ClosedByCmd ==
    ASSUME Inv, pipe # <<>>, NEW s, s = slot[At], Live(s), s.id = Cmd.id, s.lock = Nobody,
           NEW t, Emptied(s, t), Leaves(t), Runs,
           conn' = [conn EXCEPT ![s.id] = NoConn], known' = [known EXCEPT ![s.id] = "none"],
           cut' = cut, alloc_id' = alloc_id
    PROVE  Inv'
  <1>1. /\ Cmd = pipe[1] /\ Cmd.id \in Ids /\ At = HASH_ID(Cmd.id) /\ At \in Slots
    BY FirstCmd DEF Inv
  <1>2. Shuts(s, t) /\ Drops
    BY <1>1 DEF Shuts, Leaves, Drops
  <1> QED
    BY <1>1, <1>2, ShutStep DEF Runs

\* An event closes its connection.
LEMMA ClosedByEvent ==
    ASSUME Inv, NEW e \in ev, Done(e), e.from \in Slots,
           NEW s, s = slot[e.from], Live(s), s.lock = Nobody,
           NEW t, Emptied(s, t), slot' = [slot EXCEPT ![e.from] = t],
           conn' = [conn EXCEPT ![s.id] = NoConn], known' = [known EXCEPT ![s.id] = "none"],
           cut' = cut, alloc_id' = alloc_id
    PROVE  Inv'
  <1>1. s.id \in Ids /\ HASH_ID(s.id) = e.from /\ s = slot[HASH_ID(s.id)]
    BY LiveSlot
  <1>2. Shuts(s, t)
    BY <1>1 DEF Shuts
  <1> QED
    BY <1>1, <1>2, DoneRuns, ShutStep DEF Runs

\* A connection ends as it is.
LEMMA EndsAsIs ==
    ASSUME Inv, NEW j \in Slots, NEW s, s = slot[j], Live(s),
           NEW drained \in BOOLEAN, Ends(s, conn, drained),
           drained => \A m \in conn[s.id].promise : <<m, Size>> \in Range(conn[s.id].wire)
    PROVE  /\ conn' = [conn EXCEPT ![s.id] = NoConn]
           /\ known' = [known EXCEPT ![s.id] = "none"] /\ cut' = cut
  <1>1. s.id \in Ids
    BY LiveSlot
  <1>2. conn = [conn EXCEPT ![s.id] = conn[s.id]]
    BY <1>1 DEF Inv, TypeInv
  <1>3. Ends(s, [conn EXCEPT ![s.id] = conn[s.id]], drained)
    BY <1>2
  <1> QED
    BY <1>1, <1>3, EndsNoCut

\* A connection ends after a write of n units.
LEMMA EndsTook ==
    ASSUME Inv, NEW j \in Slots, NEW s, s = slot[j], Live(s), NEW n \in 0..Len(Pending(s)),
           NEW drained \in BOOLEAN, Ends(s, Took(s, n), drained),
           drained => /\ n = Len(Pending(s))
                      /\ \A m \in conn[s.id].promise : Out(s, conn[s.id].wire, m)
    PROVE  /\ conn' = [conn EXCEPT ![s.id] = NoConn]
           /\ known' = [known EXCEPT ![s.id] = "none"] /\ cut' = cut
  <1>1. s \in Socket /\ s.id \in Ids /\ conn[s.id].wire \in Seq(Units)
    BY LiveSlot
  <1>2. PICK c \in Conns :
               /\ Took(s, n) = [conn EXCEPT ![s.id] = c]
               /\ c.wire = conn[s.id].wire \o SubSeq(Pending(s), 1, n)
               /\ c.sent = conn[s.id].sent /\ c.closer = conn[s.id].closer
               /\ c.promise = conn[s.id].promise
    BY TookConn
  <1>3. ASSUME drained, NEW m \in c.promise PROVE <<m, Size>> \in Range(c.wire)
    <2>1. Out(s, conn[s.id].wire, m)
      BY <1>2, <1>3
    <2>2. <<m, Size>> \in Range(conn[s.id].wire \o SubSeq(Pending(s), 1, Len(Pending(s))))
      BY <1>1, <2>1, OutAll
    <2>3. n = Len(Pending(s))
      BY <1>3
    <2> QED
      BY <1>2, <2>2, <2>3
  <1>4. drained => \A m \in c.promise : <<m, Size>> \in Range(c.wire)
    BY <1>3
  <1>5. Ends(s, [conn EXCEPT ![s.id] = c], drained)
    BY <1>2
  <1> QED
    BY ONLY Inv, drained \in BOOLEAN, <1>1, <1>4, <1>5, EndsNoCut

\* The lists are empty after a write only if everything was written.
LEMMA AllTaken ==
    ASSUME NEW s \in Socket, NEW n \in 0..Len(Pending(s)), NEW b \in Socket,
           Pending(b) = SubSeq(Pending(s), n + 1, Len(Pending(s))), nomore_sending_data(b)
    PROVE  n = Len(Pending(s))
  <1>1. PICK p \in Seq(Units) : p = Pending(s)
    BY Lists
  <1>2. Len(p) \in Nat /\ n \in Nat /\ n <= Len(p)
    BY <1>1, LenProperties
  <1>3. Len(SubSeq(p, n + 1, Len(p))) = Len(p) - n
    BY <1>2, Part
  <1>4. SubSeq(p, n + 1, Len(p)) = <<>>
    BY <1>1, Lists DEF nomore_sending_data, send_buffer_empty
  <1>5. ASSUME NEW q, q = <<>> PROVE Len(q) = 0
    BY <1>5
  <1>6. Len(p) - n = 0
    BY <1>3, <1>4, <1>5
  <1> QED
    BY <1>1, <1>2, <1>6

\* close_socket, after the write has come to b and c
LEMMA CloseBecomes ==
    ASSUME Inv, poll = "ctrl", pipe # <<>>, Cmd.cmd = "K", NEW s, s = slot[At],
           IsSocket(s, Cmd.id), NEW b, NEW c, Passed(s, b, c),
           conn' = [conn EXCEPT ![s.id] = c], UNCHANGED <<alloc_id, ev, th, known, cut>>,
           \/ /\ Closes(b, Cmd.shutdown) /\ Leaves(Freed(b))
              /\ Goes("close", [id |-> Cmd.id, drained |-> ~Cmd.shutdown, next |-> "clear"])
           \/ Leaves([b EXCEPT !.type = "HALFCLOSE"]) /\ Continues
    PROVE  Inv'
  <1>1. TypeInv
    BY DEF Inv
  <1>2. /\ Cmd = pipe[1] /\ Cmd \in Cmds /\ Cmd.id \in Ids /\ At = HASH_ID(Cmd.id) /\ At \in Slots
    BY <1>1, FirstCmd
  <1>3. Live(s) /\ s.id = Cmd.id
    BY TakenLive
  <1>4. /\ conn[s.id].closer # Nobody
        /\ \A m \in conn[s.id].promise : Out(s, conn[s.id].wire, m)
    BY DueAtClose
  <1>5. known[s.id] \in Known
    BY <1>2, <1>3, LiveSlot
  <1>6. /\ b \in Socket /\ b.type = s.type /\ b.id = s.id /\ c \in Conns
        /\ c.closer = conn[s.id].closer /\ c.promise = conn[s.id].promise
        /\ \A m : Out(s, conn[s.id].wire, m) => Out(b, c.wire, m)
    BY DEF Passed
  <1>7. known' = [known EXCEPT ![s.id] = known[s.id]]
    BY <1>1, <1>2, <1>3 DEF TypeInv
  <1>8. ev' \subseteq Events /\ th' = th /\ cut' = cut /\ alloc_id' = alloc_id
    BY <1>1 DEF TypeInv
  <1>9. Drops /\ pipe[1].id = s.id /\ pipe[1].cmd \notin MsgCmds
    BY <1>2, <1>3 DEF Leaves, Drops, MsgCmds
  <1>10. CASE /\ Closes(b, Cmd.shutdown) /\ Leaves(Freed(b))
              /\ Goes("close", [id |-> Cmd.id, drained |-> ~Cmd.shutdown, next |-> "clear"])
    <2>1. PICK t : t = Freed(b)
      OBVIOUS
    <2>2. t \in Socket /\ t.id = s.id /\ t.type = s.type /\ t.high = <<>> /\ t.low = <<>>
      <3>1. <<>> \in Seq(Units)
        BY EmptySeq
      <3> QED
        BY <1>6, <2>1, <3>1 DEF Freed, Socket
    <2>3. PICK jb : jb = [id |-> Cmd.id, drained |-> ~Cmd.shutdown, next |-> "clear"]
      OBVIOUS
    <2>4. poll' = "close" /\ job' = jb /\ jb \in Jobs /\ jb.id = Cmd.id /\ jb.drained = ~Cmd.shutdown
      BY <1>2, <1>10, <2>3 DEF Goes, Jobs
    <2>5. ASSUME ~Cmd.shutdown, NEW m \in c.promise PROVE <<m, Size>> \in Range(c.wire)
      <3>1. nomore_sending_data(b)
        BY <1>10, <2>5 DEF Closes
      <3>2. Out(b, c.wire, m)
        BY <1>4, <1>6, <2>5
      <3> QED
        BY <1>6, <3>1, <3>2, OutOnWire
    <2>6. JobOK(job', t, c)
      BY <1>2, <1>3, <1>4, <1>6, <2>2, <2>4, <2>5 DEF JobOK, Live
    <2>7. slot' = [slot EXCEPT ![At] = t]
      BY <1>10, <2>1 DEF Leaves
    <2>8. Becomes(At, s, t, c, known[s.id])
      BY <1>2, <1>5, <1>6, <1>7, <1>8, <1>9, <2>2, <2>4, <2>6, <2>7 DEF Becomes, Polls
    <2> QED
      BY <1>3, <1>4, <2>1, <2>4, <2>8, PassedStep
  <1>11. CASE Leaves([b EXCEPT !.type = "HALFCLOSE"]) /\ Continues
    <2>1. PICK t : t = [b EXCEPT !.type = "HALFCLOSE"]
      OBVIOUS
    <2>2. t \in Socket
      BY <1>6, <2>1 DEF Socket, Types
    <2>3. slot' = [slot EXCEPT ![At] = t] /\ Runs
      BY <1>11, <2>1, CmdRuns DEF Leaves
    <2>4. Becomes(At, s, t, c, known[s.id])
      BY <1>2, <1>5, <1>6, <1>7, <1>8, <1>9, <2>2, <2>3 DEF Becomes, Runs
    <2> QED
      BY <1>3, <1>4, <2>1, <2>4, PassedStep
  <1> QED
    BY <1>10, <1>11

\* Nothing is taken.
LEMMA TookNone ==
    ASSUME Inv, NEW j \in Slots, NEW s, s = slot[j], Live(s)
    PROVE  Took(s, 0) = [conn EXCEPT ![s.id] = conn[s.id]]
  <1>1. /\ s \in Socket /\ s.id \in Ids /\ conn[s.id] \in Conns
        /\ conn[s.id].wire \in Seq(Units)
    BY LiveSlot
  <1>2. PICK y : y = SubSeq(Pending(s), 1, 0)
    OBVIOUS
  <1>3. y = <<>>
    <2>1. Pending(s) \in Seq(Units) /\ Len(Pending(s)) \in Nat
      BY <1>1, Lists, LenProperties
    <2>2. SubSeq(Pending(s), 0 + 1, 0) \in Seq(Units) /\ Len(SubSeq(Pending(s), 0 + 1, 0)) = 0 - 0
      BY <2>1, Part
    <2>3. y \in Seq(Units) /\ Len(y) = 0
      BY <2>2, <1>2
    <2> QED
      BY <2>3, EmptySeq
  <1>4. conn[s.id].wire \o y = conn[s.id].wire
    BY <1>1, <1>3, ConcatEmptySeq
  <1>5. conn \in [Ids -> Conns]
    BY DEF Inv, TypeInv
  <1>6. Took(s, 0) = [conn EXCEPT ![s.id].wire = @ \o y]
    BY <1>2 DEF Took
  <1>7. [conn[s.id] EXCEPT !.wire = conn[s.id].wire] = conn[s.id]
    BY <1>1 DEF Conns
  <1> QED
    BY <1>1, <1>4, <1>5, <1>6, <1>7

\* close_socket
LEMMA CloseSocketStep ==
    ASSUME Inv, NEW n, CloseSocket(n)
    PROVE  Inv'
  <1>1. TypeInv
    BY DEF Inv
  <1>2. PICK s : s = slot[At]
    OBVIOUS
  <1>3. PICK sends : sends = (s.lock = Nobody /\ ~nomore_sending_data(s))
    OBVIOUS
  <1>4. PICK b : b = IF sends THEN SendBuffer(s, n) ELSE s
    OBVIOUS
  <1>6. /\ poll = "ctrl" /\ pipe # <<>> /\ Cmd.cmd = "K" /\ IsSocket(s, Cmd.id)
        /\ n \in 0..(IF sends THEN Len(Pending(s)) ELSE 0)
        /\ alloc_id' = alloc_id /\ ev' = ev /\ th' = th
    BY <1>2, <1>3 DEF CloseSocket, Takes, Cmd
  <1>7. \/ /\ b.type = "INVALID" /\ Leaves(b) /\ Reported
           /\ Ends(s, Took(s, n), TRUE)
        \/ /\ b.type # "INVALID" /\ conn' = Took(s, n) /\ UNCHANGED <<known, cut>>
           /\ \/ /\ Closes(b, Cmd.shutdown) /\ Leaves(Freed(b))
                 /\ Goes("close", [id |-> Cmd.id, drained |-> ~Cmd.shutdown, next |-> "clear"])
              \/ Leaves([b EXCEPT !.type = "HALFCLOSE"]) /\ Continues
    BY <1>2, <1>3, <1>4 DEF CloseSocket
  <1>8. /\ Cmd = pipe[1] /\ Cmd.id \in Ids /\ At = HASH_ID(Cmd.id) /\ At \in Slots
    BY <1>1, <1>6, FirstCmd
  <1>9. Live(s) /\ s.id = Cmd.id
    BY <1>2, <1>6, TakenLive
  <1>10. CASE ~sends
    <2>1. b = s /\ n = 0 /\ b.type # "INVALID"
      BY <1>4, <1>6, <1>9, <1>10 DEF Live
    <2>2. conn' = [conn EXCEPT ![s.id] = conn[s.id]]
      BY <1>2, <1>7, <1>8, <1>9, <2>1, TookNone
    <2>3. Passed(s, s, conn[s.id])
      BY <1>2, <1>6, <1>8, <1>9, PassedSelf
    <2> QED
      BY <1>2, <1>6, <1>7, <2>1, <2>2, <2>3, CloseBecomes
  <1>11. CASE sends
    <2>1. s.lock = Nobody /\ b = SendBuffer(s, n) /\ n \in 0..Len(Pending(s))
      BY <1>3, <1>4, <1>6, <1>11
    <2>2. CASE b.type # "INVALID"
      <3>1. PICK c : Took(s, n) = [conn EXCEPT ![s.id] = c] /\ Passed(s, b, c)
        BY <1>2, <1>6, <1>8, <1>9, <2>1, <2>2, PassedSent
      <3>2. conn' = [conn EXCEPT ![s.id] = c]
        BY <1>7, <2>2, <3>1
      <3> QED
        BY <1>2, <1>6, <1>7, <2>2, <3>1, <3>2, CloseBecomes
    <2>3. CASE b.type = "INVALID"
      <3>1. /\ s \in Socket /\ conn[s.id].wire \in Seq(Units)
            /\ Blocks(conn[s.id].wire \o High(s)) /\ Blocks(s.low)
        BY <1>2, <1>6, <1>8, <1>9, LiveSlot DEF WireOK
      <3>2. Emptied(s, b) /\ n = Len(Pending(s))
        <4>1. b.type # s.type
          BY <2>3, <1>9 DEF Live
        <4>2. PICK w \in Seq(Units) : Blocks(w \o High(s))
          BY <3>1
        <4> QED
          BY <1>9, <2>1, <3>1, <4>1, <4>2, SendBufferLists
      <3>3. /\ conn[s.id].closer # Nobody
            /\ \A m \in conn[s.id].promise : Out(s, conn[s.id].wire, m)
        BY <1>2, <1>6, DueAtClose
      <3>4. Ends(s, Took(s, n), TRUE) /\ Leaves(b) /\ Reported
        BY <1>7, <2>3
      <3>5. /\ conn' = [conn EXCEPT ![s.id] = NoConn]
            /\ known' = [known EXCEPT ![s.id] = "none"] /\ cut' = cut
        BY <1>2, <1>8, <1>9, <2>1, <3>2, <3>3, <3>4, EndsTook
      <3>6. Runs
        BY <1>6, <3>4, CmdRuns
      <3> QED
        BY <1>2, <1>6, <1>9, <2>1, <3>2, <3>4, <3>5, <3>6, ClosedByCmd
    <2> QED
      BY <2>2, <2>3
  <1> QED
    BY <1>10, <1>11

\* close_socket when the write fails, or of a socket that is gone
LEMMA CloseOtherStep ==
    ASSUME Inv, CloseSocketError \/ CloseNothing
    PROVE  Inv'
  <1>1. /\ poll = "ctrl" /\ pipe # <<>> /\ Cmd.cmd = "K" /\ Reported /\ th' = th
        /\ alloc_id' = alloc_id /\ ev' = ev
    BY DEF CloseSocketError, CloseNothing, Takes, Cmd
  <1>2. /\ Cmd = pipe[1] /\ Cmd.id \in Ids /\ At = HASH_ID(Cmd.id) /\ At \in Slots
    BY <1>1, FirstCmd DEF Inv
  <1>5. Runs
    BY <1>1, CmdRuns
  <1>3. CASE CloseSocketError
    <2>1. PICK s : s = slot[At]
      OBVIOUS
    <2>2. /\ IsSocket(s, Cmd.id) /\ s.lock = Nobody
          /\ Leaves(ForceClosed(Listed(s))) /\ Ends(s, conn, FALSE)
      BY <1>3, <2>1 DEF CloseSocketError
    <2>3. Live(s) /\ s.id = Cmd.id
      BY <1>1, <2>1, <2>2, TakenLive
    <2>4. s \in Socket
      BY <1>2, <2>1, <2>3, LiveSlot
    <2>5. Emptied(s, ForceClosed(Listed(s)))
      BY <2>4, ListedEmptied
    <2>6. /\ conn' = [conn EXCEPT ![s.id] = NoConn]
          /\ known' = [known EXCEPT ![s.id] = "none"] /\ cut' = cut
      BY <1>2, <2>1, <2>2, <2>3, EndsAsIs
    <2> QED
      BY <1>1, <1>5, <2>1, <2>2, <2>3, <2>5, <2>6, ClosedByCmd
  <1>4. CASE CloseNothing
    <2>1. /\ ~IsSocket(slot[At], Cmd.id) /\ Leaves(slot[At])
          /\ UNCHANGED <<alloc_id, th, known, conn, cut>>
      BY <1>4 DEF CloseNothing
    <2> QED
      BY <1>1, <1>5, <2>1, QuietCmd DEF Runs
  <1> QED
    BY <1>3, <1>4

\* force_close gets the lock.
LEMMA CloseFdStep ==
    ASSUME Inv, CloseFd
    PROVE  Inv'
  <1>1. PICK s : s = slot[HASH_ID(job.id)]
    OBVIOUS
  <1>2. /\ poll = "close" /\ s.lock = Nobody
        /\ slot' = [slot EXCEPT ![HASH_ID(job.id)] = Closed(s)]
        /\ Ends(s, conn, job.drained) /\ poll' = job.next
        /\ job' = IF job.next = "clear" THEN [NoJob EXCEPT !.id = job.id] ELSE NoJob
        /\ alloc_id' = alloc_id /\ th' = th /\ pipe' = pipe /\ ev' = ev
    BY <1>1 DEF CloseFd, Goes
  <1>3. JobOK(job, s, conn[job.id])
    BY <1>1, <1>2 DEF Inv, JobInv
  <1>4. /\ job.id \in Ids /\ s.id = job.id /\ Live(s) /\ s.high = <<>> /\ s.low = <<>>
        /\ job.drained => \A m \in conn[s.id].promise : <<m, Size>> \in Range(conn[s.id].wire)
    BY <1>3 DEF JobOK
  <1>5. HASH_ID(job.id) \in Slots
    BY <1>4, HashSlot DEF Ids
  <1>6. s \in Socket
    BY <1>1, <1>4, <1>5, LiveSlot
  <1>7. job.drained \in BOOLEAN /\ job.next \in Polls \ {"close"} /\ job' \in Jobs
    <2>1. job \in Jobs
      BY DEF Inv, TypeInv
    <2> QED
      BY <1>2, <1>4, <2>1, NewJob DEF Jobs, Polls
  <1>8. /\ conn' = [conn EXCEPT ![s.id] = NoConn]
        /\ known' = [known EXCEPT ![s.id] = "none"] /\ cut' = cut
    BY <1>1, <1>2, <1>4, <1>5, <1>7, EndsAsIs
  <1>9. Emptied(s, Closed(s))
    BY <1>4, <1>6, EmptySeq DEF Emptied, Closed, Socket, Types
  <1>10. Shuts(s, Closed(s)) /\ s = slot[HASH_ID(s.id)]
    BY <1>1, <1>2, <1>4, <1>8, <1>9 DEF Shuts
  <1>11. ev' \subseteq Events
    BY <1>2 DEF Inv, TypeInv
  <1> QED
    BY <1>2, <1>4, <1>7, <1>10, <1>11, ShutStep

\* resume_socket
LEMMA ResumeStep ==
    ASSUME Inv, ResumeSocket
    PROVE  Inv'
  <1>1. /\ poll = "ctrl" /\ pipe # <<>> /\ Cmd.cmd = "R"
        /\ alloc_id' = alloc_id /\ th' = th /\ conn' = conn /\ cut' = cut /\ ev' = ev
        /\ Continues \/ Reported
    BY DEF ResumeSocket, Takes, Cmd
  <1>7. Runs
    BY <1>1, CmdRuns
  <1>2. TypeInv
    BY DEF Inv
  <1>3. /\ Cmd = pipe[1] /\ Cmd.id \in Ids /\ At = HASH_ID(Cmd.id) /\ At \in Slots
    BY <1>1, <1>2, FirstCmd
  <1>4. PICK s : s = slot[At]
    OBVIOUS
  <1>5. CASE IsSocket(s, Cmd.id) /\ s.type = "PACCEPT"
    <2>1. PICK t : t = [s EXCEPT !.type = "CONNECTED"]
      OBVIOUS
    <2>2. Leaves(t) /\ known' = [known EXCEPT ![Cmd.id] = "open"]
      BY <1>4, <1>5, <2>1 DEF ResumeSocket
    <2>3. Live(s) /\ s.id = Cmd.id
      BY <1>1, <1>4, <1>5, TakenLive
    <2>4. /\ s \in Socket /\ conn[s.id] \in Conns
          /\ KnownOK(s.id, s, known[s.id], conn[s.id])
      BY <1>3, <1>4, <2>3, LiveSlot
    <2>5. t = [s EXCEPT !.type = t.type, !.writing = t.writing]
      BY <2>1, <2>4 DEF Socket
    <2>6. t \in Socket /\ t.type = "CONNECTED" /\ t.id = s.id
      BY <2>1, <2>4 DEF Socket, Types
    <2>7. Drops /\ pipe[1].id = s.id /\ pipe[1].cmd \notin MsgCmds
      BY <1>1, <1>3, <2>2, <2>3 DEF Leaves, Drops, MsgCmds
    <2>8. conn' = [conn EXCEPT ![s.id] = conn[s.id]]
      BY <1>1, <1>2, <1>3, <2>3 DEF TypeInv
    <2>9. "open" \in Known
      BY DEF Known
    <2>10. Becomes(At, s, t, conn[s.id], "open")
      BY <1>1, <1>3, <1>4, <1>7, <2>2, <2>3, <2>4, <2>6, <2>7, <2>8, <2>9
         DEF Becomes, Leaves, Runs
    <2>11. Live(t) /\ KnownOK(t.id, t, "open", conn[s.id])
      BY <2>6 DEF KnownOK, Live
    <2>12. s.type # "HALFCLOSE"
      BY <1>5
    <2> QED
      BY <2>3, <2>5, <2>6, <2>10, <2>11, <2>12, RetypeStep
  <1>6. CASE ~(IsSocket(s, Cmd.id) /\ s.type = "PACCEPT")
    <2>1. Leaves(slot[At]) /\ known' = known
      BY <1>4, <1>6 DEF ResumeSocket
    <2>2. Cmd.cmd \notin MsgCmds
      BY <1>1 DEF MsgCmds
    <2> QED
      BY <1>1, <1>7, <2>1, <2>2, QuietCmd DEF Runs
  <1> QED
    BY <1>5, <1>6

\* trigger_write
LEMMA TriggerStep ==
    ASSUME Inv, TriggerWrite
    PROVE  Inv'
  <1>1. /\ poll = "ctrl" /\ pipe # <<>> /\ Cmd.cmd = "W" /\ alloc_id' = alloc_id
        /\ th' = th /\ conn' = conn /\ cut' = cut /\ ev' = ev /\ known' = known
        /\ poll' = poll /\ job' = job
    BY DEF TriggerWrite, Takes, Cmd
  <1>7. Runs
    BY <1>1, CmdRuns
  <1>2. TypeInv
    BY DEF Inv
  <1>3. /\ Cmd = pipe[1] /\ Cmd.id \in Ids /\ At = HASH_ID(Cmd.id) /\ At \in Slots
    BY <1>1, <1>2, FirstCmd
  <1>4. PICK s : s = slot[At]
    OBVIOUS
  <1>5. CASE IsSocket(s, Cmd.id)
    <2>1. PICK t : t = [s EXCEPT !.writing = TRUE]
      OBVIOUS
    <2>2. Leaves(t)
      BY <1>4, <1>5, <2>1 DEF TriggerWrite
    <2>3. Live(s) /\ s.id = Cmd.id
      BY <1>1, <1>4, <1>5, TakenLive
    <2>4. /\ s \in Socket /\ conn[s.id] \in Conns /\ known[s.id] \in Known
          /\ KnownOK(s.id, s, known[s.id], conn[s.id]) /\ DueOK(s, conn[s.id], pipe, th)
          /\ s.lock # Nobody => s.type \in {"CONNECTED", "HALFCLOSE"}
      BY <1>1, <1>3, <1>4, <2>3, LiveSlot DEF SlotOK
    <2>5. t = [s EXCEPT !.type = t.type, !.writing = t.writing]
      BY <2>1, <2>4 DEF Socket
    <2>6. t \in Socket /\ t.type = s.type /\ t.id = s.id
      BY <2>1, <2>4 DEF Socket
    <2>7. Drops /\ pipe[1].id = s.id /\ pipe[1].cmd \notin MsgCmds
      BY <1>1, <1>3, <2>2, <2>3 DEF Leaves, Drops, MsgCmds
    <2>8. /\ conn' = [conn EXCEPT ![s.id] = conn[s.id]]
          /\ known' = [known EXCEPT ![s.id] = known[s.id]]
      BY <1>1, <1>2, <1>3, <2>3 DEF TypeInv
    <2>9. Becomes(At, s, t, conn[s.id], known[s.id])
      BY <1>1, <1>3, <1>4, <1>7, <2>2, <2>4, <2>6, <2>7, <2>8 DEF Becomes, Leaves, Runs
    <2>10. Live(t) /\ KnownOK(t.id, t, known[s.id], conn[s.id])
      BY <2>3, <2>4, <2>6 DEF KnownOK, Live
    <2>11. s.type = "HALFCLOSE" =>
               /\ conn[s.id].closer # Nobody
               /\ \A m \in conn[s.id].promise : Out(s, conn[s.id].wire, m)
      BY <2>4 DEF DueOK, Due
    <2> QED
      BY <2>3, <2>4, <2>5, <2>6, <2>9, <2>10, <2>11, RetypeStep
  <1>6. CASE ~IsSocket(s, Cmd.id)
    <2>1. Leaves(slot[At])
      BY <1>4, <1>6 DEF TriggerWrite
    <2> QED
      BY <1>1, <1>4, <1>6, <1>7, <2>1, QuietCmd DEF Runs
  <1> QED
    BY <1>5, <1>6

\* report_connect
LEMMA ReportConnectStep ==
    ASSUME Inv, NEW e \in ev, NEW ok \in BOOLEAN, ReportConnect(e, ok)
    PROVE  Inv'
  <1>1. PICK s : s = slot[e.from]
    OBVIOUS
  <1>2. /\ Done(e) /\ e.from \in Slots /\ s.type = "CONNECTING"
        /\ alloc_id' = alloc_id
    BY <1>1 DEF ReportConnect
  <1>3. Live(s)
    BY <1>2 DEF Live
  <1>4. /\ s \in Socket /\ s.id \in Ids /\ conn[s.id] \in Conns
        /\ KnownOK(s.id, s, known[s.id], conn[s.id])
        /\ SlotOK(HASH_ID(s.id), s, alloc_id)
    BY <1>1, <1>2, <1>3, LiveSlot
  <1>5. s.lock = Nobody
    BY <1>2, <1>4 DEF SlotOK
  <1>6. Runs /\ pipe' = pipe /\ ~Drops
    BY <1>2, DoneRuns
  <1>7. slot \in [Slots -> Socket] /\ conn \in [Ids -> Conns]
    BY DEF Inv, TypeInv
  <1>8. CASE ok
    <2>1. PICK writing : writing = (s.writing /\ ~nomore_sending_data(s))
      OBVIOUS
    <2>2. PICK t : t = [s EXCEPT !.type = "CONNECTED", !.writing = writing]
      OBVIOUS
    <2>3. writing \in BOOLEAN
      BY <2>1
    <2>4. t \in Socket /\ t.type = "CONNECTED" /\ t.id = s.id
      BY <1>4, <2>2, <2>3 DEF Socket, Types
    <2>5. t = [s EXCEPT !.type = t.type, !.writing = t.writing]
      BY <1>4, <2>2 DEF Socket
    <2>6. slot' = [slot EXCEPT ![e.from] = t]
      <3>1. slot' = [slot EXCEPT ![e.from].type = "CONNECTED",
                                 ![e.from].writing = @ /\ ~nomore_sending_data(s)]
        BY <1>1, <1>8 DEF ReportConnect
      <3> QED
        BY <1>1, <1>2, <1>4, <1>7, <2>1, <2>2, <3>1 DEF Socket
    <2>7. /\ known' = [known EXCEPT ![s.id] = "open"] /\ conn' = conn /\ cut' = cut
      BY <1>1, <1>8 DEF ReportConnect
    <2>8. conn' = [conn EXCEPT ![s.id] = conn[s.id]] /\ "open" \in Known
      BY <1>4, <1>7, <2>7 DEF Known
    <2>9. Becomes(e.from, s, t, conn[s.id], "open")
      BY <1>1, <1>2, <1>4, <1>6, <2>4, <2>6, <2>7, <2>8 DEF Becomes, Runs
    <2>10. Live(t) /\ KnownOK(t.id, t, "open", conn[s.id])
      BY <2>4 DEF KnownOK, Live
    <2>11. s.type # "HALFCLOSE" /\ t.type # "HALFCLOSE"
      BY <1>2, <2>4
    <2> QED
      BY <1>3, <1>5, <2>5, <2>9, <2>10, <2>11, RetypeStep
  <1>9. CASE ~ok
    <2>1. slot' = [slot EXCEPT ![e.from] = ForceClosed(s)] /\ Ends(s, conn, FALSE)
      BY <1>1, <1>9 DEF ReportConnect
    <2>2. Emptied(s, ForceClosed(s))
      BY <1>4, ForceClosedEmptied
    <2>3. /\ conn' = [conn EXCEPT ![s.id] = NoConn]
          /\ known' = [known EXCEPT ![s.id] = "none"] /\ cut' = cut
      BY <1>1, <1>2, <1>3, <2>1, EndsAsIs
    <2> QED
      BY <1>1, <1>2, <1>3, <1>5, <2>1, <2>2, <2>3, ClosedByEvent
  <1> QED
    BY <1>8, <1>9

\* The end of a connection, or an error: force_close frees the lists.
LEMMA ForwardEndStep ==
    ASSUME Inv, NEW e \in ev, ForwardEnd(e)
    PROVE  Inv'
  <1>1. PICK s : s = slot[e.from]
    OBVIOUS
  <1>2. /\ Dispatch(e) /\ ev' = ev \ {e} /\ e.from \in Slots /\ Live(s)
        /\ slot' = [slot EXCEPT ![e.from] = Freed(s)]
        /\ poll' = "close" /\ job' = [id |-> s.id, drained |-> FALSE, next |-> Onward]
        /\ alloc_id' = alloc_id /\ known' = known /\ conn' = conn /\ cut' = cut
    BY <1>1 DEF ForwardEnd, Transfers, Goes, Live
  <1>3. th' = th /\ pipe' = pipe /\ ~Drops /\ ev' \subseteq Events
        /\ poll # "close" /\ Onward \in {"ctrl", "rest"}
    BY <1>2, DispatchFacts
  <1>4. /\ s \in Socket /\ s.id \in Ids /\ conn[s.id] \in Conns /\ known[s.id] \in Known
        /\ DueOK(s, conn[s.id], pipe, th)
    BY <1>1, <1>2, <1>3, LiveSlot
  <1>5. PICK t : t = Freed(s)
    OBVIOUS
  <1>6. t \in Socket /\ t.id = s.id /\ t.type = s.type /\ t.high = <<>> /\ t.low = <<>>
    BY <1>4, <1>5, EmptySeq DEF Freed, Socket
  <1>7. JobOK(job', t, conn[s.id]) /\ job' \in Jobs
    BY <1>2, <1>3, <1>4, <1>6, NewJob DEF JobOK, Live
  <1>8. /\ known' = [known EXCEPT ![s.id] = known[s.id]]
        /\ conn' = [conn EXCEPT ![s.id] = conn[s.id]]
    BY <1>2, <1>4 DEF Inv, TypeInv
  <1>9. Becomes(e.from, s, t, conn[s.id], known[s.id])
    BY <1>1, <1>2, <1>3, <1>4, <1>5, <1>6, <1>7, <1>8 DEF Becomes, Polls
  <1>10. s.type = "HALFCLOSE" => /\ conn[s.id].closer # Nobody
                                 /\ \A m \in conn[s.id].promise : Out(s, conn[s.id].wire, m)
    BY <1>4 DEF DueOK, Due
  <1>11. Passed(s, s, conn[s.id])
    BY <1>1, <1>2, <1>3, PassedSelf
  <1> QED
    BY <1>2, <1>5, <1>6, <1>9, <1>10, <1>11, PassedStep

\* A write that fails
LEMMA WriteErrorStep ==
    ASSUME Inv, NEW e \in ev, WriteError(e)
    PROVE  Inv'
  <1>1. PICK s : s = slot[e.from]
    OBVIOUS
  <1>2. /\ Done(e) /\ e.from \in Slots /\ Live(s) /\ s.lock = Nobody
        /\ slot' = [slot EXCEPT ![e.from] = ForceClosed(Listed(s))] /\ Ends(s, conn, FALSE)
        /\ alloc_id' = alloc_id
    BY <1>1 DEF WriteError, Transfers, Live
  <1>3. Emptied(s, ForceClosed(Listed(s)))
    <2>1. s \in Socket
      BY <1>1, <1>2, LiveSlot
    <2> QED
      BY <2>1, ListedEmptied
  <1>4. /\ conn' = [conn EXCEPT ![s.id] = NoConn]
        /\ known' = [known EXCEPT ![s.id] = "none"] /\ cut' = cut
    BY <1>1, <1>2, EndsAsIs
  <1> QED
    BY <1>1, <1>2, <1>3, <1>4, ClosedByEvent

\* send_buffer, when the socket is writable
LEMMA WriteEventStep ==
    ASSUME Inv, NEW e \in ev, NEW n, WriteEvent(e, n)
    PROVE  Inv'
  <1>1. PICK s : s = slot[e.from]
    OBVIOUS
  <1>2. PICK b : b = SendBuffer(s, n)
    OBVIOUS
  <1>3. /\ Done(e) /\ e.from \in Slots /\ Live(s) /\ s.lock = Nobody
        /\ slot' = [slot EXCEPT ![e.from] = b] /\ alloc_id' = alloc_id
    BY <1>1, <1>2 DEF WriteEvent, Transfers, Live
  <1>11. Runs /\ pipe' = pipe /\ ~Drops
    BY <1>3, DoneRuns
  <1>4. n \in 0..Len(Pending(s))
    BY <1>1 DEF WriteEvent
  <1>5. IF b.type = "INVALID" THEN Ends(s, Took(s, n), TRUE)
                              ELSE conn' = Took(s, n) /\ UNCHANGED <<known, cut>>
    BY <1>1, <1>2 DEF WriteEvent
  <1>6. /\ s \in Socket /\ conn[s.id].wire \in Seq(Units)
        /\ Blocks(conn[s.id].wire \o High(s)) /\ Blocks(s.low)
        /\ DueOK(s, conn[s.id], pipe, th)
    BY <1>1, <1>3, <1>11, LiveSlot DEF WireOK, Runs
  <1>7. s.type = "HALFCLOSE" => /\ conn[s.id].closer # Nobody
                                /\ \A m \in conn[s.id].promise : Out(s, conn[s.id].wire, m)
    BY <1>6 DEF DueOK, Due
  <1>8. \/ /\ Emptied(s, b) /\ s.type = "HALFCLOSE" /\ n = Len(Pending(s))
        \/ b.type = s.type
    BY <1>2, <1>3, <1>4, <1>6, SendBufferLists
  <1>9. CASE Emptied(s, b) /\ s.type = "HALFCLOSE" /\ n = Len(Pending(s))
    <2>1. Ends(s, Took(s, n), TRUE)
      BY <1>5, <1>9 DEF Emptied
    <2>2. /\ conn' = [conn EXCEPT ![s.id] = NoConn]
          /\ known' = [known EXCEPT ![s.id] = "none"] /\ cut' = cut
      BY <1>1, <1>3, <1>4, <1>7, <1>9, <2>1, EndsTook
    <2> QED
      BY <1>1, <1>3, <1>9, <2>2, ClosedByEvent
  <1>10. CASE b.type = s.type
    <2>1. b.type # "INVALID"
      BY <1>3, <1>10 DEF Live
    <2>2. conn' = Took(s, n) /\ known' = known /\ cut' = cut
      BY <1>5, <2>1
    <2>3. PICK c : Took(s, n) = [conn EXCEPT ![s.id] = c] /\ Passed(s, b, c)
      BY <1>1, <1>2, <1>3, <1>4, <1>11, <2>1, PassedSent DEF Runs
    <2>4. b.type = "HALFCLOSE" =>
             /\ conn[s.id].closer # Nobody
             /\ \A m \in conn[s.id].promise : Out(s, conn[s.id].wire, m)
      BY <1>7, <1>10
    <2>5. known[s.id] \in Known /\ s.id \in Ids
      BY <1>1, <1>3, LiveSlot
    <2>6. known' = [known EXCEPT ![s.id] = known[s.id]]
      BY <2>2, <2>5 DEF Inv, TypeInv
    <2>7. b \in Socket /\ c \in Conns
      BY <2>3 DEF Passed
    <2>8. Becomes(e.from, s, b, c, known[s.id])
      BY <1>1, <1>3, <1>11, <2>2, <2>3, <2>5, <2>6, <2>7 DEF Becomes, Runs
    <2> QED
      BY <1>3, <2>3, <2>4, <2>8, PassedStep
  <1> QED
    BY <1>8, <1>9, <1>10

\* The id that reserve_id takes is new, and its slot is free.
LEMMA NextIdFree ==
    ASSUME Inv, NEW id \in Ids, IsNextId(id), NEW s, s = slot[HASH_ID(id)]
    PROVE  /\ HASH_ID(id) \in Slots /\ s \in Socket /\ s.type = "INVALID" /\ alloc_id < id
           /\ s.high = <<>> /\ s.low = <<>> /\ s.dw_buffer = <<>> /\ s.lock = Nobody
           /\ conn[id] = NoConn /\ known[id] = "none"
  <1>1. TypeInv /\ SlotInv /\ KnownInv
    BY DEF Inv
  <1>2. HASH_ID(id) \in Slots
    BY HashSlot DEF Ids
  <1>3. s \in Socket /\ SlotOK(HASH_ID(id), s, alloc_id)
    BY <1>1, <1>2 DEF TypeInv, SlotInv
  <1>4. s.type = "INVALID" /\ alloc_id < id
    <2>1. alloc_id \in Int /\ MaxId \in Int
      BY <1>1, SocketAssumption DEF TypeInv
    <2> QED
      BY <2>1 DEF IsNextId, FreeIds
  <1>5. ~Live(s)
    BY <1>4 DEF Live
  <1>6. conn[id] = NoConn /\ known[id] = "none"
    BY <1>1, <1>5 DEF KnownInv, KnownOK
  <1> QED
    BY <1>2, <1>3, <1>4, <1>5, <1>6 DEF SlotOK

\* No message for an id that was not given yet is underway.
LEMMA NoneUnderway ==
    ASSUME Inv, NEW id \in Ids, alloc_id < id
    PROVE  Messages(pipe, th, id) = 0
  <1>1. TypeInv /\ PipeInv /\ SenderInv
    BY DEF Inv
  <1>2. alloc_id \in Int /\ id \in Int
    BY <1>1 DEF TypeInv, Ids
  <1>3. InPipe(pipe, id) = {}
    <2>1. ASSUME NEW k \in 1..Len(pipe) PROVE pipe[k].id # id
      <3>1. pipe[k].id <= alloc_id
        BY <1>1 DEF PipeInv, CmdOK
      <3> QED
        BY <3>1, <1>2
    <2> QED
      BY <2>1 DEF InPipe
  <1>4. InHand(th, id) = {}
    <2>1. ASSUME NEW v \in Services, th[v].pc = "push" PROVE th[v].id # id
      <3>1. th[v].id <= alloc_id
        BY <2>1, <1>1 DEF SenderInv, SenderOK
      <3> QED
        BY <3>1, <1>2
    <2> QED
      BY <2>1 DEF InHand
  <1> QED
    BY <1>3, <1>4, FS_EmptySet DEF Messages

-----------------------------------------------------------------------------
(* The commands and events that begin a connection *)

\* Nothing was sent to a connection that begins, and nothing must be.
LEMMA NewConn ==
    ASSUME NEW t, t.high = <<>>, t.low = <<>>, t.dw_buffer = <<>>, t.lock = Nobody,
           t.type # "HALFCLOSE", NEW p, NEW T
    PROVE  /\ WireOK(t, NoConn.wire) /\ DueOK(t, NoConn, p, T)
           /\ NoConn \in Conns /\ NoConn.closer = Nobody
  <1>1. <<>> \in Seq(Units)
    BY EmptySeq
  <1>2. NoConn \in Conns /\ NoConn.wire = <<>> /\ NoConn.sent = {} /\ NoConn.closer = Nobody
    BY <1>1 DEF NoConn, Conns
  <1>3. <<>> \o <<>> = <<>>
    BY <1>1, ConcatEmptySeq
  <1>4. High(t) = <<>> /\ <<>> \o High(t) = <<>>
    BY <1>3 DEF High
  <1>5. WireOK(t, NoConn.wire)
    BY <1>2, <1>4, BlocksEmpty DEF WireOK
  <1>6. Due(NoConn) = {}
    BY <1>2 DEF Due
  <1> QED
    BY <1>2, <1>5, <1>6 DEF DueOK

\* report_accept
LEMMA ReportAcceptStep ==
    ASSUME Inv, NEW e \in ev, ReportAccept(e)
    PROVE  Inv'
  <1>1. /\ th' = th /\ pipe' = pipe /\ ~Drops /\ ev' \subseteq Events
        /\ poll # "close" /\ poll' \in Polls /\ poll' # "close" /\ job' \in Jobs
    BY DoneFacts DEF ReportAccept
  <1>2. conn' = conn /\ cut' = cut
    BY DEF ReportAccept
  <1>3. CASE UNCHANGED <<slot, alloc_id, known>>
    <2>1. Still
      BY <1>2, <1>3 DEF Still
    <2> QED
      BY <2>1, QuietEvents
  <1>4. ASSUME NEW id \in Ids, IsNextId(id), alloc_id' = id,
               slot' = [slot EXCEPT ![HASH_ID(id)] = NewFd(Reserved(@, id), id, "PACCEPT")],
               known' = [known EXCEPT ![id] = "accepted"]
        PROVE  Inv'
    <2>1. PICK s : s = slot[HASH_ID(id)]
      OBVIOUS
    <2>2. /\ HASH_ID(id) \in Slots /\ s \in Socket /\ s.type = "INVALID" /\ alloc_id < id
          /\ s.high = <<>> /\ s.low = <<>> /\ s.dw_buffer = <<>> /\ s.lock = Nobody
          /\ conn[id] = NoConn
      BY <1>4, <2>1, NextIdFree
    <2>3. PICK t : t = NewFd(Reserved(s, id), id, "PACCEPT")
      OBVIOUS
    <2>4. /\ t \in Socket /\ t.type = "PACCEPT" /\ t.id = id /\ t.tcp /\ t.tag = id /\ t.sending = 0
          /\ t.high = <<>> /\ t.low = <<>> /\ t.dw_buffer = <<>> /\ t.lock = Nobody /\ ~t.lost
      <3>1. <<>> \in Seq(Units) /\ 0 \in Nat
        BY EmptySeq
      <3> QED
        BY <2>2, <2>3, <3>1 DEF NewFd, Reserved, Socket, Types
    <2>5. slot' = [slot EXCEPT ![HASH_ID(id)] = t]
      BY <1>4, <2>1, <2>2, <2>3
    <2>6. /\ WireOK(t, NoConn.wire) /\ DueOK(t, NoConn, pipe', th)
          /\ NoConn \in Conns /\ NoConn.closer = Nobody
      BY <2>4, NewConn
    <2>7. conn' = [conn EXCEPT ![id] = NoConn]
      BY <1>2, <2>2 DEF Inv, TypeInv
    <2>8. "accepted" \in Known
      BY DEF Known
    <2>9. Change(t, NoConn, "accepted")
      BY <1>2, <1>4, <2>1, <2>2, <2>4, <2>5, <2>6, <2>7, <2>8 DEF Change
    <2>10. Live(t) /\ KnownOK(t.id, t, "accepted", NoConn)
      BY <2>4 DEF Live, KnownOK, NoConn
    <2>11. SlotOK(HASH_ID(t.id), t, alloc_id')
      <3>1. id # 0 /\ id <= id
        BY DEF Ids
      <3> QED
        BY <1>4, <2>4, <2>10, <3>1 DEF SlotOK, Live
    <2>12. t.sending >= Messages(pipe', th', t.id)
      <3>1. Messages(pipe, th, id) = 0
        BY <2>2, NoneUnderway
      <3>2. Messages(pipe', th', t.id) = 0
        BY <3>1, <1>1, <2>4
      <3> QED
        BY <3>2, <2>4
    <2>13. s = slot[HASH_ID(t.id)] /\ t.lock = s.lock /\ s.type # "RESERVE"
      BY <2>1, <2>2, <2>4
    <2>14. s.id # id
      <3>1. s.id # 0 => s.id <= alloc_id
        BY <2>1, <2>2 DEF Inv, SlotInv, SlotOK
      <3>2. alloc_id \in Int /\ s.id \in Int /\ id \in Int /\ id # 0
        BY <2>2 DEF Inv, TypeInv, Socket, Ids
      <3> QED
        BY <3>1, <3>2, <2>2
    <2>15. conn[t.id].closer = Nobody
      BY <2>2, <2>4, <2>6
    <2> QED
      BY <1>1, <1>2, <2>4, <2>6, <2>9, <2>10, <2>11, <2>12, <2>13, <2>14, <2>15, ThreadStep
  <1> QED
    BY <1>3, <1>4 DEF ReportAccept

\* No message for an id is underway while its slot is reserved.
LEMMA NoneReserved ==
    ASSUME Inv, NEW id \in Ids, slot[HASH_ID(id)].id = id, slot[HASH_ID(id)].type = "RESERVE"
    PROVE  Messages(pipe, th, id) = 0
  <1>1. TypeInv /\ PipeInv /\ SenderInv /\ SlotInv
    BY DEF Inv
  <1>2. HASH_ID(id) \in Slots
    BY HashSlot DEF Ids
  <1>3. ~slot[HASH_ID(id)].tcp
    BY <1>1, <1>2 DEF SlotInv, SlotOK
  <1>4. InPipe(pipe, id) = {}
    <2>1. ASSUME NEW k \in 1..Len(pipe), pipe[k].id = id PROVE pipe[k].cmd = "O"
      <3>1. CmdOK(pipe[k], slot[HASH_ID(id)], alloc_id)
        BY <1>1, <2>1 DEF PipeInv
      <3> QED
        BY <3>1, <1>3, <2>1 DEF CmdOK
    <2> QED
      BY <2>1 DEF InPipe, MsgCmds
  <1>5. InHand(th, id) = {}
    <2>1. ASSUME NEW v \in Services, th[v].id = id PROVE th[v].pc # "push"
      <3>1. SenderOK(th[v], slot[HASH_ID(id)], alloc_id)
        BY <1>1, <2>1 DEF SenderInv
      <3> QED
        BY <3>1, <1>3, <2>1 DEF SenderOK
    <2> QED
      BY <2>1 DEF InHand
  <1> QED
    BY <1>4, <1>5, FS_EmptySet DEF Messages

\* open_socket
LEMMA OpenStep ==
    ASSUME Inv, NEW type \in {"INVALID", "CONNECTING", "CONNECTED"}, OpenSocket(type)
    PROVE  Inv'
  <1>1. /\ poll = "ctrl" /\ pipe # <<>> /\ Cmd.cmd = "O"
        /\ alloc_id' = alloc_id /\ th' = th /\ conn' = conn /\ cut' = cut /\ ev' = ev
        /\ Continues \/ Reported
    BY DEF OpenSocket, Takes, Cmd
  <1>2. TypeInv /\ SlotInv /\ PipeInv /\ KnownInv
    BY DEF Inv
  <1>3. /\ Cmd = pipe[1] /\ Cmd.id \in Ids /\ 1 \in 1..Len(pipe)
        /\ At = HASH_ID(Cmd.id) /\ At \in Slots
    BY <1>1, <1>2, FirstCmd
  <1>4. PICK id \in Ids : id = Cmd.id
    BY <1>3
  <1>5. PICK s : s = slot[At]
    OBVIOUS
  <1>6. s.type = "RESERVE" /\ s.id = id
    BY <1>1, <1>2, <1>3, <1>4, <1>5 DEF PipeInv, CmdOK
  <1>7. s \in Socket /\ SlotOK(At, s, alloc_id) /\ ~Live(s)
    BY <1>2, <1>3, <1>5, <1>6 DEF TypeInv, SlotInv, Live
  <1>8. /\ s.high = <<>> /\ s.low = <<>> /\ s.dw_buffer = <<>> /\ s.lock = Nobody /\ ~s.tcp
        /\ s.id # 0 /\ s.id <= alloc_id
    <2>1. s.id # 0
      BY <1>6 DEF Ids
    <2> QED
      BY <1>6, <1>7, <2>1 DEF SlotOK
  <1>9. conn[id] = NoConn /\ known[id] = "none"
    BY <1>2, <1>3, <1>4, <1>5, <1>7 DEF KnownInv, KnownOK
  <1>10. PICK t : t = IF type = "INVALID" THEN [s EXCEPT !.type = type] ELSE NewFd(s, id, type)
    OBVIOUS
  <1>11. Leaves(t)
    BY <1>4, <1>5, <1>10 DEF OpenSocket
  <1>12. /\ t \in Socket /\ t.type = type /\ t.id = id
         /\ t.high = <<>> /\ t.low = <<>> /\ t.dw_buffer = <<>> /\ t.lock = Nobody
         /\ t.tcp <=> type # "INVALID"
         /\ t.tcp => t.tag = id /\ t.sending = 0
         /\ Live(t) => ~t.lost
    <2>1. <<>> \in Seq(Units) /\ 0 \in Nat
      BY EmptySeq
    <2>2. CASE type = "INVALID"
      BY <1>6, <1>7, <1>8, <1>10, <2>2 DEF Socket, Types, Live
    <2>3. CASE type # "INVALID"
      <3>1. t = NewFd(s, id, type)
        BY <1>10, <2>3
      <3> QED
        BY <1>6, <1>7, <1>8, <2>1, <2>3, <3>1 DEF NewFd, Socket, Types
    <2> QED
      BY <2>2, <2>3
  <1>13. PICK x : x = IF type = "CONNECTED" THEN "open" ELSE "none"
    OBVIOUS
  <1>14. known' = [known EXCEPT ![id] = x] /\ x \in Known
    <2>1. known' = IF type = "CONNECTED" THEN [known EXCEPT ![id] = "open"] ELSE known
      BY <1>4 DEF OpenSocket
    <2>2. known \in [Ids -> Known]
      BY <1>2 DEF TypeInv, Known
    <2> QED
      BY <1>9, <1>13, <2>1, <2>2 DEF Known
  <1>15. /\ WireOK(t, NoConn.wire) /\ DueOK(t, NoConn, pipe', th)
         /\ NoConn \in Conns /\ NoConn.closer = Nobody
    BY <1>12, NewConn
  <1>16. conn' = [conn EXCEPT ![id] = NoConn]
    BY <1>1, <1>2, <1>9 DEF TypeInv
  <1>17. s = slot[HASH_ID(t.id)] /\ t.lock = s.lock /\ At = HASH_ID(t.id) /\ ~s.tcp
    BY <1>3, <1>4, <1>5, <1>8, <1>12
  <1>18. Change(t, NoConn, x)
    BY <1>1, <1>6, <1>11, <1>12, <1>14, <1>15, <1>16, <1>17 DEF Change, Leaves
  <1>19. KnownOK(t.id, t, x, NoConn)
    BY <1>12, <1>13 DEF Live, KnownOK, NoConn
  <1>20. SlotOK(HASH_ID(t.id), t, alloc_id')
    <2>1. alloc_id' = alloc_id
      BY <1>1
    <2> QED
      BY <1>6, <1>8, <1>12, <1>17, <2>1 DEF SlotOK, Live
  <1>21. Drops /\ pipe[1].cmd = "O" /\ pipe[1].id = t.id
    BY <1>1, <1>3, <1>4, <1>11, <1>12 DEF Drops, Leaves
  <1>22. t.tcp => t.sending >= Messages(pipe', th', t.id)
    <2>1. Messages(pipe, th, id) = 0
      BY <1>4, <1>3, <1>5, <1>6, NoneReserved
    <2>2. /\ Messages(pipe', th', id) \in Nat
          /\ Messages(pipe', th', id) <= Messages(pipe, th, id)
      BY <1>1, <1>2, <1>21, FewerMessages
    <2>3. Messages(pipe', th', t.id) = 0
      BY <2>1, <2>2, <1>12
    <2> QED
      BY <2>3, <1>12
  <1>23. /\ ev' \subseteq Events /\ poll # "close" /\ poll' \in Polls /\ poll' # "close"
         /\ job' \in Jobs
    BY <1>1, CmdRuns DEF Runs
  <1>24. conn[t.id].closer = Nobody
    BY <1>9, <1>12, <1>15
  <1> QED
    BY <1>1, <1>12, <1>15, <1>17, <1>18, <1>19, <1>20, <1>21, <1>22, <1>23, <1>24, ThreadStep

-----------------------------------------------------------------------------
(* send_socket *)

\* The message goes behind one of the lists, which consist of whole messages.
LEMMA AppendedLists ==
    ASSUME NEW s \in Socket, NEW m \in Msgs, NEW a, a = Appended(s, m)
    PROVE  /\ a \in Socket /\ a.type = s.type /\ a.id = s.id /\ a.tcp = s.tcp /\ a.tag = s.tag
           /\ a.sending = s.sending /\ a.lock = s.lock /\ a.dw_buffer = s.dw_buffer
           /\ a.lost = s.lost
           /\ \A w \in Seq(Units) : WireOK(s, w) => WireOK(a, w)
           /\ \A w, o : Out(s, w, o) => Out(a, w, o)
           /\ \A w : Out(a, w, m)
  <1>1. PICK U : U = UnitsOf(m)
    OBVIOUS
  <1>2. U \in Seq(Units) /\ <<m, Size>> \in Range(U) /\ Blocks(U)
    BY <1>1, UnitsOfMsg, BlocksOne
  <1>3. /\ s.high \in Seq(Units) /\ s.low \in Seq(Units) /\ s.dw_buffer \in Seq(Units)
        /\ High(s) \in Seq(Units) /\ Pending(s) \in Seq(Units)
    BY Lists
  <1>4. s.high \o U \in Seq(Units) /\ s.low \o U \in Seq(Units)
    BY <1>2, <1>3, Concat
  <1>5. s.high = <<>> => U = s.high \o U
    BY <1>2, ConcatEmptySeq
  <1>6. \/ a = [s EXCEPT !.high = s.high \o U, !.writing = TRUE]
        \/ a = [s EXCEPT !.low = s.low \o U]
        \/ a = [s EXCEPT !.high = s.high \o U]
    BY <1>1, <1>5 DEF Appended, send_buffer_empty
  <1>7. /\ a \in Socket /\ a.type = s.type /\ a.id = s.id /\ a.tcp = s.tcp /\ a.tag = s.tag
        /\ a.sending = s.sending /\ a.lock = s.lock /\ a.dw_buffer = s.dw_buffer
        /\ a.lost = s.lost
        /\ \/ a.high = s.high \o U /\ a.low = s.low
           \/ a.high = s.high /\ a.low = s.low \o U
    BY <1>4, <1>6 DEF Socket
  <1>8. CASE a.high = s.high \o U /\ a.low = s.low
    <2>1. High(a) = High(s) \o U /\ High(a) \in Seq(Units)
      <3>1. (s.dw_buffer \o s.high) \o U = s.dw_buffer \o (s.high \o U)
        BY <1>2, <1>3, Assoc
      <3>2. High(a) = High(s) \o U
        BY <3>1, <1>7, <1>8 DEF High
      <3> QED
        BY <3>2, <1>2, <1>3, Concat
    <2>2. ASSUME NEW w \in Seq(Units), WireOK(s, w) PROVE WireOK(a, w)
      <3>1. w \o High(a) = (w \o High(s)) \o U /\ w \o High(s) \in Seq(Units)
        <4>1. (w \o High(s)) \o U = w \o (High(s) \o U)
          BY <1>2, <1>3, Assoc
        <4>2. w \o High(s) \in Seq(Units)
          BY <1>3, Concat
        <4> QED
          BY <4>1, <4>2, <2>1
      <3>2. Blocks(w \o High(a))
        BY <1>2, <2>2, <3>1, BlocksConcat DEF WireOK
      <3>3. s.lock # Nobody => Blocks(w) /\ Blocks(a.high)
        BY <1>2, <1>3, <1>8, <2>2, BlocksConcat DEF WireOK
      <3> QED
        BY <1>7, <1>8, <2>2, <3>2, <3>3 DEF WireOK
    <2>3. Range(Pending(a)) = (Range(High(s)) \cup Range(U)) \cup Range(s.low)
      <3>1. Range(Pending(a)) = Range(High(a)) \cup Range(s.low)
        BY <1>3, <1>8, <2>1, RangeConcat DEF Pending
      <3>2. Range(High(s) \o U) = Range(High(s)) \cup Range(U)
        BY <1>2, <1>3, RangeConcat
      <3> QED
        BY <3>1, <3>2, <2>1
    <2>4. Range(Pending(s)) = Range(High(s)) \cup Range(s.low)
      BY <1>3, RangeConcat DEF Pending
    <2> QED
      BY <1>2, <1>7, <2>2, <2>3, <2>4 DEF Out
  <1>9. CASE a.high = s.high /\ a.low = s.low \o U
    <2>1. High(a) = High(s)
      BY <1>7, <1>9 DEF High
    <2>2. ASSUME NEW w \in Seq(Units), WireOK(s, w) PROVE WireOK(a, w)
      <3>1. Blocks(a.low)
        BY <1>2, <1>3, <1>9, <2>2, BlocksConcat DEF WireOK
      <3> QED
        BY <1>7, <1>9, <2>1, <2>2, <3>1 DEF WireOK
    <2>3. Range(Pending(a)) = Range(High(s)) \cup Range(s.low) \cup Range(U)
      <3>1. Range(Pending(a)) = Range(High(s)) \cup Range(s.low \o U)
        BY <1>3, <1>4, <1>9, <2>1, RangeConcat DEF Pending
      <3> QED
        BY <3>1, <1>2, <1>3, RangeConcat
    <2>4. Range(Pending(s)) = Range(High(s)) \cup Range(s.low)
      BY <1>3, RangeConcat DEF Pending
    <2> QED
      BY <1>2, <1>7, <2>2, <2>3, <2>4 DEF Out
  <1> QED
    BY <1>7, <1>8, <1>9

\* send_socket: the count goes down with the message; a message that is dropped
\* was not due.
LEMMA SendSocketStep ==
    ASSUME Inv, SendSocket
    PROVE  Inv'
  <1>1. /\ poll = "ctrl" /\ pipe # <<>> /\ Cmd.cmd \in MsgCmds /\ poll' = poll /\ job' = job
        /\ alloc_id' = alloc_id /\ th' = th /\ conn' = conn /\ cut' = cut /\ ev' = ev
        /\ known' = known
    BY DEF SendSocket, Takes, Cmd, MsgCmds
  <1>13. Runs
    BY <1>1, CmdRuns
  <1>2. TypeInv /\ SlotInv /\ PipeInv /\ KnownInv /\ CountInv
    BY DEF Inv
  <1>3. /\ Cmd = pipe[1] /\ Cmd.id \in Ids /\ 1 \in 1..Len(pipe)
        /\ At = HASH_ID(Cmd.id) /\ At \in Slots
    BY <1>1, <1>2, FirstCmd
  <1>4. PICK id \in Ids : id = Cmd.id
    BY <1>3
  <1>5. PICK m \in Msgs : m = Cmd.msg
    BY <1>1, <1>2, <1>3 DEF TypeInv
  <1>6. PICK s : s = slot[At]
    OBVIOUS
  <1>7. s \in Socket /\ SlotOK(At, s, alloc_id) /\ (s.id = id => s.tcp)
    <2>1. Cmd.cmd # "O"
      BY <1>1 DEF MsgCmds
    <2> QED
      BY <2>1, <1>2, <1>3, <1>4, <1>6 DEF TypeInv, SlotInv, PipeInv, CmdOK
  <1>8. PICK takes : takes = (IsSocket(s, id) /\ s.type \notin {"HALFCLOSE", "PACCEPT"})
    OBVIOUS
  <1>9. PICK a : a = IF takes THEN Appended(s, m) ELSE s
    OBVIOUS
  <1>10. Leaves(DecSending(a, id))
    BY <1>4, <1>5, <1>6, <1>8, <1>9 DEF SendSocket
  <1>11. CASE s.id # id
    <2>1. ~takes /\ ~IsSocket(s, id)
      BY <1>8, <1>11 DEF IsSocket
    <2>2. Leaves(slot[At])
      BY <1>6, <1>9, <1>10, <1>11, <2>1 DEF DecSending
    <2> QED
      BY <1>1, <1>4, <1>6, <1>13, <2>1, <2>2, QuietCmd DEF Runs
  <1>12. CASE s.id = id
    <2>1. s.tcp /\ s.type # "RESERVE"
      BY <1>7, <1>12 DEF SlotOK
    <2>2. /\ a \in Socket /\ a.type = s.type /\ a.id = s.id /\ a.tcp = s.tcp /\ a.tag = s.tag
          /\ a.sending = s.sending /\ a.lock = s.lock /\ a.dw_buffer = s.dw_buffer
          /\ a.lost = s.lost
          /\ \A w \in Seq(Units) : WireOK(s, w) => WireOK(a, w)
          /\ \A w, o : Out(s, w, o) => Out(a, w, o)
          /\ takes => \A w : Out(a, w, m)
      BY <1>7, <1>9, AppendedLists
    <2>3. PICK t : t = [a EXCEPT !.sending = @ - 1]
      OBVIOUS
    <2>4. Drops /\ pipe[1].id = id
      BY <1>1, <1>3, <1>4, <1>10 DEF Leaves, Drops
    <2>5. /\ s.sending - 1 \in Nat
          /\ s.sending - 1 >= Messages(pipe', th', id)
      <3>1. s.sending \in Nat /\ s.sending >= Messages(pipe, th, id)
        BY <1>2, <1>3, <1>6, <1>7, <1>12, <2>1 DEF CountInv, Socket
      <3>2. /\ Messages(pipe', th', id) \in Nat /\ Messages(pipe, th, id) \in Nat
            /\ Messages(pipe', th', id) <= Messages(pipe, th, id) - 1
        BY <1>1, <1>2, <1>3, <2>4, FewerMessages
      <3> QED
        BY <3>1, <3>2
    <2>6. /\ t \in Socket /\ t.type = s.type /\ t.id = id /\ t.tcp /\ t.tag = s.tag
          /\ t.sending = s.sending - 1 /\ t.lock = s.lock /\ t.dw_buffer = s.dw_buffer
          /\ t.high = a.high /\ t.low = a.low /\ t.lost = s.lost
      BY <1>12, <2>1, <2>2, <2>3, <2>5 DEF Socket
    <2>7. /\ High(t) = High(a) /\ Pending(t) = Pending(a)
      BY <2>2, <2>6 DEF High, Pending
    <2>8. slot' = [slot EXCEPT ![HASH_ID(t.id)] = t] /\ s = slot[HASH_ID(t.id)]
      BY <1>3, <1>4, <1>6, <1>10, <1>12, <2>1, <2>2, <2>3, <2>6 DEF Leaves, DecSending
    <2>9. conn[id] \in Conns /\ known[id] \in Known /\ conn[id].wire \in Seq(Units)
      BY <1>2 DEF TypeInv, Known, Conns
    <2>10. /\ conn' = [conn EXCEPT ![t.id] = conn[id]]
           /\ known' = [known EXCEPT ![t.id] = known[id]]
      BY <1>1, <1>2, <2>6 DEF TypeInv
    <2>11. Change(t, conn[id], known[id])
      BY <1>1, <1>12, <2>6, <2>8, <2>9, <2>10 DEF Change
    <2>12. KnownOK(id, s, known[id], conn[id])
      BY <1>2, <1>3, <1>4, <1>6 DEF KnownInv
    <2>13. KnownOK(t.id, t, known[id], conn[id])
      BY <1>12, <2>6, <2>12 DEF KnownOK, Live
    <2>14. SlotOK(HASH_ID(t.id), t, alloc_id')
      <3>1. ~Live(s) => ~takes
        BY <1>8, <2>1 DEF Live, IsSocket
      <3>2. ~Live(s) => t.high = s.high /\ t.low = s.low
        BY <3>1, <1>9, <2>6
      <3>3. HASH_ID(t.id) = At
        BY <1>3, <1>4, <2>6
      <3> QED
        BY <1>1, <1>7, <1>12, <2>1, <2>6, <3>2, <3>3 DEF SlotOK, Live
    <2>15. ASSUME Live(t) PROVE WireOK(t, conn[id].wire) /\ DueOK(t, conn[id], pipe', th)
      <3>1. Live(s)
        BY <2>6, <2>15 DEF Live
      <3>2. WireOK(s, conn[id].wire) /\ DueOK(s, conn[id], pipe, th)
        BY <1>1, <1>3, <1>6, <1>12, <3>1, LiveSlot
      <3>3. WireOK(t, conn[id].wire)
        <4>1. WireOK(a, conn[id].wire)
          BY <2>2, <2>9, <3>2
        <4> QED
          BY <4>1, <2>2, <2>6, <2>7 DEF WireOK
      <3>4. \A o : Out(s, conn[id].wire, o) => Out(t, conn[id].wire, o)
        BY <2>2, <2>7 DEF Out
      <3>5. CASE s.type = "HALFCLOSE"
        BY <1>12, <2>6, <3>2, <3>3, <3>4, <3>5 DEF DueOK
      <3>6. CASE s.type = "PACCEPT"
        <4>1. conn[id].sent = {} /\ conn[id].promise = {}
          BY <2>12, <3>6 DEF KnownOK
        <4>2. Due(conn[id]) = {}
          BY <4>1 DEF Due
        <4> QED
          BY <2>6, <3>3, <3>6, <4>2 DEF DueOK
      <3>7. CASE s.type \notin {"HALFCLOSE", "PACCEPT"}
        <4>1. takes
          BY <1>8, <1>12, <3>1, <3>7 DEF IsSocket, Live
        <4>2. Out(t, conn[id].wire, m)
          BY <4>1, <2>2, <2>7 DEF Out
        <4>3. ASSUME NEW o, Piped(pipe, id, o), o # m PROVE Piped(pipe', id, o)
          <5>1. pipe[1].msg # o
            BY <1>3, <1>5, <4>3
          <5> QED
            BY <5>1, <4>3, <1>2, <2>4, StayPiped
        <4> QED
          BY <1>12, <2>6, <3>2, <3>3, <3>4, <3>7, <4>2, <4>3 DEF DueOK
      <3> QED
        BY <3>5, <3>6, <3>7
    <2>16. Live(t) => Live(s)
      BY <2>6 DEF Live
    <2>17. t.tcp => t.sending >= Messages(pipe', th', t.id)
      BY <2>5, <2>6
    <2>18. Drops => pipe[1].id = t.id
      BY <2>4, <2>6
    <2>19. t.lock = s.lock /\ s.type # "RESERVE" /\ conn[t.id].closer = conn[id].closer
      BY <2>1, <2>6
    <2>20. /\ ev' \subseteq Events /\ th' = th /\ job' \in Jobs
           /\ poll # "close" /\ poll' \in Polls /\ poll' # "close"
      BY <1>13 DEF Runs
    <2>21. Live(t) => ~t.lost
      BY <1>1, <1>3, <1>6, <2>6, <2>16, LiveSlot
    <2>22. Kept(t) => WireOK(t, conn[id].wire) /\ DueOK(t, conn[id], pipe', th)
      BY <2>15 DEF Kept
    <2> QED
      BY <2>4, <2>8, <2>11, <2>13, <2>14, <2>16, <2>17, <2>18, <2>19, <2>20, <2>21, <2>22,
         ThreadStep
  <1> QED
    BY <1>11, <1>12

-----------------------------------------------------------------------------
(* Steps of the services *)

\* Services that go on send to id, and know what.
Calls(id) ==
    /\ th' \in [Services -> Threads]
    /\ \A v \in Services :
           \/ th'[v] = th[v]
           \/ /\ th[v].pc # "idle" => th[v].id = id
              /\ th'[v].pc # "idle" => /\ th'[v].id = id /\ th'[v].msg \in Msgs
                                       /\ th'[v].msg.from = v
                                       /\ th'[v].pc = "write" => th'[v].cmd = "D"

\* A service sends a command through the pipe, or nothing.
Pushes == pipe' = pipe \/ \E k : Sends(k)

\* The types of the pipe and of the services
LEMMA CallTypes ==
    ASSUME TypeInv, Pushes, NEW id \in Ids, Calls(id)
    PROVE  /\ pipe' \in Seq(Cmds) /\ th' \in [Services -> Threads]
           /\ \A v \in Services : th'[v].pc # "idle" =>
                  /\ th'[v].id \in Ids /\ th'[v].msg \in Msgs /\ th'[v].msg.from = v
                  /\ th'[v].pc = "write" => th'[v].cmd = "D"
           /\ \A k \in 1..Len(pipe') : pipe'[k].cmd \in MsgCmds => pipe'[k].msg \in Msgs
           /\ ~Drops
  <1>1. pipe \in Seq(Cmds)
    BY DEF TypeInv
  <1>2. \A v \in Services : th[v].pc # "idle" =>
            /\ th[v].id \in Ids /\ th[v].msg \in Msgs /\ th[v].msg.from = v
            /\ th[v].pc = "write" => th[v].cmd = "D"
    BY DEF TypeInv
  <1>3. \A k \in 1..Len(pipe) : pipe[k].cmd \in MsgCmds => pipe[k].msg \in Msgs
    BY DEF TypeInv
  <1>4. \A v \in Services : th'[v].pc # "idle" =>
            /\ th'[v].id \in Ids /\ th'[v].msg \in Msgs /\ th'[v].msg.from = v
            /\ th'[v].pc = "write" => th'[v].cmd = "D"
    BY <1>2 DEF Calls
  <1>5. CASE pipe' = pipe
    BY <1>1, <1>3, <1>4, <1>5, NoDrop DEF Calls
  <1>6. ASSUME NEW c, Sends(c)
        PROVE  /\ pipe' \in Seq(Cmds) /\ ~Drops
               /\ \A k \in 1..Len(pipe') : pipe'[k].cmd \in MsgCmds => pipe'[k].msg \in Msgs
    <2>1. /\ pipe' \in Seq(Cmds) /\ Len(pipe') = Len(pipe) + 1 /\ Len(pipe) \in Nat
          /\ \A k \in 1..Len(pipe) : pipe'[k] = pipe[k]
          /\ \A k \in 1..Len(pipe') : k \notin 1..Len(pipe) => pipe'[k] = c
      BY <1>1, <1>6, PipeAppend DEF Sends
    <2>2. ~Drops
      BY <1>1, <2>1, PipeTail DEF Drops
    <2> QED
      BY <2>1, <2>2, <1>3, <1>6 DEF Sends
  <1> QED
    BY <1>4, <1>5, <1>6 DEF Calls, Pushes

\* The messages in the pipe after a step of a service
LEMMA CallPipe ==
    ASSUME TypeInv, Pushes, NEW d, NEW n \in Nat,
           \A k : Sends(k) => (k.id = d /\ k.cmd \in MsgCmds => n = 1)
    PROVE  /\ Cardinality(InPipe(pipe', d)) \in Nat
           /\ Cardinality(InPipe(pipe, d)) \in Nat
           /\ Cardinality(InPipe(pipe', d)) <= Cardinality(InPipe(pipe, d)) + n
  <1>1. pipe \in Seq(Cmds)
    BY DEF TypeInv
  <1>2. Cardinality(InPipe(pipe, d)) \in Nat
    BY <1>1, Counts
  <1>3. CASE pipe' = pipe
    BY <1>2, <1>3
  <1>4. ASSUME NEW k, Sends(k)
        PROVE  /\ Cardinality(InPipe(pipe', d)) \in Nat
               /\ Cardinality(InPipe(pipe', d)) <= Cardinality(InPipe(pipe, d)) + n
    <2>1. k \in Cmds /\ pipe' = Append(pipe, k)
      BY <1>4 DEF Sends
    <2>2. pipe' \in Seq(Cmds)
      BY <1>1, <2>1, PipeAppend
    <2>3. Cardinality(InPipe(pipe', d)) \in Nat
      BY <2>2, Counts
    <2>4. Cardinality(InPipe(pipe', d)) <=
              Cardinality(InPipe(pipe, d)) + (IF k.id = d /\ k.cmd \in MsgCmds THEN 1 ELSE 0)
      BY <1>1, <2>1, CountAppend
    <2>5. k.id = d /\ k.cmd \in MsgCmds => n = 1
      BY <1>4
    <2> QED
      BY <1>2, <2>3, <2>4, <2>5
  <1> QED
    BY <1>2, <1>3, <1>4 DEF Pushes

\* The messages for the other ids are not more after a step of a service.
LEMMA CallMessages ==
    ASSUME TypeInv, Pushes, NEW id \in Ids, Calls(id), NEW d, d # id,
           \A k : Sends(k) => k.id = id
    PROVE  /\ Messages(pipe', th', d) \in Nat /\ Messages(pipe, th, d) \in Nat
           /\ Messages(pipe', th', d) <= Messages(pipe, th, d)
  <1>1. /\ Cardinality(InPipe(pipe', d)) \in Nat
        /\ Cardinality(InPipe(pipe, d)) \in Nat
        /\ Cardinality(InPipe(pipe', d)) <= Cardinality(InPipe(pipe, d)) + 0
    BY CallPipe
  <1>2. InHand(th', d) \in SUBSET InHand(th, d)
    BY DEF InHand, Calls
  <1>3. /\ IsFiniteSet(InHand(th, d)) /\ Cardinality(InHand(th, d)) \in Nat
    BY Counts DEF TypeInv
  <1>4. /\ Cardinality(InHand(th', d)) <= Cardinality(InHand(th, d))
        /\ IsFiniteSet(InHand(th', d))
    BY <1>2, <1>3, FS_Subset
  <1>5. Cardinality(InHand(th', d)) \in Nat
    BY <1>4, FS_CardinalityType
  <1> QED
    BY <1>1, <1>3, <1>4, <1>5 DEF Messages

\* A message that is in the pipe stays there in a step of a service.
LEMMA CallPiped ==
    ASSUME TypeInv, Pushes, NEW d, NEW m, Piped(pipe, d, m)
    PROVE  Piped(pipe', d, m)
  BY PipedAppend DEF TypeInv, Pushes, Sends

\* A step sends one command.
LEMMA SentOnce ==
    ASSUME TypeInv, NEW k, Sends(k)
    PROVE  pipe' # pipe /\ \A n : Sends(n) => n = k
  <1>1. pipe \in Seq(Cmds) /\ Len(pipe) \in Nat
    BY LenProperties DEF TypeInv
  <1>2. ASSUME NEW n, Sends(n) PROVE Len(pipe') = Len(pipe) + 1 /\ pipe'[Len(pipe) + 1] = n
    <2>1. n \in Cmds /\ pipe' = Append(pipe, n)
      BY <1>2 DEF Sends
    <2> QED
      BY <2>1, <1>1, AppendProperties
  <1>3. pipe' # pipe
    <2>1. Len(pipe') = Len(pipe) + 1
      BY <1>2
    <2> QED
      BY <2>1, <1>1
  <1> QED
    BY <1>2, <1>3

\* A step of a service that changes a slot, and sends a command for its id that
\* is not a message, or none, keeps the invariants when the slot and its
\* connection come out as they should be.
LEMMA CallStep ==
    ASSUME Inv, NEW t, NEW c, NEW x, Change(t, c, x), NEW s, s = slot[HASH_ID(t.id)],
           Calls(t.id), th' = th \/ t.tcp, ev' = ev, poll' = poll, job' = job,
           \/ pipe' = pipe
           \/ \E k : /\ Sends(k) /\ k.id = t.id /\ CmdOK(k, t, alloc_id')
                     /\ k.cmd = "O" =>
                            \A n \in 1..Len(pipe) : pipe[n].cmd = "O" => pipe[n].id # k.id
                     /\ k.cmd # "O" => Called(k, t, c),
           LockOK(HASH_ID(t.id), t, th'),
           SlotOK(HASH_ID(t.id), t, alloc_id'),
           KnownOK(t.id, t, x, c),
           Kept(t) => WireOK(t, c.wire) /\ DueOK(t, c, pipe', th'),
           t.tcp => t.sending >= Messages(pipe', th', t.id),
           s.type # "RESERVE",
           Live(t) => Live(s) /\ s.id = t.id /\ s.lost = t.lost,
           Live(t) /\ conn[t.id].closer # Nobody => c.closer # Nobody,
           s.id = t.id /\ Live(s) => /\ Live(t) /\ t.high = s.high /\ t.low = s.low
                                     /\ conn[t.id].closer # Nobody => c.promise = conn[t.id].promise
                                     /\ Range(conn[t.id].wire) \subseteq Range(c.wire)
    PROVE  Inv'
  <1>1. /\ TypeInv /\ LockInv /\ SlotInv /\ PipeInv /\ SenderInv
        /\ KnownInv /\ CountInv /\ WireInv /\ DueInv /\ CloseInv /\ JobInv /\ LostInv /\ cut = {}
    BY DEF Inv
  <1>2. Pushes /\ t.id \in Ids /\ slot'[HASH_ID(t.id)] = t /\ conn'[t.id] = c
    <2>1. Pushes
      BY DEF Pushes
    <2>2. t.id \in Ids
      BY DEF Change
    <2>3. slot'[HASH_ID(t.id)] = t /\ conn'[t.id] = c
      BY <1>1, Changed
    <2> QED
      BY <2>1, <2>2, <2>3
  <1>3. /\ pipe' \in Seq(Cmds) /\ th' \in [Services -> Threads]
        /\ \A v \in Services : th'[v].pc # "idle" =>
               /\ th'[v].id \in Ids /\ th'[v].msg \in Msgs /\ th'[v].msg.from = v
               /\ th'[v].pc = "write" => th'[v].cmd = "D"
        /\ \A k \in 1..Len(pipe') : pipe'[k].cmd \in MsgCmds => pipe'[k].msg \in Msgs
        /\ ~Drops
    BY <1>1, <1>2, CallTypes
  <1>4. TypeInv'
    <2>1. /\ slot' \in [Slots -> Socket] /\ conn' \in [Ids -> Conns]
          /\ known' \in [Ids -> Known] /\ alloc_id' \in 0..MaxId
      BY <1>1, Changed
    <2>2. /\ ev' \subseteq Events /\ cut' \subseteq Msgs /\ poll' \in Polls /\ job' \in Jobs
      BY <1>1 DEF TypeInv, Change
    <2> QED
      BY <2>1, <2>2, <1>3, StepTypeInv
  <1>5. LockInv'
    <2>1. \A v \in Services : \/ th'[v] = th[v]
                              \/ /\ th[v].pc = "write" => HASH_ID(th[v].id) = HASH_ID(t.id)
                                 /\ th'[v].pc = "write" => HASH_ID(th'[v].id) = HASH_ID(t.id)
      BY DEF Calls
    <2> QED
      BY <1>1, <2>1, ChangeLock
  <1>6. SlotInv'
    BY <1>1, ChangeSlots
  <1>7. JobInv' /\ LostInv'
    <2>1. ASSUME poll = "close", job.id = t.id PROVE JobOK(job, t, c)
      <3>1. JobOK(job, s, conn[t.id])
        BY <1>1, <2>1 DEF JobInv
      <3>2. Live(t) /\ t.high = <<>> /\ t.low = <<>> /\ job.id \in Ids
        BY <3>1, <2>1 DEF JobOK
      <3>3. job.drained => /\ c.closer # Nobody
                           /\ \A m \in c.promise : <<m, Size>> \in Range(c.wire)
        BY <3>1, <3>2, <2>1 DEF JobOK
      <3> QED
        BY <2>1, <3>2, <3>3 DEF JobOK
    <2>2. JobInv'
      BY <1>1, <2>1, ChangeJob DEF JobInv
    <2>3. Live(t) /\ t.lost => poll' = "close" /\ job'.id = t.id
      <3>1. HASH_ID(t.id) \in Slots
        BY <1>2, HashSlot DEF Ids
      <3> QED
        BY <1>1, <3>1 DEF LostInv
    <2> QED
      BY <1>1, <2>2, <2>3, ChangeLost
  <1>8. PipeInv'
    <2>1. \/ pipe' = pipe
          \/ \E k : /\ Sends(k) /\ CmdOK(k, slot'[HASH_ID(k.id)], alloc_id')
                    /\ k.cmd = "O" =>
                           \A n \in 1..Len(pipe) : pipe[n].cmd = "O" => pipe[n].id # k.id
      BY <1>2
    <2> QED
      BY <1>1, <2>1, ChangePipe
  <1>9. SenderInv'
    <2>1. ASSUME NEW v \in Services, th'[v] # th[v]
          PROVE  SenderOK(th'[v], slot'[HASH_ID(th'[v].id)], alloc_id')
      <3>1. t.id # 0 /\ t.tcp
        BY <1>2, <2>1 DEF Ids
      <3>2. t.id <= alloc_id'
        BY <3>1 DEF SlotOK
      <3> QED
        BY <1>2, <2>1, <3>1, <3>2 DEF Calls, SenderOK
    <2> QED
      BY <1>1, <2>1, ChangeSender
  <1>10. KnownInv'
    BY <1>1, ChangeKnown
  <1>11. \A k : Sends(k) => k.id = t.id
    BY <1>1, SentOnce
  <1>12. CountInv'
    <2>1. ASSUME NEW d \in Ids, d # t.id
          PROVE  /\ Messages(pipe', th', d) \in Nat /\ Messages(pipe, th, d) \in Nat
                 /\ Messages(pipe', th', d) <= Messages(pipe, th, d)
      BY <1>1, <1>2, <1>11, <2>1, CallMessages
    <2> QED
      BY <1>1, <2>1, ChangeCount
  <1>13. WireInv'
    BY <1>1, ChangeWire
  <1>14. DueInv'
    <2>1. ASSUME NEW d \in Ids, d # t.id, NEW m \in Msgs
          PROVE  /\ Piped(pipe, d, m) => Piped(pipe', d, m)
                 /\ Held(th[m.from], d, m) => Held(th'[m.from], d, m)
      <3>1. Piped(pipe, d, m) => Piped(pipe', d, m)
        BY <1>1, <1>2, CallPiped
      <3>2. m.from \in Services
        BY DEF Msgs
      <3>3. Held(th[m.from], d, m) => Held(th'[m.from], d, m)
        BY <2>1, <3>2 DEF Calls, Held
      <3> QED
        BY <3>1, <3>3
    <2> QED
      BY <1>1, <2>1, ChangeDue
  <1>15. CloseInv'
    <2>1. \/ pipe' = pipe
          \/ \E k : Sends(k) /\ Called(k, slot'[HASH_ID(k.id)], conn'[k.id]) /\ k.cmd # "O"
          \/ \E k : Sends(k) /\ k.cmd = "O"
      BY <1>2
    <2> QED
      BY <1>1, <2>1, ChangeClose
  <1>16. cut' = {}
    BY <1>1 DEF Change
  <1> QED
    BY <1>4, <1>5, <1>6, <1>7, <1>8, <1>9, <1>10, <1>12, <1>13, <1>14, <1>15, <1>16 DEF Inv

\* A step of a service that changes no slot keeps the invariants when the counts
\* still cover the messages, and what a service was sending is in the pipe then.
LEMMA StillCall ==
    ASSUME Inv, Still, NEW id \in Ids, Calls(id), ev' = ev, poll' = poll, job' = job,
           \A v \in Services :
               \/ th'[v] = th[v]
               \/ /\ th[v].pc # "write" /\ th'[v].pc # "write"
                  /\ SenderOK(th'[v], slot[HASH_ID(th'[v].id)], alloc_id),
           \/ pipe' = pipe
           \/ \E k : /\ Sends(k) /\ CmdOK(k, slot[HASH_ID(k.id)], alloc_id)
                     /\ k.cmd = "O" =>
                            \A n \in 1..Len(pipe) : pipe[n].cmd = "O" => pipe[n].id # k.id
                     /\ Called(k, slot[HASH_ID(k.id)], conn[k.id]),
           \A j \in Slots : slot[j].tcp => slot[j].sending >= Messages(pipe', th', slot[j].id),
           \A j \in Slots : \A m \in Msgs :
               /\ Live(slot[j]) /\ conn[slot[j].id].closer = Nobody
               /\ Held(th[m.from], slot[j].id, m)
               => Held(th'[m.from], slot[j].id, m) \/ Piped(pipe', slot[j].id, m)
    PROVE  Inv'
  <1>1. /\ TypeInv /\ LockInv /\ SlotInv /\ PipeInv /\ SenderInv
        /\ KnownInv /\ CountInv /\ WireInv /\ DueInv /\ CloseInv /\ JobInv /\ LostInv /\ cut = {}
    BY DEF Inv
  <1>2. Pushes
    BY DEF Pushes
  <1>3. /\ pipe' \in Seq(Cmds) /\ th' \in [Services -> Threads]
        /\ \A v \in Services : th'[v].pc # "idle" =>
               /\ th'[v].id \in Ids /\ th'[v].msg \in Msgs /\ th'[v].msg.from = v
               /\ th'[v].pc = "write" => th'[v].cmd = "D"
        /\ \A k \in 1..Len(pipe') : pipe'[k].cmd \in MsgCmds => pipe'[k].msg \in Msgs
        /\ ~Drops
    BY <1>1, <1>2, CallTypes
  <1>4. TypeInv'
    <2>1. /\ slot' \in [Slots -> Socket] /\ conn' \in [Ids -> Conns]
          /\ known' \in [Ids -> Known] /\ alloc_id' \in 0..MaxId /\ cut' \subseteq Msgs
          /\ ev' \subseteq Events /\ poll' \in Polls /\ job' \in Jobs
      BY <1>1 DEF TypeInv, Still, Known
    <2> QED
      BY <2>1, <1>3, StepTypeInv
  <1>5. LockInv'
    <2>1. ASSUME NEW j \in Slots PROVE LockOK(j, slot[j], th')
      <3>1. LockOK(j, slot[j], th)
        BY <1>1 DEF LockInv
      <3>2. \A v \in Services : th'[v] = th[v] \/ (th[v].pc # "write" /\ th'[v].pc # "write")
        OBVIOUS
      <3> QED
        BY <3>1, <3>2 DEF LockOK
    <2> QED
      BY <2>1 DEF LockInv, Still
  <1>6. SlotInv' /\ KnownInv' /\ WireInv' /\ JobInv' /\ LostInv' /\ cut' = {}
    BY <1>1 DEF SlotInv, KnownInv, WireInv, JobInv, LostInv, Still
  <1>7. PipeInv'
    <2>1. \A k \in 1..Len(pipe) : CmdOK(pipe[k], slot'[HASH_ID(pipe[k].id)], alloc_id')
      BY <1>1 DEF PipeInv, Still
    <2>2. \/ pipe' = pipe
          \/ \E k : /\ Sends(k) /\ CmdOK(k, slot'[HASH_ID(k.id)], alloc_id')
                    /\ k.cmd = "O" =>
                           \A n \in 1..Len(pipe) : pipe[n].cmd = "O" => pipe[n].id # k.id
      BY DEF Still
    <2> QED
      BY <1>1, <2>1, <2>2, StepPipe
  <1>8. SenderInv'
    BY <1>1 DEF SenderInv, Still
  <1>9. CountInv'
    BY DEF CountInv, Still
  <1>10. DueInv'
    <2>1. ASSUME NEW j \in Slots, Kept(slot[j])
          PROVE  DueOK(slot[j], conn[slot[j].id], pipe', th')
      <3>1. DueOK(slot[j], conn[slot[j].id], pipe, th)
        BY <1>1, <2>1 DEF DueInv
      <3>2. slot[j].id \in Ids
        BY <1>1, <2>1, SlotIds DEF Kept, Live
      <3>3. Due(conn[slot[j].id]) \subseteq Msgs
        BY <1>1, <3>2, DueMsgs DEF TypeInv
      <3>4. \A m : Piped(pipe, slot[j].id, m) => Piped(pipe', slot[j].id, m)
        BY <1>1, <1>2, CallPiped
      <3> QED
        BY <2>1, <3>1, <3>3, <3>4 DEF DueOK, Kept
    <2> QED
      BY <2>1 DEF DueInv, Still
  <1>11. CloseInv'
    <2>1. pipe \in Seq(Cmds) /\ Len(pipe) \in Nat
      BY <1>1, LenProperties DEF TypeInv
    <2>2. \A k \in 1..Len(pipe) : Called(pipe[k], slot[HASH_ID(pipe[k].id)], conn[pipe[k].id])
      BY <1>1 DEF CloseInv
    <2>3. CASE pipe' = pipe
      BY <1>1, <2>3 DEF CloseInv, Still
    <2>4. ASSUME NEW c, Sends(c), Called(c, slot[HASH_ID(c.id)], conn[c.id])
          PROVE  CloseInv'
      <3>1. /\ pipe' \in Seq(Cmds) /\ Len(pipe') = Len(pipe) + 1
            /\ \A k \in 1..Len(pipe) : pipe'[k] = pipe[k]
            /\ \A k \in 1..Len(pipe') : k \notin 1..Len(pipe) => pipe'[k] = c
        BY <2>1, <2>4, PipeAppend DEF Sends
      <3>2. \A k \in 1..Len(pipe') :
                Called(pipe'[k], slot[HASH_ID(pipe'[k].id)], conn[pipe'[k].id])
        BY <2>2, <2>4, <3>1
      <3> QED
        BY <3>2 DEF CloseInv, Still
    <2> QED
      BY <2>3, <2>4
  <1> QED
    BY <1>4, <1>5, <1>6, <1>7, <1>8, <1>9, <1>10, <1>11 DEF Inv

\* What is known of an id that was reported to a service
LEMMA KnownSlot ==
    ASSUME Inv, NEW id \in Ids, known[id] # "none", NEW s, s = slot[HASH_ID(id)]
    PROVE  s.id = id /\ Live(s) /\ s.tcp /\ id <= alloc_id /\ HASH_ID(id) \in Slots
  <1>1. HASH_ID(id) \in Slots
    BY HashSlot DEF Ids
  <1>2. s.id = id /\ Live(s)
    BY DEF Inv, KnownInv, KnownOK
  <1>3. s.tcp /\ id <= alloc_id
    BY <1>1, <1>2, SlotIds DEF Inv
  <1> QED
    BY <1>1, <1>2, <1>3

\* socket_server_start
LEMMA StartStep ==
    ASSUME Inv, NEW id \in Ids, Start(id)
    PROVE  Inv'
  <1>1. TypeInv
    BY DEF Inv
  <1>2. PICK k : k = [cmd |-> "R", id |-> id, msg |-> NoMsg, shutdown |-> FALSE]
    OBVIOUS
  <1>3. k \in Cmds /\ k.cmd = "R" /\ k.id = id
    BY <1>2 DEF Cmds
  <1>4. Still /\ Sends(k) /\ th' = th /\ ev' = ev /\ poll' = poll /\ job' = job
    BY <1>2, <1>3 DEF Start, Request, Still, Sends, MsgCmds
  <1>5. slot[HASH_ID(id)].tcp /\ id <= alloc_id
    <2>1. known[id] # "none"
      BY DEF Start
    <2> QED
      BY <2>1, KnownSlot
  <1>6. /\ k.cmd # "O" /\ CmdOK(k, slot[HASH_ID(k.id)], alloc_id)
        /\ Called(k, slot[HASH_ID(k.id)], conn[k.id])
    BY <1>3, <1>5 DEF CmdOK, Called
  <1>7. Calls(id) /\ Pushes
    BY <1>1, <1>4 DEF Calls, Pushes, TypeInv
  <1>8. ASSUME NEW j \in Slots, slot[j].tcp
        PROVE  slot[j].sending >= Messages(pipe', th', slot[j].id)
    <2>1. slot[j].sending \in Nat /\ slot[j].sending >= Messages(pipe, th, slot[j].id)
      BY <1>1, <1>8 DEF Inv, CountInv, TypeInv, Socket
    <2>2. \A n : Sends(n) => n.cmd \notin MsgCmds
      BY <1>1, <1>3, <1>4, SentOnce DEF MsgCmds
    <2>3. /\ Cardinality(InPipe(pipe', slot[j].id)) \in Nat
          /\ Cardinality(InPipe(pipe, slot[j].id)) \in Nat
          /\ Cardinality(InPipe(pipe', slot[j].id)) <= Cardinality(InPipe(pipe, slot[j].id)) + 0
      BY <1>1, <1>7, <2>2, CallPipe
    <2>4. Cardinality(InHand(th, slot[j].id)) \in Nat
      BY <1>1, Counts DEF TypeInv
    <2> QED
      BY <1>4, <2>1, <2>3, <2>4 DEF Messages
  <1> QED
    BY <1>4, <1>6, <1>7, <1>8, StillCall

\* The end of socket_server_send: the message goes from the service to the pipe,
\* where no close is before it unless the connection was closed before.
LEMMA SendRequestStep ==
    ASSUME Inv, NEW v \in Services, SendRequest(v)
    PROVE  Inv'
  <1>1. TypeInv /\ SenderInv /\ CloseInv
    BY DEF Inv
  <1>2. PICK h : h = th[v]
    OBVIOUS
  <1>3. h \in Threads /\ h.pc = "push" /\ h.id \in Ids /\ h.msg \in Msgs /\ h.msg.from = v
    BY <1>1, <1>2 DEF SendRequest, TypeInv
  <1>4. PICK id \in Ids : id = h.id
    BY <1>3
  <1>5. PICK k : k = [cmd |-> h.cmd, id |-> id, msg |-> IF h.cmd = "W" THEN NoMsg ELSE h.msg,
                      shutdown |-> FALSE]
    OBVIOUS
  <1>6. /\ k \in Cmds /\ k.cmd = h.cmd /\ k.id = id /\ h.cmd \in {"D", "P", "W"}
        /\ h.cmd # "W" => k.msg = h.msg
    BY <1>3, <1>5 DEF Cmds, Threads
  <1>7. Still /\ Sends(k) /\ ev' = ev /\ poll' = poll /\ job' = job
    <2>1. pipe' = Append(pipe, k)
      BY <1>2, <1>4, <1>5 DEF SendRequest, Request
    <2> QED
      BY <1>3, <1>6, <2>1 DEF SendRequest, Still, Sends, MsgCmds
  <1>8. PICK u : u = Idle(h.n)
    OBVIOUS
  <1>9. u \in Threads /\ u.pc = "idle"
    BY <1>3, <1>8 DEF Idle, Threads
  <1>10. th' = [th EXCEPT ![v] = u]
    BY <1>2, <1>8 DEF SendRequest
  <1>11. /\ th' \in [Services -> Threads] /\ th'[v] = u
         /\ \A y \in Services : y # v => th'[y] = th[y]
    BY <1>1, <1>9, <1>10 DEF TypeInv
  <1>12. Calls(id) /\ Pushes
    BY <1>2, <1>4, <1>7, <1>9, <1>11 DEF Calls, Pushes
  <1>13. /\ k.cmd # "O" /\ CmdOK(k, slot[HASH_ID(k.id)], alloc_id)
         /\ Called(k, slot[HASH_ID(k.id)], conn[k.id])
    <2>1. SenderOK(h, slot[HASH_ID(id)], alloc_id)
      BY <1>1, <1>2, <1>4 DEF SenderInv
    <2> QED
      BY <2>1, <1>3, <1>4, <1>6 DEF SenderOK, CmdOK, Called
  <1>14. ASSUME NEW j \in Slots, slot[j].tcp
         PROVE  slot[j].sending >= Messages(pipe', th', slot[j].id)
    <2>1. PICK d : d = slot[j].id
      OBVIOUS
    <2>2. slot[j].sending \in Nat /\ slot[j].sending >= Messages(pipe, th, d)
      BY <1>1, <1>14, <2>1 DEF Inv, CountInv, TypeInv, Socket
    <2>3. v \notin InHand(th', d)
      BY <1>9, <1>11 DEF InHand
    <2>4. /\ Cardinality(InHand(th', d)) <= Cardinality(InHand(th, d))
          /\ v \in InHand(th, d) =>
                 Cardinality(InHand(th', d)) <= Cardinality(InHand(th, d)) - 1
      BY <1>11, <2>3, CountHand
    <2>5. /\ Cardinality(InHand(th, d)) \in Nat /\ Cardinality(InHand(th', d)) \in Nat
      BY <1>1, Counts DEF TypeInv
    <2>6. CASE h.id = d /\ h.cmd # "W"
      <3>1. v \in InHand(th, d)
        BY <1>2, <1>3, <2>6 DEF InHand
      <3>2. /\ Cardinality(InPipe(pipe', d)) \in Nat /\ Cardinality(InPipe(pipe, d)) \in Nat
            /\ Cardinality(InPipe(pipe', d)) <= Cardinality(InPipe(pipe, d)) + 1
        BY <1>1, <1>12, CallPipe
      <3>3. slot[j].sending >= Messages(pipe', th', d)
        BY <2>2, <2>4, <2>5, <3>1, <3>2 DEF Messages
      <3> QED
        BY <2>1, <3>3
    <2>7. CASE ~(h.id = d /\ h.cmd # "W")
      <3>1. \A n : Sends(n) => ~(n.id = d /\ n.cmd \in MsgCmds)
        BY <1>1, <1>4, <1>6, <1>7, <2>7, SentOnce DEF MsgCmds
      <3>2. /\ Cardinality(InPipe(pipe', d)) \in Nat /\ Cardinality(InPipe(pipe, d)) \in Nat
            /\ Cardinality(InPipe(pipe', d)) <= Cardinality(InPipe(pipe, d)) + 0
        BY <1>1, <1>12, <3>1, CallPipe
      <3>3. slot[j].sending >= Messages(pipe', th', d)
        BY <2>2, <2>4, <2>5, <3>2 DEF Messages
      <3> QED
        BY <2>1, <3>3
    <2> QED
      BY <2>6, <2>7
  <1>15. ASSUME NEW j \in Slots, NEW m \in Msgs, Live(slot[j]),
                conn[slot[j].id].closer = Nobody, Held(th[m.from], slot[j].id, m)
         PROVE  Held(th'[m.from], slot[j].id, m) \/ Piped(pipe', slot[j].id, m)
    <2>1. m.from \in Services
      BY DEF Msgs
    <2>2. CASE m.from # v
      BY <2>1, <2>2, <1>11, <1>15
    <2>3. CASE m.from = v
      <3>1. h.id = slot[j].id /\ h.msg = m /\ h.cmd # "W"
        BY <1>2, <1>15, <2>3 DEF Held
      <3>2. k.id = slot[j].id /\ k.cmd \in MsgCmds /\ k.msg = m
        BY <3>1, <1>4, <1>6 DEF MsgCmds
      <3>3. pipe \in Seq(Cmds)
        BY <1>1 DEF TypeInv
      <3>4. /\ Len(pipe') = Len(pipe) + 1 /\ Len(pipe) \in Nat /\ pipe'[Len(pipe) + 1] = k
            /\ \A n \in 1..Len(pipe) : pipe'[n] = pipe[n]
        BY <1>7, <3>3, LenProperties, AppendProperties DEF Sends
      <3>5. ASSUME NEW n \in 1..Len(pipe), pipe'[n].cmd = "K" PROVE pipe'[n].id # slot[j].id
        <4>1. SUFFICES ASSUME pipe[n].id = slot[j].id PROVE FALSE
          BY <3>4
        <4>2. Called(pipe[n], slot[HASH_ID(pipe[n].id)], conn[pipe[n].id])
          BY <1>1 DEF CloseInv
        <4>3. HASH_ID(slot[j].id) = j
          BY <1>15, LiveSlot
        <4>4. pipe[n].cmd = "K"
          BY <3>4, <3>5
        <4> QED
          BY <1>15, <4>1, <4>2, <4>3, <4>4 DEF Called
      <3>6. PICK n \in Nat : n = Len(pipe) + 1
        BY <3>4
      <3>7. n \in 1..Len(pipe') /\ \A y \in 1..n - 1 : y \in 1..Len(pipe)
        BY <3>4, <3>6
      <3>8. pipe'[n] = k
        BY <3>4, <3>6
      <3> QED
        BY <3>2, <3>5, <3>7, <3>8 DEF Piped
    <2> QED
      BY <2>2, <2>3
  <1>16. \A y \in Services :
            \/ th'[y] = th[y]
            \/ /\ th[y].pc # "write" /\ th'[y].pc # "write"
               /\ SenderOK(th'[y], slot[HASH_ID(th'[y].id)], alloc_id)
    BY <1>2, <1>3, <1>9, <1>11 DEF SenderOK
  <1> QED
    BY <1>7, <1>12, <1>13, <1>14, <1>15, <1>16, StillCall

\* A service goes on with u: the others do not, and it sends to id only.
LEMMA OneGoes ==
    ASSUME TypeInv, NEW v, NEW u, Moves(v, u), NEW id \in Ids,
           th[v].pc # "idle" => th[v].id = id, u.pc # "idle" => u.id = id
    PROVE  /\ Calls(id) /\ th'[v] = u /\ \A y \in Services : y # v => th'[y] = th[y]
  <1>1. /\ th' \in [Services -> Threads] /\ th'[v] = u
        /\ \A y \in Services : y # v => th'[y] = th[y]
    BY DEF Moves, TypeInv
  <1> QED
    BY <1>1 DEF Calls, Moves

\* A service that is not writing before and after leaves the locks.
LEMMA NoWrite ==
    ASSUME NEW i, NEW s, LockOK(i, s, th), NEW v, NEW t, t.lock = s.lock, t.id = s.id,
           \A y \in Services : y # v => th'[y] = th[y],
           th[v].pc # "write", th'[v].pc # "write"
    PROVE  LockOK(i, t, th')
  BY DEF LockOK

\* inc_sending_ref: the count goes up before the message goes to the pipe.
LEMMA IncSendingStep ==
    ASSUME Inv, NEW v \in Services, IncSending(v)
    PROVE  Inv'
  <1>1. TypeInv /\ SenderInv /\ SlotInv /\ LockInv
    BY DEF Inv
  <1>2. PICK h : h = th[v]
    OBVIOUS
  <1>3. h \in Threads /\ h.pc = "inc" /\ h.id \in Ids /\ h.msg \in Msgs /\ h.msg.from = v
    BY <1>1, <1>2 DEF IncSending, TypeInv
  <1>4. PICK id \in Ids : id = h.id
    BY <1>3
  <1>5. PICK s : s = slot[HASH_ID(id)]
    OBVIOUS
  <1>6. PICK u : u = [h EXCEPT !.pc = "push"]
    OBVIOUS
  <1>7. /\ u \in Threads /\ u.pc = "push" /\ u.id = id /\ u.msg = h.msg /\ u.cmd = h.cmd
    BY <1>3, <1>4, <1>6 DEF Threads
  <1>8. /\ alloc_id' = alloc_id /\ pipe' = pipe /\ poll' = poll /\ ev' = ev /\ job' = job
        /\ known' = known /\ conn' = conn /\ cut' = cut
        /\ slot' = IF s.tcp /\ s.tag = id THEN [slot EXCEPT ![HASH_ID(id)].sending = @ + 1]
                                          ELSE slot
    BY <1>2, <1>4, <1>5 DEF IncSending
  <1>9. Moves(v, u)
    <2>1. th' = [th EXCEPT ![v] = u]
      <3>1. th' = [th EXCEPT ![v].pc = "push"]
        BY DEF IncSending
      <3> QED
        BY <3>1, <1>1, <1>2, <1>3, <1>6 DEF TypeInv, Threads
    <2> QED
      BY <2>1, <1>3, <1>7 DEF Moves
  <1>10. Calls(id) /\ th'[v] = u /\ \A y \in Services : y # v => th'[y] = th[y]
    BY <1>1, <1>2, <1>4, <1>7, <1>9, OneGoes
  <1>11. HASH_ID(id) \in Slots
    BY HashSlot DEF Ids
  <1>12. s \in Socket /\ SlotOK(HASH_ID(id), s, alloc_id) /\ LockOK(HASH_ID(id), s, th)
    BY <1>1, <1>5, <1>11 DEF TypeInv, SlotInv, LockInv
  <1>13. SenderOK(h, s, alloc_id)
    BY <1>1, <1>2, <1>4, <1>5 DEF SenderInv
  <1>14. \A d, m : Held(th[v], d, m) => Held(th'[v], d, m)
    BY <1>2, <1>3, <1>4, <1>7, <1>10 DEF Held
  <1>15. CASE s.tcp /\ s.tag = id
    <2>1. s.id = id /\ s.sending \in Nat
      BY <1>12, <1>15 DEF SlotOK, Socket
    <2>2. PICK t : t = [s EXCEPT !.sending = @ + 1]
      OBVIOUS
    <2>16. PICK n \in Nat : n = s.sending + 1
      BY <2>1
    <2>17. t = [s EXCEPT !.sending = n]
      BY <2>2, <2>16
    <2>3. /\ t \in Socket /\ t.type = s.type /\ t.id = id /\ t.tcp /\ t.tag = s.tag
          /\ t.sending = s.sending + 1 /\ t.high = s.high /\ t.low = s.low
          /\ t.dw_buffer = s.dw_buffer /\ t.lock = s.lock /\ t.lost = s.lost
      BY <1>12, <1>15, <2>1, <2>16, <2>17 DEF Socket
    <2>4. slot' = [slot EXCEPT ![HASH_ID(t.id)] = t] /\ s = slot[HASH_ID(t.id)]
      BY <1>1, <1>5, <1>8, <1>11, <1>15, <2>2, <2>3 DEF TypeInv
    <2>5. conn[id] \in Conns /\ known[id] \in Known
      BY <1>1 DEF TypeInv, Known
    <2>6. /\ conn' = [conn EXCEPT ![t.id] = conn[id]]
          /\ known' = [known EXCEPT ![t.id] = known[id]]
      BY <1>1, <1>8, <2>3 DEF TypeInv
    <2>7. Change(t, conn[id], known[id])
      BY <1>8, <2>1, <2>3, <2>4, <2>5, <2>6 DEF Change
    <2>8. LockOK(HASH_ID(t.id), t, th')
      BY <1>2, <1>3, <1>7, <1>10, <1>12, <2>1, <2>3, NoWrite
    <2>9. SlotOK(HASH_ID(t.id), t, alloc_id')
      BY <1>8, <1>12, <1>15, <2>1, <2>3 DEF SlotOK, Live
    <2>10. KnownOK(t.id, t, known[id], conn[id])
      <3>1. KnownOK(id, s, known[id], conn[id])
        BY <1>5 DEF Inv, KnownInv
      <3> QED
        BY <3>1, <2>1, <2>3 DEF KnownOK, Live
    <2>11. ASSUME Kept(t) PROVE WireOK(t, conn[id].wire) /\ DueOK(t, conn[id], pipe', th')
      <3>1. Live(s) /\ ~s.lost
        BY <2>3, <2>11 DEF Live, Kept
      <3>2. WireOK(s, conn[id].wire) /\ DueOK(s, conn[id], pipe, th)
        BY <1>5, <1>11, <2>1, <3>1, LiveSlot
      <3>3. High(t) = High(s) /\ Pending(t) = Pending(s)
        BY <2>3 DEF High, Pending
      <3>4. WireOK(t, conn[id].wire)
        BY <2>3, <3>2, <3>3 DEF WireOK
      <3>5. \A m : Out(s, conn[id].wire, m) => Out(t, conn[id].wire, m)
        BY <3>3 DEF Out
      <3>6. \A m \in Msgs : Held(th[m.from], id, m) => Held(th'[m.from], id, m)
        BY <1>10, <1>14 DEF Msgs
      <3>7. Due(conn[id]) \subseteq Msgs
        BY <2>5, DueMsgs
      <3> QED
        BY <1>8, <2>1, <2>3, <3>2, <3>4, <3>5, <3>6, <3>7 DEF DueOK
    <2>12. t.sending >= Messages(pipe', th', t.id)
      <3>1. s.sending >= Messages(pipe, th, id)
        BY <1>5, <1>11, <1>15, <2>1 DEF Inv, CountInv
      <3>2. Cardinality(InHand(th', id)) <= Cardinality(InHand(th, id)) + 1
        BY <1>10, CountHand
      <3>3. /\ Cardinality(InHand(th, id)) \in Nat /\ Cardinality(InHand(th', id)) \in Nat
            /\ Cardinality(InPipe(pipe, id)) \in Nat
        BY <1>1, Counts DEF TypeInv
      <3>4. s.sending + 1 >= Messages(pipe', th', id)
        BY <1>8, <2>1, <3>1, <3>2, <3>3 DEF Messages
      <3> QED
        BY <3>4, <2>3
    <2>13. s.type # "RESERVE"
      BY <1>12, <1>15 DEF SlotOK
    <2>14. (Live(t) => Live(s)) /\ (Live(s) => Live(t)) /\ conn[t.id] = conn[id]
      BY <2>3 DEF Live
    <2>15. Calls(t.id) /\ t.tcp /\ s.id = t.id
      BY <1>10, <2>1, <2>3
    <2> QED
      BY <1>8, <2>3, <2>4, <2>7, <2>8, <2>9, <2>10, <2>11, <2>12, <2>13, <2>14, <2>15, CallStep
  <1>16. CASE ~(s.tcp /\ s.tag = id)
    <2>1. s.id # id
      BY <1>3, <1>4, <1>12, <1>13, <1>16 DEF SenderOK, SlotOK
    <2>2. Still
      BY <1>8, <1>16 DEF Still
    <2>3. ASSUME NEW j \in Slots, slot[j].tcp
          PROVE  slot[j].sending >= Messages(pipe', th', slot[j].id)
      <3>1. slot[j].sending \in Nat /\ slot[j].sending >= Messages(pipe, th, slot[j].id)
        BY <1>1, <2>3 DEF Inv, CountInv, TypeInv, Socket
      <3>2. slot[j].id # id
        BY <1>1, <1>5, <2>1, <2>3, SlotIds
      <3>3. v \notin InHand(th', slot[j].id)
        BY <1>7, <1>10, <3>2 DEF InHand
      <3>4. Cardinality(InHand(th', slot[j].id)) <= Cardinality(InHand(th, slot[j].id))
        BY <1>10, <3>3, CountHand
      <3>5. /\ Cardinality(InHand(th, slot[j].id)) \in Nat
            /\ Cardinality(InHand(th', slot[j].id)) \in Nat
            /\ Cardinality(InPipe(pipe, slot[j].id)) \in Nat
        BY <1>1, Counts DEF TypeInv
      <3> QED
        BY <1>8, <3>1, <3>4, <3>5 DEF Messages
    <2>4. \A y \in Services :
              \/ th'[y] = th[y]
              \/ /\ th[y].pc # "write" /\ th'[y].pc # "write"
                 /\ SenderOK(th'[y], slot[HASH_ID(th'[y].id)], alloc_id)
      BY <1>2, <1>3, <1>4, <1>5, <1>7, <1>10, <1>13, <2>1 DEF SenderOK
    <2>5. ASSUME NEW j \in Slots, NEW m \in Msgs, Held(th[m.from], slot[j].id, m)
          PROVE  Held(th'[m.from], slot[j].id, m)
      BY <1>10, <1>14, <2>5 DEF Msgs
    <2> QED
      BY <1>8, <1>10, <2>2, <2>3, <2>4, <2>5, StillCall
  <1> QED
    BY <1>15, <1>16

\* reserve_id
LEMMA ReserveStep ==
    ASSUME Inv, NEW id \in Ids, Reserve(id)
    PROVE  Inv'
  <1>1. PICK s : s = slot[HASH_ID(id)]
    OBVIOUS
  <1>2. /\ HASH_ID(id) \in Slots /\ s \in Socket /\ s.type = "INVALID" /\ alloc_id < id
        /\ s.high = <<>> /\ s.low = <<>> /\ s.dw_buffer = <<>> /\ s.lock = Nobody
        /\ conn[id] = NoConn /\ known[id] = "none"
    BY <1>1, NextIdFree DEF Reserve
  <1>3. PICK t : t = Reserved(s, id)
    OBVIOUS
  <1>4. /\ t \in Socket /\ t.type = "RESERVE" /\ t.id = id /\ ~t.tcp /\ t.lock = Nobody
        /\ t.high = <<>> /\ t.low = <<>> /\ t.dw_buffer = <<>>
    BY <1>2, <1>3 DEF Reserved, Socket, Types
  <1>5. /\ alloc_id' = id /\ pipe' = pipe /\ poll' = poll /\ job' = job /\ ev' = ev /\ th' = th
        /\ known' = known /\ conn' = conn /\ cut' = cut
        /\ slot' = [slot EXCEPT ![HASH_ID(t.id)] = t] /\ s = slot[HASH_ID(t.id)]
    BY <1>1, <1>2, <1>3, <1>4 DEF Reserve
  <1>9. TypeInv /\ LockInv
    BY DEF Inv
  <1>10. /\ conn' = [conn EXCEPT ![t.id] = NoConn] /\ known' = [known EXCEPT ![t.id] = "none"]
         /\ NoConn \in Conns /\ "none" \in Known
    BY <1>2, <1>4, <1>5, <1>9 DEF TypeInv, Known
  <1>11. Change(t, NoConn, "none")
    BY <1>2, <1>4, <1>5, <1>10 DEF Change
  <1>12. ~Live(t)
    BY <1>4 DEF Live
  <1>13. Calls(t.id) /\ th' = th
    BY <1>5, <1>9 DEF Calls, TypeInv
  <1>14. LockOK(HASH_ID(t.id), t, th')
    <2>1. LockOK(HASH_ID(t.id), s, th)
      BY <1>2, <1>4, <1>5, <1>9 DEF LockInv
    <2>2. \A v \in Services : v # Nobody
      BY SocketAssumption
    <2> QED
      BY <2>1, <2>2, <1>2, <1>4, <1>13 DEF LockOK
  <1>15. id # 0 /\ id <= id /\ ~(id <= alloc_id)
    BY <1>2, <1>9 DEF Ids, TypeInv
  <1>16. SlotOK(HASH_ID(t.id), t, alloc_id')
    BY <1>2, <1>4, <1>5, <1>12, <1>15 DEF SlotOK
  <1>17. KnownOK(t.id, t, "none", NoConn)
    BY DEF KnownOK, NoConn
  <1>19. s.type # "RESERVE" /\ ~Live(s) /\ ~Kept(t)
    BY <1>2, <1>12 DEF Live, Kept
  <1> QED
    BY <1>4, <1>5, <1>11, <1>12, <1>13, <1>14, <1>16, <1>17, <1>19, CallStep

\* The request of socket_server_connect
LEMMA ConnectStep ==
    ASSUME Inv, NEW id \in Ids, Connect(id)
    PROVE  Inv'
  <1>1. TypeInv /\ SlotInv
    BY DEF Inv
  <1>2. PICK s : s = slot[HASH_ID(id)]
    OBVIOUS
  <1>3. /\ s.type = "RESERVE" /\ s.id = id /\ Still /\ th' = th /\ ev' = ev
        /\ poll' = poll /\ job' = job
    BY <1>2 DEF Connect, Still
  <1>4. HASH_ID(id) \in Slots /\ id <= alloc_id
    <2>1. HASH_ID(id) \in Slots
      BY HashSlot DEF Ids
    <2> QED
      BY <1>1, <1>2, <1>3, <2>1, SlotIds
  <1>5. PICK k : k = [cmd |-> "O", id |-> id, msg |-> NoMsg, shutdown |-> FALSE]
    OBVIOUS
  <1>6. k \in Cmds /\ k.cmd = "O" /\ k.id = id
    BY <1>5 DEF Cmds
  <1>7. Sends(k)
    BY <1>5, <1>6 DEF Connect, Request, Sends, MsgCmds
  <1>8. CmdOK(k, slot[HASH_ID(k.id)], alloc_id) /\ Called(k, slot[HASH_ID(k.id)], conn[k.id])
    BY <1>2, <1>3, <1>4, <1>6 DEF CmdOK, Called
  <1>9. \A n \in 1..Len(pipe) : pipe[n].cmd = "O" => pipe[n].id # k.id
    <2>1. DOMAIN pipe = 1..Len(pipe)
      BY <1>1, LenProperties DEF TypeInv
    <2> QED
      BY <2>1, <1>6 DEF Connect
  <1>10. Calls(id) /\ Pushes
    BY <1>1, <1>3, <1>7 DEF Calls, Pushes, TypeInv
  <1>11. ASSUME NEW j \in Slots, slot[j].tcp
         PROVE  slot[j].sending >= Messages(pipe', th', slot[j].id)
    <2>1. slot[j].sending \in Nat /\ slot[j].sending >= Messages(pipe, th, slot[j].id)
      BY <1>1, <1>11 DEF Inv, CountInv, TypeInv, Socket
    <2>2. \A n : Sends(n) => n.cmd \notin MsgCmds
      BY <1>1, <1>6, <1>7, SentOnce DEF MsgCmds
    <2>3. /\ Cardinality(InPipe(pipe', slot[j].id)) \in Nat
          /\ Cardinality(InPipe(pipe, slot[j].id)) \in Nat
          /\ Cardinality(InPipe(pipe', slot[j].id)) <= Cardinality(InPipe(pipe, slot[j].id)) + 0
      BY <1>1, <1>10, <2>2, CallPipe
    <2>4. Cardinality(InHand(th, slot[j].id)) \in Nat
      BY <1>1, Counts DEF TypeInv
    <2> QED
      BY <1>3, <2>1, <2>3, <2>4 DEF Messages
  <1> QED
    BY <1>3, <1>7, <1>8, <1>9, <1>10, <1>11, StillCall

\* socket_server_close and socket_server_shutdown: the service has nothing in
\* hand that it sent before.
LEMMA CloseStep ==
    ASSUME Inv, NEW v \in Services, NEW id \in Ids, NEW shutdown \in BOOLEAN,
           Close(v, id, shutdown)
    PROVE  Inv'
  <1>1. TypeInv /\ LockInv /\ KnownInv
    BY DEF Inv
  <1>2. PICK s : s = slot[HASH_ID(id)]
    OBVIOUS
  <1>3. s.id = id /\ Live(s) /\ s.tcp /\ id <= alloc_id /\ HASH_ID(id) \in Slots
    BY <1>2, KnownSlot DEF Close
  <1>4. /\ s \in Socket /\ conn[id] \in Conns /\ known[id] \in Known
        /\ ~s.lost => WireOK(s, conn[id].wire) /\ DueOK(s, conn[id], pipe, th)
        /\ KnownOK(id, s, known[id], conn[id]) /\ SlotOK(HASH_ID(id), s, alloc_id)
        /\ s.sending \in Nat /\ s.sending >= Messages(pipe, th, id)
    BY <1>2, <1>3, LiveSlot
  <1>5. /\ alloc_id' = alloc_id /\ poll' = poll /\ job' = job /\ ev' = ev /\ th' = th
        /\ known' = known /\ slot' = slot /\ cut' = cut /\ th[v].pc = "idle"
    BY DEF Close
  <1>6. PICK k : k = [cmd |-> "K", id |-> id, msg |-> NoMsg, shutdown |-> shutdown]
    OBVIOUS
  <1>7. k \in Cmds /\ k.cmd = "K" /\ k.id = id
    BY <1>6 DEF Cmds
  <1>8. Sends(k) /\ Pushes
    BY <1>6, <1>7 DEF Close, Request, Sends, Pushes, MsgCmds
  <1>9. PICK own : own = {m \in conn[id].sent : m.from = v}
    OBVIOUS
  <1>10. PICK c : c = IF conn[id].closer = Nobody
                        THEN [conn[id] EXCEPT !.closer = v, !.promise = own] ELSE conn[id]
    OBVIOUS
  <1>11. v # Nobody
    BY SocketAssumption
  <1>13. /\ c \in Conns /\ c.wire = conn[id].wire /\ c.sent = conn[id].sent /\ c.closer # Nobody
         /\ conn[id].closer = Nobody => c.promise = own
         /\ conn[id].closer # Nobody => c = conn[id]
    BY <1>4, <1>9, <1>10, <1>11 DEF Conns
  <1>14. conn' = [conn EXCEPT ![s.id] = c]
    <2>1. conn \in [Ids -> Conns]
      BY <1>1 DEF TypeInv
    <2>2. CASE conn[id].closer = Nobody
      <3>1. conn' = [conn EXCEPT ![id].closer = v, ![id].promise = own]
        BY <1>9, <2>2 DEF Close
      <3> QED
        BY <1>3, <1>10, <2>1, <2>2, <3>1 DEF Conns
    <2>3. CASE conn[id].closer # Nobody
      BY <1>3, <1>10, <2>1, <2>3 DEF Close
    <2> QED
      BY <2>2, <2>3
  <1>15. slot' = [slot EXCEPT ![HASH_ID(s.id)] = s] /\ known' = [known EXCEPT ![s.id] = known[id]]
    BY <1>1, <1>2, <1>3, <1>5 DEF TypeInv
  <1>16. Change(s, c, known[id])
    BY <1>2, <1>3, <1>4, <1>5, <1>13, <1>14, <1>15 DEF Change
  <1>17. Calls(s.id)
    BY <1>1, <1>5 DEF Calls, TypeInv
  <1>18. LockOK(HASH_ID(s.id), s, th')
    BY <1>1, <1>2, <1>3, <1>5 DEF LockInv
  <1>19. KnownOK(s.id, s, known[id], c)
    <2>1. conn[id].sent = {} => own = {}
      BY <1>9
    <2> QED
      BY <2>1, <1>3, <1>4, <1>13 DEF KnownOK
  <1>20. ASSUME ~s.lost PROVE DueOK(s, c, pipe', th')
    <2>1. \A m : Piped(pipe, id, m) => Piped(pipe', id, m)
      BY <1>1, <1>8, CallPiped
    <2>2. CASE conn[id].closer = Nobody
      <3>1. Due(c) = own /\ Due(conn[id]) = conn[id].sent
        BY <1>13, <2>2 DEF Due
      <3>2. \A m \in own : m \in Due(conn[id]) /\ ~Held(th[m.from], id, m)
        BY <1>5, <1>9, <3>1 DEF Held
      <3> QED
        BY <1>3, <1>4, <1>13, <1>20, <2>1, <3>1, <3>2 DEF DueOK
    <2>3. CASE conn[id].closer # Nobody
      BY <1>3, <1>4, <1>13, <1>20, <2>1, <2>3 DEF DueOK
    <2> QED
      BY <2>2, <2>3
  <1>21. Kept(s) => WireOK(s, c.wire) /\ DueOK(s, c, pipe', th')
    BY <1>4, <1>13, <1>20 DEF Kept
  <1>22. s.sending >= Messages(pipe', th', s.id)
    <2>1. \A n : Sends(n) => n.cmd \notin MsgCmds
      BY <1>1, <1>7, <1>8, SentOnce DEF MsgCmds
    <2>2. /\ Cardinality(InPipe(pipe', id)) \in Nat
          /\ Cardinality(InPipe(pipe, id)) \in Nat
          /\ Cardinality(InPipe(pipe', id)) <= Cardinality(InPipe(pipe, id)) + 0
      BY <1>1, <1>8, <2>1, CallPipe
    <2>3. Cardinality(InHand(th, id)) \in Nat
      BY <1>1, Counts DEF TypeInv
    <2>4. s.sending >= Messages(pipe', th, id)
      BY <1>4, <2>2, <2>3 DEF Messages
    <2> QED
      BY <1>3, <1>5, <2>4
  <1>23. /\ k.id = s.id /\ CmdOK(k, s, alloc_id') /\ k.cmd # "O" /\ Called(k, s, c)
    BY <1>3, <1>5, <1>7, <1>13 DEF CmdOK, Called
  <1>24. SlotOK(HASH_ID(s.id), s, alloc_id') /\ s = slot[HASH_ID(s.id)] /\ s.type # "RESERVE"
    BY <1>2, <1>3, <1>4, <1>5 DEF Live
  <1>25. /\ conn[s.id].closer # Nobody => c.promise = conn[s.id].promise
         /\ Range(conn[s.id].wire) \subseteq Range(c.wire)
    BY <1>3, <1>13
  <1> QED
    BY <1>3, <1>5, <1>8, <1>13, <1>16, <1>17, <1>18, <1>19, <1>20, <1>21, <1>22, <1>23, <1>24,
       <1>25, CallStep

\* The head of socket_server_send: the message is in the hand of its service, and
\* a service that writes directly finds whole messages on the wire.
LEMMA SendStep ==
    ASSUME Inv, NEW v \in Services, NEW id \in Ids, NEW low \in BOOLEAN, Send(v, id, low)
    PROVE  Inv'
  <1>1. TypeInv /\ LockInv
    BY DEF Inv
  <1>2. PICK s : s = slot[HASH_ID(id)]
    OBVIOUS
  <1>3. s.id = id /\ Live(s) /\ s.tcp /\ id <= alloc_id /\ HASH_ID(id) \in Slots
    BY <1>2, KnownSlot DEF Send
  <1>4. /\ s \in Socket /\ conn[id] \in Conns /\ conn[id].wire \in Seq(Units)
        /\ ~s.lost => WireOK(s, conn[id].wire) /\ DueOK(s, conn[id], pipe, th)
        /\ KnownOK(id, s, known[id], conn[id]) /\ SlotOK(HASH_ID(id), s, alloc_id)
        /\ s.sending \in Nat /\ s.sending >= Messages(pipe, th, id)
    BY <1>2, <1>3, LiveSlot
  <1>5. PICK m : m = [from |-> v, n |-> th[v].n + 1, low |-> low]
    OBVIOUS
  <1>6. th[v] \in Threads /\ th[v].pc = "idle" /\ th[v].n \in Nat
    BY <1>1 DEF Send, TypeInv, Threads
  <1>7. m \in Msgs /\ m.from = v /\ m.n \in Nat
    BY <1>5, <1>6 DEF Msgs
  <1>8. PICK direct : direct = (~low /\ can_direct_write(s, id) /\ s.lock = Nobody)
    OBVIOUS
  <1>9. PICK u : u = [pc |-> IF direct THEN "write" ELSE "inc", n |-> m.n, id |-> id,
                      cmd |-> IF low THEN "P" ELSE "D", msg |-> m]
    OBVIOUS
  <1>10. /\ u \in Threads /\ u.pc \in {"write", "inc"} /\ u.id = id /\ u.msg = m
         /\ u.cmd \in {"P", "D"} /\ (u.pc = "write" <=> direct) /\ (direct => u.cmd = "D")
    BY <1>7, <1>8, <1>9 DEF Threads
  <1>11. PICK c : c = [conn[id] EXCEPT !.sent = @ \cup {m}]
    OBVIOUS
  <1>12. PICK t : t = IF direct THEN [s EXCEPT !.lock = v] ELSE s
    OBVIOUS
  <1>13. /\ alloc_id' = alloc_id /\ pipe' = pipe /\ poll' = poll /\ job' = job /\ ev' = ev
         /\ known' = known /\ cut' = cut /\ known[id] = "open"
    BY DEF Send
  <1>14. th' = [th EXCEPT ![v] = u] /\ Moves(v, u)
    <2>1. th' = [th EXCEPT ![v] = u]
      BY <1>2, <1>5, <1>8, <1>9 DEF Send
    <2> QED
      BY <2>1, <1>7, <1>10 DEF Moves
  <1>15. Calls(id) /\ th'[v] = u /\ \A y \in Services : y # v => th'[y] = th[y]
    BY <1>1, <1>6, <1>10, <1>14, OneGoes
  <1>16. /\ c \in Conns /\ c.wire = conn[id].wire /\ c.closer = conn[id].closer
         /\ c.promise = conn[id].promise /\ c.sent = conn[id].sent \cup {m}
         /\ conn[id].sent \subseteq Msgs
    <2>1. PICK o : o = conn[id]
      OBVIOUS
    <2>2. o \in Conns /\ o.sent \subseteq Msgs
      BY <1>4, <2>1 DEF Conns
    <2>3. PICK q \in SUBSET Msgs : q = o.sent \cup {m}
      BY <1>7, <2>2
    <2>4. c = [o EXCEPT !.sent = q]
      BY <1>11, <2>1, <2>3
    <2>5. /\ c \in Conns /\ c.wire = o.wire /\ c.closer = o.closer
          /\ c.promise = o.promise /\ c.sent = q
      BY <2>2, <2>3, <2>4 DEF Conns
    <2> QED
      BY <2>1, <2>2, <2>3, <2>5
  <1>17. /\ t \in Socket /\ t.type = s.type /\ t.id = id /\ t.tcp /\ t.tag = s.tag
         /\ t.sending = s.sending /\ t.high = s.high /\ t.low = s.low
         /\ t.dw_buffer = s.dw_buffer /\ t.lock = (IF direct THEN v ELSE s.lock)
         /\ t.lost = s.lost
    BY <1>3, <1>4, <1>12 DEF Socket
  <1>18. slot' = [slot EXCEPT ![HASH_ID(t.id)] = t] /\ s = slot[HASH_ID(t.id)]
    <2>1. slot' = IF direct THEN [slot EXCEPT ![HASH_ID(id)].lock = v] ELSE slot
      BY <1>2, <1>8 DEF Send
    <2> QED
      BY <1>1, <1>2, <1>3, <1>12, <1>17, <2>1 DEF TypeInv
  <1>19. conn' = [conn EXCEPT ![t.id] = c] /\ known' = [known EXCEPT ![t.id] = "open"]
    <2>1. conn' = [conn EXCEPT ![id].sent = @ \cup {m}]
      BY <1>5 DEF Send
    <2> QED
      BY <1>1, <1>11, <1>13, <1>17, <2>1 DEF TypeInv
  <1>20. Change(t, c, "open")
    <2>1. "open" \in Known
      BY DEF Known
    <2> QED
      BY <2>1, <1>3, <1>13, <1>16, <1>17, <1>18, <1>19 DEF Change
  <1>21. direct => /\ s.type = "CONNECTED" /\ s.high = <<>> /\ s.low = <<>> /\ s.dw_buffer = <<>>
                   /\ s.lock = Nobody
    BY <1>8 DEF can_direct_write, nomore_sending_data, send_buffer_empty
  <1>22. v # Nobody
    BY SocketAssumption
  <1>23. LockOK(HASH_ID(t.id), t, th')
    <2>1. LockOK(HASH_ID(id), s, th)
      BY <1>1, <1>2, <1>3 DEF LockInv
    <2>2. CASE direct
      <3>1. ASSUME NEW y \in Services
            PROVE  /\ t.lock = y <=> th'[y].pc = "write" /\ HASH_ID(th'[y].id) = HASH_ID(t.id)
                   /\ t.lock = y => t.id = th'[y].id
        <4>1. CASE y = v
          BY <4>1, <2>2, <1>10, <1>15, <1>17
        <4>2. CASE y # v
          <5>1. s.lock # y
            BY <1>21, <2>2, SocketAssumption
          <5>2. ~(th[y].pc = "write" /\ HASH_ID(th[y].id) = HASH_ID(id))
            BY <5>1, <2>1 DEF LockOK
          <5> QED
            BY <4>2, <5>2, <2>2, <1>15, <1>17
        <4> QED
          BY <4>1, <4>2
      <3> QED
        BY <3>1 DEF LockOK
    <2>3. CASE ~direct
      BY <1>3, <1>6, <1>10, <1>15, <1>17, <2>1, <2>3, NoWrite
    <2> QED
      BY <2>2, <2>3
  <1>24. SlotOK(HASH_ID(t.id), t, alloc_id')
    BY <1>3, <1>4, <1>13, <1>17, <1>21 DEF SlotOK, Live
  <1>25. Live(t) /\ KnownOK(t.id, t, "open", c)
    BY <1>3, <1>4, <1>13, <1>17 DEF KnownOK, Live
  <1>26. High(t) = High(s) /\ Pending(t) = Pending(s)
    BY <1>17 DEF High, Pending
  <1>27. ASSUME ~s.lost PROVE WireOK(t, c.wire)
    <2>1. CASE direct
      <3>1. High(s) = <<>>
        BY <1>4, <1>21, <2>1, Lists
      <3>2. conn[id].wire \o <<>> = conn[id].wire
        BY <1>4, ConcatEmptySeq
      <3>3. Blocks(conn[id].wire) /\ Blocks(s.high)
        BY <1>4, <1>21, <1>27, <2>1, <3>1, <3>2, BlocksEmpty DEF WireOK
      <3> QED
        BY <1>4, <1>16, <1>17, <1>26, <1>27, <3>3 DEF WireOK
    <2>2. CASE ~direct
      BY <1>4, <1>16, <1>17, <1>26, <1>27, <2>2 DEF WireOK
    <2> QED
      BY <2>1, <2>2
  <1>28. ASSUME ~s.lost PROVE DueOK(t, c, pipe', th')
    <2>1. Held(th'[v], id, m)
      BY <1>10, <1>15 DEF Held
    <2>3. Due(c) \subseteq Due(conn[id]) \cup {m} /\ (c.closer # Nobody => Due(c) = Due(conn[id]))
      BY <1>16 DEF Due
    <2>4. Due(conn[id]) \subseteq Msgs
      BY <1>4, DueMsgs
    <2>5. ASSUME NEW o \in Msgs, Held(th[o.from], id, o) PROVE Held(th'[o.from], id, o)
      BY <1>6, <1>15, <2>5 DEF Held, Msgs
    <2>6. \A o : Out(s, conn[id].wire, o) => Out(t, c.wire, o)
      BY <1>16, <1>26 DEF Out
    <2>7. ASSUME NEW o \in Due(conn[id])
          PROVE  \/ Out(t, c.wire, o)
                 \/ t.type # "HALFCLOSE" /\ Piped(pipe', t.id, o)
                 \/ c.closer = Nobody /\ Held(th'[o.from], t.id, o)
      BY <1>3, <1>4, <1>13, <1>16, <1>17, <1>28, <2>4, <2>5, <2>6, <2>7 DEF DueOK
    <2>8. t.type = "HALFCLOSE" => c.closer # Nobody
      BY <1>4, <1>16, <1>17, <1>28 DEF DueOK
    <2> QED
      BY <1>7, <1>17, <2>1, <2>3, <2>7, <2>8 DEF DueOK
  <1>29. t.sending >= Messages(pipe', th', t.id)
    <2>1. v \notin InHand(th', id)
      BY <1>10, <1>15 DEF InHand
    <2>2. Cardinality(InHand(th', id)) <= Cardinality(InHand(th, id))
      BY <1>15, <2>1, CountHand
    <2>3. /\ Cardinality(InHand(th, id)) \in Nat /\ Cardinality(InHand(th', id)) \in Nat
          /\ Cardinality(InPipe(pipe, id)) \in Nat
      BY <1>1, Counts DEF TypeInv
    <2>4. s.sending >= Messages(pipe, th', id)
      BY <1>4, <2>2, <2>3 DEF Messages
    <2> QED
      BY <1>13, <1>17, <2>4
  <1>30. s.type # "RESERVE"
    BY <1>3 DEF Live
  <1>31. /\ conn[t.id].closer = c.closer /\ c.promise = conn[t.id].promise
         /\ Range(conn[t.id].wire) \subseteq Range(c.wire)
    BY <1>16, <1>17
  <1>32. Calls(t.id)
    BY <1>15, <1>17
  <1>33. Kept(t) => WireOK(t, c.wire) /\ DueOK(t, c, pipe', th')
    BY <1>17, <1>27, <1>28 DEF Kept
  <1> QED
    BY <1>3, <1>13, <1>17, <1>18, <1>20, <1>23, <1>24, <1>25, <1>29, <1>30, <1>31,
       <1>32, <1>33, CallStep

\* The direct write: what the kernel did not take goes before the high list.
LEMMA DirectWriteStep ==
    ASSUME Inv, NEW v \in Services, NEW n \in 0..Size, DirectWrite(v, n)
    PROVE  Inv'
  <1>1. TypeInv /\ LockInv /\ SlotInv
    BY DEF Inv
  <1>2. PICK h : h = th[v]
    OBVIOUS
  <1>3. /\ h \in Threads /\ h.pc = "write" /\ h.id \in Ids /\ h.msg \in Msgs /\ h.msg.from = v
        /\ h.n \in Nat
    BY <1>1, <1>2 DEF DirectWrite, TypeInv, Threads
  <1>4. PICK id \in Ids : id = h.id
    BY <1>3
  <1>5. PICK s : s = slot[HASH_ID(id)]
    OBVIOUS
  <1>6. HASH_ID(id) \in Slots
    BY HashSlot DEF Ids
  <1>7. LockOK(HASH_ID(id), s, th)
    BY <1>1, <1>5, <1>6 DEF LockInv
  <1>8. s.lock = v /\ s.id = id /\ v # Nobody
    BY <1>2, <1>3, <1>4, <1>7, SocketAssumption DEF LockOK
  <1>9. Live(s)
    BY <1>1, <1>5, <1>6, <1>8, SlotIds
  <1>10. /\ s \in Socket /\ s.tcp /\ conn[id] \in Conns /\ conn[id].wire \in Seq(Units)
         /\ known[id] \in Known
         /\ ~s.lost => WireOK(s, conn[id].wire) /\ DueOK(s, conn[id], pipe, th)
         /\ KnownOK(id, s, known[id], conn[id]) /\ SlotOK(HASH_ID(id), s, alloc_id)
         /\ s.sending \in Nat /\ s.sending >= Messages(pipe, th, id)
    BY <1>5, <1>6, <1>8, <1>9, LiveSlot
  <1>11. PICK all : all = UnitsOf(h.msg)
    OBVIOUS
  <1>12. /\ all \in Seq(Units) /\ Len(all) = Size /\ Size \in Nat
         /\ <<h.msg, Size>> \in Range(all) /\ Blocks(all)
    BY <1>3, <1>11, UnitsOfMsg, BlocksOne, SocketAssumption
  <1>13. PICK A, B : A = SubSeq(all, 1, n) /\ B = SubSeq(all, n + 1, Size)
    OBVIOUS
  <1>14. A \in Seq(Units) /\ B \in Seq(Units)
    <2>1. n \in Nat /\ n <= Size /\ 0 <= n /\ 0 \in Nat
      BY <1>12
    <2>2. SubSeq(all, 0 + 1, n) \in Seq(Units)
      BY <1>12, <2>1, Part
    <2>3. SubSeq(all, n + 1, Size) \in Seq(Units)
      BY <1>12, <2>1, Part
    <2> QED
      BY <1>13, <2>2, <2>3
  <1>15. A \o B = all
    BY <1>12, <1>13, Split
  <1>16. PICK w : w = conn[id].wire
    OBVIOUS
  <1>17. w \in Seq(Units) /\ w \o A \in Seq(Units)
    BY <1>10, <1>14, <1>16, Concat
  <1>18. PICK c : c = [conn[id] EXCEPT !.wire = w \o A]
    OBVIOUS
  <1>19. /\ c \in Conns /\ c.wire = w \o A /\ c.sent = conn[id].sent
         /\ c.closer = conn[id].closer /\ c.promise = conn[id].promise
    <2>1. PICK o : o = conn[id]
      OBVIOUS
    <2>2. PICK q \in Seq(Units) : q = w \o A
      BY <1>17
    <2>3. o \in Conns /\ c = [o EXCEPT !.wire = q]
      BY <1>10, <1>18, <2>1, <2>2
    <2>4. /\ c \in Conns /\ c.wire = q /\ c.sent = o.sent
          /\ c.closer = o.closer /\ c.promise = o.promise
      BY <2>2, <2>3 DEF Conns
    <2> QED
      BY <2>1, <2>2, <2>4
  <1>20. PICK t : t = [s EXCEPT !.dw_buffer = B, !.lock = Nobody]
    OBVIOUS
  <1>21. /\ t \in Socket /\ t.type = s.type /\ t.id = id /\ t.tcp /\ t.tag = s.tag
         /\ t.sending = s.sending /\ t.high = s.high /\ t.low = s.low
         /\ t.dw_buffer = B /\ t.lock = Nobody /\ t.lost = s.lost
    BY <1>8, <1>10, <1>14, <1>20 DEF Socket
  <1>22. PICK u : u = IF n = Size THEN Idle(h.n) ELSE [h EXCEPT !.pc = "inc", !.cmd = "W"]
    OBVIOUS
  <1>23. /\ u \in Threads /\ u.pc \in {"idle", "inc"}
         /\ u.pc # "idle" => u.id = id /\ u.msg = h.msg
    <2>1. CASE n = Size
      <3>1. u = Idle(h.n)
        BY <1>22, <2>1
      <3> QED
        BY <1>3, <3>1 DEF Idle, Threads
    <2>2. CASE n # Size
      <3>1. u = [h EXCEPT !.pc = "inc", !.cmd = "W"]
        BY <1>22, <2>2
      <3> QED
        BY <1>3, <1>4, <3>1 DEF Threads
    <2> QED
      BY <2>1, <2>2
  <1>24. /\ alloc_id' = alloc_id /\ pipe' = pipe /\ poll' = poll /\ job' = job /\ ev' = ev
         /\ known' = known /\ cut' = cut
    BY DEF DirectWrite
  <1>25. Moves(v, u)
    <2>1. th' = [th EXCEPT ![v] = u]
      BY <1>1, <1>2, <1>22 DEF DirectWrite, TypeInv
    <2> QED
      BY <2>1, <1>3, <1>23 DEF Moves
  <1>26. Calls(id) /\ th'[v] = u /\ \A y \in Services : y # v => th'[y] = th[y]
    BY <1>1, <1>2, <1>4, <1>23, <1>25, OneGoes
  <1>27. slot' = [slot EXCEPT ![HASH_ID(t.id)] = t] /\ s = slot[HASH_ID(t.id)]
    <2>1. slot' = [slot EXCEPT ![HASH_ID(id)].dw_buffer = B, ![HASH_ID(id)].lock = Nobody]
      BY <1>2, <1>4, <1>11, <1>13 DEF DirectWrite
    <2>2. PICK i \in Slots : i = HASH_ID(id)
      BY <1>6
    <2>3. slot \in [Slots -> Socket] /\ s = slot[i] /\ s \in Socket
      BY <1>1, <1>5, <2>2 DEF TypeInv
    <2>4. slot' = [slot EXCEPT ![i].dw_buffer = B, ![i].lock = Nobody]
      BY <2>1, <2>2
    <2>5. slot' = [slot EXCEPT ![i] = t]
      BY <1>20, <2>2, <2>3, <2>4 DEF Socket
    <2> QED
      BY <1>21, <2>2, <2>3, <2>5
  <1>28. conn' = [conn EXCEPT ![t.id] = c] /\ known' = [known EXCEPT ![t.id] = known[id]]
    <2>1. conn' = [conn EXCEPT ![id].wire = @ \o A]
      BY <1>2, <1>4, <1>5, <1>8, <1>11, <1>13 DEF DirectWrite
    <2> QED
      BY <1>1, <1>16, <1>18, <1>21, <1>24, <2>1 DEF TypeInv
  <1>29. Change(t, c, known[id])
    BY <1>8, <1>10, <1>19, <1>21, <1>24, <1>27, <1>28 DEF Change
  <1>30. LockOK(HASH_ID(t.id), t, th')
    <2>1. ASSUME NEW y \in Services
          PROVE  ~(th'[y].pc = "write" /\ HASH_ID(th'[y].id) = HASH_ID(id)) /\ y # Nobody
      <3>1. CASE y = v
        BY <3>1, <1>23, <1>26, SocketAssumption
      <3>2. CASE y # v
        <4>1. ~(th[y].pc = "write" /\ HASH_ID(th[y].id) = HASH_ID(id))
          BY <3>2, <1>7, <1>8 DEF LockOK
        <4> QED
          BY <3>2, <4>1, <1>26, SocketAssumption
      <3> QED
        BY <3>1, <3>2
    <2> QED
      BY <2>1, <1>21 DEF LockOK
  <1>31. SlotOK(HASH_ID(t.id), t, alloc_id')
    BY <1>8, <1>9, <1>10, <1>21, <1>24 DEF SlotOK, Live
  <1>32. Live(t) /\ s.type # "RESERVE"
    BY <1>9, <1>21 DEF Live
  <1>33. KnownOK(t.id, t, known[id], c)
    <2>1. s.lock # Nobody
      BY <1>8
    <2>2. s.type \in {"CONNECTED", "HALFCLOSE"}
      BY <2>1, <1>10 DEF SlotOK
    <2> QED
      BY <1>10, <1>19, <1>21, <1>32 DEF KnownOK
  <1>34. /\ s.high \in Seq(Units) /\ s.low \in Seq(Units) /\ s.dw_buffer = <<>>
         /\ High(s) = s.high /\ High(t) = B \o s.high /\ High(t) \in Seq(Units)
         /\ Pending(t) = High(t) \o s.low /\ Pending(s) = s.high \o s.low
    <2>1. s.high \in Seq(Units) /\ s.low \in Seq(Units) /\ s.dw_buffer = <<>>
      BY <1>8, <1>10, Lists DEF SlotOK
    <2>2. High(s) = s.high
      BY <1>10, <2>1, Lists
    <2> QED
      BY <1>14, <1>21, <2>1, <2>2, Concat DEF High, Pending
  <1>35. ASSUME ~s.lost PROVE WireOK(t, c.wire)
    <2>1. Blocks(w) /\ Blocks(s.high) /\ Blocks(s.low)
      BY <1>8, <1>10, <1>16, <1>35 DEF WireOK
    <2>2. Blocks(w \o all) /\ w \o all \in Seq(Units)
      BY <1>12, <1>17, <2>1, BlocksConcat, Concat
    <2>3. Blocks((w \o all) \o s.high)
      BY <1>34, <2>1, <2>2, BlocksConcat
    <2>4. (w \o A) \o B = w \o all
      BY <1>14, <1>15, <1>17, Assoc
    <2>5. (w \o A) \o (B \o s.high) = ((w \o A) \o B) \o s.high
      BY <1>14, <1>17, <1>34, Assoc
    <2>6. Blocks(c.wire \o High(t))
      BY <1>19, <1>34, <2>3, <2>4, <2>5
    <2> QED
      BY <1>21, <2>1, <2>6 DEF WireOK
  <1>36. /\ Range(c.wire) = Range(w) \cup Range(A)
         /\ Range(Pending(t)) = Range(B) \cup Range(s.high) \cup Range(s.low)
         /\ Range(Pending(s)) = Range(s.high) \cup Range(s.low)
         /\ Range(all) = Range(A) \cup Range(B)
    <2>1. Range(High(t)) = Range(B) \cup Range(s.high)
      BY <1>14, <1>34, RangeConcat
    <2>2. Range(Pending(t)) = Range(High(t)) \cup Range(s.low)
      BY <1>34, RangeConcat
    <2>3. Range(A \o B) = Range(A) \cup Range(B)
      BY <1>14, RangeConcat
    <2>4. Range(w \o A) = Range(w) \cup Range(A)
      BY <1>14, <1>17, RangeConcat
    <2>5. Range(s.high \o s.low) = Range(s.high) \cup Range(s.low)
      BY <1>34, RangeConcat
    <2> QED
      BY <1>15, <1>19, <1>34, <2>1, <2>2, <2>3, <2>4, <2>5
  <1>37. ASSUME ~s.lost PROVE DueOK(t, c, pipe', th')
    <2>1. Due(c) = Due(conn[id])
      BY <1>19 DEF Due
    <2>2. \A o : Out(s, conn[id].wire, o) => Out(t, c.wire, o)
      BY <1>16, <1>36 DEF Out
    <2>3. Out(t, c.wire, h.msg)
      BY <1>12, <1>36 DEF Out
    <2>4. Due(conn[id]) \subseteq Msgs
      BY <1>10, DueMsgs
    <2>5. ASSUME NEW o \in Msgs, Held(th[o.from], id, o)
          PROVE  Out(t, c.wire, o) \/ Held(th'[o.from], id, o)
      <3>1. CASE o.from = v
        BY <3>1, <2>3, <2>5, <1>2 DEF Held
      <3>2. CASE o.from # v
        BY <3>2, <2>5, <1>26 DEF Msgs
      <3> QED
        BY <3>1, <3>2
    <2>6. ASSUME NEW o \in Due(conn[id])
          PROVE  \/ Out(t, c.wire, o)
                 \/ t.type # "HALFCLOSE" /\ Piped(pipe', t.id, o)
                 \/ c.closer = Nobody /\ Held(th'[o.from], t.id, o)
      BY <1>8, <1>10, <1>19, <1>21, <1>24, <1>37, <2>2, <2>4, <2>5, <2>6 DEF DueOK
    <2>7. t.type = "HALFCLOSE" => c.closer # Nobody
      BY <1>10, <1>19, <1>21, <1>37 DEF DueOK
    <2> QED
      BY <2>1, <2>6, <2>7 DEF DueOK
  <1>38. t.sending >= Messages(pipe', th', t.id)
    <2>1. v \notin InHand(th', id)
      BY <1>23, <1>26 DEF InHand
    <2>2. Cardinality(InHand(th', id)) <= Cardinality(InHand(th, id))
      BY <1>26, <2>1, CountHand
    <2>3. /\ Cardinality(InHand(th, id)) \in Nat /\ Cardinality(InHand(th', id)) \in Nat
          /\ Cardinality(InPipe(pipe, id)) \in Nat
      BY <1>1, Counts DEF TypeInv
    <2>4. s.sending >= Messages(pipe, th', id)
      BY <1>10, <2>2, <2>3 DEF Messages
    <2> QED
      BY <1>21, <1>24, <2>4
  <1>39. /\ conn[t.id].closer = c.closer /\ c.promise = conn[t.id].promise
         /\ Range(conn[t.id].wire) \subseteq Range(c.wire)
    BY <1>16, <1>19, <1>21, <1>36
  <1>40. Calls(t.id)
    BY <1>21, <1>26
  <1>41. Kept(t) => WireOK(t, c.wire) /\ DueOK(t, c, pipe', th')
    BY <1>21, <1>35, <1>37 DEF Kept
  <1> QED
    BY <1>8, <1>9, <1>21, <1>24, <1>27, <1>29, <1>30, <1>31, <1>32, <1>33, <1>38, <1>39,
       <1>40, <1>41, CallStep

-----------------------------------------------------------------------------
(* The theorems *)

\* The invariants hold at first.
LEMMA InitInv ==
    Init => Inv
  <1> SUFFICES ASSUME Init PROVE Inv
    OBVIOUS
  <1>1. <<>> \in Seq(Units) /\ <<>> \in Seq(Cmds)
    BY EmptySeq
  <1>2. /\ slot = [i \in Slots |-> NoSocket] /\ alloc_id = 0 /\ pipe = <<>> /\ poll = "ctrl"
        /\ job = NoJob /\ ev = {} /\ th = [v \in Services |-> Idle(0)] /\ known = [id \in Ids |-> "none"]
        /\ conn = [id \in Ids |-> NoConn] /\ cut = {}
    BY DEF Init
  <1>3. NoSocket \in Socket /\ NoConn \in Conns /\ Idle(0) \in Threads /\ NoJob \in Jobs
    BY <1>1 DEF NoSocket, Socket, Types, NoConn, Conns, Idle, Threads, NoJob, Jobs
  <1>4. /\ \A i \in Slots : slot[i] = NoSocket /\ slot[i].type = "INVALID" /\ slot[i].id = 0
                            /\ ~slot[i].tcp /\ slot[i].lock = Nobody /\ ~Live(slot[i])
                            /\ slot[i].high = <<>> /\ slot[i].low = <<>>
                            /\ slot[i].dw_buffer = <<>>
        /\ \A v \in Services : th[v] = Idle(0) /\ th[v].pc = "idle"
        /\ \A id \in Ids : known[id] = "none" /\ conn[id] = NoConn
    BY <1>2 DEF NoSocket, Idle, Live
  <1>5. ASSUME NEW q, q = <<>> PROVE Len(q) = 0
    BY <1>5
  <1>6. Len(pipe) = 0 /\ \A k \in 1..Len(pipe) : FALSE
    BY <1>2, <1>5
  <1>7. TypeInv
    <2>1. alloc_id \in 0..MaxId
      BY <1>2, SocketAssumption
    <2>2. /\ slot \in [Slots -> Socket] /\ th \in [Services -> Threads] /\ conn \in [Ids -> Conns]
          /\ known \in [Ids -> {"none", "accepted", "open"}]
      BY <1>2, <1>3
    <2> QED
      BY <1>1, <1>2, <1>3, <1>4, <1>6, <2>1, <2>2 DEF TypeInv, Polls
  <1>8. LockInv
    <2>1. \A v \in Services : v # Nobody
      BY SocketAssumption
    <2> QED
      BY <1>4, <2>1 DEF LockInv, LockOK
  <1>9. SlotInv
    BY <1>2, <1>4 DEF SlotInv, SlotOK
  <1>10. PipeInv
    BY <1>6 DEF PipeInv
  <1>11. SenderInv
    BY <1>4 DEF SenderInv, SenderOK
  <1>12. KnownInv
    <2>1. ASSUME NEW id \in Ids PROVE KnownOK(id, slot[HASH_ID(id)], known[id], conn[id])
      <3>1. known[id] = "none" /\ conn[id] = NoConn
        BY <1>4
      <3>2. NoConn.sent = {} /\ NoConn.promise = {}
        BY DEF NoConn
      <3>3. KnownOK(id, slot[HASH_ID(id)], "none", NoConn)
        BY <3>2 DEF KnownOK
      <3> QED
        BY <3>1, <3>3
    <2> QED
      BY <2>1 DEF KnownInv
  <1>13. CountInv /\ WireInv /\ DueInv
    BY <1>4 DEF CountInv, WireInv, DueInv, Kept
  <1>14. CloseInv /\ JobInv /\ LostInv
    BY <1>2, <1>4, <1>6 DEF CloseInv, JobInv, LostInv
  <1> QED
    BY <1>2, <1>7, <1>8, <1>9, <1>10, <1>11, <1>12, <1>13, <1>14 DEF Inv

\* Every step keeps the invariants.
LEMMA NextInv ==
    Inv /\ [Next]_vars => Inv'
  <1> SUFFICES ASSUME Inv, [Next]_vars PROVE Inv'
    OBVIOUS
  <1>1. ASSUME NEW id \in Ids, Reserve(id) \/ Connect(id) \/ Start(id) PROVE Inv'
    BY <1>1, ReserveStep, ConnectStep, StartStep
  <1>2. ASSUME NEW v \in Services, NEW id \in Ids, NEW b \in BOOLEAN,
               Close(v, id, b) \/ Send(v, id, b)
        PROVE  Inv'
    BY <1>2, CloseStep, SendStep
  <1>3. ASSUME NEW v \in Services, Sending(v) PROVE Inv'
    BY <1>3, DirectWriteStep, IncSendingStep, SendRequestStep DEF Sending
  <1>4. CASE CtrlCmd
    BY <1>4, OpenStep, ResumeStep, TriggerStep, SendSocketStep, CloseOtherStep, CloseFdStep,
       OnwardStep, CloseSocketStep DEF CtrlCmd
  <1>8. CASE NoCmd
    BY <1>8, OnwardStep
  <1>5. CASE WaitAny
    BY <1>5, WaitStep DEF WaitAny
  <1>6. CASE Event
    <2>1. PICK e \in ev :
              \/ Ignore(e) \/ ReportAccept(e) \/ StaleEvent(e)
              \/ \E ok \in BOOLEAN : ReportConnect(e, ok)
              \/ ForwardMessage(e) \/ ForwardEnd(e)
              \/ \E n \in 0..MaxUnits : WriteEvent(e, n)
              \/ WriteError(e) \/ WriteBlocked(e)
      BY <1>6 DEF Event
    <2> QED
      BY <2>1, QuietEvents, ReportAcceptStep, ReportConnectStep, ForwardEndStep,
         WriteErrorStep, WriteEventStep
  <1>7. CASE UNCHANGED vars
    <2>1. Still /\ th' = th /\ pipe' = pipe /\ ev' = ev /\ poll' = poll /\ job' = job
      BY <1>7 DEF vars, Still
    <2> QED
      BY <2>1 DEF Inv, TypeInv, LockInv, SlotInv, PipeInv, SenderInv, KnownInv,
                  CountInv, WireInv, DueInv, CloseInv, JobInv, LostInv, Still
  <1> QED
    BY <1>1, <1>2, <1>3, <1>4, <1>5, <1>6, <1>7, <1>8 DEF Next, SocketThread

\* The inductive invariant: the wire and the lists of a connection consist of
\* whole messages until force_close frees the lists, the count covers the
\* messages underway, what must be sent is on the wire, in the lists, in the pipe
\* or in the hand of its service, a lock is held by the service that writes, and
\* between the two parts of force_close the connection keeps its slot.
THEOREM SocketInvariant == Spec => []Inv
  <1>1. Init => Inv
    BY InitInv
  <1>2. Inv /\ [Next]_vars => Inv'
    BY NextInv
  <1> QED
    BY <1>1, <1>2, PTL DEF Spec

\* No message is cut by another one on the wire, whatever parts of it the direct
\* writes and send_buffer get through, until force_close frees what is left.
THEOREM WireIsWhole == Spec => []WireWhole
  <1>1. Inv => WireWhole
    <2> SUFFICES ASSUME Inv, NEW id \in Ids, ~Lost(id), NEW k \in DOMAIN conn[id].wire
                 PROVE  LET u == conn[id].wire[k] IN
                        IF u[2] > 1 THEN k > 1 /\ conn[id].wire[k - 1] = <<u[1], u[2] - 1>>
                                    ELSE k = 1 \/ conn[id].wire[k - 1][2] = Size
      BY DEF WireWhole
    <2>1. PICK s : s = slot[HASH_ID(id)]
      OBVIOUS
    <2>2. HASH_ID(id) \in Slots
      BY HashSlot DEF Ids
    <2>3. s.id = id /\ Live(s)
      <3>1. conn[id] # NoConn
        BY DEF NoConn
      <3> QED
        BY <2>1, <3>1 DEF Inv, KnownInv, KnownOK
    <2>4. s \in Socket /\ conn[id].wire \in Seq(Units) /\ WireOK(s, conn[id].wire)
      <3>1. ~s.lost
        BY <2>1, <2>3 DEF Lost
      <3> QED
        BY <2>1, <2>2, <2>3, <3>1, LiveSlot
    <2>5. PICK w, q : w = conn[id].wire /\ q = conn[id].wire \o High(s)
      OBVIOUS
    <2>6. /\ w \in Seq(Units) /\ q \in Seq(Units) /\ Blocks(q) /\ Len(q) >= Len(w)
          /\ Len(w) \in Nat /\ Len(q) \in Nat
          /\ \A j \in 1..Len(w) : q[j] = w[j]
      <3>1. High(s) \in Seq(Units) /\ Len(High(s)) \in Nat
        BY <2>4, Lists
      <3>2. /\ q \in Seq(Units) /\ Len(q) = Len(w) + Len(High(s))
            /\ \A j \in 1..Len(w) : q[j] = w[j]
        BY <2>4, <2>5, <3>1, Concat
      <3>3. Len(w) \in Nat
        BY <2>4, <2>5, LenProperties
      <3> QED
        BY <2>4, <2>5, <3>1, <3>2, <3>3 DEF WireOK
    <2>7. k \in 1..Len(w) /\ k \in 1..Len(q)
      BY <2>5, <2>6, LenProperties
    <2>8. IF q[k][2] > 1 THEN k > 1 /\ q[k - 1] = <<q[k][1], q[k][2] - 1>>
                         ELSE k = 1 \/ q[k - 1][2] = Size
      BY <2>6, <2>7, BlocksNeighbours
    <2>9. q[k] = w[k] /\ (k = 1 \/ q[k - 1] = w[k - 1])
      <3>1. k = 1 \/ k - 1 \in 1..Len(w)
        BY <2>6, <2>7
      <3> QED
        BY <2>6, <2>7, <3>1
    <2>10. IF w[k][2] > 1 THEN k > 1 /\ w[k - 1] = <<w[k][1], w[k][2] - 1>>
                          ELSE k = 1 \/ w[k - 1][2] = Size
      <3>1. CASE k = 1
        BY <2>8, <2>9, <3>1
      <3>2. CASE k # 1
        BY <2>8, <2>9, <3>2
      <3> QED
        BY <3>1, <3>2
    <2> QED
      BY <2>5, <2>10
  <1> QED
    BY <1>1, SocketInvariant, PTL

\* The assertions of socket_server.c on the counts, the lists and the slots that
\* commands find cannot fail.
THEOREM AssertionsHold == Spec => []AssertsHold
  <1>1. Inv => AssertsHold
    <2> SUFFICES ASSUME Inv PROVE AssertsHold
      OBVIOUS
    <2>1. TypeInv /\ LockInv /\ SlotInv /\ PipeInv /\ CountInv /\ JobInv /\ LostInv
      BY DEF Inv
    <2>2. pipe \in Seq(Cmds) /\ DOMAIN pipe = 1..Len(pipe)
      BY <2>1, LenProperties DEF TypeInv
    <2>3. TypeOK
      <3>1. \A k \in DOMAIN pipe : pipe[k] \in Cmds
        BY <2>1, <2>2, PipeCmds
      <3>2. \A v \in Services :
                /\ th[v].pc \in {"idle", "write", "inc", "push"}
                /\ \A i \in Slots :
                       slot[i].lock = v <=> th[v].pc = "write" /\ HASH_ID(th[v].id) = i
        BY <2>1 DEF TypeInv, Threads, LockInv, LockOK
      <3>3. \A id \in Ids : /\ conn[id].wire \in Seq(Units) /\ conn[id].sent \subseteq Msgs
                            /\ conn[id].closer \in Services \cup {Nobody}
                            /\ conn[id].promise \subseteq Msgs
        BY <2>1 DEF TypeInv, Conns
      <3>4. \A i \in Slots : slot[i] \in Socket
        BY <2>1 DEF TypeInv
      <3>5. /\ alloc_id \in 0..MaxId /\ job \in Jobs
            /\ poll \in {"ctrl", "first", "rest", "close", "clear", "abort"}
            /\ known \in [Ids -> {"none", "accepted", "open"}] /\ cut \subseteq Msgs
        BY <2>1 DEF TypeInv, Polls
      <3>6. \A e \in ev : e \in [from : Slots \cup {Pipe, Listen},
                                 what : SUBSET {"read", "write"}]
        BY <2>1 DEF TypeInv, Events
      <3> QED
        BY <3>1, <3>2, <3>3, <3>4, <3>5, <3>6 DEF TypeOK
    <2>4. ASSUME NEW i \in Slots
          PROVE  /\ slot[i].tcp => slot[i].sending >= Underway(slot[i].id)
                 /\ slot[i].type \in {"INVALID", "RESERVE"} => send_buffer_empty(slot[i])
                 /\ slot[i].low # <<>> => Head(slot[i].low)[2] = 1
      <3>1. SlotOK(i, slot[i], alloc_id) /\ slot[i] \in Socket
        BY <2>1 DEF SlotInv, TypeInv
      <3>2. Underway(slot[i].id) = Messages(pipe, th, slot[i].id)
        BY <2>2 DEF Underway, Messages, InPipe, InHand, MsgCmds
      <3>3. slot[i].tcp => slot[i].sending >= Underway(slot[i].id)
        BY <2>1, <3>2 DEF CountInv
      <3>4. ASSUME slot[i].low # <<>> PROVE Head(slot[i].low)[2] = 1
        <4>1. PICK q : q = slot[i].low
          OBVIOUS
        <4>2. q \in Seq(Units)
          BY <3>1, <4>1, Lists
        <4>3. Live(slot[i])
          BY <3>1, <3>4 DEF SlotOK
        <4>9. ~slot[i].lost
          <5>1. SUFFICES ASSUME slot[i].lost PROVE FALSE
            OBVIOUS
          <5>2. poll = "close" /\ slot[i].id = job.id
            BY <2>1, <4>3, <5>1 DEF LostInv
          <5>3. HASH_ID(slot[i].id) = i
            BY <4>3, LiveSlot
          <5> QED
            BY <2>1, <3>4, <5>2, <5>3 DEF JobInv, JobOK
        <4>4. Blocks(q)
          BY <4>1, <4>3, <4>9, LiveSlot DEF WireOK
        <4>5. Len(q) \in Nat \ {0} /\ Head(q) = q[1]
          BY <3>4, <4>1, <4>2, EmptySeq
        <4>6. 1 \in 1..Len(q)
          BY <4>5
        <4>7. q[1][2] \in 1..Size /\ q[1][2] <= 1
          BY <4>2, <4>4, <4>6, BlockAt
        <4>8. q[1][2] = 1
          BY <4>7, SocketAssumption
        <4> QED
          BY <4>1, <4>5, <4>8
      <3> QED
        BY <3>1, <3>3, <3>4 DEF SlotOK, Live, send_buffer_empty
    <2>5. ASSUME NEW k \in DOMAIN pipe, pipe[k].cmd = "O"
          PROVE  /\ slot[HASH_ID(pipe[k].id)].type = "RESERVE"
                 /\ slot[HASH_ID(pipe[k].id)].id = pipe[k].id
      BY <2>1, <2>2, <2>5 DEF PipeInv, CmdOK
    <2> QED
      BY <2>3, <2>4, <2>5 DEF AssertsHold
  <1> QED
    BY <1>1, SocketInvariant, PTL

\* A connection that is closed because nothing is left to be sent has on its wire
\* all that the service that closed it had sent before.
THEOREM ClosesDrained == Spec => []Drained
  <1>1. Inv => Drained
    BY DEF Inv, Drained
  <1> QED
    BY <1>1, SocketInvariant, PTL

-----------------------------------------------------------------------------
(* The order of the messages.  A message goes from the hand of its service,  *)
(* through the pipe, into the line of units that the kernel has taken or is  *)
(* to take; a direct write puts it into the line at once.                    *)

\* The units of the connection with the wire w and the slot s, in the order in
\* which the kernel takes them
Line(s, w) == w \o Pending(s)

InLine(q) == \A k \in 1..Len(q) : \A j \in 1..k - 1 : Precedes(q[j], q[k])

\* The messages of the line q were sent, and are in order without a gap but for the
\* units F, which may have been freed.
LineOK(q, F, sent) ==
    /\ InLine(q)
    /\ \A u \in Range(q) : u[1] \in sent
    /\ \A u \in Range(q) : \A m \in sent :
           Alike(m, u[1]) /\ m.n < u[1].n => <<m, Size>> \in Range(q) \cup F

\* The messages for id in the pipe p were sent after those of the line, and are
\* in order.
PipeOK(q, sent, p, id) ==
    \A k \in InPipe(p, id) :
        /\ p[k].msg \in sent
        /\ \A u \in Range(q) : Alike(u[1], p[k].msg) => u[1].n < p[k].msg.n
        /\ \A j \in InPipe(p, id) :
               j < k /\ Alike(p[j].msg, p[k].msg) => p[j].msg.n < p[k].msg.n

\* What the service of t has in hand was sent after all that.
HandOK(q, sent, p, t, id) ==
    \A m : Held(t, id, m) =>
        /\ m \in sent
        /\ \A u \in Range(q) : u[1].from = m.from => u[1].n < m.n
        /\ \A k \in InPipe(p, id) : p[k].msg.from = m.from => p[k].msg.n < m.n

\* A service that writes directly has nothing in the pipe or in the lists, whose
\* units are pend: all that it sent before is on the wire.
DirectOK(q, F, pend, sent, p, t, v, id) ==
    t.pc = "write" /\ t.id = id =>
        /\ \A u \in pend : u[1].from # v
        /\ \A k \in InPipe(p, id) : p[k].msg.from # v
        /\ \A m \in sent : m.from = v /\ m.n < t.msg.n => <<m, Size>> \in Range(q) \cup F

\* What was sent is in the line, in the pipe or in the hand of its service, until
\* the socket is half closed, or was freed.
KeptOK(type, q, F, sent, p, T, id) ==
    type # "HALFCLOSE" =>
        \A m \in sent :
            \/ <<m, Size>> \in Range(q) \cup F
            \/ \E k \in InPipe(p, id) : p[k].msg = m
            \/ Held(T[m.from], id, m)

OrderAt(id, type, q, F, pend, low, sent, p, T) ==
    /\ LineOK(q, F, sent)
    /\ \A u \in low : u[1].low = TRUE
    /\ PipeOK(q, sent, p, id)
    /\ \A v \in Services :
           HandOK(q, sent, p, T[v], id) /\ DirectOK(q, F, pend, sent, p, T[v], v, id)
    /\ \A m \in sent : m.n <= T[m.from].n
    /\ KeptOK(type, q, F, sent, p, T, id)

\* The units that the force_close of s may have freed
Gone(s) == IF s.lost THEN Units ELSE {}

\* The messages of the slot s with the connection c are in order.
OrderOK(s, c, p, T) ==
    OrderAt(s.id, s.type, Line(s, c.wire), Gone(s), Range(Pending(s)), Range(s.low), c.sent, p, T)

OrderInv == \A i \in Slots : Live(slot[i]) => OrderOK(slot[i], conn[slot[i].id], pipe, th)

-----------------------------------------------------------------------------
\* The messages for id in the pipe p2 are in p, in the same order.
PipeLess(p, p2, id) ==
    \E d \in {0, 1} : \A k \in InPipe(p2, id) : k + d \in InPipe(p, id) /\ p[k + d].msg = p2[k].msg

PipeMore(p, p2, id) ==
    \A k \in InPipe(p, id) : \E j \in InPipe(p2, id) : p2[j].msg = p[k].msg

\* The services have the same messages for id in hand.
SameHands(T, T2, id) ==
    \A v \in Services :
        /\ T[v].n <= T2[v].n
        /\ \A m : Held(T2[v], id, m) <=> Held(T[v], id, m)
        /\ T2[v].pc = "write" /\ T2[v].id = id =>
               T[v].pc = "write" /\ T[v].id = id /\ T2[v].msg = T[v].msg

\* The order is kept while the line stays.
LEMMA CarryOrder ==
    ASSUME NEW id, NEW type, NEW type2, NEW q, NEW F, NEW pend, NEW pend2, NEW low, NEW low2,
           NEW sent, sent \subseteq Msgs, NEW p, NEW p2,
           NEW T \in [Services -> Threads], NEW T2 \in [Services -> Threads],
           OrderAt(id, type, q, F, pend, low, sent, p, T),
           pend2 \subseteq pend, low2 \subseteq low,
           PipeLess(p, p2, id), SameHands(T, T2, id),
           \/ type2 = "HALFCLOSE" \/ sent = {}
           \/ type # "HALFCLOSE" /\ PipeMore(p, p2, id)
    PROVE  OrderAt(id, type2, q, F, pend2, low2, sent, p2, T2)
  <1>1. LineOK(q, F, sent) /\ \A u \in low2 : u[1].low = TRUE
    BY DEF OrderAt
  <1>2. PICK d \in {0, 1} :
            \A k \in InPipe(p2, id) : k + d \in InPipe(p, id) /\ p[k + d].msg = p2[k].msg
    BY DEF PipeLess
  <1>3. PipeOK(q, sent, p2, id)
    <2>1. PipeOK(q, sent, p, id)
      BY DEF OrderAt
    <2>2. ASSUME NEW k \in InPipe(p2, id)
          PROVE  /\ p2[k].msg \in sent
                 /\ \A u \in Range(q) : Alike(u[1], p2[k].msg) => u[1].n < p2[k].msg.n
      BY <1>2, <2>1 DEF PipeOK
    <2>3. ASSUME NEW k \in InPipe(p2, id), NEW j \in InPipe(p2, id), j < k,
                 Alike(p2[j].msg, p2[k].msg)
          PROVE  p2[j].msg.n < p2[k].msg.n
      <3>1. j + d < k + d
        BY <2>3 DEF InPipe
      <3> QED
        BY <3>1, <2>3, <1>2, <2>1 DEF PipeOK
    <2> QED
      BY <2>2, <2>3 DEF PipeOK
  <1>4. ASSUME NEW v \in Services
        PROVE  HandOK(q, sent, p2, T2[v], id) /\ DirectOK(q, F, pend2, sent, p2, T2[v], v, id)
    <2>1. HandOK(q, sent, p, T[v], id) /\ DirectOK(q, F, pend, sent, p, T[v], v, id)
      BY DEF OrderAt
    <2>2. \A m : Held(T2[v], id, m) => Held(T[v], id, m)
      BY DEF SameHands
    <2>3. HandOK(q, sent, p2, T2[v], id)
      BY <2>1, <2>2, <1>2 DEF HandOK
    <2>4. DirectOK(q, F, pend2, sent, p2, T2[v], v, id)
      BY <2>1, <1>2 DEF DirectOK, SameHands
    <2> QED
      BY <2>3, <2>4
  <1>5. ASSUME NEW m \in sent PROVE m.n <= T2[m.from].n
    <2>1. m \in Msgs /\ m.from \in Services /\ m.n \in Nat
      BY DEF Msgs
    <2>2. T[m.from].n \in Nat /\ T2[m.from].n \in Nat /\ T[m.from].n <= T2[m.from].n
      BY <2>1 DEF Threads, SameHands
    <2>3. m.n <= T[m.from].n
      BY DEF OrderAt
    <2> QED
      BY <2>1, <2>2, <2>3
  <1>6. KeptOK(type2, q, F, sent, p2, T2, id)
    <2>1. ASSUME type # "HALFCLOSE", PipeMore(p, p2, id), NEW m \in sent
          PROVE  \/ <<m, Size>> \in Range(q) \cup F
                 \/ \E k \in InPipe(p2, id) : p2[k].msg = m
                 \/ Held(T2[m.from], id, m)
      <3>1. m.from \in Services
        BY DEF Msgs
      <3>2. \/ <<m, Size>> \in Range(q) \cup F
            \/ \E k \in InPipe(p, id) : p[k].msg = m
            \/ Held(T[m.from], id, m)
        BY <2>1 DEF OrderAt, KeptOK
      <3> QED
        BY <3>1, <3>2, <2>1 DEF PipeMore, SameHands
    <2> QED
      BY <2>1 DEF KeptOK
  <1> QED
    BY <1>1, <1>3, <1>4, <1>5, <1>6 DEF OrderAt

\* Nothing was sent to a connection that begins.
LEMMA FreshOrder ==
    ASSUME NEW id, NEW type, NEW F, NEW p, InPipe(p, id) = {}, NEW T,
           \A v \in Services : T[v].pc = "idle" \/ T[v].id # id
    PROVE  OrderAt(id, type, <<>>, F, Range(<<>>), Range(<<>>), {}, p, T)
  <1>1. ASSUME NEW q, q = <<>> PROVE Len(q) = 0 /\ Range(q) = {}
    BY <1>1 DEF Range
  <1>2. Range(<<>>) = {} /\ Len(<<>>) = 0
    BY <1>1
  <1>3. LineOK(<<>>, F, {})
    BY <1>2 DEF LineOK, InLine
  <1>4. PipeOK(<<>>, {}, p, id) /\ KeptOK(type, <<>>, F, {}, p, T, id)
    BY DEF PipeOK, KeptOK
  <1>5. ASSUME NEW v \in Services
        PROVE  HandOK(<<>>, {}, p, T[v], id) /\ DirectOK(<<>>, F, {}, {}, p, T[v], v, id)
    BY DEF HandOK, DirectOK, Held
  <1> QED
    BY <1>2, <1>3, <1>4, <1>5 DEF OrderAt

\* Two lines in order, one behind the other
LEMMA LineConcat ==
    ASSUME NEW a \in Seq(Units), NEW b \in Seq(Units)
    PROVE  InLine(a \o b) <=> /\ InLine(a) /\ InLine(b)
                              /\ \A u \in Range(a) : \A w \in Range(b) : Precedes(u, w)
  <1>1. PICK q \in Seq(Units) : q = a \o b
    BY Concat
  <1>2. /\ Len(q) = Len(a) + Len(b) /\ Len(a) \in Nat /\ Len(b) \in Nat
        /\ \A k \in 1..Len(a) : q[k] = a[k]
        /\ \A k \in 1..Len(b) : q[Len(a) + k] = b[k]
        /\ \A k \in Len(a) + 1..Len(a) + Len(b) : q[k] = b[k - Len(a)]
    BY <1>1, Concat, LenProperties
  <1>3. DOMAIN a = 1..Len(a) /\ DOMAIN b = 1..Len(b)
    BY LenProperties
  <1>4. ASSUME InLine(q)
        PROVE  /\ InLine(a) /\ InLine(b)
               /\ \A u \in Range(a) : \A w \in Range(b) : Precedes(u, w)
    <2>1. InLine(a)
      <3>1. ASSUME NEW k \in 1..Len(a), NEW j \in 1..k - 1 PROVE Precedes(a[j], a[k])
        <4>1. /\ k \in 1..Len(q) /\ j \in 1..k - 1 /\ j \in 1..Len(a)
          BY <1>2, <3>1
        <4>2. Precedes(q[j], q[k]) /\ q[j] = a[j] /\ q[k] = a[k]
          BY <4>1, <1>2, <1>4, <3>1 DEF InLine
        <4> QED
          BY <4>2
      <3> QED
        BY <3>1 DEF InLine
    <2>2. InLine(b)
      <3>1. ASSUME NEW k \in 1..Len(b), NEW j \in 1..k - 1 PROVE Precedes(b[j], b[k])
        <4>1. /\ Len(a) + k \in 1..Len(q) /\ Len(a) + j \in 1..Len(a) + k - 1 /\ j \in 1..Len(b)
          BY <1>2, <3>1
        <4>2. Precedes(q[Len(a) + j], q[Len(a) + k])
          BY <4>1, <1>4 DEF InLine
        <4>3. q[Len(a) + j] = b[j] /\ q[Len(a) + k] = b[k]
          BY <4>1, <1>2, <3>1
        <4> QED
          BY <4>2, <4>3
      <3> QED
        BY <3>1 DEF InLine
    <2>3. ASSUME NEW u \in Range(a), NEW w \in Range(b) PROVE Precedes(u, w)
      <3>1. PICK j \in 1..Len(a) : u = a[j]
        BY <1>3, <2>3 DEF Range
      <3>2. PICK k \in 1..Len(b) : w = b[k]
        BY <1>3, <2>3 DEF Range
      <3>3. Len(a) + k \in 1..Len(q) /\ j \in 1..Len(a) + k - 1
        BY <1>2
      <3>4. Precedes(q[j], q[Len(a) + k])
        BY <3>3, <1>4 DEF InLine
      <3>5. q[j] = u /\ q[Len(a) + k] = w
        BY <3>1, <3>2, <1>2
      <3> QED
        BY <3>4, <3>5
    <2> QED
      BY <2>1, <2>2, <2>3
  <1>5. ASSUME InLine(a), InLine(b), \A u \in Range(a) : \A w \in Range(b) : Precedes(u, w)
        PROVE  InLine(q)
    <2>1. ASSUME NEW k \in 1..Len(q), NEW j \in 1..k - 1 PROVE Precedes(q[j], q[k])
      <3>1. k \in Nat /\ j \in Nat /\ j < k /\ j >= 1 /\ k <= Len(a) + Len(b)
        BY <1>2, <2>1
      <3>2. CASE k <= Len(a)
        <4>1. k \in 1..Len(a) /\ j \in 1..Len(a)
          BY <3>1, <3>2, <1>2
        <4>2. q[k] = a[k] /\ q[j] = a[j] /\ Precedes(a[j], a[k])
          BY <4>1, <1>2, <1>5, <2>1 DEF InLine
        <4> QED
          BY <4>2
      <3>3. CASE j > Len(a)
        <4>1. /\ k - Len(a) \in 1..Len(b) /\ j - Len(a) \in 1..(k - Len(a)) - 1
              /\ k \in Len(a) + 1..Len(a) + Len(b) /\ j \in Len(a) + 1..Len(a) + Len(b)
          BY <3>1, <3>3, <1>2
        <4>2. Precedes(b[j - Len(a)], b[k - Len(a)])
          BY <4>1, <1>5 DEF InLine
        <4>3. q[k] = b[k - Len(a)] /\ q[j] = b[j - Len(a)]
          BY <4>1, <1>2
        <4> QED
          BY <4>2, <4>3
      <3>4. CASE j <= Len(a) /\ k > Len(a)
        <4>1. /\ j \in 1..Len(a) /\ k - Len(a) \in 1..Len(b)
              /\ k \in Len(a) + 1..Len(a) + Len(b)
          BY <3>1, <3>4, <1>2
        <4>2. a[j] \in Range(a) /\ b[k - Len(a)] \in Range(b)
          BY <4>1, <1>3 DEF Range
        <4>3. q[j] = a[j] /\ q[k] = b[k - Len(a)]
          BY <4>1, <1>2
        <4> QED
          BY <4>2, <4>3, <1>5
      <3> QED
        BY <3>1, <3>2, <3>3, <3>4, <1>2
    <2> QED
      BY <2>1 DEF InLine
  <1> QED
    BY <1>1, <1>4, <1>5

\* The units of one message are in order.
LEMMA LineOne ==
    ASSUME NEW m \in Msgs
    PROVE  /\ InLine(UnitsOf(m)) /\ \A u \in Range(UnitsOf(m)) : u[1] = m
           /\ UnitsOf(m) \in Seq(Units) /\ <<m, Size>> \in Range(UnitsOf(m))
  <1>1. PICK q \in Seq(Units) : q = UnitsOf(m)
    BY UnitsOfMsg
  <1>2. Len(q) = Size /\ Size \in Nat /\ \A j \in 1..Size : q[j] = <<m, j>>
    BY <1>1, UnitsOfMsg, SocketAssumption
  <1>3. \A j \in 1..Size : q[j][1] = m /\ q[j][2] = j
    BY <1>2
  <1>4. ASSUME NEW k \in 1..Len(q), NEW j \in 1..k - 1 PROVE Precedes(q[j], q[k])
    <2>1. k \in 1..Size /\ j \in 1..Size /\ j < k
      BY <1>2, <1>4
    <2>2. q[j][1] = m /\ q[j][2] = j /\ q[k][1] = m /\ q[k][2] = k
      BY <2>1, <1>3
    <2> QED
      BY <2>1, <2>2 DEF Precedes
  <1>5. InLine(q)
    BY <1>4 DEF InLine
  <1>6. DOMAIN q = 1..Size
    BY <1>2, LenProperties
  <1>7. \A u \in Range(q) : u[1] = m
    BY <1>3, <1>6 DEF Range
  <1> QED
    BY <1>1, <1>5, <1>7, UnitsOfMsg

\* A message joins the line behind all that are like it, which must be there.
LEMMA JoinLine ==
    ASSUME NEW a \in Seq(Units), NEW b \in Seq(Units), NEW m \in Msgs,
           NEW F, NEW sent, sent \subseteq Msgs, m \in sent, LineOK(a \o b, F, sent),
           \A u \in Range(a) : Alike(u[1], m) => u[1].n < m.n,
           \A u \in Range(b) : ~Alike(u[1], m),
           \A o \in sent : Alike(o, m) /\ o.n < m.n => <<o, Size>> \in Range(a \o b) \cup F
    PROVE  LET q2 == a \o (UnitsOf(m) \o b) IN
           /\ LineOK(q2, F, sent) /\ Range(a \o b) \subseteq Range(q2) /\ <<m, Size>> \in Range(q2)
           /\ \A u \in Range(q2) : u \in Range(a \o b) \/ u[1] = m
  <1>1. PICK q : q = a \o b
    OBVIOUS
  <1>2. PICK q2 : q2 = a \o (UnitsOf(m) \o b)
    OBVIOUS
  <1>3. PICK x \in Seq(Units) : x = UnitsOf(m)
    BY UnitsOfMsg
  <1>4. InLine(x) /\ (\A u \in Range(x) : u[1] = m) /\ <<m, Size>> \in Range(x)
    BY <1>3, LineOne
  <1>5. PICK y \in Seq(Units) : y = x \o b
    BY Concat
  <1>6. q2 = a \o y
    BY <1>2, <1>3, <1>5
  <1>7. /\ Range(q) = Range(a) \cup Range(b) /\ Range(y) = Range(x) \cup Range(b)
        /\ Range(q2) = Range(a) \cup Range(y)
    BY <1>1, <1>5, <1>6, RangeConcat
  <1>8. /\ InLine(a) /\ InLine(b)
        /\ \A u \in Range(a) : \A w \in Range(b) : Precedes(u, w)
    BY LineConcat DEF LineOK
  <1>9. \A u \in Range(x) : \A w \in Range(b) : Precedes(u, w)
    BY <1>4 DEF Precedes, Alike
  <1>10. \A u \in Range(a) : \A w \in Range(x) : Precedes(u, w)
    BY <1>4 DEF Precedes
  <1>11. InLine(y)
    BY <1>4, <1>5, <1>8, <1>9, LineConcat
  <1>12. InLine(q2)
    BY <1>6, <1>7, <1>8, <1>10, <1>11, LineConcat
  <1>13. \A u \in Range(q2) : u \in Range(q) \/ u[1] = m
    BY <1>4, <1>7
  <1>14. \A u \in Range(q2) : u[1] \in sent
    BY <1>1, <1>13 DEF LineOK
  <1>15. \A u \in Range(q2) : \A o \in sent :
             Alike(o, u[1]) /\ o.n < u[1].n => <<o, Size>> \in Range(q) \cup F
    BY <1>1, <1>13 DEF LineOK
  <1> QED
    BY <1>1, <1>2, <1>4, <1>7, <1>12, <1>13, <1>14, <1>15 DEF LineOK

\* A service begins to send m; it writes directly only if nothing is underway.
LEMMA SendOrder ==
    ASSUME NEW id, NEW type, NEW q, NEW F, NEW pend, NEW low,
           NEW sent, sent \subseteq Msgs, NEW p,
           NEW T \in [Services -> Threads], NEW v \in Services, NEW u \in Threads,
           NEW T2, T2 = [T EXCEPT ![v] = u], NEW m \in Msgs,
           OrderAt(id, type, q, F, pend, low, sent, p, T),
           T[v].pc = "idle", m.from = v, m.n = T[v].n + 1,
           u.pc # "idle", u.n = m.n, u.id = id, u.cmd # "W", u.msg = m,
           u.pc = "write" => pend = {} /\ InPipe(p, id) = {} /\ type # "HALFCLOSE"
    PROVE  OrderAt(id, type, q, F, pend, low, sent \cup {m}, p, T2)
  <1>1. PICK sent2 : sent2 = sent \cup {m}
    OBVIOUS
  <1>2. T2[v] = u /\ \A y \in Services : y # v => T2[y] = T[y]
    OBVIOUS
  <1>3. /\ LineOK(q, F, sent) /\ PipeOK(q, sent, p, id) /\ KeptOK(type, q, F, sent, p, T, id)
        /\ \A o \in sent : o.n <= T[o.from].n
        /\ \A y \in Services : HandOK(q, sent, p, T[y], id) /\ DirectOK(q, F, pend, sent, p, T[y], y, id)
    BY DEF OrderAt
  <1>4. ASSUME NEW o \in sent, o.from = v PROVE o.n \in Nat /\ m.n \in Nat /\ o.n < m.n
    <2>1. o.n \in Nat /\ T[v].n \in Nat /\ m.n = T[v].n + 1 /\ o.n <= T[v].n
      BY <1>3, <1>4 DEF Msgs, Threads
    <2> QED
      BY <2>1
  <1>5. LineOK(q, F, sent2)
    <2>1. ASSUME NEW w \in Range(q), Alike(m, w[1]), m.n < w[1].n PROVE FALSE
      <3>1. PICK o \in sent : o = w[1]
        BY <1>3 DEF LineOK
      <3>2. o.from = v /\ m.n < o.n
        BY <3>1, <2>1 DEF Alike
      <3> QED
        BY <3>2, <1>4
    <2> QED
      BY <1>1, <1>3, <2>1 DEF LineOK
  <1>6. PipeOK(q, sent2, p, id)
    BY <1>1, <1>3 DEF PipeOK
  <1>7. ASSUME NEW y \in Services PROVE HandOK(q, sent2, p, T2[y], id)
    <2>1. CASE y # v
      BY <2>1, <1>1, <1>2, <1>3 DEF HandOK
    <2>2. CASE y = v
      <3>1. \A w \in Range(q) : w[1].from = v => w[1].n < m.n
        BY <1>3, <1>4 DEF LineOK
      <3>2. \A k \in InPipe(p, id) : p[k].msg.from = v => p[k].msg.n < m.n
        BY <1>3, <1>4 DEF PipeOK
      <3>3. \A o : Held(u, id, o) => o = m
        BY DEF Held
      <3> QED
        BY <2>2, <3>1, <3>2, <3>3, <1>1, <1>2 DEF HandOK
    <2> QED
      BY <2>1, <2>2
  <1>8. ASSUME NEW y \in Services PROVE DirectOK(q, F, pend, sent2, p, T2[y], y, id)
    <2>1. CASE y # v
      BY <2>1, <1>1, <1>2, <1>3 DEF DirectOK
    <2>2. CASE y = v /\ u.pc = "write"
      <3>1. ASSUME NEW o \in sent2, o.from = v, o.n < m.n PROVE <<o, Size>> \in Range(q) \cup F
        <4>1. m.n \in Nat
          BY DEF Msgs
        <4>2. o \in sent
          BY <1>1, <3>1, <4>1
        <4>3. ~Held(T[v], id, o)
          BY DEF Held
        <4> QED
          BY <4>2, <4>3, <2>2, <3>1, <1>3 DEF KeptOK
      <3> QED
        BY <2>2, <3>1, <1>2 DEF DirectOK
    <2>3. CASE y = v /\ u.pc # "write"
      BY <2>3, <1>2 DEF DirectOK
    <2> QED
      BY <2>1, <2>2, <2>3
  <1>9. ASSUME NEW o \in sent2 PROVE o.n <= T2[o.from].n
    <2>1. CASE o = m
      BY <2>1, <1>2 DEF Msgs
    <2>2. CASE o \in sent /\ o.from # v
      BY <2>2, <1>2, <1>3 DEF Msgs
    <2>3. CASE o \in sent /\ o.from = v
      BY <2>3, <1>2, <1>4
    <2> QED
      BY <2>1, <2>2, <2>3, <1>1
  <1>10. KeptOK(type, q, F, sent2, p, T2, id)
    <2>1. Held(T2[v], id, m)
      BY <1>2 DEF Held
    <2>2. ASSUME NEW o \in sent, Held(T[o.from], id, o) PROVE Held(T2[o.from], id, o)
      <3>1. o.from \in Services /\ o.from # v
        BY <2>2 DEF Held, Msgs
      <3> QED
        BY <3>1, <2>2, <1>2
    <2> QED
      BY <2>1, <2>2, <1>1, <1>3 DEF KeptOK
  <1>11. \A w \in low : w[1].low = TRUE
    BY DEF OrderAt
  <1>12. OrderAt(id, type, q, F, pend, low, sent2, p, T2)
    BY <1>5, <1>6, <1>7, <1>8, <1>9, <1>10, <1>11 DEF OrderAt
  <1> QED
    BY <1>1, <1>12

\* The message m joins the line q, which is a and then b, between the two.
Joins(a, b, m, q, q2) == q = a \o b /\ q2 = a \o (UnitsOf(m) \o b)

\* The service v, which writes m to id directly, goes on as u.
Wrote(T, T2, v, u, id, m) ==
    /\ T[v].pc = "write" /\ T[v].id = id /\ T[v].cmd = "D" /\ T[v].msg = m
    /\ u.n = T[v].n /\ (u.pc = "idle" \/ (u.pc = "inc" /\ u.cmd = "W"))
    /\ T2 = [T EXCEPT ![v] = u]

\* The message of a direct write joins the line behind the wire a.
LEMMA DirectOrder ==
    ASSUME NEW id, NEW type, NEW a \in Seq(Units), NEW b \in Seq(Units), NEW q,
           NEW F, NEW low, NEW sent, sent \subseteq Msgs, NEW p,
           NEW T \in [Services -> Threads], NEW v \in Services, NEW u \in Threads,
           NEW T2, NEW m \in Msgs, Wrote(T, T2, v, u, id, m),
           OrderAt(id, type, q, F, Range(b), low, sent, p, T),
           \A y \in Services : T[y].pc # "idle" => T[y].msg.from = y,
           NEW q2, Joins(a, b, m, q, q2), NEW pend2,
           \A w \in pend2 : w \in Range(b) \/ w[1] = m
    PROVE  OrderAt(id, type, q2, F, pend2, low, sent, p, T2)
  <1> USE DEF Joins, Wrote
  <1>1. T2[v] = u /\ \A y \in Services : y # v => T2[y] = T[y]
    OBVIOUS
  <1>2. /\ LineOK(q, F, sent) /\ PipeOK(q, sent, p, id) /\ KeptOK(type, q, F, sent, p, T, id)
        /\ \A o \in sent : o.n <= T[o.from].n
        /\ \A y \in Services :
               HandOK(q, sent, p, T[y], id) /\ DirectOK(q, F, Range(b), sent, p, T[y], y, id)
    BY DEF OrderAt
  <1>3. m.from = v /\ Held(T[v], id, m)
    BY DEF Held
  <1>4. /\ m \in sent /\ \A w \in Range(q) : w[1].from = v => w[1].n < m.n
    BY <1>2, <1>3 DEF HandOK
  <1>5. /\ \A w \in Range(b) : w[1].from # v
        /\ \A k \in InPipe(p, id) : p[k].msg.from # v
        /\ \A o \in sent : o.from = v /\ o.n < m.n => <<o, Size>> \in Range(q) \cup F
    BY <1>2 DEF DirectOK
  <1>6. Range(q) = Range(a) \cup Range(b)
    BY RangeConcat
  <1>7. /\ LineOK(q2, F, sent) /\ Range(q) \subseteq Range(q2) /\ <<m, Size>> \in Range(q2)
        /\ \A w \in Range(q2) : w \in Range(q) \/ w[1] = m
    <2>1. \A w \in Range(a) : Alike(w[1], m) => w[1].n < m.n
      BY <1>3, <1>4, <1>6 DEF Alike
    <2>2. \A w \in Range(b) : ~Alike(w[1], m)
      BY <1>3, <1>5 DEF Alike
    <2>3. \A o \in sent : Alike(o, m) /\ o.n < m.n => <<o, Size>> \in Range(q) \cup F
      BY <1>3, <1>5 DEF Alike
    <2> QED
      BY <1>2, <1>4, <2>1, <2>2, <2>3, JoinLine
  <1>8. PipeOK(q2, sent, p, id)
    <2>1. \A k \in InPipe(p, id) : ~Alike(m, p[k].msg)
      BY <1>3, <1>5 DEF Alike
    <2> QED
      BY <2>1, <1>2, <1>7 DEF PipeOK
  <1>9. ASSUME NEW y \in Services
        PROVE  HandOK(q2, sent, p, T2[y], id) /\ DirectOK(q2, F, pend2, sent, p, T2[y], y, id)
    <2>1. CASE y # v
      <3>1. T2[y] = T[y]
        BY <2>1, <1>1
      <3>2. \A o : Held(T[y], id, o) => o.from = y
        BY DEF Held
      <3>3. HandOK(q2, sent, p, T[y], id)
        BY <3>2, <2>1, <1>2, <1>3, <1>7 DEF HandOK
      <3>4. DirectOK(q2, F, pend2, sent, p, T[y], y, id)
        BY <2>1, <1>2, <1>3, <1>7 DEF DirectOK
      <3> QED
        BY <3>1, <3>3, <3>4
    <2>2. CASE y = v
      BY <2>2, <1>1 DEF HandOK, DirectOK, Held
    <2> QED
      BY <2>1, <2>2
  <1>10. ASSUME NEW o \in sent PROVE o.n <= T2[o.from].n
    BY <1>1, <1>2 DEF Msgs
  <1>11. KeptOK(type, q2, F, sent, p, T2, id)
    <2>1. ASSUME NEW o \in sent, Held(T[o.from], id, o)
          PROVE  Held(T2[o.from], id, o) \/ <<o, Size>> \in Range(q2)
      <3>1. o.from \in Services
        BY DEF Msgs
      <3>2. CASE o.from # v
        BY <3>1, <3>2, <2>1, <1>1
      <3>3. CASE o.from = v
        <4>1. o = m
          BY <3>3, <2>1 DEF Held
        <4> QED
          BY <4>1, <1>7
      <3> QED
        BY <3>2, <3>3
    <2> QED
      BY <2>1, <1>2, <1>7 DEF KeptOK
  <1>12. \A w \in low : w[1].low = TRUE
    BY DEF OrderAt
  <1> QED
    BY <1>7, <1>8, <1>9, <1>10, <1>11, <1>12 DEF OrderAt

\* The message of a service goes to the pipe.
LEMMA PushOrder ==
    ASSUME NEW id, NEW type, NEW q, NEW F, NEW pend, NEW low, NEW sent, sent \subseteq Msgs,
           NEW p \in Seq(Cmds), NEW k \in Cmds, NEW p2, p2 = Append(p, k),
           NEW T \in [Services -> Threads], NEW v \in Services, NEW u \in Threads,
           NEW T2, T2 = [T EXCEPT ![v] = u], NEW m \in Msgs,
           OrderAt(id, type, q, F, pend, low, sent, p, T),
           \A y \in Services : T[y].pc # "idle" => T[y].msg.from = y,
           Held(T[v], id, m), u.n = T[v].n, u.pc = "idle",
           k.id = id, k.cmd \in MsgCmds, k.msg = m
    PROVE  OrderAt(id, type, q, F, pend, low, sent, p2, T2)
  <1>1. T2[v] = u /\ \A y \in Services : y # v => T2[y] = T[y]
    OBVIOUS
  <1>2. /\ LineOK(q, F, sent) /\ PipeOK(q, sent, p, id) /\ KeptOK(type, q, F, sent, p, T, id)
        /\ \A o \in sent : o.n <= T[o.from].n
        /\ \A y \in Services :
               HandOK(q, sent, p, T[y], id) /\ DirectOK(q, F, pend, sent, p, T[y], y, id)
    BY DEF OrderAt
  <1>3. m.from = v
    BY DEF Held
  <1>4. /\ m \in sent /\ \A w \in Range(q) : w[1].from = v => w[1].n < m.n
        /\ \A j \in InPipe(p, id) : p[j].msg.from = v => p[j].msg.n < m.n
    BY <1>2, <1>3 DEF HandOK
  <1>5. /\ Len(p2) = Len(p) + 1 /\ Len(p) \in Nat
        /\ \A j \in 1..Len(p) : p2[j] = p[j]
        /\ \A j \in 1..Len(p2) : j \notin 1..Len(p) => j = Len(p) + 1 /\ p2[j] = k
    BY PipeAppend
  <1>6. /\ \A j \in InPipe(p, id) : j \in InPipe(p2, id) /\ p2[j] = p[j] /\ j \in Int /\ j <= Len(p)
        /\ \A j \in InPipe(p2, id) :
               j \in InPipe(p, id) \/ (j = Len(p) + 1 /\ p2[j].msg = m)
    BY <1>5 DEF InPipe
  <1>7. Len(p) + 1 \in InPipe(p2, id) /\ p2[Len(p) + 1].msg = m
    BY <1>5 DEF InPipe
  <1>8. PipeOK(q, sent, p2, id)
    <2>1. ASSUME NEW j \in InPipe(p2, id)
          PROVE  /\ p2[j].msg \in sent
                 /\ \A w \in Range(q) : Alike(w[1], p2[j].msg) => w[1].n < p2[j].msg.n
      BY <1>2, <1>3, <1>4, <1>6 DEF PipeOK, Alike
    <2>2. ASSUME NEW j \in InPipe(p2, id), NEW i \in InPipe(p2, id), i < j,
                 Alike(p2[i].msg, p2[j].msg)
          PROVE  p2[i].msg.n < p2[j].msg.n
      <3>1. CASE j \in InPipe(p, id)
        <4>1. i \in InPipe(p, id)
          BY <3>1, <2>2, <1>5, <1>6
        <4> QED
          BY <4>1, <3>1, <2>2, <1>2, <1>6 DEF PipeOK
      <3>2. CASE j = Len(p) + 1 /\ p2[j].msg = m
        <4>1. i \in InPipe(p, id) /\ p2[i] = p[i]
          <5>1. i \in Int
            BY DEF InPipe
          <5>2. i # Len(p) + 1
            BY <5>1, <3>2, <2>2, <1>5
          <5> QED
            BY <5>2, <1>6
        <4>2. p[i].msg.from = v
          BY <4>1, <3>2, <2>2, <1>3 DEF Alike
        <4> QED
          BY <4>1, <4>2, <3>2, <1>4
      <3> QED
        BY <3>1, <3>2, <1>6
    <2> QED
      BY <2>1, <2>2 DEF PipeOK
  <1>9. ASSUME NEW y \in Services
        PROVE  HandOK(q, sent, p2, T2[y], id) /\ DirectOK(q, F, pend, sent, p2, T2[y], y, id)
    <2>1. CASE y # v
      <3>1. T2[y] = T[y]
        BY <2>1, <1>1
      <3>2. \A o : Held(T[y], id, o) => o.from = y
        BY DEF Held
      <3>3. \A j \in InPipe(p2, id) : p2[j].msg.from = y => j \in InPipe(p, id) /\ p2[j] = p[j]
        BY <2>1, <1>3, <1>6
      <3>4. HandOK(q, sent, p2, T[y], id)
        BY <3>2, <3>3, <1>2 DEF HandOK
      <3>5. DirectOK(q, F, pend, sent, p2, T[y], y, id)
        <4>1. DirectOK(q, F, pend, sent, p, T[y], y, id)
          BY <1>2
        <4> QED
          BY <3>3, <4>1 DEF DirectOK
      <3> QED
        BY <3>1, <3>4, <3>5
    <2>2. CASE y = v
      BY <2>2, <1>1 DEF HandOK, DirectOK, Held
    <2> QED
      BY <2>1, <2>2
  <1>10. ASSUME NEW o \in sent PROVE o.n <= T2[o.from].n
    BY <1>1, <1>2 DEF Msgs
  <1>11. KeptOK(type, q, F, sent, p2, T2, id)
    <2>1. ASSUME NEW o \in sent, Held(T[o.from], id, o)
          PROVE  Held(T2[o.from], id, o) \/ \E j \in InPipe(p2, id) : p2[j].msg = o
      <3>1. o.from \in Services
        BY DEF Msgs
      <3>2. CASE o.from # v
        BY <3>1, <3>2, <2>1, <1>1
      <3>3. CASE o.from = v
        <4>1. o = m
          BY <3>3, <2>1 DEF Held
        <4> QED
          BY <4>1, <1>7
      <3> QED
        BY <3>2, <3>3
    <2>2. ASSUME NEW o, \E j \in InPipe(p, id) : p[j].msg = o
          PROVE  \E j \in InPipe(p2, id) : p2[j].msg = o
      BY <2>2, <1>6
    <2> QED
      BY <2>1, <2>2, <1>2 DEF KeptOK
  <1>12. \A w \in low : w[1].low = TRUE
    BY DEF OrderAt
  <1> QED
    BY <1>2, <1>8, <1>9, <1>10, <1>11, <1>12 DEF OrderAt

\* The first command of the pipe p is the message m for id.
Heads(p, id, m) == p # <<>> /\ p[1].id = id /\ p[1].cmd \in MsgCmds /\ p[1].msg = m

\* The lists get the units of m: the units pend and, in the low list, low become
\* pend2 and low2.
Adds(pend, pend2, low, low2, m) ==
    /\ \A w \in pend2 : w \in pend \/ w[1] = m
    /\ \A w \in low2 : w \in low \/ (w[1] = m /\ m.low = TRUE)

\* The first message m of the pipe joins the line, behind a.
LEMMA TakeOrder ==
    ASSUME NEW id, NEW type, type # "HALFCLOSE",
           NEW a \in Seq(Units), NEW b \in Seq(Units), NEW q, NEW F,
           NEW pend, NEW low, NEW sent, sent \subseteq Msgs,
           NEW p \in Seq(Cmds), NEW p2, p2 = Tail(p),
           NEW T \in [Services -> Threads], NEW m \in Msgs,
           OrderAt(id, type, q, F, pend, low, sent, p, T), Heads(p, id, m),
           \A w \in Range(b) : ~Alike(w[1], m),
           NEW q2, Joins(a, b, m, q, q2), NEW pend2, NEW low2, Adds(pend, pend2, low, low2, m)
    PROVE  OrderAt(id, type, q2, F, pend2, low2, sent, p2, T)
  <1> USE DEF Joins, Adds
  <1>1. /\ LineOK(q, F, sent) /\ PipeOK(q, sent, p, id) /\ KeptOK(type, q, F, sent, p, T, id)
        /\ \A o \in sent : o.n <= T[o.from].n
        /\ \A y \in Services :
               HandOK(q, sent, p, T[y], id) /\ DirectOK(q, F, pend, sent, p, T[y], y, id)
    BY DEF OrderAt
  <1>2. /\ Len(p2) = Len(p) - 1 /\ Len(p) \in Nat \ {0} /\ 1 \in 1..Len(p)
        /\ \A k \in 1..Len(p) - 1 : p2[k] = p[k + 1] /\ k + 1 \in 1..Len(p)
    BY PipeTail DEF Heads
  <1>3. 1 \in InPipe(p, id) /\ p[1].msg = m
    BY <1>2 DEF InPipe, Heads
  <1>4. \A k \in InPipe(p2, id) : k \in Int /\ 1 < k + 1 /\ k + 1 \in InPipe(p, id) /\ p2[k] = p[k + 1]
    BY <1>2 DEF InPipe
  <1>5. ASSUME NEW k \in InPipe(p, id), k # 1 PROVE k - 1 \in InPipe(p2, id) /\ p2[k - 1] = p[k]
    <2>1. k \in 1..Len(p) /\ k - 1 \in 1..Len(p) - 1 /\ (k - 1) + 1 = k
      BY <1>2, <1>5 DEF InPipe
    <2>2. p2[k - 1] = p[k]
      BY <2>1, <1>2
    <2> QED
      BY <2>1, <2>2, <1>2, <1>5 DEF InPipe
  <1>6. /\ m \in sent /\ \A w \in Range(q) : Alike(w[1], m) => w[1].n < m.n
        /\ \A k \in InPipe(p, id) : 1 < k /\ Alike(m, p[k].msg) => m.n < p[k].msg.n
    BY <1>1, <1>3 DEF PipeOK
  <1>7. Range(q) = Range(a) \cup Range(b)
    BY RangeConcat
  <1>8. ASSUME NEW o \in sent, Alike(o, m), o.n < m.n PROVE <<o, Size>> \in Range(q) \cup F
    <2>1. o.n \in Nat /\ m.n \in Nat /\ ~(m.n < o.n) /\ o.from \in Services
      BY <1>8 DEF Msgs
    <2>2. ASSUME NEW k \in InPipe(p, id), p[k].msg = o PROVE FALSE
      <3>1. k # 1 /\ k \in Int /\ k >= 1
        BY <2>1, <2>2, <1>3, <1>8 DEF InPipe
      <3>2. Alike(m, p[k].msg)
        BY <2>2, <1>8 DEF Alike
      <3>3. 1 < k
        BY <3>1
      <3>4. m.n < p[k].msg.n
        BY <3>2, <3>3, <1>6
      <3> QED
        BY <3>4, <2>1, <2>2
    <2>3. ASSUME Held(T[o.from], id, o) PROVE FALSE
      <3>1. m.from = o.from
        BY <1>8 DEF Alike
      <3>2. HandOK(q, sent, p, T[o.from], id)
        BY <2>1, <1>1
      <3>3. m.n < o.n
        BY <3>1, <3>2, <2>3, <1>3 DEF HandOK
      <3> QED
        BY <3>3, <2>1
    <2> QED
      BY <2>2, <2>3, <1>1 DEF KeptOK
  <1>9. /\ LineOK(q2, F, sent) /\ Range(q) \subseteq Range(q2) /\ <<m, Size>> \in Range(q2)
        /\ \A w \in Range(q2) : w \in Range(q) \/ w[1] = m
    <2>1. \A w \in Range(a) : Alike(w[1], m) => w[1].n < m.n
      BY <1>6, <1>7
    <2>2. \A o \in sent : Alike(o, m) /\ o.n < m.n => <<o, Size>> \in Range(a \o b) \cup F
      BY <1>8
    <2>3. m \in sent /\ LineOK(a \o b, F, sent)
      BY <1>1, <1>6
    <2>4. PICK x : x = a \o (UnitsOf(m) \o b)
      OBVIOUS
    <2>5. /\ LineOK(x, F, sent) /\ Range(a \o b) \subseteq Range(x) /\ <<m, Size>> \in Range(x)
          /\ \A w \in Range(x) : w \in Range(a \o b) \/ w[1] = m
      BY ONLY sent \subseteq Msgs, a \in Seq(Units), b \in Seq(Units), m \in Msgs,
              \A w \in Range(b) : ~Alike(w[1], m), <2>1, <2>2, <2>3, <2>4, JoinLine
    <2> QED
      BY <2>4, <2>5
  <1>10. PipeOK(q2, sent, p2, id)
    <2>1. ASSUME NEW k \in InPipe(p2, id)
          PROVE  /\ p2[k].msg \in sent
                 /\ \A w \in Range(q2) : Alike(w[1], p2[k].msg) => w[1].n < p2[k].msg.n
      <3>1. k + 1 \in InPipe(p, id) /\ 1 < k + 1 /\ p2[k] = p[k + 1]
        BY <1>4
      <3>2. /\ p[k + 1].msg \in sent
            /\ \A w \in Range(q) : Alike(w[1], p[k + 1].msg) => w[1].n < p[k + 1].msg.n
            /\ Alike(m, p[k + 1].msg) => m.n < p[k + 1].msg.n
        BY <3>1, <1>1, <1>6 DEF PipeOK
      <3> QED
        BY <3>1, <3>2, <1>9
    <2>2. ASSUME NEW k \in InPipe(p2, id), NEW j \in InPipe(p2, id), j < k,
                 Alike(p2[j].msg, p2[k].msg)
          PROVE  p2[j].msg.n < p2[k].msg.n
      <3>1. j + 1 < k + 1
        BY <2>2, <1>4
      <3>2. /\ j + 1 \in InPipe(p, id) /\ k + 1 \in InPipe(p, id)
            /\ p2[j] = p[j + 1] /\ p2[k] = p[k + 1]
        BY <1>4
      <3> QED
        BY <3>1, <3>2, <2>2, <1>1 DEF PipeOK
    <2> QED
      BY <2>1, <2>2 DEF PipeOK
  <1>11. ASSUME NEW y \in Services
         PROVE  HandOK(q2, sent, p2, T[y], id) /\ DirectOK(q2, F, pend2, sent, p2, T[y], y, id)
    <2>1. HandOK(q, sent, p, T[y], id) /\ DirectOK(q, F, pend, sent, p, T[y], y, id)
      BY <1>1
    <2>2. HandOK(q2, sent, p2, T[y], id)
      <3>1. ASSUME NEW o, Held(T[y], id, o)
            PROVE  /\ o \in sent
                   /\ \A w \in Range(q2) : w[1].from = o.from => w[1].n < o.n
                   /\ \A k \in InPipe(p2, id) : p2[k].msg.from = o.from => p2[k].msg.n < o.n
        <4>1. /\ o \in sent
              /\ \A w \in Range(q) : w[1].from = o.from => w[1].n < o.n
              /\ \A k \in InPipe(p, id) : p[k].msg.from = o.from => p[k].msg.n < o.n
          BY <3>1, <2>1 DEF HandOK
        <4>2. m.from = o.from => m.n < o.n
          BY <4>1, <1>3
        <4>3. \A w \in Range(q2) : w[1].from = o.from => w[1].n < o.n
          BY <4>1, <4>2, <1>9
        <4>4. \A k \in InPipe(p2, id) : p2[k].msg.from = o.from => p2[k].msg.n < o.n
          BY <4>1, <1>4
        <4> QED
          BY <4>1, <4>3, <4>4
      <3> QED
        BY <3>1 DEF HandOK
    <2>3. DirectOK(q2, F, pend2, sent, p2, T[y], y, id)
      BY <2>1, <1>3, <1>4, <1>9 DEF DirectOK
    <2> QED
      BY <2>2, <2>3
  <1>12. KeptOK(type, q2, F, sent, p2, T, id)
    <2>1. ASSUME NEW o, \E k \in InPipe(p, id) : p[k].msg = o
          PROVE  <<o, Size>> \in Range(q2) \/ \E k \in InPipe(p2, id) : p2[k].msg = o
      <3>1. PICK k \in InPipe(p, id) : p[k].msg = o
        BY <2>1
      <3>2. CASE k = 1
        BY <3>1, <3>2, <1>3, <1>9
      <3>3. CASE k # 1
        BY <3>1, <3>3, <1>5
      <3> QED
        BY <3>2, <3>3
    <2> QED
      BY <2>1, <1>1, <1>9 DEF KeptOK
  <1>13. \A w \in low2 : w[1].low = TRUE
    BY DEF OrderAt
  <1> QED
    BY <1>1, <1>9, <1>10, <1>11, <1>12, <1>13 DEF OrderAt

\* The line loses its end: what is missing may have been freed.
LEMMA ShorterOrder ==
    ASSUME NEW id, NEW type, NEW a \in Seq(Units), NEW b \in Seq(Units), NEW q, q = a \o b, NEW F,
           NEW pend, NEW pend2, pend2 \subseteq pend, NEW low, NEW low2, low2 \subseteq low,
           NEW sent, sent \subseteq Msgs, NEW p, NEW T,
           OrderAt(id, type, q, F, pend, low, sent, p, T)
    PROVE  OrderAt(id, type, a, Units, pend2, low2, sent, p, T)
  <1>1. /\ LineOK(q, F, sent) /\ PipeOK(q, sent, p, id)
        /\ (\A u \in low : u[1].low = TRUE) /\ (\A m \in sent : m.n <= T[m.from].n)
        /\ \A v \in Services :
               HandOK(q, sent, p, T[v], id) /\ DirectOK(q, F, pend, sent, p, T[v], v, id)
    BY DEF OrderAt
  <1>2. Range(a) \subseteq Range(q)
    BY RangeConcat
  <1>3. InLine(a)
    BY <1>1, LineConcat DEF LineOK
  <1>4. \A m \in sent : <<m, Size>> \in Units
    BY SocketAssumption DEF Units
  <1>5. LineOK(a, Units, sent)
    BY <1>1, <1>2, <1>3, <1>4 DEF LineOK
  <1>6. PipeOK(a, sent, p, id)
    BY <1>1, <1>2 DEF PipeOK
  <1>7. ASSUME NEW v \in Services
        PROVE  HandOK(a, sent, p, T[v], id) /\ DirectOK(a, Units, pend2, sent, p, T[v], v, id)
    BY <1>1, <1>2, <1>4 DEF HandOK, DirectOK
  <1>8. KeptOK(type, a, Units, sent, p, T, id)
    BY <1>4 DEF KeptOK
  <1> QED
    BY <1>1, <1>5, <1>6, <1>7, <1>8 DEF OrderAt

-----------------------------------------------------------------------------
\* The units of a part of a sequence are units of it.
LEMMA RangePart ==
    ASSUME NEW q \in Seq(Units), NEW a \in Nat, NEW b \in Nat, a <= b, b <= Len(q)
    PROVE  Range(SubSeq(q, a + 1, b)) \subseteq Range(q)
  <1>1. PICK r : r = SubSeq(q, a + 1, b)
    OBVIOUS
  <1>2. r \in Seq(Units) /\ Len(r) = b - a /\ \A k \in 1..b - a : r[k] = q[a + k]
    BY <1>1, Part
  <1>3. DOMAIN r = 1..b - a /\ DOMAIN q = 1..Len(q) /\ Len(q) \in Nat
    BY <1>2, LenProperties
  <1>4. ASSUME NEW u \in Range(r) PROVE u \in Range(q)
    <2>1. PICK k \in 1..b - a : u = r[k]
      BY <1>3, <1>4 DEF Range
    <2>2. u = q[a + k] /\ a + k \in 1..Len(q)
      BY <2>1, <1>2, <1>3
    <2> QED
      BY <2>2, <1>3 DEF Range
  <1> QED
    BY <1>1, <1>4

\* No unit gets into the low list when the kernel takes some.
LEMMA WrittenLow ==
    ASSUME NEW s \in Socket, NEW n \in 0..Len(Pending(s)), NEW b, b = SendBuffer(s, n)
    PROVE  Range(b.low) \subseteq Range(s.low)
  <1>1. PICK k \in Nat : k = Len(High(s))
    BY Lists
  <1>2. /\ s.low \in Seq(Units) /\ Len(s.low) \in Nat /\ Len(Pending(s)) = k + Len(s.low)
        /\ High(s) \in Seq(Units)
    BY <1>1, Lists
  <1>3. PICK l : l = IF n > k THEN SubSeq(s.low, n - k + 1, Len(s.low)) ELSE s.low
    OBVIOUS
  <1>4. l \in Seq(Units) /\ Range(l) \subseteq Range(s.low)
    <2>1. CASE n > k
      <3>1. PICK d \in Nat : d = n - k /\ d <= Len(s.low)
        BY <2>1, <1>1, <1>2
      <3>2. l = SubSeq(s.low, d + 1, Len(s.low))
        BY <3>1, <2>1, <1>3
      <3>3. PICK r \in Seq(Units) : r = s.low
        BY <1>2
      <3>4. PICK e \in Nat : e = Len(r)
        BY <3>3, <1>2
      <3>5. SubSeq(r, d + 1, e) \in Seq(Units) /\ Range(SubSeq(r, d + 1, e)) \subseteq Range(r)
        <4>1. d <= e /\ e <= Len(r)
          BY <3>1, <3>3, <3>4
        <4> QED
          BY <4>1, Part, RangePart
      <3> QED
        BY <3>2, <3>3, <3>4, <3>5
    <2>2. CASE ~(n > k)
      BY <2>2, <1>2, <1>3
    <2> QED
      BY <2>1, <2>2
  <1>5. PICK left : left = [s EXCEPT !.dw_buffer = <<>>,
                                     !.high = SubSeq(High(s), n + 1, k), !.low = l]
    OBVIOUS
  <1>6. left.low = l
    BY <1>5 DEF Socket
  <1>7. PICK w : w = IF n >= k THEN Raised(left) ELSE left
    OBVIOUS
  <1>8. w = Written(s, n)
    BY <1>1, <1>3, <1>5, <1>7 DEF Written, Socket
  <1>9. Range(w.low) \subseteq Range(l)
    <2>1. CASE n >= k /\ left.low # <<>> /\ Head(left.low)[2] > 1
      <3>1. PICK j : j = Size + 1 - Head(l)[2]
        OBVIOUS
      <3>2. w = [left EXCEPT !.high = SubSeq(l, 1, j), !.low = SubSeq(l, j + 1, Len(l))]
        BY <2>1, <3>1, <1>6, <1>7 DEF Raised
      <3>3. w.low = SubSeq(l, j + 1, Len(l))
        BY <3>2, <1>5 DEF Socket
      <3>4. Head(l) \in Units /\ Head(l)[2] \in 1..Size
        BY <2>1, <1>4, <1>6, HeadTailProperties, UnitParts
      <3>5. j \in Nat /\ Size \in Nat
        BY <3>1, <3>4, SocketAssumption
      <3>6. CASE j <= Len(l)
        <4>1. Len(l) \in Nat
          BY <1>4, LenProperties
        <4> QED
          BY <4>1, <3>3, <3>5, <3>6, <1>4, RangePart
      <3>7. CASE j > Len(l)
        <4>1. Len(l) \in Nat
          BY <1>4, LenProperties
        <4>2. SubSeq(l, j + 1, Len(l)) = <<>>
          BY <4>1, <3>5, <3>7, SubSeqEmpty
        <4>3. ASSUME NEW q, q = <<>> PROVE Range(q) = {}
          BY <4>3 DEF Range
        <4> QED
          BY <4>2, <4>3, <3>3
      <3> QED
        BY <3>5, <3>6, <3>7, <1>4, LenProperties
    <2>2. CASE ~(n >= k /\ left.low # <<>> /\ Head(left.low)[2] > 1)
      BY <2>2, <1>6, <1>7 DEF Raised
    <2> QED
      BY <2>1, <2>2
  <1>10. b.low = w.low \/ b.low = <<>>
    BY <1>8 DEF SendBuffer, ForceClosed, Closed, Freed
  <1>11. ASSUME NEW q, q = <<>> PROVE Range(q) = {}
    BY <1>11 DEF Range
  <1> QED
    BY <1>4, <1>9, <1>10, <1>11

-----------------------------------------------------------------------------
(* Steps *)

\* A step that sends no message for id, and takes none, leaves its messages in
\* the pipe.
LEMMA SamePipe ==
    ASSUME NEW p \in Seq(Cmds), NEW p2, NEW id,
           \/ p2 = p
           \/ \E k \in Cmds : p2 = Append(p, k) /\ (k.cmd \in MsgCmds => k.id # id)
           \/ p # <<>> /\ p2 = Tail(p) /\ (p[1].cmd \in MsgCmds => p[1].id # id)
    PROVE  PipeLess(p, p2, id) /\ PipeMore(p, p2, id)
  <1>1. CASE p2 = p
    <2>1. \A k \in InPipe(p, id) : k + 0 = k
      BY DEF InPipe
    <2>2. PipeLess(p, p, id)
      BY <2>1 DEF PipeLess
    <2>3. PipeMore(p, p, id)
      BY DEF PipeMore
    <2> QED
      BY <1>1, <2>2, <2>3
  <1>2. ASSUME NEW k \in Cmds, p2 = Append(p, k), k.cmd \in MsgCmds => k.id # id
        PROVE  PipeLess(p, p2, id) /\ PipeMore(p, p2, id)
    <2>1. /\ Len(p2) = Len(p) + 1 /\ Len(p) \in Nat
          /\ \A j \in 1..Len(p) : p2[j] = p[j]
          /\ \A j \in 1..Len(p2) : j \notin 1..Len(p) => j = Len(p) + 1 /\ p2[j] = k
      BY <1>2, PipeAppend
    <2>2. \A j \in InPipe(p2, id) : j + 0 = j /\ j \in InPipe(p, id) /\ p[j] = p2[j]
      BY <1>2, <2>1 DEF InPipe
    <2>3. \A j \in InPipe(p, id) : j \in InPipe(p2, id) /\ p2[j] = p[j]
      BY <2>1 DEF InPipe
    <2> QED
      BY <2>2, <2>3 DEF PipeLess, PipeMore
  <1>3. CASE p # <<>> /\ p2 = Tail(p) /\ (p[1].cmd \in MsgCmds => p[1].id # id)
    <2>1. /\ Len(p2) = Len(p) - 1 /\ Len(p) \in Nat \ {0} /\ 1 \in 1..Len(p)
          /\ \A k \in 1..Len(p) - 1 : p2[k] = p[k + 1] /\ k + 1 \in 1..Len(p)
      BY <1>3, PipeTail
    <2>2. \A k \in InPipe(p2, id) : k + 1 \in InPipe(p, id) /\ p2[k] = p[k + 1]
      BY <2>1 DEF InPipe
    <2>3. ASSUME NEW k \in InPipe(p, id) PROVE k - 1 \in InPipe(p2, id) /\ p2[k - 1] = p[k]
      <3>1. k \in 1..Len(p) /\ k # 1 /\ p[k].cmd \in MsgCmds /\ p[k].id = id
        BY <1>3 DEF InPipe
      <3>2. k - 1 \in 1..Len(p) - 1 /\ (k - 1) + 1 = k
        BY <3>1, <2>1
      <3>3. p2[k - 1] = p[k]
        BY <3>2, <2>1
      <3> QED
        BY <3>1, <3>2, <3>3, <2>1 DEF InPipe
    <2> QED
      BY <2>2, <2>3 DEF PipeLess, PipeMore
  <1> QED
    BY <1>1, <1>2, <1>3

\* A message that is taken for id leaves the others.
LEMMA LessPipe ==
    ASSUME NEW p \in Seq(Cmds), p # <<>>, NEW p2, p2 = Tail(p), NEW id
    PROVE  PipeLess(p, p2, id)
  <1>1. /\ Len(p2) = Len(p) - 1 /\ Len(p) \in Nat \ {0} /\ 1 \in 1..Len(p)
        /\ \A k \in 1..Len(p) - 1 : p2[k] = p[k + 1] /\ k + 1 \in 1..Len(p)
    BY PipeTail
  <1>2. \A k \in InPipe(p2, id) : k + 1 \in InPipe(p, id) /\ p2[k] = p[k + 1]
    BY <1>1 DEF InPipe
  <1> QED
    BY <1>2 DEF PipeLess

\* A service that goes on without a message for id in hand
LEMMA OtherHands ==
    ASSUME NEW T \in [Services -> Threads], NEW id, NEW v \in Services, NEW u \in Threads,
           NEW T2, T2 = [T EXCEPT ![v] = u], T[v].n <= u.n,
           T[v].pc = "idle" \/ T[v].id # id \/ T[v].cmd = "W",
           u.pc = "idle" \/ u.id # id \/ (u.pc # "write" /\ u.cmd = "W")
    PROVE  SameHands(T, T2, id) /\ T2 \in [Services -> Threads]
  <1>1. T2[v] = u /\ \A y \in Services : y # v => T2[y] = T[y]
    OBVIOUS
  <1>2. \A m : ~Held(T[v], id, m) /\ ~Held(u, id, m)
    BY DEF Held
  <1>3. \A y \in Services : T[y].n <= T[y].n
    BY DEF Threads
  <1>4. T2 \in [Services -> Threads]
    OBVIOUS
  <1>5. ASSUME NEW y \in Services
        PROVE  /\ T[y].n <= T2[y].n
               /\ \A m : Held(T2[y], id, m) <=> Held(T[y], id, m)
               /\ T2[y].pc = "write" /\ T2[y].id = id =>
                      T[y].pc = "write" /\ T[y].id = id /\ T2[y].msg = T[y].msg
    <2>1. CASE y = v
      BY <2>1, <1>1, <1>2
    <2>2. CASE y # v
      BY <2>2, <1>1, <1>3
    <2> QED
      BY <2>1, <2>2
  <1> QED
    BY <1>4, <1>5 DEF SameHands

LEMMA EqualHands ==
    ASSUME NEW T \in [Services -> Threads], NEW id PROVE SameHands(T, T, id)
  <1>1. \A y \in Services : T[y].n <= T[y].n
    BY DEF Threads
  <1> QED
    BY <1>1 DEF SameHands

\* The message of a live slot and its connection
LEMMA SentMsgs ==
    ASSUME TypeInv, NEW id \in Ids
    PROVE  conn[id].sent \subseteq Msgs
  BY DEF TypeInv, Conns

\* Slot j has the connection that it had, which is at most half closed or started
\* now, and the line is the same.
Stays(j) ==
    LET s == slot[j]
        t == slot'[j]
    IN  /\ Live(s) /\ t.id = s.id /\ t.lost = s.lost
        /\ conn'[s.id].sent = conn[s.id].sent
        /\ Line(t, conn'[s.id].wire) = Line(s, conn[s.id].wire)
        /\ Range(Pending(t)) \subseteq Range(Pending(s)) /\ Range(t.low) \subseteq Range(s.low)
        /\ PipeLess(pipe, pipe', s.id) /\ SameHands(th, th', s.id)
        /\ \/ t.type = "HALFCLOSE" \/ conn[s.id].sent = {}
           \/ s.type # "HALFCLOSE" /\ PipeMore(pipe, pipe', s.id)

LEMMA StaysOrder ==
    ASSUME Inv, Inv', OrderInv, NEW j \in Slots, Stays(j)
    PROVE  OrderOK(slot'[j], conn'[slot'[j].id], pipe', th')
  <1>1. PICK s : s = slot[j]
    OBVIOUS
  <1>2. PICK t : t = slot'[j]
    OBVIOUS
  <1>3. PICK c : c = conn[s.id]
    OBVIOUS
  <1>4. PICK d : d = conn'[s.id]
    OBVIOUS
  <1>5. TypeInv /\ TypeInv' /\ th \in [Services -> Threads] /\ th' \in [Services -> Threads]
    BY DEF Inv, TypeInv
  <1>6. Live(s) /\ t.id = s.id /\ d.sent = c.sent /\ Gone(t) = Gone(s)
    BY <1>1, <1>2, <1>3, <1>4 DEF Stays, Gone
  <1>7. s.id \in Ids
    BY <1>1, <1>6, LiveSlot
  <1>8. PICK sent : sent = c.sent
    OBVIOUS
  <1>9. sent \subseteq Msgs
    BY <1>3, <1>5, <1>7, <1>8, SentMsgs
  <1>10. OrderAt(s.id, s.type, Line(s, c.wire), Gone(s), Range(Pending(s)), Range(s.low), sent,
                 pipe, th)
    BY <1>1, <1>3, <1>6, <1>8 DEF OrderInv, OrderOK
  <1>11. /\ Line(t, d.wire) = Line(s, c.wire)
         /\ Range(Pending(t)) \subseteq Range(Pending(s)) /\ Range(t.low) \subseteq Range(s.low)
         /\ PipeLess(pipe, pipe', s.id) /\ SameHands(th, th', s.id)
    BY <1>1, <1>2, <1>3, <1>4 DEF Stays
  <1>13. \/ t.type = "HALFCLOSE" \/ sent = {}
         \/ s.type # "HALFCLOSE" /\ PipeMore(pipe, pipe', s.id)
    BY <1>1, <1>2, <1>3, <1>8 DEF Stays
  <1>14. OrderAt(s.id, t.type, Line(s, c.wire), Gone(s), Range(Pending(t)), Range(t.low), sent,
                 pipe', th')
    BY <1>5, <1>9, <1>10, <1>11, <1>13, CarryOrder
  <1>15. OrderOK(t, d, pipe', th')
    BY <1>6, <1>8, <1>11, <1>14 DEF OrderOK
  <1> QED
    BY <1>2, <1>4, <1>6, <1>15

\* The order of all connections, if one slot does what it should and the others
\* stay
LEMMA OrderStep ==
    ASSUME Inv, Inv', OrderInv,
           \A j \in Slots : Live(slot'[j]) =>
               Stays(j) \/ OrderOK(slot'[j], conn'[slot'[j].id], pipe', th')
    PROVE  OrderInv'
  <1>1. ASSUME NEW j \in Slots, Live(slot'[j])
        PROVE  OrderOK(slot'[j], conn'[slot'[j].id], pipe', th')
    BY <1>1, StaysOrder
  <1> QED
    BY <1>1 DEF OrderInv

\* The socket t has the id and the lists of s.
SameLists(s, t) ==
    /\ t.id = s.id /\ t.lost = s.lost
    /\ t.high = s.high /\ t.low = s.low /\ t.dw_buffer = s.dw_buffer

\* The connection of id has the same units and messages.
SameConn(id) == conn'[id].wire = conn[id].wire /\ conn'[id].sent = conn[id].sent

\* No message is sent to the pipe or taken from it.
PipeQuiet ==
    \/ pipe' = pipe
    \/ \E k \in Cmds : pipe' = Append(pipe, k) /\ k.cmd \notin MsgCmds
    \/ Drops /\ pipe[1].cmd \notin MsgCmds

LEMMA QuietPipe ==
    ASSUME TypeInv, PipeQuiet, NEW id
    PROVE  PipeLess(pipe, pipe', id) /\ PipeMore(pipe, pipe', id)
  <1>1. pipe \in Seq(Cmds)
    BY DEF TypeInv
  <1>2. \/ pipe' = pipe
        \/ \E k \in Cmds : pipe' = Append(pipe, k) /\ (k.cmd \in MsgCmds => k.id # id)
        \/ pipe # <<>> /\ pipe' = Tail(pipe) /\ (pipe[1].cmd \in MsgCmds => pipe[1].id # id)
    BY DEF PipeQuiet, Drops
  <1> QED
    BY <1>1, <1>2, SamePipe

\* A live slot that keeps its lists and its connection stays.
LEMMA KeepsStays ==
    ASSUME Inv, NEW j \in Slots, Live(slot[j]), SameLists(slot[j], slot'[j]),
           slot[j].type = "HALFCLOSE" => slot'[j].type = "HALFCLOSE",
           SameConn(slot[j].id),
           PipeLess(pipe, pipe', slot[j].id), PipeMore(pipe, pipe', slot[j].id),
           SameHands(th, th', slot[j].id)
    PROVE  Stays(j)
  <1>1. PICK s : s = slot[j]
    OBVIOUS
  <1>2. PICK t : t = slot'[j]
    OBVIOUS
  <1>3. Pending(t) = Pending(s) /\ t.low = s.low /\ t.id = s.id /\ t.lost = s.lost
    BY <1>1, <1>2 DEF SameLists, Pending, High
  <1>4. Line(t, conn'[s.id].wire) = Line(s, conn[s.id].wire)
    BY <1>1, <1>3 DEF Line, SameConn
  <1> QED
    BY <1>1, <1>2, <1>3, <1>4 DEF Stays, SameConn

\* No slot changes but in what the lists do not depend on.
LEMMA QuietOrder ==
    ASSUME Inv, Inv', OrderInv, PipeQuiet, \A id \in Ids : SameHands(th, th', id),
           \A j \in Slots : Live(slot'[j]) =>
               /\ Live(slot[j]) /\ SameLists(slot[j], slot'[j]) /\ SameConn(slot[j].id)
               /\ slot[j].type = "HALFCLOSE" => slot'[j].type = "HALFCLOSE"
    PROVE  OrderInv'
  <1>1. ASSUME NEW j \in Slots, Live(slot'[j]) PROVE Stays(j)
    <2>1. Live(slot[j])
      BY <1>1
    <2>2. slot[j].id \in Ids
      BY <2>1, LiveSlot
    <2>3. PipeLess(pipe, pipe', slot[j].id) /\ PipeMore(pipe, pipe', slot[j].id)
      BY QuietPipe DEF Inv
    <2>4. SameHands(th, th', slot[j].id)
      BY <2>2
    <2> QED
      BY <1>1, <2>1, <2>3, <2>4, KeepsStays
  <1> QED
    BY <1>1, OrderStep

\* Live slots have different ids.
LEMMA OtherIds ==
    ASSUME Inv, NEW i \in Slots, NEW j \in Slots, Live(slot[j]), i # j
    PROVE  slot[j].id \in Ids /\ slot[j].id # slot[i].id
  <1>1. slot[j].id \in Ids /\ HASH_ID(slot[j].id) = j
    BY LiveSlot
  <1>2. slot[i].id \in Ids => HASH_ID(slot[i].id) = i
    BY SlotIds DEF Inv
  <1> QED
    BY <1>1, <1>2

\* One slot changes: it keeps its lists, or is not live any more.
LEMMA OneSlotOrder ==
    ASSUME Inv, Inv', OrderInv, PipeQuiet, th' = th, NEW i \in Slots, NEW t,
           slot' = [slot EXCEPT ![i] = t],
           \A d \in Ids : d # slot[i].id => SameConn(d),
           Live(t) => /\ Live(slot[i]) /\ SameLists(slot[i], t) /\ SameConn(slot[i].id)
                      /\ slot[i].type = "HALFCLOSE" => t.type = "HALFCLOSE"
    PROVE  OrderInv'
  <1>1. th \in [Services -> Threads] /\ slot \in [Slots -> Socket]
    BY DEF Inv, TypeInv
  <1>2. \A id \in Ids : SameHands(th, th', id)
    BY <1>1, EqualHands
  <1>3. slot'[i] = t /\ \A j \in Slots : j # i => slot'[j] = slot[j]
    BY <1>1
  <1>4. ASSUME NEW j \in Slots, Live(slot'[j])
        PROVE  /\ Live(slot[j]) /\ SameLists(slot[j], slot'[j]) /\ SameConn(slot[j].id)
               /\ slot[j].type = "HALFCLOSE" => slot'[j].type = "HALFCLOSE"
    <2>1. CASE j = i
      BY <2>1, <1>3, <1>4
    <2>2. CASE j # i
      <3>1. slot'[j] = slot[j] /\ Live(slot[j])
        BY <2>2, <1>3, <1>4
      <3>2. slot[j].id \in Ids /\ slot[j].id # slot[i].id
        BY <3>1, <2>2, OtherIds
      <3>3. SameConn(slot[j].id)
        BY <3>2
      <3> QED
        BY <3>1, <3>3 DEF SameLists
    <2> QED
      BY <2>1, <2>2
  <1> QED
    BY <1>2, <1>4, QuietOrder

\* A step that leaves the slots and the connections
LEMMA StillOrder ==
    ASSUME Inv, Inv', OrderInv, PipeQuiet, th' = th, slot' = slot, \A id \in Ids : SameConn(id)
    PROVE  OrderInv'
  <1>1. th \in [Services -> Threads]
    BY DEF Inv, TypeInv
  <1>2. \A id \in Ids : SameHands(th, th', id)
    BY <1>1, EqualHands
  <1>3. ASSUME NEW j \in Slots, Live(slot'[j])
        PROVE  /\ Live(slot[j]) /\ SameLists(slot[j], slot'[j]) /\ SameConn(slot[j].id)
               /\ slot[j].type = "HALFCLOSE" => slot'[j].type = "HALFCLOSE"
    <2>1. Live(slot[j])
      BY <1>3
    <2>2. slot[j].id \in Ids
      BY <2>1, LiveSlot
    <2> QED
      BY <2>1, <2>2 DEF SameLists
  <1> QED
    BY <1>2, <1>3, QuietOrder

\* The connections when none of them changes
LEMMA SameConns ==
    ASSUME conn' = conn PROVE \A id \in Ids : SameConn(id)
  BY DEF SameConn

\* A command that is not a message
LEMMA RequestQuiet ==
    ASSUME NEW cmd \in {"R", "K", "O", "W"}, NEW id \in Ids, NEW shutdown \in BOOLEAN,
           Request(cmd, id, NoMsg, shutdown)
    PROVE  PipeQuiet
  <1>1. PICK k : k = [cmd |-> cmd, id |-> id, msg |-> NoMsg, shutdown |-> shutdown]
    OBVIOUS
  <1>2. k \in Cmds /\ k.cmd \notin MsgCmds
    BY <1>1 DEF Cmds, MsgCmds
  <1>3. pipe' = Append(pipe, k)
    BY <1>1 DEF Request
  <1> QED
    BY <1>2, <1>3 DEF PipeQuiet

\* The steps that change no slot
LEMMA QuietSteps ==
    ASSUME Inv, Inv', OrderInv,
           \/ UNCHANGED vars \/ WaitAny \/ CloseNothing \/ NoCmd \/ ClearClosedEvent
           \/ \E e \in ev : Ignore(e) \/ ForwardMessage(e) \/ WriteBlocked(e) \/ StaleEvent(e)
           \/ \E id \in Ids : Start(id) \/ Connect(id)
    PROVE  OrderInv'
  <1>1. CASE UNCHANGED vars
    <2>1. slot' = slot /\ conn' = conn /\ th' = th /\ PipeQuiet
      BY <1>1 DEF vars, PipeQuiet
    <2> QED
      BY <2>1, SameConns, StillOrder
  <1>2. CASE WaitAny \/ NoCmd \/ ClearClosedEvent
    <2>1. slot' = slot /\ conn' = conn /\ th' = th /\ PipeQuiet
      BY <1>2 DEF WaitAny, Wait, NoCmd, ClearClosedEvent, PipeQuiet
    <2> QED
      BY <2>1, SameConns, StillOrder
  <1>3. CASE CloseNothing
    <2>1. /\ conn' = conn /\ th' = th /\ Takes("K") /\ Leaves(slot[At])
      BY <1>3 DEF CloseNothing
    <2>2. pipe # <<>> /\ pipe' = Tail(pipe) /\ Cmd.cmd = "K"
      BY <2>1 DEF Takes, Leaves, Cmd
    <2>3. Cmd = pipe[1] /\ At \in Slots
      BY <2>2, FirstCmd DEF Inv
    <2>4. PipeQuiet
      BY <2>2, <2>3 DEF PipeQuiet, Drops, MsgCmds
    <2>5. slot \in [Slots -> Socket]
      BY DEF Inv, TypeInv
    <2>6. slot' = slot
      BY <2>1, <2>3, <2>5 DEF Leaves
    <2> QED
      BY <2>1, <2>4, <2>6, SameConns, StillOrder
  <1>4. ASSUME NEW e \in ev, Ignore(e) \/ ForwardMessage(e) \/ WriteBlocked(e) \/ StaleEvent(e)
        PROVE  OrderInv'
    <2>1. slot' = slot /\ conn' = conn /\ Dispatch(e)
      BY <1>4 DEF Ignore, ForwardMessage, WriteBlocked, StaleEvent, Done
    <2>2. th' = th /\ PipeQuiet
      BY <2>1 DEF Dispatch, PipeQuiet
    <2> QED
      BY <2>1, <2>2, SameConns, StillOrder
  <1>5. ASSUME NEW id \in Ids, Start(id) \/ Connect(id) PROVE OrderInv'
    <2>1. /\ slot' = slot /\ conn' = conn /\ th' = th
          /\ Request("R", id, NoMsg, FALSE) \/ Request("O", id, NoMsg, FALSE)
      BY <1>5 DEF Start, Connect
    <2>2. PipeQuiet
      BY <2>1, RequestQuiet
    <2> QED
      BY <2>1, <2>2, SameConns, StillOrder
  <1> QED
    BY <1>1, <1>2, <1>3, <1>4, <1>5

\* reserve_id, socket_server_close and socket_server_shutdown
LEMMA RequestOrder ==
    ASSUME Inv, Inv', OrderInv, NEW id \in Ids,
           Reserve(id) \/ \E v \in Services, b \in BOOLEAN : Close(v, id, b)
    PROVE  OrderInv'
  <1>1. CASE Reserve(id)
    <2>1. /\ slot' = [slot EXCEPT ![HASH_ID(id)] = Reserved(@, id)]
          /\ conn' = conn /\ th' = th /\ pipe' = pipe
      BY <1>1 DEF Reserve
    <2>2. HASH_ID(id) \in Slots
      BY HashSlot DEF Ids
    <2>3. PICK i \in Slots : i = HASH_ID(id)
      BY <2>2
    <2>4. PICK t : t = Reserved(slot[i], id)
      OBVIOUS
    <2>5. slot' = [slot EXCEPT ![i] = t]
      BY <2>1, <2>3, <2>4
    <2>6. slot[i] \in Socket
      BY DEF Inv, TypeInv
    <2>7. ~Live(t)
      BY <2>4, <2>6 DEF Reserved, Live, Socket
    <2>8. PipeQuiet
      BY <2>1 DEF PipeQuiet
    <2> QED
      BY <2>1, <2>5, <2>7, <2>8, SameConns, OneSlotOrder
  <1>2. ASSUME NEW v \in Services, NEW b \in BOOLEAN, Close(v, id, b) PROVE OrderInv'
    <2>1. slot' = slot /\ th' = th /\ Request("K", id, NoMsg, b)
      BY <1>2 DEF Close
    <2>2. PICK c : c = conn[id]
      OBVIOUS
    <2>3. \/ conn' = conn
          \/ conn' = [conn EXCEPT ![id].closer = v,
                                  ![id].promise = {m \in c.sent : m.from = v}]
      BY <1>2, <2>2 DEF Close
    <2>4. conn \in [Ids -> Conns]
      BY DEF Inv, TypeInv
    <2>5. \A d \in Ids : SameConn(d)
      <3>1. PICK P : P = {m \in c.sent : m.from = v}
        OBVIOUS
      <3>2. conn' = conn \/ conn' = [conn EXCEPT ![id].closer = v, ![id].promise = P]
        BY <2>3, <3>1
      <3>3. conn[id] \in Conns
        BY <2>4
      <3>4. PICK e : e = [conn[id] EXCEPT !.closer = v, !.promise = P]
        OBVIOUS
      <3>5. e.wire = conn[id].wire /\ e.sent = conn[id].sent
        BY <3>3, <3>4 DEF Conns
      <3>6. conn' = conn \/ conn' = [conn EXCEPT ![id] = e]
        BY <3>2, <3>4, <2>4
      <3>7. ASSUME NEW d \in Ids PROVE conn'[d].wire = conn[d].wire /\ conn'[d].sent = conn[d].sent
        BY <3>5, <3>6, <2>4
      <3> QED
        BY <3>7 DEF SameConn
    <2>6. PipeQuiet
      BY <2>1, RequestQuiet
    <2> QED
      BY <2>1, <2>5, <2>6, StillOrder
  <1> QED
    BY <1>1, <1>2

\* A command, which is not a message, leaves its slot as t.
LEMMA LeavesOrder ==
    ASSUME Inv, Inv', OrderInv, pipe # <<>>, Cmd.cmd \notin MsgCmds, NEW t, Leaves(t), th' = th,
           \A d \in Ids : d # slot[At].id => SameConn(d),
           Live(t) => /\ Live(slot[At]) /\ SameLists(slot[At], t) /\ SameConn(slot[At].id)
                      /\ slot[At].type = "HALFCLOSE" => t.type = "HALFCLOSE"
    PROVE  OrderInv'
  <1>1. Cmd = pipe[1] /\ At \in Slots
    BY FirstCmd DEF Inv
  <1>2. PipeQuiet
    BY <1>1 DEF PipeQuiet, Drops, Leaves
  <1>3. PICK i \in Slots : i = At
    BY <1>1
  <1>4. slot' = [slot EXCEPT ![i] = t]
    BY <1>3 DEF Leaves
  <1> QED
    BY <1>2, <1>3, <1>4, OneSlotOrder

\* Ends leaves the other connections.
LEMMA EndsConns ==
    ASSUME Inv, NEW s, NEW c, NEW drained, Ends(s, c, drained),
           \A d \in Ids : d # s.id => c[d] = conn[d], DOMAIN c = Ids
    PROVE  \A d \in Ids : d # s.id => SameConn(d)
  <1>1. conn' = [c EXCEPT ![s.id] = NoConn]
    BY DEF Ends
  <1>2. ASSUME NEW d \in Ids, d # s.id PROVE conn'[d] = conn[d]
    BY <1>1, <1>2
  <1> QED
    BY <1>2 DEF SameConn

\* The other connections when the kernel took something
LEMMA TookConns ==
    ASSUME Inv, NEW s, NEW n
    PROVE  DOMAIN Took(s, n) = Ids /\ \A d \in Ids : d # s.id => Took(s, n)[d] = conn[d]
  <1>1. conn \in [Ids -> Conns]
    BY DEF Inv, TypeInv
  <1> QED
    BY <1>1 DEF Took

\* The commands that end a connection, or leave its lists
LEMMA CloseOrder ==
    ASSUME Inv, Inv', OrderInv,
           CloseSocketError \/ CloseFd \/ ResumeSocket \/ TriggerWrite
    PROVE  OrderInv'
  <1>1. conn \in [Ids -> Conns] /\ slot \in [Slots -> Socket] /\ TypeInv
    BY DEF Inv, TypeInv
  <1>2. DOMAIN conn = Ids
    BY <1>1
  <1>3. ASSUME NEW s \in Socket PROVE ~Live(ForceClosed(Listed(s))) /\ ~Live(Closed(s))
    BY ListedEmptied DEF Emptied, Closed, Live, Socket
  <1>4. CASE CloseSocketError
    <2>1. PICK s : s = slot[At]
      OBVIOUS
    <2>2. Takes("K") /\ Leaves(ForceClosed(Listed(s))) /\ Ends(s, conn, FALSE) /\ th' = th
      BY <1>4, <2>1 DEF CloseSocketError
    <2>3. pipe # <<>> /\ Cmd.cmd \notin MsgCmds
      BY <2>2 DEF Takes, Cmd, MsgCmds
    <2>4. At \in Slots
      BY <2>3, <1>1, FirstCmd
    <2>5. ~Live(ForceClosed(Listed(s)))
      BY <2>1, <2>4, <1>1, <1>3
    <2>6. \A d \in Ids : d # s.id => SameConn(d)
      BY <2>2, <1>2, EndsConns
    <2> QED
      BY <2>1, <2>2, <2>3, <2>5, <2>6, LeavesOrder
  <1>5. CASE CloseFd
    <2>1. PICK s : s = slot[HASH_ID(job.id)]
      OBVIOUS
    <2>2. /\ poll = "close" /\ slot' = [slot EXCEPT ![HASH_ID(job.id)] = Closed(s)]
          /\ Ends(s, conn, job.drained) /\ th' = th /\ pipe' = pipe
      BY <1>5, <2>1 DEF CloseFd
    <2>3. job.id \in Ids
      BY <2>2 DEF Inv, JobInv, JobOK
    <2>4. PICK i \in Slots : i = HASH_ID(job.id)
      BY <2>3, HashSlot DEF Ids
    <2>5. PICK t : t = Closed(s)
      OBVIOUS
    <2>6. ~Live(t) /\ slot' = [slot EXCEPT ![i] = t] /\ s = slot[i] /\ PipeQuiet
      BY <2>1, <2>2, <2>4, <2>5, <1>1, <1>3 DEF PipeQuiet
    <2>7. \A d \in Ids : d # s.id => SameConn(d)
      BY <2>2, <1>2, EndsConns
    <2> QED
      BY <2>2, <2>6, <2>7, OneSlotOrder
  <1>6. CASE ResumeSocket \/ TriggerWrite
    <2>1. PICK s : s = slot[At]
      OBVIOUS
    <2>2. /\ Takes("R") \/ Takes("W")
          /\ th' = th /\ conn' = conn
      BY <1>6 DEF ResumeSocket, TriggerWrite
    <2>3. PICK t : /\ Leaves(t)
                   /\ \/ t = s
                      \/ s.type = "PACCEPT" /\ t = [s EXCEPT !.type = "CONNECTED"]
                      \/ t = [s EXCEPT !.writing = TRUE]
      BY <1>6, <2>1 DEF ResumeSocket, TriggerWrite
    <2>4. pipe # <<>> /\ Cmd.cmd \notin MsgCmds
      BY <2>2 DEF Takes, Cmd, MsgCmds
    <2>5. At \in Slots /\ s \in Socket
      BY <2>1, <2>4, <1>1, FirstCmd
    <2>6. SameLists(s, t) /\ (s.type = "HALFCLOSE" => t.type = "HALFCLOSE") /\ (Live(t) => Live(s))
      BY <2>3, <2>5 DEF SameLists, Socket, Live
    <2>7. SameConn(s.id)
      BY <2>2 DEF SameConn
    <2> QED
      BY <2>1, <2>2, <2>3, <2>4, <2>6, <2>7, SameConns, LeavesOrder
  <1> QED
    BY <1>4, <1>5, <1>6

\* An event that ends a connection, or leaves its lists
LEMMA EventOrder ==
    ASSUME Inv, Inv', OrderInv, NEW e \in ev,
           (\E ok \in BOOLEAN : ReportConnect(e, ok)) \/ WriteError(e)
    PROVE  OrderInv'
  <1>1. conn \in [Ids -> Conns] /\ slot \in [Slots -> Socket] /\ TypeInv
    BY DEF Inv, TypeInv
  <1>2. DOMAIN conn = Ids
    BY <1>1
  <1>3. Dispatch(e) /\ e.from \in Slots
    BY DEF ReportConnect, WriteError, Transfers, Done
  <1>4. th' = th /\ PipeQuiet
    BY <1>3 DEF Dispatch, PipeQuiet
  <1>5. PICK i \in Slots : i = e.from
    BY <1>3
  <1>6. PICK s \in Socket : s = slot[i]
    BY <1>1
  <1>7. \/ /\ \/ slot' = [slot EXCEPT ![i] = ForceClosed(s)]
              \/ slot' = [slot EXCEPT ![i] = ForceClosed(Listed(s))]
           /\ Ends(s, conn, FALSE)
        \/ \E b \in BOOLEAN : /\ slot' = [slot EXCEPT ![i].type = "CONNECTED", ![i].writing = b]
                              /\ s.type = "CONNECTING" /\ conn' = conn
    <2>1. ASSUME NEW ok \in BOOLEAN, ReportConnect(e, ok)
          PROVE  \/ slot' = [slot EXCEPT ![i] = ForceClosed(s)] /\ Ends(s, conn, FALSE)
                 \/ \E b \in BOOLEAN :
                        /\ slot' = [slot EXCEPT ![i].type = "CONNECTED", ![i].writing = b]
                        /\ s.type = "CONNECTING" /\ conn' = conn
      <3>1. CASE ok = TRUE
        <4>1. PICK b \in BOOLEAN : b = (s.writing /\ ~nomore_sending_data(s))
          OBVIOUS
        <4>2. /\ slot' = [slot EXCEPT ![i].type = "CONNECTED",
                                      ![i].writing = @ /\ ~nomore_sending_data(s)]
              /\ s.type = "CONNECTING" /\ conn' = conn
          BY <2>1, <3>1, <1>5, <1>6 DEF ReportConnect
        <4>3. slot' = [slot EXCEPT ![i].type = "CONNECTED", ![i].writing = b]
          BY <4>1, <4>2, <1>6
        <4> QED
          BY <4>2, <4>3
      <3>2. CASE ok = FALSE
        BY <2>1, <3>2, <1>5, <1>6 DEF ReportConnect
      <3> QED
        BY <3>1, <3>2
    <2>2. ASSUME WriteError(e)
          PROVE  slot' = [slot EXCEPT ![i] = ForceClosed(Listed(s))] /\ Ends(s, conn, FALSE)
      BY <2>2, <1>5, <1>6 DEF WriteError
    <2> QED
      BY <2>1, <2>2
  <1>8. ASSUME NEW t, t = ForceClosed(s) \/ t = ForceClosed(Listed(s)),
               slot' = [slot EXCEPT ![i] = t], Ends(s, conn, FALSE)
        PROVE  OrderInv'
    <2>1. ~Live(t)
      BY <1>8, ForceClosedEmptied, ListedEmptied DEF Emptied, Live
    <2>2. \A d \in Ids : d # s.id => SameConn(d)
      BY <1>2, <1>8, EndsConns
    <2> QED
      BY <2>1, <2>2, <1>4, <1>6, <1>8, OneSlotOrder
  <1>9. ASSUME NEW b \in BOOLEAN, slot' = [slot EXCEPT ![i].type = "CONNECTED", ![i].writing = b],
               s.type = "CONNECTING", conn' = conn
        PROVE  OrderInv'
    <2>1. PICK t : t = [s EXCEPT !.type = "CONNECTED", !.writing = b]
      OBVIOUS
    <2>2. slot' = [slot EXCEPT ![i] = t]
      BY <2>1, <1>1, <1>6, <1>9
    <2>3. SameLists(s, t) /\ Live(s) /\ s.type # "HALFCLOSE"
      BY <2>1, <1>9 DEF SameLists, Socket, Live
    <2>4. SameConn(s.id)
      BY <1>9 DEF SameConn
    <2> QED
      BY <2>2, <2>3, <2>4, <1>4, <1>6, <1>9, SameConns, OneSlotOrder
  <1> QED
    BY <1>7, <1>8, <1>9

\* inc_sending_ref
LEMMA IncOrder ==
    ASSUME Inv, Inv', OrderInv, NEW v \in Services, IncSending(v)
    PROVE  OrderInv'
  <1>1. slot \in [Slots -> Socket] /\ th \in [Services -> Threads] /\ th' \in [Services -> Threads]
    BY DEF Inv, TypeInv
  <1>2. /\ th[v].pc = "inc" /\ th' = [th EXCEPT ![v].pc = "push"] /\ conn' = conn /\ pipe' = pipe
    BY DEF IncSending
  <1>3. \A id \in Ids : SameHands(th, th', id)
    <2>1. ASSUME NEW id, NEW y \in Services
          PROVE  /\ th[y].n <= th'[y].n
                 /\ \A m : Held(th'[y], id, m) <=> Held(th[y], id, m)
                 /\ th'[y].pc = "write" /\ th'[y].id = id =>
                        th[y].pc = "write" /\ th[y].id = id /\ th'[y].msg = th[y].msg
      <3>1. th[y] \in Threads /\ th[y].n <= th[y].n
        BY <1>1 DEF Threads
      <3>2. CASE y # v
        <4>1. th'[y] = th[y]
          BY <3>2, <1>1, <1>2
        <4> QED
          BY <4>1, <3>1
      <3>3. CASE y = v
        <4>1. PICK t \in Threads : t = th[v]
          BY <1>1
        <4>2. PICK u : u = [t EXCEPT !.pc = "push"]
          OBVIOUS
        <4>3. th'[v] = u
          BY <4>1, <4>2, <1>1, <1>2
        <4>4. u.n = t.n /\ u.id = t.id /\ u.msg = t.msg /\ u.cmd = t.cmd /\ u.pc = "push"
          BY <4>2 DEF Threads
        <4>5. t.pc = "inc"
          BY <4>1, <1>2
        <4>6. \A m : Held(u, id, m) <=> Held(t, id, m)
          BY <4>4, <4>5 DEF Held
        <4> QED
          BY <3>1, <3>3, <4>1, <4>3, <4>4, <4>6
      <3> QED
        BY <3>2, <3>3
    <2> QED
      BY <2>1 DEF SameHands
  <1>4. PICK i : i = HASH_ID(th[v].id)
    OBVIOUS
  <1>5. slot' = slot \/ slot' = [slot EXCEPT ![i].sending = @ + 1]
    BY <1>4 DEF IncSending
  <1>6. ASSUME NEW j \in Slots
        PROVE  SameLists(slot[j], slot'[j]) /\ slot'[j].type = slot[j].type
    <2>1. slot'[j] = slot[j] \/ slot'[j] = [slot[j] EXCEPT !.sending = @ + 1]
      BY <1>1, <1>5
    <2> QED
      BY <2>1, <1>1 DEF SameLists, Socket
  <1>7. ASSUME NEW j \in Slots, Live(slot'[j])
        PROVE  /\ Live(slot[j]) /\ SameLists(slot[j], slot'[j]) /\ SameConn(slot[j].id)
               /\ slot[j].type = "HALFCLOSE" => slot'[j].type = "HALFCLOSE"
    BY <1>2, <1>6, <1>7 DEF Live, SameConn
  <1>8. PipeQuiet
    BY <1>2 DEF PipeQuiet
  <1> QED
    BY <1>3, <1>7, <1>8, QuietOrder

\* A slot that does not change, with a connection that does not
LEMMA UntouchedStays ==
    ASSUME Inv, PipeQuiet, th' = th, NEW j \in Slots, Live(slot[j]), slot'[j] = slot[j],
           SameConn(slot[j].id)
    PROVE  Stays(j)
  <1>1. th \in [Services -> Threads]
    BY DEF Inv, TypeInv
  <1>2. SameHands(th, th', slot[j].id)
    BY <1>1, EqualHands
  <1>3. PipeLess(pipe, pipe', slot[j].id) /\ PipeMore(pipe, pipe', slot[j].id)
    BY QuietPipe DEF Inv
  <1>4. SameLists(slot[j], slot'[j])
    BY DEF SameLists
  <1> QED
    BY <1>2, <1>3, <1>4, KeepsStays

\* Slot i comes to t, and its connection to c.
LEMMA SlotOrder ==
    ASSUME Inv, Inv', OrderInv, PipeQuiet, th' = th, NEW i \in Slots, NEW s, s = slot[i], Live(s),
           NEW t, NEW c, slot' = [slot EXCEPT ![i] = t], conn' = [conn EXCEPT ![s.id] = c],
           t.id = s.id, OrderOK(t, c, pipe', th)
    PROVE  OrderInv'
  <1>1. slot \in [Slots -> Socket] /\ conn \in [Ids -> Conns] /\ s.id \in Ids
    BY LiveSlot DEF Inv, TypeInv
  <1>2. slot'[i] = t /\ \A j \in Slots : j # i => slot'[j] = slot[j]
    BY <1>1
  <1>3. conn'[s.id] = c /\ \A d \in Ids : d # s.id => SameConn(d)
    BY <1>1 DEF SameConn
  <1>4. OrderOK(slot'[i], conn'[slot'[i].id], pipe', th')
    BY <1>2, <1>3
  <1>5. ASSUME NEW j \in Slots, Live(slot'[j]), j # i PROVE Stays(j)
    <2>1. slot'[j] = slot[j] /\ Live(slot[j])
      BY <1>2, <1>5
    <2>2. slot[j].id \in Ids /\ slot[j].id # s.id
      BY <2>1, <1>5, OtherIds
    <2>3. SameConn(slot[j].id)
      BY <2>2, <1>3
    <2> QED
      BY <2>1, <2>3, UntouchedStays
  <1> QED
    BY <1>4, <1>5, OrderStep

\* The slot b with the connection c has the line of s.
Follows(s, b, c) ==
    /\ b \in Socket /\ b.type = s.type /\ b.id = s.id /\ b.lost = s.lost
    /\ c \in Conns /\ c.sent = conn[s.id].sent
    /\ Line(b, c.wire) = Line(s, conn[s.id].wire)
    /\ Range(Pending(b)) \subseteq Range(Pending(s)) /\ Range(b.low) \subseteq Range(s.low)

\* The kernel takes n units of a connection that stays: the line is the same.
LEMMA TookFollows ==
    ASSUME Inv, NEW i \in Slots, NEW s, s = slot[i], Live(s), ~s.lost,
           NEW n \in 0..Len(Pending(s)), NEW b, b = SendBuffer(s, n), b.type # "INVALID"
    PROVE  \E c : Took(s, n) = [conn EXCEPT ![s.id] = c] /\ Follows(s, b, c)
  <1>3. PICK w \in Seq(Units) : w = conn[s.id].wire
    BY LiveSlot
  <1>4. /\ s \in Socket /\ Blocks(w \o High(s)) /\ Blocks(s.low)
    BY <1>3, LiveSlot DEF WireOK
  <1>5. /\ b \in Socket /\ b.type = s.type /\ b.id = s.id
        /\ b.lost = s.lost /\ Pending(b) = SubSeq(Pending(s), n + 1, Len(Pending(s)))
    BY <1>4, SendBufferLists DEF Emptied
  <1>6. Range(b.low) \subseteq Range(s.low)
    BY <1>4, WrittenLow
  <1>7. PICK P \in Seq(Units) : P = Pending(s)
    BY <1>4, Lists
  <1>8. PICK e \in Nat : e = Len(P) /\ n \in Nat /\ n <= e
    BY <1>7, LenProperties
  <1>9. Pending(b) = SubSeq(P, n + 1, e)
    BY <1>5, <1>7, <1>8
  <1>10. PICK c \in Conns :
             /\ Took(s, n) = [conn EXCEPT ![s.id] = c]
             /\ c.wire = w \o SubSeq(P, 1, n) /\ c.sent = conn[s.id].sent
    <2>1. PICK c \in Conns :
                 /\ Took(s, n) = [conn EXCEPT ![s.id] = c]
                 /\ c.wire = conn[s.id].wire \o SubSeq(Pending(s), 1, n)
                 /\ c.sent = conn[s.id].sent /\ c.closer = conn[s.id].closer
                 /\ c.promise = conn[s.id].promise
      BY TookConn
    <2> QED
      BY <2>1, <1>3, <1>7
  <1>13. Line(b, c.wire) = Line(s, w)
    <2>1. n <= e /\ e <= Len(P) /\ 0 <= n /\ n <= Len(P) /\ n \in Nat /\ 0 \in Nat
      BY <1>8
    <2>2. SubSeq(P, 0 + 1, n) \in Seq(Units) /\ SubSeq(P, n + 1, e) \in Seq(Units)
      BY <2>1, Part
    <2>3. SubSeq(P, 1, n) \in Seq(Units)
      BY <2>2
    <2>4. n \in 0..Len(P)
      BY <1>8
    <2>5. SubSeq(P, 1, n) \o SubSeq(P, n + 1, Len(P)) = P
      BY <2>4, Split
    <2>6. SubSeq(P, 1, n) \o SubSeq(P, n + 1, e) = P
      BY <2>5, <1>8
    <2>7. PICK x \in Seq(Units) : x = SubSeq(P, 1, n)
      BY <2>3
    <2>8. PICK y \in Seq(Units) : y = SubSeq(P, n + 1, e)
      BY <2>2
    <2>9. (w \o x) \o y = w \o (x \o y)
      BY Assoc
    <2> QED
      BY <2>6, <2>7, <2>8, <2>9, <1>7, <1>9, <1>10 DEF Line
  <1>14. Range(Pending(b)) \subseteq Range(Pending(s))
    <2>1. n <= e /\ e <= Len(P) /\ n \in Nat
      BY <1>8
    <2>2. Range(SubSeq(P, n + 1, e)) \subseteq Range(P)
      BY <2>1, RangePart
    <2> QED
      BY <2>2, <1>7, <1>9
  <1> QED
    BY <1>3, <1>5, <1>6, <1>10, <1>13, <1>14 DEF Follows

\* ... in order still, also when it is half closed
LEMMA FollowsOrder ==
    ASSUME Inv, OrderInv, PipeQuiet, NEW i \in Slots, NEW s, s = slot[i], Live(s),
           NEW b, NEW c, Follows(s, b, c), NEW type \in {"HALFCLOSE", s.type}
    PROVE  OrderAt(s.id, type, Line(b, c.wire), Gone(b), Range(Pending(b)), Range(b.low), c.sent,
                   pipe', th)
  <1>1. th \in [Services -> Threads] /\ s.id \in Ids
    BY LiveSlot DEF Inv, TypeInv
  <1>2. PICK sent : sent = conn[s.id].sent
    OBVIOUS
  <1>3. sent \subseteq Msgs
    BY <1>1, <1>2, SentMsgs DEF Inv
  <1>4. OrderAt(s.id, s.type, Line(s, conn[s.id].wire), Gone(s), Range(Pending(s)), Range(s.low),
                sent, pipe, th)
    BY <1>2 DEF OrderInv, OrderOK
  <1>5. PipeLess(pipe, pipe', s.id) /\ PipeMore(pipe, pipe', s.id) /\ SameHands(th, th, s.id)
    BY <1>1, QuietPipe, EqualHands DEF Inv
  <1>6. Range(Pending(b)) \subseteq Range(Pending(s)) /\ Range(b.low) \subseteq Range(s.low)
    BY DEF Follows
  <1>7. type = "HALFCLOSE" \/ s.type # "HALFCLOSE"
    OBVIOUS
  <1>8. OrderAt(s.id, type, Line(s, conn[s.id].wire), Gone(s), Range(Pending(b)), Range(b.low),
                sent, pipe', th)
    BY <1>1, <1>3, <1>4, <1>5, <1>6, <1>7, CarryOrder
  <1>9. Gone(b) = Gone(s) /\ Line(b, c.wire) = Line(s, conn[s.id].wire) /\ c.sent = sent
    BY <1>2 DEF Follows, Gone
  <1> QED
    BY <1>8, <1>9

\* The lists of a slot with the connection c are freed.
LEMMA FreedOrder ==
    ASSUME NEW b \in Socket, ~b.lost, NEW c \in Conns, NEW p, NEW T,
           OrderAt(b.id, b.type, Line(b, c.wire), Gone(b), Range(Pending(b)), Range(b.low), c.sent,
                   p, T)
    PROVE  OrderOK(Freed(b), c, p, T)
  <1>1. PICK w \in Seq(Units) : w = c.wire
    BY DEF Conns
  <1>2. PICK d \in Seq(Units) : d = b.dw_buffer
    BY DEF Socket
  <1>3. PICK h \in Seq(Units) : h = b.high
    BY DEF Socket
  <1>4. PICK l \in Seq(Units) : l = b.low
    BY DEF Socket
  <1>5. <<>> \in Seq(Units)
    BY EmptySeq
  <1>6. PICK t : t = Freed(b)
    OBVIOUS
  <1>7. /\ t.id = b.id /\ t.type = b.type /\ t.high = <<>> /\ t.low = <<>> /\ t.dw_buffer = d
        /\ t.lost = ~send_buffer_empty(b)
    BY <1>2, <1>6 DEF Freed, Socket
  <1>8. Pending(t) = d
    BY <1>5, <1>7, ConcatEmptySeq DEF Pending, High
  <1>9. CASE send_buffer_empty(b)
    <2>1. b.high = <<>> /\ b.low = <<>> /\ t.low = b.low /\ t.lost = b.lost
      <3>1. t.lost \in BOOLEAN /\ b.lost \in BOOLEAN /\ ~t.lost
        BY <1>7, <1>9 DEF Socket
      <3> QED
        BY <3>1, <1>7, <1>9 DEF send_buffer_empty
    <2>2. Pending(b) = Pending(t)
      BY <2>1, <1>2, <1>5, <1>8, ConcatEmptySeq DEF Pending, High
    <2>3. Line(t, c.wire) = Line(b, c.wire) /\ Gone(t) = Gone(b)
      BY <2>1, <2>2 DEF Line, Gone
    <2> QED
      BY <1>6, <1>7, <2>1, <2>2, <2>3 DEF OrderOK
  <1>10. CASE ~send_buffer_empty(b)
    <2>1. PICK x \in Seq(Units) : x = w \o d
      BY Concat
    <2>2. PICK y \in Seq(Units) : y = h \o l
      BY Concat
    <2>3. Pending(b) = (d \o h) \o l
      BY <1>2, <1>3, <1>4 DEF Pending, High
    <2>4. (d \o h) \o l = d \o y
      BY <2>2, Assoc
    <2>5. Line(b, c.wire) = w \o (d \o y)
      BY <1>1, <2>3, <2>4 DEF Line
    <2>6. w \o (d \o y) = x \o y
      <3>1. (w \o d) \o y = w \o (d \o y)
        BY Assoc
      <3> QED
        BY <3>1, <2>1
    <2>7. Range(Pending(t)) \subseteq Range(Pending(b))
      BY <1>8, <2>3, <2>4, RangeConcat
    <2>8. Range(t.low) \subseteq Range(b.low)
      <3>1. ASSUME NEW q, q = <<>> PROVE Range(q) = {}
        BY <3>1 DEF Range
      <3> QED
        BY <3>1, <1>7
    <2>9. c.sent \subseteq Msgs
      BY DEF Conns
    <2>10. PICK q : q = Line(b, c.wire)
      OBVIOUS
    <2>11. q = x \o y
      BY <2>5, <2>6, <2>10
    <2>12. OrderAt(b.id, b.type, x, Units, Range(Pending(t)), Range(t.low), c.sent, p, T)
      <3>1. PICK id, type, F, sent :
                id = b.id /\ type = b.type /\ F = Gone(b) /\ sent = c.sent
        OBVIOUS
      <3>2. PICK pend, pend2, low, low2 :
                /\ pend = Range(Pending(b)) /\ pend2 = Range(Pending(t))
                /\ low = Range(b.low) /\ low2 = Range(t.low)
        OBVIOUS
      <3>3. OrderAt(id, type, q, F, pend, low, sent, p, T)
        BY <3>1, <3>2, <2>10
      <3>4. pend2 \subseteq pend /\ low2 \subseteq low /\ sent \subseteq Msgs
        BY <3>1, <3>2, <2>7, <2>8, <2>9
      <3>5. OrderAt(id, type, x, Units, pend2, low2, sent, p, T)
        BY <3>3, <3>4, <2>11, ShorterOrder
      <3> QED
        BY <3>1, <3>2, <3>5
    <2>13. Line(t, c.wire) = x /\ Gone(t) = Units
      BY <1>1, <1>7, <1>8, <1>10, <2>1 DEF Line, Gone
    <2> QED
      BY <1>6, <1>7, <2>12, <2>13 DEF OrderOK
  <1> QED
    BY <1>9, <1>10

\* The connection of slot i has come to b and c: it stays so, is half closed, or
\* its lists are freed.
LEMMA PassedOrder ==
    ASSUME Inv, Inv', OrderInv, PipeQuiet, th' = th, NEW i \in Slots, NEW s, s = slot[i], Live(s),
           ~s.lost, NEW b, NEW c, Follows(s, b, c), conn' = [conn EXCEPT ![s.id] = c],
           NEW t, t = b \/ t = [b EXCEPT !.type = "HALFCLOSE"] \/ t = Freed(b),
           slot' = [slot EXCEPT ![i] = t]
    PROVE  OrderInv'
  <1>1. /\ b \in Socket /\ b.type = s.type /\ b.id = s.id /\ ~b.lost
        /\ c \in Conns
    BY DEF Follows
  <1>2. t.id = s.id
    BY <1>1 DEF Freed, Socket
  <1>3. OrderOK(t, c, pipe', th)
    <2>1. CASE t = b
      <3>1. OrderAt(s.id, s.type, Line(b, c.wire), Gone(b), Range(Pending(b)), Range(b.low), c.sent,
                    pipe', th)
        BY FollowsOrder
      <3> QED
        BY <2>1, <3>1, <1>1 DEF OrderOK
    <2>2. CASE t = [b EXCEPT !.type = "HALFCLOSE"]
      <3>1. OrderAt(s.id, "HALFCLOSE", Line(b, c.wire), Gone(b), Range(Pending(b)), Range(b.low),
                    c.sent, pipe', th)
        BY FollowsOrder
      <3>2. SameLists(b, t) /\ t.type = "HALFCLOSE"
        BY <2>2, <1>1 DEF SameLists, Socket
      <3>3. Pending(t) = Pending(b) /\ t.low = b.low /\ Gone(t) = Gone(b)
        BY <3>2 DEF SameLists, Pending, High, Gone
      <3>4. Line(t, c.wire) = Line(b, c.wire)
        BY <3>3 DEF Line
      <3> QED
        BY <3>1, <3>2, <3>3, <3>4, <1>2 DEF OrderOK
    <2>3. CASE t = Freed(b)
      <3>1. OrderAt(s.id, s.type, Line(b, c.wire), Gone(b), Range(Pending(b)), Range(b.low), c.sent,
                    pipe', th)
        BY FollowsOrder
      <3>2. OrderAt(b.id, b.type, Line(b, c.wire), Gone(b), Range(Pending(b)), Range(b.low), c.sent,
                    pipe', th)
        BY <3>1, <1>1
      <3> QED
        BY <2>3, <3>2, <1>1, FreedOrder
    <2> QED
      BY <2>1, <2>2, <2>3
  <1> QED
    BY <1>2, <1>3, SlotOrder

\* The connection as it is follows itself.
LEMMA SelfFollows ==
    ASSUME Inv, NEW i \in Slots, NEW s, s = slot[i], Live(s)
    PROVE  Follows(s, s, conn[s.id])
  BY LiveSlot DEF Follows

\* The peer has ended the connection.
LEMMA ForwardEndOrder ==
    ASSUME Inv, Inv', OrderInv, NEW e \in ev, ForwardEnd(e)
    PROVE  OrderInv'
  <1>1. PICK s : s = slot[e.from]
    OBVIOUS
  <1>2. /\ Dispatch(e) /\ e.from \in Slots /\ Live(s) /\ conn' = conn
        /\ slot' = [slot EXCEPT ![e.from] = Freed(s)]
    BY <1>1 DEF ForwardEnd, Transfers, Live
  <1>3. th' = th /\ PipeQuiet /\ poll # "close"
    BY <1>2 DEF Dispatch, PipeQuiet
  <1>4. ~s.lost /\ s.id \in Ids
    BY <1>1, <1>2, <1>3, LiveSlot
  <1>5. conn' = [conn EXCEPT ![s.id] = conn[s.id]]
    BY <1>2, <1>4 DEF Inv, TypeInv
  <1>6. Follows(s, s, conn[s.id])
    BY <1>1, <1>2, SelfFollows
  <1>7. PICK i \in Slots : i = e.from
    BY <1>2
  <1>8. PICK t : t = Freed(s)
    OBVIOUS
  <1> QED
    BY <1>1, <1>2, <1>3, <1>4, <1>5, <1>6, <1>7, <1>8, PassedOrder

\* send_buffer, when the socket is writable
LEMMA WriteOrder ==
    ASSUME Inv, Inv', OrderInv, NEW e \in ev, NEW n, WriteEvent(e, n)
    PROVE  OrderInv'
  <1>1. slot \in [Slots -> Socket]
    BY DEF Inv, TypeInv
  <1>2. Transfers(e, "write")
    BY DEF WriteEvent
  <1>3. PICK i \in Slots : i = e.from
    BY <1>2 DEF Transfers
  <1>4. PICK s \in Socket : s = slot[i]
    BY <1>1
  <1>5. PICK b : b = SendBuffer(s, n)
    OBVIOUS
  <1>6. th' = th /\ PipeQuiet /\ poll # "close"
    BY DEF WriteEvent, Done, Dispatch, PipeQuiet
  <1>7. Live(s)
    BY <1>2, <1>3, <1>4 DEF Transfers, Live
  <1>8. /\ n \in 0..Len(Pending(s)) /\ slot' = [slot EXCEPT ![i] = b]
        /\ IF b.type = "INVALID" THEN Ends(s, Took(s, n), TRUE) ELSE conn' = Took(s, n)
    BY <1>3, <1>4, <1>5 DEF WriteEvent
  <1>9. CASE b.type = "INVALID"
    <2>1. \A d \in Ids : d # s.id => SameConn(d)
      <3>1. PICK drained : drained = TRUE
        OBVIOUS
      <3>2. Ends(s, Took(s, n), drained)
        BY <3>1, <1>8, <1>9
      <3> QED
        BY <3>2, EndsConns, TookConns
    <2>2. ~Live(b)
      BY <1>9 DEF Live
    <2> QED
      BY <2>1, <2>2, <1>4, <1>6, <1>8, OneSlotOrder
  <1>10. CASE b.type # "INVALID"
    <2>1. ~s.lost
      BY <1>4, <1>6, <1>7, LiveSlot
    <2>2. PICK c : Took(s, n) = [conn EXCEPT ![s.id] = c] /\ Follows(s, b, c)
      BY <2>1, <1>4, <1>5, <1>7, <1>8, <1>10, TookFollows
    <2>3. conn' = [conn EXCEPT ![s.id] = c]
      BY <2>2, <1>8, <1>10
    <2> QED
      BY <2>1, <2>2, <2>3, <1>4, <1>6, <1>7, <1>8, PassedOrder
  <1> QED
    BY <1>9, <1>10

\* close_socket
LEMMA CloseSocketOrder ==
    ASSUME Inv, Inv', OrderInv, NEW n, CloseSocket(n)
    PROVE  OrderInv'
  <1>1. PICK s : s = slot[At]
    OBVIOUS
  <1>2. PICK sends : sends = (s.lock = Nobody /\ ~nomore_sending_data(s))
    OBVIOUS
  <1>3. PICK b : b = IF sends THEN SendBuffer(s, n) ELSE s
    OBVIOUS
  <1>4. /\ poll = "ctrl" /\ pipe # <<>> /\ Cmd.cmd = "K" /\ IsSocket(s, Cmd.id)
        /\ n \in 0..(IF sends THEN Len(Pending(s)) ELSE 0) /\ th' = th
    BY <1>1, <1>2 DEF CloseSocket, Takes, Cmd
  <1>5. \/ b.type = "INVALID" /\ Leaves(b) /\ Ends(s, Took(s, n), TRUE)
        \/ /\ b.type # "INVALID" /\ conn' = Took(s, n)
           /\ Leaves(Freed(b)) \/ Leaves([b EXCEPT !.type = "HALFCLOSE"])
    BY <1>1, <1>2, <1>3 DEF CloseSocket
  <1>6. Cmd = pipe[1] /\ At \in Slots /\ Cmd.cmd \notin MsgCmds
    BY <1>4, FirstCmd DEF Inv, MsgCmds
  <1>7. Live(s) /\ ~s.lost /\ s.id \in Ids
    BY <1>1, <1>4, <1>6, TakenLive, LiveSlot
  <1>8. CASE b.type = "INVALID"
    <2>1. PICK drained : drained = TRUE
      OBVIOUS
    <2>2. Ends(s, Took(s, n), drained) /\ Leaves(b)
      BY <2>1, <1>5, <1>8
    <2>3. \A d \in Ids : d # s.id => SameConn(d)
      BY <2>2, EndsConns, TookConns
    <2>4. ~Live(b)
      BY <1>8 DEF Live
    <2> QED
      BY <2>2, <2>3, <2>4, <1>1, <1>4, <1>6, LeavesOrder
  <1>9. CASE b.type # "INVALID"
    <2>1. PICK c : Took(s, n) = [conn EXCEPT ![s.id] = c] /\ Follows(s, b, c)
      <3>1. CASE sends
        BY <3>1, <1>1, <1>3, <1>4, <1>6, <1>7, <1>9, TookFollows
      <3>2. CASE ~sends
        <4>1. b = s /\ n = 0
          BY <3>2, <1>3, <1>4
        <4> QED
          BY <4>1, <1>1, <1>6, <1>7, TookNone, SelfFollows
      <3> QED
        BY <3>1, <3>2
    <2>2. conn' = [conn EXCEPT ![s.id] = c]
      BY <2>1, <1>5, <1>9
    <2>3. PICK t : /\ t = Freed(b) \/ t = [b EXCEPT !.type = "HALFCLOSE"]
                   /\ Leaves(t)
      BY <1>5, <1>9
    <2>4. PICK i \in Slots : i = At
      BY <1>6
    <2>5. slot' = [slot EXCEPT ![i] = t] /\ PipeQuiet
      BY <2>3, <2>4, <1>4, <1>6 DEF Leaves, PipeQuiet, Drops
    <2> QED
      BY <2>1, <2>2, <2>3, <2>4, <2>5, <1>1, <1>4, <1>7, PassedOrder
  <1> QED
    BY <1>8, <1>9

\* A connection begins in slot i, or none does.
LEMMA BeginOrder ==
    ASSUME Inv, Inv', OrderInv, PipeQuiet, th' = th, conn' = conn, NEW i \in Slots, NEW t,
           slot' = [slot EXCEPT ![i] = t],
           Live(t) =>
               /\ t.id \in Ids /\ conn[t.id] = NoConn
               /\ t.high = <<>> /\ t.low = <<>> /\ t.dw_buffer = <<>>
               /\ InPipe(pipe, t.id) = {}
               /\ \A v \in Services : th[v].pc = "idle" \/ th[v].id # t.id
    PROVE  OrderInv'
  <1>1. slot \in [Slots -> Socket]
    BY DEF Inv, TypeInv
  <1>2. slot'[i] = t /\ \A j \in Slots : j # i => slot'[j] = slot[j]
    BY <1>1
  <1>3. ASSUME Live(t) PROVE OrderOK(t, conn[t.id], pipe', th)
    <2>1. InPipe(pipe', t.id) = {}
      <3>1. PipeLess(pipe, pipe', t.id)
        BY QuietPipe DEF Inv
      <3> QED
        BY <3>1, <1>3 DEF PipeLess
    <2>2. OrderAt(t.id, t.type, <<>>, Gone(t), Range(<<>>), Range(<<>>), {}, pipe', th)
      BY <1>3, <2>1, FreshOrder
    <2>3. conn[t.id].wire = <<>> /\ conn[t.id].sent = {}
      BY <1>3 DEF NoConn
    <2>4. <<>> \in Seq(Units)
      BY EmptySeq
    <2>5. t.high = <<>> /\ t.low = <<>> /\ t.dw_buffer = <<>>
      BY <1>3
    <2>6. Pending(t) = <<>>
      BY <2>4, <2>5, ConcatEmptySeq DEF Pending, High
    <2>7. Line(t, conn[t.id].wire) = <<>>
      BY <2>3, <2>4, <2>6, ConcatEmptySeq DEF Line
    <2> QED
      BY <2>2, <2>3, <2>5, <2>6, <2>7 DEF OrderOK
  <1>4. ASSUME NEW j \in Slots, Live(slot'[j])
        PROVE  Stays(j) \/ OrderOK(slot'[j], conn'[slot'[j].id], pipe', th')
    <2>1. CASE j = i
      BY <2>1, <1>2, <1>3, <1>4
    <2>2. CASE j # i
      <3>1. slot'[j] = slot[j] /\ Live(slot[j])
        BY <2>2, <1>2, <1>4
      <3>2. SameConn(slot[j].id)
        BY DEF SameConn
      <3> QED
        BY <3>1, <3>2, UntouchedStays
    <2> QED
      BY <2>1, <2>2
  <1> QED
    BY <1>4, OrderStep

\* open_socket
LEMMA OpenOrder ==
    ASSUME Inv, Inv', OrderInv, NEW type \in {"INVALID", "CONNECTING", "CONNECTED"},
           OpenSocket(type)
    PROVE  OrderInv'
  <1>1. TypeInv /\ SlotInv /\ PipeInv /\ KnownInv /\ SenderInv
    BY DEF Inv
  <1>2. PICK t : /\ Leaves(t)
                 /\ t = IF type = "INVALID" THEN [slot[At] EXCEPT !.type = type]
                                            ELSE NewFd(slot[At], Cmd.id, type)
    BY DEF OpenSocket
  <1>3. pipe # <<>> /\ Cmd.cmd = "O" /\ th' = th /\ conn' = conn
    BY DEF OpenSocket, Takes, Cmd
  <1>4. Cmd = pipe[1] /\ Cmd.id \in Ids /\ 1 \in 1..Len(pipe) /\ At = HASH_ID(Cmd.id) /\ At \in Slots
    BY <1>1, <1>3, FirstCmd
  <1>5. PICK id \in Ids : id = Cmd.id
    BY <1>4
  <1>6. PICK i \in Slots : i = At /\ i = HASH_ID(id)
    BY <1>4, <1>5
  <1>7. PICK s \in Socket : s = slot[i]
    BY <1>1 DEF TypeInv
  <1>8. s.type = "RESERVE" /\ s.id = id
    BY <1>1, <1>3, <1>4, <1>5, <1>6, <1>7 DEF PipeInv, CmdOK
  <1>9. ~s.tcp /\ s.high = <<>> /\ s.low = <<>> /\ s.dw_buffer = <<>>
    BY <1>1, <1>7, <1>8 DEF SlotInv, SlotOK, Live
  <1>10. conn[id] = NoConn
    <2>1. KnownOK(id, s, known[id], conn[id])
      BY <1>1, <1>6, <1>7 DEF KnownInv
    <2> QED
      BY <2>1, <1>8 DEF KnownOK, Live
  <1>11. InPipe(pipe, id) = {}
    <2>1. ASSUME NEW k \in InPipe(pipe, id) PROVE FALSE
      <3>1. k \in 1..Len(pipe) /\ pipe[k].id = id /\ pipe[k].cmd # "O"
        BY DEF InPipe, MsgCmds
      <3>2. CmdOK(pipe[k], s, alloc_id)
        BY <3>1, <1>1, <1>6, <1>7 DEF PipeInv
      <3> QED
        BY <3>1, <3>2, <1>8, <1>9 DEF CmdOK
    <2> QED
      BY <2>1
  <1>12. ASSUME NEW v \in Services, th[v].pc # "idle", th[v].id = id PROVE FALSE
    <2>1. SenderOK(th[v], s, alloc_id)
      BY <1>1, <1>6, <1>7, <1>12 DEF SenderInv
    <2> QED
      BY <2>1, <1>8, <1>9, <1>12 DEF SenderOK
  <1>13. slot' = [slot EXCEPT ![i] = t] /\ PipeQuiet
    BY <1>2, <1>3, <1>4, <1>6 DEF Leaves, PipeQuiet, Drops, MsgCmds
  <1>14. Live(t) => t.id = id /\ t.high = <<>> /\ t.low = <<>> /\ t.dw_buffer = <<>>
    <2>1. CASE type = "INVALID"
      <3>1. t = [s EXCEPT !.type = "INVALID"]
        BY <2>1, <1>2, <1>6, <1>7
      <3> QED
        BY <3>1 DEF Live, Socket
    <2>2. CASE type # "INVALID"
      <3>1. t = NewFd(s, id, type)
        BY <2>2, <1>2, <1>5, <1>6, <1>7
      <3> QED
        BY <3>1, <1>9 DEF NewFd, Socket
    <2> QED
      BY <2>1, <2>2
  <1>15. ASSUME Live(t)
         PROVE  /\ t.id \in Ids /\ conn[t.id] = NoConn
                /\ t.high = <<>> /\ t.low = <<>> /\ t.dw_buffer = <<>>
                /\ InPipe(pipe, t.id) = {}
                /\ \A v \in Services : th[v].pc = "idle" \/ th[v].id # t.id
    BY <1>10, <1>11, <1>12, <1>14, <1>15
  <1> QED
    BY <1>3, <1>13, <1>15, BeginOrder

\* report_accept
LEMMA AcceptOrder ==
    ASSUME Inv, Inv', OrderInv, NEW e \in ev, ReportAccept(e)
    PROVE  OrderInv'
  <1>1. conn' = conn /\ Dispatch(e)
    BY DEF ReportAccept, Done
  <1>2. th' = th /\ PipeQuiet
    BY <1>1 DEF Dispatch, PipeQuiet
  <1>3. CASE slot' = slot
    BY <1>1, <1>2, <1>3, SameConns, StillOrder
  <1>4. ASSUME NEW id \in Ids, IsNextId(id),
               slot' = [slot EXCEPT ![HASH_ID(id)] = NewFd(Reserved(@, id), id, "PACCEPT")]
        PROVE  OrderInv'
    <2>1. PICK i \in Slots : i = HASH_ID(id)
      BY HashSlot DEF Ids
    <2>2. PICK s \in Socket : s = slot[i]
      BY DEF Inv, TypeInv
    <2>3. /\ alloc_id < id /\ s.high = <<>> /\ s.low = <<>> /\ s.dw_buffer = <<>>
          /\ conn[id] = NoConn
      BY <2>1, <2>2, <1>4, NextIdFree
    <2>4. PICK t : t = NewFd(Reserved(s, id), id, "PACCEPT")
      OBVIOUS
    <2>5. slot' = [slot EXCEPT ![i] = t]
      BY <2>1, <2>2, <2>4, <1>4
    <2>6. t.id = id /\ t.high = <<>> /\ t.low = <<>> /\ t.dw_buffer = <<>>
      BY <2>3, <2>4 DEF NewFd, Reserved, Socket
    <2>7. alloc_id \in Nat /\ id \in Nat
      BY SocketAssumption DEF Inv, TypeInv, Ids
    <2>8. InPipe(pipe, id) = {}
      <3>1. ASSUME NEW k \in InPipe(pipe, id) PROVE FALSE
        <4>1. k \in 1..Len(pipe) /\ pipe[k].id = id
          BY DEF InPipe
        <4>2. CmdOK(pipe[k], slot[HASH_ID(pipe[k].id)], alloc_id)
          BY <4>1 DEF Inv, PipeInv
        <4> QED
          BY <4>1, <4>2, <2>3, <2>7 DEF CmdOK
      <3> QED
        BY <3>1
    <2>9. ASSUME NEW v \in Services, th[v].pc # "idle", th[v].id = id PROVE FALSE
      <3>1. SenderOK(th[v], slot[HASH_ID(th[v].id)], alloc_id)
        BY DEF Inv, SenderInv
      <3> QED
        BY <3>1, <2>3, <2>7, <2>9 DEF SenderOK
    <2>10. /\ t.id \in Ids /\ conn[t.id] = NoConn /\ InPipe(pipe, t.id) = {}
           /\ \A v \in Services : th[v].pc = "idle" \/ th[v].id # t.id
      BY <2>3, <2>6, <2>8, <2>9
    <2> QED
      BY <1>1, <1>2, <2>5, <2>6, <2>10, BeginOrder
  <1> QED
    BY <1>3, <1>4 DEF ReportAccept

\* A step that is about the connection of one id
LEMMA OneOrder ==
    ASSUME Inv, Inv', OrderInv, NEW id \in Ids,
           \A d \in Ids : d # id =>
               /\ SameConn(d) /\ SameHands(th, th', d)
               /\ PipeLess(pipe, pipe', d) /\ PipeMore(pipe, pipe', d),
           \A j \in Slots : slot'[j] = slot[j] \/ slot'[j].id = id,
           \A j \in Slots : Live(slot'[j]) /\ slot'[j].id = id =>
               OrderOK(slot'[j], conn'[id], pipe', th')
    PROVE  OrderInv'
  <1>1. ASSUME NEW j \in Slots, Live(slot'[j])
        PROVE  Stays(j) \/ OrderOK(slot'[j], conn'[slot'[j].id], pipe', th')
    <2>1. CASE slot'[j].id = id
      BY <2>1, <1>1
    <2>2. CASE slot'[j].id # id
      <3>1. slot'[j] = slot[j] /\ Live(slot[j])
        BY <2>2, <1>1
      <3>2. slot[j].id \in Ids /\ slot[j].id # id
        BY <3>1, <2>2, LiveSlot
      <3>3. SameLists(slot[j], slot'[j])
        BY <3>1 DEF SameLists
      <3>4. /\ SameConn(slot[j].id) /\ SameHands(th, th', slot[j].id)
            /\ PipeLess(pipe, pipe', slot[j].id) /\ PipeMore(pipe, pipe', slot[j].id)
        BY <3>2
      <3> QED
        BY <3>1, <3>3, <3>4, KeepsStays
    <2> QED
      BY <2>1, <2>2
  <1> QED
    BY <1>1, OrderStep

\* What the order of a live slot says, piece by piece
LEMMA OrderParts ==
    ASSUME Inv, OrderInv, NEW i \in Slots, NEW s, s = slot[i], Live(s)
    PROVE  /\ OrderAt(s.id, s.type, Line(s, conn[s.id].wire), Gone(s), Range(Pending(s)),
                      Range(s.low), conn[s.id].sent, pipe, th)
           /\ conn[s.id].sent \subseteq Msgs
  <1>1. s.id \in Ids
    BY LiveSlot
  <1>2. conn[s.id].sent \subseteq Msgs
    BY <1>1, SentMsgs DEF Inv
  <1>3. OrderOK(s, conn[s.id], pipe, th)
    BY DEF OrderInv
  <1> QED
    BY <1>2, <1>3 DEF OrderOK

\* The pipe has no message for a socket whose count is zero.
LEMMA NoneInPipe ==
    ASSUME Inv, NEW i \in Slots, NEW s, s = slot[i], Live(s), s.sending = 0
    PROVE  InPipe(pipe, s.id) = {}
  <1>1. 0 >= Messages(pipe, th, s.id) /\ pipe \in Seq(Cmds)
    BY LiveSlot DEF Inv, TypeInv
  <1>2. PICK id : id = s.id
    OBVIOUS
  <1>3. /\ IsFiniteSet(InPipe(pipe, id)) /\ Cardinality(InPipe(pipe, id)) \in Nat
        /\ Cardinality(InHand(th, id)) \in Nat
    BY <1>1, Counts
  <1>4. Cardinality(InPipe(pipe, id)) = 0
    BY <1>1, <1>2, <1>3 DEF Messages
  <1> QED
    BY <1>2, <1>3, <1>4, FS_EmptySet

\* The head of socket_server_send
LEMMA SendStepOrder ==
    ASSUME Inv, Inv', OrderInv, NEW v \in Services, NEW id \in Ids, NEW low \in BOOLEAN,
           Send(v, id, low)
    PROVE  OrderInv'
  <1>1. /\ slot \in [Slots -> Socket] /\ th \in [Services -> Threads] /\ conn \in [Ids -> Conns]
        /\ pipe \in Seq(Cmds)
    BY DEF Inv, TypeInv
  <1>2. PICK i : i = HASH_ID(id)
    OBVIOUS
  <1>3. PICK s : s = slot[i]
    OBVIOUS
  <1>4. s.id = id /\ Live(s) /\ i \in Slots /\ s \in Socket
    BY <1>1, <1>2, <1>3, KnownSlot DEF Send
  <1>5. PICK m : m = [from |-> v, n |-> th[v].n + 1, low |-> low]
    OBVIOUS
  <1>6. th[v] \in Threads /\ th[v].pc = "idle" /\ th[v].n \in Nat
    BY <1>1 DEF Send, Threads
  <1>7. m \in Msgs /\ m.from = v /\ m.n = th[v].n + 1
    BY <1>5, <1>6 DEF Msgs
  <1>8. PICK direct : direct = (~low /\ can_direct_write(s, id) /\ s.lock = Nobody)
    OBVIOUS
  <1>9. PICK u : u = [pc |-> IF direct THEN "write" ELSE "inc", n |-> m.n, id |-> id,
                      cmd |-> IF low THEN "P" ELSE "D", msg |-> m]
    OBVIOUS
  <1>10. /\ u \in Threads /\ u.pc # "idle" /\ u.id = id /\ u.msg = m /\ u.n = m.n
         /\ u.cmd # "W" /\ (u.pc = "write" => direct)
    BY <1>7, <1>9 DEF Threads, Msgs
  <1>11. /\ th' = [th EXCEPT ![v] = u] /\ pipe' = pipe
         /\ conn' = [conn EXCEPT ![id].sent = @ \cup {m}]
         /\ slot' = IF direct THEN [slot EXCEPT ![i].lock = v] ELSE slot
    BY <1>2, <1>3, <1>5, <1>8, <1>9 DEF Send
  <1>12. PICK q : q = conn[id].sent
    OBVIOUS
  <1>13. /\ conn'[id].wire = conn[id].wire /\ conn'[id].sent = q \cup {m}
         /\ \A d \in Ids : d # id => conn'[d] = conn[d]
    <2>1. PICK c : c = [conn[id] EXCEPT !.sent = q \cup {m}]
      OBVIOUS
    <2>2. conn[id] \in Conns
      BY <1>1
    <2>3. c.wire = conn[id].wire /\ c.sent = q \cup {m}
      BY <2>1, <2>2 DEF Conns
    <2>4. conn' = [conn EXCEPT ![id] = c]
      BY <2>1, <1>1, <1>11, <1>12
    <2> QED
      BY <2>3, <2>4, <1>1
  <1>14. PICK sent : sent = conn[id].sent
    OBVIOUS
  <1>15. /\ OrderAt(id, s.type, Line(s, conn[id].wire), Gone(s), Range(Pending(s)), Range(s.low),
                    sent, pipe, th)
         /\ sent \subseteq Msgs
    BY <1>3, <1>4, <1>14, OrderParts
  <1>16. conn'[id].sent = sent \cup {m}
    BY <1>12, <1>13, <1>14
  <1>17. u.pc = "write" =>
             Range(Pending(s)) = {} /\ InPipe(pipe, id) = {} /\ s.type # "HALFCLOSE"
    <2>1. SUFFICES ASSUME direct
                   PROVE  Range(Pending(s)) = {} /\ InPipe(pipe, id) = {} /\ s.type # "HALFCLOSE"
      BY <1>10
    <2>2. nomore_sending_data(s) /\ s.type = "CONNECTED"
      BY <2>1, <1>8 DEF can_direct_write
    <2>3. /\ s.high = <<>> /\ s.low = <<>> /\ s.dw_buffer = <<>> /\ s.sending = 0
      BY <2>2 DEF nomore_sending_data, send_buffer_empty
    <2>4. Pending(s) = <<>>
      BY <2>3, <1>4, Lists
    <2>5. ASSUME NEW r, r = <<>> PROVE Range(r) = {}
      BY <2>5 DEF Range
    <2>6. InPipe(pipe, s.id) = {}
      BY <2>3, <1>3, <1>4, NoneInPipe
    <2> QED
      BY <2>2, <2>4, <2>5, <2>6, <1>4
  <1>18. OrderAt(id, s.type, Line(s, conn[id].wire), Gone(s), Range(Pending(s)), Range(s.low),
                 sent \cup {m}, pipe, th')
    BY <1>1, <1>6, <1>7, <1>10, <1>11, <1>15, <1>17, SendOrder
  <1>19. ASSUME NEW j \in Slots
         PROVE  /\ slot'[j] = slot[j] \/ slot'[j].id = id
                /\ slot'[j].id = id /\ Live(slot'[j]) => OrderOK(slot'[j], conn'[id], pipe', th')
    <2>1. PICK t : t = IF direct THEN [s EXCEPT !.lock = v] ELSE s
      OBVIOUS
    <2>2. SameLists(s, t) /\ t.type = s.type
      BY <2>1, <1>4 DEF SameLists, Socket
    <2>3. slot'[i] = t /\ (j # i => slot'[j] = slot[j])
      BY <2>1, <1>1, <1>3, <1>4, <1>11
    <2>4. t.id = id /\ Pending(t) = Pending(s) /\ t.low = s.low /\ Gone(t) = Gone(s)
      BY <2>2, <1>4 DEF SameLists, Pending, High, Gone
    <2>5. OrderOK(t, conn'[id], pipe', th')
      <3>1. Line(t, conn'[id].wire) = Line(s, conn[id].wire)
        BY <2>4, <1>13 DEF Line
      <3> QED
        BY <3>1, <2>2, <2>4, <1>11, <1>16, <1>18 DEF OrderOK
    <2>6. j # i /\ Live(slot[j]) => slot[j].id # id
      BY <1>3, <1>4, OtherIds
    <2> QED
      BY <2>3, <2>4, <2>5, <2>6
  <1>20. ASSUME NEW d \in Ids, d # id
         PROVE  /\ SameConn(d) /\ SameHands(th, th', d)
                /\ PipeLess(pipe, pipe', d) /\ PipeMore(pipe, pipe', d)
    <2>1. SameConn(d)
      BY <1>13, <1>20 DEF SameConn
    <2>2. PipeLess(pipe, pipe', d) /\ PipeMore(pipe, pipe', d)
      BY <1>1, <1>11, SamePipe
    <2>3. th[v].n <= u.n
      BY <1>6, <1>7, <1>10
    <2>4. SameHands(th, th', d)
      BY <2>3, <1>1, <1>6, <1>10, <1>11, <1>20, OtherHands
    <2> QED
      BY <2>1, <2>2, <2>4
  <1> QED
    BY <1>19, <1>20, OneOrder

\* A step that is about the connection of slot i
LEMMA OneConnOrder ==
    ASSUME Inv, Inv', OrderInv, NEW i \in Slots, NEW id \in Ids, slot[i].id = id, NEW t,
           slot' = [slot EXCEPT ![i] = t], t.id = id,
           Live(t) => OrderOK(t, conn'[id], pipe', th'),
           \A d \in Ids : d # id =>
               /\ SameConn(d) /\ SameHands(th, th', d)
               /\ PipeLess(pipe, pipe', d) /\ PipeMore(pipe, pipe', d)
    PROVE  OrderInv'
  <1>1. slot'[i] = t /\ \A j \in Slots : j # i => slot'[j] = slot[j]
    BY DEF Inv, TypeInv
  <1>2. ASSUME NEW j \in Slots
        PROVE  /\ slot'[j] = slot[j] \/ slot'[j].id = id
               /\ Live(slot'[j]) /\ slot'[j].id = id => OrderOK(slot'[j], conn'[id], pipe', th')
    <2>1. CASE j = i
      BY <2>1, <1>1
    <2>2. CASE j # i
      BY <2>2, <1>1, OtherIds
    <2> QED
      BY <2>1, <2>2
  <1> QED
    BY <1>2, OneOrder

\* The direct write: the message joins the line behind the wire, in two parts.
LEMMA DirectWriteOrder ==
    ASSUME Inv, Inv', OrderInv, NEW v \in Services, NEW n \in 0..Size, DirectWrite(v, n)
    PROVE  OrderInv'
  <1>1. /\ TypeInv /\ LockInv /\ SlotInv /\ slot \in [Slots -> Socket] /\ pipe' = pipe
        /\ pipe \in Seq(Cmds) /\ th \in [Services -> Threads] /\ conn \in [Ids -> Conns]
    BY DEF Inv, TypeInv, DirectWrite
  <1>2. PICK h : h = th[v]
    OBVIOUS
  <1>3. /\ h \in Threads /\ h.pc = "write" /\ h.id \in Ids /\ h.cmd = "D" /\ h.n \in Nat
    BY <1>1, <1>2 DEF DirectWrite, TypeInv, Threads
  <1>4. PICK id \in Ids : id = h.id
    BY <1>3
  <1>5. PICK m \in Msgs : m = h.msg
    BY <1>1, <1>2, <1>3 DEF TypeInv
  <1>6. PICK i \in Slots : i = HASH_ID(id)
    BY HashSlot DEF Ids
  <1>7. PICK s \in Socket : s = slot[i]
    BY <1>1
  <1>8. s.lock = v /\ s.id = id /\ v # Nobody
    <2>1. LockOK(i, s, th)
      BY <1>1, <1>7 DEF LockInv
    <2> QED
      BY <2>1, <1>2, <1>3, <1>4, <1>6, SocketAssumption DEF LockOK
  <1>9. Live(s) /\ s.dw_buffer = <<>>
    <2>1. SlotOK(i, s, alloc_id)
      BY <1>1, <1>7 DEF SlotInv
    <2> QED
      BY <2>1, <1>8 DEF SlotOK
  <1>10. PICK all : all = UnitsOf(m)
    OBVIOUS
  <1>11. all \in Seq(Units) /\ Len(all) = Size /\ Size \in Nat /\ \A x \in Range(all) : x[1] = m
    BY <1>10, UnitsOfMsg, LineOne, SocketAssumption
  <1>12. PICK A, B : A = SubSeq(all, 1, n) /\ B = SubSeq(all, n + 1, Size)
    OBVIOUS
  <1>13. /\ A \in Seq(Units) /\ B \in Seq(Units) /\ A \o B = all
    <2>1. n \in Nat /\ n <= Size /\ 0 <= n /\ 0 \in Nat
      BY <1>11
    <2>2. SubSeq(all, 0 + 1, n) \in Seq(Units)
      BY <1>11, <2>1, Part
    <2>3. SubSeq(all, n + 1, Size) \in Seq(Units)
      BY <1>11, <2>1, Part
    <2>4. A \o B = all
      BY <1>11, <1>12, Split
    <2>5. A \in Seq(Units) /\ B \in Seq(Units)
      BY <1>12, <2>2, <2>3
    <2> QED
      BY <2>4, <2>5
  <1>14. \A x \in Range(B) : x[1] = m
    BY <1>11, <1>13, RangeConcat
  <1>15. PICK w : w = conn[id].wire
    OBVIOUS
  <1>16. w \in Seq(Units)
    BY <1>1, <1>15 DEF Conns
  <1>17. PICK c : c = [conn[id] EXCEPT !.wire = w \o A]
    OBVIOUS
  <1>18. c.wire = w \o A /\ c.sent = conn[id].sent
    <2>1. conn[id] \in Conns
      BY <1>1
    <2> QED
      BY <2>1, <1>17 DEF Conns
  <1>19. conn' = [conn EXCEPT ![id] = c]
    <2>1. conn' = [conn EXCEPT ![id].wire = @ \o A]
      BY <1>2, <1>4, <1>5, <1>6, <1>7, <1>8, <1>10, <1>12 DEF DirectWrite
    <2> QED
      BY <2>1, <1>1, <1>15, <1>17
  <1>20. PICK t : t = [s EXCEPT !.dw_buffer = B, !.lock = Nobody]
    OBVIOUS
  <1>21. /\ t.type = s.type /\ t.id = id /\ t.high = s.high /\ t.low = s.low /\ t.dw_buffer = B
         /\ t.lost = s.lost
    BY <1>8, <1>20 DEF Socket
  <1>22. slot' = [slot EXCEPT ![i] = t]
    <2>1. slot' = [slot EXCEPT ![i].dw_buffer = B, ![i].lock = Nobody]
      BY <1>2, <1>4, <1>5, <1>6, <1>10, <1>12 DEF DirectWrite
    <2> QED
      BY <2>1, <1>1, <1>7, <1>20 DEF Socket
  <1>23. PICK u : u = IF n = Size THEN Idle(h.n) ELSE [h EXCEPT !.pc = "inc", !.cmd = "W"]
    OBVIOUS
  <1>24. /\ u \in Threads /\ u.n = h.n /\ (u.pc = "idle" \/ (u.pc = "inc" /\ u.cmd = "W"))
         /\ u.pc = "idle" \/ u.id = id
    <2>1. CASE n = Size
      <3>1. u = Idle(h.n)
        BY <1>23, <2>1
      <3> QED
        BY <1>3, <3>1 DEF Idle, Threads
    <2>2. CASE n # Size
      <3>1. u = [h EXCEPT !.pc = "inc", !.cmd = "W"]
        BY <1>23, <2>2
      <3> QED
        BY <1>3, <1>4, <3>1 DEF Threads
    <2> QED
      BY <2>1, <2>2
  <1>25. th' = [th EXCEPT ![v] = u]
    BY <1>1, <1>2, <1>23 DEF DirectWrite
  <1>26. PICK b : b = Pending(s)
    OBVIOUS
  <1>27. b \in Seq(Units)
    BY <1>26, Lists
  <1>28. /\ s.high \in Seq(Units) /\ s.low \in Seq(Units) /\ b = s.high \o s.low
         /\ Pending(t) = (B \o s.high) \o s.low
    <2>1. s.high \in Seq(Units) /\ s.low \in Seq(Units) /\ High(s) = s.high
      BY <1>9, Lists
    <2> QED
      BY <2>1, <1>21, <1>26 DEF High, Pending
  <1>29. Pending(t) = B \o b
    <2>1. B \in Seq(Units) /\ s.high \in Seq(Units) /\ s.low \in Seq(Units)
      BY <1>13, <1>28
    <2>2. (B \o s.high) \o s.low = B \o (s.high \o s.low)
      BY <2>1, Assoc
    <2> QED
      BY <2>2, <1>28
  <1>30. Line(t, c.wire) = w \o (all \o b)
    <2>1. PICK r : r = B \o b
      OBVIOUS
    <2>2. (w \o A) \o r = w \o (A \o r)
      <3>1. A \in Seq(Units) /\ r \in Seq(Units)
        BY <2>1, <1>13, <1>27, Concat
      <3> QED
        BY <3>1, <1>16, Assoc
    <2>3. (A \o B) \o b = A \o (B \o b)
      <3>1. A \in Seq(Units) /\ B \in Seq(Units)
        BY <1>13
      <3> QED
        BY <3>1, <1>27, Assoc
    <2>4. A \o r = all \o b
      BY <2>1, <2>3, <1>13
    <2> QED
      BY <2>1, <2>2, <2>4, <1>18, <1>29 DEF Line
  <1>31. \A x \in Range(Pending(t)) : x \in Range(b) \/ x[1] = m
    BY <1>13, <1>14, <1>29, <1>27, RangeConcat
  <1>32. PICK q, sent, F : q = w \o b /\ sent = conn[id].sent /\ F = Gone(s)
    OBVIOUS
  <1>33. OrderAt(id, s.type, q, F, Range(b), Range(s.low), sent, pipe, th) /\ sent \subseteq Msgs
    BY <1>7, <1>8, <1>9, <1>15, <1>26, <1>32, OrderParts DEF Line
  <1>34. \A y \in Services : th[y].pc # "idle" => th[y].msg.from = y
    BY <1>1 DEF TypeInv
  <1>35. PICK T2 : T2 = th'
    OBVIOUS
  <1>36. PICK q2, pend2 : q2 = w \o (UnitsOf(m) \o b) /\ pend2 = Range(Pending(t))
    OBVIOUS
  <1>37. OrderAt(id, s.type, q2, F, pend2, Range(s.low), sent, pipe, T2)
    <2>1. PICK type, low : type = s.type /\ low = Range(s.low)
      OBVIOUS
    <2>2. Wrote(th, T2, v, u, id, m)
      BY <1>2, <1>3, <1>4, <1>5, <1>24, <1>25, <1>35 DEF Wrote
    <2>3. \A x \in pend2 : x \in Range(b) \/ x[1] = m
      BY <1>31, <1>36
    <2>4. OrderAt(id, type, q, F, Range(b), low, sent, pipe, th)
      BY <1>33, <2>1
    <2>5. Joins(w, b, m, q, q2)
      BY <1>32, <1>36 DEF Joins
    <2>6. sent \subseteq Msgs /\ th \in [Services -> Threads] /\ u \in Threads
      BY <1>1, <1>24, <1>33
    <2>7. OrderAt(id, type, q2, F, pend2, low, sent, pipe, T2)
      BY <2>2, <2>3, <2>4, <2>5, <2>6, <1>34, <1>16, <1>27, DirectOrder
    <2> QED
      BY <2>1, <2>7
  <1>38. OrderOK(t, conn'[id], pipe', th')
    <2>1. conn'[id] = c
      BY <1>1, <1>19
    <2>2. q2 = Line(t, c.wire)
      BY <1>10, <1>30, <1>36
    <2>3. Gone(t) = F
      BY <1>21, <1>32 DEF Gone
    <2> QED
      BY <2>1, <2>2, <2>3, <1>1, <1>18, <1>21, <1>32, <1>35, <1>36, <1>37 DEF OrderOK
  <1>39. ASSUME NEW d \in Ids, d # id
         PROVE  /\ SameConn(d) /\ SameHands(th, th', d)
                /\ PipeLess(pipe, pipe', d) /\ PipeMore(pipe, pipe', d)
    <2>1. SameConn(d)
      BY <1>1, <1>19, <1>39 DEF SameConn
    <2>2. PipeLess(pipe, pipe', d) /\ PipeMore(pipe, pipe', d)
      BY <1>1, SamePipe
    <2>3. th[v].n <= u.n /\ th[v].id # d /\ (u.pc = "idle" \/ u.id # d)
      BY <1>2, <1>3, <1>4, <1>24, <1>39
    <2>4. SameHands(th, th', d)
      BY <2>3, <1>1, <1>24, <1>25, OtherHands
    <2> QED
      BY <2>1, <2>2, <2>4
  <1> QED
    BY <1>7, <1>8, <1>21, <1>22, <1>38, <1>39, OneConnOrder

\* The end of socket_server_send: the message goes from the hand to the pipe.
LEMMA SendRequestOrder ==
    ASSUME Inv, Inv', OrderInv, NEW v \in Services, SendRequest(v)
    PROVE  OrderInv'
  <1>1. /\ TypeInv /\ slot \in [Slots -> Socket] /\ pipe \in Seq(Cmds)
        /\ th \in [Services -> Threads] /\ slot' = slot /\ conn' = conn
    BY DEF Inv, TypeInv, SendRequest
  <1>2. PICK h : h = th[v]
    OBVIOUS
  <1>3. /\ h \in Threads /\ h.pc = "push" /\ h.id \in Ids /\ h.msg \in Msgs /\ h.msg.from = v
        /\ h.n \in Nat
    BY <1>1, <1>2 DEF SendRequest, TypeInv, Threads
  <1>4. PICK id \in Ids : id = h.id
    BY <1>3
  <1>5. PICK k : k = [cmd |-> h.cmd, id |-> id, msg |-> IF h.cmd = "W" THEN NoMsg ELSE h.msg,
                      shutdown |-> FALSE]
    OBVIOUS
  <1>6. /\ k \in Cmds /\ k.cmd = h.cmd /\ k.id = id /\ h.cmd \in {"D", "P", "W"}
        /\ h.cmd # "W" => k.msg = h.msg
    BY <1>3, <1>5 DEF Cmds, Threads
  <1>7. pipe' = Append(pipe, k)
    BY <1>2, <1>4, <1>5 DEF SendRequest, Request
  <1>8. PICK u : u = Idle(h.n)
    OBVIOUS
  <1>9. u \in Threads /\ u.pc = "idle" /\ u.n = th[v].n /\ th[v].n <= u.n
    BY <1>2, <1>3, <1>8 DEF Idle, Threads
  <1>10. th' = [th EXCEPT ![v] = u]
    BY <1>2, <1>8 DEF SendRequest
  <1>11. \A d \in Ids : SameConn(d)
    BY <1>1 DEF SameConn
  <1>12. ASSUME NEW d \in Ids, d # id
         PROVE  /\ SameConn(d) /\ SameHands(th, th', d)
                /\ PipeLess(pipe, pipe', d) /\ PipeMore(pipe, pipe', d)
    <2>1. PipeLess(pipe, pipe', d) /\ PipeMore(pipe, pipe', d)
      BY <1>1, <1>6, <1>7, <1>12, SamePipe
    <2>2. th[v].id # d
      BY <1>2, <1>4, <1>12
    <2>3. SameHands(th, th', d)
      BY <2>2, <1>1, <1>9, <1>10, OtherHands
    <2> QED
      BY <2>1, <2>3, <1>11
  <1>13. ASSUME NEW j \in Slots, Live(slot'[j]), slot'[j].id = id
         PROVE  OrderOK(slot'[j], conn'[id], pipe', th')
    <2>1. PICK s : s = slot[j]
      OBVIOUS
    <2>2. Live(s) /\ s.id = id
      BY <2>1, <1>1, <1>13
    <2>3. CASE h.cmd = "W"
      <3>1. PipeLess(pipe, pipe', id) /\ PipeMore(pipe, pipe', id)
        BY <2>3, <1>1, <1>6, <1>7, SamePipe DEF MsgCmds
      <3>2. th[v].cmd = "W"
        BY <2>3, <1>2
      <3>3. SameHands(th, th', id)
        BY <3>2, <1>1, <1>9, <1>10, OtherHands
      <3>4. SameLists(s, s) /\ SameConn(id)
        BY <1>11 DEF SameLists
      <3>5. Stays(j)
        BY <3>1, <3>3, <3>4, <2>1, <2>2, <1>1, KeepsStays
      <3> QED
        BY <3>5, <1>13, StaysOrder
    <2>4. CASE h.cmd # "W"
      <3>1. PICK q, sent, F : q = Line(s, conn[id].wire) /\ sent = conn[id].sent /\ F = Gone(s)
        OBVIOUS
      <3>2. /\ OrderAt(id, s.type, q, F, Range(Pending(s)), Range(s.low), sent, pipe, th)
            /\ sent \subseteq Msgs
        BY <3>1, <2>1, <2>2, OrderParts
      <3>3. \A y \in Services : th[y].pc # "idle" => th[y].msg.from = y
        BY <1>1 DEF TypeInv
      <3>4. PICK m \in Msgs : m = h.msg
        BY <1>3
      <3>5. Held(th[v], id, m) /\ k.cmd \in MsgCmds /\ k.msg = m
        BY <3>4, <2>4, <1>2, <1>3, <1>4, <1>6 DEF Held, MsgCmds
      <3>6. PICK T2, p2 : T2 = th' /\ p2 = pipe'
        OBVIOUS
      <3>7. T2 = [th EXCEPT ![v] = u] /\ p2 = Append(pipe, k)
        BY <3>6, <1>7, <1>10
      <3>8. PICK type, pend, low :
                type = s.type /\ pend = Range(Pending(s)) /\ low = Range(s.low)
        OBVIOUS
      <3>9. OrderAt(id, type, q, F, pend, low, sent, pipe, th)
        BY <3>2, <3>8
      <3>10. /\ sent \subseteq Msgs /\ th \in [Services -> Threads] /\ u \in Threads
            /\ pipe \in Seq(Cmds) /\ k \in Cmds /\ k.id = id /\ u.n = th[v].n /\ u.pc = "idle"
        BY <3>2, <1>1, <1>6, <1>9
      <3>11. OrderAt(id, type, q, F, pend, low, sent, p2, T2)
        BY <3>3, <3>5, <3>7, <3>9, <3>10, PushOrder
      <3> QED
        BY <3>1, <3>6, <3>8, <3>11, <2>1, <2>2, <1>1 DEF OrderOK
    <2> QED
      BY <2>3, <2>4
  <1> QED
    BY <1>1, <1>12, <1>13, OneOrder

\* With the message m the slot s becomes x: the message joins the line behind all
\* that are like it.
AppendedAt(s, x, m, w) ==
    /\ \E a \in Seq(Units), b \in Seq(Units) :
           /\ Joins(a, b, m, Line(s, w), Line(x, w))
           /\ \A u \in Range(b) : ~Alike(u[1], m)
    /\ Adds(Range(Pending(s)), Range(Pending(x)), Range(s.low), Range(x.low), m)

LEMMA AppendedOrder ==
    ASSUME NEW s \in Socket, NEW m \in Msgs, NEW x, x = Appended(s, m), NEW w \in Seq(Units),
           \A u \in Range(s.low) : u[1].low = TRUE
    PROVE  AppendedAt(s, x, m, w)
  <1>1. PICK U \in Seq(Units) : U = UnitsOf(m)
    BY LineOne
  <1>2. \A u \in Range(U) : u[1] = m
    BY <1>1, LineOne
  <1>3. PICK dw, high, low : dw = s.dw_buffer /\ high = s.high /\ low = s.low
    OBVIOUS
  <1>4. PICK H : H = dw \o high
    OBVIOUS
  <1>5. PICK P : P = H \o low
    OBVIOUS
  <1>6. /\ dw \in Seq(Units) /\ high \in Seq(Units) /\ low \in Seq(Units)
         /\ H \in Seq(Units) /\ P \in Seq(Units)
    <2>1. dw \in Seq(Units) /\ high \in Seq(Units) /\ low \in Seq(Units)
      BY <1>3, Lists
    <2>2. H \in Seq(Units)
      BY <2>1, <1>4, Concat
    <2> QED
      BY <2>1, <2>2, <1>5, Concat
  <1>7. Pending(s) = P /\ Line(s, w) = w \o P
    BY <1>3, <1>4, <1>5 DEF Pending, High, Line
  <1>8. PICK e : e = <<>>
    OBVIOUS
  <1>9. e \in Seq(Units) /\ Range(e) = {} /\ \A q \in Seq(Units) : q \o e = q /\ e \o q = q
    BY <1>8, EmptySeq, ConcatEmptySeq DEF Range
  <1>10. m.low \in BOOLEAN
    BY DEF Msgs
  <1>11. ASSUME Pending(x) = P \o U,
                \A u \in Range(x.low) : u \in Range(s.low) \/ (u[1] = m /\ m.low = TRUE)
         PROVE  AppendedAt(s, x, m, w)
    <2>1. PICK a \in Seq(Units) : a = w \o P
      BY <1>6, Concat
    <2>2. Line(x, w) = a \o U
      <3>1. (w \o P) \o U = w \o (P \o U)
        <4>1. P \in Seq(Units)
          BY <1>6
        <4> QED
          BY <4>1, Assoc
      <3> QED
        BY <3>1, <2>1, <1>11 DEF Line
    <2>3. Joins(a, e, m, Line(s, w), Line(x, w))
      BY <2>1, <2>2, <1>1, <1>7, <1>9 DEF Joins
    <2>4. \A u \in Range(P \o U) : u \in Range(P) \/ u[1] = m
      BY <1>2, <1>6, RangeConcat
    <2> QED
      BY <2>3, <2>4, <1>7, <1>9, <1>11 DEF AppendedAt, Adds
  <1>12. CASE send_buffer_empty(s) /\ s.type = "CONNECTED"
    <2>1. x = [s EXCEPT !.high = UnitsOf(m), !.writing = TRUE]
      BY <1>12 DEF Appended
    <2>2. x.high = U /\ x.low = low /\ x.dw_buffer = dw
      BY <2>1, <1>1, <1>3 DEF Socket
    <2>3. high = e /\ low = e
      BY <1>3, <1>8, <1>12 DEF send_buffer_empty
    <2>4. P = dw
      BY <2>3, <1>4, <1>5, <1>9, <1>6
    <2>5. PICK r \in Seq(Units) : r = dw \o U
      BY <1>6, Concat
    <2>6. Pending(x) = r \o e
      BY <2>2, <2>3, <2>5 DEF Pending, High
    <2>7. Pending(x) = P \o U
      BY <2>4, <2>5, <2>6, <1>9
    <2> QED
      BY <2>2, <2>7, <1>3, <1>11
  <1>13. CASE ~(send_buffer_empty(s) /\ s.type = "CONNECTED") /\ m.low
    <2>1. x = [s EXCEPT !.low = low \o U]
      BY <1>1, <1>3, <1>13 DEF Appended
    <2>2. x.high = high /\ x.low = low \o U /\ x.dw_buffer = dw
      BY <2>1, <1>3 DEF Socket
    <2>3. Pending(x) = H \o (low \o U)
      BY <2>2, <1>4 DEF Pending, High
    <2>4. (H \o low) \o U = H \o (low \o U)
      <3>1. H \in Seq(Units) /\ low \in Seq(Units)
        BY <1>6
      <3> QED
        BY <3>1, Assoc
    <2>5. Pending(x) = P \o U
      BY <2>3, <2>4, <1>5
    <2>6. \A u \in Range(low \o U) : u \in Range(low) \/ u[1] = m
      BY <1>2, <1>6, RangeConcat
    <2> QED
      BY <2>2, <2>5, <2>6, <1>3, <1>10, <1>11, <1>13
  <1>14. CASE ~(send_buffer_empty(s) /\ s.type = "CONNECTED") /\ ~m.low
    <2>1. x = [s EXCEPT !.high = high \o U]
      BY <1>1, <1>3, <1>14 DEF Appended
    <2>2. x.high = high \o U /\ x.low = low /\ x.dw_buffer = dw
      BY <2>1, <1>3 DEF Socket
    <2>3. Pending(x) = (dw \o (high \o U)) \o low
      BY <2>2 DEF Pending, High
    <2>4. (dw \o high) \o U = dw \o (high \o U)
      <3>1. dw \in Seq(Units) /\ high \in Seq(Units)
        BY <1>6
      <3> QED
        BY <3>1, Assoc
    <2>5. PICK G : G = U \o low
      OBVIOUS
    <2>6. (H \o U) \o low = H \o (U \o low)
      <3>1. H \in Seq(Units) /\ low \in Seq(Units)
        BY <1>6
      <3> QED
        BY <3>1, Assoc
    <2>7. G \in Seq(Units)
      BY <2>5, <1>6, Concat
    <2>8. Pending(x) = H \o G
      BY <2>3, <2>4, <2>5, <2>6, <1>4
    <2>9. PICK a : a = w \o H
      OBVIOUS
    <2>10. (w \o H) \o G = w \o (H \o G) /\ (w \o H) \o low = w \o (H \o low)
      <3>1. H \in Seq(Units) /\ low \in Seq(Units)
        BY <1>6
      <3> QED
        BY <3>1, <2>7, Assoc
    <2>11. a \in Seq(Units)
      BY <2>9, <1>6, Concat
    <2>12. Line(x, w) = a \o G /\ Line(s, w) = a \o low
      BY <2>8, <2>9, <2>10, <1>5, <1>7 DEF Line
    <2>13. Joins(a, low, m, Line(s, w), Line(x, w))
      BY <2>5, <2>12, <1>1 DEF Joins
    <2>14. \A u \in Range(low) : ~Alike(u[1], m)
      BY <1>3, <1>14 DEF Alike
    <2>15. /\ Range(H \o G) = Range(H) \cup Range(G) /\ Range(G) = Range(U) \cup Range(low)
           /\ Range(P) = Range(H) \cup Range(low)
      BY <2>5, <2>7, <1>5, <1>6, RangeConcat
    <2>16. \A u \in Range(Pending(x)) : u \in Range(Pending(s)) \/ u[1] = m
      BY <2>8, <2>15, <1>2, <1>7
    <2> QED
      BY <2>2, <2>13, <2>14, <2>16, <2>11, <1>3, <1>6 DEF AppendedAt, Adds
  <1> QED
    BY <1>10, <1>12, <1>13, <1>14

\* send_socket: the message goes from the pipe to the line, or is dropped.
LEMMA SendSocketOrder ==
    ASSUME Inv, Inv', OrderInv, SendSocket
    PROVE  OrderInv'
  <1>1. /\ pipe # <<>> /\ Cmd.cmd \in MsgCmds /\ th' = th /\ conn' = conn
    BY DEF SendSocket, Takes, Cmd, MsgCmds
  <1>2. /\ TypeInv /\ slot \in [Slots -> Socket] /\ pipe \in Seq(Cmds)
        /\ th \in [Services -> Threads] /\ conn \in [Ids -> Conns]
    BY DEF Inv, TypeInv
  <1>3. /\ Cmd = pipe[1] /\ Cmd.id \in Ids /\ 1 \in 1..Len(pipe)
        /\ At = HASH_ID(Cmd.id) /\ At \in Slots
    BY <1>1, <1>2, FirstCmd
  <1>4. PICK id \in Ids : id = Cmd.id
    BY <1>3
  <1>5. PICK m \in Msgs : m = Cmd.msg
    BY <1>1, <1>2, <1>3 DEF TypeInv
  <1>6. PICK i \in Slots : i = At /\ i = HASH_ID(id)
    BY <1>3, <1>4
  <1>7. PICK s \in Socket : s = slot[i]
    BY <1>2
  <1>8. PICK takes : takes = (IsSocket(s, id) /\ s.type \notin {"HALFCLOSE", "PACCEPT"})
    OBVIOUS
  <1>9. PICK x : x = IF takes THEN Appended(s, m) ELSE s
    OBVIOUS
  <1>10. PICK t : t = DecSending(x, id)
    OBVIOUS
  <1>11. slot' = [slot EXCEPT ![i] = t] /\ pipe' = Tail(pipe)
    BY <1>4, <1>5, <1>6, <1>7, <1>8, <1>9, <1>10 DEF SendSocket, Leaves
  <1>12. /\ x \in Socket /\ x.type = s.type /\ x.id = s.id /\ t.type = s.type /\ t.id = s.id
         /\ t.high = x.high /\ t.low = x.low /\ t.dw_buffer = x.dw_buffer /\ t.lost = s.lost
    <2>1. x \in Socket /\ x.type = s.type /\ x.id = s.id /\ x.lost = s.lost
      BY <1>9, AppendedLists
    <2> QED
      BY <2>1, <1>10 DEF DecSending, Socket
  <1>13. Pending(t) = Pending(x) /\ \A w : Line(t, w) = Line(x, w)
    BY <1>12 DEF Pending, High, Line
  <1>14. \A d \in Ids : SameConn(d) /\ SameHands(th, th', d)
    BY <1>1, <1>2, EqualHands DEF SameConn
  <1>15. ASSUME NEW d \in Ids, d # id
         PROVE  /\ SameConn(d) /\ SameHands(th, th', d)
                /\ PipeLess(pipe, pipe', d) /\ PipeMore(pipe, pipe', d)
    <2>1. pipe[1].id # d
      BY <1>3, <1>4, <1>15
    <2>2. PipeLess(pipe, pipe', d) /\ PipeMore(pipe, pipe', d)
      BY <2>1, <1>1, <1>2, <1>11, SamePipe
    <2> QED
      BY <2>2, <1>14
  <1>16. slot'[i] = t /\ \A j \in Slots : j # i => slot'[j] = slot[j]
    BY <1>2, <1>11
  <1>17. CASE s.id # id
    <2>1. ~takes
      BY <1>8, <1>17 DEF IsSocket
    <2>2. t = s
      BY <2>1, <1>9, <1>10, <1>17 DEF DecSending
    <2>3. \A j \in Slots : slot'[j] = slot[j]
      BY <2>2, <1>7, <1>16
    <2>4. ASSUME NEW j \in Slots, Live(slot[j]), slot[j].id = id PROVE FALSE
      <3>1. HASH_ID(id) = j
        BY <2>4, LiveSlot
      <3> QED
        BY <3>1, <2>4, <1>6, <1>7, <1>17
    <2> QED
      BY <2>3, <2>4, <1>15, OneOrder
  <1>18. ASSUME s.id = id, Live(t) PROVE OrderOK(t, conn'[id], pipe', th')
    <2>1. Live(s)
      BY <1>12, <1>18 DEF Live
    <2>2. PICK w \in Seq(Units) : w = conn[id].wire
      BY <1>2 DEF Conns
    <2>3. PICK sent, pend, low, F :
              F = Gone(s) /\ sent = conn[id].sent /\ pend = Range(Pending(s)) /\ low = Range(s.low)
      OBVIOUS
    <2>4. /\ OrderAt(id, s.type, Line(s, w), F, pend, low, sent, pipe, th) /\ sent \subseteq Msgs
      BY <2>1, <2>2, <2>3, <1>7, <1>18, OrderParts
    <2>5. CASE ~takes
      <3>1. SameLists(s, t)
        BY <2>5, <1>9, <1>12 DEF SameLists
      <3>2. s.type = "HALFCLOSE" \/ conn[id].sent = {}
        <4>1. s.type \in {"HALFCLOSE", "PACCEPT"}
          BY <2>1, <2>5, <1>8, <1>18 DEF IsSocket, Live
        <4>2. KnownOK(s.id, s, known[s.id], conn[s.id])
          BY <2>1, <1>7, LiveSlot
        <4> QED
          BY <4>1, <4>2, <1>18 DEF KnownOK
      <3>3. PipeLess(pipe, pipe', id)
        BY <1>1, <1>2, <1>11, LessPipe
      <3>4. Pending(t) = Pending(s) /\ t.low = s.low
        BY <2>5, <1>9, <1>12, <1>13
      <3>5. Stays(i)
        <4>1. Line(t, conn'[id].wire) = Line(s, conn[id].wire)
          BY <3>4, <1>1 DEF Line
        <4> QED
          BY <4>1, <3>2, <3>3, <3>4, <2>1, <1>1, <1>7, <1>12, <1>14, <1>16, <1>18 DEF Stays
      <3>6. OrderOK(slot'[i], conn'[slot'[i].id], pipe', th')
        BY <3>5, StaysOrder
      <3> QED
        BY <3>6, <1>12, <1>16, <1>18
    <2>6. CASE takes
      <3>1. s.type # "HALFCLOSE"
        BY <2>6, <1>8
      <3>2. \A u \in Range(s.low) : u[1].low = TRUE
        BY <2>3, <2>4 DEF OrderAt
      <3>3. AppendedAt(s, x, m, w)
        BY <3>2, <2>6, <1>9, AppendedOrder
      <3>4. PICK q, q2 : q = Line(s, w) /\ q2 = Line(x, w)
        OBVIOUS
      <3>5. PICK a \in Seq(Units), b \in Seq(Units) :
                Joins(a, b, m, q, q2) /\ \A u \in Range(b) : ~Alike(u[1], m)
        BY <3>3, <3>4 DEF AppendedAt
      <3>6. PICK pend2, low2, type, p2 :
                pend2 = Range(Pending(x)) /\ low2 = Range(x.low) /\ type = s.type /\ p2 = Tail(pipe)
        OBVIOUS
      <3>7. Adds(pend, pend2, low, low2, m)
        BY <3>3, <3>6, <2>3 DEF AppendedAt
      <3>8. Heads(pipe, id, m)
        BY <1>1, <1>3, <1>4, <1>5 DEF Heads
      <3>9. OrderAt(id, type, q, F, pend, low, sent, pipe, th) /\ type # "HALFCLOSE"
        BY <3>1, <3>4, <3>6, <2>4
      <3>10. /\ p2 = Tail(pipe) /\ pipe \in Seq(Cmds) /\ th \in [Services -> Threads]
             /\ sent \subseteq Msgs
        BY <3>6, <2>4, <1>2
      <3>11. OrderAt(id, type, q2, F, pend2, low2, sent, p2, th)
        BY <3>5, <3>7, <3>8, <3>9, <3>10, TakeOrder
      <3>12. Line(t, conn'[id].wire) = q2 /\ Range(Pending(t)) = pend2 /\ Range(t.low) = low2
        BY <3>4, <3>6, <2>2, <1>1, <1>12, <1>13
      <3>13. Gone(t) = F
        BY <2>3, <1>12 DEF Gone
      <3> QED
        BY <3>6, <3>11, <3>12, <3>13, <2>3, <1>1, <1>11, <1>12, <1>18 DEF OrderOK
    <2> QED
      BY <2>5, <2>6
  <1>19. CASE s.id = id
    BY <1>7, <1>11, <1>12, <1>15, <1>18, <1>19, OneConnOrder
  <1> QED
    BY <1>17, <1>19

-----------------------------------------------------------------------------
LEMMA InitOrder ==
    Init => OrderInv
  <1>1. ASSUME Init, NEW i \in Slots PROVE ~Live(slot[i])
    BY <1>1 DEF Init, NoSocket, Live
  <1> QED
    BY <1>1 DEF OrderInv

LEMMA NextOrder ==
    Inv /\ Inv' /\ OrderInv /\ [Next]_vars => OrderInv'
  <1> SUFFICES ASSUME Inv, Inv', OrderInv, [Next]_vars PROVE OrderInv'
    OBVIOUS
  <1>1. ASSUME NEW id \in Ids, Reserve(id) \/ Connect(id) \/ Start(id) PROVE OrderInv'
    BY <1>1, RequestOrder, QuietSteps
  <1>2. ASSUME NEW v \in Services, NEW id \in Ids, NEW b \in BOOLEAN,
               Close(v, id, b) \/ Send(v, id, b)
        PROVE  OrderInv'
    BY <1>2, RequestOrder, SendStepOrder
  <1>3. ASSUME NEW v \in Services, Sending(v) PROVE OrderInv'
    BY <1>3, DirectWriteOrder, IncOrder, SendRequestOrder DEF Sending
  <1>4. CASE CtrlCmd
    BY <1>4, OpenOrder, CloseOrder, SendSocketOrder, QuietSteps, CloseSocketOrder DEF CtrlCmd
  <1>5. CASE NoCmd \/ WaitAny \/ UNCHANGED vars
    BY <1>5, QuietSteps
  <1>6. CASE Event
    <2>1. PICK e \in ev :
              \/ Ignore(e) \/ ReportAccept(e) \/ StaleEvent(e)
              \/ \E ok \in BOOLEAN : ReportConnect(e, ok)
              \/ ForwardMessage(e) \/ ForwardEnd(e)
              \/ \E n \in 0..MaxUnits : WriteEvent(e, n)
              \/ WriteError(e) \/ WriteBlocked(e)
      BY <1>6 DEF Event
    <2> QED
      BY <2>1, QuietSteps, AcceptOrder, EventOrder, ForwardEndOrder, WriteOrder
  <1> QED
    BY <1>1, <1>2, <1>3, <1>4, <1>5, <1>6 DEF Next, SocketThread

\* What is on the wire w, with p behind it, is in order.
LEMMA WireOrder ==
    ASSUME NEW w \in Seq(Units), NEW p \in Seq(Units), NEW q, q = w \o p,
           NEW F, NEW sent, sent \subseteq Msgs, LineOK(q, F, sent), NEW k \in 1..Len(w)
    PROVE  /\ w[k][1] \in sent
           /\ \A j \in 1..k - 1 : Precedes(w[j], w[k])
           /\ \A m \in sent :
                  Alike(m, w[k][1]) /\ m.n < w[k][1].n => <<m, Size>> \in Range(w) \cup F
  <1>1. /\ q \in Seq(Units) /\ Len(q) = Len(w) + Len(p) /\ Len(w) \in Nat /\ Len(p) \in Nat
        /\ \A j \in 1..Len(w) : q[j] = w[j]
    BY Concat, LenProperties
  <1>2. DOMAIN q = 1..Len(q) /\ DOMAIN w = 1..Len(w)
    BY <1>1, LenProperties
  <1>3. k \in 1..Len(q) /\ q[k] = w[k] /\ q[k] \in Units
    BY <1>1, ElementOfSeq
  <1>4. q[k] \in Range(q)
    BY <1>2, <1>3 DEF Range
  <1>5. \A j \in 1..k - 1 : Precedes(w[j], w[k])
    <2>1. ASSUME NEW j \in 1..k - 1 PROVE Precedes(w[j], w[k])
      <3>1. j \in 1..Len(w)
        BY <1>1
      <3> QED
        BY <3>1, <1>1, <1>3 DEF LineOK, InLine
    <2> QED
      BY <2>1
  <1>6. ASSUME NEW m \in sent, Alike(m, w[k][1]), m.n < w[k][1].n
        PROVE  <<m, Size>> \in Range(w) \cup F
    <2>0. <<m, Size>> \in Range(q) \cup F
      BY <1>3, <1>4, <1>6 DEF LineOK
    <2>1. SUFFICES ASSUME <<m, Size>> \in Range(q) PROVE <<m, Size>> \in Range(w)
      BY <2>0
    <2>2. PICK j \in 1..Len(q) : q[j] = <<m, Size>>
      BY <2>1, <1>2 DEF Range
    <2>3. CASE j <= Len(w)
      <3>1. j \in 1..Len(w)
        BY <2>3, <1>1
      <3> QED
        BY <3>1, <2>2, <1>1, <1>2 DEF Range
    <2>4. CASE j > Len(w)
      <3>1. k \in 1..j - 1
        BY <2>4, <1>1
      <3>2. Precedes(q[k], q[j])
        BY <3>1 DEF LineOK, InLine
      <3>3. PICK o \in Msgs : o = q[k][1]
        BY <1>3, UnitParts
      <3>4. q[j][1] = m
        BY <2>2
      <3>5. Alike(o, m) /\ m.n < o.n
        BY <3>3, <1>3, <1>6 DEF Alike
      <3>6. o.n < m.n \/ o = m
        BY <3>2, <3>3, <3>4, <3>5 DEF Precedes
      <3>7. m.n \in Nat /\ o.n \in Nat
        BY DEF Msgs
      <3> QED
        BY <3>5, <3>6, <3>7
    <2> QED
      BY <2>3, <2>4, <1>1
  <1> QED
    BY <1>3, <1>4, <1>5, <1>6 DEF LineOK

\* A connection carries only what was sent to its id, each message once, and the
\* messages of a service with the same priority in their order and without a gap, up
\* to what force_close frees before it closes: a direct write never overtakes a
\* message that is in the pipe or in a list.
THEOREM SentInOrder == Spec => []InOrder
  <1>1. Inv /\ OrderInv => InOrder
    <2> SUFFICES ASSUME Inv, OrderInv, NEW id \in Ids, NEW k \in DOMAIN conn[id].wire
                 PROVE  LET u == conn[id].wire[k] IN
                        /\ u[1] \in conn[id].sent
                        /\ \A j \in 1..k - 1 : Precedes(conn[id].wire[j], u)
                        /\ \A m \in conn[id].sent :
                               Alike(m, u[1]) /\ m.n < u[1].n => Complete(id, m) \/ Lost(id)
      BY DEF InOrder
    <2>1. PICK i \in Slots : i = HASH_ID(id)
      BY HashSlot DEF Ids
    <2>2. PICK s : s = slot[i]
      OBVIOUS
    <2>3. s.id = id /\ Live(s)
      <3>1. conn[id] # NoConn
        BY DEF NoConn
      <3> QED
        BY <2>1, <2>2, <3>1 DEF Inv, KnownInv, KnownOK
    <2>4. PICK w \in Seq(Units), p \in Seq(Units) : w = conn[id].wire /\ p = Pending(s)
      BY <2>2, <2>3, LiveSlot, Lists
    <2>5. PICK sent : sent = conn[id].sent
      OBVIOUS
    <2>6. LineOK(w \o p, Gone(s), sent) /\ sent \subseteq Msgs
      BY <2>2, <2>3, <2>4, <2>5, OrderParts DEF OrderAt, Line
    <2>7. k \in 1..Len(w)
      BY <2>4, LenProperties
    <2>8. /\ w[k][1] \in sent
          /\ \A j \in 1..k - 1 : Precedes(w[j], w[k])
          /\ \A m \in sent :
                 Alike(m, w[k][1]) /\ m.n < w[k][1].n => <<m, Size>> \in Range(w) \cup Gone(s)
      BY <2>6, <2>7, WireOrder
    <2>9. Gone(s) = {} \/ Lost(id)
      BY <2>1, <2>2, <2>3 DEF Gone, Lost
    <2> QED
      BY <2>4, <2>5, <2>8, <2>9 DEF Complete
  <1>2. Init => OrderInv
    BY InitOrder
  <1>3. Inv /\ Inv' /\ OrderInv /\ [Next]_vars => OrderInv'
    BY NextOrder
  <1> QED
    BY <1>1, <1>2, <1>3, SocketInvariant, PTL DEF Spec
=============================================================================
