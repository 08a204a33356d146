--------------------------- MODULE AsyncLogProofs ---------------------------
(***************************************************************************)
(* Theorems about the asynchronous logger: no assert of append and         *)
(* worker_func fails, every buffer has one owner, the files are rolled by  *)
(* hour and by size, and no message is lost, repeated or overtaken, for    *)
(* any number of buffers, messages and levels.                             *)
(*                                                                         *)
(* The lists of buffers are the closed sets of AsyncLog: a list that ends  *)
(* has no cycle because the set of buffers from which its head could be    *)
(* reached again would be closed and would not have the end.               *)
(***************************************************************************)
EXTENDS AsyncLog, FiniteSetTheorems, TLAPS

-----------------------------------------------------------------------------
(* Lists of buffers *)

\* The next pointers of a heap are buffers or NULL.
Nexts(h) == \A b \in Bufs : h[b].next \in Buf0

\* NULL is no buffer.
LEMMA BufsPositive == Bufs \subseteq Nat \ {0} /\ 0 \notin Bufs /\ {1, 2, 3, 4} \subseteq Bufs
  <1>1. PICK n \in 0..MaxMsgs + 4 : n >= 4 /\ Bufs = 1..n
    BY LogAssumption
  <1>2. n \in Nat
    BY <1>1, LogAssumption
  <1> QED
    BY <1>1, <1>2

\* The list from b on is in every closed set that has b.
LEMMA ChainLeast ==
    ASSUME NEW h, NEW b, NEW S \in SUBSET Bufs, b \in S \cup {0}, Closed(h, S)
    PROVE  ChainIn(h, b) \subseteq S
  BY DEF ChainIn

\* The list from b on is a closed set of buffers that has b.
LEMMA ChainClosed ==
    ASSUME NEW h, Nexts(h), NEW b \in Buf0
    PROVE  /\ ChainIn(h, b) \subseteq Bufs
           /\ Closed(h, ChainIn(h, b))
           /\ b # 0 => b \in ChainIn(h, b)
  <1>1. ChainIn(h, b) \subseteq Bufs
    BY DEF ChainIn
  <1>2. b # 0 => b \in ChainIn(h, b)
    BY DEF ChainIn, Buf0
  <1>3. ASSUME NEW c \in ChainIn(h, b), h[c].next # 0
        PROVE  h[c].next \in ChainIn(h, b)
    <2>1. c \in Bufs /\ h[c].next \in Bufs /\ b # 0
      BY <1>1, <1>3 DEF Nexts, Buf0, ChainIn
    <2>2. ASSUME NEW S \in SUBSET Bufs, b \in S \cup {0}, Closed(h, S)
          PROVE  h[c].next \in S
      <3>1. c \in S
        BY <2>2, ChainLeast
      <3> QED
        BY <3>1, <2>2, <1>3 DEF Closed
    <2> QED
      BY <2>1, <2>2 DEF ChainIn
  <1> QED
    BY <1>1, <1>2, <1>3 DEF Closed

\* There is nothing in an empty list.
LEMMA ChainNull == ASSUME NEW h PROVE ChainIn(h, 0) = {}
  <1>1. {} \in SUBSET Bufs /\ Closed(h, {})
    BY DEF Closed
  <1> QED
    BY <1>1, ChainLeast

\* A list is its first buffer and the list from the next one on.
LEMMA ChainNext ==
    ASSUME NEW h, Nexts(h), NEW b \in Bufs
    PROVE  ChainIn(h, b) = {b} \cup ChainIn(h, h[b].next)
  <1> DEFINE n == h[b].next
             R == {b} \cup ChainIn(h, n)
  <1>0. n \in Buf0 /\ b \in Buf0 /\ b # 0
    BY BufsPositive DEF Nexts, Buf0
  <1>1. R \in SUBSET Bufs /\ b \in R
    BY <1>0, ChainClosed
  <1>2. Closed(h, R)
    BY <1>0, ChainClosed DEF Closed
  <1>3. ChainIn(h, b) \subseteq R
    BY <1>1, <1>2, ChainLeast
  <1>4. /\ ChainIn(h, b) \in SUBSET Bufs /\ Closed(h, ChainIn(h, b))
        /\ b \in ChainIn(h, b)
    BY <1>0, ChainClosed
  <1>5. n \in ChainIn(h, b) \cup {0}
    BY <1>4 DEF Closed
  <1>6. ChainIn(h, n) \subseteq ChainIn(h, b)
    BY <1>4, <1>5, ChainLeast
  <1> QED
    BY <1>3, <1>4, <1>6

\* A list does not change with pointers that are not in it.
LEMMA ChainSame ==
    ASSUME NEW h, NEW g, Nexts(h), Nexts(g), NEW b \in Buf0,
           \A c \in ChainIn(h, b) : g[c].next = h[c].next
    PROVE  ChainIn(g, b) = ChainIn(h, b)
  <1>1. /\ ChainIn(h, b) \in SUBSET Bufs /\ Closed(h, ChainIn(h, b))
        /\ b \in ChainIn(h, b) \cup {0}
    BY ChainClosed
  <1>2. Closed(g, ChainIn(h, b))
    BY <1>1 DEF Closed
  <1>3. ChainIn(g, b) \subseteq ChainIn(h, b)
    BY <1>1, <1>2, ChainLeast
  <1>4. /\ ChainIn(g, b) \in SUBSET Bufs /\ Closed(g, ChainIn(g, b))
        /\ b \in ChainIn(g, b) \cup {0}
    BY ChainClosed
  <1>5. Closed(h, ChainIn(g, b))
    BY <1>3, <1>4 DEF Closed
  <1>6. ChainIn(h, b) \subseteq ChainIn(g, b)
    BY <1>4, <1>5, ChainLeast
  <1> QED
    BY <1>3, <1>6

\* A buffer that is linked behind the last one is added to the list.
LEMMA ChainLink ==
    ASSUME NEW h, NEW g, Nexts(h), Nexts(g), NEW b \in Bufs,
           NEW z \in ChainIn(h, b), h[z].next = 0,
           NEW c \in Bufs, g[z].next = c, g[c].next = 0, c \notin ChainIn(h, b),
           \A d \in ChainIn(h, b) \ {z} : g[d].next = h[d].next
    PROVE  ChainIn(g, b) = ChainIn(h, b) \cup {c}
  <1> DEFINE H == ChainIn(h, b)
             G == ChainIn(g, b)
  <1>0. b \in Buf0 /\ b # 0 /\ z # 0 /\ c # 0
    BY BufsPositive, ChainClosed DEF Buf0
  <1>1. H \in SUBSET Bufs /\ Closed(h, H) /\ b \in H
    BY <1>0, ChainClosed
  <1>2. G \in SUBSET Bufs /\ Closed(g, G) /\ b \in G
    BY <1>0, ChainClosed
  <1>3. H \cup {c} \in SUBSET Bufs /\ Closed(g, H \cup {c}) /\ b \in H \cup {c}
    BY <1>1 DEF Closed
  <1>4. G \subseteq H \cup {c}
    BY <1>3, ChainLeast
  <1>5. G \cap H \in SUBSET Bufs /\ Closed(h, G \cap H) /\ b \in G \cap H
    BY <1>1, <1>2 DEF Closed
  <1>6. H \subseteq G \cap H
    BY <1>5, ChainLeast
  <1>7. c \in G
    BY <1>2, <1>6, <1>0 DEF Closed
  <1> QED
    BY <1>4, <1>6, <1>7

\* A list that ends does not come back to its first buffer.
LEMMA ChainEnds ==
    ASSUME NEW h, Nexts(h), NEW b \in Bufs, NEW z \in ChainIn(h, b), h[z].next = 0
    PROVE  b \notin ChainIn(h, h[b].next)
  <1> SUFFICES ASSUME b \in ChainIn(h, h[b].next) PROVE FALSE
    OBVIOUS
  <1> DEFINE C == {c \in ChainIn(h, b) : b \in ChainIn(h, c)}
  <1>0. b \in Buf0 /\ b # 0
    BY BufsPositive DEF Buf0
  <1>1. ChainIn(h, b) \subseteq Bufs /\ Closed(h, ChainIn(h, b)) /\ b \in ChainIn(h, b)
    BY <1>0, ChainClosed
  <1>2. C \in SUBSET Bufs /\ b \in C
    BY <1>1
  <1>3. ASSUME NEW c \in C, h[c].next # 0 PROVE h[c].next \in C
    <2>1. c \in Bufs /\ h[c].next \in ChainIn(h, b)
      BY <1>1, <1>3 DEF Closed
    <2>2. ChainIn(h, c) = {c} \cup ChainIn(h, h[c].next)
      BY <2>1, ChainNext
    <2>3. b \in ChainIn(h, h[c].next)
      BY <2>2
    <2> QED
      BY <2>1, <2>3
  <1>4. Closed(h, C)
    BY <1>3 DEF Closed
  <1>5. z \in C
    BY <1>2, <1>4, ChainLeast
  <1>6. ChainIn(h, z) = {z}
    BY <1>1, ChainNext, ChainNull
  <1>7. b = z
    BY <1>5, <1>6
  <1> QED
    BY <1>7, ChainNull

-----------------------------------------------------------------------------
(* The invariants *)

Files == [kind : {"none", "file", "stdout"}, hour : 0..MaxHour, idx : Nat]
Hours == {-1} \cup 0..MaxHour
Entries == [id : Msgs, file : Files, tm : 0..MaxHour]
Cells == [live : BOOLEAN, next : Buf0, msgs : Seq(Msgs)]

\* Types, with the domains of the tables, and what they rest on: a buffer has only
\* messages that were appended, and the pointers that are followed are not NULL.
TypeInv ==
    /\ TypeOK
    /\ heap \in [Bufs -> Cells] /\ disk \in [Levels -> Seq(Entries)]
    /\ \A b \in Bufs : \A k \in DOMAIN heap[b].msgs : heap[b].msgs[k] <= nmsg
    /\ pc \in {"lock", "wait"} /\ ~failed => new_buffer1 # 0 /\ new_buffer2 # 0
    /\ Writing => buffers_to_write.head # 0

\* The first buffer of the front, and the three lists
First == IF buffers.head = 0 THEN curr_buffer ELSE buffers.head
FrontSet == ChainIn(heap, First)
ListSet == IF Writing THEN ChainIn(heap, buffers_to_write.head) ELSE {}

\* curr_buffer ends the list of the front, and the tail of buffers points to it;
\* when the second buffer is in use there is one in buffers.
FrontInv ==
    /\ curr_buffer \in FrontSet /\ heap[curr_buffer].next = 0
    /\ buffers.head = 0 => buffers.tail = 0 /\ buffers.size = 0
    /\ buffers.head # 0 => /\ buffers.tail \in Bufs /\ heap[buffers.tail].next = curr_buffer
                           /\ buffers.head # curr_buffer /\ buffers.size >= 1
    /\ next_buffer = 0 => buffers.head # 0
    /\ next_buffer # 0 => heap[next_buffer].next = 0

\* The spare buffers are there and empty, but while buffers are written.
SpareInv ==
    /\ ~Writing => new_buffer1 # 0 /\ new_buffer2 # 0 /\ buffers_to_write = Empty
    /\ Writing => new_buffer1 = 0
    /\ \A b \in {new_buffer1, new_buffer2} \ {0} : heap[b].next = 0 /\ heap[b].msgs = <<>>

\* The list that is written ends with its tail, and has a buffer for each spare
\* one that is missing.
ListInv ==
    Writing =>
        /\ buffers_to_write.tail \in ListSet /\ heap[buffers_to_write.tail].next = 0
        /\ buffers_to_write.size >= 2 => buffers_to_write.head # buffers_to_write.tail
        /\ new_buffer2 = 0 => buffers_to_write.size >= 2

\* What the three single pointers own
Singles == {next_buffer, new_buffer1, new_buffer2} \ {0}

OwnerInv ==
    /\ \A b \in Bufs : heap[b].live <=> b \in FrontSet \cup Singles \cup ListSet
    /\ FrontSet \cap ListSet = {} /\ FrontSet \cap Singles = {} /\ ListSet \cap Singles = {}
    /\ next_buffer # 0 => next_buffer # new_buffer1 /\ next_buffer # new_buffer2
    /\ new_buffer1 # 0 => new_buffer1 # new_buffer2

BufferInv == ~oom => ~failed /\ FrontInv /\ SpareInv /\ ListInv /\ OwnerInv

-----------------------------------------------------------------------------
(* Types *)

\* A cell whose messages or next pointer change
LEMMA CellSet ==
    ASSUME NEW c \in Cells
    PROVE  /\ \A s \in Seq(Msgs) : [c EXCEPT !.msgs = s] \in Cells
           /\ \A n \in Buf0 : [c EXCEPT !.next = n] \in Cells
           /\ \A v \in BOOLEAN : [c EXCEPT !.live = v] \in Cells
           /\ \A s : /\ [c EXCEPT !.msgs = s].msgs = s
                     /\ [c EXCEPT !.msgs = s].next = c.next
                     /\ [c EXCEPT !.msgs = s].live = c.live
           /\ \A n : /\ [c EXCEPT !.next = n].next = n
                     /\ [c EXCEPT !.next = n].msgs = c.msgs
                     /\ [c EXCEPT !.next = n].live = c.live
           /\ \A v : /\ [c EXCEPT !.live = v].live = v
                     /\ [c EXCEPT !.live = v].msgs = c.msgs
                     /\ [c EXCEPT !.live = v].next = c.next
  BY DEF Cells

\* A fresh buffer is empty.
LEMMA ZeroedCell == Zeroed \in Cells /\ Zeroed.live /\ Zeroed.next = 0 /\ Zeroed.msgs = <<>>
  BY DEF Zeroed, Cells, Buf0

\* What a heap must be, for one more message or not
HeapOK(h, n) ==
    /\ h \in [Bufs -> Cells]
    /\ \A b \in Bufs : /\ Len(h[b].msgs) <= MessageSize
                       /\ \A k \in DOMAIN h[b].msgs : h[b].msgs[k] <= n

\* TypeInv says so of the heap.
LEMMA HeapType == TypeInv => HeapOK(heap, nmsg) /\ Nexts(heap)
  BY DEF TypeInv, TypeOK, HeapOK, Nexts

\* The heap stays well-formed when one more message is counted.
LEMMA HeapMore ==
    ASSUME NEW h, NEW n \in Nat, n < MaxMsgs, HeapOK(h, n)
    PROVE  HeapOK(h, n + 1)
  <1>1. ASSUME NEW b \in Bufs, NEW k \in DOMAIN h[b].msgs
        PROVE  h[b].msgs[k] <= n + 1
    <2>1. h[b].msgs \in Seq(Msgs) /\ h[b].msgs[k] <= n
      BY <1>1 DEF HeapOK, Cells
    <2>2. h[b].msgs[k] \in Int
      BY <2>1, LogAssumption DEF Msgs
    <2> QED
      BY <2>1, <2>2
  <1> QED
    BY <1>1 DEF HeapOK

\* buffers with curr_buffer linked are typed, and begin with a buffer.
LEMMA LinkedType ==
    ASSUME TypeInv
    PROVE  Linked \in Lists /\ Linked.head \in Bufs /\ Linked.tail = curr_buffer
           /\ Linked.size = buffers.size + 1 /\ Linked.head = First
           /\ curr_buffer \in Bufs /\ curr_buffer # 0
  BY BufsPositive DEF TypeInv, TypeOK, Linked, Lists, Buf0, First

\* The next pointers are typed after curr_buffer was linked.
LEMMA LinkedHeapType ==
    ASSUME TypeInv
    PROVE  /\ HeapOK(LinkedHeap, nmsg)
           /\ \A b \in Bufs : /\ LinkedHeap[b].live = heap[b].live
                              /\ LinkedHeap[b].msgs = heap[b].msgs
                              /\ b # buffers.tail => LinkedHeap[b] = heap[b]
           /\ buffers.head = 0 => LinkedHeap = heap
           /\ buffers.head # 0 /\ buffers.tail \in Bufs =>
                 LinkedHeap[buffers.tail].next = curr_buffer
  <1>1. HeapOK(heap, nmsg) /\ curr_buffer \in Buf0
    BY HeapType DEF TypeInv, TypeOK, Buf0
  <1>2. PICK t, n : t = buffers.tail /\ n = curr_buffer
    OBVIOUS
  <1>3. CASE buffers.head = 0
    BY <1>1, <1>3 DEF LinkedHeap
  <1>4. CASE buffers.head # 0
    <2>1. LinkedHeap = [heap EXCEPT ![t] = [heap[t] EXCEPT !.next = n]]
      BY <1>2, <1>4 DEF LinkedHeap
    <2>2. \A b \in Bufs : LinkedHeap[b] = IF b = t THEN [heap[b] EXCEPT !.next = n] ELSE heap[b]
      BY <2>1, <1>1 DEF HeapOK
    <2>3. LinkedHeap \in [Bufs -> Cells]
      BY <2>1, <1>1, <1>2, CellSet DEF HeapOK
    <2>4. \A b \in Bufs : heap[b] \in Cells
      BY <1>1 DEF HeapOK
    <2>5. \A b \in Bufs : LinkedHeap[b].live = heap[b].live /\ LinkedHeap[b].msgs = heap[b].msgs
      BY <2>2, <2>4 DEF Cells
    <2>6. t \in Bufs => LinkedHeap[t].next = n
      BY <2>2, <2>4 DEF Cells
    <2> QED
      BY <1>1, <1>2, <1>4, <2>2, <2>3, <2>5, <2>6 DEF HeapOK
  <1> QED
    BY <1>3, <1>4

\* The types of everything but the heap and what is appended
RestOK ==
    /\ curr_buffer \in Bufs /\ next_buffer \in Buf0
    /\ buffers \in Lists /\ buffers_to_write \in Lists
    /\ new_buffer1 \in Buf0 /\ new_buffer2 \in Buf0 /\ node \in Buf0
    /\ i \in 0..MessageSize /\ tm \in 0..MaxHour /\ hour \in 0..MaxHour
    /\ pc \in {"top", "lock", "wait", "trim", "write", "flush", "recycle", "end"}
    /\ exiting \in {"no", "join", "done"}
    /\ running \in BOOLEAN /\ oom \in BOOLEAN /\ failed \in BOOLEAN
    /\ handle \in [Levels -> Files] /\ disk \in [Levels -> Seq(Entries)]
    /\ roll_hour \in [Levels -> Hours] /\ crossed \subseteq 0..MaxHour
    /\ written_bytes \in [Levels -> Nat]
    /\ need_flush \subseteq Levels /\ dropped \subseteq Msgs
    /\ pc \in {"lock", "wait"} /\ ~failed => new_buffer1 # 0 /\ new_buffer2 # 0
    /\ Writing => buffers_to_write.head # 0

\* TypeInv in three parts, for this state and for the next.
LEMMA TypeParts ==
    TypeInv => HeapOK(heap, nmsg) /\ RestOK /\ nmsg \in 0..MaxMsgs /\ level \in [1..nmsg -> Levels]
  BY DEF TypeInv, TypeOK, HeapOK, RestOK, Files, Hours

\* TypeInv is the conjunction of those parts, in the next state.
LEMMA TypeWhole ==
    HeapOK(heap', nmsg') /\ RestOK' /\ nmsg' \in 0..MaxMsgs /\ level' \in [1..nmsg' -> Levels]
    => TypeInv'
  <1> SUFFICES ASSUME HeapOK(heap', nmsg'), RestOK', nmsg' \in 0..MaxMsgs,
                      level' \in [1..nmsg' -> Levels]
               PROVE  TypeInv'
    OBVIOUS
  <1>1. \A b \in Bufs : /\ heap'[b].live \in BOOLEAN /\ heap'[b].next \in Buf0
                        /\ heap'[b].msgs \in Seq(Msgs) /\ Len(heap'[b].msgs) <= MessageSize
    BY DEF HeapOK, Cells
  <1>2. TypeOK'
    BY <1>1 DEF RestOK, TypeOK, Files, Hours
  <1> QED
    BY <1>2 DEF TypeInv, RestOK, HeapOK

\* The level of one more message
LEMMA AppendedType ==
    ASSUME nmsg \in 0..MaxMsgs, nmsg < MaxMsgs, level \in [1..nmsg -> Levels], Appended
    PROVE  /\ nmsg' = nmsg + 1 /\ nmsg' \in 0..MaxMsgs /\ level' \in [1..nmsg' -> Levels]
           /\ \A m \in 1..nmsg : level'[m] = level[m]
  <1> USE LogAssumption
  <1>1. nmsg \in Nat /\ nmsg' = nmsg + 1 /\ nmsg' \in 0..MaxMsgs
    BY DEF Appended
  <1>2. level \in Seq(Levels) /\ Len(level) = nmsg
    BY <1>1
  <1>3. PICK l \in Levels : level' = Append(level, l)
    BY DEF Appended
  <1>4. level' \in Seq(Levels) /\ Len(level') = nmsg + 1
    BY <1>2, <1>3
  <1>5. level' \in [1..nmsg + 1 -> Levels]
    BY <1>1, <1>4
  <1>6. \A m \in 1..nmsg : level'[m] = level[m]
    BY <1>1, <1>2, <1>3
  <1> QED
    BY <1>1, <1>5, <1>6

\* append, when there is room
LEMMA Append1Type == ASSUME TypeInv, Append1 PROVE TypeInv'
  <1> USE LogAssumption
  <1>1. HeapOK(heap, nmsg) /\ curr_buffer \in Bufs /\ nmsg \in 0..MaxMsgs
    BY HeapType DEF TypeInv, TypeOK
  <1>2. PICK c, m : c = curr_buffer /\ m = nmsg + 1
    OBVIOUS
  <1>3. m \in Msgs /\ c \in Bufs /\ nmsg' = m /\ nmsg \in Nat /\ nmsg < MaxMsgs
    BY <1>1, <1>2 DEF Append1, Appended, Msgs
  <1>4. PICK s : s = Append(heap[c].msgs, m)
    OBVIOUS
  <1>5. heap[c].msgs \in Seq(Msgs) /\ Len(heap[c].msgs) + 1 < MessageSize
    BY <1>1, <1>2 DEF HeapOK, Cells, Append1, Full
  <1>6. s \in Seq(Msgs) /\ Len(s) <= MessageSize /\ \A k \in DOMAIN s : s[k] <= m
    <2>1. s \in Seq(Msgs) /\ Len(s) = Len(heap[c].msgs) + 1
      BY <1>3, <1>4, <1>5
    <2>2. ASSUME NEW k \in DOMAIN s PROVE s[k] <= m
      <3>1. CASE k = Len(heap[c].msgs) + 1
        BY <2>1, <3>1, <1>3, <1>4, <1>5 DEF Msgs
      <3>2. CASE k \in DOMAIN heap[c].msgs
        <4>1. s[k] = heap[c].msgs[k] /\ heap[c].msgs[k] \in Msgs
          BY <3>2, <1>3, <1>4, <1>5
        <4>2. heap[c].msgs[k] <= nmsg
          BY <3>2, <1>1, <1>3 DEF HeapOK
        <4> QED
          BY <4>1, <4>2, <1>2, <1>3 DEF Msgs
      <3> QED
        BY <2>1, <3>1, <3>2, <1>5
    <2> QED
      BY <2>1, <2>2, <1>5
  <1>7. heap' = [heap EXCEPT ![c] = [heap[c] EXCEPT !.msgs = s]]
    BY <1>2, <1>4 DEF Append1
  <1>8. HeapOK(heap', nmsg')
    <2>1. HeapOK(heap, m)
      BY <1>1, <1>2, <1>3, HeapMore
    <2>2. heap' \in [Bufs -> Cells]
      BY <1>1, <1>7, <1>6, CellSet DEF HeapOK
    <2>3. \A b \in Bufs : heap'[b].msgs = IF b = c THEN s ELSE heap[b].msgs
      BY <1>1, <1>7, CellSet DEF HeapOK, Cells
    <2> QED
      BY <2>1, <2>2, <2>3, <1>3, <1>6 DEF HeapOK
  <1>9. nmsg' \in 0..MaxMsgs /\ level' \in [1..nmsg' -> Levels]
    BY <1>1, <1>3, TypeParts, AppendedType DEF Append1
  <1>10. RestOK'
    BY TypeParts DEF RestOK, Append1, front, files, clock, spares, Writing
  <1> QED
    BY <1>8, <1>9, <1>10, TypeWhole

\* The heap when curr_buffer was full and b follows it.
LEMMA FullHeap ==
    ASSUME TypeInv, NEW b \in Bufs, AppendFull(b)
    PROVE  /\ HeapOK(heap', nmsg + 1)
           /\ \A c \in Bufs \ {b} :
                 /\ heap'[c].live = heap[c].live /\ heap'[c].msgs = heap[c].msgs
                 /\ heap'[c].next = IF c = curr_buffer THEN b ELSE LinkedHeap[c].next
           /\ next_buffer = 0 => heap'[b].live /\ heap'[b].next = 0
           /\ next_buffer # 0 /\ b # curr_buffer =>
                 heap'[b].live = heap[b].live /\ heap'[b].next = LinkedHeap[b].next
           /\ heap'[b].msgs = <<nmsg + 1>>
  <1> USE LogAssumption
  <1>1. /\ HeapOK(LinkedHeap, nmsg) /\ curr_buffer \in Bufs /\ nmsg \in 0..MaxMsgs /\ nmsg < MaxMsgs
        /\ \A c \in Bufs : /\ LinkedHeap[c].live = heap[c].live
                           /\ LinkedHeap[c].msgs = heap[c].msgs
    <2>1. curr_buffer \in Bufs /\ nmsg \in 0..MaxMsgs /\ nmsg < MaxMsgs
      BY TypeParts DEF RestOK, AppendFull
    <2> QED
      BY <2>1, LinkedHeapType
  <1>2. PICK n, h, q : n = curr_buffer /\ h = LinkedHeap /\ q = <<nmsg + 1>>
    OBVIOUS
  <1>3. PICK g : g = [h EXCEPT ![n] = [h[n] EXCEPT !.next = b]]
    OBVIOUS
  <1>x. PICK x : x = IF next_buffer = 0 THEN Zeroed ELSE g[b]
    OBVIOUS
  <1>4. heap' = [g EXCEPT ![b] = [x EXCEPT !.msgs = q]]
    BY <1>2, <1>3, <1>x DEF AppendFull
  <1>5. h \in [Bufs -> Cells] /\ HeapOK(h, nmsg + 1) /\ b \in Buf0 /\ n \in Bufs
    <2>1. HeapOK(h, nmsg + 1)
      BY <1>1, <1>2, HeapMore
    <2> QED
      BY <2>1, <1>1, <1>2 DEF HeapOK, Buf0
  <1>6. /\ g \in [Bufs -> Cells]
        /\ \A c \in Bufs : /\ g[c].live = h[c].live /\ g[c].msgs = h[c].msgs
                           /\ g[c].next = IF c = n THEN b ELSE h[c].next
    <2>1. g \in [Bufs -> Cells]
      BY <1>3, <1>5, CellSet
    <2>2. \A c \in Bufs : g[c] = IF c = n THEN [h[c] EXCEPT !.next = b] ELSE h[c]
      BY <1>3, <1>5
    <2>3. \A c \in Bufs : h[c] \in Cells
      BY <1>5
    <2> QED
      BY <2>1, <2>2, <2>3 DEF Cells
  <1>7. x \in Cells
    BY <1>x, <1>6, ZeroedCell
  <1>8. q \in Seq(Msgs) /\ Len(q) = 1 /\ \A k \in DOMAIN q : q[k] <= nmsg + 1
    BY <1>1, <1>2 DEF Msgs
  <1>9. /\ heap' \in [Bufs -> Cells]
        /\ \A c \in Bufs : heap'[c] = IF c = b THEN [x EXCEPT !.msgs = q] ELSE g[c]
    <2>1. [x EXCEPT !.msgs = q] \in Cells
      BY <1>7, <1>8, CellSet
    <2> QED
      BY <1>4, <1>6, <2>1
  <1>10. heap'[b].msgs = q /\ heap'[b].next = x.next /\ heap'[b].live = x.live
    BY <1>7, <1>9 DEF Cells
  <1>11. \A c \in Bufs \ {b} : heap'[c] = g[c]
    BY <1>9
  <1>12. HeapOK(heap', nmsg + 1)
    <2>1. \A c \in Bufs : heap'[c].msgs = IF c = b THEN q ELSE h[c].msgs
      BY <1>6, <1>10, <1>11
    <2>2. ASSUME NEW c \in Bufs
          PROVE  /\ Len(heap'[c].msgs) <= MessageSize
                 /\ \A k \in DOMAIN heap'[c].msgs : heap'[c].msgs[k] <= nmsg + 1
      <3>1. CASE c = b
        <4>1. heap'[c].msgs = q /\ 1 <= MessageSize
          BY <2>1, <3>1
        <4> QED
          BY <4>1, <1>8
      <3>2. CASE c # b
        BY <2>1, <3>2, <1>5 DEF HeapOK
      <3> QED
        BY <3>1, <3>2
    <2> QED
      BY <2>2, <1>9 DEF HeapOK
  <1>13. \A c \in Bufs \ {b} :
            /\ heap'[c].live = heap[c].live /\ heap'[c].msgs = heap[c].msgs
            /\ heap'[c].next = IF c = curr_buffer THEN b ELSE LinkedHeap[c].next
    BY <1>1, <1>2, <1>6, <1>11
  <1>14. next_buffer = 0 => heap'[b].live /\ heap'[b].next = 0
    BY <1>x, <1>10, ZeroedCell
  <1>15. next_buffer # 0 /\ b # curr_buffer =>
            heap'[b].live = heap[b].live /\ heap'[b].next = LinkedHeap[b].next
    BY <1>1, <1>2, <1>x, <1>6, <1>10
  <1> QED
    BY <1>2, <1>10, <1>12, <1>13, <1>14, <1>15

\* append, when curr_buffer is full
LEMMA AppendFullType ==
    ASSUME TypeInv, NEW b \in Bufs, AppendFull(b) PROVE TypeInv'
  <1>1. RestOK /\ nmsg \in 0..MaxMsgs /\ level \in [1..nmsg -> Levels]
    BY TypeParts
  <1>2. nmsg' = nmsg + 1 /\ nmsg' \in 0..MaxMsgs /\ level' \in [1..nmsg' -> Levels]
    BY <1>1, AppendedType DEF AppendFull
  <1>3. HeapOK(heap', nmsg')
    BY <1>2, FullHeap
  <1>4. buffers' \in Lists /\ next_buffer' \in Buf0 /\ curr_buffer' \in Bufs
        /\ failed' \in BOOLEAN /\ ~failed
    BY LinkedType DEF AppendFull, LinkFails, Buf0
  <1>5. RestOK'
    BY <1>1, <1>4 DEF RestOK, AppendFull, files, clock, spares, Writing
  <1> QED
    BY <1>2, <1>3, <1>5, TypeWhole

\* append, when there is no memory
LEMMA AppendNoMemoryType == ASSUME TypeInv, AppendNoMemory PROVE TypeInv'
  <1> USE LogAssumption
  <1>1. RestOK /\ nmsg \in 0..MaxMsgs /\ nmsg < MaxMsgs /\ level \in [1..nmsg -> Levels]
    BY TypeParts DEF AppendNoMemory
  <1>2. nmsg' = nmsg + 1 /\ nmsg' \in 0..MaxMsgs /\ level' \in [1..nmsg' -> Levels]
    BY <1>1, AppendedType DEF AppendNoMemory
  <1>3. HeapOK(heap', nmsg')
    BY <1>1, <1>2, LinkedHeapType, HeapMore DEF AppendNoMemory
  <1>4. buffers' \in Lists /\ failed' \in BOOLEAN /\ ~failed /\ nmsg + 1 \in Msgs
    BY <1>1, LinkedType DEF AppendNoMemory, LinkFails, Msgs
  <1>5. RestOK'
    BY <1>1, <1>4 DEF RestOK, AppendNoMemory, files, clock, spares, Writing
  <1> QED
    BY <1>2, <1>3, <1>5, TypeWhole

\* The critical section of the thread
LEMMA SwapType == ASSUME TypeInv, Swap PROVE TypeInv'
  <1>1. RestOK /\ nmsg \in 0..MaxMsgs /\ level \in [1..nmsg -> Levels] /\ HeapOK(heap, nmsg)
    BY TypeParts
  <1>2. new_buffer1 # 0 /\ new_buffer1 \in Bufs
    BY <1>1 DEF RestOK, Swap, Buf0
  <1>3. buffers_to_write' \in Lists /\ buffers_to_write'.head # 0
    BY LinkedType, BufsPositive DEF Swap
  <1>4. buffers' \in Lists
    BY DEF Swap, Empty, Lists, Buf0
  <1>5. curr_buffer' \in Bufs /\ next_buffer' \in Buf0 /\ new_buffer1' \in Buf0 /\ new_buffer2' \in Buf0
    BY <1>1, <1>2 DEF RestOK, Swap, SparesLeft, Buf0
  <1>6. RestOK'
    BY <1>1, <1>3, <1>4, <1>5 DEF RestOK, Swap, files, clock, Writing
  <1>7. heap' = heap /\ nmsg' = nmsg /\ level' = level
    BY DEF Swap
  <1> QED
    BY <1>1, <1>6, <1>7, TypeWhole

\* The messages of buffers are messages.
LEMMA HeldType == ASSUME TypeInv, NEW bs \in SUBSET Bufs PROVE Held(bs) \subseteq Msgs
  <1>1. \A b \in Bufs : heap[b].msgs \in Seq(Msgs)
    BY DEF TypeInv, TypeOK
  <1> QED
    BY <1>1 DEF Held

\* What is left of too many buffers
LEMMA TrimmedHeap ==
    ASSUME TypeInv
    PROVE  /\ HeapOK(Trimmed, nmsg) /\ Excess \subseteq Bufs
           /\ \A b \in Bufs :
                 /\ Trimmed[b].live = (heap[b].live /\ b \notin Excess)
                 /\ Trimmed[b].msgs = heap[b].msgs
                 /\ Trimmed[b].next = IF b = Second THEN 0 ELSE heap[b].next
  <1>1. HeapOK(heap, nmsg) /\ \A b \in Bufs : heap[b] \in Cells
    BY HeapType DEF HeapOK
  <1>2. PICK e, s : e = Excess /\ s = Second
    OBVIOUS
  <1>3. e \subseteq Bufs
    BY <1>2 DEF Excess, Chain, ChainIn
  <1>4. PICK f : f = Free(e)
    OBVIOUS
  <1>5. /\ f \in [Bufs -> Cells]
        /\ \A b \in Bufs : f[b] = IF b \in e THEN [heap[b] EXCEPT !.live = FALSE] ELSE heap[b]
    BY <1>1, <1>4, CellSet DEF Free
  <1>6. \A b \in Bufs : /\ f[b].live = (heap[b].live /\ b \notin e)
                        /\ f[b].msgs = heap[b].msgs /\ f[b].next = heap[b].next
    BY <1>1, <1>5 DEF Cells
  <1>7. Trimmed = [f EXCEPT ![s] = [f[s] EXCEPT !.next = 0]]
    BY <1>2, <1>4 DEF Trimmed
  <1>8. /\ Trimmed \in [Bufs -> Cells]
        /\ \A b \in Bufs : Trimmed[b] = IF b = s THEN [f[b] EXCEPT !.next = 0] ELSE f[b]
    BY <1>5, <1>7, CellSet DEF Buf0
  <1>9. \A b \in Bufs : f[b] \in Cells
    BY <1>5
  <1>10. \A b \in Bufs : /\ Trimmed[b].live = f[b].live /\ Trimmed[b].msgs = f[b].msgs
                         /\ Trimmed[b].next = IF b = s THEN 0 ELSE f[b].next
    BY <1>8, <1>9 DEF Cells
  <1>11. \A b \in Bufs : Trimmed[b].msgs = heap[b].msgs
    BY <1>6, <1>10
  <1>12. HeapOK(Trimmed, nmsg)
    BY <1>1, <1>8, <1>11 DEF HeapOK
  <1> QED
    BY <1>2, <1>3, <1>6, <1>10, <1>12

\* The drop of excess buffers
LEMMA TrimType == ASSUME TypeInv, Trim PROVE TypeInv'
  <1>1. RestOK /\ nmsg \in 0..MaxMsgs /\ level \in [1..nmsg -> Levels] /\ HeapOK(heap, nmsg)
    BY TypeParts
  <1>2. buffers_to_write.head \in Bufs /\ Second \in Buf0
    BY <1>1, HeapType DEF RestOK, Trim, Writing, Lists, Buf0, Second, Nexts
  <1>3. HeapOK(heap', nmsg')
    BY <1>1, TrimmedHeap DEF Trim
  <1>4. dropped' \subseteq Msgs
    BY <1>1, HeldType, TrimmedHeap DEF Trim, RestOK
  <1>5. buffers_to_write' \in Lists /\ buffers_to_write'.head = buffers_to_write.head
    BY <1>1, <1>2 DEF Trim, RestOK, Lists
  <1>6. tm' \in 0..MaxHour /\ node' \in Buf0 /\ i' \in 0..MessageSize /\ need_flush' \subseteq Levels
    BY <1>1, <1>2, LogAssumption DEF Trim, RestOK, Buf0
  <1>7. RestOK'
    BY <1>1, <1>2, <1>4, <1>5, <1>6, BufsPositive DEF RestOK, Trim, front, files, clock, spares, Writing
  <1>8. nmsg' = nmsg /\ level' = level
    BY DEF Trim
  <1> QED
    BY <1>1, <1>3, <1>7, <1>8, TypeWhole

\* The heap when the written buffers became spare ones or were freed
LEMMA RecycleHeap ==
    ASSUME TypeInv, Recycle
    PROVE  /\ HeapOK(heap', nmsg)
           /\ \A b \in Bufs :
                 /\ b \in Taken => heap'[b] = Zeroed
                 /\ b \notin Taken =>
                       /\ heap'[b].live = (heap[b].live /\ b \notin Rest)
                       /\ heap'[b].msgs = heap[b].msgs /\ heap'[b].next = heap[b].next
  <1>0. PICK taken, rest : taken = Taken /\ rest = Rest
    OBVIOUS
  <1>1. HeapOK(heap, nmsg) /\ \A b \in Bufs : heap[b] \in Cells
    BY HeapType DEF HeapOK
  <1>4. PICK f : f = Free(rest)
    OBVIOUS
  <1>5. /\ f \in [Bufs -> Cells]
        /\ \A b \in Bufs : f[b] = IF b \in rest THEN [heap[b] EXCEPT !.live = FALSE] ELSE heap[b]
    BY <1>1, <1>4, CellSet DEF Free
  <1>6. \A b \in Bufs : /\ f[b].live = (heap[b].live /\ b \notin rest)
                        /\ f[b].msgs = heap[b].msgs /\ f[b].next = heap[b].next
    BY <1>1, <1>5 DEF Cells
  <1>c. heap' = [b \in Bufs |-> IF b \in taken THEN Zeroed ELSE f[b]]
    BY <1>0, <1>4 DEF Recycle
  <1>7. heap' \in [Bufs -> Cells]
    BY <1>c, <1>5, ZeroedCell
  <1>8. \A b \in Bufs : heap'[b] = IF b \in taken THEN Zeroed ELSE f[b]
    BY <1>c
  <1>9. \A b \in Bufs : heap'[b].msgs = <<>> \/ heap'[b].msgs = heap[b].msgs
    BY <1>6, <1>8, ZeroedCell
  <1>10. HeapOK(heap', nmsg)
    BY <1>1, <1>7, <1>9, LogAssumption DEF HeapOK
  <1> QED
    BY <1>0, <1>6, <1>8, <1>10

\* The end of the thread's round
LEMMA RecycleType == ASSUME TypeInv, Recycle PROVE TypeInv'
  <1>1. RestOK /\ nmsg \in 0..MaxMsgs /\ level \in [1..nmsg -> Levels] /\ HeapOK(heap, nmsg)
    BY TypeParts
  <1>2. buffers_to_write.head \in Bufs /\ Second \in Buf0
    BY <1>1, HeapType DEF RestOK, Recycle, Writing, Lists, Buf0, Nexts, Second
  <1>3. HeapOK(heap', nmsg)
    BY RecycleHeap
  <1>4. new_buffer1' \in Buf0 /\ new_buffer2' \in Buf0 /\ failed' \in BOOLEAN
    BY <1>1, <1>2 DEF Recycle, RestOK, Buf0
  <1>5. buffers_to_write' \in Lists
    BY DEF Recycle, Empty, Lists, Buf0
  <1>6. RestOK'
    BY <1>1, <1>4, <1>5 DEF RestOK, Recycle, front, files, clock, Writing
  <1>7. nmsg' = nmsg /\ level' = level
    BY DEF Recycle
  <1> QED
    BY <1>1, <1>3, <1>6, <1>7, TypeWhole

\* The size of a file is a number.
LEMMA FileSizeNat ==
    ASSUME TypeInv, NEW l \in Levels, NEW h, NEW n
    PROVE  FileSize(l, h, n) \in Nat
  <1>1. disk[l] \in Seq(Entries)
    BY DEF TypeInv
  <1>2. IsFiniteSet(1..Len(disk[l])) /\ DOMAIN disk[l] = 1..Len(disk[l])
    BY <1>1, FS_Interval
  <1>3. PICK K : K = {k \in DOMAIN disk[l] :
                        disk[l][k].file = [kind |-> "file", hour |-> h, idx |-> n]}
    OBVIOUS
  <1>4. IsFiniteSet(K)
    BY <1>2, <1>3, FS_Subset
  <1>5. FileSize(l, h, n) = Cardinality(K)
    BY <1>3 DEF FileSize
  <1> QED
    BY <1>4, <1>5, FS_CardinalityType

\* What rollfile leaves
LEMMA RollType ==
    ASSUME TypeInv, NEW l \in Levels, NEW r \in RollFile(l)
    PROVE  r.file \in Files /\ r.roll \in Hours /\ RolledBytes(l, r.file) \in Nat
  <1>1. hour \in 0..MaxHour /\ written_bytes[l] \in Nat /\ roll_hour[l] \in Hours
    BY DEF TypeInv, TypeOK, Hours
  <1>2. CASE r \in Rolled(l)
    <2>1. PICK n \in 0..MaxMsgs : \E g \in Readings(l, n) :
             r = [file |-> [kind |-> "file", hour |-> g[n], idx |-> n], roll |-> g[n + 1]]
      BY <1>2 DEF Rolled
    <2>2. PICK g \in [0..n + 1 -> hour..MaxHour] :
             r = [file |-> [kind |-> "file", hour |-> g[n], idx |-> n], roll |-> g[n + 1]]
      BY <2>1 DEF Readings
    <2>3. n \in Nat /\ n \in 0..n + 1 /\ n + 1 \in 0..n + 1
      BY LogAssumption
    <2>4. g[n] \in hour..MaxHour /\ g[n + 1] \in hour..MaxHour
      BY <2>3
    <2>5. g[n] \in 0..MaxHour /\ g[n + 1] \in 0..MaxHour
      BY <1>1, <2>4, LogAssumption
    <2> QED
      BY <2>2, <2>3, <2>5, FileSizeNat DEF Files, Hours, RolledBytes
  <1>3. CASE r = [file |-> Stdout, roll |-> roll_hour[l]]
    BY <1>1, <1>3, LogAssumption DEF Stdout, Files, RolledBytes
  <1> QED
    BY <1>2, <1>3 DEF RollFile

\* What a level has is typed, whether it rolls or not.
LEMMA StaysType ==
    ASSUME TypeInv, NEW l \in Levels, NEW r \in Stays(l)
    PROVE  r.file \in Files /\ r.roll \in Hours /\ r.file = handle[l] /\ r.roll = roll_hour[l]
  BY DEF Stays, TypeInv, TypeOK, Files, Hours

\* The tables after a roll, and those of the other levels
LEMMA RollsType ==
    ASSUME TypeInv, NEW l \in Levels, NEW r, r.file \in Files, r.roll \in Hours, Rolls(l, r)
    PROVE  /\ handle' \in [Levels -> Files] /\ roll_hour' \in [Levels -> Hours]
           /\ hour' \in 0..MaxHour /\ crossed' \subseteq 0..MaxHour
           /\ hour <= hour' /\ r.roll <= hour' /\ crossed \subseteq crossed'
           /\ crossed' = crossed \cup (hour + 1)..r.roll
           /\ handle'[l] = r.file /\ roll_hour'[l] = r.roll
           /\ \A k \in Levels \ {l} : handle'[k] = handle[k] /\ roll_hour'[k] = roll_hour[k]
  <1>1. /\ hour \in 0..MaxHour /\ crossed \subseteq 0..MaxHour
        /\ handle \in [Levels -> Files] /\ roll_hour \in [Levels -> Hours]
    BY DEF TypeInv, TypeOK, Files, Hours
  <1>2. PICK q : q = r.roll
    OBVIOUS
  <1>3. q \in Hours /\ hour' = IF q > hour THEN q ELSE hour
    BY <1>2 DEF Rolls
  <1>4. hour' \in 0..MaxHour /\ hour <= hour' /\ q <= hour'
    BY <1>1, <1>3, LogAssumption DEF Hours
  <1>5. (hour + 1)..q \subseteq 0..MaxHour
    BY <1>1, <1>3, LogAssumption DEF Hours
  <1>6. crossed' = crossed \cup (hour + 1)..q
    BY <1>2 DEF Rolls
  <1>7. handle' = [handle EXCEPT ![l] = r.file] /\ roll_hour' = [roll_hour EXCEPT ![l] = r.roll]
    BY DEF Rolls
  <1> QED
    BY <1>1, <1>2, <1>4, <1>5, <1>6, <1>7

\* Message m of level l goes to the file of r.
Wrote(m, l, r) ==
    /\ handle[l].kind # "none"
    /\ r \in IF HourPassed(l) THEN RollFile(l) ELSE Stays(l)
    /\ Rolls(l, r)
    /\ written_bytes' = [written_bytes EXCEPT ![l] =
          1 + IF r.file = handle[l] THEN written_bytes[l] ELSE RolledBytes(l, r.file)]
    /\ disk' = [disk EXCEPT ![l] = Append(disk[l], [id |-> m, file |-> r.file, tm |-> tm])]
    /\ need_flush' = need_flush \cup {l}

\* The next message, and its level
LEMMA NextMessage ==
    ASSUME TypeInv, node # 0, i < Len(heap[node].msgs)
    PROVE  \E m \in Msgs : \E l \in Levels :
              /\ m = heap[node].msgs[i + 1] /\ l = level[m]
              /\ node \in Bufs /\ i \in Nat /\ i + 1 \in 0..MessageSize
  <1>1. RestOK /\ HeapOK(heap, nmsg) /\ level \in [1..nmsg -> Levels] /\ nmsg \in 0..MaxMsgs
    BY TypeParts
  <1>2. node \in Bufs /\ i \in Nat
    BY <1>1, LogAssumption DEF RestOK, Buf0
  <1>3. heap[node].msgs \in Seq(Msgs) /\ Len(heap[node].msgs) <= MessageSize
    BY <1>1, <1>2 DEF HeapOK, Cells
  <1>4. i + 1 \in DOMAIN heap[node].msgs /\ Len(heap[node].msgs) \in Nat
    BY <1>2, <1>3
  <1>5. i + 1 \in 0..MessageSize
    BY <1>2, <1>3, <1>4, LogAssumption
  <1>6. PICK m : m = heap[node].msgs[i + 1]
    OBVIOUS
  <1>7. m \in Msgs /\ m <= nmsg
    BY <1>1, <1>2, <1>3, <1>4, <1>6 DEF HeapOK
  <1>8. level[m] \in Levels
    BY <1>1, <1>7, LogAssumption DEF Msgs
  <1> QED
    BY <1>2, <1>5, <1>6, <1>7, <1>8

\* The parts of a write
LEMMA WriteParts ==
    ASSUME TypeInv, WriteMessage
    PROVE  \E m \in Msgs : \E l \in Levels : \E r :
              /\ m = heap[node].msgs[i + 1] /\ l = level[m]
              /\ Wrote(m, l, r)
              /\ r.file \in Files /\ r.roll \in Hours
              /\ (IF r.file = handle[l] THEN written_bytes[l] ELSE RolledBytes(l, r.file)) \in Nat
  <1>1. PICK m \in Msgs : \E l \in Levels : m = heap[node].msgs[i + 1] /\ l = level[m]
    BY NextMessage DEF WriteMessage
  <1>2. PICK l \in Levels : m = heap[node].msgs[i + 1] /\ l = level[m]
    BY <1>1
  <1>3. PICK r : Wrote(m, l, r)
    BY <1>2 DEF WriteMessage, Wrote
  <1>4. r \in RollFile(l) \/ r \in Stays(l)
    BY <1>3 DEF Wrote
  <1>5. written_bytes[l] \in Nat
    BY DEF TypeInv, TypeOK
  <1> QED
    BY <1>2, <1>3, <1>4, <1>5, RollType, StaysType

\* One message is written.
LEMMA WriteMessageType == ASSUME TypeInv, WriteMessage PROVE TypeInv'
  <1>1. RestOK /\ HeapOK(heap, nmsg) /\ level \in [1..nmsg -> Levels] /\ nmsg \in 0..MaxMsgs
    BY TypeParts
  <1>2. PICK m \in Msgs : \E l \in Levels : \E r :
              /\ Wrote(m, l, r)
              /\ r.file \in Files /\ r.roll \in Hours
              /\ (IF r.file = handle[l] THEN written_bytes[l] ELSE RolledBytes(l, r.file)) \in Nat
    BY WriteParts
  <1>a. PICK l \in Levels : \E r :
              /\ Wrote(m, l, r)
              /\ r.file \in Files /\ r.roll \in Hours
              /\ (IF r.file = handle[l] THEN written_bytes[l] ELSE RolledBytes(l, r.file)) \in Nat
    BY <1>2
  <1>3. PICK r :
              /\ Wrote(m, l, r)
              /\ r.file \in Files /\ r.roll \in Hours
              /\ (IF r.file = handle[l] THEN written_bytes[l] ELSE RolledBytes(l, r.file)) \in Nat
    BY <1>a
  <1>4. Rolls(l, r) /\ need_flush' \subseteq Levels
    BY <1>1, <1>3 DEF Wrote, RestOK
  <1>5. /\ handle' \in [Levels -> Files] /\ roll_hour' \in [Levels -> Hours]
        /\ hour' \in 0..MaxHour /\ crossed' \subseteq 0..MaxHour
    BY <1>3, <1>4, RollsType
  <1>6. PICK w : w = IF r.file = handle[l] THEN written_bytes[l] ELSE RolledBytes(l, r.file)
    OBVIOUS
  <1>7. written_bytes' \in [Levels -> Nat]
    <2>1. written_bytes' = [written_bytes EXCEPT ![l] = 1 + w] /\ 1 + w \in Nat
      BY <1>3, <1>6 DEF Wrote
    <2> QED
      BY <2>1, <1>1 DEF RestOK
  <1>8. disk' \in [Levels -> Seq(Entries)]
    <2>1. PICK e : e = [id |-> m, file |-> r.file, tm |-> tm]
      OBVIOUS
    <2>2. e \in Entries
      BY <2>1, <1>1, <1>3 DEF RestOK, Entries
    <2>3. disk' = [disk EXCEPT ![l] = Append(disk[l], e)] /\ disk[l] \in Seq(Entries)
      BY <2>1, <1>3, <1>1 DEF RestOK, Wrote
    <2>4. Append(disk[l], e) \in Seq(Entries)
      BY <2>2, <2>3
    <2> QED
      BY <2>3, <2>4, <1>1 DEF RestOK
  <1>9. i' \in 0..MessageSize
    BY NextMessage DEF WriteMessage
  <1>10. RestOK'
    BY <1>1, <1>4, <1>5, <1>7, <1>8, <1>9 DEF RestOK, WriteMessage, front, spares, Writing
  <1>11. heap' = heap /\ nmsg' = nmsg /\ level' = level
    BY DEF WriteMessage
  <1> QED
    BY <1>1, <1>10, <1>11, TypeWhole

\* The parts of the first rollfile of a level
LEMMA OpenParts ==
    ASSUME TypeInv, OpenFile
    PROVE  \E l \in Levels : \E r \in RollFile(l) :
              /\ handle[l].kind = "none" /\ Rolls(l, r)
              /\ written_bytes' = [written_bytes EXCEPT ![l] = RolledBytes(l, r.file)]
  <1>1. PICK l \in Levels : l = level[heap[node].msgs[i + 1]]
    BY NextMessage DEF OpenFile
  <1> QED
    BY <1>1 DEF OpenFile

\* A level gets its first file.
LEMMA OpenFileType == ASSUME TypeInv, OpenFile PROVE TypeInv'
  <1>1. RestOK /\ HeapOK(heap, nmsg) /\ level \in [1..nmsg -> Levels] /\ nmsg \in 0..MaxMsgs
    BY TypeParts
  <1>2. PICK l \in Levels : \E r \in RollFile(l) :
              /\ Rolls(l, r)
              /\ written_bytes' = [written_bytes EXCEPT ![l] = RolledBytes(l, r.file)]
    BY OpenParts
  <1>3. PICK r \in RollFile(l) :
              /\ Rolls(l, r)
              /\ written_bytes' = [written_bytes EXCEPT ![l] = RolledBytes(l, r.file)]
    BY <1>2
  <1>4. r.file \in Files /\ r.roll \in Hours /\ RolledBytes(l, r.file) \in Nat
    BY RollType
  <1>5. /\ handle' \in [Levels -> Files] /\ roll_hour' \in [Levels -> Hours]
        /\ hour' \in 0..MaxHour /\ crossed' \subseteq 0..MaxHour
    BY <1>3, <1>4, RollsType
  <1>6. written_bytes' \in [Levels -> Nat]
    BY <1>1, <1>3, <1>4 DEF RestOK
  <1>7. RestOK'
    BY <1>1, <1>5, <1>6 DEF RestOK, OpenFile, front, spares, Writing
  <1>8. heap' = heap /\ nmsg' = nmsg /\ level' = level
    BY DEF OpenFile
  <1> QED
    BY <1>1, <1>7, <1>8, TypeWhole

\* The parts of a flush
LEMMA FlushParts ==
    ASSUME TypeInv, NEW l \in Levels, Flush(l)
    PROVE  \E r : /\ r \in IF written_bytes[l] > RollSize THEN RollFile(l) ELSE Stays(l)
                  /\ Rolls(l, r) /\ r.file \in Files /\ r.roll \in Hours
                  /\ written_bytes' = [written_bytes EXCEPT ![l] =
                        IF r.file = handle[l] THEN written_bytes[l] ELSE RolledBytes(l, r.file)]
                  /\ (IF r.file = handle[l] THEN written_bytes[l] ELSE RolledBytes(l, r.file)) \in Nat
  <1>1. PICK r : /\ r \in IF written_bytes[l] > RollSize THEN RollFile(l) ELSE Stays(l)
                 /\ Rolls(l, r)
                 /\ written_bytes' = [written_bytes EXCEPT ![l] =
                       IF r.file = handle[l] THEN written_bytes[l] ELSE RolledBytes(l, r.file)]
    BY DEF Flush
  <1>2. r \in RollFile(l) \/ r \in Stays(l)
    BY <1>1
  <1>3. written_bytes[l] \in Nat
    BY DEF TypeInv, TypeOK
  <1> QED
    BY <1>1, <1>2, <1>3, RollType, StaysType

\* A level is flushed and perhaps rolled.
LEMMA FlushType == ASSUME TypeInv, NEW l \in Levels, Flush(l) PROVE TypeInv'
  <1>1. RestOK /\ HeapOK(heap, nmsg) /\ level \in [1..nmsg -> Levels] /\ nmsg \in 0..MaxMsgs
    BY TypeParts
  <1>2. PICK r, w : /\ Rolls(l, r) /\ r.file \in Files /\ r.roll \in Hours
                    /\ w = (IF r.file = handle[l] THEN written_bytes[l] ELSE RolledBytes(l, r.file))
                    /\ written_bytes' = [written_bytes EXCEPT ![l] = w] /\ w \in Nat
    BY FlushParts
  <1>3. /\ handle' \in [Levels -> Files] /\ roll_hour' \in [Levels -> Hours]
        /\ hour' \in 0..MaxHour /\ crossed' \subseteq 0..MaxHour
    BY <1>2, RollsType
  <1>4. written_bytes' \in [Levels -> Nat]
    BY <1>1, <1>2 DEF RestOK
  <1>5. RestOK'
    BY <1>1, <1>3, <1>4 DEF RestOK, Flush, front, spares, Writing
  <1>6. heap' = heap /\ nmsg' = nmsg /\ level' = level
    BY DEF Flush
  <1> QED
    BY <1>1, <1>5, <1>6, TypeWhole

\* The other steps leave the heap alone.
LEMMA OtherType ==
    ASSUME TypeInv, Loop \/ Wait \/ WriteNext \/ Exit \/ Join \/ Tick PROVE TypeInv'
  <1>1. RestOK /\ HeapOK(heap, nmsg) /\ level \in [1..nmsg -> Levels] /\ nmsg \in 0..MaxMsgs
        /\ Nexts(heap)
    BY TypeParts, HeapType
  <1>2. heap' = heap /\ nmsg' = nmsg /\ level' = level
    BY DEF Loop, Wait, WriteNext, Exit, Join, Tick
  <1>3. ASSUME Loop PROVE RestOK'
    BY <1>1, <1>3 DEF RestOK, Loop, front, files, clock, spares, Writing
  <1>4. ASSUME Wait PROVE RestOK'
    BY <1>1, <1>4 DEF RestOK, Wait, front, files, clock, spares, Writing
  <1>5. ASSUME WriteNext PROVE RestOK'
    <2>1. node' \in Buf0 /\ i' \in 0..MessageSize
      BY <1>1, <1>5, LogAssumption DEF RestOK, WriteNext, Nexts, Buf0
    <2> QED
      BY <2>1, <1>1, <1>5 DEF RestOK, WriteNext, front, files, clock, spares, Writing
  <1>6. ASSUME Exit PROVE RestOK'
    BY <1>1, <1>6 DEF RestOK, Exit, front, files, clock, spares, Writing
  <1>7. ASSUME Join PROVE RestOK'
    <2>1. handle' \in [Levels -> Files]
      BY <1>7, LogAssumption DEF Join, NoFile, Files
    <2> QED
      BY <2>1, <1>1, <1>7 DEF RestOK, Join, front, files, clock, spares, Writing
  <1>8. ASSUME Tick PROVE RestOK'
    <2>1. hour' \in 0..MaxHour
      BY <1>1, <1>8, LogAssumption DEF RestOK, Tick
    <2> QED
      BY <2>1, <1>1, <1>8 DEF RestOK, Tick, front, files, clock, spares, Writing
  <1> QED
    BY <1>1, <1>2, <1>3, <1>4, <1>5, <1>6, <1>7, <1>8, TypeWhole

\* A stuttering step changes nothing.
LEMMA StutterType == ASSUME TypeInv, UNCHANGED vars PROVE TypeInv'
  <1>1. RestOK /\ HeapOK(heap, nmsg) /\ level \in [1..nmsg -> Levels] /\ nmsg \in 0..MaxMsgs
    BY TypeParts
  <1>2. RestOK'
    BY <1>1 DEF RestOK, vars, front, files, clock, spares, Writing
  <1> QED
    BY <1>1, <1>2, TypeWhole DEF vars

\* The logger starts with everything typed.
LEMMA InitType == Init => TypeInv
  <1> SUFFICES ASSUME Init PROVE TypeInv
    OBVIOUS
  <1> USE LogAssumption
  <1>1. /\ heap \in [Bufs -> Cells]
        /\ \A b \in Bufs : /\ heap[b] = [Zeroed EXCEPT !.live = b <= 4]
                           /\ heap[b].msgs = <<>> /\ heap[b].next = 0
    <2>1. heap = [b \in Bufs |-> [Zeroed EXCEPT !.live = b <= 4]]
      BY DEF Init
    <2>2. ASSUME NEW b \in Bufs
          PROVE  /\ [Zeroed EXCEPT !.live = b <= 4] \in Cells
                 /\ [Zeroed EXCEPT !.live = b <= 4].msgs = <<>>
                 /\ [Zeroed EXCEPT !.live = b <= 4].next = 0
      <3>0. PICK v : v = (b <= 4)
        OBVIOUS
      <3>1. v \in BOOLEAN /\ v = (b <= 4)
        BY <3>0
      <3>2. /\ [Zeroed EXCEPT !.live = v] \in Cells
            /\ [Zeroed EXCEPT !.live = v].msgs = <<>> /\ [Zeroed EXCEPT !.live = v].next = 0
        <4>1. PICK z \in Cells : z = Zeroed /\ z.msgs = <<>> /\ z.next = 0
          BY ZeroedCell
        <4>2. /\ [z EXCEPT !.live = v] \in Cells
              /\ [z EXCEPT !.live = v].msgs = <<>> /\ [z EXCEPT !.live = v].next = 0
          BY <4>1, <3>1 DEF Cells
        <4> QED
          BY <4>1, <4>2
      <3> QED
        BY <3>1, <3>2
    <2> QED
      BY <2>1, <2>2
  <1>2. \A b \in Bufs : /\ heap[b].live \in BOOLEAN /\ heap[b].next \in Buf0
                        /\ heap[b].msgs \in Seq(Msgs) /\ Len(heap[b].msgs) <= MessageSize
    BY <1>1 DEF Cells
  <1>3. level \in [1..nmsg -> Levels] /\ nmsg \in 0..MaxMsgs
    BY DEF Init
  <1>4. disk \in [Levels -> Seq(Entries)] /\ written_bytes \in [Levels -> Nat]
        /\ handle \in [Levels -> [kind : {"none", "file", "stdout"}, hour : 0..MaxHour, idx : Nat]]
        /\ roll_hour \in [Levels -> {-1} \cup 0..MaxHour] /\ crossed \subseteq 0..MaxHour
    BY DEF Init, NoFile
  <1>5. buffers \in Lists /\ buffers_to_write \in Lists
    BY DEF Init, Empty, Lists, Buf0
  <1>6. /\ curr_buffer \in Bufs /\ next_buffer \in Buf0
        /\ new_buffer1 \in Buf0 /\ new_buffer2 \in Buf0 /\ node \in Buf0
        /\ i \in 0..MessageSize /\ tm \in 0..MaxHour /\ hour \in 0..MaxHour
        /\ need_flush \subseteq Levels /\ dropped \subseteq Msgs
    BY BufsPositive DEF Init, Buf0
  <1>7. TypeOK
    BY <1>2, <1>3, <1>4, <1>5, <1>6 DEF TypeOK, Init
  <1>8. \A b \in Bufs : DOMAIN heap[b].msgs = {}
    BY <1>1
  <1> QED
    BY <1>1, <1>4, <1>7, <1>8 DEF TypeInv, Init, Writing

\* Every step keeps the types.
LEMMA NextType == TypeInv /\ [Next]_vars => TypeInv'
  BY Append1Type, AppendFullType, AppendNoMemoryType, SwapType, TrimType, RecycleType,
     OpenFileType, WriteMessageType, FlushType, OtherType, StutterType DEF Next, Thread

-----------------------------------------------------------------------------
(* Buffers and their owners *)

\* The buffers at the start
LEMMA InitBuffer == Init => BufferInv
  <1> SUFFICES ASSUME Init PROVE BufferInv
    OBVIOUS
  <1>1. TypeInv /\ Nexts(heap)
    BY InitType, HeapType
  <1>2. \A b \in Bufs : heap[b].next = 0 /\ heap[b].msgs = <<>> /\ (heap[b].live <=> b <= 4)
    <2>1. PICK z \in Cells : z = Zeroed /\ z.msgs = <<>> /\ z.next = 0
      BY ZeroedCell
    <2>2. heap = [b \in Bufs |-> [z EXCEPT !.live = b <= 4]]
      BY <2>1 DEF Init
    <2> QED
      BY <2>1, <2>2 DEF Cells
  <1>3. First = 1 /\ FrontSet = {1} /\ ListSet = {} /\ Singles = {2, 3, 4}
    <2>1. First = 1 /\ ListSet = {} /\ Singles = {2, 3, 4}
      BY DEF First, ListSet, Singles, Init, Empty, Writing
    <2>2. ChainIn(heap, 1) = {1} \cup ChainIn(heap, 0)
      BY <1>1, <1>2, ChainNext, BufsPositive
    <2> QED
      BY <2>1, <2>2, ChainNull DEF FrontSet
  <1>4. FrontInv
    BY <1>2, <1>3, BufsPositive DEF FrontInv, Init, Empty
  <1>5. SpareInv /\ ListInv
    BY <1>2, BufsPositive DEF SpareInv, ListInv, Init, Writing
  <1>6. \A b \in Bufs : heap[b].live <=> b \in {1, 2, 3, 4}
    BY <1>2, BufsPositive
  <1>7. OwnerInv
    BY <1>3, <1>6 DEF OwnerInv, Init
  <1> QED
    BY <1>4, <1>5, <1>7 DEF BufferInv, Init

\* Steps that change no buffer and no pointer to one
Aside ==
    /\ heap' = heap /\ front' = front /\ spares' = spares
    /\ buffers_to_write' = buffers_to_write /\ oom' = oom /\ (Writing' <=> Writing)

\* Writing, flushing, waiting, the clock and the end of the log are such steps; so
\* is the start of a round.
LEMMA AsideSteps ==
    ASSUME TypeInv,
           \/ Loop \/ Wait \/ OpenFile \/ WriteMessage \/ WriteNext \/ (\E l \in Levels : Flush(l))
           \/ Exit \/ Join \/ Tick \/ UNCHANGED vars
    PROVE  Aside /\ (failed' = failed \/ Loop)
  <1>1. CASE Loop
    <2>1. pc = "top" /\ pc' \in {"lock", "end"}
      BY <1>1 DEF Loop
    <2>2. ~Writing /\ ~Writing'
      BY <2>1 DEF Writing
    <2> QED
      BY <1>1, <2>2 DEF Loop, Aside
  <1>2. CASE Wait
    BY <1>2 DEF Wait, Aside, Writing
  <1>3. CASE OpenFile \/ WriteMessage
    BY <1>3 DEF OpenFile, WriteMessage, Aside, Writing
  <1>4. CASE WriteNext
    BY <1>4 DEF WriteNext, Aside, Writing
  <1>5. CASE \E l \in Levels : Flush(l)
    BY <1>5 DEF Flush, Aside, Writing
  <1>6. CASE Exit \/ Tick \/ Join
    BY <1>6 DEF Exit, Tick, Join, Aside, Writing
  <1>7. CASE UNCHANGED vars
    BY <1>7 DEF vars, Aside, Writing
  <1> QED
    BY <1>1, <1>2, <1>3, <1>4, <1>5, <1>6, <1>7

\* The buffers stay as they are, and the asserts of the loop hold.
LEMMA AsideBuffer ==
    ASSUME TypeInv, BufferInv, Aside, failed' = failed \/ Loop PROVE BufferInv'
  <1> SUFFICES ASSUME ~oom' PROVE ~failed' /\ FrontInv' /\ SpareInv' /\ ListInv' /\ OwnerInv'
    BY DEF BufferInv
  <1>1. ~failed /\ FrontInv /\ SpareInv /\ ListInv /\ OwnerInv
    BY DEF BufferInv, Aside
  <1>2. ASSUME Loop PROVE ~failed'
    <2>1. /\ new_buffer1 # 0 /\ new_buffer2 # 0 /\ buffers_to_write.head = 0
          /\ heap[new_buffer1].msgs = <<>> /\ heap[new_buffer2].msgs = <<>>
      BY <1>1, <1>2 DEF SpareInv, Loop, Writing, Empty
    <2>2. CASE running
      BY <1>2, <2>1, <2>2 DEF Loop
    <2>3. CASE ~running
      BY <1>1, <1>2, <2>3 DEF Loop
    <2> QED
      BY <2>2, <2>3
  <1>3. FrontInv' /\ SpareInv' /\ ListInv' /\ OwnerInv'
    BY <1>1 DEF Aside, front, spares, FrontInv, SpareInv, ListInv, OwnerInv, FrontSet, First,
                ListSet, Singles
  <1> QED
    BY <1>1, <1>2, <1>3

\* Lists are the same in a heap with the same pointers.
LEMMA ChainAlike ==
    ASSUME NEW h, NEW g, Nexts(h), \A c \in Bufs : g[c].next = h[c].next, NEW b \in Buf0
    PROVE  Nexts(g) /\ ChainIn(g, b) = ChainIn(h, b)
  <1>1. Nexts(g)
    BY DEF Nexts
  <1> QED
    BY <1>1, ChainSame, ChainClosed

\* A list of one buffer
LEMMA ChainOne ==
    ASSUME NEW h, Nexts(h), NEW b \in Bufs, h[b].next = 0
    PROVE  ChainIn(h, b) = {b}
  BY ChainNext, ChainNull

\* append changes one buffer's messages when there is room, and no list
LEMMA Append1Parts ==
    ASSUME TypeInv, Append1
    PROVE  /\ RestOK /\ HeapOK(heap, nmsg) /\ Nexts(heap) /\ Nexts(heap')
           /\ \A b \in Bufs : /\ heap'[b].next = heap[b].next /\ heap'[b].live = heap[b].live
                              /\ b # curr_buffer => heap'[b].msgs = heap[b].msgs
           /\ heap'[curr_buffer].msgs = Append(heap[curr_buffer].msgs, nmsg + 1)
           /\ First \in Bufs
           /\ FrontSet' = FrontSet /\ ListSet' = ListSet /\ Singles' = Singles
  <1>2. RestOK /\ HeapOK(heap, nmsg) /\ Nexts(heap)
    BY TypeParts, HeapType
  <1>3. /\ \A b \in Bufs : /\ heap'[b].next = heap[b].next /\ heap'[b].live = heap[b].live
                           /\ b # curr_buffer => heap'[b].msgs = heap[b].msgs
        /\ heap'[curr_buffer].msgs = Append(heap[curr_buffer].msgs, nmsg + 1)
    <2>1. PICK c, s : c = curr_buffer /\ s = Append(heap[c].msgs, nmsg + 1)
      OBVIOUS
    <2>2. heap' = [heap EXCEPT ![c] = [heap[c] EXCEPT !.msgs = s]]
      BY <2>1 DEF Append1
    <2> QED
      BY <2>1, <2>2, <1>2 DEF HeapOK, Cells, RestOK
  <1>4. \A b \in Buf0 : ChainIn(heap', b) = ChainIn(heap, b)
    BY <1>2, <1>3, ChainAlike
  <1>5. First' = First /\ First \in Bufs /\ First \in Buf0 /\ buffers_to_write.head \in Buf0
    BY <1>2, LinkedType DEF First, Append1, front, RestOK, Lists, Buf0
  <1>6. FrontSet' = FrontSet /\ ListSet' = ListSet /\ Singles' = Singles
    BY <1>4, <1>5 DEF FrontSet, ListSet, Singles, Append1, front, spares, Writing
  <1>7. Nexts(heap')
    BY <1>2, <1>3 DEF Nexts
  <1> QED
    BY <1>2, <1>3, <1>5, <1>6, <1>7

\* append, when there is room
LEMMA Append1Buffer ==
    ASSUME TypeInv, BufferInv, Append1 PROVE BufferInv'
  <1> SUFFICES ASSUME ~oom' PROVE ~failed' /\ FrontInv' /\ SpareInv' /\ ListInv' /\ OwnerInv'
    BY DEF BufferInv
  <1>1. ~failed /\ FrontInv /\ SpareInv /\ ListInv /\ OwnerInv
    BY DEF BufferInv, Append1
  <1>2. RestOK /\ HeapOK(heap, nmsg) /\ Nexts(heap)
    BY Append1Parts
  <1>3. \A b \in Bufs : /\ heap'[b].next = heap[b].next /\ heap'[b].live = heap[b].live
                        /\ b # curr_buffer => heap'[b].msgs = heap[b].msgs
    BY Append1Parts, Zenon
  <1>6. FrontSet' = FrontSet /\ ListSet' = ListSet /\ Singles' = Singles
    BY Append1Parts
  <1>7. curr_buffer \notin Singles
    BY <1>1 DEF FrontInv, OwnerInv
  <1>8. FrontInv'
    BY <1>1, <1>2, <1>3, <1>6 DEF FrontInv, Append1, front, RestOK, Buf0
  <1>9. SpareInv'
    BY <1>1, <1>2, <1>3, <1>7 DEF SpareInv, Append1, front, spares, RestOK, Buf0, Singles, Writing
  <1>10. ListInv'
    BY <1>1, <1>2, <1>3, <1>6, ChainClosed DEF ListInv, Append1, spares, ListSet, RestOK, Lists, Writing
  <1>11. OwnerInv'
    BY <1>1, <1>3, <1>6 DEF OwnerInv, Append1, front, spares
  <1> QED
    BY <1>1, <1>8, <1>9, <1>10, <1>11 DEF Append1

\* What append does to the lists when curr_buffer is full: b, which is in none of
\* them, ends the front's
LEMMA FullParts ==
    ASSUME TypeInv, BufferInv, ~oom, NEW b \in Bufs, AppendFull(b)
    PROVE  /\ RestOK /\ Nexts(heap) /\ Nexts(heap') /\ First \in Bufs /\ curr_buffer \in Bufs
           /\ curr_buffer \in FrontSet /\ FrontSet \subseteq Bufs /\ ListSet \subseteq Bufs
           /\ 0 \notin Bufs /\ ~failed'
           /\ b \notin FrontSet \cup ListSet /\ b # new_buffer1 /\ b # new_buffer2
           /\ heap'[b].next = 0 /\ heap'[b].live /\ heap'[curr_buffer].next = b
           /\ \A c \in Bufs \ {b} : heap'[c].live = heap[c].live /\ heap'[c].msgs = heap[c].msgs
           /\ \A c \in Bufs \ {b, curr_buffer} : heap'[c].next = heap[c].next
           /\ FrontSet' = FrontSet \cup {b} /\ First' = First
           /\ ListSet' = ListSet /\ (Writing' <=> Writing)
  <1>1. ~failed /\ FrontInv /\ SpareInv /\ ListInv /\ OwnerInv
    BY DEF BufferInv, AppendFull
  <1>2. RestOK /\ Nexts(heap) /\ Nexts(heap') /\ First \in Bufs /\ curr_buffer \in Bufs
    <2>1. Nexts(heap')
      BY FullHeap DEF HeapOK, Nexts, Cells
    <2> QED
      BY <2>1, TypeParts, HeapType, LinkedType
  <1>3. /\ curr_buffer \in FrontSet /\ FrontSet \subseteq Bufs /\ ListSet \subseteq Bufs
        /\ 0 \notin Bufs
    BY <1>1, BufsPositive DEF FrontInv, FrontSet, ListSet, ChainIn
  \* the pointers were linked before
  <1>4. \A c \in Bufs : LinkedHeap[c].next = heap[c].next
    BY <1>1, <1>2, LinkedHeapType DEF FrontInv
  <1>5. ~failed'
    BY <1>1, <1>2, <1>4 DEF FrontInv, AppendFull, LinkFails
  \* the buffer that follows is in no list
  <1>6. b \notin FrontSet \cup ListSet /\ b # new_buffer1 /\ b # new_buffer2
    <2>1. CASE next_buffer # 0
      BY <1>1, <2>1 DEF AppendFull, OwnerInv, Singles
    <2>2. CASE next_buffer = 0
      BY <1>1, <1>3, <2>2 DEF AppendFull, NewBuffer, OwnerInv, Singles
    <2> QED
      BY <2>1, <2>2
  <1>7. b # curr_buffer
    BY <1>3, <1>6
  <1>8. /\ heap'[b].next = 0 /\ heap'[b].live /\ heap'[curr_buffer].next = b
        /\ \A c \in Bufs \ {b} : heap'[c].live = heap[c].live /\ heap'[c].msgs = heap[c].msgs
        /\ \A c \in Bufs \ {b, curr_buffer} : heap'[c].next = heap[c].next
    <2>1. CASE next_buffer # 0
      <3>1. heap[b].next = 0 /\ heap[b].live
        BY <1>1, <2>1 DEF FrontInv, OwnerInv, Singles, AppendFull
      <3> QED
        BY <3>1, <2>1, <1>2, <1>4, <1>7, FullHeap
    <2>2. CASE next_buffer = 0
      BY <2>2, <1>2, <1>4, <1>7, FullHeap
    <2> QED
      BY <2>1, <2>2
  <1>9. First' = First
    BY <1>2, BufsPositive DEF First, AppendFull, Linked
  <1>10. FrontSet' = FrontSet \cup {b}
    <2>1. PICK h, g, f, z : h = heap /\ g = heap' /\ f = First /\ z = curr_buffer
      OBVIOUS
    <2>2. /\ Nexts(h) /\ Nexts(g) /\ f \in Bufs /\ z \in ChainIn(h, f) /\ h[z].next = 0
          /\ g[z].next = b /\ g[b].next = 0 /\ b \notin ChainIn(h, f)
          /\ \A d \in ChainIn(h, f) \ {z} : g[d].next = h[d].next
      BY <2>1, <1>1, <1>2, <1>3, <1>6, <1>8 DEF FrontInv, FrontSet
    <2>3. ChainIn(g, f) = ChainIn(h, f) \cup {b}
      BY <2>2, ChainLink
    <2> QED
      BY <2>1, <2>3, <1>9 DEF FrontSet
  <1>11. ListSet' = ListSet /\ (Writing' <=> Writing)
    <2>1. (Writing' <=> Writing) /\ buffers_to_write' = buffers_to_write
      BY DEF Writing, AppendFull
    <2>2. ASSUME Writing PROVE ChainIn(heap', buffers_to_write.head) = ChainIn(heap, buffers_to_write.head)
      <3>1. ChainIn(heap, buffers_to_write.head) = ListSet /\ buffers_to_write.head \in Buf0
        BY <2>2, <1>2 DEF ListSet, RestOK, Lists
      <3>2. \A c \in ListSet : heap'[c].next = heap[c].next
        BY <1>1, <1>3, <1>6, <1>8 DEF OwnerInv
      <3> QED
        BY <3>1, <3>2, <1>2, ChainSame
    <2> QED
      BY <2>1, <2>2 DEF ListSet
  <1> QED
    BY <1>2, <1>3, <1>5, <1>6, <1>8, <1>9, <1>10, <1>11

\* append, when curr_buffer is full: b is put behind it
LEMMA AppendFullBuffer ==
    ASSUME TypeInv, BufferInv, NEW b \in Bufs, AppendFull(b) PROVE BufferInv'
  <1> SUFFICES ASSUME ~oom' PROVE ~failed' /\ FrontInv' /\ SpareInv' /\ ListInv' /\ OwnerInv'
    BY DEF BufferInv
  <1>1. ~failed /\ FrontInv /\ SpareInv /\ ListInv /\ OwnerInv
    BY DEF BufferInv, AppendFull
  <1>2. RestOK /\ Nexts(heap) /\ Nexts(heap') /\ First \in Bufs /\ curr_buffer \in Bufs
    BY FullParts DEF AppendFull
  <1>3. /\ curr_buffer \in FrontSet /\ FrontSet \subseteq Bufs /\ ListSet \subseteq Bufs
        /\ 0 \notin Bufs
    BY FullParts DEF AppendFull
  <1>5. ~failed'
    BY FullParts DEF AppendFull
  <1>6. b \notin FrontSet \cup ListSet /\ b # new_buffer1 /\ b # new_buffer2
    BY FullParts DEF AppendFull
  <1>8. /\ heap'[b].next = 0 /\ heap'[b].live /\ heap'[curr_buffer].next = b
        /\ \A c \in Bufs \ {b} : heap'[c].live = heap[c].live /\ heap'[c].msgs = heap[c].msgs
        /\ \A c \in Bufs \ {b, curr_buffer} : heap'[c].next = heap[c].next
    BY FullParts DEF AppendFull
  <1>10. FrontSet' = FrontSet \cup {b}
    BY FullParts DEF AppendFull
  <1>11. ListSet' = ListSet /\ (Writing' <=> Writing)
    BY FullParts DEF AppendFull
  <1>12. Singles' = Singles \ {b} /\ next_buffer' = 0 /\ curr_buffer' = b
    BY <1>6, <1>3 DEF Singles, AppendFull, spares
  <1>13. FrontInv'
    <2>1. /\ buffers'.head = First /\ buffers'.tail = curr_buffer
          /\ buffers'.size = buffers.size + 1 /\ buffers.size \in Nat
      BY <1>2, LinkedType DEF AppendFull, RestOK, Lists
    <2>2. First \in FrontSet
      BY <1>2, ChainClosed, BufsPositive DEF FrontSet, Buf0
    <2>3. First # b /\ First # 0
      BY <2>2, <1>2, <1>3, <1>6
    <2> QED
      BY <2>1, <2>3, <1>2, <1>8, <1>10, <1>12 DEF FrontInv
  <1>14. SpareInv'
    <2>1. ASSUME NEW c \in {new_buffer1, new_buffer2} \ {0}
          PROVE  heap'[c].next = 0 /\ heap'[c].msgs = <<>>
      <3>1. c \in Bufs /\ c \in Singles /\ heap[c].next = 0 /\ heap[c].msgs = <<>>
        BY <1>1, <1>2 DEF RestOK, Buf0, Singles, SpareInv
      <3>2. c # b /\ c # curr_buffer
        BY <3>1, <1>1, <1>3, <1>6 DEF OwnerInv
      <3> QED
        BY <3>1, <3>2, <1>8
    <2> QED
      BY <2>1, <1>1, <1>11 DEF SpareInv, AppendFull, spares
  <1>15. ListInv'
    <2>1. ASSUME Writing
          PROVE  buffers_to_write.tail \in ListSet /\ heap'[buffers_to_write.tail].next = 0
      BY <2>1, <1>1, <1>3, <1>6, <1>8 DEF ListInv, OwnerInv
    <2> QED
      BY <2>1, <1>1, <1>11 DEF ListInv, AppendFull, spares
  <1>16. OwnerInv'
    <2>1. \A c \in Bufs : heap'[c].live <=> c \in FrontSet' \cup Singles' \cup ListSet'
      BY <1>1, <1>8, <1>10, <1>11, <1>12 DEF OwnerInv
    <2>2. /\ FrontSet' \cap ListSet' = {} /\ FrontSet' \cap Singles' = {}
          /\ ListSet' \cap Singles' = {}
      BY <1>1, <1>6, <1>10, <1>11, <1>12 DEF OwnerInv
    <2> QED
      BY <2>1, <2>2, <1>1, <1>12 DEF OwnerInv, AppendFull, spares
  <1> QED
    BY <1>5, <1>13, <1>14, <1>15, <1>16

\* The critical section: the front becomes the list to write, and the spare buffers
\* the front
LEMMA SwapBuffer ==
    ASSUME TypeInv, BufferInv, Swap PROVE BufferInv'
  <1> SUFFICES ASSUME ~oom' PROVE ~failed' /\ FrontInv' /\ SpareInv' /\ ListInv' /\ OwnerInv'
    BY DEF BufferInv
  <1>1. ~failed /\ FrontInv /\ SpareInv /\ ListInv /\ OwnerInv
    BY DEF BufferInv, Swap
  <1>2. RestOK /\ Nexts(heap) /\ heap' = heap /\ First \in Bufs /\ 0 \notin Bufs
    BY TypeParts, HeapType, LinkedType, BufsPositive DEF Swap
  <1>3. ~Writing /\ Writing' /\ ListSet = {}
    BY DEF Swap, Writing, ListSet
  <1>4. new_buffer1 \in Bufs /\ new_buffer2 \in Bufs
    BY <1>1, <1>2, <1>3 DEF SpareInv, RestOK, Buf0
  <1>5. heap[new_buffer1].next = 0 /\ heap[new_buffer2].next = 0 /\ heap[new_buffer2].msgs = <<>>
    BY <1>1, <1>2, <1>4 DEF SpareInv
  <1>6. /\ buffers_to_write'.head = First /\ buffers_to_write'.tail = curr_buffer
        /\ buffers_to_write'.size = buffers.size + 1 /\ buffers.size \in Nat
    BY <1>2, LinkedType DEF Swap, RestOK, Lists
  <1>7. buffers'.head = 0 /\ buffers'.tail = 0 /\ buffers'.size = 0
    BY DEF Swap, Empty
  <1>8. /\ curr_buffer' = new_buffer1 /\ new_buffer1' = 0 /\ First' = new_buffer1
        /\ next_buffer = 0 => next_buffer' = new_buffer2 /\ new_buffer2' = 0
        /\ next_buffer # 0 => next_buffer' = next_buffer /\ new_buffer2' = new_buffer2
    BY <1>7 DEF Swap, SparesLeft, First
  <1>9. ListSet' = FrontSet /\ FrontSet' = {new_buffer1}
    <2>1. ChainIn(heap, new_buffer1) = {new_buffer1}
      BY <1>2, <1>4, <1>5, ChainOne
    <2> QED
      BY <2>1, <1>2, <1>3, <1>6, <1>8 DEF ListSet, FrontSet
  <1>10. Singles' = Singles \ {new_buffer1} /\ new_buffer1 \in Singles
    BY <1>1, <1>2, <1>4, <1>8 DEF Singles, OwnerInv
  <1>11. FrontInv'
    BY <1>1, <1>2, <1>4, <1>5, <1>7, <1>8, <1>9 DEF FrontInv
  <1>12. SpareInv'
    BY <1>2, <1>3, <1>5, <1>8 DEF SpareInv
  <1>13. ListInv'
    <2>1. curr_buffer \in FrontSet /\ heap[curr_buffer].next = 0
      BY <1>1 DEF FrontInv
    <2>2. CASE buffers.head = 0
      <3>1. buffers.size = 0 /\ next_buffer # 0
        BY <1>1, <2>2 DEF FrontInv
      <3> QED
        BY <3>1, <2>1, <1>2, <1>4, <1>6, <1>8, <1>9 DEF ListInv
    <2>3. CASE buffers.head # 0
      <3>1. buffers.size >= 1 /\ First # curr_buffer
        BY <1>1, <2>3 DEF FrontInv, First
      <3> QED
        BY <3>1, <2>1, <1>2, <1>6, <1>9 DEF ListInv
    <2> QED
      BY <2>2, <2>3
  <1>14. OwnerInv'
    <2>1. \A c \in Bufs : heap'[c].live <=> c \in FrontSet' \cup Singles' \cup ListSet'
      BY <1>1, <1>2, <1>3, <1>9, <1>10 DEF OwnerInv
    <2>2. /\ FrontSet' \cap ListSet' = {} /\ FrontSet' \cap Singles' = {}
          /\ ListSet' \cap Singles' = {}
      BY <1>1, <1>9, <1>10 DEF OwnerInv
    <2>3. next_buffer' # new_buffer2'
      BY <1>1, <1>2, <1>4, <1>8 DEF OwnerInv
    <2> QED
      BY <2>1, <2>2, <2>3, <1>8 DEF OwnerInv
  <1> QED
    BY <1>1, <1>11, <1>12, <1>13, <1>14 DEF Swap

\* The list that is written, from its first and from its second buffer on
LEMMA ListParts ==
    ASSUME TypeInv, ListInv, Writing
    PROVE  /\ buffers_to_write.head \in Bufs /\ Second \in Buf0
           /\ ListSet = {buffers_to_write.head} \cup Chain(Second)
           /\ buffers_to_write.head \notin Chain(Second)
           /\ Chain(Second) \subseteq Bufs
           /\ buffers_to_write.size >= 2 => Second # 0
           /\ Second # 0 => /\ Second \in Bufs
                            /\ Chain(Second) = {Second} \cup Chain(heap[Second].next)
                            /\ Second \notin Chain(heap[Second].next)
  <1>1. RestOK /\ Nexts(heap) /\ 0 \notin Bufs
    BY TypeParts, HeapType, BufsPositive
  <1>2. PICK h, a, z, s : /\ h = heap /\ a = buffers_to_write.head /\ z = buffers_to_write.tail
                          /\ s = h[a].next
    OBVIOUS
  <1>3. a \in Bufs /\ s \in Buf0 /\ s = Second /\ Nexts(h)
    BY <1>1, <1>2 DEF RestOK, Lists, Buf0, Nexts, Second
  <1>4. z \in ChainIn(h, a) /\ h[z].next = 0 /\ ListSet = ChainIn(h, a)
    BY <1>2 DEF ListInv, ListSet
  <1>5. ChainIn(h, a) = {a} \cup ChainIn(h, s)
    <2>1. ChainIn(h, a) = {a} \cup ChainIn(h, h[a].next)
      BY <1>3, ChainNext
    <2> QED
      BY <2>1, <1>2
  <1>6. a \notin ChainIn(h, s)
    BY <1>2, <1>3, <1>4, ChainEnds
  <1>7. ASSUME buffers_to_write.size >= 2 PROVE s # 0
    <2>1. a # z
      BY <1>2, <1>7 DEF ListInv
    <2> QED
      BY <2>1, <1>4, <1>5, ChainNull
  <1>8. ASSUME s # 0
        PROVE  /\ s \in Bufs /\ ChainIn(h, s) = {s} \cup ChainIn(h, h[s].next)
               /\ s \notin ChainIn(h, h[s].next)
    <2>1. s \in Bufs
      BY <1>3, <1>8 DEF Buf0
    <2>2. s \in ChainIn(h, s)
      BY <2>1, <1>3, <1>8, ChainClosed
    <2>3. z \in ChainIn(h, s)
      BY <2>2, <1>2, <1>4, <1>5, <1>8
    <2>4. ChainIn(h, s) = {s} \cup ChainIn(h, h[s].next)
      BY <2>1, <1>3, ChainNext
    <2> QED
      BY <2>1, <2>3, <2>4, <1>3, <1>4, ChainEnds
  <1>9. ChainIn(h, s) \subseteq Bufs
    BY DEF ChainIn
  <1> QED
    BY <1>2, <1>3, <1>4, <1>5, <1>6, <1>7, <1>8, <1>9 DEF Chain

\* The buffers that the thread does not have
LEMMA FrontKept ==
    ASSUME TypeInv, BufferInv, ~oom, Nexts(heap'), front' = front,
           \A c \in Bufs \ ListSet : /\ heap'[c].next = heap[c].next
                                     /\ heap'[c].live = heap[c].live
                                     /\ heap'[c].msgs = heap[c].msgs
    PROVE  FrontInv' /\ FrontSet' = FrontSet
  <1>1. FrontInv /\ OwnerInv /\ RestOK /\ Nexts(heap) /\ 0 \notin Bufs
    BY TypeParts, HeapType, BufsPositive DEF BufferInv
  <1>2. First' = First /\ First \in Bufs /\ First \in Buf0
    BY LinkedType DEF First, front, Buf0
  <1>3. FrontSet \subseteq Bufs /\ \A c \in FrontSet : c \notin ListSet
    BY <1>1 DEF OwnerInv, FrontSet, ChainIn
  <1>4. FrontSet' = FrontSet
    <2>1. \A c \in ChainIn(heap, First) : heap'[c].next = heap[c].next
      BY <1>3 DEF FrontSet
    <2>2. ChainIn(heap', First) = ChainIn(heap, First)
      BY <2>1, <1>1, <1>2, ChainSame
    <2> QED
      BY <2>2, <1>2 DEF FrontSet
  <1>5. heap'[curr_buffer].next = 0
    BY <1>1, <1>3 DEF FrontInv
  <1>6. ASSUME next_buffer # 0 PROVE heap'[next_buffer].next = 0
    <2>1. next_buffer \in Bufs /\ next_buffer \in Singles
      BY <1>1, <1>6 DEF RestOK, Buf0, Singles
    <2> QED
      BY <2>1, <1>1, <1>6 DEF FrontInv, OwnerInv
  <1>7. ASSUME buffers.head # 0 PROVE heap'[buffers.tail].next = curr_buffer
    <2>1. buffers.tail \in Bufs /\ heap[buffers.tail].next = curr_buffer
      BY <1>1, <1>7 DEF FrontInv
    <2>2. CASE buffers.tail \in ListSet
      <3>1. Writing /\ ListSet = ChainIn(heap, buffers_to_write.head) /\ buffers_to_write.head \in Buf0
        BY <2>2, <1>1 DEF ListSet, RestOK, Lists
      <3>2. Closed(heap, ListSet)
        BY <3>1, <1>1, ChainClosed
      <3>3. curr_buffer \in ListSet
        BY <3>2, <2>1, <2>2, <1>1 DEF Closed, RestOK
      <3> QED
        BY <3>3, <1>1 DEF OwnerInv, FrontInv
    <2>3. CASE buffers.tail \notin ListSet
      BY <2>1, <2>3
    <2> QED
      BY <2>2, <2>3
  <1> QED
    BY <1>1, <1>4, <1>5, <1>6, <1>7 DEF FrontInv, front

\* The lists when too many buffers are trimmed: the first two are left of the one that
\* is written.
LEMMA TrimParts ==
    ASSUME TypeInv, BufferInv, ~oom, Trim, TooMany, NEW a, NEW s,
           a = buffers_to_write.head, s = Second
    PROVE  /\ heap' = Trimmed /\ front' = front /\ spares' = spares
           /\ buffers_to_write'.head = a /\ buffers_to_write'.tail = s
           /\ buffers_to_write'.size = 2
           /\ a \in Bufs /\ s \in Bufs /\ s # 0 /\ a # s /\ ListSet = {a, s} \cup Excess
           /\ a \notin Excess /\ s \notin Excess /\ 0 \notin Bufs
           /\ \A b \in Bufs : /\ heap'[b].live = (heap[b].live /\ b \notin Excess)
                             /\ heap'[b].msgs = heap[b].msgs
                             /\ heap'[b].next = IF b = s THEN 0 ELSE heap[b].next
           /\ Nexts(heap) /\ Nexts(heap')
           /\ \A c \in Bufs \ ListSet : /\ heap'[c].next = heap[c].next
                                       /\ heap'[c].live = heap[c].live
                                       /\ heap'[c].msgs = heap[c].msgs
           /\ FrontInv' /\ FrontSet' = FrontSet /\ ListSet' = {a, s}
  <1>a. ~failed /\ FrontInv /\ SpareInv /\ ListInv /\ OwnerInv /\ Writing /\ Writing'
    BY DEF BufferInv, Trim, Writing
  <1>1. /\ heap' = Trimmed /\ front' = front /\ spares' = spares
        /\ buffers_to_write'.head = a /\ buffers_to_write'.tail = s
        /\ buffers_to_write'.size = 2
    BY DEF Trim
  <1>2. buffers_to_write.size >= 2
    BY LogAssumption DEF TooMany, TypeInv, TypeOK, Lists
  <1>3. /\ a \in Bufs /\ s \in Bufs /\ s # 0 /\ a # s /\ ListSet = {a, s} \cup Excess
        /\ a \notin Excess /\ s \notin Excess /\ 0 \notin Bufs
    BY <1>2, <1>a, <1>a, ListParts, BufsPositive DEF Excess
  <1>4. \A b \in Bufs : /\ heap'[b].live = (heap[b].live /\ b \notin Excess)
                        /\ heap'[b].msgs = heap[b].msgs
                        /\ heap'[b].next = IF b = s THEN 0 ELSE heap[b].next
    BY <1>1, TrimmedHeap
  <1>5. Nexts(heap) /\ Nexts(heap')
    BY <1>1, HeapType, TrimmedHeap DEF HeapOK, Nexts, Cells
  <1>6. \A c \in Bufs \ ListSet : /\ heap'[c].next = heap[c].next
                                  /\ heap'[c].live = heap[c].live
                                  /\ heap'[c].msgs = heap[c].msgs
    <2>1. \A c \in Bufs : heap[c].live \in BOOLEAN
      BY DEF TypeInv, TypeOK
    <2> QED
      BY <2>1, <1>3, <1>4
  <1>7. FrontInv' /\ FrontSet' = FrontSet
    BY <1>1, <1>5, <1>6, <1>a, FrontKept
  <1>8. ListSet' = {a, s}
    <2>1. heap'[a].next = s
      BY <1>3, <1>4 DEF Second
    <2>2. ChainIn(heap', a) = {a} \cup ChainIn(heap', s)
      BY <2>1, <1>3, <1>5, ChainNext
    <2>3. ChainIn(heap', s) = {s}
      BY <1>3, <1>4, <1>5, ChainOne
    <2> QED
      BY <2>2, <2>3, <1>1, <1>a DEF ListSet
  <1> QED
    BY <1>1, <1>3, <1>4, <1>5, <1>6, <1>7, <1>8

\* All but two of too many buffers are freed.
LEMMA TrimBuffer ==
    ASSUME TypeInv, BufferInv, Trim PROVE BufferInv'
  <1> SUFFICES ASSUME ~oom' PROVE ~failed' /\ FrontInv' /\ SpareInv' /\ ListInv' /\ OwnerInv'
    BY DEF BufferInv
  <1>1. ~oom /\ ~failed /\ FrontInv /\ SpareInv /\ ListInv /\ OwnerInv
    BY DEF BufferInv, Trim
  <1>2. Writing /\ Writing' /\ ~failed'
    BY <1>1 DEF Trim, Writing
  <1>3. CASE ~TooMany
    <2>1. /\ heap' = heap /\ front' = front /\ spares' = spares
          /\ buffers_to_write' = buffers_to_write
      BY <1>3 DEF Trim
    <2> QED
      BY <2>1, <1>1, <1>2 DEF front, spares, FrontInv, SpareInv, ListInv, OwnerInv, FrontSet,
                              First, ListSet, Singles
  <1>4. CASE TooMany
    <2>0. PICK a, s : a = buffers_to_write.head /\ s = Second
      OBVIOUS
    <2>1. /\ heap' = Trimmed /\ front' = front /\ spares' = spares
          /\ buffers_to_write'.head = a /\ buffers_to_write'.tail = s
          /\ buffers_to_write'.size = 2
      BY <1>1, <1>4, <2>0, TrimParts
    <2>3. /\ a \in Bufs /\ s \in Bufs /\ s # 0 /\ a # s /\ ListSet = {a, s} \cup Excess
          /\ a \notin Excess /\ s \notin Excess /\ 0 \notin Bufs
      BY <1>1, <1>4, <2>0, TrimParts
    <2>4. \A b \in Bufs : /\ heap'[b].live = (heap[b].live /\ b \notin Excess)
                          /\ heap'[b].msgs = heap[b].msgs
                          /\ heap'[b].next = IF b = s THEN 0 ELSE heap[b].next
      BY <1>1, <1>4, <2>0, TrimParts
    <2>6. \A c \in Bufs \ ListSet : /\ heap'[c].next = heap[c].next
                                    /\ heap'[c].live = heap[c].live
                                    /\ heap'[c].msgs = heap[c].msgs
      BY <1>1, <1>4, <2>0, TrimParts
    <2>7. FrontInv' /\ FrontSet' = FrontSet
      BY <1>1, <1>4, <2>0, TrimParts
    <2>8. ListSet' = {a, s}
      BY <1>1, <1>4, <2>0, TrimParts
    <2>9. Singles' = Singles /\ \A c \in Singles : c \in Bufs /\ c \notin ListSet
      BY <2>1, <1>1 DEF Singles, spares, front, OwnerInv, TypeInv, TypeOK, Buf0
    <2>10. SpareInv'
      BY <2>1, <2>6, <2>9, <1>1, <1>2 DEF SpareInv, spares, Singles
    <2>11. ListInv'
      BY <2>1, <2>3, <2>4, <2>8 DEF ListInv
    <2>12. \A c \in Bufs : heap'[c].live <=> c \in FrontSet' \cup Singles' \cup ListSet'
      BY <2>3, <2>4, <2>7, <2>8, <2>9, <1>1 DEF OwnerInv
    <2>13. OwnerInv'
      BY <2>1, <2>3, <2>7, <2>8, <2>9, <2>12, <1>1 DEF OwnerInv, front, spares
    <2> QED
      BY <1>2, <2>7, <2>10, <2>11, <2>13
  <1> QED
    BY <1>3, <1>4

\* The written buffers become spare ones or are freed.
LEMMA RecycleBuffer ==
    ASSUME TypeInv, BufferInv, Recycle PROVE BufferInv'
  <1> SUFFICES ASSUME ~oom' PROVE ~failed' /\ FrontInv' /\ SpareInv' /\ ListInv' /\ OwnerInv'
    BY DEF BufferInv
  <1>1. ~oom /\ ~failed /\ FrontInv /\ SpareInv /\ ListInv /\ OwnerInv
    BY DEF BufferInv, Recycle
  <1>2. Writing /\ ~Writing' /\ ListSet' = {} /\ 0 \notin Bufs /\ new_buffer1 = 0
    BY <1>1, BufsPositive DEF Recycle, Writing, ListSet, SpareInv
  <1>3. PICK a, s : a = buffers_to_write.head /\ s = Second
    OBVIOUS
  <1>4. new_buffer2 = 0 => s # 0 /\ buffers_to_write.size >= 2
    BY <1>1, <1>2, <1>3, ListParts DEF ListInv
  <1>5. ~failed'
    <2>1. buffers_to_write.size \in Nat
      BY DEF TypeInv, TypeOK, Lists
    <2>2. ~(new_buffer2 = 0 /\ (buffers_to_write.size < 2 \/ Second = 0))
      BY <2>1, <1>3, <1>4
    <2> QED
      BY <2>2 DEF Recycle
  <1>6. /\ a \in Bufs /\ a \in Taken /\ Taken \cup Rest = ListSet /\ Taken \cap Rest = {}
        /\ Taken \subseteq Bufs
        /\ new_buffer2 = 0 => s \in Bufs /\ s \in Taken /\ s # a /\ Taken = {a, s}
        /\ new_buffer2 # 0 => Taken = {a}
    <2>1. CASE new_buffer2 = 0
      BY <2>1, <1>1, <1>2, <1>3, <1>4, ListParts DEF Taken, Rest
    <2>2. CASE new_buffer2 # 0
      BY <2>2, <1>1, <1>2, <1>3, ListParts DEF Taken, Rest
    <2> QED
      BY <2>1, <2>2
  <1>7. /\ \A b \in Taken : heap'[b].live /\ heap'[b].next = 0 /\ heap'[b].msgs = <<>>
        /\ \A b \in Bufs \ Taken : /\ heap'[b].live = (heap[b].live /\ b \notin Rest)
                                   /\ heap'[b].msgs = heap[b].msgs /\ heap'[b].next = heap[b].next
    BY <1>6, RecycleHeap, ZeroedCell
  <1>8. Nexts(heap')
    BY RecycleHeap DEF HeapOK, Nexts, Cells
  <1>9. \A c \in Bufs \ ListSet : /\ heap'[c].next = heap[c].next
                                  /\ heap'[c].live = heap[c].live
                                  /\ heap'[c].msgs = heap[c].msgs
    <2>1. \A c \in Bufs : heap[c].live \in BOOLEAN
      BY DEF TypeInv, TypeOK
    <2> QED
      BY <2>1, <1>6, <1>7
  <1>10. FrontInv' /\ FrontSet' = FrontSet
    BY <1>1, <1>8, <1>9, FrontKept DEF Recycle
  <1>11. /\ new_buffer1' = a /\ next_buffer' = next_buffer
         /\ new_buffer2 = 0 => new_buffer2' = s
         /\ new_buffer2 # 0 => new_buffer2' = new_buffer2
         /\ buffers_to_write' = Empty
    BY <1>3 DEF Recycle, front
  <1>12. Singles' = Singles \cup Taken
    BY <1>2, <1>6, <1>11 DEF Singles
  <1>13. \A c \in Singles : c \in Bufs /\ c \notin ListSet /\ c \notin FrontSet
    BY <1>1 DEF Singles, OwnerInv, TypeInv, TypeOK, Buf0
  <1>14. SpareInv'
    <2>1. new_buffer2 # 0 => new_buffer2 \in Bufs \ ListSet
                             /\ heap[new_buffer2].next = 0 /\ heap[new_buffer2].msgs = <<>>
      BY <1>1, <1>13 DEF SpareInv, Singles
    <2>2. new_buffer2' # 0 /\ heap'[new_buffer2'].next = 0 /\ heap'[new_buffer2'].msgs = <<>>
      BY <2>1, <1>2, <1>6, <1>7, <1>9, <1>11
    <2>3. new_buffer1' # 0 /\ heap'[new_buffer1'].next = 0 /\ heap'[new_buffer1'].msgs = <<>>
      BY <1>2, <1>6, <1>7, <1>11
    <2> QED
      BY <2>2, <2>3, <1>2, <1>11 DEF SpareInv
  <1>15. ListInv'
    BY <1>2 DEF ListInv
  <1>16. \A c \in Bufs : heap'[c].live <=> c \in FrontSet' \cup Singles' \cup ListSet'
    BY <1>1, <1>2, <1>6, <1>7, <1>9, <1>10, <1>12 DEF OwnerInv
  <1>17. FrontSet' \cap Singles' = {}
    BY <1>1, <1>6, <1>10, <1>12, <1>13 DEF OwnerInv
  <1>18. /\ next_buffer' # 0 => next_buffer' # new_buffer1' /\ next_buffer' # new_buffer2'
         /\ new_buffer1' # new_buffer2'
    BY <1>1, <1>2, <1>6, <1>11, <1>13 DEF OwnerInv, Singles
  <1>19. OwnerInv'
    BY <1>2, <1>16, <1>17, <1>18 DEF OwnerInv
  <1> QED
    BY <1>5, <1>10, <1>14, <1>15, <1>19

\* Every step keeps the buffers in order.
LEMMA NextBuffer == TypeInv /\ BufferInv /\ [Next]_vars => BufferInv'
  <1> SUFFICES ASSUME TypeInv, BufferInv, [Next]_vars PROVE BufferInv'
    OBVIOUS
  <1>1. CASE AppendNoMemory
    BY <1>1 DEF AppendNoMemory, BufferInv
  <1>2. CASE \/ Loop \/ Wait \/ OpenFile \/ WriteMessage \/ WriteNext \/ (\E l \in Levels : Flush(l))
             \/ Exit \/ Join \/ Tick \/ UNCHANGED vars
    BY <1>2, AsideSteps, AsideBuffer
  <1> QED
    BY <1>1, <1>2, Append1Buffer, AppendFullBuffer, SwapBuffer, TrimBuffer, RecycleBuffer
       DEF Next, Thread

\* The invariant of the logger's buffers: what the front, the thread's spares and the
\* list being written own at each place of worker_func.
THEOREM LogInvariant == Spec => [](TypeInv /\ BufferInv)
  BY InitType, InitBuffer, NextType, NextBuffer, PTL DEF Spec

\* No assert of append and worker_func fails, and no pointer they follow is NULL,
\* while calloc succeeds: with one buffer for each that the front took, the thread always
\* finds its two spare ones.
THEOREM NoAssertFailsTheorem == Spec => []NoAssertFails
  <1>1. BufferInv => NoAssertFails
    BY DEF BufferInv, NoAssertFails
  <1> QED
    BY <1>1, LogInvariant, PTL

\* Every buffer has one owner and none leaks, for any number of buffers: the swap of
\* worker_func moves lists as a whole, and what it trims and recycles is freed once.
THEOREM OneOwnerTheorem == Spec => []OneOwner
  <1>1. ASSUME TypeInv, BufferInv PROVE OneOwner
    <2>1. TypeOK /\ TypeInv /\ Nexts(heap)
      BY <1>1, HeapType DEF TypeInv
    <2>2. CASE oom
      BY <2>1, <2>2 DEF OneOwner
    <2>3. CASE ~oom
      <3>1. FrontInv /\ OwnerInv /\ RestOK /\ 0 \notin Bufs
        BY <1>1, <2>3, TypeParts, BufsPositive DEF BufferInv
      <3>2. Chain(buffers.head) \cup {curr_buffer} = FrontSet
        <4>1. CASE buffers.head = 0
          <5>1. Chain(buffers.head) = {}
            BY <4>1, ChainNull DEF Chain
          <5>2. FrontSet = {curr_buffer}
            BY <2>1, <4>1, <3>1, ChainOne DEF FrontSet, First, FrontInv, RestOK
          <5> QED
            BY <5>1, <5>2
        <4>2. CASE buffers.head # 0
          BY <4>2, <3>1 DEF Chain, FrontSet, First, FrontInv
        <4> QED
          BY <4>1, <4>2
      <3>3. (IF Writing THEN Chain(buffers_to_write.head) ELSE {}) = ListSet
        BY DEF ListSet, Chain
      <3>4. PICK F, L, n, p, q : /\ F = FrontSet /\ L = ListSet /\ n = {next_buffer} \ {0}
                                 /\ p = {new_buffer1} \ {0} /\ q = {new_buffer2} \ {0}
        OBVIOUS
      <3>5. {b \in Bufs : heap[b].live} = F \cup n \cup p \cup q \cup L
        <4>1. FrontSet \cup Singles \cup ListSet \subseteq Bufs
          BY <3>1 DEF FrontSet, ListSet, ChainIn, Singles, RestOK, Buf0
        <4>2. Singles = n \cup p \cup q
          BY <3>4 DEF Singles
        <4>3. \A b \in Bufs : heap[b].live <=> b \in F \cup n \cup p \cup q \cup L
          BY <4>2, <3>1, <3>4 DEF OwnerInv
        <4> QED
          BY <4>1, <4>2, <4>3, <3>4
      <3>6. /\ F \cap n = {} /\ F \cap p = {} /\ F \cap q = {} /\ F \cap L = {}
            /\ n \cap p = {} /\ n \cap q = {} /\ n \cap L = {}
            /\ p \cap q = {} /\ p \cap L = {} /\ q \cap L = {}
        BY <3>1, <3>4 DEF OwnerInv, Singles
      <3>7. PICK o : o = <<F, n, p, q, L>>
        OBVIOUS
      <3>8. UNION {o[k] : k \in 1..5} = F \cup n \cup p \cup q \cup L
        BY <3>7
      <3>9. \A k, m \in 1..5 : k # m => o[k] \cap o[m] = {}
        BY <3>6, <3>7
      <3> QED
        BY <2>1, <3>2, <3>3, <3>4, <3>5, <3>7, <3>8, <3>9 DEF OneOwner
    <2> QED
      BY <2>2, <2>3
  <1> QED
    BY <1>1, LogInvariant, PTL

-----------------------------------------------------------------------------
(* Files *)

\* The size of a file in what was written, d
SizeIn(d, h, n) ==
    Cardinality({k \in DOMAIN d : d[k].file = [kind |-> "file", hour |-> h, idx |-> n]})

\* A message that is appended adds to the file it goes to.
LEMMA SizeAppend ==
    ASSUME NEW d \in Seq(Entries), NEW e \in Entries, NEW h, NEW n
    PROVE  /\ SizeIn(d, h, n) \in Nat /\ SizeIn(Append(d, e), h, n) \in Nat
           /\ SizeIn(Append(d, e), h, n) >= SizeIn(d, h, n)
           /\ e.file = [kind |-> "file", hour |-> h, idx |-> n] =>
                 SizeIn(Append(d, e), h, n) = SizeIn(d, h, n) + 1
  <1>1. PICK r, z : r = [kind |-> "file", hour |-> h, idx |-> n] /\ z = Len(d) + 1
    OBVIOUS
  <1>2. PICK K, L : /\ K = {k \in DOMAIN d : d[k].file = r}
                    /\ L = {k \in DOMAIN Append(d, e) : Append(d, e)[k].file = r}
    OBVIOUS
  <1>3. Len(d) \in Nat /\ DOMAIN d = 1..Len(d) /\ DOMAIN Append(d, e) = 1..z
        /\ Append(d, e)[z] = e
    BY <1>1
  <1>4. \A k \in DOMAIN d : k # z /\ Append(d, e)[k] = d[k]
    BY <1>1, <1>3
  <1>5. z \notin K /\ L = IF e.file = r THEN K \cup {z} ELSE K
    BY <1>1, <1>2, <1>3, <1>4
  <1>6. IsFiniteSet(K)
    <2>1. IsFiniteSet(1..Len(d))
      BY <1>3, FS_Interval
    <2> QED
      BY <2>1, <1>2, <1>3, FS_Subset
  <1>7. /\ Cardinality(K) \in Nat /\ IsFiniteSet(K \cup {z})
        /\ Cardinality(K \cup {z}) = Cardinality(K) + 1
    BY <1>5, <1>6, FS_CardinalityType, FS_AddElement
  <1>8. SizeIn(d, h, n) = Cardinality(K) /\ SizeIn(Append(d, e), h, n) = Cardinality(L)
    BY <1>1, <1>2 DEF SizeIn
  <1> QED
    BY <1>1, <1>5, <1>7, <1>8

\* tm_hour tells the hours of the run apart: it lasts less than a day.
WithinDay == MaxHour < HoursPerDay

\* The order of the files, and RolledInTime for one level, when the hours c began
\* inside a rollfile
BeforeIn(c, f, g) ==
    CASE f.kind = "stdout" -> g.kind = "stdout"
      [] g.kind = "stdout" -> TRUE
      [] OTHER -> f.hour < g.hour \/ (f.hour = g.hour /\ (f.idx <= g.idx \/ f.hour \in c))

RolledIn(c, d) ==
    \A k \in DOMAIN d :
        /\ d[k].file.kind = "file" => d[k].file.hour >= d[k].tm \/ d[k].tm \in c
        /\ \A n \in k..Len(d) : BeforeIn(c, d[k].file, d[n].file)

\* The written files come before the open one, written_bytes is its size, which is
\* over rollsize only until it is flushed, and roll_hour is the hour in its name but
\* for an hour that began inside a rollfile.  The files of its hour before it are full,
\* but in such an hour.
LevelInv(l) ==
    LET f == handle[l]
        d == disk[l] IN
    /\ f.hour <= hour /\ roll_hour[l] <= hour
    /\ f.kind = "none" /\ pc # "end" => d = <<>>
    /\ f.kind # "none" => \A k \in DOMAIN d : BeforeIn(crossed, d[k].file, f)
    /\ f.kind = "file" =>
          /\ f.hour = roll_hour[l] \/ roll_hour[l] \in crossed
          /\ roll_hour[l] >= 0
          /\ written_bytes[l] = SizeIn(d, f.hour, f.idx)
          /\ f.hour \notin crossed => \A n \in 0..f.idx - 1 : SizeIn(d, f.hour, n) >= RollSize
          /\ l \notin need_flush => written_bytes[l] <= RollSize

FileInv ==
    /\ tm <= hour
    /\ pc \notin {"write", "flush"} => need_flush = {}
    /\ \A l \in Levels : LevelInv(l) /\ RolledIn(crossed, disk[l])

\* More such hours allow more.
LEMMA BeforeMore ==
    ASSUME NEW c, NEW e, c \subseteq e, NEW f, NEW g, BeforeIn(c, f, g)
    PROVE  BeforeIn(e, f, g)
  BY DEF BeforeIn

LEMMA RolledMore ==
    ASSUME NEW c, NEW e, c \subseteq e, NEW d, RolledIn(c, d)
    PROVE  RolledIn(e, d)
  <1> SUFFICES ASSUME NEW k \in DOMAIN d
               PROVE  /\ d[k].file.kind = "file" => d[k].file.hour >= d[k].tm \/ d[k].tm \in e
                      /\ \A n \in k..Len(d) : BeforeIn(e, d[k].file, d[n].file)
    BY DEF RolledIn
  <1>1. d[k].file.kind = "file" => d[k].file.hour >= d[k].tm \/ d[k].tm \in e
    BY DEF RolledIn
  <1>2. \A n \in k..Len(d) : BeforeIn(c, d[k].file, d[n].file)
    BY DEF RolledIn
  <1> QED
    BY <1>1, <1>2, BeforeMore

\* The start
LEMMA InitFile == Init => FileInv
  <1> SUFFICES ASSUME Init PROVE FileInv
    OBVIOUS
  <1>1. ASSUME NEW l \in Levels
        PROVE  /\ handle[l].kind = "none" /\ handle[l].hour = 0 /\ disk[l] = <<>>
               /\ DOMAIN disk[l] = {} /\ roll_hour[l] = -1 /\ hour = 0
    BY DEF Init, NoFile
  <1>2. \A l \in Levels : LevelInv(l) /\ RolledIn(crossed, disk[l])
    BY <1>1 DEF LevelInv, RolledIn
  <1> QED
    BY <1>2 DEF FileInv, Init

\* The levels whose file a step does not touch
LEMMA LevelKept ==
    ASSUME TypeInv, TypeInv', NEW l \in Levels, LevelInv(l), handle'[l] = handle[l],
           roll_hour'[l] = roll_hour[l], disk'[l] = disk[l],
           written_bytes'[l] = written_bytes[l], hour <= hour', crossed \subseteq crossed',
           pc = "end" => pc' = "end",
           l \in need_flush => l \in need_flush'
    PROVE  LevelInv(l)'
  <1>1. handle[l].hour \in Int /\ roll_hour[l] \in Int /\ hour \in Int /\ hour' \in Int
    BY LogAssumption DEF TypeInv, TypeOK
  <1>2. handle[l].hour <= hour' /\ roll_hour[l] <= hour'
    BY <1>1 DEF LevelInv
  <1>3. handle[l].kind # "none" =>
           \A k \in DOMAIN disk[l] : BeforeIn(crossed', disk[l][k].file, handle[l])
    BY BeforeMore DEF LevelInv
  <1> QED
    BY <1>2, <1>3 DEF LevelInv

\* A step that leaves the files, the flags of what was written and the time of the
\* batch alone, or that only moves the clock on
LEMMA FilesKept ==
    ASSUME TypeInv, TypeInv', FileInv, files' = files, crossed' = crossed,
           tm' \in {tm, hour}, hour' \in {hour, hour + 1}, need_flush' = need_flush,
           pc = "end" => pc' = "end",
           pc' \notin {"write", "flush"} => need_flush = {}
    PROVE  FileInv'
  <1>1. hour \in Nat /\ tm \in Nat
    BY LogAssumption DEF TypeInv, TypeOK
  <1>2. tm' <= hour' /\ hour <= hour'
    BY <1>1 DEF FileInv
  <1>3. ASSUME NEW l \in Levels PROVE LevelInv(l)' /\ RolledIn(crossed', disk'[l])
    BY <1>2, LevelKept DEF FileInv, files
  <1> QED
    BY <1>2, <1>3 DEF FileInv

\* BeforeIn is an order on the files.
LEMMA BeforeOrder ==
    ASSUME NEW c, NEW f \in Files, NEW g \in Files, NEW h \in Files
    PROVE  BeforeIn(c, f, f) /\ (BeforeIn(c, f, g) /\ BeforeIn(c, g, h) => BeforeIn(c, f, h))
  <1>1. /\ f.kind \in {"none", "file", "stdout"} /\ f.hour \in Int /\ f.idx \in Int
        /\ g.kind \in {"none", "file", "stdout"} /\ g.hour \in Int /\ g.idx \in Int
        /\ h.kind \in {"none", "file", "stdout"} /\ h.hour \in Int /\ h.idx \in Int
    BY LogAssumption DEF Files
  <1>2. BeforeIn(c, f, f)
    BY <1>1 DEF BeforeIn
  <1>3. ASSUME BeforeIn(c, f, g), BeforeIn(c, g, h), f.kind # "stdout", h.kind # "stdout"
        PROVE  BeforeIn(c, f, h)
    <2>1. g.kind # "stdout"
      BY <1>3 DEF BeforeIn
    <2>2. /\ f.hour < g.hour \/ (f.hour = g.hour /\ (f.idx <= g.idx \/ f.hour \in c))
          /\ g.hour < h.hour \/ (g.hour = h.hour /\ (g.idx <= h.idx \/ g.hour \in c))
      BY <1>3, <2>1 DEF BeforeIn
    <2>3. f.hour < h.hour \/ (f.hour = h.hour /\ (f.idx <= h.idx \/ f.hour \in c))
      BY <1>1, <2>2
    <2> QED
      BY <1>3, <2>3 DEF BeforeIn
  <1>4. ASSUME BeforeIn(c, f, g), BeforeIn(c, g, h), f.kind = "stdout" \/ h.kind = "stdout"
        PROVE  BeforeIn(c, f, h)
    BY <1>4 DEF BeforeIn
  <1> QED
    BY <1>2, <1>3, <1>4

\* A record is its fields.
LEMMA FileFields ==
    ASSUME NEW f \in Files, f.kind = "file"
    PROVE  f = [kind |-> "file", hour |-> f.hour, idx |-> f.idx]
  BY DEF Files

\* The file whose name rollfile reads the clock for is of this hour or later; when it
\* is of an hour that did not begin inside, all the names were of that hour.
LEMMA RollReadings ==
    ASSUME TypeInv, NEW l \in Levels, NEW r \in Rolled(l)
    PROVE  LET f == r.file IN
           /\ f.kind = "file" /\ f.idx \in Nat /\ f.hour \in Nat /\ r.roll \in Nat
           /\ hour <= f.hour /\ f.hour <= r.roll
           /\ SizeIn(disk[l], f.hour, f.idx) < RollSize
           /\ f.hour = hour => \A n \in 0..f.idx - 1 : SizeIn(disk[l], f.hour, n) >= RollSize
  <1>1. PICK n \in 0..MaxMsgs : \E g \in Readings(l, n) :
           r = [file |-> [kind |-> "file", hour |-> g[n], idx |-> n], roll |-> g[n + 1]]
    BY DEF Rolled
  <1>2. PICK g \in Readings(l, n) :
           r = [file |-> [kind |-> "file", hour |-> g[n], idx |-> n], roll |-> g[n + 1]]
    BY <1>1
  <1>3. /\ g \in [0..n + 1 -> hour..MaxHour] /\ \A m, k \in 0..n + 1 : m <= k => g[m] <= g[k]
        /\ \A m \in 0..n - 1 : FileSize(l, g[m], m) >= RollSize
        /\ FileSize(l, g[n], n) < RollSize
    BY DEF Readings
  <1>4. n \in Nat /\ hour \in Nat /\ MaxHour \in Nat
    BY LogAssumption DEF TypeInv, TypeOK
  <1>5. \A m \in 0..n + 1 : g[m] \in Nat /\ hour <= g[m]
    BY <1>3, <1>4
  <1>6. n \in 0..n + 1 /\ n + 1 \in 0..n + 1 /\ n \in 0..n
    BY <1>4
  <1>7. ASSUME g[n] = hour, NEW m \in 0..n - 1 PROVE g[m] = hour
    <2>1. m \in 0..n + 1 /\ m <= n
      BY <1>4
    <2>2. g[m] <= g[n]
      BY <2>1, <1>3, <1>6
    <2> QED
      BY <2>1, <2>2, <1>5, <1>7, <1>4
  <1>8. PICK f : f = r.file
    OBVIOUS
  <1>9. f.kind = "file" /\ f.hour = g[n] /\ f.idx = n /\ r.roll = g[n + 1]
    BY <1>2, <1>8
  <1>10. g[n] <= g[n + 1]
    BY <1>3, <1>4, <1>6
  <1>11. SizeIn(disk[l], f.hour, f.idx) < RollSize
    BY <1>3, <1>9 DEF FileSize, SizeIn
  <1>12. ASSUME f.hour = hour, NEW m \in 0..f.idx - 1 PROVE SizeIn(disk[l], f.hour, m) >= RollSize
    <2>1. m \in 0..n - 1 /\ g[m] = f.hour
      BY <1>7, <1>9, <1>12
    <2>2. FileSize(l, g[m], m) >= RollSize
      BY <2>1, <1>3
    <2> QED
      BY <2>1, <2>2 DEF FileSize, SizeIn
  <1> QED
    BY <1>4, <1>5, <1>6, <1>8, <1>9, <1>10, <1>11, <1>12

\* The file that rollfile opens is behind all the others, and it is not full.
LEMMA RollOrder ==
    ASSUME TypeInv, FileInv, NEW l \in Levels, NEW r \in RollFile(l), Rolls(l, r), pc # "end",
           NEW d, d = disk[l], NEW f, f = r.file
    PROVE  /\ f \in Files /\ f.kind # "none" /\ f.hour <= hour'
           /\ \A k \in DOMAIN d : BeforeIn(crossed', d[k].file, f)
           /\ f.kind = "file" =>
                 /\ f.hour >= hour /\ SizeIn(d, f.hour, f.idx) < RollSize
                 /\ f.hour = r.roll \/ r.roll \in crossed'
                 /\ r.roll >= 0
                 /\ f.hour \notin crossed' =>
                       \A n \in 0..f.idx - 1 : SizeIn(d, f.hour, n) >= RollSize
  <1>1. /\ f \in Files /\ r.roll \in Hours /\ hour \in Nat /\ handle[l] \in Files
        /\ disk[l] \in Seq(Entries) /\ LevelInv(l)
    BY RollType, LogAssumption DEF TypeInv, TypeOK, Files, FileInv
  <1>2. PICK g : g = handle[l]
    OBVIOUS
  <1>3. /\ crossed \subseteq crossed' /\ hour <= hour' /\ hour' \in Nat /\ r.roll <= hour'
        /\ crossed' = crossed \cup (hour + 1)..r.roll
    <2>1. /\ crossed \subseteq crossed' /\ hour <= hour' /\ hour' \in 0..MaxHour /\ r.roll <= hour'
          /\ crossed' = crossed \cup (hour + 1)..r.roll
      BY <1>1, RollsType
    <2> QED
      BY <2>1, LogAssumption
  <1>4. CASE r \in Rolled(l) /\ g.kind # "stdout"
    <2>1. /\ f.kind = "file" /\ f.idx \in Nat /\ f.hour \in Nat /\ r.roll \in Nat
          /\ hour <= f.hour /\ f.hour <= r.roll
          /\ SizeIn(d, f.hour, f.idx) < RollSize
          /\ f.hour = hour => \A n \in 0..f.idx - 1 : SizeIn(d, f.hour, n) >= RollSize
      BY <1>4, RollReadings
    <2>2. f.hour <= hour' /\ (f.hour = hour \/ f.hour \in crossed')
          /\ (f.hour = r.roll \/ r.roll \in crossed')
      BY <2>1, <1>1, <1>3
    <2>3. \A k \in DOMAIN d : BeforeIn(crossed', d[k].file, f)
      <3>1. CASE g.kind = "none"
        <4>1. d = <<>>
          BY <3>1, <1>1, <1>2 DEF LevelInv
        <4> QED
          BY <4>1
      <3>2. CASE g.kind = "file"
        <4>1. g.hour <= f.hour /\ g.hour \in Nat /\ g.idx \in Nat
          <5>1. g.hour <= hour /\ g.hour \in Nat /\ g.idx \in Nat
            BY <1>1, <1>2, LogAssumption DEF LevelInv, Files
          <5> QED
            BY <5>1, <2>1, <1>1
        <4>2. ASSUME g.hour = f.hour, f.hour \notin crossed' PROVE g.idx <= f.idx
          <5>1. SUFFICES ASSUME f.idx < g.idx PROVE FALSE
            BY <4>1, <2>1
          <5>2. SizeIn(d, g.hour, f.idx) >= RollSize
            <6>1. g.hour \notin crossed /\ f.idx \in 0..g.idx - 1
              BY <5>1, <4>1, <4>2, <2>1, <1>3
            <6> QED
              BY <6>1, <3>2, <1>1, <1>2 DEF LevelInv
          <5>3. SizeIn(d, f.hour, f.idx) \in Nat
            BY FileSizeNat DEF FileSize, SizeIn
          <5> QED
            BY <5>2, <5>3, <4>2, <2>1, LogAssumption
        <4>3. BeforeIn(crossed', g, f)
          <5>1. g.hour < f.hour \/ (g.hour = f.hour /\ (g.idx <= f.idx \/ g.hour \in crossed'))
            BY <4>1, <4>2, <2>1
          <5> QED
            BY <5>1, <2>1, <3>2 DEF BeforeIn
        <4>4. \A k \in DOMAIN d : d[k].file \in Files /\ BeforeIn(crossed', d[k].file, g)
          <5>1. \A k \in DOMAIN d : d[k] \in Entries
            BY <1>1
          <5>2. \A k \in DOMAIN d : d[k].file \in Files
            BY <5>1 DEF Entries
          <5>3. \A k \in DOMAIN d : BeforeIn(crossed, d[k].file, g)
            BY <3>2, <1>1, <1>2 DEF LevelInv
          <5> QED
            BY <5>2, <5>3, <1>3, BeforeMore
        <4> QED
          BY <4>3, <4>4, <1>1, <1>2, BeforeOrder
      <3> QED
        BY <3>1, <3>2, <1>1, <1>2, <1>4 DEF Files
    <2> QED
      BY <2>1, <2>2, <2>3, <1>1
  <1>5. CASE r = [file |-> Stdout, roll |-> roll_hour[l]]
    <2>1. f = Stdout
      BY <1>5
    <2> QED
      BY <2>1, <1>1, <1>3 DEF Stdout, BeforeIn
  <1> QED
    BY <1>2, <1>4, <1>5 DEF RollFile

\* A level gets its first file.
LEMMA OpenFileFile ==
    ASSUME TypeInv, TypeInv', FileInv, OpenFile PROVE FileInv'
  <1>1. PICK l \in Levels : \E r \in RollFile(l) :
              /\ handle[l].kind = "none" /\ Rolls(l, r)
              /\ written_bytes' = [written_bytes EXCEPT ![l] = RolledBytes(l, r.file)]
    BY OpenParts
  <1>2. PICK r \in RollFile(l) :
              /\ handle[l].kind = "none" /\ Rolls(l, r)
              /\ written_bytes' = [written_bytes EXCEPT ![l] = RolledBytes(l, r.file)]
    BY <1>1
  <1>3. PICK d, f : d = disk[l] /\ f = r.file
    OBVIOUS
  <1>4. /\ disk' = disk /\ tm' = tm /\ pc = "write" /\ pc' = "write" /\ need_flush' = need_flush
        /\ written_bytes \in [Levels -> Nat] /\ LevelInv(l)
    BY DEF OpenFile, TypeInv, TypeOK, FileInv
  <1>5. /\ hour <= hour' /\ r.roll <= hour' /\ crossed \subseteq crossed'
        /\ handle'[l] = f /\ roll_hour'[l] = r.roll
        /\ \A k \in Levels \ {l} : handle'[k] = handle[k] /\ roll_hour'[k] = roll_hour[k]
    BY <1>2, <1>3, RollType, RollsType
  <1>6. /\ f.kind # "none" /\ f.hour <= hour' /\ \A k \in DOMAIN d : BeforeIn(crossed', d[k].file, f)
        /\ f.kind = "file" =>
              /\ SizeIn(d, f.hour, f.idx) < RollSize
              /\ f.hour = r.roll \/ r.roll \in crossed'
              /\ r.roll >= 0
              /\ f.hour \notin crossed' => \A n \in 0..f.idx - 1 : SizeIn(d, f.hour, n) >= RollSize
    BY <1>2, <1>3, <1>4, RollOrder
  <1>7. written_bytes'[l] = RolledBytes(l, f)
        /\ \A k \in Levels \ {l} : written_bytes'[k] = written_bytes[k]
    BY <1>2, <1>3, <1>4
  <1>8. ASSUME f.kind = "file"
        PROVE  RolledBytes(l, f) = SizeIn(d, f.hour, f.idx) /\ RolledBytes(l, f) <= RollSize
    <2>1. RolledBytes(l, f) = SizeIn(d, f.hour, f.idx)
      BY <1>3, <1>8 DEF RolledBytes, FileSize, SizeIn
    <2>2. SizeIn(d, f.hour, f.idx) \in Nat
      BY <1>3, FileSizeNat DEF FileSize, SizeIn
    <2> QED
      BY <2>1, <2>2, <1>6, <1>8, LogAssumption
  <1>9. LevelInv(l)'
    BY <1>3, <1>4, <1>5, <1>6, <1>7, <1>8 DEF LevelInv
  <1>10. ASSUME NEW k \in Levels PROVE LevelInv(k)' /\ RolledIn(crossed', disk'[k])
    <2>1. RolledIn(crossed', disk'[k])
      BY <1>4, <1>5, RolledMore DEF FileInv
    <2>2. CASE k # l
      <3>1. LevelInv(k)
        BY DEF FileInv
      <3> QED
        BY <2>1, <2>2, <3>1, <1>4, <1>5, <1>7, LevelKept
    <2> QED
      BY <2>1, <2>2, <1>9
  <1>11. tm' <= hour'
    <2>1. tm <= hour /\ tm \in Int /\ hour \in Int /\ hour' \in Int
      BY LogAssumption DEF FileInv, TypeInv, TypeOK
    <2> QED
      BY <2>1, <1>4, <1>5
  <1> QED
    BY <1>4, <1>10, <1>11 DEF FileInv

\* One message is written to its file.
LEMMA WriteMessageFile ==
    ASSUME WithinDay, TypeInv, TypeInv', FileInv, WriteMessage PROVE FileInv'
  <1>1. PICK m \in Msgs : \E l \in Levels : \E r : Wrote(m, l, r) /\ r.file \in Files /\ r.roll \in Hours
    BY WriteParts
  <1>a. PICK l \in Levels : \E r : Wrote(m, l, r) /\ r.file \in Files /\ r.roll \in Hours
    BY <1>1
  <1>2. PICK r : Wrote(m, l, r) /\ r.file \in Files /\ r.roll \in Hours
    BY <1>a
  <1>3. PICK f \in Files : f = r.file
    BY <1>2
  <1>4. PICK e, d, g, w : /\ e = [id |-> m, file |-> f, tm |-> tm] /\ d = disk[l] /\ g = handle[l]
                          /\ w = IF f = handle[l] THEN written_bytes[l] ELSE RolledBytes(l, f)
    OBVIOUS
  <1>5. /\ e \in Entries /\ e.file = f /\ e.tm = tm /\ d \in Seq(Entries) /\ g \in Files
        /\ LevelInv(l) /\ RolledIn(crossed, d)
        /\ tm \in 0..MaxHour /\ hour \in 0..MaxHour /\ hour' \in 0..MaxHour /\ tm <= hour
        /\ pc = "write" /\ pc' = "write" /\ tm' = tm
    BY <1>4 DEF TypeInv, TypeOK, FileInv, Entries, Files, WriteMessage
  <1>6. /\ hour <= hour' /\ r.roll <= hour' /\ crossed \subseteq crossed'
        /\ handle'[l] = f /\ roll_hour'[l] = r.roll
        /\ \A k \in Levels \ {l} : handle'[k] = handle[k] /\ roll_hour'[k] = roll_hour[k]
    BY <1>2, <1>3, RollsType DEF Wrote
  <1>7. /\ written_bytes'[l] = 1 + w /\ disk'[l] = Append(d, e) /\ l \in need_flush'
        /\ \A k \in Levels \ {l} : /\ disk'[k] = disk[k] /\ written_bytes'[k] = written_bytes[k]
                                   /\ (k \in need_flush => k \in need_flush')
    BY <1>2, <1>3, <1>4 DEF TypeInv, TypeOK, Wrote
  \* the file is behind the others, and of this hour
  <1>8. /\ f.kind # "none" /\ f.hour <= hour'
        /\ f.kind = "file" => f.hour >= tm \/ tm \in crossed'
        /\ \A k \in DOMAIN d : BeforeIn(crossed', d[k].file, f)
        /\ f.kind = "file" =>
              /\ f.hour = r.roll \/ r.roll \in crossed'
              /\ r.roll >= 0
              /\ w = SizeIn(d, f.hour, f.idx)
              /\ f.hour \notin crossed' => \A n \in 0..f.idx - 1 : SizeIn(d, f.hour, n) >= RollSize
    <2>1. CASE HourPassed(l)
      <3>1. r \in RollFile(l) /\ Rolls(l, r)
        BY <2>1, <1>2 DEF Wrote
      <3>2. /\ f.kind # "none" /\ f.hour <= hour'
            /\ \A k \in DOMAIN d : BeforeIn(crossed', d[k].file, f)
            /\ f.kind = "file" =>
                  /\ f.hour >= hour
                  /\ f.hour = r.roll \/ r.roll \in crossed'
                  /\ r.roll >= 0
                  /\ f.hour \notin crossed' => \A n \in 0..f.idx - 1 : SizeIn(d, f.hour, n) >= RollSize
        BY <3>1, <1>3, <1>4, <1>5, RollOrder
      <3>3. ASSUME f.kind = "file" PROVE w = SizeIn(d, f.hour, f.idx)
        <4>1. CASE f = g
          BY <4>1, <3>3, <1>4, <1>5 DEF LevelInv
        <4>2. CASE f # g
          BY <4>2, <3>3, <1>4 DEF RolledBytes, FileSize, SizeIn
        <4> QED
          BY <4>1, <4>2
      <3>4. f.kind = "file" => f.hour >= tm
        BY <3>2, <1>5, LogAssumption DEF Files
      <3> QED
        BY <3>2, <3>3, <3>4
    <2>2. CASE ~HourPassed(l)
      <3>1. f = g /\ f.kind # "none" /\ w = written_bytes[l] /\ r.roll = roll_hour[l]
        <4>1. r \in Stays(l) /\ g.kind # "none"
          BY <2>2, <1>2, <1>4 DEF Wrote
        <4> QED
          BY <4>1, <1>3, <1>4, StaysType
      <3>2. f.kind = "file" => r.roll = tm
        <4>1. ASSUME f.kind = "file" PROVE r.roll >= 0 /\ r.roll % HoursPerDay = tm % HoursPerDay
          BY <4>1, <2>2, <3>1, <1>4, <1>5 DEF HourPassed, LevelInv
        <4>2. PICK a, b, n : a = r.roll /\ b = tm /\ n = HoursPerDay
          OBVIOUS
        <4>3. ASSUME f.kind = "file"
              PROVE  a \in Nat /\ b \in Nat /\ n \in Nat \ {0} /\ a < n /\ b < n
          BY <4>1, <4>2, <4>3, <1>2, <1>5, LogAssumption DEF WithinDay, Hours
        <4>4. ASSUME f.kind = "file" PROVE a % n = a /\ b % n = b
          BY <4>3, <4>4
        <4> QED
          BY <4>1, <4>2, <4>4
      <3>3. /\ f.hour <= hour
            /\ \A k \in DOMAIN d : BeforeIn(crossed, d[k].file, f)
            /\ f.kind = "file" =>
                  /\ f.hour = r.roll \/ r.roll \in crossed
                  /\ r.roll >= 0 /\ w = SizeIn(d, f.hour, f.idx)
                  /\ f.hour \notin crossed => \A n \in 0..f.idx - 1 : SizeIn(d, f.hour, n) >= RollSize
        BY <3>1, <1>4, <1>5 DEF LevelInv
      <3>4. \A k \in DOMAIN d : BeforeIn(crossed', d[k].file, f)
        BY <3>3, <1>6, BeforeMore
      <3>5. f.hour <= hour' /\ (f.kind = "file" => f.hour >= tm \/ tm \in crossed')
        BY <3>2, <3>3, <1>5, <1>6, LogAssumption DEF Files
      <3> QED
        BY <3>1, <3>3, <3>4, <3>5, <1>6
    <2> QED
      BY <2>1, <2>2
  <1>9. LevelInv(l)'
    <2>1. \A k \in DOMAIN Append(d, e) : BeforeIn(crossed', Append(d, e)[k].file, f)
      <3>1. BeforeIn(crossed', f, f)
        BY BeforeOrder
      <3>2. \A k \in DOMAIN Append(d, e) : \/ k \in DOMAIN d /\ Append(d, e)[k] = d[k]
                                           \/ Append(d, e)[k] = e
        BY <1>5
      <3> QED
        BY <3>1, <3>2, <1>5, <1>8
    <2>2. ASSUME f.kind = "file"
          PROVE  /\ 1 + w = SizeIn(Append(d, e), f.hour, f.idx)
                 /\ f.hour \notin crossed' =>
                       \A n \in 0..f.idx - 1 : SizeIn(Append(d, e), f.hour, n) >= RollSize
      <3>1. e.file = [kind |-> "file", hour |-> f.hour, idx |-> f.idx]
        BY <2>2, <1>5, FileFields
      <3>2. /\ SizeIn(Append(d, e), f.hour, f.idx) = SizeIn(d, f.hour, f.idx) + 1
            /\ SizeIn(d, f.hour, f.idx) \in Nat
        BY <3>1, <1>5, SizeAppend
      <3>3. ASSUME f.hour \notin crossed', NEW n \in 0..f.idx - 1
            PROVE  SizeIn(Append(d, e), f.hour, n) >= RollSize
        <4>1. /\ SizeIn(d, f.hour, n) \in Nat /\ SizeIn(Append(d, e), f.hour, n) \in Nat
              /\ SizeIn(Append(d, e), f.hour, n) >= SizeIn(d, f.hour, n)
          BY <1>5, SizeAppend
        <4>2. SizeIn(d, f.hour, n) >= RollSize
          BY <3>3, <2>2, <1>8
        <4> QED
          BY <4>1, <4>2, LogAssumption
      <3> QED
        BY <2>2, <3>2, <3>3, <1>8
    <2> QED
      BY <2>1, <2>2, <1>5, <1>6, <1>7, <1>8 DEF LevelInv
  <1>10. RolledIn(crossed', Append(d, e))
    <2>1. PICK a, z : a = Append(d, e) /\ z = Len(d) + 1
      OBVIOUS
    <2>2. /\ Len(a) = z /\ a[z] = e /\ DOMAIN d = 1..Len(d) /\ Len(d) \in Nat
          /\ DOMAIN a = 1..z /\ \A n \in 1..Len(d) : a[n] = d[n]
      BY <2>1, <1>5
    <2>3. RolledIn(crossed', d)
      BY <1>5, <1>6, RolledMore
    <2>4. ASSUME NEW k \in DOMAIN a
          PROVE  /\ a[k].file.kind = "file" => a[k].file.hour >= a[k].tm \/ a[k].tm \in crossed'
                 /\ \A n \in k..Len(a) : BeforeIn(crossed', a[k].file, a[n].file)
      <3>1. BeforeIn(crossed', f, f)
        BY BeforeOrder
      <3>2. CASE k = z
        <4>1. \A n \in k..Len(a) : n = z
          BY <3>2, <2>1, <2>2
        <4>2. a[k].file = f /\ a[k].tm = tm
          BY <3>2, <2>2, <1>5
        <4> QED
          BY <4>1, <4>2, <3>1, <3>2, <2>2, <1>5, <1>8
      <3>3. CASE k # z
        <4>1. k \in DOMAIN d /\ a[k] = d[k]
          BY <3>3, <2>1, <2>2
        <4>2. d[k].file.kind = "file" => d[k].file.hour >= d[k].tm \/ d[k].tm \in crossed'
          BY <4>1, <2>3 DEF RolledIn
        <4>3. \A n \in k..Len(d) : BeforeIn(crossed', d[k].file, d[n].file)
          BY <4>1, <2>3 DEF RolledIn
        <4>4. BeforeIn(crossed', d[k].file, f)
          BY <4>1, <1>8
        <4>5. ASSUME NEW n \in k..z PROVE BeforeIn(crossed', a[k].file, a[n].file)
          <5>1. CASE n = z
            BY <5>1, <4>1, <4>4, <2>2, <1>5
          <5>2. CASE n # z
            <6>1. n \in k..Len(d) /\ n \in 1..Len(d)
              BY <5>2, <4>1, <2>1, <2>2
            <6> QED
              BY <6>1, <4>1, <4>3, <2>2
          <5> QED
            BY <5>1, <5>2
        <4> QED
          BY <4>1, <4>2, <4>5, <2>2
      <3> QED
        BY <3>2, <3>3
    <2> QED
      BY <2>1, <2>4 DEF RolledIn
  <1>11. ASSUME NEW k \in Levels PROVE LevelInv(k)' /\ RolledIn(crossed', disk'[k])
    <2>1. CASE k # l
      <3>1. LevelInv(k) /\ RolledIn(crossed, disk[k])
        BY DEF FileInv
      <3>2. LevelInv(k)'
        BY <2>1, <3>1, <1>5, <1>6, <1>7, LevelKept
      <3>3. RolledIn(crossed', disk'[k])
        BY <2>1, <3>1, <1>6, <1>7, RolledMore
      <3> QED
        BY <3>2, <3>3
    <2> QED
      BY <2>1, <1>7, <1>9, <1>10
  <1>12. tm' <= hour'
    BY <1>5, <1>6, LogAssumption
  <1> QED
    BY <1>5, <1>11, <1>12 DEF FileInv

\* A level is flushed, and rolled when its file is too large.
LEMMA FlushFile ==
    ASSUME TypeInv, TypeInv', FileInv, NEW l \in Levels, Flush(l) PROVE FileInv'
  <1>1. PICK r : /\ r \in IF written_bytes[l] > RollSize THEN RollFile(l) ELSE Stays(l)
                 /\ Rolls(l, r) /\ r.file \in Files /\ r.roll \in Hours
                 /\ written_bytes' = [written_bytes EXCEPT ![l] =
                       IF r.file = handle[l] THEN written_bytes[l] ELSE RolledBytes(l, r.file)]
    BY FlushParts
  <1>2. PICK d, f, g, w : /\ d = disk[l] /\ f = r.file /\ g = handle[l]
                          /\ w = IF f = handle[l] THEN written_bytes[l] ELSE RolledBytes(l, f)
    OBVIOUS
  <1>3. /\ disk' = disk /\ tm' = tm /\ pc = "flush" /\ pc' = "flush"
        /\ need_flush' = need_flush \ {l} /\ LevelInv(l) /\ g \in Files /\ hour \in Nat
        /\ hour' \in Nat /\ tm \in Nat /\ tm <= hour /\ d \in Seq(Entries) /\ written_bytes[l] \in Nat
    BY <1>2, LogAssumption DEF Flush, FileInv, TypeInv, TypeOK, Files
  <1>4. /\ written_bytes'[l] = w
        /\ \A k \in Levels \ {l} : /\ written_bytes'[k] = written_bytes[k]
                                   /\ (k \in need_flush' <=> k \in need_flush)
    BY <1>1, <1>2, <1>3 DEF TypeInv, TypeOK
  <1>5. /\ hour <= hour' /\ r.roll <= hour' /\ crossed \subseteq crossed'
        /\ handle'[l] = f /\ roll_hour'[l] = r.roll
        /\ \A k \in Levels \ {l} : handle'[k] = handle[k] /\ roll_hour'[k] = roll_hour[k]
    BY <1>1, <1>2, RollsType
  <1>6. LevelInv(l)'
    <2>1. CASE ~(written_bytes[l] > RollSize)
      <3>1. f = g /\ w = written_bytes[l] /\ w <= RollSize /\ r.roll = roll_hour[l]
        <4>1. r \in Stays(l)
          BY <2>1, <1>1
        <4>2. r.file = handle[l] /\ r.roll = roll_hour[l]
          BY <4>1, StaysType
        <4>3. f = g
          BY <4>2, <1>2
        <4>4. w = written_bytes[l]
          BY <4>3, <1>2
        <4>5. written_bytes[l] <= RollSize
          BY <2>1, <1>3, LogAssumption
        <4> QED
          BY <4>2, <4>3, <4>4, <4>5
      <3>2. f.kind # "none" => \A k \in DOMAIN d : BeforeIn(crossed', d[k].file, f)
        <4>1. g.kind # "none" => \A k \in DOMAIN d : BeforeIn(crossed, d[k].file, g)
          BY <1>2, <1>3 DEF LevelInv
        <4> QED
          BY <4>1, <3>1, <1>5, BeforeMore
      <3>3. f.hour <= hour'
        <4>1. f.hour <= hour /\ f.hour \in Nat
          <5>1. handle[l].hour <= hour
            BY <1>3 DEF LevelInv
          <5>2. g.hour \in Nat
            BY <1>3, LogAssumption DEF Files
          <5> QED
            BY <5>1, <5>2, <3>1, <1>2
        <4> QED
          BY <4>1, <1>3, <1>5
      <3> QED
        BY <3>1, <3>2, <3>3, <1>2, <1>3, <1>4, <1>5 DEF LevelInv
    <2>2. CASE written_bytes[l] > RollSize
      <3>1. r \in RollFile(l)
        BY <2>2, <1>1
      <3>2. /\ f.kind # "none" /\ f.hour <= hour'
            /\ \A k \in DOMAIN d : BeforeIn(crossed', d[k].file, f)
            /\ f.kind = "file" =>
                  /\ SizeIn(d, f.hour, f.idx) < RollSize
                  /\ f.hour = r.roll \/ r.roll \in crossed'
                  /\ r.roll >= 0
                  /\ f.hour \notin crossed' => \A n \in 0..f.idx - 1 : SizeIn(d, f.hour, n) >= RollSize
        BY <3>1, <1>1, <1>2, <1>3, RollOrder
      <3>3. ASSUME f.kind = "file" PROVE w = SizeIn(d, f.hour, f.idx) /\ w <= RollSize
        <4>1. w = SizeIn(d, f.hour, f.idx)
          <5>1. CASE f = g
            BY <5>1, <3>3, <1>2, <1>3 DEF LevelInv
          <5>2. CASE f # g
            BY <5>2, <3>3, <1>2 DEF RolledBytes, FileSize, SizeIn
          <5> QED
            BY <5>1, <5>2
        <4>2. SizeIn(d, f.hour, f.idx) \in Nat
          BY <1>2, FileSizeNat DEF FileSize, SizeIn
        <4> QED
          BY <4>1, <4>2, <3>2, <3>3, LogAssumption
      <3> QED
        BY <3>2, <3>3, <1>2, <1>3, <1>4, <1>5 DEF LevelInv
    <2> QED
      BY <2>1, <2>2
  <1>7. ASSUME NEW k \in Levels PROVE LevelInv(k)' /\ RolledIn(crossed', disk'[k])
    <2>1. RolledIn(crossed', disk'[k])
      BY <1>3, <1>5, RolledMore DEF FileInv
    <2>2. CASE k # l
      <3>1. LevelInv(k)
        BY DEF FileInv
      <3> QED
        BY <2>1, <2>2, <3>1, <1>3, <1>4, <1>5, LevelKept
    <2> QED
      BY <2>1, <2>2, <1>6
  <1>8. tm' <= hour'
    BY <1>3, <1>5
  <1> QED
    BY <1>3, <1>7, <1>8 DEF FileInv

\* log_exit closes the files.
LEMMA JoinFile ==
    ASSUME TypeInv, FileInv, Join PROVE FileInv'
  <1>1. ASSUME NEW l \in Levels PROVE LevelInv(l)'
    <2>1. /\ handle'[l].kind = "none" /\ handle'[l].hour = 0 /\ pc' = "end"
          /\ hour' = hour /\ hour \in Nat /\ roll_hour' = roll_hour
      BY LogAssumption DEF Join, NoFile, TypeInv, TypeOK, clock
    <2>2. roll_hour[l] <= hour
      BY DEF FileInv, LevelInv
    <2> QED
      BY <2>1, <2>2 DEF LevelInv
  <1>2. disk' = disk /\ crossed' = crossed
    BY DEF Join, clock
  <1> QED
    BY <1>1, <1>2 DEF FileInv, Join, clock

\* The steps that write nothing
LEMMA OtherFile ==
    ASSUME TypeInv, TypeInv', FileInv,
           \/ Append1 \/ (\E b \in Bufs : AppendFull(b)) \/ AppendNoMemory
           \/ Loop \/ Wait \/ Swap \/ Trim \/ WriteNext \/ Recycle
           \/ Exit \/ Tick \/ UNCHANGED vars
    PROVE  FileInv'
  <1> DEFINE Kept == /\ files' = files /\ tm' \in {tm, hour} /\ hour' \in {hour, hour + 1}
                     /\ need_flush' = need_flush /\ crossed' = crossed
                     /\ pc = "end" => pc' = "end"
                     /\ pc' \notin {"write", "flush"} => need_flush = {}
  <1>0. pc \notin {"write", "flush"} => need_flush = {}
    BY DEF FileInv
  <1>1. ASSUME Append1 \/ (\E b \in Bufs : AppendFull(b)) \/ AppendNoMemory \/ Exit \/ Tick
               \/ UNCHANGED vars
        PROVE  Kept
    <2>1. files' = files /\ tm' = tm /\ need_flush' = need_flush /\ pc' = pc
      BY <1>1 DEF Append1, AppendFull, AppendNoMemory, Exit, Tick, vars
    <2>2. hour' \in {hour, hour + 1} /\ crossed' = crossed
      BY <1>1 DEF Append1, AppendFull, AppendNoMemory, Exit, Tick, vars, clock
    <2> QED
      BY <2>1, <2>2, <1>0
  <1>2. ASSUME Loop PROVE Kept
    <2>1. pc = "top" /\ pc' \in {"lock", "end"}
      BY <1>2 DEF Loop
    <2> QED
      BY <2>1, <1>0, <1>2 DEF Loop, clock
  <1>3. ASSUME Wait PROVE Kept
    BY <1>0, <1>3 DEF Wait, clock
  <1>4. ASSUME Swap PROVE Kept
    BY <1>0, <1>4 DEF Swap, clock
  <1>5. ASSUME Trim PROVE Kept
    BY <1>0, <1>5 DEF Trim, clock
  <1>6. ASSUME WriteNext PROVE Kept
    <2>1. pc = "write" /\ pc' \in {"flush", "write"}
      BY <1>6 DEF WriteNext
    <2> QED
      BY <2>1, <1>6 DEF WriteNext, clock
  <1>7. ASSUME Recycle PROVE Kept
    BY <1>0, <1>7 DEF Recycle, clock
  <1>8. Kept
    BY <1>1, <1>2, <1>3, <1>4, <1>5, <1>6, <1>7
  <1> QED
    BY <1>8, FilesKept

\* Every step keeps the files in order.
LEMMA NextFile == WithinDay /\ TypeInv /\ FileInv /\ [Next]_vars => FileInv'
  <1> SUFFICES ASSUME WithinDay, TypeInv, FileInv, [Next]_vars PROVE FileInv'
    OBVIOUS
  <1>1. TypeInv'
    BY NextType
  <1> QED
    BY <1>1, OtherFile, JoinFile, OpenFileFile, WriteMessageFile, FlushFile DEF Next, Thread

\* The files are rolled by hour and by size, for any number of levels and messages:
\* a level goes through its files in the order of their names, no batch goes to the
\* file of an hour before it but when its hour began inside a rollfile, and none begins
\* in a file that is over rollsize.  Within a day, because worker_func compares only
\* tm_hour.
THEOREM FilesRolledTheorem ==
    ASSUME WithinDay PROVE Spec => []FilesRolled
  <1>1. TypeInv /\ FileInv => FilesRolled
    <2> SUFFICES ASSUME TypeInv, FileInv PROVE RolledInTime /\ FileSizes
      BY DEF FilesRolled
    <2>1. RolledInTime
      BY DEF FileInv, RolledIn, RolledInTime, BeforeIn, Before
    <2>2. ASSUME NEW l \in Levels, handle[l].kind = "file"
          PROVE  /\ written_bytes[l] = FileSize(l, handle[l].hour, handle[l].idx)
                 /\ pc \in {"top", "lock", "wait", "trim"} => written_bytes[l] <= RollSize
      <3>1. LevelInv(l)
        BY DEF FileInv
      <3>2. pc \in {"top", "lock", "wait", "trim"} => l \notin need_flush
        BY DEF FileInv
      <3> QED
        BY <2>2, <3>1, <3>2 DEF LevelInv, FileSize, SizeIn
    <2> QED
      BY <2>1, <2>2 DEF FileSizes
  <1>2. TypeInv /\ FileInv /\ [Next]_vars => FileInv'
    BY NextFile
  <1> QED
    BY <1>1, <1>2, InitFile, InitType, NextType, PTL DEF Spec

-----------------------------------------------------------------------------
(* The messages *)

\* The messages of the buffers bs in heap h, and their order: Held and Ordered of
\* AsyncLog for any heap
HeldIn(h, bs) == UNION {{h[b].msgs[k] : k \in DOMAIN h[b].msgs} : b \in bs}
OrderedIn(h, bs) ==
    \A b \in bs :
        /\ \A k, n \in DOMAIN h[b].msgs : k < n => h[b].msgs[k] < h[b].msgs[n]
        /\ \A m \in HeldIn(h, ChainIn(h, h[b].next)) :
              \A k \in DOMAIN h[b].msgs : h[b].msgs[k] < m

\* What NoneLost says of level l, when disk is d, w waits, n messages were appended
\* with the levels lv, and dr was dropped
LevelComplete(d, w, n, lv, dr, l) ==
    /\ \A j, k \in DOMAIN d[l] : j < k => d[l][j].id < d[l][k].id
    /\ \A k \in DOMAIN d[l] :
          /\ d[l][k].id \in 1..n /\ lv[d[l][k].id] = l /\ d[l][k].id \notin dr
          /\ \A m \in w : lv[m] = l => d[l][k].id < m
    /\ \A m \in 1..n : lv[m] = l /\ m \notin dr => m \in w \/ \E k \in DOMAIN d[l] : d[l][k].id = m

LevelsKept(d, w, n, lv, dr) ==
    /\ w \subseteq 1..n /\ w \cap dr = {}
    /\ \A l \in Levels : LevelComplete(d, w, n, lv, dr, l)

\* What waits in the buffers
Waits == Unwritten \cup HeldIn(heap, FrontSet)

\* The inductive invariant of the messages: what NoneLost says, and that the second
\* buffer of the front is empty and the loop that writes is in the list.
MsgInv ==
    ~oom =>
        /\ OrderedIn(heap, FrontSet) /\ OrderedIn(heap, ListSet)
        /\ \A m \in Unwritten : \A n \in HeldIn(heap, FrontSet) : m < n
        /\ LevelsKept(disk, Waits, nmsg, level, dropped)
        /\ dropped \subseteq 1..nmsg
        /\ next_buffer # 0 => heap[next_buffer].msgs = <<>>
        /\ pc = "write" => node \in ListSet

\* What a heap's buffers hold was appended.
LEMMA HeldBound ==
    ASSUME NEW h, NEW n \in 0..MaxMsgs, HeapOK(h, n), NEW bs \in SUBSET Bufs
    PROVE  HeldIn(h, bs) \subseteq 1..n
  <1>1. ASSUME NEW b \in bs, NEW k \in DOMAIN h[b].msgs PROVE h[b].msgs[k] \in 1..n
    <2>1. h[b].msgs \in Seq(Msgs) /\ h[b].msgs[k] <= n
      BY DEF HeapOK, Cells
    <2>2. h[b].msgs[k] \in Msgs
      BY <2>1
    <2> QED
      BY <2>1, <2>2, LogAssumption DEF Msgs
  <1> QED
    BY <1>1 DEF HeldIn

\* A list whose pointers stay or become NULL gets no longer.
LEMMA ChainShorter ==
    ASSUME NEW h, NEW g, Nexts(h), NEW b \in Buf0,
           \A c \in ChainIn(h, b) : g[c].next \in {h[c].next, 0}
    PROVE  ChainIn(g, b) \subseteq ChainIn(h, b)
  <1>1. /\ ChainIn(h, b) \in SUBSET Bufs /\ Closed(h, ChainIn(h, b))
        /\ b \in ChainIn(h, b) \cup {0}
    BY ChainClosed
  <1>2. Closed(g, ChainIn(h, b))
    BY <1>1 DEF Closed
  <1> QED
    BY <1>1, <1>2, ChainLeast

\* The list from a buffer of a closed set on is in that set.
LEMMA ChainWithin ==
    ASSUME NEW h, NEW bs \in SUBSET Bufs, Closed(h, bs), NEW b \in bs
    PROVE  ChainIn(h, h[b].next) \subseteq bs
  <1>1. h[b].next \in bs \cup {0}
    BY DEF Closed
  <1> QED
    BY <1>1, ChainLeast

\* The same buffers hold the same.
LEMMA HeldSame ==
    ASSUME NEW h, NEW g, NEW bs, \A c \in bs : g[c].msgs = h[c].msgs
    PROVE  HeldIn(g, bs) = HeldIn(h, bs)
  BY DEF HeldIn

\* More buffers hold more.
LEMMA HeldMore ==
    ASSUME NEW h, NEW bs, NEW cs, bs \subseteq cs
    PROVE  HeldIn(h, bs) \subseteq HeldIn(h, cs)
  BY DEF HeldIn

\* What two sets of buffers hold
LEMMA HeldUnion ==
    ASSUME NEW h, NEW bs, NEW cs
    PROVE  HeldIn(h, bs \cup cs) = HeldIn(h, bs) \cup HeldIn(h, cs)
  BY DEF HeldIn

\* Buffers stay ordered when their messages do not change and their lists only get
\* shorter.
LEMMA OrderedSame ==
    ASSUME NEW h, NEW g, Nexts(h), Nexts(g), NEW bs \in SUBSET Bufs, Closed(h, bs),
           OrderedIn(h, bs),
           \A c \in bs : g[c].msgs = h[c].msgs /\ g[c].next \in {h[c].next, 0}
    PROVE  OrderedIn(g, bs)
  <1>1. ASSUME NEW b \in bs
        PROVE  HeldIn(g, ChainIn(g, g[b].next)) \subseteq HeldIn(h, ChainIn(h, h[b].next))
    <2>1. h[b].next \in Buf0 /\ ChainIn(h, h[b].next) \subseteq bs
      BY <1>1, ChainWithin DEF Nexts
    <2>2. CASE g[b].next = 0
      <3>1. HeldIn(g, ChainIn(g, g[b].next)) = {}
        BY <2>2, ChainNull DEF HeldIn
      <3> QED
        BY <3>1
    <2>3. CASE g[b].next = h[b].next
      <3>1. ChainIn(g, h[b].next) \subseteq ChainIn(h, h[b].next)
        BY <2>1, ChainShorter
      <3>2. HeldIn(g, ChainIn(g, h[b].next)) = HeldIn(h, ChainIn(g, h[b].next))
        BY <2>1, <3>1, HeldSame
      <3> QED
        BY <2>3, <3>1, <3>2, HeldMore
    <2> QED
      BY <2>2, <2>3
  <1> QED
    BY <1>1 DEF OrderedIn

\* One more message is appended, and waits.
LEMMA LevelsMore ==
    ASSUME NEW d, NEW w, NEW n \in Nat, NEW lv, NEW dr \in SUBSET (1..n), NEW lw,
           LevelsKept(d, w, n, lv, dr), \A m \in 1..n : lw[m] = lv[m]
    PROVE  LevelsKept(d, w \cup {n + 1}, n + 1, lw, dr)
  <1>1. w \subseteq 1..n /\ w \cap dr = {} /\ n + 1 \notin dr /\ 1..n + 1 = 1..n \cup {n + 1}
    BY DEF LevelsKept
  <1>2. ASSUME NEW l \in Levels PROVE LevelComplete(d, w \cup {n + 1}, n + 1, lw, dr, l)
    <2>1. LevelComplete(d, w, n, lv, dr, l)
      BY DEF LevelsKept
    <2>2. ASSUME NEW k \in DOMAIN d[l]
          PROVE  /\ d[l][k].id \in 1..n + 1 /\ lw[d[l][k].id] = l /\ d[l][k].id \notin dr
                 /\ \A m \in w \cup {n + 1} : lw[m] = l => d[l][k].id < m
      <3>1. /\ d[l][k].id \in 1..n /\ lv[d[l][k].id] = l /\ d[l][k].id \notin dr
            /\ \A m \in w : lv[m] = l => d[l][k].id < m
        BY <2>1 DEF LevelComplete
      <3>2. \A m \in w : lw[m] = lv[m]
        BY <1>1
      <3>3. d[l][k].id < n + 1
        BY <3>1
      <3> QED
        BY <1>1, <3>1, <3>2, <3>3
    <2>3. \A m \in 1..n + 1 : lw[m] = l /\ m \notin dr =>
             m \in w \cup {n + 1} \/ \E k \in DOMAIN d[l] : d[l][k].id = m
      BY <1>1, <2>1 DEF LevelComplete
    <2>4. \A j, k \in DOMAIN d[l] : j < k => d[l][j].id < d[l][k].id
      BY <2>1 DEF LevelComplete
    <2> QED
      BY <2>2, <2>3, <2>4 DEF LevelComplete
  <1>3. w \cup {n + 1} \subseteq 1..n + 1 /\ (w \cup {n + 1}) \cap dr = {}
    BY <1>1
  <1> QED
    BY <1>2, <1>3 DEF LevelsKept

\* Messages that wait are dropped.
LEMMA LevelsDrop ==
    ASSUME NEW d, NEW w, NEW n \in Nat, NEW lv, NEW dr, NEW x, x \subseteq w,
           LevelsKept(d, w, n, lv, dr)
    PROVE  LevelsKept(d, w \ x, n, lv, dr \cup x)
  <1>1. w \subseteq 1..n /\ w \cap dr = {}
    BY DEF LevelsKept
  <1>2. ASSUME NEW l \in Levels PROVE LevelComplete(d, w \ x, n, lv, dr \cup x, l)
    <2>1. LevelComplete(d, w, n, lv, dr, l)
      BY DEF LevelsKept
    <2>2. ASSUME NEW k \in DOMAIN d[l] PROVE d[l][k].id \notin x
      <3>1. d[l][k].id \in 1..n /\ lv[d[l][k].id] = l
            /\ \A m \in w : lv[m] = l => d[l][k].id < m
        BY <2>1 DEF LevelComplete
      <3>2. ~(d[l][k].id < d[l][k].id)
        BY <3>1
      <3> QED
        BY <3>1, <3>2
    <2> QED
      BY <2>1, <2>2 DEF LevelComplete
  <1> QED
    BY <1>1, <1>2 DEF LevelsKept

\* The first of what waits is written.
LEMMA LevelsWrite ==
    ASSUME NEW d \in [Levels -> Seq(Entries)], NEW w, NEW n \in Nat, NEW lv, NEW dr,
           NEW m \in w, \A q \in w \ {m} : m < q,
           NEW l \in Levels, lv[m] = l, NEW e \in Entries, e.id = m,
           LevelsKept(d, w, n, lv, dr)
    PROVE  LevelsKept([d EXCEPT ![l] = Append(d[l], e)], w \ {m}, n, lv, dr)
  <1> DEFINE g == [d EXCEPT ![l] = Append(d[l], e)]
  <1>1. w \subseteq 1..n /\ w \cap dr = {} /\ m \in 1..n
    BY DEF LevelsKept
  <1>2. d[l] \in Seq(Entries) /\ g[l] = Append(d[l], e) /\ \A a \in Levels \ {l} : g[a] = d[a]
    OBVIOUS
  <1>3. PICK L \in Nat : /\ L = Len(d[l]) /\ DOMAIN d[l] = 1..L /\ DOMAIN g[l] = 1..L + 1
                         /\ g[l][L + 1] = e /\ \A k \in 1..L : g[l][k] = d[l][k]
    BY <1>2
  <1> HIDE DEF g
  <1>4. ASSUME NEW a \in Levels PROVE LevelComplete(g, w \ {m}, n, lv, dr, a)
    <2>1. LevelComplete(d, w, n, lv, dr, a)
      BY DEF LevelsKept
    <2>2. CASE a # l
      <3>1. g[a] = d[a]
        BY <1>2, <2>2
      <3> QED
        BY <2>1, <2>2, <3>1 DEF LevelComplete
    <2>3. CASE a = l
      <3>1. /\ \A j, k \in 1..L : j < k => d[l][j].id < d[l][k].id
            /\ \A k \in 1..L :
                 /\ d[l][k].id \in 1..n /\ lv[d[l][k].id] = l /\ d[l][k].id \notin dr
                 /\ \A q \in w : lv[q] = l => d[l][k].id < q
            /\ \A q \in 1..n : lv[q] = l /\ q \notin dr => q \in w \/ \E k \in 1..L : d[l][k].id = q
        <4>0. LevelComplete(d, w, n, lv, dr, l)
          BY <2>1, <2>3
        <4>1. \A j, k \in 1..L : j < k => d[l][j].id < d[l][k].id
          BY <4>0, <1>3 DEF LevelComplete
        <4>2. \A k \in 1..L :
                 /\ d[l][k].id \in 1..n /\ lv[d[l][k].id] = l /\ d[l][k].id \notin dr
                 /\ \A q \in w : lv[q] = l => d[l][k].id < q
          BY <4>0, <1>3 DEF LevelComplete
        <4>3. \A q \in 1..n : lv[q] = l /\ q \notin dr => q \in w \/ \E k \in 1..L : d[l][k].id = q
          BY <4>0, <1>3 DEF LevelComplete
        <4> QED
          BY <4>1, <4>2, <4>3
      <3>2. ASSUME NEW j \in 1..L + 1, NEW k \in 1..L + 1, j < k PROVE g[l][j].id < g[l][k].id
        <4>1. j \in 1..L
          BY <3>2
        <4>2. CASE k = L + 1
          BY <4>1, <4>2, <3>1, <1>3
        <4>3. CASE k # L + 1
          <5>1. k \in 1..L
            BY <4>3
          <5> QED
            BY <4>1, <5>1, <3>1, <3>2, <1>3
        <4> QED
          BY <4>2, <4>3
      <3>3. ASSUME NEW k \in 1..L + 1
            PROVE  /\ g[l][k].id \in 1..n /\ lv[g[l][k].id] = l /\ g[l][k].id \notin dr
                   /\ \A q \in w \ {m} : lv[q] = l => g[l][k].id < q
        <4>1. CASE k = L + 1
          BY <4>1, <1>1, <1>3
        <4>2. CASE k # L + 1
          <5>1. k \in 1..L
            BY <4>2
          <5> QED
            BY <5>1, <3>1, <1>3
        <4> QED
          BY <4>1, <4>2
      <3>4. ASSUME NEW q \in 1..n, lv[q] = l, q \notin dr
            PROVE  q \in w \ {m} \/ \E k \in 1..L + 1 : g[l][k].id = q
        <4>1. CASE q = m
          <5>1. L + 1 \in 1..L + 1
            OBVIOUS
          <5> QED
            BY <4>1, <5>1, <1>3
        <4>2. CASE q # m /\ q \in w
          BY <4>2
        <4>3. CASE \E k \in 1..L : d[l][k].id = q
          <5>1. PICK k \in 1..L : d[l][k].id = q
            BY <4>3
          <5>2. k \in 1..L + 1 /\ g[l][k].id = q
            BY <5>1, <1>3
          <5> QED
            BY <5>2
        <4> QED
          BY <3>1, <3>4, <4>1, <4>2, <4>3
      <3> QED
        <4>1. \A j, k \in DOMAIN g[l] : j < k => g[l][j].id < g[l][k].id
          BY <3>2, <1>3
        <4>2. \A k \in DOMAIN g[l] :
                 /\ g[l][k].id \in 1..n /\ lv[g[l][k].id] = l /\ g[l][k].id \notin dr
                 /\ \A q \in w \ {m} : lv[q] = l => g[l][k].id < q
          BY <3>3, <1>3
        <4>3. \A q \in 1..n : lv[q] = l /\ q \notin dr =>
                 q \in w \ {m} \/ \E k \in DOMAIN g[l] : g[l][k].id = q
          BY <3>4, <1>3
        <4> QED
          BY <2>3, <4>1, <4>2, <4>3 DEF LevelComplete
    <2> QED
      BY <2>2, <2>3
  <1>5. w \ {m} \subseteq 1..n /\ (w \ {m}) \cap dr = {}
    BY <1>1
  <1>6. LevelsKept(g, w \ {m}, n, lv, dr)
    BY <1>4, <1>5 DEF LevelsKept
  <1> QED
    BY <1>6 DEF g

\* Unwritten by the place of the thread, in this state
LEMMA UnwrittenIs ==
    /\ pc = "trim" => Unwritten = HeldIn(heap, ChainIn(heap, buffers_to_write.head))
    /\ pc = "write" => Unwritten = {heap[node].msgs[k] : k \in i + 1..Len(heap[node].msgs)}
                                   \cup HeldIn(heap, ChainIn(heap, heap[node].next))
    /\ pc \notin {"trim", "write"} => Unwritten = {}
  BY DEF Unwritten, Held, HeldIn, Chain

\* Unwritten by the place of the thread, in the next state
LEMMA UnwrittenNext ==
    /\ pc' = "trim" => Unwritten' = HeldIn(heap', ChainIn(heap', buffers_to_write'.head))
    /\ pc' = "write" => Unwritten' = {heap'[node'].msgs[k] : k \in i' + 1..Len(heap'[node'].msgs)}
                                     \cup HeldIn(heap', ChainIn(heap', heap'[node'].next))
    /\ pc' \notin {"trim", "write"} => Unwritten' = {}
  BY DEF Unwritten, Held, HeldIn, Chain

\* The lists are sets of buffers that have the next of each.
LEMMA SetsClosed ==
    ASSUME TypeInv
    PROVE  /\ FrontSet \subseteq Bufs /\ Closed(heap, FrontSet) /\ First \in FrontSet
           /\ ListSet \subseteq Bufs /\ Closed(heap, ListSet)
           /\ Writing => buffers_to_write.head \in ListSet
           /\ Nexts(heap) /\ HeapOK(heap, nmsg) /\ nmsg \in 0..MaxMsgs /\ nmsg \in Nat /\ RestOK
           /\ level \in [1..nmsg -> Levels]
  <1>1. Nexts(heap) /\ First \in Bufs /\ RestOK /\ HeapOK(heap, nmsg) /\ nmsg \in 0..MaxMsgs
        /\ level \in [1..nmsg -> Levels]
    BY TypeParts, HeapType, LinkedType
  <1>2. First \in Buf0 /\ First # 0 /\ buffers_to_write.head \in Buf0
    BY <1>1, BufsPositive DEF Buf0, RestOK, Lists
  <1>3. FrontSet \subseteq Bufs /\ Closed(heap, FrontSet) /\ First \in FrontSet
    BY <1>1, <1>2, ChainClosed DEF FrontSet
  <1>4. ListSet \subseteq Bufs /\ Closed(heap, ListSet)
    <2>1. CASE Writing
      BY <2>1, <1>1, <1>2, ChainClosed DEF ListSet
    <2>2. CASE ~Writing
      BY <2>2 DEF ListSet, Closed
    <2> QED
      BY <2>1, <2>2
  <1>5. ASSUME Writing PROVE buffers_to_write.head \in ListSet
    BY <1>5, <1>1, <1>2, ChainClosed DEF ListSet, RestOK
  <1>6. nmsg \in Nat
    BY <1>1, LogAssumption
  <1> QED
    BY <1>1, <1>3, <1>4, <1>5, <1>6

\* What is not written yet is in the list that is written.
LEMMA UnwrittenWithin ==
    ASSUME TypeInv, pc = "write" => node \in ListSet
    PROVE  Unwritten \subseteq HeldIn(heap, ListSet)
  <1>1. CASE pc = "trim"
    BY <1>1, UnwrittenIs DEF ListSet, Writing
  <1>2. CASE pc = "write"
    <2>1. ChainIn(heap, heap[node].next) \subseteq ListSet
      BY <1>2, SetsClosed, ChainWithin
    <2>2. HeldIn(heap, ChainIn(heap, heap[node].next)) \subseteq HeldIn(heap, ListSet)
      BY <2>1, HeldMore
    <2>3. heap[node].msgs \in Seq(Msgs) /\ i \in Nat
      BY <1>2, SetsClosed, LogAssumption DEF HeapOK, Cells, RestOK
    <2>4. \A k \in i + 1..Len(heap[node].msgs) : k \in DOMAIN heap[node].msgs
      BY <2>3
    <2>5. {heap[node].msgs[k] : k \in i + 1..Len(heap[node].msgs)} \subseteq HeldIn(heap, {node})
      BY <2>4 DEF HeldIn
    <2>6. HeldIn(heap, {node}) \subseteq HeldIn(heap, ListSet)
      BY <1>2, HeldMore
    <2> QED
      BY <1>2, <2>2, <2>5, <2>6, UnwrittenIs
  <1>3. CASE pc \notin {"trim", "write"}
    BY <1>3, UnwrittenIs
  <1> QED
    BY <1>1, <1>2, <1>3

\* The service does not change what the thread has still to write.
LEMMA ListUntouched ==
    ASSUME TypeInv, OrderedIn(heap, ListSet), pc = "write" => node \in ListSet,
           Nexts(heap'), ListSet' = ListSet,
           pc' = pc, buffers_to_write' = buffers_to_write, node' = node, i' = i,
           \A c \in ListSet : heap'[c].next = heap[c].next /\ heap'[c].msgs = heap[c].msgs
    PROVE  Unwritten' = Unwritten /\ OrderedIn(heap', ListSet')
  <1>1. /\ ListSet \in SUBSET Bufs /\ Closed(heap, ListSet) /\ Nexts(heap)
        /\ Writing => buffers_to_write.head \in ListSet
    BY SetsClosed
  <1>2. OrderedIn(heap', ListSet')
    BY <1>1, OrderedSame
  <1>3. CASE pc = "trim"
    <2>1. ChainIn(heap, buffers_to_write.head) = ListSet /\ ChainIn(heap', buffers_to_write.head) = ListSet
      BY <1>3 DEF ListSet, Writing
    <2>2. HeldIn(heap', ListSet) = HeldIn(heap, ListSet)
      BY HeldSame
    <2> QED
      BY <1>2, <1>3, <2>1, <2>2, UnwrittenIs, UnwrittenNext
  <1>4. CASE pc = "write"
    <2>1. heap[node].next \in Buf0 /\ ChainIn(heap, heap[node].next) \subseteq ListSet
      BY <1>1, <1>4, ChainWithin DEF Nexts
    <2>2. ChainIn(heap', heap[node].next) = ChainIn(heap, heap[node].next)
      BY <1>1, <2>1, ChainSame
    <2>3. HeldIn(heap', ChainIn(heap, heap[node].next)) = HeldIn(heap, ChainIn(heap, heap[node].next))
      BY <2>1, HeldSame
    <2>4. heap'[node].next = heap[node].next /\ heap'[node].msgs = heap[node].msgs
      BY <1>4
    <2>5. PICK s, x : s = heap[node].msgs /\ x = HeldIn(heap, ChainIn(heap, heap[node].next))
      OBVIOUS
    <2>6. Unwritten = {s[k] : k \in i + 1..Len(s)} \cup x
      BY <1>4, <2>5, UnwrittenIs
    <2>7. pc' = "write" /\ heap'[node'].msgs = s /\ HeldIn(heap', ChainIn(heap', heap'[node'].next)) = x
      BY <1>4, <2>2, <2>3, <2>4, <2>5
    <2>8. Unwritten' = {s[k] : k \in i + 1..Len(s)} \cup x
      BY <2>7, UnwrittenNext
    <2> QED
      BY <1>2, <2>6, <2>8
  <1>5. CASE pc \notin {"trim", "write"}
    BY <1>2, <1>5, UnwrittenIs, UnwrittenNext
  <1> QED
    BY <1>3, <1>4, <1>5

\* At the start nothing is held.
LEMMA InitMsg == Init => MsgInv
  <1> SUFFICES ASSUME Init PROVE MsgInv
    OBVIOUS
  <1>1. \A b \in Bufs : heap[b].msgs = <<>>
    <2>1. PICK z \in Cells : z = Zeroed /\ z.msgs = <<>> /\ z.next = 0
      BY ZeroedCell
    <2>2. heap = [b \in Bufs |-> [z EXCEPT !.live = b <= 4]]
      BY <2>1 DEF Init
    <2> QED
      BY <2>1, <2>2 DEF Cells
  <1>2. TypeInv
    BY InitType
  <1>3. \A b \in Bufs : DOMAIN heap[b].msgs = {}
    BY <1>1
  <1>4. FrontSet \subseteq Bufs /\ ListSet \subseteq Bufs
    BY <1>2, SetsClosed
  <1>5. OrderedIn(heap, FrontSet) /\ OrderedIn(heap, ListSet)
    BY <1>3, <1>4 DEF OrderedIn
  <1>6. HeldIn(heap, FrontSet) = {}
    BY <1>3, <1>4 DEF HeldIn
  <1>7. Unwritten = {}
    BY UnwrittenIs DEF Init
  <1>8. nmsg = 0 /\ dropped = {} /\ \A l \in Levels : DOMAIN disk[l] = {}
    BY DEF Init
  <1>9. \A l \in Levels : LevelComplete(disk, {}, 0, level, {}, l)
    BY <1>8 DEF LevelComplete
  <1>10. LevelsKept(disk, Waits, nmsg, level, dropped)
    BY <1>6, <1>7, <1>8, <1>9 DEF LevelsKept, Waits
  <1>11. next_buffer \in Bufs /\ heap[next_buffer].msgs = <<>> /\ pc # "write"
    BY <1>1, BufsPositive DEF Init
  <1> QED
    BY <1>5, <1>7, <1>8, <1>10, <1>11 DEF MsgInv


\* Buffer c has x behind its messages in heap g, compared to heap h.
OneMore(g, h, c, x) ==
    \E L \in Nat : /\ DOMAIN h[c].msgs = 1..L /\ DOMAIN g[c].msgs = 1..L + 1
                  /\ g[c].msgs[L + 1] = x /\ \A k \in 1..L : g[c].msgs[k] = h[c].msgs[k]

\* That is what Append does.
LEMMA AppendOneMore ==
    ASSUME NEW g, NEW h, NEW c, NEW x \in Msgs, h[c].msgs \in Seq(Msgs),
           g[c].msgs = Append(h[c].msgs, x)
    PROVE  OneMore(g, h, c, x)
  BY DEF OneMore

\* A buffer to which a message is appended holds that one too.
LEMMA HeldAppend ==
    ASSUME NEW h, NEW g, NEW bs, NEW c \in bs, NEW x, OneMore(g, h, c, x),
           \A b \in bs : b # c => g[b].msgs = h[b].msgs
    PROVE  HeldIn(g, bs) = HeldIn(h, bs) \cup {x}
  <1>1. PICK L \in Nat : /\ DOMAIN h[c].msgs = 1..L /\ DOMAIN g[c].msgs = 1..L + 1
                         /\ g[c].msgs[L + 1] = x /\ \A k \in 1..L : g[c].msgs[k] = h[c].msgs[k]
    BY DEF OneMore
  <1>2. \A k \in 1..L + 1 : k \in 1..L \/ k = L + 1
    OBVIOUS
  <1>3. \A k \in 1..L : k \in 1..L + 1
    OBVIOUS
  <1>4. L + 1 \in 1..L + 1
    OBVIOUS
  <1>5. \A m : m \in HeldIn(g, {c}) <=> m \in HeldIn(h, {c}) \/ m = x
    <2>1. \A m : m \in HeldIn(g, {c}) <=> \E k \in DOMAIN g[c].msgs : m = g[c].msgs[k]
      BY DEF HeldIn
    <2>2. \A m : m \in HeldIn(h, {c}) <=> \E k \in DOMAIN h[c].msgs : m = h[c].msgs[k]
      BY DEF HeldIn
    <2>3. ASSUME NEW k \in DOMAIN g[c].msgs
          PROVE  g[c].msgs[k] \in HeldIn(h, {c}) \/ g[c].msgs[k] = x
      <3>1. CASE k \in 1..L
        <4>1. k \in DOMAIN h[c].msgs /\ g[c].msgs[k] = h[c].msgs[k]
          BY <3>1, <1>1
        <4> QED
          BY <4>1, <2>2
      <3>2. CASE k = L + 1
        BY <3>2, <1>1
      <3>3. k \in 1..L + 1
        BY <2>3, <1>1
      <3> QED
        BY <3>1, <3>2, <3>3, <1>2
    <2>4. x \in HeldIn(g, {c})
      <3>1. L + 1 \in DOMAIN g[c].msgs /\ g[c].msgs[L + 1] = x
        BY <1>1, <1>4
      <3> QED
        BY <3>1, <2>1
    <2>5. ASSUME NEW k \in DOMAIN h[c].msgs PROVE h[c].msgs[k] \in HeldIn(g, {c})
      <3>1. k \in DOMAIN g[c].msgs /\ g[c].msgs[k] = h[c].msgs[k]
        BY <2>5, <1>1, <1>3
      <3> QED
        BY <3>1, <2>1
    <2> QED
      BY <2>1, <2>2, <2>3, <2>4, <2>5
  <1>6. HeldIn(g, {c}) = HeldIn(h, {c}) \cup {x}
    BY <1>5
  <1>7. PICK y : y = bs \ {c}
    OBVIOUS
  <1>8. HeldIn(g, y) = HeldIn(h, y) /\ bs = y \cup {c}
    BY <1>7, HeldSame
  <1>9. HeldIn(g, y \cup {c}) = HeldIn(g, y) \cup HeldIn(g, {c})
    BY HeldUnion
  <1>10. HeldIn(h, y \cup {c}) = HeldIn(h, y) \cup HeldIn(h, {c})
    BY HeldUnion
  <1> QED
    BY <1>6, <1>8, <1>9, <1>10

\* Buffers stay ordered when message n + 1 comes behind all that they hold.
LEMMA OrderedMore ==
    ASSUME NEW h, NEW g, NEW bs \in SUBSET Bufs, NEW n \in Nat, OrderedIn(h, bs),
           HeldIn(h, bs) \subseteq 1..n, \A b \in bs : h[b].msgs \in Seq(Msgs),
           \A b \in bs :
              /\ HeldIn(g, ChainIn(g, g[b].next))
                    \subseteq HeldIn(h, ChainIn(h, h[b].next)) \cup {n + 1}
              /\ \/ g[b].msgs = h[b].msgs
                 \/ /\ g[b].msgs = Append(h[b].msgs, n + 1)
                    /\ HeldIn(g, ChainIn(g, g[b].next)) = {}
    PROVE  OrderedIn(g, bs)
  <1> SUFFICES ASSUME NEW b \in bs
               PROVE  /\ \A k, j \in DOMAIN g[b].msgs : k < j => g[b].msgs[k] < g[b].msgs[j]
                      /\ \A m \in HeldIn(g, ChainIn(g, g[b].next)) :
                            \A k \in DOMAIN g[b].msgs : g[b].msgs[k] < m
    BY DEF OrderedIn
  <1>1. PICK s, t, x, y : /\ s = h[b].msgs /\ t = g[b].msgs
                          /\ x = HeldIn(h, ChainIn(h, h[b].next))
                          /\ y = HeldIn(g, ChainIn(g, g[b].next))
    OBVIOUS
  <1>2. /\ \A k, j \in DOMAIN s : k < j => s[k] < s[j]
        /\ \A m \in x : \A k \in DOMAIN s : s[k] < m
    BY <1>1 DEF OrderedIn
  <1>3. \A k \in DOMAIN s : s[k] \in 1..n
    BY <1>1 DEF HeldIn
  <1>4. y \subseteq x \cup {n + 1} /\ (t = s \/ (t = Append(s, n + 1) /\ y = {}))
    BY <1>1
  <1>5. s \in Seq(Msgs)
    BY <1>1
  <1>6. CASE t = s
    <2>1. \A m \in y : \A k \in DOMAIN s : s[k] < m
      BY <1>2, <1>3, <1>4
    <2> QED
      BY <1>1, <1>2, <1>6, <2>1
  <1>7. CASE t = Append(s, n + 1) /\ y = {}
    <2>1. PICK L \in Nat : /\ DOMAIN s = 1..L /\ DOMAIN t = 1..L + 1 /\ t[L + 1] = n + 1
                           /\ \A k \in 1..L : t[k] = s[k]
      BY <1>5, <1>7
    <2>2. ASSUME NEW k \in 1..L + 1, NEW j \in 1..L + 1, k < j PROVE t[k] < t[j]
      <3>1. k \in 1..L
        BY <2>2
      <3>2. CASE j = L + 1
        BY <2>1, <3>1, <3>2, <1>3
      <3>3. CASE j # L + 1
        <4>1. j \in 1..L
          BY <3>3
        <4> QED
          BY <2>1, <2>2, <3>1, <4>1, <1>2
      <3> QED
        BY <3>2, <3>3
    <2>3. \A k, j \in DOMAIN t : k < j => t[k] < t[j]
      BY <2>1, <2>2
    <2> QED
      BY <1>1, <1>7, <2>3
  <1> QED
    BY <1>4, <1>6, <1>7

\* What holds when append has put the message behind all that waits
LEMMA AppendedMsg ==
    ASSUME TypeInv, TypeInv', MsgInv, ~oom, nmsg < MaxMsgs, Appended,
           OrderedIn(heap', FrontSet'), OrderedIn(heap', ListSet'), ListSet' = ListSet,
           Unwritten' = Unwritten, HeldIn(heap', FrontSet') = HeldIn(heap, FrontSet) \cup {nmsg + 1},
           next_buffer' # 0 => heap'[next_buffer'].msgs = <<>>,
           pc' = pc, node' = node, disk' = disk, dropped' = dropped
    PROVE  MsgInv'
  <1>1. /\ \A m \in Unwritten : \A n \in HeldIn(heap, FrontSet) : m < n
        /\ LevelsKept(disk, Waits, nmsg, level, dropped) /\ dropped \subseteq 1..nmsg
        /\ pc = "write" => node \in ListSet
    BY DEF MsgInv
  <1>2. nmsg \in Nat /\ nmsg' = nmsg + 1 /\ \A m \in 1..nmsg : level'[m] = level[m]
    BY SetsClosed, AppendedType
  <1>3. Waits' = Waits \cup {nmsg + 1}
    BY DEF Waits
  <1>4. LevelsKept(disk', Waits', nmsg', level', dropped')
    BY <1>1, <1>2, <1>3, LevelsMore
  <1>5. Unwritten \subseteq 1..nmsg
    BY <1>1 DEF LevelsKept, Waits
  <1>6. \A m \in Unwritten' : \A n \in HeldIn(heap', FrontSet') : m < n
    BY <1>1, <1>2, <1>5
  <1>7. dropped' \subseteq 1..nmsg'
    BY <1>1, <1>2
  <1> QED
    BY <1>1, <1>4, <1>6, <1>7 DEF MsgInv

\* append, when there is room
LEMMA Append1Msg ==
    ASSUME TypeInv, BufferInv, MsgInv, TypeInv', Append1 PROVE MsgInv'
  <1> SUFFICES ASSUME ~oom PROVE MsgInv'
    BY DEF MsgInv, Append1
  <1>1. FrontInv /\ OwnerInv /\ OrderedIn(heap, FrontSet) /\ OrderedIn(heap, ListSet)
        /\ (pc = "write" => node \in ListSet) /\ (next_buffer # 0 => heap[next_buffer].msgs = <<>>)
    BY DEF BufferInv, MsgInv
  <1>2. /\ Nexts(heap') /\ FrontSet' = FrontSet /\ ListSet' = ListSet
        /\ heap'[curr_buffer].msgs = Append(heap[curr_buffer].msgs, nmsg + 1)
    BY Append1Parts
  <1>3. \A b \in Bufs : heap'[b].next = heap[b].next
    BY Append1Parts, Zenon
  <1>4. \A b \in Bufs \ {curr_buffer} : heap'[b].msgs = heap[b].msgs
    BY Append1Parts, Zenon
  <1>5. /\ nmsg \in Nat /\ nmsg \in 0..MaxMsgs /\ nmsg < MaxMsgs /\ nmsg + 1 \in Msgs /\ Nexts(heap)
        /\ FrontSet \in SUBSET Bufs /\ ListSet \in SUBSET Bufs /\ Closed(heap, FrontSet)
        /\ HeapOK(heap, nmsg) /\ RestOK
    <2>1. nmsg \in Nat /\ nmsg < MaxMsgs
      BY SetsClosed DEF Append1
    <2>2. nmsg + 1 \in Msgs
      BY <2>1, LogAssumption DEF Msgs
    <2> QED
      BY <2>1, <2>2, SetsClosed
  <1>6. curr_buffer \in FrontSet /\ curr_buffer \notin ListSet /\ heap[curr_buffer].next = 0
    BY <1>1 DEF FrontInv, OwnerInv
  <1>7. \A b \in Bufs : heap[b].msgs \in Seq(Msgs)
    BY <1>5 DEF HeapOK, Cells
  <1>8. HeldIn(heap', FrontSet) = HeldIn(heap, FrontSet) \cup {nmsg + 1}
    <2>1. OneMore(heap', heap, curr_buffer, nmsg + 1)
      BY <1>2, <1>5, <1>6, <1>7, AppendOneMore
    <2>2. PICK h, g, c, n, x : /\ h = heap /\ g = heap' /\ c = curr_buffer /\ n = nmsg + 1
                              /\ x = FrontSet
      OBVIOUS
    <2>3. OneMore(g, h, c, n) /\ c \in x /\ \A b \in x : b # c => g[b].msgs = h[b].msgs
      BY <2>1, <2>2, <1>4, <1>5, <1>6
    <2>4. HeldIn(g, x) = HeldIn(h, x) \cup {n}
      BY <2>3, HeldAppend
    <2> QED
      BY <2>2, <2>4
  <1>9. Unwritten' = Unwritten /\ OrderedIn(heap', ListSet')
    <2>1. \A c \in ListSet : heap'[c].next = heap[c].next /\ heap'[c].msgs = heap[c].msgs
      BY <1>3, <1>4, <1>5, <1>6
    <2> QED
      BY <2>1, <1>1, <1>2, ListUntouched DEF Append1
  <1>10. OrderedIn(heap', FrontSet)
    <2>1. ASSUME NEW b \in FrontSet
          PROVE  /\ HeldIn(heap', ChainIn(heap', heap'[b].next))
                       \subseteq HeldIn(heap, ChainIn(heap, heap[b].next)) \cup {nmsg + 1}
                 /\ \/ heap'[b].msgs = heap[b].msgs
                    \/ /\ heap'[b].msgs = Append(heap[b].msgs, nmsg + 1)
                       /\ HeldIn(heap', ChainIn(heap', heap'[b].next)) = {}
      <3>1. /\ b \in Bufs /\ heap[b].next \in Buf0
            /\ ChainIn(heap', heap'[b].next) = ChainIn(heap, heap[b].next)
            /\ ChainIn(heap, heap[b].next) \subseteq FrontSet
        <4>1. b \in Bufs /\ heap[b].next \in Buf0 /\ heap'[b].next = heap[b].next
          BY <2>1, <1>3, <1>5 DEF Nexts
        <4>2. ChainIn(heap', heap[b].next) = ChainIn(heap, heap[b].next)
          <5>1. \A c \in ChainIn(heap, heap[b].next) : heap'[c].next = heap[c].next
            BY <1>3 DEF ChainIn
          <5> QED
            BY <5>1, <4>1, <1>2, <1>5, ChainSame
        <4> QED
          BY <4>1, <4>2, <2>1, <1>5, ChainWithin
      <3>2. PICK x : x = ChainIn(heap, heap[b].next)
        OBVIOUS
      <3>3. CASE b = curr_buffer
        <4>1. x = {}
          BY <3>2, <3>3, <1>6, ChainNull
        <4>2. HeldIn(heap', x) = {}
          BY <4>1 DEF HeldIn
        <4> QED
          BY <3>1, <3>2, <3>3, <4>2, <1>2
      <3>4. CASE b # curr_buffer
        <4>1. CASE curr_buffer \in x
          <5>1. HeldIn(heap', x) = HeldIn(heap, x) \cup {nmsg + 1}
            <6>1. \A c \in x \ {curr_buffer} : heap'[c].msgs = heap[c].msgs
              BY <3>1, <3>2, <1>4, <1>5
            <6>2. OneMore(heap', heap, curr_buffer, nmsg + 1)
              BY <1>2, <1>5, <1>6, <1>7, AppendOneMore
            <6>3. PICK h, g, c, n : h = heap /\ g = heap' /\ c = curr_buffer /\ n = nmsg + 1
              OBVIOUS
            <6>4. /\ OneMore(g, h, c, n) /\ c \in x
                  /\ \A e \in x : e # c => g[e].msgs = h[e].msgs
              BY <6>1, <6>2, <6>3, <4>1
            <6>5. HeldIn(g, x) = HeldIn(h, x) \cup {n}
              BY <6>4, HeldAppend
            <6> QED
              BY <6>3, <6>5
          <5> QED
            BY <5>1, <3>1, <3>2, <3>4, <1>4
        <4>2. CASE curr_buffer \notin x
          <5>1. HeldIn(heap', x) = HeldIn(heap, x)
            BY <4>2, <3>1, <3>2, <1>4, <1>5, HeldSame
          <5> QED
            BY <5>1, <3>1, <3>2, <3>4, <1>4
        <4> QED
          BY <4>1, <4>2
      <3> QED
        BY <3>3, <3>4
    <2>2. HeldIn(heap, FrontSet) \subseteq 1..nmsg
      BY <1>5, HeldBound
    <2>3. \A b \in FrontSet : heap[b].msgs \in Seq(Msgs)
      BY <1>5, <1>7
    <2> QED
      BY <2>1, <2>2, <2>3, <1>1, <1>5, OrderedMore
  <1>11. next_buffer' # 0 => heap'[next_buffer'].msgs = <<>>
    <2>1. next_buffer' = next_buffer
      BY DEF Append1, front
    <2>2. ASSUME next_buffer # 0 PROVE next_buffer \in Bufs \ {curr_buffer}
      BY <2>2, <1>1, <1>5, <1>6 DEF RestOK, Buf0, OwnerInv, Singles
    <2> QED
      BY <2>1, <2>2, <1>1, <1>4
  <1>12. pc' = pc /\ node' = node /\ disk' = disk /\ dropped' = dropped /\ Appended
    BY DEF Append1, files
  <1> QED
    BY <1>2, <1>5, <1>8, <1>9, <1>10, <1>11, <1>12, AppendedMsg

\* append, when curr_buffer is full
LEMMA AppendFullMsg ==
    ASSUME TypeInv, BufferInv, MsgInv, TypeInv', NEW b \in Bufs, AppendFull(b) PROVE MsgInv'
  <1> SUFFICES ASSUME ~oom PROVE MsgInv'
    BY DEF MsgInv, AppendFull
  <1>1. FrontInv /\ OwnerInv /\ OrderedIn(heap, FrontSet) /\ OrderedIn(heap, ListSet)
        /\ (pc = "write" => node \in ListSet)
    BY DEF BufferInv, MsgInv
  <1>2. /\ Nexts(heap) /\ Nexts(heap') /\ 0 \notin Bufs
        /\ FrontSet' = FrontSet \cup {b} /\ ListSet' = ListSet
        /\ b \notin FrontSet /\ b \notin ListSet
        /\ heap'[b].next = 0 /\ heap'[curr_buffer].next = b
    BY FullParts
  <1>3. \A c \in Bufs \ {b} : heap'[c].msgs = heap[c].msgs
    BY FullParts, Zenon
  <1>4. \A c \in Bufs \ {b, curr_buffer} : heap'[c].next = heap[c].next
    BY FullParts, Zenon
  <1>5. /\ nmsg \in Nat /\ nmsg \in 0..MaxMsgs /\ nmsg < MaxMsgs
        /\ FrontSet \in SUBSET Bufs /\ ListSet \in SUBSET Bufs /\ Closed(heap, FrontSet)
        /\ HeapOK(heap, nmsg) /\ RestOK
    BY SetsClosed DEF AppendFull
  <1>6. curr_buffer \in FrontSet /\ curr_buffer \notin ListSet /\ heap[curr_buffer].next = 0
    BY <1>1 DEF FrontInv, OwnerInv
  <1>7. heap'[b].msgs = <<nmsg + 1>> /\ HeldIn(heap', {b}) = {nmsg + 1}
    <2>1. heap'[b].msgs = <<nmsg + 1>>
      BY FullHeap
    <2>2. DOMAIN heap'[b].msgs = {1} /\ heap'[b].msgs[1] = nmsg + 1
      BY <2>1
    <2>3. \A m : m \in HeldIn(heap', {b}) <=> m = nmsg + 1
      BY <2>2 DEF HeldIn
    <2> QED
      BY <2>1, <2>3
  <1>8. HeldIn(heap', FrontSet') = HeldIn(heap, FrontSet) \cup {nmsg + 1}
    <2>1. HeldIn(heap', FrontSet) = HeldIn(heap, FrontSet)
      BY <1>2, <1>3, <1>5, HeldSame
    <2> QED
      BY <2>1, <1>2, <1>7, HeldUnion
  <1>9. Unwritten' = Unwritten /\ OrderedIn(heap', ListSet')
    <2>1. \A c \in ListSet : heap'[c].next = heap[c].next /\ heap'[c].msgs = heap[c].msgs
      BY <1>2, <1>3, <1>4, <1>5, <1>6
    <2> QED
      BY <2>1, <1>1, <1>2, ListUntouched DEF AppendFull
  <1>10. OrderedIn(heap', FrontSet)
    <2>1. ASSUME NEW a \in FrontSet
          PROVE  /\ HeldIn(heap', ChainIn(heap', heap'[a].next))
                       \subseteq HeldIn(heap, ChainIn(heap, heap[a].next)) \cup {nmsg + 1}
                 /\ heap'[a].msgs = heap[a].msgs
      <3>1. PICK x : x = ChainIn(heap, heap[a].next)
        OBVIOUS
      <3>2. x \subseteq FrontSet /\ Closed(heap, x) /\ heap[a].next \in x \cup {0} /\ a \in Bufs
        <4>1. a \in Bufs /\ heap[a].next \in Buf0
          BY <2>1, <1>2, <1>5 DEF Nexts
        <4> QED
          BY <4>1, <3>1, <2>1, <1>2, <1>5, ChainWithin, ChainClosed
      <3>3. x \cup {b} \in SUBSET Bufs
        BY <3>2, <1>5
      <3>4. ASSUME NEW d \in FrontSet PROVE heap'[d].next \in {heap[d].next, b}
        <4>1. CASE d = curr_buffer
          BY <4>1, <1>2
        <4>2. CASE d # curr_buffer
          BY <4>2, <3>4, <1>2, <1>4, <1>5
        <4> QED
          BY <4>1, <4>2
      <3>5. Closed(heap', x \cup {b})
        BY <3>2, <3>4, <1>2 DEF Closed
      <3>6. heap'[a].next \in (x \cup {b}) \cup {0}
        BY <3>2, <3>4, <2>1
      <3>7. ChainIn(heap', heap'[a].next) \subseteq x \cup {b}
        BY <3>3, <3>5, <3>6, ChainLeast
      <3>8. HeldIn(heap', x \cup {b}) = HeldIn(heap, x) \cup {nmsg + 1}
        <4>1. HeldIn(heap', x) = HeldIn(heap, x)
          BY <3>2, <1>2, <1>3, <1>5, HeldSame
        <4> QED
          BY <4>1, <1>7, HeldUnion
      <3>9. HeldIn(heap', ChainIn(heap', heap'[a].next)) \subseteq HeldIn(heap', x \cup {b})
        BY <3>7, HeldMore
      <3> QED
        BY <3>1, <3>8, <3>9, <2>1, <1>2, <1>3, <1>5
    <2>2. HeldIn(heap, FrontSet) \subseteq 1..nmsg
      BY <1>5, HeldBound
    <2>3. \A a \in FrontSet : heap[a].msgs \in Seq(Msgs)
      BY <1>5 DEF HeapOK, Cells
    <2> QED
      BY <2>1, <2>2, <2>3, <1>1, <1>5, OrderedMore
  <1>11. OrderedIn(heap', FrontSet')
    <2>1. HeldIn(heap', ChainIn(heap', heap'[b].next)) = {}
      BY <1>2, ChainNull DEF HeldIn
    <2>2. \A k, n \in DOMAIN heap'[b].msgs : k < n => heap'[b].msgs[k] < heap'[b].msgs[n]
      BY <1>7
    <2> QED
      BY <2>1, <2>2, <1>2, <1>10 DEF OrderedIn
  <1>12. /\ pc' = pc /\ node' = node /\ disk' = disk /\ dropped' = dropped /\ Appended
         /\ next_buffer' = 0
    BY DEF AppendFull, files
  <1> QED
    BY <1>2, <1>5, <1>8, <1>9, <1>11, <1>12, AppendedMsg


\* The critical section: all of the front is now to be written.
LEMMA SwapMsg ==
    ASSUME TypeInv, BufferInv, MsgInv, Swap PROVE MsgInv'
  <1> SUFFICES ASSUME ~oom PROVE MsgInv'
    BY DEF MsgInv, Swap
  <1>1. /\ SpareInv /\ OrderedIn(heap, FrontSet)
        /\ LevelsKept(disk, Waits, nmsg, level, dropped) /\ dropped \subseteq 1..nmsg
        /\ next_buffer # 0 => heap[next_buffer].msgs = <<>>
    BY DEF BufferInv, MsgInv
  <1>2. /\ heap' = heap /\ pc' = "trim" /\ disk' = disk /\ nmsg' = nmsg /\ level' = level
        /\ dropped' = dropped /\ pc \in {"wait", "lock"} /\ buffers_to_write' = Linked
        /\ buffers'.head = 0 /\ curr_buffer' = new_buffer1
        /\ next_buffer' \in {next_buffer, new_buffer2}
    BY DEF Swap, files, Empty, SparesLeft
  <1>3. Nexts(heap) /\ RestOK /\ buffers_to_write'.head = First /\ 0 \notin Bufs
    BY <1>2, SetsClosed, LinkedType, BufsPositive
  <1>4. /\ new_buffer1 \in Bufs /\ heap[new_buffer1].next = 0 /\ heap[new_buffer1].msgs = <<>>
        /\ new_buffer2 \in Bufs /\ heap[new_buffer2].msgs = <<>>
    BY <1>1, <1>2, <1>3 DEF SpareInv, Writing, RestOK, Buf0
  <1>5. ListSet' = FrontSet /\ FrontSet' = {new_buffer1}
    <2>1. ChainIn(heap, new_buffer1) = {new_buffer1}
      BY <1>3, <1>4, ChainOne
    <2> QED
      BY <2>1, <1>2, <1>3 DEF ListSet, FrontSet, First, Writing
  <1>6. HeldIn(heap, {new_buffer1}) = {}
    BY <1>4 DEF HeldIn
  <1>7. Unwritten = {} /\ Unwritten' = HeldIn(heap, FrontSet)
    BY <1>2, <1>3, UnwrittenIs, UnwrittenNext DEF FrontSet
  <1>8. Waits' = Waits
    BY <1>2, <1>5, <1>6, <1>7 DEF Waits
  <1>9. OrderedIn(heap, {new_buffer1})
    BY <1>4 DEF OrderedIn
  <1>10. \A m \in Unwritten' : \A n \in HeldIn(heap', FrontSet') : m < n
    BY <1>2, <1>5, <1>6
  <1>11. next_buffer' # 0 => heap'[next_buffer'].msgs = <<>>
    BY <1>1, <1>2, <1>4
  <1> QED
    BY <1>1, <1>2, <1>5, <1>8, <1>9, <1>10, <1>11 DEF MsgInv

\* The thread changes only buffers that it has: what the front holds stays.
LEMMA FrontUntouched ==
    ASSUME TypeInv, BufferInv, MsgInv, ~oom, Nexts(heap'), front' = front,
           \A c \in Bufs \ ListSet : /\ heap'[c].next = heap[c].next
                                     /\ heap'[c].live = heap[c].live
                                     /\ heap'[c].msgs = heap[c].msgs
    PROVE  /\ FrontSet' = FrontSet /\ OrderedIn(heap', FrontSet')
           /\ HeldIn(heap', FrontSet') = HeldIn(heap, FrontSet)
           /\ next_buffer' # 0 => heap'[next_buffer'].msgs = <<>>
  <1>1. FrontSet' = FrontSet
    BY FrontKept
  <1>2. /\ OwnerInv /\ OrderedIn(heap, FrontSet) /\ RestOK
        /\ next_buffer # 0 => heap[next_buffer].msgs = <<>>
    BY SetsClosed DEF BufferInv, MsgInv
  <1>3. FrontSet \in SUBSET Bufs /\ Closed(heap, FrontSet) /\ Nexts(heap)
    BY SetsClosed
  <1>4. \A c \in FrontSet : heap'[c].msgs = heap[c].msgs /\ heap'[c].next \in {heap[c].next, 0}
    BY <1>2, <1>3 DEF OwnerInv
  <1>5. OrderedIn(heap', FrontSet)
    BY <1>2, <1>3, <1>4, OrderedSame
  <1>6. HeldIn(heap', FrontSet) = HeldIn(heap, FrontSet)
    BY <1>4, HeldSame
  <1>7. ASSUME next_buffer # 0 PROVE next_buffer \in Bufs \ ListSet
    BY <1>2, <1>7 DEF OwnerInv, Singles, RestOK, Buf0
  <1>8. next_buffer' = next_buffer
    BY DEF front
  <1> QED
    BY <1>1, <1>2, <1>5, <1>6, <1>7, <1>8

\* The loop that writes begins with all that is left of the list, which is the
\* messages of the first buffer and those of the others.
LEMMA WriteBegins ==
    ASSUME NEW h, NEW b \in Bufs, Nexts(h), h[b].msgs \in Seq(Msgs)
    PROVE  {h[b].msgs[k] : k \in 0 + 1..Len(h[b].msgs)} \cup HeldIn(h, ChainIn(h, h[b].next))
              = HeldIn(h, ChainIn(h, b))
  <1>1. ChainIn(h, b) = {b} \cup ChainIn(h, h[b].next)
    BY ChainNext
  <1>2. HeldIn(h, {b} \cup ChainIn(h, h[b].next))
           = HeldIn(h, {b}) \cup HeldIn(h, ChainIn(h, h[b].next))
    BY HeldUnion
  <1>3. 0 + 1..Len(h[b].msgs) = DOMAIN h[b].msgs
    OBVIOUS
  <1>4. HeldIn(h, {b}) = {h[b].msgs[k] : k \in 0 + 1..Len(h[b].msgs)}
    <2>1. \A m : m \in HeldIn(h, {b}) <=> \E k \in 0 + 1..Len(h[b].msgs) : m = h[b].msgs[k]
      BY <1>3 DEF HeldIn
    <2> QED
      BY <2>1
  <1> QED
    BY <1>1, <1>2, <1>4

\* All but two of too many buffers are freed: what they held is dropped.
LEMMA TrimMsg ==
    ASSUME TypeInv, BufferInv, MsgInv, TypeInv', Trim PROVE MsgInv'
  <1> SUFFICES ASSUME ~oom PROVE MsgInv'
    BY DEF MsgInv, Trim
  <1>1. /\ ListInv /\ OrderedIn(heap, ListSet) /\ dropped \subseteq 1..nmsg
        /\ \A m \in Unwritten : \A n \in HeldIn(heap, FrontSet) : m < n
        /\ LevelsKept(disk, Waits, nmsg, level, dropped)
    BY DEF BufferInv, MsgInv
  <1>2. /\ front' = front /\ pc = "trim" /\ pc' = "write" /\ node' = buffers_to_write.head /\ i' = 0
        /\ disk' = disk /\ nmsg' = nmsg /\ level' = level
        /\ buffers_to_write'.head = buffers_to_write.head /\ Writing /\ Writing'
    BY DEF Trim, files, Writing
  <1>3. PICK a, s : a = buffers_to_write.head /\ s = Second
    OBVIOUS
  <1>4. /\ Nexts(heap) /\ ListSet \in SUBSET Bufs /\ Closed(heap, ListSet)
        /\ HeapOK(heap, nmsg) /\ nmsg \in Nat /\ a \in Bufs /\ a \in ListSet /\ a # 0
    BY <1>2, <1>3, SetsClosed, BufsPositive
  <1>5. Unwritten = HeldIn(heap, ListSet)
    BY <1>2, UnwrittenIs DEF ListSet
  <1>6. /\ Nexts(heap') /\ a \in ListSet'
        /\ Unwritten' = HeldIn(heap', ListSet')
    <2>1. HeapOK(heap', nmsg) /\ Nexts(heap')
      <3>1. TypeInv' => (HeapOK(heap, nmsg) /\ Nexts(heap))'
        BY DEF TypeInv, TypeOK, HeapOK, Nexts
      <3> QED
        BY <3>1, <1>2
    <2>2. heap'[a].msgs \in Seq(Msgs)
      BY <2>1, <1>4 DEF HeapOK, Cells
    <2>3. Unwritten' = HeldIn(heap', ChainIn(heap', a))
      <3>1. Unwritten' = {heap'[a].msgs[k] : k \in 0 + 1..Len(heap'[a].msgs)}
                         \cup HeldIn(heap', ChainIn(heap', heap'[a].next))
        BY <1>2, <1>3, UnwrittenNext
      <3> QED
        BY <3>1, <2>1, <2>2, <1>4, WriteBegins
    <2>4. ListSet' = ChainIn(heap', a)
      BY <1>2, <1>3 DEF ListSet
    <2>5. a \in ChainIn(heap', a)
      BY <2>1, <1>4, ChainClosed DEF Buf0
    <2> QED
      BY <2>1, <2>3, <2>4, <2>5
  <1>7. CASE ~TooMany
    <2>1. heap' = heap /\ dropped' = dropped /\ ListSet' = ListSet
      BY <1>2, <1>7 DEF Trim, ListSet
    <2>2. /\ FrontSet' = FrontSet /\ OrderedIn(heap', FrontSet')
          /\ HeldIn(heap', FrontSet') = HeldIn(heap, FrontSet)
          /\ next_buffer' # 0 => heap'[next_buffer'].msgs = <<>>
      BY <2>1, <1>2, <1>6, FrontUntouched
    <2>3. Unwritten' = Unwritten
      BY <2>1, <1>5, <1>6
    <2>4. Waits' = Waits
      BY <2>2, <2>3 DEF Waits
    <2>5. LevelsKept(disk', Waits', nmsg', level', dropped')
      BY <2>1, <2>4, <1>1, <1>2
    <2> QED
      BY <2>1, <2>2, <2>3, <2>5, <1>1, <1>2, <1>3, <1>6 DEF MsgInv
  <1>8. CASE TooMany
    <2>1. /\ a \in Bufs /\ s \in Bufs /\ s # 0 /\ a # s /\ ListSet = {a, s} \cup Excess
          /\ ListSet' = {a, s}
      BY <1>3, <1>8, TrimParts
    <2>2. /\ \A b \in Bufs : heap'[b].msgs = heap[b].msgs
          /\ \A b \in Bufs : heap'[b].next \in {heap[b].next, 0}
      BY <1>3, <1>8, TrimParts
    <2>3. \A c \in Bufs \ ListSet : /\ heap'[c].next = heap[c].next
                                    /\ heap'[c].live = heap[c].live
                                    /\ heap'[c].msgs = heap[c].msgs
      BY <1>3, <1>8, TrimParts
    <2>4. /\ FrontSet' = FrontSet /\ OrderedIn(heap', FrontSet')
          /\ HeldIn(heap', FrontSet') = HeldIn(heap, FrontSet)
          /\ next_buffer' # 0 => heap'[next_buffer'].msgs = <<>>
      BY <2>3, <1>2, <1>6, FrontUntouched
    <2>5. PICK x, y, z : /\ x = HeldIn(heap, Excess) /\ y = HeldIn(heap, {a, s})
                         /\ z = HeldIn(heap, FrontSet)
      OBVIOUS
    <2>6. Unwritten' = y /\ Unwritten = y \cup x
      <3>1. HeldIn(heap', {a, s}) = HeldIn(heap, {a, s})
        BY <2>1, <2>2, HeldSame
      <3>2. HeldIn(heap, {a, s} \cup Excess) = y \cup x
        BY <2>5, HeldUnion
      <3> QED
        BY <3>1, <3>2, <2>1, <2>5, <1>5, <1>6
    <2>7. x \subseteq 1..nmsg
      <3>1. Excess \in SUBSET Bufs
        BY DEF Excess, Chain, ChainIn
      <3> QED
        BY <3>1, <2>5, <1>4, SetsClosed, HeldBound
    <2>8. \A m \in y : \A n \in x : m < n
      <3>1. Excess = ChainIn(heap, heap[s].next) /\ heap[a].next = s
        BY <1>3 DEF Excess, Chain, Second
      <3>2. ChainIn(heap, s) = {s} \cup Excess
        BY <3>1, <2>1, <1>4, ChainNext
      <3>3. x \subseteq HeldIn(heap, ChainIn(heap, heap[a].next))
        BY <3>1, <3>2, <2>5, HeldMore
      <3>4. \A n \in x : \A k \in DOMAIN heap[a].msgs : heap[a].msgs[k] < n
        BY <3>3, <1>1, <1>4 DEF OrderedIn
      <3>5. \A n \in x : \A k \in DOMAIN heap[s].msgs : heap[s].msgs[k] < n
        BY <3>1, <2>1, <2>5, <1>1 DEF OrderedIn
      <3> QED
        BY <3>4, <3>5, <2>5 DEF HeldIn
    <2>9. Waits = (y \cup x) \cup z /\ Waits' = y \cup z
      BY <2>4, <2>5, <2>6 DEF Waits
    <2>10. \A n \in x : n \notin y /\ n \notin z
      <3>1. \A n \in x : ~(n < n)
        BY <2>7
      <3> QED
        BY <3>1, <2>5, <2>6, <2>8, <1>1
    <2>11. Waits' = Waits \ x /\ x \subseteq Waits
      BY <2>9, <2>10
    <2>12. dropped' = dropped \cup x
      <3>1. dropped' = dropped \cup Held(Excess)
        BY <1>8 DEF Trim
      <3>2. Held(Excess) = x
        BY <2>5 DEF Held, HeldIn
      <3> QED
        BY <3>1, <3>2
    <2>13. LevelsKept(disk', Waits', nmsg', level', dropped')
      <3>1. LevelsKept(disk, Waits \ x, nmsg, level, dropped \cup x)
        BY <2>11, <1>1, <1>4, LevelsDrop
      <3> QED
        BY <3>1, <2>11, <2>12, <1>2
    <2>14. OrderedIn(heap', ListSet')
      <3>1. OrderedIn(heap', ListSet)
        BY <2>2, <1>1, <1>4, <1>6, OrderedSame
      <3> QED
        BY <3>1, <2>1 DEF OrderedIn
    <2>15. \A m \in Unwritten' : \A n \in HeldIn(heap', FrontSet') : m < n
      BY <2>4, <2>6, <1>1
    <2>16. dropped' \subseteq 1..nmsg' /\ node' \in ListSet'
      BY <2>7, <2>12, <1>1, <1>2, <1>3, <1>6
    <2> QED
      BY <2>4, <2>13, <2>14, <2>15, <2>16 DEF MsgInv
  <1> QED
    BY <1>7, <1>8

\* One message is written: it is the first of all that waits.
LEMMA WriteMessageMsg ==
    ASSUME TypeInv, BufferInv, MsgInv, WriteMessage PROVE MsgInv'
  <1> SUFFICES ASSUME ~oom PROVE MsgInv'
    BY DEF MsgInv, WriteMessage
  <1>1. /\ OrderedIn(heap, FrontSet) /\ OrderedIn(heap, ListSet) /\ dropped \subseteq 1..nmsg
        /\ \A m \in Unwritten : \A n \in HeldIn(heap, FrontSet) : m < n
        /\ LevelsKept(disk, Waits, nmsg, level, dropped)
        /\ next_buffer # 0 => heap[next_buffer].msgs = <<>>
    BY DEF MsgInv
  <1>2. /\ heap' = heap /\ front' = front /\ pc = "write" /\ pc' = "write" /\ node' = node
        /\ i' = i + 1 /\ nmsg' = nmsg /\ level' = level /\ dropped' = dropped
        /\ buffers_to_write' = buffers_to_write /\ i < Len(heap[node].msgs)
    BY DEF WriteMessage
  <1>3. FrontSet' = FrontSet /\ ListSet' = ListSet /\ next_buffer' = next_buffer
    BY <1>2 DEF FrontSet, First, front, ListSet, Writing
  <1>4. node \in ListSet /\ node \in Bufs /\ i \in Nat /\ nmsg \in Nat /\ RestOK
        /\ heap[node].msgs \in Seq(Msgs)
    <2>1. node \in ListSet
      BY <1>2 DEF MsgInv
    <2> QED
      BY <2>1, SetsClosed, LogAssumption DEF RestOK, HeapOK, Cells
  <1>5. PICK m \in Msgs : \E l \in Levels : \E r :
              /\ m = heap[node].msgs[i + 1] /\ l = level[m] /\ Wrote(m, l, r) /\ r.file \in Files
    BY WriteParts
  <1>a. PICK l \in Levels : \E r :
              /\ m = heap[node].msgs[i + 1] /\ l = level[m] /\ Wrote(m, l, r) /\ r.file \in Files
    BY <1>5
  <1>6. PICK r :
              /\ m = heap[node].msgs[i + 1] /\ l = level[m] /\ Wrote(m, l, r) /\ r.file \in Files
    BY <1>a
  <1>7. PICK f \in Files :
              /\ m = heap[node].msgs[i + 1] /\ l = level[m]
              /\ disk' = [disk EXCEPT ![l] = Append(disk[l], [id |-> m, file |-> f, tm |-> tm])]
    BY <1>6 DEF Wrote
  <1>8. PICK e \in Entries : e = [id |-> m, file |-> f, tm |-> tm] /\ e.id = m
    <2>1. tm \in 0..MaxHour
      BY <1>4 DEF RestOK
    <2>2. [id |-> m, file |-> f, tm |-> tm] \in Entries
      BY <2>1 DEF Entries
    <2>3. [id |-> m, file |-> f, tm |-> tm].id = m
      OBVIOUS
    <2> QED
      BY <2>2, <2>3
  <1>9. PICK s, x : s = heap[node].msgs /\ x = HeldIn(heap, ChainIn(heap, heap[node].next))
    OBVIOUS
  <1>10. PICK u, v : u = {s[k] : k \in i + 1..Len(s)} /\ v = {s[k] : k \in i + 1 + 1..Len(s)}
    OBVIOUS
  <1>11. Unwritten = u \cup x /\ Unwritten' = v \cup x
    <2>1. Unwritten = u \cup x
      BY <1>2, <1>9, <1>10, UnwrittenIs
    <2>2. Unwritten' = v \cup x
      BY <1>2, <1>9, <1>10, UnwrittenNext
    <2> QED
      BY <2>1, <2>2
  <1>12. \A q \in v \cup x : m < q
    <2>1. /\ \A k, n \in DOMAIN s : k < n => s[k] < s[n]
          /\ \A q \in x : \A k \in DOMAIN s : s[k] < q
      BY <1>1, <1>4, <1>9 DEF OrderedIn
    <2>2. i + 1 \in DOMAIN s /\ m = s[i + 1]
      BY <1>2, <1>4, <1>7, <1>9
    <2>3. \A k \in i + 1 + 1..Len(s) : k \in DOMAIN s /\ i + 1 < k
      BY <1>4, <1>9
    <2> QED
      BY <2>1, <2>2, <2>3, <1>10
  <1>13. u = v \cup {m}
    <2>1. \A k : k \in i + 1..Len(s) <=> k \in i + 1 + 1..Len(s) \/ k = i + 1
      BY <1>2, <1>4, <1>9
    <2> QED
      BY <2>1, <1>7, <1>9, <1>10
  <1>14. PICK z : z = HeldIn(heap, FrontSet)
    OBVIOUS
  <1>15. Waits = (v \cup {m} \cup x) \cup z /\ Waits' = (v \cup x) \cup z
    BY <1>2, <1>3, <1>11, <1>13, <1>14 DEF Waits
  <1>16. \A q \in (v \cup x) \cup z : m < q
    BY <1>1, <1>11, <1>12, <1>13, <1>14
  <1>17. m \in 1..nmsg /\ m \in Waits
    <2>1. m \in Waits
      BY <1>15
    <2> QED
      BY <2>1, <1>1 DEF LevelsKept
  <1>18. Waits' = Waits \ {m} /\ \A q \in Waits \ {m} : m < q
    <2>1. ~(m < m)
      BY <1>17
    <2> QED
      BY <2>1, <1>15, <1>16
  <1>19. LevelsKept(disk', Waits', nmsg', level', dropped')
    <2>1. disk \in [Levels -> Seq(Entries)] /\ level[m] = l
      BY <1>4, <1>7 DEF RestOK
    <2>2. LevelsKept([disk EXCEPT ![l] = Append(disk[l], e)], Waits \ {m}, nmsg, level, dropped)
      BY <2>1, <1>1, <1>4, <1>8, <1>17, <1>18, LevelsWrite
    <2>3. disk' = [disk EXCEPT ![l] = Append(disk[l], e)]
      BY <1>7, <1>8
    <2> QED
      BY <2>2, <2>3, <1>2, <1>18
  <1>20. \A q \in Unwritten' : \A n \in HeldIn(heap', FrontSet') : q < n
    BY <1>1, <1>2, <1>3, <1>11, <1>13
  <1> QED
    BY <1>1, <1>2, <1>3, <1>4, <1>19, <1>20 DEF MsgInv

\* The loop goes on to the next buffer, or ends.
LEMMA WriteNextMsg ==
    ASSUME TypeInv, BufferInv, MsgInv, WriteNext PROVE MsgInv'
  <1> SUFFICES ASSUME ~oom PROVE MsgInv'
    BY DEF MsgInv, WriteNext
  <1>1. /\ OrderedIn(heap, FrontSet) /\ OrderedIn(heap, ListSet) /\ dropped \subseteq 1..nmsg
        /\ \A m \in Unwritten : \A n \in HeldIn(heap, FrontSet) : m < n
        /\ LevelsKept(disk, Waits, nmsg, level, dropped)
        /\ next_buffer # 0 => heap[next_buffer].msgs = <<>>
    BY DEF MsgInv
  <1>2. /\ heap' = heap /\ front' = front /\ pc = "write" /\ node' = heap[node].next /\ i' = 0
        /\ pc' = (IF node' = 0 THEN "flush" ELSE "write")
        /\ disk' = disk /\ nmsg' = nmsg /\ level' = level /\ dropped' = dropped
        /\ buffers_to_write' = buffers_to_write /\ i >= Len(heap[node].msgs)
    BY DEF WriteNext, files
  <1>3. FrontSet' = FrontSet /\ ListSet' = ListSet /\ next_buffer' = next_buffer
    BY <1>2 DEF FrontSet, First, front, ListSet, Writing
  <1>4. node \in ListSet /\ i \in Nat /\ heap[node].msgs \in Seq(Msgs)
    <2>1. node \in ListSet
      BY <1>2 DEF MsgInv
    <2> QED
      BY <2>1, SetsClosed, LogAssumption DEF RestOK, HeapOK, Cells
  <1>5. Unwritten = HeldIn(heap, ChainIn(heap, node'))
    <2>1. i + 1..Len(heap[node].msgs) = {}
      BY <1>2, <1>4
    <2>2. {heap[node].msgs[k] : k \in i + 1..Len(heap[node].msgs)} = {}
      BY <2>1
    <2> QED
      BY <2>2, <1>2, UnwrittenIs
  <1>6. pc' = "write" => node' \in ListSet
    BY <1>2, <1>4, SetsClosed DEF Closed
  <1>7. Unwritten' = Unwritten
    <2>1. CASE node' = 0
      <3>1. Unwritten' = {}
        BY <2>1, <1>2, UnwrittenNext
      <3>2. HeldIn(heap, {}) = {}
        BY DEF HeldIn
      <3> QED
        BY <2>1, <3>1, <3>2, <1>5, ChainNull
    <2>2. CASE node' # 0
      <3>1. node' \in Bufs /\ Nexts(heap) /\ heap[node'].msgs \in Seq(Msgs)
        BY <2>2, <1>2, <1>6, SetsClosed DEF HeapOK, Cells
      <3>2. Unwritten' = {heap[node'].msgs[k] : k \in 0 + 1..Len(heap[node'].msgs)}
                         \cup HeldIn(heap, ChainIn(heap, heap[node'].next))
        BY <2>2, <1>2, UnwrittenNext
      <3> QED
        BY <3>1, <3>2, <1>5, WriteBegins
    <2> QED
      BY <2>1, <2>2
  <1>8. Waits' = Waits
    BY <1>2, <1>3, <1>7 DEF Waits
  <1> QED
    BY <1>1, <1>2, <1>3, <1>6, <1>7, <1>8 DEF MsgInv

\* The written buffers become spare ones or are freed: nothing of them was left to write.
LEMMA RecycleMsg ==
    ASSUME TypeInv, BufferInv, MsgInv, Recycle PROVE MsgInv'
  <1> SUFFICES ASSUME ~oom PROVE MsgInv'
    BY DEF MsgInv, Recycle
  <1>1. LevelsKept(disk, Waits, nmsg, level, dropped) /\ dropped \subseteq 1..nmsg
    BY DEF MsgInv
  <1>2. /\ front' = front /\ pc = "flush" /\ pc' = "top" /\ disk' = disk /\ nmsg' = nmsg
        /\ level' = level /\ dropped' = dropped /\ Writing
    BY DEF Recycle, files, Writing
  <1>3. Taken \cap Bufs \subseteq ListSet /\ Rest \subseteq ListSet
    <2>1. ListInv
      BY DEF BufferInv
    <2>2. CASE new_buffer2 = 0
      BY <2>1, <2>2, <1>2, ListParts, BufsPositive DEF Taken, Rest
    <2>3. CASE new_buffer2 # 0
      BY <2>1, <2>3, <1>2, ListParts DEF Taken, Rest
    <2> QED
      BY <2>2, <2>3
  <1>4. \A c \in Bufs \ ListSet : /\ heap'[c].next = heap[c].next
                                  /\ heap'[c].live = heap[c].live
                                  /\ heap'[c].msgs = heap[c].msgs
    <2>1. \A c \in Bufs : heap[c].live \in BOOLEAN
      BY DEF TypeInv, TypeOK
    <2> QED
      BY <2>1, <1>3, RecycleHeap
  <1>5. Nexts(heap')
    BY RecycleHeap DEF HeapOK, Nexts, Cells
  <1>6. /\ FrontSet' = FrontSet /\ OrderedIn(heap', FrontSet')
        /\ HeldIn(heap', FrontSet') = HeldIn(heap, FrontSet)
        /\ next_buffer' # 0 => heap'[next_buffer'].msgs = <<>>
    BY <1>2, <1>4, <1>5, FrontUntouched
  <1>7. Unwritten = {} /\ Unwritten' = {}
    BY <1>2, UnwrittenIs, UnwrittenNext
  <1>8. Waits' = Waits
    BY <1>6, <1>7 DEF Waits
  <1>9. ListSet' = {}
    BY <1>2 DEF ListSet, Writing
  <1>10. OrderedIn(heap', ListSet')
    BY <1>9 DEF OrderedIn
  <1> QED
    BY <1>1, <1>2, <1>6, <1>7, <1>8, <1>10 DEF MsgInv

\* The steps that neither append nor write
LEMMA OtherMsg ==
    ASSUME TypeInv, MsgInv,
           \/ Loop \/ Wait \/ OpenFile \/ (\E l \in Levels : Flush(l)) \/ Exit \/ Join \/ Tick \/ UNCHANGED vars
    PROVE  MsgInv'
  <1> SUFFICES ASSUME ~oom' PROVE MsgInv'
    BY DEF MsgInv
  <1>1. Aside
    BY AsideSteps
  <1>2. /\ disk' = disk /\ nmsg' = nmsg /\ level' = level /\ dropped' = dropped
        /\ node' = node /\ i' = i
        /\ pc' = pc \/ {pc, pc'} \subseteq {"top", "lock", "wait", "end"}
    BY DEF Loop, Wait, OpenFile, Flush, Exit, Join, Tick, vars, files
  <1>3. FrontSet' = FrontSet /\ ListSet' = ListSet /\ next_buffer' = next_buffer /\ heap' = heap
    BY <1>1 DEF Aside, FrontSet, First, front, ListSet
  <1>4. Unwritten' = Unwritten
    <2>1. CASE pc' = pc
      BY <2>1, <1>1, <1>2 DEF Aside, Unwritten, Held, Chain
    <2>2. CASE {pc, pc'} \subseteq {"top", "lock", "wait", "end"}
      <3>1. pc \notin {"trim", "write"} /\ pc' \notin {"trim", "write"}
        BY <2>2
      <3> QED
        BY <3>1, UnwrittenIs, UnwrittenNext
    <2> QED
      BY <2>1, <2>2, <1>2
  <1>5. Waits' = Waits
    BY <1>3, <1>4 DEF Waits
  <1>6. pc' = "write" => pc = "write"
    BY <1>2
  <1>7. ~oom
    BY <1>1 DEF Aside
  <1> QED
    BY <1>2, <1>3, <1>4, <1>5, <1>6, <1>7 DEF MsgInv

\* Every step keeps the messages.
LEMMA NextMsg == TypeInv /\ BufferInv /\ MsgInv /\ [Next]_vars => MsgInv'
  <1> SUFFICES ASSUME TypeInv, BufferInv, MsgInv, [Next]_vars PROVE MsgInv'
    OBVIOUS
  <1>1. TypeInv'
    BY NextType
  <1>2. CASE AppendNoMemory
    BY <1>2 DEF AppendNoMemory, MsgInv
  <1>3. CASE \/ Loop \/ Wait \/ OpenFile \/ (\E l \in Levels : Flush(l)) \/ Exit \/ Join \/ Tick
             \/ UNCHANGED vars
    BY <1>3, OtherMsg
  <1> QED
    BY <1>1, <1>2, <1>3, Append1Msg, AppendFullMsg, SwapMsg, TrimMsg, WriteMessageMsg,
       WriteNextMsg, RecycleMsg DEF Next, Thread

\* No message is lost, written twice or written out of order, for any number of
\* messages, buffers and levels: while calloc succeeds, the front of append and the list
\* of worker_func are one queue, from which only Trim takes what is not written.
THEOREM NoneLostTheorem == Spec => []NoneLost
  <1>1. TypeInv /\ BufferInv /\ MsgInv => NoneLost
    <2> SUFFICES ASSUME TypeInv, BufferInv, MsgInv, ~oom PROVE NoneLost
      BY DEF NoneLost
    <2>1. /\ FrontInv /\ OrderedIn(heap, FrontSet) /\ OrderedIn(heap, ListSet)
          /\ \A m \in Unwritten : \A n \in HeldIn(heap, FrontSet) : m < n
          /\ LevelsKept(disk, Waits, nmsg, level, dropped)
      BY DEF BufferInv, MsgInv
    <2>2. Chain(buffers.head) \cup {curr_buffer} = FrontSet
      <3>1. CASE buffers.head = 0
        <4>1. FrontSet = {curr_buffer}
          BY <3>1, <2>1, SetsClosed, ChainOne DEF FrontInv, FrontSet, First, RestOK
        <4> QED
          BY <4>1, <3>1, ChainNull DEF Chain
      <3>2. CASE buffers.head # 0
        BY <3>2, <2>1 DEF FrontInv, FrontSet, First, Chain
      <3> QED
        BY <3>1, <3>2
    <2>3. Held(FrontSet) = HeldIn(heap, FrontSet)
      BY DEF Held, HeldIn
    <2>4. Ordered(FrontSet) /\ (Writing => Ordered(Chain(buffers_to_write.head)))
      BY <2>1 DEF Ordered, OrderedIn, Held, HeldIn, Chain, ListSet
    <2>5. ASSUME NEW l \in Levels
          PROVE  /\ \A k, n \in DOMAIN disk[l] : k < n => disk[l][k].id < disk[l][n].id
                 /\ \A k \in DOMAIN disk[l] : \A m \in Waits :
                       level[m] = l => disk[l][k].id < m
                 /\ {disk[l][k].id : k \in DOMAIN disk[l]} \cup {m \in Waits : level[m] = l}
                       = {m \in 1..nmsg : level[m] = l /\ m \notin dropped}
      <3>1. LevelComplete(disk, Waits, nmsg, level, dropped, l) /\ Waits \subseteq 1..nmsg
            /\ Waits \cap dropped = {}
        BY <2>1 DEF LevelsKept
      <3>2. \A m \in 1..nmsg : level[m] = l /\ m \notin dropped =>
               m \in Waits \/ \E k \in DOMAIN disk[l] : disk[l][k].id = m
        BY <3>1 DEF LevelComplete
      <3>3. \A k \in DOMAIN disk[l] :
               /\ disk[l][k].id \in 1..nmsg /\ level[disk[l][k].id] = l /\ disk[l][k].id \notin dropped
               /\ \A m \in Waits : level[m] = l => disk[l][k].id < m
        BY <3>1 DEF LevelComplete
      <3>4. \A k, n \in DOMAIN disk[l] : k < n => disk[l][k].id < disk[l][n].id
        BY <3>1 DEF LevelComplete
      <3>5. \A m : m \in {disk[l][k].id : k \in DOMAIN disk[l]} <=>
                    \E k \in DOMAIN disk[l] : disk[l][k].id = m
        OBVIOUS
      <3>6. \A m : m \in {disk[l][k].id : k \in DOMAIN disk[l]} \/ (m \in Waits /\ level[m] = l)
                    <=> m \in 1..nmsg /\ level[m] = l /\ m \notin dropped
        BY <3>1, <3>2, <3>3, <3>5
      <3>7. {disk[l][k].id : k \in DOMAIN disk[l]} \cup {m \in Waits : level[m] = l}
               = {m \in 1..nmsg : level[m] = l /\ m \notin dropped}
        BY <3>6
      <3> QED
        BY <3>3, <3>4, <3>7
    <2> QED
      BY <2>1, <2>2, <2>3, <2>4, <2>5 DEF NoneLost, Waits
  <1>2. Init => MsgInv
    BY InitMsg
  <1> QED
    BY <1>1, <1>2, NextMsg, LogInvariant, PTL DEF Spec

=============================================================================
