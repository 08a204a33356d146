-------------------------- MODULE ServiceQueueProofs --------------------------
(* Invariants of ServiceQueue for all workers, weights, sizes and bounds, and *)
(* its refinement of Mailbox.                                                 *)
EXTENDS ServiceQueue, FiniteSetTheorems, SequenceTheorems, TLAPS

\* Where thread record r is, or goes on once it has sent or released something.
At(r) == IF r.pc \in {"rel", "delete", "grab", "push"} THEN r.back ELSE r.pc

InCallback == {"call", "reg", "init", "inited", "launched", "failed"}
Launching == {"init", "inited", "launched", "failed"}

\* The fields that are set in the record r of thread t, by where it is.
Shape(t, r) ==
    LET a == At(r) IN
    /\ r.rel # 0 <=> r.pc \in {"rel", "delete"}
    /\ r.out # 0 <=> r.pc \in {"grab", "push"}
    /\ r.dst # 0 <=> r.pc \in {"grab", "push"}
    /\ r.pc \in {"grab", "push"} => a \in {"call", "inited", "drop", "idle"}
    /\ r.pc \in {"rel", "delete"} =>
          a \in {"call", "inited", "drop", "idle", "top", "next", "launched",
                 "failed", "mqrel"}
    /\ a = "idle" <=> t = Ext
    /\ t = Ext \/ a \in {"sleepy", "asleep", "next"} => r.queue = 0
    /\ a \in {"got", "pop0", "len", "pop", "swap", "pushback"} \cup InCallback => r.queue # 0
    /\ r.msg # 0 <=> \/ a \in {"len"} \cup InCallback
                     \/ a \in {"mqrel", "drop"} /\ r.queue # 0
    /\ r.nextq # 0 <=> a = "pushback"
    /\ r.new # 0 <=> a \in Launching
    /\ r.reg # 0 <=> a = "reg"
    /\ r.dropq # 0 <=> a \in {"mqrel", "drop"}
    /\ a = "pop" => r.left > 0
    /\ a = "len" => Weight[t] >= 0

Shapes == \A t \in Threads : Shape(t, th[t])

Rings == UNION {[0..c - 1 -> {0} \cup Messages] : c \in Nat \ {0}}

Queues == [state : {"none", "live", "freed"}, in_global : BOOLEAN, release : BOOLEAN,
           ring : Rings, cap : Nat \ {0}, head : Nat, tail : Nat]

\* head and tail are in the array.
Ring(q) ==
    /\ q.ring \in [0..q.cap - 1 -> {0} \cup Messages]
    /\ q.head < q.cap /\ q.tail < q.cap

\* Between head and tail there are messages.
Filled(q) == \A k \in 1..Length(q) : Contents(q)[k] \in Messages

Types ==
    /\ Size \in Nat \ {0} /\ slot \in [0..Size - 1 -> Handle0]
    /\ handle_index \in 1..MaxHandle + 1
    /\ ref \in [Handles -> Nat] /\ total \in Nat
    /\ mq \in [Handles -> Queues] /\ \A h \in Handles : Ring(mq[h]) /\ Filled(mq[h])
    /\ global \in Seq(Handles)
    /\ quit \in BOOLEAN
    /\ th \in [Threads -> Locals]
    /\ nmsg \in 0..MaxMsgs
    /\ source \in [Messages -> Handle0]
    /\ fate \in [Messages -> {"", "handled", "refused", "dropped"}]

\* The context h is in table s.
InTable(s, h) == \E i \in DOMAIN s : s[i] = h

\* The context h is in the table and its handle is stored.
Owned(h) == InSlot(h) /\ mq[h].state # "none"

\* A context that is registered and has no handle yet: it is in the table, has no
\* queue and belongs to one worker.
RegInv ==
    \A w \in Workers : th[w].reg # 0 =>
        /\ mq[th[w].reg].state = "none" /\ InSlot(th[w].reg)
        /\ th[w].reg < handle_index
        /\ \A v \in Workers : th[v].reg = th[w].reg => v = w

\* A context is in one slot, which need not be the one of its handle.
SlotInv ==
    /\ \A i \in 0..Size - 1 : slot[i] # 0 => slot[i] < handle_index
    /\ \A i, j \in 0..Size - 1 : slot[i] # 0 /\ slot[i] = slot[j] => i = j
    /\ RegInv

\* The life of a queue.
LifeInv ==
    /\ \A h \in Handles :
          /\ mq[h].state = "none" => mq[h] = NoQueue
          /\ h >= handle_index => mq[h].state = "none"
          /\ mq[h].state = "freed" => mq[h].release
    /\ \A w \in Workers : At(th[w]) = "drop" => mq[th[w].dropq].release

B(x) == IF x THEN 1 ELSE 0

RefInv ==
    \A h \in Handles :
        /\ ref[h] = Cardinality(Holders(h)) + B(Owned(h))
        /\ ref[h] > 0 => mq[h].state = "live" /\ ~mq[h].release

Deleting(t, h) == th[t].pc = "delete" /\ th[t].rel = h

DeleteInv ==
    /\ \A h \in Created : ref[h] = 0 => mq[h].release \/ \E t \in Threads : Deleting(t, h)
    /\ \A t \in Threads, h \in Handles : Deleting(t, h) =>
          /\ mq[h].state = "live" /\ ~mq[h].release /\ ref[h] = 0
          /\ \A u \in Threads : Deleting(u, h) => u = t

Contexts == {h \in Created : ~mq[h].release}

TotalInv == total = Cardinality(Contexts)

QueueInv ==
    /\ Types /\ Shapes /\ SlotInv /\ LifeInv /\ RefInv /\ DeleteInv /\ TotalInv
    /\ QueueInOnePlace

-----------------------------------------------------------------------------
(* Arithmetic *)

\* Division with remainder, as the provers know it.
LEMMA DivMod ==
    ASSUME NEW a \in Nat, NEW c \in Nat \ {0}
    PROVE  a % c \in 0..c - 1 /\ a \div c \in Nat /\ a = c * (a \div c) + (a % c)
OBVIOUS

\* The remainder of an index that has run past the end of an array once.
LEMMA ModSmall ==
    ASSUME NEW a \in Nat, NEW c \in Nat \ {0}, a < 2 * c
    PROVE  a % c = IF a < c THEN a ELSE a - c
OBVIOUS

-----------------------------------------------------------------------------
(* Counting references *)

HRel(r, h) == r.pc = "rel" /\ r.rel = h
HPush(r, h) == r.pc = "push" /\ r.dst = h
HQueue(t, r, h) ==
    /\ t \in Workers /\ r.queue = h /\ r.pc \notin {"top", "got", "exited"}
    /\ ~(r.pc \in {"rel", "delete"} /\ r.back = "top")
HNew(t, r, h) ==
    /\ t \in Workers /\ r.new = h /\ r.pc \notin {"launched", "failed"}
    /\ ~(r.pc \in {"rel", "delete"} /\ r.back \in {"launched", "failed"})

\* How many references to h the record r of thread t stands for.
Held(t, r, h) == B(HRel(r, h)) + B(HPush(r, h)) + B(HQueue(t, r, h)) + B(HNew(t, r, h))

HoldersOf(f, h) ==
    {p \in Threads \X {"rel", "push", "queue", "new"} :
        \/ p[2] = "rel" /\ HRel(f[p[1]], h)
        \/ p[2] = "push" /\ HPush(f[p[1]], h)
        \/ p[2] = "queue" /\ HQueue(p[1], f[p[1]], h)
        \/ p[2] = "new" /\ HNew(p[1], f[p[1]], h)}

\* The same set, thread by thread.
LEMMA HoldersIs == \A h : Holders(h) = HoldersOf(th, h) /\ Holders(h)' = HoldersOf(th', h)
BY DEF Holders, HoldersOf, HRel, HPush, HQueue, HNew, Threads

\* One more element, if b.
LEMMA AddIf ==
    ASSUME NEW S, IsFiniteSet(S), NEW x, x \notin S, NEW b \in BOOLEAN
    PROVE  LET T == S \cup {y \in {x} : b}
           IN  IsFiniteSet(T) /\ Cardinality(T) = Cardinality(S) + B(b)
<1>1. CASE b
  <2>1. S \cup {y \in {x} : b} = S \cup {x}
    BY <1>1
  <2> QED BY <1>1, <2>1, FS_AddElement DEF B
<1>2. CASE ~b
  <2>1. S \cup {y \in {x} : b} = S
    BY <1>2
  <2>2. Cardinality(S) \in Nat
    BY FS_CardinalityType
  <2> QED BY <1>2, <2>1, <2>2 DEF B
<1> QED BY <1>1, <1>2

\* What one thread holds.
LEMMA HeldCount ==
    ASSUME NEW f, NEW t \in Threads, NEW h
    PROVE  LET O == {p \in HoldersOf(f, h) : p[1] = t}
           IN  IsFiniteSet(O) /\ Cardinality(O) = Held(t, f[t], h)
<1> DEFINE O1 == {} \cup {y \in {<<t, "rel">>} : HRel(f[t], h)}
           O2 == O1 \cup {y \in {<<t, "push">>} : HPush(f[t], h)}
           O3 == O2 \cup {y \in {<<t, "queue">>} : HQueue(t, f[t], h)}
           O4 == O3 \cup {y \in {<<t, "new">>} : HNew(t, f[t], h)}
<1>0. /\ HRel(f[t], h) \in BOOLEAN /\ HPush(f[t], h) \in BOOLEAN
      /\ HQueue(t, f[t], h) \in BOOLEAN /\ HNew(t, f[t], h) \in BOOLEAN
  BY DEF HRel, HPush, HQueue, HNew
<1>1. IsFiniteSet(O1) /\ Cardinality(O1) = 0 + B(HRel(f[t], h))
  BY <1>0, AddIf, FS_EmptySet
<1>2. IsFiniteSet(O2) /\ Cardinality(O2) = Cardinality(O1) + B(HPush(f[t], h))
  <2>1. <<t, "push">> \notin O1
    OBVIOUS
  <2> HIDE DEF O1
  <2> QED BY <1>0, <1>1, <2>1, AddIf
<1>3. IsFiniteSet(O3) /\ Cardinality(O3) = Cardinality(O2) + B(HQueue(t, f[t], h))
  <2>1. <<t, "queue">> \notin O2
    OBVIOUS
  <2> HIDE DEF O2
  <2> QED BY <1>0, <1>2, <2>1, AddIf
<1>4. IsFiniteSet(O4) /\ Cardinality(O4) = Cardinality(O3) + B(HNew(t, f[t], h))
  <2>1. <<t, "new">> \notin O3
    OBVIOUS
  <2> HIDE DEF O3
  <2> QED BY <1>0, <1>3, <2>1, AddIf
<1>5. O4 = {p \in HoldersOf(f, h) : p[1] = t}
  <2> HIDE DEF HRel, HPush, HQueue, HNew
  <2> QED BY DEF HoldersOf
<1>6. Cardinality(O4) = Held(t, f[t], h)
  <2> HIDE DEF O1, O2, O3, O4
  <2> QED BY <1>1, <1>2, <1>3, <1>4 DEF Held, B
<1> HIDE DEF O4
<1> QED BY <1>4, <1>5, <1>6

\* The threads hold finitely many references.
LEMMA HoldersFinite == ASSUME NEW f, NEW h PROVE IsFiniteSet(HoldersOf(f, h))
<1>1. IsFiniteSet(Threads \X {"rel", "push", "queue", "new"})
  <2>1. IsFiniteSet(Threads)
    BY QueueAssumption, FS_AddElement DEF Threads
  <2>2. IsFiniteSet({"rel", "push"})
    <3>1. IsFiniteSet({"rel"} \cup {"push"})
      BY FS_Singleton, FS_AddElement
    <3> QED BY <3>1
  <2>3. IsFiniteSet({"rel", "push", "queue", "new"})
    <3>1. IsFiniteSet(({"rel", "push"} \cup {"queue"}) \cup {"new"})
      BY <2>2, FS_AddElement
    <3>2. ({"rel", "push"} \cup {"queue"}) \cup {"new"} = {"rel", "push", "queue", "new"}
      OBVIOUS
    <3> QED BY <3>1, <3>2
  <2> QED BY <2>1, <2>3, FS_Product
<1>2. HoldersOf(f, h) \subseteq Threads \X {"rel", "push", "queue", "new"}
  BY DEF HoldersOf
<1> QED BY <1>1, <1>2, FS_Subset

\* f and g are the records of the threads before and after a step of t.
Others(f, g, t) == t \in Threads /\ \A u \in Threads \ {t} : g[u] = f[u]

\* A step of one thread changes the count by what it comes to hold and gives up.
LEMMA HoldersCount ==
    ASSUME NEW f, NEW g, NEW t, NEW h, Others(f, g, t)
    PROVE  /\ Cardinality(HoldersOf(f, h)) \in Nat
           /\ Cardinality(HoldersOf(g, h)) \in Nat
           /\ Cardinality(HoldersOf(g, h)) - Held(t, g[t], h)
                = Cardinality(HoldersOf(f, h)) - Held(t, f[t], h)
<1> DEFINE Own(e) == {p \in HoldersOf(e, h) : p[1] = t}
           Rest(e) == {p \in HoldersOf(e, h) : p[1] # t}
<1>0. t \in Threads /\ \A u \in Threads \ {t} : g[u] = f[u]
  BY DEF Others
<1>2. ASSUME NEW e
      PROVE  /\ IsFiniteSet(Rest(e)) /\ Cardinality(Rest(e)) \in Nat
             /\ Cardinality(HoldersOf(e, h)) = Cardinality(Rest(e)) + Held(t, e[t], h)
  <2>2. IsFiniteSet(HoldersOf(e, h))
    BY HoldersFinite
  <2>3. IsFiniteSet(Rest(e)) /\ Cardinality(Rest(e)) \in Nat
    BY <2>2, FS_Subset, FS_CardinalityType
  <2>4. IsFiniteSet(Own(e)) /\ Cardinality(Own(e)) = Held(t, e[t], h)
    BY <1>0, HeldCount
  <2>5. HoldersOf(e, h) = Rest(e) \cup Own(e) /\ Rest(e) \cap Own(e) = {}
    OBVIOUS
  <2>6. Cardinality(Rest(e) \cup Own(e)) = Cardinality(Rest(e)) + Cardinality(Own(e)) - 0
    <3> HIDE DEF Rest, Own
    <3> QED BY <2>3, <2>4, <2>5, FS_Union, FS_EmptySet
  <2>7. Held(t, e[t], h) \in Nat
    BY DEF Held, B
  <2> HIDE DEF Rest, Own
  <2> QED BY <2>3, <2>4, <2>5, <2>6, <2>7
<1>3. Rest(f) = Rest(g)
  BY <1>0 DEF HoldersOf
<1>4. Held(t, f[t], h) \in Nat /\ Held(t, g[t], h) \in Nat
  BY DEF Held, B
<1> HIDE DEF Rest
<1> QED BY <1>2, <1>3, <1>4

-----------------------------------------------------------------------------
(* Counting places *)

PlacesOf(f, h) ==
    Cardinality({w \in Workers : f[w].queue = h})
    + Cardinality({w \in Workers : f[w].nextq = h})
    + Cardinality({w \in Workers : f[w].new = h})
    + Cardinality({w \in Workers : f[w].dropq = h})

\* How often the record r of a worker has queue h.
Has(r, h) == B(r.queue = h) + B(r.nextq = h) + B(r.new = h) + B(r.dropq = h)

\* How often sequence s has queue h.
InSeq(s, h) == Cardinality({i \in DOMAIN s : s[i] = h})

\* The number of workers with some value, after a change of one of them.
LEMMA CountWorkers ==
    ASSUME NEW S, IsFiniteSet(S), NEW P \in SUBSET S, NEW Q \in SUBSET S, NEW w \in S,
           \A u \in S \ {w} : u \in P <=> u \in Q
    PROVE  /\ Cardinality(P) \in Nat /\ Cardinality(Q) \in Nat
           /\ Cardinality(Q) - B(w \in Q) = Cardinality(P) - B(w \in P)
<1>1. /\ IsFiniteSet(P) /\ IsFiniteSet(Q)
      /\ Cardinality(P) \in Nat /\ Cardinality(Q) \in Nat
  BY FS_Subset, FS_CardinalityType
<1>2. P \ {w} = Q \ {w}
  OBVIOUS
<1>3. Cardinality(P \ {w}) = Cardinality(P) - B(w \in P)
  <2>1. Cardinality(P \ {w}) = IF w \in P THEN Cardinality(P) - 1 ELSE Cardinality(P)
    BY <1>1, FS_RemoveElement
  <2> QED BY <1>1, <2>1 DEF B
<1>4. Cardinality(Q \ {w}) = Cardinality(Q) - B(w \in Q)
  <2>1. Cardinality(Q \ {w}) = IF w \in Q THEN Cardinality(Q) - 1 ELSE Cardinality(Q)
    BY <1>1, FS_RemoveElement
  <2> QED BY <1>1, <2>1 DEF B
<1> QED BY <1>1, <1>2, <1>3, <1>4

\* A step of one worker changes the number of places by what it takes and gives.
LEMMA PlacesCount ==
    ASSUME NEW f, NEW g, NEW w \in Workers, NEW h, Others(f, g, w)
    PROVE  /\ PlacesOf(f, h) \in Nat /\ PlacesOf(g, h) \in Nat
           /\ PlacesOf(g, h) - Has(g[w], h) = PlacesOf(f, h) - Has(f[w], h)
<1> DEFINE Q(e) == {u \in Workers : e[u].queue = h}
           X(e) == {u \in Workers : e[u].nextq = h}
           N(e) == {u \in Workers : e[u].new = h}
           D(e) == {u \in Workers : e[u].dropq = h}
<1>0. IsFiniteSet(Workers)
  BY QueueAssumption
<1> \A u \in Workers \ {w} : g[u] = f[u]
  BY DEF Others, Threads
<1>1. /\ Cardinality(Q(f)) \in Nat /\ Cardinality(Q(g)) \in Nat
      /\ Cardinality(Q(g)) - B(w \in Q(g)) = Cardinality(Q(f)) - B(w \in Q(f))
  <2>1. /\ Q(f) \in SUBSET Workers /\ Q(g) \in SUBSET Workers
        /\ \A u \in Workers \ {w} : u \in Q(f) <=> u \in Q(g)
    OBVIOUS
  <2> HIDE DEF Q
  <2> QED BY <1>0, <2>1, CountWorkers
<1>2. /\ Cardinality(X(f)) \in Nat /\ Cardinality(X(g)) \in Nat
      /\ Cardinality(X(g)) - B(w \in X(g)) = Cardinality(X(f)) - B(w \in X(f))
  <2>1. /\ X(f) \in SUBSET Workers /\ X(g) \in SUBSET Workers
        /\ \A u \in Workers \ {w} : u \in X(f) <=> u \in X(g)
    OBVIOUS
  <2> HIDE DEF X
  <2> QED BY <1>0, <2>1, CountWorkers
<1>3. /\ Cardinality(N(f)) \in Nat /\ Cardinality(N(g)) \in Nat
      /\ Cardinality(N(g)) - B(w \in N(g)) = Cardinality(N(f)) - B(w \in N(f))
  <2>1. /\ N(f) \in SUBSET Workers /\ N(g) \in SUBSET Workers
        /\ \A u \in Workers \ {w} : u \in N(f) <=> u \in N(g)
    OBVIOUS
  <2> HIDE DEF N
  <2> QED BY <1>0, <2>1, CountWorkers
<1>4. /\ Cardinality(D(f)) \in Nat /\ Cardinality(D(g)) \in Nat
      /\ Cardinality(D(g)) - B(w \in D(g)) = Cardinality(D(f)) - B(w \in D(f))
  <2>1. /\ D(f) \in SUBSET Workers /\ D(g) \in SUBSET Workers
        /\ \A u \in Workers \ {w} : u \in D(f) <=> u \in D(g)
    OBVIOUS
  <2> HIDE DEF D
  <2> QED BY <1>0, <2>1, CountWorkers
<1>5. \A e : Has(e[w], h) = B(w \in Q(e)) + B(w \in X(e)) + B(w \in N(e)) + B(w \in D(e))
  BY DEF Has
<1>6. \A e : PlacesOf(e, h) =
        Cardinality(Q(e)) + Cardinality(X(e)) + Cardinality(N(e)) + Cardinality(D(e))
  BY DEF PlacesOf
<1>7. \A b : B(b) \in Nat
  BY DEF B
<1> HIDE DEF Q, X, N, D
<1> QED BY <1>1, <1>2, <1>3, <1>4, <1>5, <1>6, <1>7

\* A worker that has a queue is one of its places.
LEMMA HasPlace ==
    ASSUME NEW f, NEW w \in Workers, NEW h
    PROVE  PlacesOf(f, h) \in Nat /\ Has(f[w], h) \in Nat /\ PlacesOf(f, h) >= Has(f[w], h)
<1> DEFINE C(S) == Cardinality(S)
<1>1. IsFiniteSet(Workers)
  BY QueueAssumption
<1>2. ASSUME NEW S \in SUBSET Workers
      PROVE  Cardinality(S) \in Nat /\ Cardinality(S) >= B(w \in S)
  <2>1. IsFiniteSet(S) /\ Cardinality(S) \in Nat
    BY <1>1, FS_Subset, FS_CardinalityType
  <2>2. w \in S => Cardinality(S) # 0
    BY <2>1, FS_EmptySet
  <2> QED BY <2>1, <2>2 DEF B
<1>3. \A S \in SUBSET Workers : Cardinality(S) \in Nat /\ Cardinality(S) >= B(w \in S)
  BY <1>2
<1>4. /\ Cardinality({u \in Workers : f[u].queue = h}) \in Nat
      /\ Cardinality({u \in Workers : f[u].queue = h}) >= B(f[w].queue = h)
  BY <1>3 DEF B
<1>5. /\ Cardinality({u \in Workers : f[u].nextq = h}) \in Nat
      /\ Cardinality({u \in Workers : f[u].nextq = h}) >= B(f[w].nextq = h)
  BY <1>3 DEF B
<1>6. /\ Cardinality({u \in Workers : f[u].new = h}) \in Nat
      /\ Cardinality({u \in Workers : f[u].new = h}) >= B(f[w].new = h)
  BY <1>3 DEF B
<1>7. /\ Cardinality({u \in Workers : f[u].dropq = h}) \in Nat
      /\ Cardinality({u \in Workers : f[u].dropq = h}) >= B(f[w].dropq = h)
  BY <1>3 DEF B
<1> QED BY <1>4, <1>5, <1>6, <1>7 DEF PlacesOf, Has, B

\* A queue of which there is no place is in no worker's hands.
LEMMA NoPlace ==
    ASSUME NEW f, NEW h, PlacesOf(f, h) = 0, NEW w \in Workers
    PROVE  f[w].queue # h /\ f[w].nextq # h /\ f[w].new # h /\ f[w].dropq # h
BY HasPlace DEF Has, B

\* skynet_globalmq_push adds one place.
LEMMA InSeqAppend ==
    ASSUME NEW s \in Seq(Handles), NEW e \in Handles, NEW h
    PROVE  /\ InSeq(s, h) \in Nat
           /\ InSeq(Append(s, e), h) = InSeq(s, h) + B(e = h)
<1> DEFINE I == {i \in DOMAIN s : s[i] = h}
           J == {i \in DOMAIN Append(s, e) : Append(s, e)[i] = h}
<1>1. DOMAIN s = 1..Len(s) /\ Len(s) \in Nat
  OBVIOUS
<1>2. IsFiniteSet(I) /\ Cardinality(I) \in Nat
  <2>1. IsFiniteSet(1..Len(s)) /\ I \in SUBSET (1..Len(s))
    BY <1>1, FS_Interval
  <2> QED BY <2>1, FS_Subset, FS_CardinalityType
<1>3. /\ DOMAIN Append(s, e) = 1..Len(s) + 1
      /\ \A i \in 1..Len(s) : Append(s, e)[i] = s[i]
      /\ Append(s, e)[Len(s) + 1] = e
  BY <1>1
<1>4. J = I \cup {y \in {Len(s) + 1} : e = h}
  <2>1. \A i : i \in 1..Len(s) + 1 <=> i \in 1..Len(s) \/ i = Len(s) + 1
    BY <1>1
  <2> QED BY <1>1, <1>3, <2>1
<1>5. Len(s) + 1 \notin I
  BY <1>1
<1>6. Cardinality(J) = Cardinality(I) + B(e = h)
  <2> HIDE DEF I, J
  <2>1. (e = h) \in BOOLEAN
    OBVIOUS
  <2> QED BY <1>2, <1>4, <1>5, <2>1, AddIf
<1> QED BY <1>2, <1>6 DEF InSeq

\* skynet_globalmq_pop removes one.
LEMMA InSeqTail ==
    ASSUME NEW s \in Seq(Handles), s # <<>>, NEW h
    PROVE  /\ InSeq(s, h) \in Nat /\ InSeq(Tail(s), h) \in Nat
           /\ InSeq(s, h) = InSeq(Tail(s), h) + B(Head(s) = h)
<1> DEFINE I == {i \in DOMAIN s : s[i] = h}
           K == {i \in DOMAIN s : s[i] = h /\ i # 1}
           J == {i \in DOMAIN Tail(s) : Tail(s)[i] = h}
           f == [j \in J |-> j + 1]
<1>1. DOMAIN s = 1..Len(s) /\ Len(s) \in Nat \ {0} /\ Head(s) = s[1]
  OBVIOUS
<1>2. /\ DOMAIN Tail(s) = 1..Len(s) - 1
      /\ \A i \in 1..Len(s) - 1 : Tail(s)[i] = s[i + 1]
  BY <1>1, HeadTailProperties, LenProperties
<1>3. IsFiniteSet(J) /\ IsFiniteSet(K)
  <2>1. IsFiniteSet(1..Len(s)) /\ J \in SUBSET (1..Len(s)) /\ K \in SUBSET (1..Len(s))
    BY <1>1, <1>2, FS_Interval
  <2> QED BY <2>1, FS_Subset
<1>4. ExistsBijection(J, K)
  <2>1. f \in [J -> K]
    BY <1>1, <1>2
  <2>2. \A a, b \in J : f[a] = f[b] => a = b
    BY <1>1, <1>2
  <2>3. \A k \in K : \E j \in J : f[j] = k
    <3> TAKE k \in K
    <3>1. k - 1 \in J
      BY <1>1, <1>2
    <3>2. f[k - 1] = k
      BY <1>1, <3>1
    <3> QED BY <3>1, <3>2
  <2> HIDE DEF f, J, K
  <2>4. f \in Bijection(J, K)
    BY <2>1, <2>2, <2>3 DEF Bijection, Injection, Surjection, IsInjective
  <2> QED BY <2>4 DEF ExistsBijection
<1>5. Cardinality(K) = Cardinality(J)
  <2> HIDE DEF J, K
  <2> QED BY <1>3, <1>4, FS_Bijection
<1>6. I = K \cup {y \in {1} : Head(s) = h} /\ 1 \notin K
  BY <1>1
<1>7. IsFiniteSet(I) /\ Cardinality(I) = Cardinality(K) + B(Head(s) = h)
  <2> HIDE DEF I, K
  <2>1. (Head(s) = h) \in BOOLEAN
    OBVIOUS
  <2> QED BY <1>3, <1>6, <2>1, AddIf
<1>8. Cardinality(J) \in Nat /\ Cardinality(I) \in Nat
  BY <1>3, <1>7, FS_CardinalityType
<1> HIDE DEF K
<1> QED BY <1>5, <1>7, <1>8 DEF InSeq

\* The number of times a sequence has a queue.
LEMMA InSeqNat == ASSUME NEW s \in Seq(Handles), NEW h PROVE InSeq(s, h) \in Nat
<1> DEFINE I == {i \in DOMAIN s : s[i] = h}
<1>1. IsFiniteSet(1..Len(s)) /\ I \in SUBSET (1..Len(s))
  BY FS_Interval
<1>2. Cardinality(I) \in Nat
  BY <1>1, FS_Subset, FS_CardinalityType
<1> QED BY <1>2, Zenon DEF InSeq

\* The same sum, the global queue apart.
LEMMA PlacesIs ==
    ASSUME global \in Seq(Handles), NEW h
    PROVE  /\ Places(h) = InSeq(global, h) + PlacesOf(th, h)
           /\ InSeq(global, h) \in Nat /\ PlacesOf(th, h) \in Nat
<1>1. /\ Cardinality({w \in Workers : th[w].queue = h}) \in Nat
      /\ Cardinality({w \in Workers : th[w].nextq = h}) \in Nat
      /\ Cardinality({w \in Workers : th[w].new = h}) \in Nat
      /\ Cardinality({w \in Workers : th[w].dropq = h}) \in Nat
  BY QueueAssumption, FS_Subset, FS_CardinalityType
<1>2. InSeq(global, h) \in Nat
  BY InSeqNat
<1> QED BY <1>1, <1>2 DEF Places, InSeq, PlacesOf

-----------------------------------------------------------------------------
(* The slots of the handles *)

\* A table of n slots in which every context has one slot.
Table(s, n) ==
    /\ n \in Nat \ {0} /\ s \in [0..n - 1 -> Handle0]
    /\ \A i, j \in 0..n - 1 : s[i] # 0 /\ s[i] = s[j] => i = j

\* The number of slots.
LEMMA TableSize == ASSUME NEW s, NEW n, Table(s, n) PROVE Cardinality(DOMAIN s) = n
<1>1. n \in Nat \ {0} /\ DOMAIN s = 0..n - 1
  BY DEF Table
<1>2. Cardinality(0..n - 1) = n
  BY <1>1, FS_Interval
<1> QED BY <1>1, <1>2

\* The doubling of the slots in skynet_handle_register, if its assertion holds, loses
\* no context and puts each where the handle that is stored says.
LEMMA GrownTable ==
    ASSUME NEW s, NEW n, Table(s, n), GrownAsserted(s)
    PROVE  /\ Table(Grown(s), 2 * n)
           /\ \A h \in Handles :
                (\E i \in 0..2 * n - 1 : Grown(s)[i] = h) <=> \E j \in 0..n - 1 : s[j] = h
           /\ \A j \in 0..n - 1 : s[j] # 0 => Grown(s)[Stored(s[j]) % (2 * n)] = s[j]
<1>0. 0 \in Handle0 /\ 0 \notin Handles /\ Handle0 \subseteq Nat
  BY QueueAssumption DEF Handles, Handle0
<1>1. n \in Nat \ {0} /\ s \in [0..n - 1 -> Handle0] /\ DOMAIN s = 0..n - 1
  BY DEF Table
<1>2. PICK m \in Nat \ {0} : m = 2 * n
  BY <1>1
<1>m. m = 2 * Cardinality(DOMAIN s)
  BY <1>2, TableSize
<1> DEFINE At0(i, j) == s[j] # 0 /\ Stored(s[j]) % m = i
<1>3. Grown(s) = [i \in 0..m - 1 |->
            IF \E j \in DOMAIN s : At0(i, j) THEN s[CHOOSE j \in DOMAIN s : At0(i, j)] ELSE 0]
  BY <1>m, Zenon DEF Grown
<1>a. \A i, j \in DOMAIN s : i # j /\ s[i] # 0 /\ s[j] # 0 => Stored(s[i]) % m # Stored(s[j]) % m
  BY <1>m DEF GrownAsserted
<1>h. ASSUME NEW j \in 0..n - 1, s[j] # 0 PROVE Stored(s[j]) % m \in 0..m - 1
  <2>1. s[j] \in Nat
    BY <1>0, <1>1
  <2>2. Stored(s[j]) \in Nat
    BY <2>1 DEF Stored
  <2> QED BY <2>2, DivMod
<1>5. ASSUME NEW j \in 0..n - 1, s[j] # 0
      PROVE  Grown(s)[Stored(s[j]) % m] = s[j]
  <2>i. PICK i \in 0..m - 1 : i = Stored(s[j]) % m
    BY <1>5, <1>h
  <2>1. \E k \in DOMAIN s : At0(i, k)
    BY <1>1, <1>5, <2>i
  <2> DEFINE c == CHOOSE k \in DOMAIN s : At0(i, k)
  <2>2. Grown(s)[i] = s[c]
    <3> HIDE DEF At0
    <3> QED BY <1>3, <2>1
  <2>3. c \in DOMAIN s /\ At0(i, c)
    <3> HIDE DEF At0
    <3> QED BY <2>1
  <2> HIDE DEF c
  <2>4. c = j
    BY <1>1, <1>5, <1>a, <2>3, <2>i
  <2> QED BY <2>2, <2>4, <2>i
<1>6. ASSUME NEW i \in 0..m - 1, Grown(s)[i] # 0
      PROVE  \E j \in 0..n - 1 : s[j] # 0 /\ Stored(s[j]) % m = i /\ Grown(s)[i] = s[j]
  <2>1. \E j \in DOMAIN s : At0(i, j)
    <3> HIDE DEF At0
    <3> QED BY <1>3, <1>6
  <2>2. PICK j \in 0..n - 1 : At0(i, j)
    BY <1>1, <2>1
  <2> QED BY <1>5, <2>2
<1> HIDE DEF At0
<1>7. Table(Grown(s), m)
  <2>1. \A i \in 0..m - 1 : Grown(s)[i] \in Handle0
    BY <1>0, <1>1, <1>6
  <2>2. Grown(s) \in [0..m - 1 -> Handle0]
    BY <1>3, <2>1
  <2>3. ASSUME NEW i \in 0..m - 1, NEW k \in 0..m - 1, Grown(s)[i] # 0, Grown(s)[i] = Grown(s)[k]
        PROVE  i = k
    <3>1. PICK j \in 0..n - 1 : s[j] # 0 /\ Stored(s[j]) % m = i /\ Grown(s)[i] = s[j]
      BY <1>6, <2>3
    <3>2. PICK l \in 0..n - 1 : s[l] # 0 /\ Stored(s[l]) % m = k /\ Grown(s)[k] = s[l]
      BY <1>6, <2>3
    <3> QED BY <2>3, <3>1, <3>2
  <2> QED BY <2>2, <2>3 DEF Table
<1>8. ASSUME NEW h \in Handles
      PROVE  (\E i \in 0..m - 1 : Grown(s)[i] = h) <=> \E j \in 0..n - 1 : s[j] = h
  <2>1. ASSUME NEW i \in 0..m - 1, Grown(s)[i] = h PROVE \E j \in 0..n - 1 : s[j] = h
    BY <1>0, <1>6, <2>1
  <2>2. ASSUME NEW j \in 0..n - 1, s[j] = h PROVE \E i \in 0..m - 1 : Grown(s)[i] = h
    BY <1>0, <1>5, <1>h, <2>2
  <2> QED BY <2>1, <2>2
<1> QED BY <1>2, <1>5, <1>7, <1>8

\* skynet_handle_register takes a free slot, if need be in a doubled table.
LEMMA RegisterTable ==
    ASSUME Table(slot, Size), handle_index \in Nat \ {0},
           Free(slot) = {} => GrownAsserted(slot), NEW e \in Free(SlotsFor)
    PROVE  \E n \in Nat \ {0} :
             /\ Table(SlotsFor, n) /\ Cardinality(DOMAIN SlotsFor) = n
             /\ e \in Nat /\ e >= handle_index /\ SlotsFor[e % n] = 0
             /\ \A h \in Handles : (\E i \in 0..n - 1 : SlotsFor[i] = h) <=> InSlot(h)
             /\ \A h \in Handles : Registered(h) => SlotsFor[h % n] = h
<1>0. Size \in Nat \ {0} /\ DOMAIN slot = 0..Size - 1
  BY DEF Table
<1>h. Handles \subseteq Nat \ {0}
  BY DEF Handles
<1>1. ASSUME NEW n \in Nat \ {0}, Table(SlotsFor, n)
      PROVE  /\ Cardinality(DOMAIN SlotsFor) = n
             /\ e \in Nat /\ e >= handle_index /\ SlotsFor[e % n] = 0
  <2>1. Cardinality(DOMAIN SlotsFor) = n
    BY <1>1, TableSize
  <2>2. e \in {h \in handle_index..handle_index + n - 1 : SlotsFor[h % n] = 0}
    BY <2>1, Zenon DEF Free
  <2> QED BY <2>1, <2>2
<1>2. CASE Free(slot) # {}
  <2>1. SlotsFor = slot
    BY <1>2 DEF SlotsFor
  <2> QED BY <1>0, <1>1, <2>1 DEF Registered, InSlot
<1>3. CASE Free(slot) = {}
  <2> DEFINE G == Grown(slot)
  <2>0. PICK m \in Nat \ {0} : m = 2 * Size
    BY <1>0
  <2>1. SlotsFor = G
    BY <1>3 DEF SlotsFor
  <2>2. /\ Table(G, m)
        /\ \A h \in Handles : (\E i \in 0..m - 1 : G[i] = h) <=> \E j \in 0..Size - 1 : slot[j] = h
        /\ \A j \in 0..Size - 1 : slot[j] # 0 => G[Stored(slot[j]) % m] = slot[j]
    BY <1>3, <2>0, GrownTable
  <2> HIDE DEF G
  <2>3. \A h \in Handles : (\E i \in 0..m - 1 : G[i] = h) <=> InSlot(h)
    BY <1>0, <2>2 DEF InSlot
  <2>4. ASSUME NEW h \in Handles, Registered(h) PROVE G[h % m] = h
    <3>1. h % Size \in 0..Size - 1 /\ h # 0
      BY <1>0, <1>h, DivMod
    <3>2. slot[h % Size] = h /\ Stored(h) = h
      BY <2>4 DEF Registered
    <3> QED BY <2>2, <3>1, <3>2
  <2> QED BY <1>1, <2>1, <2>2, <2>3, <2>4
<1> QED BY <1>2, <1>3

-----------------------------------------------------------------------------
(* The array of a queue *)

\* The way from a to b around a ring of c places.
Dist(a, b, c) == IF a <= b THEN b - a ELSE b + c - a

\* How the way changes when head or tail moves on by one.
LEMMA DistArith ==
    ASSUME NEW c \in Nat \ {0}, NEW a \in Nat, NEW b \in Nat, a < c, b < c
    PROVE  /\ \A i \in Nat : (a + i) % c \in 0..c - 1
           /\ (a + 1) % c = IF a + 1 < c THEN a + 1 ELSE a + 1 - c
           /\ (b + 1) % c = IF b + 1 < c THEN b + 1 ELSE b + 1 - c
           /\ Dist(a, b, c) > 0 => Dist((a + 1) % c, b, c) = Dist(a, b, c) - 1
           /\ (b + 1) % c # a => Dist(a, (b + 1) % c, c) = Dist(a, b, c) + 1
           /\ (b + 1) % c = a => Dist(a, b, c) = c - 1
           /\ (a + Dist(a, b, c)) % c = b
<1>1. \A i \in Nat : (a + i) % c \in 0..c - 1
  <2> TAKE i \in Nat
  <2>1. PICK j \in Nat : j = a + i
    OBVIOUS
  <2>2. j % c \in 0..c - 1
    BY DivMod
  <2> QED BY <2>1, <2>2
<1>2. ASSUME NEW x \in Nat, x < c
      PROVE  (x + 1) % c = IF x + 1 < c THEN x + 1 ELSE x + 1 - c
  <2>1. PICK y \in Nat : y = x + 1
    OBVIOUS
  <2>2. y < 2 * c
    BY <1>2, <2>1
  <2>3. y % c = IF y < c THEN y ELSE y - c
    BY <2>2, ModSmall
  <2> QED BY <2>1, <2>3
<1>3. PICK m \in Nat : m = (a + 1) % c /\ m = IF a + 1 < c THEN a + 1 ELSE a + 1 - c
  BY <1>1, <1>2
<1>4. PICK n \in Nat : n = (b + 1) % c /\ n = IF b + 1 < c THEN b + 1 ELSE b + 1 - c
  BY <1>2
<1>5. PICK d \in Nat : d = Dist(a, b, c)
  <2>1. Dist(a, b, c) \in Nat
    BY DEF Dist
  <2> QED BY <2>1
<1>6. (a + d) % c = b
  <2>1. PICK e \in Nat : e = a + d
    OBVIOUS
  <2>2. e < 2 * c /\ b = IF e < c THEN e ELSE e - c
    BY <1>5, <2>1 DEF Dist
  <2>3. e % c = IF e < c THEN e ELSE e - c
    BY <2>2, ModSmall
  <2> QED BY <2>1, <2>2, <2>3
<1>7. /\ Dist(a, b, c) > 0 => Dist(m, b, c) = Dist(a, b, c) - 1
      /\ n # a => Dist(a, n, c) = Dist(a, b, c) + 1
      /\ n = a => Dist(a, b, c) = c - 1
  <2>1. /\ m = IF a + 1 < c THEN a + 1 ELSE a + 1 - c
        /\ n = IF b + 1 < c THEN b + 1 ELSE b + 1 - c
    BY <1>3, <1>4
  <2> QED BY <2>1 DEF Dist
<1> QED BY <1>1, <1>2, <1>3, <1>4, <1>5, <1>6, <1>7

\* skynet_mq_length counts the messages and is less than the size of the array.
LEMMA LengthNat ==
    ASSUME NEW q \in Queues, Ring(q)
    PROVE  /\ Length(q) \in Nat /\ Length(q) < q.cap
           /\ Contents(q) \in Seq({0} \cup Messages) /\ Len(Contents(q)) = Length(q)
           /\ \A k \in 1..Length(q) : (q.head + k - 1) % q.cap \in 0..q.cap - 1
<1>1. /\ q.cap \in Nat \ {0} /\ q.head \in Nat /\ q.tail \in Nat
      /\ q.head < q.cap /\ q.tail < q.cap
      /\ q.ring \in [0..q.cap - 1 -> {0} \cup Messages]
  BY DEF Queues, Ring
<1>2. Length(q) \in Nat /\ Length(q) < q.cap
  BY <1>1 DEF Length
<1>3. \A k \in 1..Length(q) : (q.head + k - 1) % q.cap \in 0..q.cap - 1
  <2> TAKE k \in 1..Length(q)
  <2>1. q.head + k - 1 \in Nat
    BY <1>1, <1>2
  <2> QED BY <1>1, <2>1, DivMod
<1>4. \A k \in 1..Length(q) : q.ring[(q.head + k - 1) % q.cap] \in {0} \cup Messages
  BY <1>1, <1>3
<1>5. Contents(q) \in [1..Length(q) -> {0} \cup Messages]
  BY <1>4 DEF Contents
<1> QED BY <1>2, <1>3, <1>5

\* skynet_mq_pop takes the first message.
LEMMA PoppedRing ==
    ASSUME NEW q \in Queues, Ring(q), Length(q) > 0
    PROVE  /\ Popped(q) \in Queues /\ Ring(Popped(q))
           /\ q.ring[q.head] = Contents(q)[1]
           /\ Length(Popped(q)) = Length(q) - 1
           /\ Contents(Popped(q)) = Tail(Contents(q))
           /\ Popped(q).state = q.state /\ Popped(q).release = q.release
           /\ Popped(q).in_global = q.in_global
<1> DEFINE p == Popped(q)
<1>1. /\ q.cap \in Nat \ {0} /\ q.head \in Nat /\ q.tail \in Nat
      /\ q.head < q.cap /\ q.tail < q.cap
      /\ q.ring \in [0..q.cap - 1 -> {0} \cup Messages] /\ q.ring \in Rings
  BY DEF Queues, Ring
<1>2. Length(q) \in Nat /\ Length(q) < q.cap
  BY LengthNat
<1>3. (q.head + 1) % q.cap = IF q.head + 1 < q.cap THEN q.head + 1 ELSE q.head + 1 - q.cap
  BY <1>1, DistArith
<1>4. /\ p.cap = q.cap /\ p.tail = q.tail /\ p.head = (q.head + 1) % q.cap
      /\ p.ring = [q.ring EXCEPT ![q.head] = 0]
      /\ p.state = q.state /\ p.release = q.release /\ p.in_global = q.in_global
  BY DEF Popped, Queues
<1>5. p.head \in Nat /\ p.head < q.cap
  BY <1>1, <1>3, <1>4
<1>6. p.ring \in [0..q.cap - 1 -> {0} \cup Messages] /\ p.ring \in Rings
  <2>1. p.ring \in [0..q.cap - 1 -> {0} \cup Messages]
    BY <1>1, <1>4
  <2> QED BY <1>1, <2>1 DEF Rings
<1>7. p \in Queues /\ Ring(p)
  <2>1. p = [q EXCEPT !.ring = p.ring, !.head = p.head]
    BY <1>4, Zenon DEF Popped
  <2> HIDE DEF p
  <2> QED BY <1>1, <1>4, <1>5, <1>6, <2>1 DEF Queues, Ring
<1>8. Length(p) = Length(q) - 1
  <2>1. /\ Length(q) = Dist(q.head, q.tail, q.cap)
        /\ Length(p) = Dist((q.head + 1) % q.cap, q.tail, q.cap)
    BY <1>4 DEF Length, Dist
  <2>2. Length(q) > 0
    OBVIOUS
  <2>3. Dist(q.head, q.tail, q.cap) > 0 =>
           Dist((q.head + 1) % q.cap, q.tail, q.cap) = Dist(q.head, q.tail, q.cap) - 1
    BY <1>1, DistArith, Zenon
  <2> HIDE DEF p
  <2> QED BY <2>1, <2>2, <2>3
<1>9. q.ring[q.head] = Contents(q)[1]
  <2>1. (q.head + 1 - 1) % q.cap = q.head
    <3>1. q.head + 1 - 1 = q.head /\ q.head < 2 * q.cap
      BY <1>1
    <3>2. q.head % q.cap = q.head
      BY <1>1, <3>1, ModSmall
    <3> QED BY <3>1, <3>2
  <2> QED BY <1>2, <2>1 DEF Contents
<1>10. ASSUME NEW k \in 1..Length(q) - 1
       PROVE  Contents(p)[k] = Contents(q)[k + 1]
  <2>1. (p.head + k - 1) % q.cap = (q.head + (k + 1) - 1) % q.cap
    <3> DEFINE a == p.head + k - 1
               b == q.head + (k + 1) - 1
    <3>1. a \in Nat /\ b \in Nat /\ b < 2 * q.cap /\ a < 2 * q.cap
      BY <1>1, <1>2, <1>5
    <3>2. a = b \/ (a = b - q.cap /\ b >= q.cap)
      BY <1>1, <1>3, <1>4
    <3>3. a < q.cap \/ a = b
      BY <1>1, <1>2, <1>3, <1>4
    <3> HIDE DEF a, b
    <3>4. a % q.cap = (IF a < q.cap THEN a ELSE a - q.cap)
          /\ b % q.cap = (IF b < q.cap THEN b ELSE b - q.cap)
      BY <1>1, <3>1, ModSmall
    <3>5. a % q.cap = b % q.cap
      <4>1. CASE a = b
        BY <4>1
      <4>2. CASE a # b
        <5>1. a < q.cap /\ a = b - q.cap /\ b >= q.cap
          BY <3>2, <3>3, <4>2
        <5>2. a % q.cap = a
          BY <3>4, <5>1
        <5>3. b % q.cap = b - q.cap
          <6>1. ~(b < q.cap)
            BY <1>1, <3>1, <5>1
          <6> QED BY <3>4, <6>1
        <5> QED BY <5>1, <5>2, <5>3
      <4> QED BY <4>1, <4>2
    <3> QED BY <3>5 DEF a, b
  <2>2. (q.head + (k + 1) - 1) % q.cap # q.head
    <3> DEFINE b == q.head + (k + 1) - 1
    <3>1. b \in Nat /\ b < 2 * q.cap /\ b > q.head /\ b < q.head + q.cap
      BY <1>1, <1>2
    <3> HIDE DEF b
    <3>2. b % q.cap = IF b < q.cap THEN b ELSE b - q.cap
      BY <1>1, <3>1, ModSmall
    <3>3. b % q.cap # q.head
      BY <1>1, <3>1, <3>2
    <3> QED BY <3>3 DEF b
  <2>3. k + 1 \in 1..Length(q) /\ k \in 1..Length(p)
    BY <1>2, <1>8
  <2>4. (q.head + (k + 1) - 1) % q.cap \in 0..q.cap - 1
    BY <2>3, LengthNat
  <2>5. p.ring[(p.head + k - 1) % p.cap] = q.ring[(q.head + (k + 1) - 1) % q.cap]
    <3> DEFINE i == (q.head + (k + 1) - 1) % q.cap
    <3>1. (p.head + k - 1) % p.cap = i
      BY <1>4, <2>1
    <3>2. i # q.head /\ i \in 0..q.cap - 1
      BY <2>2, <2>4
    <3> HIDE DEF i
    <3>3. p.ring[i] = q.ring[i]
      BY <1>1, <1>4, <3>2
    <3> QED BY <3>1, <3>3 DEF i
  <2> HIDE DEF p
  <2> QED BY <2>3, <2>5, Zenon DEF Contents
<1>11. Contents(p) = Tail(Contents(q))
  <2> DEFINE s == Contents(q)
             t == Contents(p)
  <2>1. /\ s \in Seq({0} \cup Messages) /\ Len(s) = Length(q)
        /\ t \in Seq({0} \cup Messages) /\ Len(t) = Length(q) - 1
    <3> HIDE DEF p
    <3> QED BY <1>7, <1>8, LengthNat
  <2>2. \A k \in 1..Len(t) : t[k] = s[k + 1]
    BY <1>10, <2>1
  <2> HIDE DEF s, t
  <2>3. s # <<>>
    BY <2>1
  <2>4. t = Tail(s)
    BY <2>1, <2>2, <2>3, HeadTailProperties, SeqEqual
  <2> QED BY <2>4 DEF s, t
<1> HIDE DEF p
<1>12. p.state = q.state /\ p.release = q.release /\ p.in_global = q.in_global
  BY <1>4
<1> QED BY <1>7, <1>8, <1>9, <1>11, <1>12 DEF p

\* skynet_mq_push puts a message behind the others, also when it expands the
\* array (expand_queue).
LEMMA PushedRing ==
    ASSUME NEW q \in Queues, Ring(q), NEW m \in Messages
    PROVE  /\ Pushed(q, m) \in Queues /\ Ring(Pushed(q, m))
           /\ Length(Pushed(q, m)) = Length(q) + 1
           /\ Contents(Pushed(q, m)) = Append(Contents(q), m)
           /\ Pushed(q, m).state = q.state /\ Pushed(q, m).release = q.release
           /\ Pushed(q, m).in_global = q.in_global
<1> DEFINE tail == (q.tail + 1) % q.cap
           ring == [q.ring EXCEPT ![q.tail] = m]
           q1 == [q EXCEPT !.ring = ring, !.tail = tail]
           p == Pushed(q, m)
           At1(k) == (q.head + k - 1) % q.cap
<1>1. /\ q.cap \in Nat \ {0} /\ q.head \in Nat /\ q.tail \in Nat
      /\ q.head < q.cap /\ q.tail < q.cap
      /\ q.ring \in [0..q.cap - 1 -> {0} \cup Messages] /\ q.ring \in Rings
  BY DEF Queues, Ring
<1>2. Length(q) \in Nat /\ Length(q) < q.cap
  BY LengthNat
<1>3. tail = IF q.tail + 1 < q.cap THEN q.tail + 1 ELSE q.tail + 1 - q.cap
  BY <1>1, DistArith
<1>4. tail \in Nat /\ tail < q.cap
  <2> HIDE DEF tail
  <2> QED BY <1>1, <1>3
<1>5. /\ ring \in [0..q.cap - 1 -> {0} \cup Messages] /\ ring \in Rings
      /\ ring[q.tail] = m /\ \A i \in 0..q.cap - 1 : i # q.tail => ring[i] = q.ring[i]
  <2>1. /\ ring \in [0..q.cap - 1 -> {0} \cup Messages]
        /\ ring[q.tail] = m /\ \A i \in 0..q.cap - 1 : i # q.tail => ring[i] = q.ring[i]
    BY <1>1
  <2> HIDE DEF ring
  <2> QED BY <1>1, <2>1 DEF Rings
\* where the messages lie
<1>6. ASSUME NEW k \in 1..Length(q) PROVE At1(k) \in 0..q.cap - 1 /\ At1(k) # q.tail
  <2> DEFINE b == q.head + k - 1
  <2>1. b \in Nat /\ b < 2 * q.cap /\ b >= q.head /\ b < q.head + Length(q)
    BY <1>1, <1>2
  <2> HIDE DEF b
  <2>2. b % q.cap = IF b < q.cap THEN b ELSE b - q.cap
    BY <1>1, <2>1, ModSmall
  <2>3. b % q.cap \in 0..q.cap - 1 /\ b % q.cap # q.tail
    BY <1>1, <2>1, <2>2 DEF Length
  <2> QED BY <2>3 DEF b
<1>7. At1(Length(q) + 1) = q.tail
  <2> DEFINE b == q.head + (Length(q) + 1) - 1
  <2>1. b = q.head + Dist(q.head, q.tail, q.cap)
    BY <1>1, <1>2 DEF Length, Dist
  <2>2. (q.head + Dist(q.head, q.tail, q.cap)) % q.cap = q.tail
    <3>1. PICK c \in Nat \ {0}, a \in Nat, b1 \in Nat :
             c = q.cap /\ a = q.head /\ b1 = q.tail /\ a < c /\ b1 < c
      BY <1>1, Zenon
    <3>2. a < c /\ b1 < c
      BY <3>1
    <3>3. (a + Dist(a, b1, c)) % c = b1
      BY <3>2, DistArith
    <3> QED BY <3>1, <3>3
  <2> QED BY <2>1, <2>2
<1>8. /\ \A k \in 1..Length(q) : ring[At1(k)] = Contents(q)[k]
      /\ ring[At1(Length(q) + 1)] = m
  <2>1. \A k \in 1..Length(q) : Contents(q)[k] = q.ring[At1(k)]
    BY DEF Contents
  <2> HIDE DEF ring, At1
  <2> QED BY <1>5, <1>6, <1>7, <2>1
<1>9. q1 \in Queues /\ Ring(q1)
      /\ q1.ring = ring /\ q1.tail = tail /\ q1.head = q.head /\ q1.cap = q.cap
      /\ q1.state = q.state /\ q1.release = q.release /\ q1.in_global = q.in_global
  <2> HIDE DEF ring, tail
  <2> QED BY <1>1, <1>4, <1>5 DEF Queues, Ring
<1>10. p = IF q.head = tail THEN Expanded(q1) ELSE q1
  BY Zenon DEF Pushed
<1>11. p \in Queues /\ Ring(p) /\ Length(p) = Length(q) + 1
       /\ p.state = q.state /\ p.release = q.release /\ p.in_global = q.in_global
       /\ \A k \in 1..Length(q) + 1 : Contents(p)[k] = ring[At1(k)]
  <2>1. CASE q.head # tail
    <3> HIDE DEF q1, tail, ring, p
    <3>1. p = q1
      BY <1>10, <2>1
    <3>2. Length(p) = Length(q) + 1
      <4>1. /\ p.head = q.head /\ p.cap = q.cap /\ p.tail = tail
        BY <1>9, <3>1
      <4>2. /\ Length(p) = Dist(q.head, tail, q.cap) /\ Length(q) = Dist(q.head, q.tail, q.cap)
        BY <4>1, Zenon DEF Length, Dist
      <4>3. PICK c \in Nat \ {0}, a \in Nat, b \in Nat, d \in Nat :
               c = q.cap /\ a = q.head /\ b = q.tail /\ d = tail
        BY <1>1, <1>4, Zenon
      <4>4. a < c /\ b < c /\ d # a /\ d = IF b + 1 < c THEN b + 1 ELSE b + 1 - c
        BY <1>1, <1>3, <2>1, <4>3
      <4>5. Dist(a, d, c) = Dist(a, b, c) + 1
        BY <4>4 DEF Dist
      <4> QED BY <4>2, <4>3, <4>5
    <3>3. \A k \in 1..Length(q) + 1 : Contents(p)[k] = ring[At1(k)]
      <4>1. Contents(p) = [k \in 1..Length(q) + 1 |-> p.ring[(p.head + k - 1) % p.cap]]
        BY <3>2, Zenon DEF Contents
      <4> QED BY <1>9, <3>1, <4>1
    <3> QED BY <1>9, <3>1, <3>2, <3>3
  <2>2. CASE q.head = tail
    <3> DEFINE turned == [i \in 0..2 * q.cap - 1 |->
                            IF i < q.cap THEN ring[(q.head + i) % q.cap] ELSE 0]
    <3>1. p = [q1 EXCEPT !.ring = turned, !.head = 0, !.tail = q.cap, !.cap = 2 * q.cap]
      <4> HIDE DEF q1, tail, ring
      <4>1. p = Expanded(q1)
        BY <1>10, <2>2
      <4> QED BY <1>9, <4>1, Zenon DEF Expanded
    <3>2. turned \in [0..2 * q.cap - 1 -> {0} \cup Messages] /\ turned \in Rings
      <4>1. \A i \in Nat : (q.head + i) % q.cap \in 0..q.cap - 1
        BY <1>1, DistArith
      <4>2. turned \in [0..2 * q.cap - 1 -> {0} \cup Messages]
        <5> HIDE DEF ring
        <5> SUFFICES ASSUME NEW i \in 0..2 * q.cap - 1
                     PROVE  (IF i < q.cap THEN ring[(q.head + i) % q.cap] ELSE 0)
                               \in {0} \cup Messages
          OBVIOUS
        <5>0. i \in Nat
          OBVIOUS
        <5>1. (q.head + i) % q.cap \in 0..q.cap - 1
          BY <4>1, <5>0, Zenon
        <5>2. PICK j \in 0..q.cap - 1 : j = (q.head + i) % q.cap
          BY <5>1
        <5> QED BY <1>5, <5>2
      <4>3. 2 * q.cap \in Nat \ {0}
        BY <1>1
      <4> HIDE DEF turned
      <4> QED BY <4>2, <4>3 DEF Rings
    <3>3. /\ p.ring = turned /\ p.head = 0 /\ p.tail = q.cap /\ p.cap = 2 * q.cap
          /\ p.state = q.state /\ p.release = q.release /\ p.in_global = q.in_global
          /\ p \in Queues /\ Ring(p)
      <4> HIDE DEF q1, turned, p, tail, ring
      <4>1. PICK c \in Nat \ {0} : c = 2 * q.cap /\ q.cap < c
        BY <1>1
      <4>2. turned \in [0..c - 1 -> {0} \cup Messages] /\ turned \in Rings
        BY <3>2, <4>1
      <4>3. p = [q1 EXCEPT !.ring = turned, !.head = 0, !.tail = q.cap, !.cap = c]
        BY <3>1, <4>1
      <4>4. /\ p.ring = turned /\ p.head = 0 /\ p.tail = q.cap /\ p.cap = c
            /\ p.state = q.state /\ p.release = q.release /\ p.in_global = q.in_global
            /\ p \in Queues
        BY <1>1, <1>9, <4>2, <4>3 DEF Queues
      <4>5. Ring(p)
        BY <1>1, <4>1, <4>2, <4>4 DEF Ring
      <4> QED BY <4>1, <4>4, <4>5
    <3>4. Length(q) = q.cap - 1
      <4> HIDE DEF tail
      <4> QED BY <1>1, <1>3, <2>2 DEF Length
    <3>5. Length(p) = Length(q) + 1
      <4> HIDE DEF p, turned
      <4> QED BY <1>1, <3>3, <3>4 DEF Length
    <3>6. ASSUME NEW k \in 1..Length(q) + 1
          PROVE  Contents(p)[k] = ring[At1(k)]
      <4>1. k \in 1..q.cap /\ k \in 1..Length(p)
        BY <3>4, <3>5, <1>2, <1>1
      <4>2. Contents(p)[k] = p.ring[(p.head + k - 1) % p.cap]
        <5> HIDE DEF p
        <5> QED BY <4>1 DEF Contents
      <4>3. (p.head + k - 1) % p.cap = k - 1
        <5>1. p.head + k - 1 = k - 1 /\ k - 1 \in Nat /\ k - 1 < 2 * q.cap
          BY <1>1, <3>3, <4>1
        <5>2. PICK c \in Nat \ {0} : c = 2 * q.cap
          BY <1>1
        <5>3. k - 1 < c /\ k - 1 < 2 * c
          BY <5>1, <5>2
        <5>4. (k - 1) % c = k - 1
          BY <5>1, <5>3, ModSmall
        <5> QED BY <3>3, <5>1, <5>2, <5>4
      <4>4. p.ring[k - 1] = ring[(q.head + (k - 1)) % q.cap]
        <5>1. k - 1 \in 0..2 * q.cap - 1 /\ k - 1 < q.cap
          BY <1>1, <4>1
        <5>2. turned[k - 1] = ring[(q.head + (k - 1)) % q.cap]
          <6> HIDE DEF ring
          <6> QED BY <5>1
        <5> HIDE DEF turned, p
        <5> QED BY <3>3, <5>2
      <4>5. q.head + (k - 1) = q.head + k - 1
        BY <1>1, <4>1
      <4> HIDE DEF p, ring
      <4> QED BY <4>2, <4>3, <4>4, <4>5
    <3> HIDE DEF p, ring, At1
    <3> QED BY <3>3, <3>5, <3>6
  <2> QED BY <2>1, <2>2
<1>12. Contents(p) = Append(Contents(q), m)
  <2> DEFINE s == Contents(q)
             t == Contents(p)
  <2>1. /\ s \in Seq({0} \cup Messages) /\ Len(s) = Length(q)
        /\ t \in Seq({0} \cup Messages) /\ Len(t) = Length(q) + 1
    <3> HIDE DEF p
    <3> QED BY <1>11, LengthNat
  <2>2. /\ \A k \in 1..Length(q) : t[k] = s[k]
        /\ t[Length(q) + 1] = m
    <3> HIDE DEF p, ring, At1
    <3> QED BY <1>2, <1>8, <1>11
  <2> HIDE DEF s, t, p
  <2>3. t = Append(s, m)
    <3>1. m \in {0} \cup Messages
      OBVIOUS
    <3> QED BY <1>2, <2>1, <2>2, <3>1, AppendProperties, SeqEqual
  <2> QED BY <2>3 DEF s, t
<1> HIDE DEF p
<1> QED BY <1>11, <1>12 DEF p

-----------------------------------------------------------------------------
(* The invariant is preserved *)

\* Thread t alone takes a step and leaves its record well formed.
Step(t) ==
    /\ t \in Threads /\ th' \in [Threads -> Locals] /\ Shape(t, th'[t])
    /\ \A u \in Threads \ {t} : th'[u] = th[u]

HasT(t, r, h) == IF t \in Workers THEN Has(r, h) ELSE 0

\* An action of one thread is a step.
LEMMA StepLemma ==
    ASSUME th \in [Threads -> Locals], NEW t \in Threads, NEW r \in Locals,
           th' = [th EXCEPT ![t] = r], Shape(t, r)
    PROVE  Step(t) /\ th'[t] = r
BY DEF Step

\* Then all records are well formed.
LEMMA StepShapes == ASSUME Shapes, NEW t, Step(t) PROVE Shapes'
<1> SUFFICES ASSUME NEW u \in Threads PROVE Shape(u, th'[u])
  BY DEF Shapes
<1>1. CASE u = t
  BY <1>1 DEF Step
<1>2. CASE u # t
  BY <1>2 DEF Step, Shapes
<1> QED BY <1>1, <1>2

\* The references to a context change by what the thread comes to hold.
LEMMA HoldersStep ==
    ASSUME NEW t, Step(t), NEW h
    PROVE  /\ Cardinality(Holders(h)) \in Nat /\ Cardinality(Holders(h)') \in Nat
           /\ Held(t, th'[t], h) \in Nat /\ Held(t, th[t], h) \in Nat
           /\ Cardinality(Holders(h)') - Held(t, th'[t], h)
                = Cardinality(Holders(h)) - Held(t, th[t], h)
<1>1. Others(th, th', t)
  BY DEF Step, Others
<1>2. /\ Cardinality(HoldersOf(th, h)) \in Nat /\ Cardinality(HoldersOf(th', h)) \in Nat
      /\ Cardinality(HoldersOf(th', h)) - Held(t, th'[t], h)
              = Cardinality(HoldersOf(th, h)) - Held(t, th[t], h)
  BY <1>1, HoldersCount
<1>3. Held(t, th'[t], h) \in Nat /\ Held(t, th[t], h) \in Nat
  BY DEF Held, B
<1> QED BY <1>2, <1>3, HoldersIs

\* The places of a queue change by what the thread and the global queue do.
LEMMA PlacesStep ==
    ASSUME NEW t, Step(t), global \in Seq(Handles), global' \in Seq(Handles), NEW h
    PROVE  /\ Places(h) \in Nat /\ Places(h)' \in Nat
           /\ InSeq(global, h) \in Nat /\ InSeq(global', h) \in Nat
           /\ Places(h)' - InSeq(global', h) - HasT(t, th'[t], h)
                = Places(h) - InSeq(global, h) - HasT(t, th[t], h)
<1>1. /\ Places(h) = InSeq(global, h) + PlacesOf(th, h)
      /\ InSeq(global, h) \in Nat /\ PlacesOf(th, h) \in Nat
  BY PlacesIs
<1>2. /\ Places(h)' = InSeq(global', h) + PlacesOf(th', h)
      /\ InSeq(global', h) \in Nat /\ PlacesOf(th', h) \in Nat
  <2>1. /\ Cardinality({w \in Workers : th'[w].queue = h}) \in Nat
        /\ Cardinality({w \in Workers : th'[w].nextq = h}) \in Nat
        /\ Cardinality({w \in Workers : th'[w].new = h}) \in Nat
        /\ Cardinality({w \in Workers : th'[w].dropq = h}) \in Nat
    BY QueueAssumption, FS_Subset, FS_CardinalityType
  <2>2. InSeq(global', h) \in Nat
    BY InSeqNat
  <2> QED BY <2>1, <2>2 DEF Places, InSeq, PlacesOf
<1>3. CASE t \in Workers
  <2>1. PlacesOf(th', h) - Has(th'[t], h) = PlacesOf(th, h) - Has(th[t], h)
    <3>1. Others(th, th', t)
      BY DEF Step, Others
    <3> QED BY <1>3, <3>1, PlacesCount
  <2>2. Has(th'[t], h) \in Nat /\ Has(th[t], h) \in Nat
    BY DEF Has, B
  <2> QED BY <1>1, <1>2, <1>3, <2>1, <2>2 DEF HasT
<1>4. CASE t \notin Workers
  <2>1. \A w \in Workers : th'[w] = th[w]
    BY <1>4 DEF Step, Threads
  <2>2. PlacesOf(th', h) = PlacesOf(th, h)
    BY <2>1 DEF PlacesOf
  <2> QED BY <1>1, <1>2, <1>4, <2>2 DEF HasT
<1> QED BY <1>3, <1>4

\* A step that moves queues only keeps every queue in one place.
LEMMA KeepPlaces ==
    ASSUME Types, QueueInOnePlace, NEW t, Step(t), UNCHANGED mq,
           global' \in Seq(Handles),
           \A h \in Handles : InSeq(global', h) + HasT(t, th'[t], h)
                                 = InSeq(global, h) + HasT(t, th[t], h)
    PROVE  QueueInOnePlace'
<1>1. ASSUME NEW h \in Handles PROVE Places(h)' = Places(h)
  <2>1. global \in Seq(Handles)
    BY DEF Types
  <2>2. HasT(t, th'[t], h) \in Nat /\ HasT(t, th[t], h) \in Nat
    BY DEF HasT, Has, B
  <2>3. InSeq(global', h) + HasT(t, th'[t], h) = InSeq(global, h) + HasT(t, th[t], h)
    OBVIOUS
  <2>4. /\ Places(h) \in Nat /\ Places(h)' \in Nat
        /\ InSeq(global, h) \in Nat /\ InSeq(global', h) \in Nat
        /\ Places(h)' - InSeq(global', h) - HasT(t, th'[t], h)
             = Places(h) - InSeq(global, h) - HasT(t, th[t], h)
    BY <2>1, PlacesStep
  <2> QED BY <2>2, <2>3, <2>4
<1> QED BY <1>1 DEF QueueInOnePlace

\* What a count is when it changes like what it counts.
LEMMA Balance ==
    ASSUME NEW a \in Nat, NEW b \in Nat, NEW c \in Nat, NEW a1 \in Nat, NEW b1 \in Nat,
           NEW c1 \in Nat, NEW x \in Nat, NEW y \in Nat,
           a = b + c, b1 - y = b - x, a1 - y - c1 = a - x - c
    PROVE  a1 = b1 + c1
OBVIOUS

\* A context that a thread finds is in the table and has its handle.
LEMMA Findable ==
    ASSUME QueueInv, NEW h \in Handles, Registered(h)
    PROVE  Owned(h) /\ h % Size \in DOMAIN slot /\ h % Size \in 0..Size - 1
<1>1. h \in Nat /\ h # 0
  BY DEF Handles
<1>2. Size \in Nat \ {0} /\ DOMAIN slot = 0..Size - 1
  BY DEF QueueInv, Types
<1>3. h % Size \in 0..Size - 1
  BY <1>1, <1>2, DivMod
<1> QED BY <1>1, <1>2, <1>3 DEF Registered, Stored, Owned, InSlot

\* The table and the contexts that have no handle yet stay.
LEMMA KeepSlots ==
    ASSUME QueueInv, UNCHANGED <<slot, handle_index>>,
           \A w \in Workers : th'[w].reg = th[w].reg,
           \A h \in Handles : mq[h].state = "none" => mq'[h].state = "none"
    PROVE  SlotInv'
<1>1. ASSUME NEW w \in Workers, th[w].reg # 0
      PROVE  mq'[th[w].reg].state = "none"
  <2>1. th[w].reg \in Handle0
    BY DEF QueueInv, Types, Threads, Locals
  <2>2. th[w].reg \in Handles
    BY <1>1, <2>1 DEF Handle0, Handles
  <2>3. mq[th[w].reg].state = "none"
    BY <1>1 DEF QueueInv, SlotInv, RegInv
  <2> QED BY <2>2, <2>3
<1>2. RegInv'
  <2> SUFFICES ASSUME NEW w \in Workers, th'[w].reg # 0
               PROVE  /\ mq'[th'[w].reg].state = "none" /\ InTable(slot', th'[w].reg)
                      /\ th'[w].reg < handle_index'
                      /\ \A v \in Workers : th'[v].reg = th'[w].reg => v = w
    BY DEF RegInv, InSlot, InTable
  <2>1. th'[w].reg = th[w].reg /\ th[w].reg # 0
    OBVIOUS
  <2>2. /\ InSlot(th[w].reg) /\ th[w].reg < handle_index
        /\ \A v \in Workers : th[v].reg = th[w].reg => v = w
    BY <2>1 DEF QueueInv, SlotInv, RegInv
  <2>3. InTable(slot', th'[w].reg)
    BY <2>1, <2>2 DEF InSlot, InTable
  <2> QED BY <1>1, <2>1, <2>2, <2>3
<1> QED BY <1>2 DEF QueueInv, SlotInv, Size

\* Then the same contexts are in the table.
LEMMA KeepOwned ==
    ASSUME slot' = slot, \A h \in Handles : mq'[h].state = "none" <=> mq[h].state = "none"
    PROVE  \A h \in Handles : Owned(h)' <=> Owned(h)
BY DEF Owned, InSlot

\* A step that registers, launches and deletes nobody and counts its references.
LEMMA KeepRefs ==
    ASSUME QueueInv, Types', SlotInv', NEW t, Step(t),
           total' = total,
           \A h \in Handles : h >= handle_index' => h >= handle_index,
           \A h \in Handles :
              /\ mq'[h].state = mq[h].state /\ mq'[h].release = mq[h].release
              /\ mq[h].state = "none" => mq'[h] = mq[h]
              /\ ref'[h] - Held(t, th'[t], h) - B(Owned(h)')
                    = ref[h] - Held(t, th[t], h) - B(Owned(h))
              /\ ref'[h] = 0 <=> ref[h] = 0,
           th[t].pc # "delete", th'[t].pc # "delete",
           At(th'[t]) = "drop" => mq[th'[t].dropq].release
    PROVE  LifeInv' /\ RefInv' /\ DeleteInv' /\ TotalInv'
<1>1. LifeInv'
  <2>1. ASSUME NEW w \in Workers, At(th'[w]) = "drop" PROVE mq'[th'[w].dropq].release
    <3>1. th'[w] \in Locals /\ Shape(w, th'[w])
      BY StepShapes DEF QueueInv, Step, Threads, Shapes
    <3>2. th'[w].dropq \in Handles
      BY <2>1, <3>1 DEF Locals, Shape, Handle0, Handles
    <3>3. mq[th'[w].dropq].release
      BY <2>1 DEF QueueInv, LifeInv, Step, Threads
    <3> QED BY <3>2, <3>3
  <2> QED BY <2>1 DEF QueueInv, LifeInv
<1>2. RefInv'
  <2> SUFFICES ASSUME NEW h \in Handles
               PROVE  /\ ref'[h] = Cardinality(Holders(h)') + B(Owned(h)')
                      /\ ref'[h] > 0 => mq'[h].state = "live" /\ ~mq'[h].release
    BY DEF RefInv
  <2>1. /\ Cardinality(Holders(h)) \in Nat /\ Cardinality(Holders(h)') \in Nat
        /\ Held(t, th'[t], h) \in Nat /\ Held(t, th[t], h) \in Nat
        /\ Cardinality(Holders(h)') - Held(t, th'[t], h)
             = Cardinality(Holders(h)) - Held(t, th[t], h)
    BY HoldersStep
  <2>2. ref[h] = Cardinality(Holders(h)) + B(Owned(h))
    BY DEF QueueInv, RefInv
  <2>3. /\ B(Owned(h)) \in Nat /\ B(Owned(h)') \in Nat
        /\ ref[h] \in Nat /\ ref'[h] \in Nat
    <3>1. B(Owned(h)) \in Nat /\ B(Owned(h)') \in Nat
      BY DEF B
    <3>2. ref \in [Handles -> Nat]
      BY DEF QueueInv, Types
    <3>3. ref' \in [Handles -> Nat]
      BY DEF Types
    <3> QED BY <3>1, <3>2, <3>3
  <2>4. ref'[h] - Held(t, th'[t], h) - B(Owned(h)')
                    = ref[h] - Held(t, th[t], h) - B(Owned(h))
    OBVIOUS
  <2>5. ref'[h] = Cardinality(Holders(h)') + B(Owned(h)')
    BY <2>1, <2>2, <2>3, <2>4, Balance
  <2>6. ref'[h] > 0 => mq'[h].state = "live" /\ ~mq'[h].release
    BY <2>3 DEF QueueInv, RefInv
  <2> QED BY <2>5, <2>6
<1>3. \A u \in Threads, h \in Handles : Deleting(u, h)' <=> Deleting(u, h)
  BY DEF Step, Deleting
<1>4. Created' = Created
  BY DEF Created
<1>5. DeleteInv'
  BY <1>3, <1>4 DEF QueueInv, DeleteInv, Created
<1>6. TotalInv'
  <2>1. Contexts' = Contexts
    BY <1>4 DEF Contexts, Created
  <2> QED BY <2>1 DEF QueueInv, TotalInv
<1> QED BY <1>1, <1>2, <1>5, <1>6

HistTypes ==
    /\ nmsg \in 0..MaxMsgs
    /\ source \in [Messages -> Handle0]
    /\ fate \in [Messages -> {"", "handled", "refused", "dropped"}]

\* Thread t, whose record becomes r, keeps its references, and the queues it has and
\* the ones in the global queue are the same together.
Quiet(t, r) ==
    /\ \A h \in Handles :
          /\ Held(t, r, h) = Held(t, th[t], h)
          /\ InSeq(global', h) + HasT(t, r, h) = InSeq(global, h) + HasT(t, th[t], h)
    /\ th[t].pc # "delete" /\ r.pc # "delete" /\ r.reg = th[t].reg
    /\ At(r) = "drop" => mq[r.dropq].release

\* A step that moves queues and gives up and takes no reference.
LEMMA QuietStep ==
    ASSUME QueueInv, NEW t \in Threads, NEW r \in Locals, th' = [th EXCEPT ![t] = r],
           Shape(t, r), UNCHANGED <<slot, handle_index, ref, total, mq>>,
           global' \in Seq(Handles), quit' \in BOOLEAN, HistTypes', Quiet(t, r)
    PROVE  QueueInv'
<1> USE DEF Quiet
<1>1. Step(t) /\ th'[t] = r
  BY StepLemma DEF QueueInv, Types
<1>2. Types'
  BY <1>1 DEF QueueInv, Types, HistTypes, Size, Step
<1>3. \A h \in Handles : Owned(h)' <=> Owned(h)
  BY DEF Owned, InSlot
<1>4. SlotInv'
  <2>1. \A w \in Workers : th'[w].reg = th[w].reg
    BY <1>1 DEF Step, Threads
  <2> QED BY <2>1, KeepSlots
<1>5. LifeInv' /\ RefInv' /\ DeleteInv' /\ TotalInv'
  <2>1. \A h \in Handles :
              /\ mq'[h].state = mq[h].state /\ mq'[h].release = mq[h].release
              /\ mq[h].state = "none" => mq'[h] = mq[h]
              /\ ref'[h] - Held(t, th'[t], h) - B(Owned(h)')
                    = ref[h] - Held(t, th[t], h) - B(Owned(h))
              /\ ref'[h] = 0 <=> ref[h] = 0
    BY <1>1, <1>3 DEF B
  <2> QED BY <1>1, <1>2, <1>4, <2>1, KeepRefs
<1>6. QueueInOnePlace'
  BY <1>1, KeepPlaces DEF QueueInv
<1>7. Shapes'
  BY <1>1, StepShapes DEF QueueInv
<1> QED BY <1>2, <1>4, <1>5, <1>6, <1>7 DEF QueueInv

\* What the invariant says of the record of one thread.
LEMMA Record ==
    ASSUME QueueInv, NEW t \in Threads
    PROVE  /\ th[t] \in Locals /\ Shape(t, th[t]) /\ HistTypes
           /\ global \in Seq(Handles) /\ quit \in BOOLEAN
           /\ t \in Workers => t # Ext
           /\ 0 \in Handle0
<1>1. 0 \in Handle0
  BY QueueAssumption DEF Handle0
<1> QED BY <1>1, QueueAssumption DEF QueueInv, Types, Shapes, HistTypes

\* The head of the global queue leaves it.
LEMMA PopSeq ==
    ASSUME global \in Seq(Handles), global # <<>>
    PROVE  /\ Head(global) \in Handles /\ Tail(global) \in Seq(Handles)
           /\ \A h \in Handles :
                 /\ InSeq(global, h) \in Nat /\ InSeq(Tail(global), h) \in Nat
                 /\ InSeq(global, h) = InSeq(Tail(global), h) + B(Head(global) = h)
BY InSeqTail, HeadTailProperties

\* A queue is pushed to the global queue.
LEMMA PushSeq ==
    ASSUME global \in Seq(Handles), NEW e \in Handles
    PROVE  /\ Append(global, e) \in Seq(Handles)
           /\ \A h \in Handles :
                 /\ InSeq(global, h) \in Nat /\ InSeq(Append(global, e), h) \in Nat
                 /\ InSeq(Append(global, e), h) = InSeq(global, h) + B(e = h)
<1>1. Append(global, e) \in Seq(Handles)
  BY AppendProperties
<1>2. ASSUME NEW h \in Handles
      PROVE  /\ InSeq(global, h) \in Nat /\ InSeq(Append(global, e), h) \in Nat
             /\ InSeq(Append(global, e), h) = InSeq(global, h) + B(e = h)
  <2>1. InSeq(global, h) \in Nat /\ InSeq(Append(global, e), h) = InSeq(global, h) + B(e = h)
    BY InSeqAppend
  <2>2. InSeq(Append(global, e), h) \in Nat
    BY <1>1, InSeqNat
  <2> QED BY <2>1, <2>2
<1> QED BY <1>1, <1>2

\* skynet_globalmq_pop and its callers keep the invariant.
LEMMA PopGlobalInv ==
    ASSUME QueueInv, NEW w \in Workers, TakeQueue(w) \/ NextQueue(w)
    PROVE  QueueInv'
<1> w \in Threads
  BY DEF Threads
<1>0. /\ th[w] \in Locals /\ Shape(w, th[w]) /\ HistTypes /\ w # Ext
      /\ global \in Seq(Handles) /\ quit \in BOOLEAN /\ th[w].pc \in {"top", "next"}
      /\ th[w].queue = 0
  BY Record DEF TakeQueue, NextQueue, Shape, At
<1>1. /\ UNCHANGED <<slot, handle_index, ref, total, mq, quit>> /\ HistTypes'
      /\ PopGlobal(w, "got") \/ PopGlobal(w, "top")
  BY <1>0 DEF TakeQueue, NextQueue, slots, hist, HistTypes
<1>2. CASE global = <<>>
  <2> DEFINE r == [th[w] EXCEPT !.pc = "sleepy"]
  <2>1. th' = [th EXCEPT ![w] = r] /\ global' = global
    BY <1>1, <1>2 DEF PopGlobal, Goto
  <2>2. r \in Locals
    BY <1>0 DEF Locals, Pcs
  <2>3. Shape(w, r)
    BY <1>0 DEF Shape, At, Locals, InCallback, Launching
  <2>4. \A h \in Handles : Held(w, r, h) = Held(w, th[w], h) /\ HasT(w, r, h) = HasT(w, th[w], h)
    BY <1>0 DEF Held, HRel, HPush, HQueue, HNew, B, HasT, Has, Handles, Locals, Shape, At
  <2>5. r.pc # "delete" /\ r.reg = th[w].reg /\ At(r) # "drop" /\ th[w].pc # "delete"
    BY <1>0 DEF At, Locals
  <2> HIDE DEF r
  <2>6. Quiet(w, r)
    BY <2>1, <2>4, <2>5 DEF Quiet
  <2> QED BY <1>0, <1>1, <2>1, <2>2, <2>3, <2>6, QuietStep
<1>3. CASE global # <<>>
  <2> DEFINE l == IF th[w].pc = "top" THEN "got" ELSE "top"
             r == [th[w] EXCEPT !.pc = l, !.queue = Head(global)]
  <2>0. Head(global) \in Handles /\ Tail(global) \in Seq(Handles)
    BY <1>0, <1>3, PopSeq
  <2>1. th' = [th EXCEPT ![w] = r] /\ global' = Tail(global)
    BY <1>3 DEF PopGlobal, TakeQueue, NextQueue
  <2>2. r \in Locals
    <3>1. l \in Pcs /\ Head(global) \in Handle0
      BY <2>0 DEF Pcs, Handles, Handle0
    <3> HIDE DEF l
    <3> QED BY <1>0, <3>1 DEF Locals
  <2>3. Shape(w, r)
    BY <1>0, <2>0 DEF Shape, At, Locals, InCallback, Launching, Handles
  <2>4. \A h \in Handles :
           /\ Held(w, r, h) = Held(w, th[w], h)
           /\ HasT(w, r, h) = HasT(w, th[w], h) + B(Head(global) = h)
           /\ HasT(w, th[w], h) \in Nat /\ B(Head(global) = h) \in Nat
    BY <1>0 DEF Held, HRel, HPush, HQueue, HNew, B, HasT, Has, Handles, Locals, Shape, At
  <2>5. r.pc # "delete" /\ r.reg = th[w].reg /\ At(r) # "drop" /\ th[w].pc # "delete"
    BY <1>0 DEF At, Locals
  <2>6. Quiet(w, r)
    <3> HIDE DEF r
    <3> QED BY <1>0, <1>3, <2>1, <2>4, <2>5, PopSeq DEF Quiet
  <2> HIDE DEF r
  <2> QED BY <1>0, <1>1, <2>0, <2>1, <2>2, <2>3, <2>6, QuietStep
<1> QED BY <1>2, <1>3

\* The end of a worker's loop.
LEMMA ExitInv ==
    ASSUME QueueInv, NEW w \in Workers, Exit(w)
    PROVE  QueueInv'
<1> w \in Threads
  BY DEF Threads
<1> DEFINE r == [th[w] EXCEPT !.pc = "exited"]
<1>0. /\ th[w] \in Locals /\ Shape(w, th[w]) /\ HistTypes /\ w # Ext
      /\ global \in Seq(Handles) /\ quit \in BOOLEAN /\ th[w].pc = "top"
  BY Record DEF Exit
<1>1. UNCHANGED <<slot, handle_index, ref, total, mq, global, quit>> /\ HistTypes'
  BY <1>0 DEF Exit, slots, hist, HistTypes
<1>2. th' = [th EXCEPT ![w] = r]
  BY <1>0 DEF Exit, Goto, Releasing, Sending, Returning
<1>3. r \in Locals
  BY <1>0 DEF Locals, Pcs, Releasing, Sending, Returning
<1>4. Shape(w, r)
  BY <1>0 DEF Shape, At, Locals, InCallback, Launching, Releasing, Sending, Returning
<1>5. \A h \in Handles : Held(w, r, h) = Held(w, th[w], h) /\ HasT(w, r, h) = HasT(w, th[w], h)
  BY <1>0 DEF Held, HRel, HPush, HQueue, HNew, B, HasT, Has, Handles, Locals, Shape, At,
              InCallback, Launching, Releasing, Sending, Returning
<1>6. r.pc # "delete" /\ r.reg = th[w].reg /\ At(r) # "drop" /\ th[w].pc # "delete"
  BY <1>0 DEF At, Locals, Releasing, Sending, Returning
<1> HIDE DEF r
<1>q. Quiet(w, r)
  BY <1>1, <1>5, <1>6 DEF Quiet
<1> QED BY <1>0, <1>1, <1>2, <1>3, <1>4, <1>q, QuietStep

\* A worker locks the mutex and waits, or sees that it has to end.
LEMMA SleepInv ==
    ASSUME QueueInv, NEW w \in Workers, Sleep(w)
    PROVE  QueueInv'
<1> w \in Threads
  BY DEF Threads
<1> DEFINE r == [th[w] EXCEPT !.pc = IF quit THEN "top" ELSE "asleep"]
<1>0. /\ th[w] \in Locals /\ Shape(w, th[w]) /\ HistTypes /\ w # Ext
      /\ global \in Seq(Handles) /\ quit \in BOOLEAN /\ th[w].pc = "sleepy"
  BY Record DEF Sleep
<1>1. UNCHANGED <<slot, handle_index, ref, total, mq, global, quit>> /\ HistTypes'
  BY <1>0 DEF Sleep, slots, hist, HistTypes
<1>2. th' = [th EXCEPT ![w] = r]
  BY <1>0 DEF Sleep, Goto, Releasing, Sending, Returning
<1>3. r \in Locals
  BY <1>0 DEF Locals, Pcs, Releasing, Sending, Returning
<1>4. Shape(w, r)
  BY <1>0 DEF Shape, At, Locals, InCallback, Launching, Releasing, Sending, Returning
<1>5. \A h \in Handles : Held(w, r, h) = Held(w, th[w], h) /\ HasT(w, r, h) = HasT(w, th[w], h)
  BY <1>0 DEF Held, HRel, HPush, HQueue, HNew, B, HasT, Has, Handles, Locals, Shape, At,
              InCallback, Launching, Releasing, Sending, Returning
<1>6. r.pc # "delete" /\ r.reg = th[w].reg /\ At(r) # "drop" /\ th[w].pc # "delete"
  BY <1>0 DEF At, Locals, Releasing, Sending, Returning
<1> HIDE DEF r
<1>q. Quiet(w, r)
  BY <1>1, <1>5, <1>6 DEF Quiet
<1> QED BY <1>0, <1>1, <1>2, <1>3, <1>4, <1>q, QuietStep

\* The timer thread signals a worker.
LEMMA WakeupInv ==
    ASSUME QueueInv, NEW w \in Workers, Wakeup(w)
    PROVE  QueueInv'
<1> w \in Threads
  BY DEF Threads
<1> DEFINE r == [th[w] EXCEPT !.pc = "top"]
<1>0. /\ th[w] \in Locals /\ Shape(w, th[w]) /\ HistTypes /\ w # Ext
      /\ global \in Seq(Handles) /\ quit \in BOOLEAN /\ th[w].pc = "asleep"
  BY Record DEF Wakeup
<1>1. UNCHANGED <<slot, handle_index, ref, total, mq, global, quit>> /\ HistTypes'
  BY <1>0 DEF Wakeup, slots, hist, HistTypes
<1>2. th' = [th EXCEPT ![w] = r]
  BY <1>0 DEF Wakeup, Goto, Releasing, Sending, Returning
<1>3. r \in Locals
  BY <1>0 DEF Locals, Pcs, Releasing, Sending, Returning
<1>4. Shape(w, r)
  BY <1>0 DEF Shape, At, Locals, InCallback, Launching, Releasing, Sending, Returning
<1>5. \A h \in Handles : Held(w, r, h) = Held(w, th[w], h) /\ HasT(w, r, h) = HasT(w, th[w], h)
  BY <1>0 DEF Held, HRel, HPush, HQueue, HNew, B, HasT, Has, Handles, Locals, Shape, At,
              InCallback, Launching, Releasing, Sending, Returning
<1>6. r.pc # "delete" /\ r.reg = th[w].reg /\ At(r) # "drop" /\ th[w].pc # "delete"
  BY <1>0 DEF At, Locals, Releasing, Sending, Returning
<1> HIDE DEF r
<1>q. Quiet(w, r)
  BY <1>1, <1>5, <1>6 DEF Quiet
<1> QED BY <1>0, <1>1, <1>2, <1>3, <1>4, <1>q, QuietStep

\* The end of the init of a service that is launched.
LEMMA InitEndInv ==
    ASSUME QueueInv, NEW w \in Workers, NEW ok \in BOOLEAN, InitEnd(w, ok)
    PROVE  QueueInv'
<1> w \in Threads
  BY DEF Threads
<1> DEFINE r == Releasing(th[w], th[w].new, IF ok THEN "launched" ELSE "failed")
<1>0. /\ th[w] \in Locals /\ Shape(w, th[w]) /\ HistTypes /\ w # Ext
      /\ global \in Seq(Handles) /\ quit \in BOOLEAN /\ th[w].pc \in {"init", "inited"}
  BY Record DEF InitEnd
<1>1. UNCHANGED <<slot, handle_index, ref, total, mq, global, quit>> /\ HistTypes'
  BY <1>0 DEF InitEnd, slots, hist, HistTypes
<1>2. th' = [th EXCEPT ![w] = r]
  BY <1>0 DEF InitEnd, Goto, Releasing, Sending, Returning
<1>3. r \in Locals
  BY <1>0 DEF Locals, Pcs, Releasing, Sending, Returning
<1>4. Shape(w, r)
  BY <1>0 DEF Shape, At, Locals, InCallback, Launching, Releasing, Sending, Returning
<1>5. \A h \in Handles : Held(w, r, h) = Held(w, th[w], h) /\ HasT(w, r, h) = HasT(w, th[w], h)
  BY <1>0 DEF Held, HRel, HPush, HQueue, HNew, B, HasT, Has, Handles, Locals, Shape, At,
              InCallback, Launching, Releasing, Sending, Returning
<1>6. r.pc # "delete" /\ r.reg = th[w].reg /\ At(r) # "drop" /\ th[w].pc # "delete"
  BY <1>0 DEF At, Locals, Releasing, Sending, Returning
<1> HIDE DEF r
<1>q. Quiet(w, r)
  BY <1>1, <1>5, <1>6 DEF Quiet
<1> QED BY <1>0, <1>1, <1>2, <1>3, <1>4, <1>q, QuietStep

\* The worker computes how many messages it may take.
LEMMA MqLengthInv ==
    ASSUME QueueInv, NEW w \in Workers, MqLength(w)
    PROVE  QueueInv'
<1> w \in Threads
  BY DEF Threads
<1> DEFINE n == Length(mq[th[w].queue]) \div (2 ^ Weight[w])
           r == [th[w] EXCEPT !.pc = "call", !.left = IF n = 0 THEN 0 ELSE n - 1]
<1>0. /\ th[w] \in Locals /\ Shape(w, th[w]) /\ HistTypes /\ w # Ext
      /\ global \in Seq(Handles) /\ quit \in BOOLEAN /\ th[w].pc = "len"
  BY Record DEF MqLength
<1>7. n \in Nat
  <2>1. th[w].queue \in Handles
    BY <1>0 DEF Shape, At, Locals, Handle0, Handles
  <2>2. mq[th[w].queue] \in Queues /\ Ring(mq[th[w].queue])
    BY <2>1 DEF QueueInv, Types
  <2>3. Length(mq[th[w].queue]) \in Nat
    BY <2>2, LengthNat
  <2>4. 2 ^ Weight[w] \in Nat \ {0}
    BY <1>0, QueueAssumption DEF Shape, At
  <2> QED BY <2>3, <2>4, DivMod
<1>1. UNCHANGED <<slot, handle_index, ref, total, mq, global, quit>> /\ HistTypes'
  BY <1>0 DEF MqLength, slots, hist, HistTypes
<1>2. th' = [th EXCEPT ![w] = r]
  BY <1>0 DEF MqLength, Goto, Releasing, Sending, Returning
<1>3. r \in Locals
  <2>1. (IF n = 0 THEN 0 ELSE n - 1) \in Nat
    BY <1>7
  <2> HIDE DEF n
  <2> QED BY <1>0, <2>1 DEF Locals, Pcs
<1>4. Shape(w, r)
  BY <1>0 DEF Shape, At, Locals, InCallback, Launching, Releasing, Sending, Returning
<1>5. \A h \in Handles : Held(w, r, h) = Held(w, th[w], h) /\ HasT(w, r, h) = HasT(w, th[w], h)
  BY <1>0 DEF Held, HRel, HPush, HQueue, HNew, B, HasT, Has, Handles, Locals, Shape, At,
              InCallback, Launching, Releasing, Sending, Returning
<1>6. r.pc # "delete" /\ r.reg = th[w].reg /\ At(r) # "drop" /\ th[w].pc # "delete"
  BY <1>0 DEF At, Locals, Releasing, Sending, Returning
<1> HIDE DEF r
<1>q. Quiet(w, r)
  BY <1>1, <1>5, <1>6 DEF Quiet
<1> QED BY <1>0, <1>1, <1>2, <1>3, <1>4, <1>q, QuietStep

\* A callback returns.
LEMMA ReturnInv ==
    ASSUME QueueInv, NEW w \in Workers, Return(w)
    PROVE  QueueInv'
<1> w \in Threads
  BY DEF Threads
<1> DEFINE r == [th[w] EXCEPT !.msg = 0, !.pc = IF th[w].left > 0 THEN "pop" ELSE "swap"]
<1>0. /\ th[w] \in Locals /\ Shape(w, th[w]) /\ HistTypes /\ w # Ext
      /\ global \in Seq(Handles) /\ quit \in BOOLEAN /\ th[w].pc = "call"
  BY Record DEF Return
<1>1. UNCHANGED <<slot, handle_index, ref, total, mq, global, quit>> /\ HistTypes'
  BY <1>0 DEF Return, slots, hist, HistTypes
<1>2. th' = [th EXCEPT ![w] = r]
  BY <1>0 DEF Return, Goto, Releasing, Sending, Returning
<1>3. r \in Locals
  BY <1>0 DEF Locals, Pcs, Releasing, Sending, Returning
<1>4. Shape(w, r)
  BY <1>0 DEF Shape, At, Locals, InCallback, Launching, Releasing, Sending, Returning
<1>5. \A h \in Handles : Held(w, r, h) = Held(w, th[w], h) /\ HasT(w, r, h) = HasT(w, th[w], h)
  BY <1>0 DEF Held, HRel, HPush, HQueue, HNew, B, HasT, Has, Handles, Locals, Shape, At,
              InCallback, Launching, Releasing, Sending, Returning
<1>6. r.pc # "delete" /\ r.reg = th[w].reg /\ At(r) # "drop" /\ th[w].pc # "delete"
  BY <1>0 DEF At, Locals, Releasing, Sending, Returning
<1> HIDE DEF r
<1>q. Quiet(w, r)
  BY <1>1, <1>5, <1>6 DEF Quiet
<1> QED BY <1>0, <1>1, <1>2, <1>3, <1>4, <1>q, QuietStep

\* A message that is sent is a new one.
LEMMA NewMessage ==
    ASSUME HistTypes, nmsg < MaxMsgs
    PROVE  \E m \in Messages : m = nmsg + 1 /\ m # 0 /\ m \in 0..MaxMsgs
<1>1. MaxMsgs \in Nat /\ nmsg \in 0..MaxMsgs
  BY QueueAssumption DEF HistTypes
<1>2. nmsg + 1 \in 0..MaxMsgs /\ nmsg + 1 # 0 /\ nmsg + 1 \in 1..2 * MaxMsgs
  BY <1>1
<1> QED BY <1>2 DEF Messages

\* The init of a service sends it its first message.
LEMMA InitSendInv ==
    ASSUME QueueInv, NEW w \in Workers, InitSend(w)
    PROVE  QueueInv'
<1> w \in Threads
  BY DEF Threads
<1>0. /\ th[w] \in Locals /\ Shape(w, th[w]) /\ HistTypes /\ w # Ext
      /\ global \in Seq(Handles) /\ quit \in BOOLEAN /\ th[w].pc = "init" /\ nmsg < MaxMsgs
  BY Record DEF InitSend
<1>m. PICK m \in Messages : m = nmsg + 1 /\ m # 0 /\ m \in 0..MaxMsgs
  BY <1>0, NewMessage
<1> DEFINE r == Sending(th[w], m, th[w].new, "inited")
<1>1. UNCHANGED <<slot, handle_index, ref, total, mq, global, quit>> /\ HistTypes'
  <2>1. th[w].new \in Handle0
    BY <1>0 DEF Locals
  <2>2. nmsg' = m /\ source' = [source EXCEPT ![m] = th[w].new]
    BY <1>m DEF InitSend
  <2> QED BY <1>0, <1>m, <2>1, <2>2 DEF InitSend, slots, HistTypes
<1>2. th' = [th EXCEPT ![w] = r]
  BY <1>0, <1>m DEF InitSend, Sending
<1>3. r \in Locals
  BY <1>0 DEF Locals, Pcs, Sending
<1>4. Shape(w, r)
  BY <1>0, <1>m DEF Shape, At, Locals, InCallback, Launching, Sending
<1>5. \A h \in Handles : Held(w, r, h) = Held(w, th[w], h) /\ HasT(w, r, h) = HasT(w, th[w], h)
  BY <1>0 DEF Held, HRel, HPush, HQueue, HNew, B, HasT, Has, Handles, Locals, Shape, At,
              InCallback, Launching, Sending
<1>6. r.pc # "delete" /\ r.reg = th[w].reg /\ At(r) # "drop" /\ th[w].pc # "delete"
  BY <1>0 DEF At, Locals, Sending
<1> HIDE DEF r
<1>q. Quiet(w, r)
  BY <1>1, <1>5, <1>6 DEF Quiet
<1> QED BY <1>0, <1>1, <1>2, <1>3, <1>4, <1>q, QuietStep

\* A callback, the timer or the socket thread sends a message.
LEMMA SendInv ==
    ASSUME QueueInv, NEW t \in Threads, NEW d \in Handles, Send(t, d)
    PROVE  QueueInv'
<1>0. /\ th[t] \in Locals /\ Shape(t, th[t]) /\ HistTypes /\ Ext \notin Workers
      /\ global \in Seq(Handles) /\ quit \in BOOLEAN /\ nmsg < MaxMsgs
      /\ th[t].pc \in {"idle", "call"}
  BY Record, QueueAssumption DEF Send
<1>m. PICK m \in Messages : m = nmsg + 1 /\ m # 0 /\ m \in 0..MaxMsgs
  BY <1>0, NewMessage
<1>d. d \in Handle0 /\ d # 0
  BY DEF Handles, Handle0
<1> DEFINE r == Sending(th[t], m, d, th[t].pc)
<1>1. UNCHANGED <<slot, handle_index, ref, total, mq, global, quit>> /\ HistTypes'
  <2>1. (IF t = Ext THEN 0 ELSE th[t].queue) \in Handle0
    BY <1>0, QueueAssumption DEF Locals, Handle0
  <2>2. nmsg' = m /\ source' = [source EXCEPT ![m] = IF t = Ext THEN 0 ELSE th[t].queue]
    BY <1>m DEF Send
  <2> QED BY <1>0, <1>m, <2>1, <2>2 DEF Send, slots, HistTypes
<1>2. th' = [th EXCEPT ![t] = r]
  BY <1>0, <1>m DEF Send, Sending
<1>3. r \in Locals
  BY <1>0, <1>d DEF Locals, Pcs, Sending
<1>4. Shape(t, r)
  BY <1>0, <1>m, <1>d DEF Shape, At, Locals, InCallback, Launching, Sending
<1>5. \A h \in Handles : Held(t, r, h) = Held(t, th[t], h) /\ HasT(t, r, h) = HasT(t, th[t], h)
  BY <1>0 DEF Held, HRel, HPush, HQueue, HNew, B, HasT, Has, Handles, Locals, Shape, At,
              InCallback, Launching, Sending
<1>6. r.pc # "delete" /\ r.reg = th[t].reg /\ At(r) # "drop" /\ th[t].pc # "delete"
  BY <1>0 DEF At, Locals, Sending
<1> HIDE DEF r
<1>q. Quiet(t, r)
  BY <1>1, <1>5, <1>6 DEF Quiet
<1> QED BY <1>0, <1>1, <1>2, <1>3, <1>4, <1>q, QuietStep

\* The end of a dispatch takes the next queue.
LEMMA SwapInv ==
    ASSUME QueueInv, NEW w \in Workers, Swap(w)
    PROVE  QueueInv'
<1> w \in Threads
  BY DEF Threads
<1>0. /\ th[w] \in Locals /\ Shape(w, th[w]) /\ HistTypes /\ Ext \notin Workers /\ 0 \in Handle0
      /\ global \in Seq(Handles) /\ quit \in BOOLEAN /\ th[w].pc = "swap"
  BY Record, QueueAssumption DEF Swap
<1>1. UNCHANGED <<slot, handle_index, ref, total, mq, quit>> /\ HistTypes'
  BY <1>0 DEF Swap, slots, hist, HistTypes
<1>2. CASE global = <<>>
  <2> DEFINE r == Releasing(th[w], th[w].queue, "top")
  <2>0. global' = global
    BY <1>0, <1>2 DEF Swap
  <2>1. th' = [th EXCEPT ![w] = r]
    BY <1>0, <1>2 DEF Swap, Goto, Releasing, Returning, Released
  <2>2. r \in Locals
    BY <1>0, <2>0 DEF Locals, Pcs, Releasing, Returning, Released
  <2>3. Shape(w, r)
    BY <1>0, <2>0 DEF Shape, At, Locals, InCallback, Launching, Releasing, Returning, Released
  <2>4. \A h \in Handles :
           /\ Held(w, r, h) = Held(w, th[w], h)
           /\ HasT(w, r, h) = HasT(w, th[w], h)
           /\ HasT(w, r, h) \in Nat /\ HasT(w, th[w], h) \in Nat
    BY <1>0, <2>0 DEF Held, HRel, HPush, HQueue, HNew, B, HasT, Has, Handles, Locals, Shape, At,
                InCallback, Launching, Releasing, Returning, Released
  <2>5. /\ r.pc # "delete" /\ r.reg = th[w].reg /\ th[w].pc # "delete"
        /\ At(r) = "drop" => mq[r.dropq].release
    BY <1>0, <1>2 DEF At, Locals, Releasing, Returning, Released
  <2> HIDE DEF r
  <2>x. \A h \in Handles : InSeq(global', h) + HasT(w, r, h) = InSeq(global, h) + HasT(w, th[w], h)
    BY <2>0, <2>4
  <2>6. Quiet(w, r)
    BY <2>4, <2>5, <2>x DEF Quiet
  <2> QED BY <1>0, <1>1, <2>0, <2>1, <2>2, <2>3, <2>6, QuietStep
<1>3. CASE global # <<>>
  <2> DEFINE r == [th[w] EXCEPT !.pc = "pushback", !.nextq = Head(global)]
  <2>0. /\ Head(global) \in Handles /\ Tail(global) \in Seq(Handles) /\ global' = Tail(global)
        /\ Head(global) \in Handle0 /\ Head(global) # 0
    BY <1>0, <1>3, PopSeq DEF Swap, Handles, Handle0
  <2>1. th' = [th EXCEPT ![w] = r]
    BY <1>0, <1>3 DEF Swap, Goto, Releasing, Returning, Released
  <2>2. r \in Locals
    BY <1>0, <2>0 DEF Locals, Pcs, Releasing, Returning, Released
  <2>3. Shape(w, r)
    BY <1>0, <2>0 DEF Shape, At, Locals, InCallback, Launching, Releasing, Returning, Released
  <2>4. \A h \in Handles :
           /\ Held(w, r, h) = Held(w, th[w], h)
           /\ HasT(w, r, h) = HasT(w, th[w], h) + B(Head(global) = h)
           /\ B(Head(global) = h) \in Nat /\ HasT(w, r, h) \in Nat /\ HasT(w, th[w], h) \in Nat
    BY <1>0, <2>0 DEF Held, HRel, HPush, HQueue, HNew, B, HasT, Has, Handles, Locals, Shape, At,
                InCallback, Launching, Releasing, Returning, Released
  <2>5. /\ r.pc # "delete" /\ r.reg = th[w].reg /\ th[w].pc # "delete"
        /\ At(r) = "drop" => mq[r.dropq].release
    BY <1>0, <1>3 DEF At, Locals, Releasing, Returning, Released
  <2> HIDE DEF r
  <2>x. \A h \in Handles : InSeq(global', h) + HasT(w, r, h) = InSeq(global, h) + HasT(w, th[w], h)
    BY <1>0, <1>3, <2>0, <2>4, PopSeq
  <2>6. Quiet(w, r)
    BY <2>4, <2>5, <2>x DEF Quiet
  <2> QED BY <1>0, <1>1, <2>0, <2>1, <2>2, <2>3, <2>6, QuietStep
<1> QED BY <1>2, <1>3

\* And it pushes the old one.
LEMMA PushBackInv ==
    ASSUME QueueInv, NEW w \in Workers, PushBack(w)
    PROVE  QueueInv'
<1> w \in Threads
  BY DEF Threads
<1>0. /\ th[w] \in Locals /\ Shape(w, th[w]) /\ HistTypes /\ Ext \notin Workers /\ 0 \in Handle0
      /\ global \in Seq(Handles) /\ quit \in BOOLEAN /\ th[w].pc = "pushback"
  BY Record, QueueAssumption DEF PushBack
<1>1. UNCHANGED <<slot, handle_index, ref, total, mq, quit>> /\ HistTypes'
  BY <1>0 DEF PushBack, slots, hist, HistTypes
<1> DEFINE r == [Releasing(th[w], th[w].queue, "top") EXCEPT !.queue = th[w].nextq, !.nextq = 0]
<1>8. /\ th[w].queue \in Handles /\ global' = Append(global, th[w].queue) /\ global' \in Seq(Handles)
  <2>1. th[w].queue \in Handles
    BY <1>0 DEF Shape, At, Locals, Handles, Handle0, InCallback, Launching
  <2>2. global' = Append(global, th[w].queue)
    BY <1>0 DEF PushBack
  <2> QED BY <1>0, <2>1, <2>2, AppendProperties
<1>7. th' = [th EXCEPT ![w] = r]
  BY <1>0 DEF PushBack, Goto, Releasing, Returning, Released
<1>2. r \in Locals
  BY <1>0, <1>8 DEF Locals, Pcs, Releasing, Returning, Released
<1>3. Shape(w, r)
  BY <1>0, <1>8 DEF Shape, At, Locals, InCallback, Launching, Releasing, Returning, Released
<1>4. \A h \in Handles :
         /\ Held(w, r, h) = Held(w, th[w], h)
         /\ HasT(w, r, h) + B(th[w].queue = h) = HasT(w, th[w], h)
         /\ B(th[w].queue = h) \in Nat /\ HasT(w, r, h) \in Nat /\ HasT(w, th[w], h) \in Nat
  BY <1>0, <1>8 DEF Held, HRel, HPush, HQueue, HNew, B, HasT, Has, Handles, Locals, Shape, At,
                InCallback, Launching, Releasing, Returning, Released
<1>5. /\ r.pc # "delete" /\ r.reg = th[w].reg /\ th[w].pc # "delete"
      /\ At(r) = "drop" => mq[r.dropq].release
  BY <1>0 DEF At, Locals, Releasing, Returning, Released
<1> HIDE DEF r
<1>9. \A h \in Handles :
       /\ InSeq(global, h) \in Nat /\ InSeq(global', h) \in Nat
       /\ InSeq(global', h) = InSeq(global, h) + B(th[w].queue = h)
  BY <1>0, <1>8, PushSeq
<1>x. \A h \in Handles : InSeq(global', h) + HasT(w, r, h) = InSeq(global, h) + HasT(w, th[w], h)
  BY <1>4, <1>5, <1>9
<1>6. Quiet(w, r)
  BY <1>4, <1>5, <1>x DEF Quiet
<1> QED BY <1>0, <1>1, <1>8, <1>7, <1>2, <1>3, <1>6, QuietStep

\* The queue of a new service is pushed.
LEMMA LaunchedInv ==
    ASSUME QueueInv, NEW w \in Workers, Launched(w)
    PROVE  QueueInv'
<1> w \in Threads
  BY DEF Threads
<1>0. /\ th[w] \in Locals /\ Shape(w, th[w]) /\ HistTypes /\ Ext \notin Workers /\ 0 \in Handle0
      /\ global \in Seq(Handles) /\ quit \in BOOLEAN /\ th[w].pc = "launched"
  BY Record, QueueAssumption DEF Launched
<1>1. UNCHANGED <<slot, handle_index, ref, total, mq, quit>> /\ HistTypes'
  BY <1>0 DEF Launched, slots, hist, HistTypes
<1> DEFINE r == [th[w] EXCEPT !.pc = "call", !.new = 0]
<1>8. /\ th[w].new \in Handles /\ global' = Append(global, th[w].new) /\ global' \in Seq(Handles)
  <2>1. th[w].new \in Handles
    BY <1>0 DEF Shape, At, Locals, Handles, Handle0, InCallback, Launching
  <2>2. global' = Append(global, th[w].new)
    BY <1>0 DEF Launched
  <2> QED BY <1>0, <2>1, <2>2, AppendProperties
<1>7. th' = [th EXCEPT ![w] = r]
  BY <1>0 DEF Launched, Goto, Releasing, Returning, Released
<1>2. r \in Locals
  BY <1>0, <1>8 DEF Locals, Pcs, Releasing, Returning, Released
<1>3. Shape(w, r)
  BY <1>0, <1>8 DEF Shape, At, Locals, InCallback, Launching, Releasing, Returning, Released
<1>4. \A h \in Handles :
         /\ Held(w, r, h) = Held(w, th[w], h)
         /\ HasT(w, r, h) + B(th[w].new = h) = HasT(w, th[w], h)
         /\ B(th[w].new = h) \in Nat /\ HasT(w, r, h) \in Nat /\ HasT(w, th[w], h) \in Nat
  BY <1>0, <1>8 DEF Held, HRel, HPush, HQueue, HNew, B, HasT, Has, Handles, Locals, Shape, At,
                InCallback, Launching, Releasing, Returning, Released
<1>5. /\ r.pc # "delete" /\ r.reg = th[w].reg /\ th[w].pc # "delete"
      /\ At(r) = "drop" => mq[r.dropq].release
  BY <1>0 DEF At, Locals, Releasing, Returning, Released
<1> HIDE DEF r
<1>9. \A h \in Handles :
       /\ InSeq(global, h) \in Nat /\ InSeq(global', h) \in Nat
       /\ InSeq(global', h) = InSeq(global, h) + B(th[w].new = h)
  BY <1>0, <1>8, PushSeq
<1>x. \A h \in Handles : InSeq(global', h) + HasT(w, r, h) = InSeq(global, h) + HasT(w, th[w], h)
  BY <1>4, <1>5, <1>9
<1>6. Quiet(w, r)
  BY <1>4, <1>5, <1>x DEF Quiet
<1> QED BY <1>0, <1>1, <1>8, <1>7, <1>2, <1>3, <1>6, QuietStep

\* skynet_mq_release pushes a queue whose context is not deleted yet.
LEMMA MqReleaseInv ==
    ASSUME QueueInv, NEW w \in Workers, MqRelease(w)
    PROVE  QueueInv'
<1> w \in Threads
  BY DEF Threads
<1>0. /\ th[w] \in Locals /\ Shape(w, th[w]) /\ HistTypes /\ Ext \notin Workers /\ 0 \in Handle0
      /\ global \in Seq(Handles) /\ quit \in BOOLEAN /\ th[w].pc = "mqrel"
  BY Record, QueueAssumption DEF MqRelease
<1>1. UNCHANGED <<slot, handle_index, ref, total, mq, quit>> /\ HistTypes'
  BY <1>0 DEF MqRelease, slots, hist, HistTypes
<1>2. CASE mq[th[w].dropq].release
  <2> DEFINE r == [th[w] EXCEPT !.pc = "drop"]
  <2>0. global' = global
    BY <1>0, <1>2 DEF MqRelease
  <2>1. th' = [th EXCEPT ![w] = r]
    BY <1>0, <1>2 DEF MqRelease, Goto, Releasing, Returning, Released
  <2>2. r \in Locals
    BY <1>0, <2>0 DEF Locals, Pcs, Releasing, Returning, Released
  <2>3. Shape(w, r)
    BY <1>0, <2>0 DEF Shape, At, Locals, InCallback, Launching, Releasing, Returning, Released
  <2>4. \A h \in Handles :
           /\ Held(w, r, h) = Held(w, th[w], h)
           /\ HasT(w, r, h) = HasT(w, th[w], h)
           /\ HasT(w, r, h) \in Nat /\ HasT(w, th[w], h) \in Nat
    BY <1>0, <2>0 DEF Held, HRel, HPush, HQueue, HNew, B, HasT, Has, Handles, Locals, Shape, At,
                InCallback, Launching, Releasing, Returning, Released
  <2>5. /\ r.pc # "delete" /\ r.reg = th[w].reg /\ th[w].pc # "delete"
        /\ At(r) = "drop" => mq[r.dropq].release
    BY <1>0, <1>2 DEF At, Locals, Releasing, Returning, Released
  <2> HIDE DEF r
  <2>x. \A h \in Handles : InSeq(global', h) + HasT(w, r, h) = InSeq(global, h) + HasT(w, th[w], h)
    BY <2>0, <2>4
  <2>6. Quiet(w, r)
    BY <2>4, <2>5, <2>x DEF Quiet
  <2> QED BY <1>0, <1>1, <2>0, <2>1, <2>2, <2>3, <2>6, QuietStep
<1>3. CASE ~mq[th[w].dropq].release
  <2> DEFINE r == Released(th[w])
  <2>0. /\ th[w].dropq \in Handles /\ global' = Append(global, th[w].dropq) /\ global' \in Seq(Handles)
    <3>1. th[w].dropq \in Handles
      BY <1>0 DEF Shape, At, Locals, Handles, Handle0, InCallback, Launching
    <3>2. global' = Append(global, th[w].dropq)
      BY <1>0, <1>3 DEF MqRelease
    <3> QED BY <1>0, <3>1, <3>2, AppendProperties
  <2>1. th' = [th EXCEPT ![w] = r]
    BY <1>0, <1>3 DEF MqRelease, Goto, Releasing, Returning, Released
  <2>2. r \in Locals
    BY <1>0, <2>0 DEF Locals, Pcs, Releasing, Returning, Released
  <2>3. Shape(w, r)
    BY <1>0, <2>0 DEF Shape, At, Locals, InCallback, Launching, Releasing, Returning, Released
  <2>4. \A h \in Handles :
           /\ Held(w, r, h) = Held(w, th[w], h)
           /\ HasT(w, r, h) + B(th[w].dropq = h) = HasT(w, th[w], h)
           /\ B(th[w].dropq = h) \in Nat /\ HasT(w, r, h) \in Nat /\ HasT(w, th[w], h) \in Nat
    BY <1>0, <2>0 DEF Held, HRel, HPush, HQueue, HNew, B, HasT, Has, Handles, Locals, Shape, At,
                InCallback, Launching, Releasing, Returning, Released
  <2>5. /\ r.pc # "delete" /\ r.reg = th[w].reg /\ th[w].pc # "delete"
        /\ At(r) = "drop" => mq[r.dropq].release
    BY <1>0, <1>3 DEF At, Locals, Releasing, Returning, Released
  <2> HIDE DEF r
  <2>9. \A h \in Handles :
         /\ InSeq(global, h) \in Nat /\ InSeq(global', h) \in Nat
         /\ InSeq(global', h) = InSeq(global, h) + B(th[w].dropq = h)
    BY <1>0, <2>0, PushSeq
  <2>x. \A h \in Handles : InSeq(global', h) + HasT(w, r, h) = InSeq(global, h) + HasT(w, th[w], h)
    BY <2>4, <2>5, <2>9
  <2>6. Quiet(w, r)
    BY <2>4, <2>5, <2>x DEF Quiet
  <2> QED BY <1>0, <1>1, <2>0, <2>1, <2>2, <2>3, <2>6, QuietStep
<1> QED BY <1>2, <1>3

\* The service of the queue is gone: its queue is released.
LEMMA GrabFails ==
    ASSUME QueueInv, NEW w \in Workers, Grab(w), ~Registered(th[w].queue)
    PROVE  QueueInv'
<1> w \in Threads
  BY DEF Threads
<1>0. /\ th[w] \in Locals /\ Shape(w, th[w]) /\ HistTypes /\ Ext \notin Workers /\ 0 \in Handle0
      /\ global \in Seq(Handles) /\ quit \in BOOLEAN /\ th[w].pc \in {"top", "got"} /\ th[w].queue # 0
  BY Record, QueueAssumption DEF Grab, Shape, At
<1>1. UNCHANGED <<slot, handle_index, ref, total, mq, quit>> /\ HistTypes'
  BY <1>0 DEF Grab, slots, hist, HistTypes
<1> DEFINE r == [th[w] EXCEPT !.pc = "mqrel", !.dropq = th[w].queue, !.queue = 0]
<1>8. global' = global
  BY <1>0 DEF Grab
<1>7. th' = [th EXCEPT ![w] = r]
  BY <1>0 DEF Grab, Goto, Releasing, Returning, Released
<1>2. r \in Locals
  BY <1>0, <1>8 DEF Locals, Pcs, Releasing, Returning, Released
<1>3. Shape(w, r)
  BY <1>0, <1>8 DEF Shape, At, Locals, InCallback, Launching, Releasing, Returning, Released
<1>4. \A h \in Handles :
         /\ Held(w, r, h) = Held(w, th[w], h)
         /\ HasT(w, r, h) = HasT(w, th[w], h)
         /\ HasT(w, r, h) \in Nat /\ HasT(w, th[w], h) \in Nat
  BY <1>0, <1>8 DEF Held, HRel, HPush, HQueue, HNew, B, HasT, Has, Handles, Locals, Shape, At,
                InCallback, Launching, Releasing, Returning, Released
<1>5. /\ r.pc # "delete" /\ r.reg = th[w].reg /\ th[w].pc # "delete"
      /\ At(r) = "drop" => mq[r.dropq].release
  BY <1>0 DEF At, Locals, Releasing, Returning, Released
<1> HIDE DEF r
<1>x. \A h \in Handles : InSeq(global', h) + HasT(w, r, h) = InSeq(global, h) + HasT(w, th[w], h)
  BY <1>8, <1>4
<1>6. Quiet(w, r)
  BY <1>4, <1>5, <1>x DEF Quiet
<1> QED BY <1>0, <1>1, <1>8, <1>7, <1>2, <1>3, <1>6, QuietStep

\* The destination is gone: the message is freed.
LEMMA SendGrabFails ==
    ASSUME QueueInv, NEW t \in Threads, SendGrab(t), ~Registered(th[t].dst)
    PROVE  QueueInv'
<1>0. /\ th[t] \in Locals /\ Shape(t, th[t]) /\ HistTypes /\ Ext \notin Workers /\ 0 \in Handle0
      /\ global \in Seq(Handles) /\ quit \in BOOLEAN /\ th[t].pc = "grab"
  BY Record, QueueAssumption DEF SendGrab
<1>1. UNCHANGED <<slot, handle_index, ref, total, mq, quit>> /\ HistTypes'
  BY <1>0 DEF SendGrab, slots, hist, HistTypes
<1> DEFINE r == [Returning(th[t]) EXCEPT !.out = 0, !.dst = 0]
<1>8. global' = global
  BY <1>0 DEF SendGrab
<1>7. th' = [th EXCEPT ![t] = r]
  BY <1>0 DEF SendGrab, Goto, Releasing, Returning, Released
<1>2. r \in Locals
  BY <1>0, <1>8 DEF Locals, Pcs, Releasing, Returning, Released
<1>3. Shape(t, r)
  BY <1>0, <1>8 DEF Shape, At, Locals, InCallback, Launching, Releasing, Returning, Released
<1>4. \A h \in Handles :
         /\ Held(t, r, h) = Held(t, th[t], h)
         /\ HasT(t, r, h) = HasT(t, th[t], h)
         /\ HasT(t, r, h) \in Nat /\ HasT(t, th[t], h) \in Nat
  BY <1>0, <1>8 DEF Held, HRel, HPush, HQueue, HNew, B, HasT, Has, Handles, Locals, Shape, At,
                InCallback, Launching, Releasing, Returning, Released
<1>5. /\ r.pc # "delete" /\ r.reg = th[t].reg /\ th[t].pc # "delete"
      /\ At(r) = "drop" => mq[r.dropq].release
  <2>1. At(th[t]) = "drop" => t \in Workers
    BY <1>0 DEF Shape, At, Threads
  <2>2. At(th[t]) = "drop" => mq[th[t].dropq].release
    BY <2>1 DEF QueueInv, LifeInv
  <2>3. At(r) = At(th[t]) /\ r.dropq = th[t].dropq
    BY <1>0 DEF At, Locals, Returning, Shape
  <2>4. r.pc # "delete" /\ r.reg = th[t].reg /\ th[t].pc # "delete"
    BY <1>0 DEF At, Locals, Returning, Shape
  <2> QED BY <2>2, <2>3, <2>4
<1> HIDE DEF r
<1>x. \A h \in Handles : InSeq(global', h) + HasT(t, r, h) = InSeq(global, h) + HasT(t, th[t], h)
  BY <1>8, <1>4
<1>6. Quiet(t, r)
  BY <1>4, <1>5, <1>x DEF Quiet
<1> QED BY <1>0, <1>1, <1>8, <1>7, <1>2, <1>3, <1>6, QuietStep

\* A context that is registered or that a thread holds is alive.
LEMMA Alive ==
    ASSUME QueueInv, NEW h \in Handles,
           Owned(h) \/ \E t \in Threads : Held(t, th[t], h) > 0
    PROVE  /\ ref[h] > 0 /\ ref[h] \in Nat
           /\ mq[h].state = "live" /\ ~mq[h].release
           /\ h < handle_index
<1>1. /\ ref[h] = Cardinality(Holders(h)) + B(Owned(h)) /\ ref[h] \in Nat
  BY DEF QueueInv, RefInv, Types
<1>2. IsFiniteSet(HoldersOf(th, h)) /\ Cardinality(Holders(h)) \in Nat
  BY HoldersFinite, HoldersIs, FS_CardinalityType
<1>3. ref[h] > 0
  <2>1. CASE Owned(h)
    BY <1>1, <1>2, <2>1 DEF B
  <2>2. CASE \E t \in Threads : Held(t, th[t], h) > 0
    <3>1. PICK t \in Threads : Held(t, th[t], h) > 0
      BY <2>2
    <3>2. HRel(th[t], h) \/ HPush(th[t], h) \/ HQueue(t, th[t], h) \/ HNew(t, th[t], h)
      BY <3>1 DEF Held, B
    <3>3. HoldersOf(th, h) # {}
      <4>1. \/ <<t, "rel">> \in HoldersOf(th, h) \/ <<t, "push">> \in HoldersOf(th, h)
            \/ <<t, "queue">> \in HoldersOf(th, h) \/ <<t, "new">> \in HoldersOf(th, h)
        BY <3>2 DEF HoldersOf
      <4> QED BY <4>1
    <3>4. Cardinality(HoldersOf(th, h)) # 0
      BY <1>2, <3>3, FS_EmptySet
    <3>5. B(Owned(h)) \in Nat
      BY DEF B
    <3>6. Cardinality(Holders(h)) # 0
      BY <3>4, HoldersIs
    <3> QED BY <1>1, <1>2, <3>5, <3>6
  <2> QED BY <2>1, <2>2
<1>4. mq[h].state = "live" /\ ~mq[h].release
  BY <1>3 DEF QueueInv, RefInv
<1>5. h < handle_index
  <2>1. handle_index \in Nat /\ h \in Nat
    <3>1. handle_index \in 1..MaxHandle + 1
      BY DEF QueueInv, Types
    <3>2. h \in 1..MaxHandle
      BY DEF Handles
    <3> QED BY <3>1, <3>2
  <2> QED BY <1>4, <2>1 DEF QueueInv, LifeInv
<1> QED BY <1>1, <1>3, <1>4, <1>5

\* Thread t, whose record becomes r, comes to hold one more reference, to e.
Counting(t, r, e) ==
    \A h \in Handles :
        /\ Held(t, r, h) = Held(t, th[t], h) + B(e = h)
        /\ HasT(t, r, h) = HasT(t, th[t], h)

\* skynet_handle_grab: a thread finds a context and counts itself.
LEMMA GrabStep ==
    ASSUME QueueInv, NEW t \in Threads, NEW r \in Locals, th' = [th EXCEPT ![t] = r],
           Shape(t, r), UNCHANGED <<slot, handle_index, total, mq, global, quit>>, HistTypes',
           NEW e \in Handles, Owned(e), ref' = [ref EXCEPT ![e] = @ + 1],
           Counting(t, r, e), th[t].pc # "delete", r.pc # "delete",
           r.reg = th[t].reg, At(r) = "drop" => mq[r.dropq].release
    PROVE  QueueInv'
<1>0. ref[e] > 0 /\ ref \in [Handles -> Nat]
  BY Alive DEF QueueInv, Types
<1>1. Step(t) /\ th'[t] = r
  BY StepLemma DEF QueueInv, Types
<1>2. Types'
  <2>1. ref' \in [Handles -> Nat]
    BY <1>0
  <2> QED BY <1>1, <2>1 DEF QueueInv, Types, HistTypes, Size, Step
<1>3. \A h \in Handles : Owned(h)' <=> Owned(h)
  BY DEF Owned, InSlot
<1>4. SlotInv'
  <2>1. \A w \in Workers : th'[w].reg = th[w].reg
    BY <1>1 DEF Step, Threads
  <2> QED BY <2>1, KeepSlots
<1>5. LifeInv' /\ RefInv' /\ DeleteInv' /\ TotalInv'
  <2>1. ASSUME NEW h \in Handles
        PROVE /\ mq'[h].state = mq[h].state /\ mq'[h].release = mq[h].release
              /\ mq[h].state = "none" => mq'[h] = mq[h]
              /\ ref'[h] - Held(t, th'[t], h) - B(Owned(h)')
                    = ref[h] - Held(t, th[t], h) - B(Owned(h))
              /\ ref'[h] = 0 <=> ref[h] = 0
    <3>1. ref'[h] = ref[h] + B(e = h) /\ ref[h] \in Nat /\ (ref'[h] = 0 <=> ref[h] = 0)
      BY <1>0 DEF B
    <3>2. /\ Held(t, th'[t], h) = Held(t, th[t], h) + B(e = h)
          /\ Held(t, th[t], h) \in Nat /\ B(e = h) \in Nat
      BY <1>1 DEF Counting, B, Held
    <3>3. B(Owned(h)') = B(Owned(h)) /\ B(Owned(h)) \in Nat
      BY <1>3 DEF B
    <3> QED BY <3>1, <3>2, <3>3
  <2> QED BY <1>1, <1>2, <1>4, <2>1, KeepRefs
<1>6. QueueInOnePlace'
  <2>1. \A h \in Handles : InSeq(global', h) + HasT(t, th'[t], h)
                             = InSeq(global, h) + HasT(t, th[t], h)
    BY <1>1 DEF Counting
  <2> QED BY <1>1, <1>2, <2>1, KeepPlaces DEF QueueInv, Types
<1>7. Shapes'
  BY <1>1, StepShapes DEF QueueInv
<1> QED BY <1>2, <1>4, <1>5, <1>6, <1>7 DEF QueueInv

\* skynet_handle_grab of the queue's handle.
LEMMA GrabSucceeds ==
    ASSUME QueueInv, NEW w \in Workers, Grab(w), Registered(th[w].queue)
    PROVE  QueueInv'
<1> w \in Threads
  BY DEF Threads
<1> DEFINE r == [th[w] EXCEPT !.pc = "pop0"]
<1>0. /\ th[w] \in Locals /\ Shape(w, th[w]) /\ HistTypes /\ Ext \notin Workers
      /\ th[w].pc \in {"top", "got"} /\ th[w].queue # 0
  BY Record, QueueAssumption DEF Grab, Shape, At
<1>1. UNCHANGED <<slot, handle_index, total, mq, global, quit>> /\ HistTypes'
  BY <1>0 DEF Grab, slots, hist, HistTypes
<1>2. th' = [th EXCEPT ![w] = r] /\ ref' = [ref EXCEPT ![th[w].queue] = @ + 1]
  BY DEF Grab, Goto
<1>3. r \in Locals
  BY <1>0 DEF Locals, Pcs
<1>4. Shape(w, r)
  BY <1>0 DEF Shape, At, Locals, InCallback, Launching
<1>5. th[w].queue \in Handles
  BY <1>0 DEF Locals, Handle0, Handles
<1>6. Counting(w, r, th[w].queue)
  BY <1>0 DEF Counting, Held, HRel, HPush, HQueue, HNew, B, HasT, Has, Handles, Locals,
              Shape, At, InCallback, Launching
<1>7. /\ r.pc # "delete" /\ r.reg = th[w].reg /\ th[w].pc # "delete"
      /\ At(r) # "drop"
  BY <1>0 DEF At, Locals
<1> HIDE DEF r
<1> QED BY <1>1, <1>2, <1>3, <1>4, <1>5, <1>6, <1>7, Findable, GrabStep

\* skynet_handle_grab of the destination of a message.
LEMMA SendGrabSucceeds ==
    ASSUME QueueInv, NEW t \in Threads, SendGrab(t), Registered(th[t].dst)
    PROVE  QueueInv'
<1> DEFINE r == [th[t] EXCEPT !.pc = "push"]
<1>0. /\ th[t] \in Locals /\ Shape(t, th[t]) /\ HistTypes /\ Ext \notin Workers
      /\ th[t].pc = "grab"
  BY Record, QueueAssumption DEF SendGrab
<1>1. UNCHANGED <<slot, handle_index, total, mq, global, quit>> /\ HistTypes'
  BY <1>0 DEF SendGrab, slots, hist, HistTypes
<1>2. th' = [th EXCEPT ![t] = r] /\ ref' = [ref EXCEPT ![th[t].dst] = @ + 1]
  BY DEF SendGrab, Goto
<1>3. r \in Locals
  BY <1>0 DEF Locals, Pcs
<1>4. Shape(t, r)
  BY <1>0 DEF Shape, At, Locals, InCallback, Launching
<1>5. th[t].dst \in Handles
  BY <1>0 DEF Locals, Handle0, Handles, Shape
<1>6. Counting(t, r, th[t].dst)
  BY <1>0 DEF Counting, Held, HRel, HPush, HQueue, HNew, B, HasT, Has, Handles, Locals,
              Shape, At, InCallback, Launching
<1>7. /\ r.pc # "delete" /\ r.reg = th[t].reg /\ th[t].pc # "delete"
      /\ At(r) = "drop" => mq[r.dropq].release
  <2>1. At(th[t]) = "drop" => t \in Workers
    BY <1>0 DEF Shape, At, Threads
  <2>2. At(th[t]) = "drop" => mq[th[t].dropq].release
    BY <2>1 DEF QueueInv, LifeInv
  <2>3. At(r) = At(th[t]) /\ r.dropq = th[t].dropq
    BY <1>0 DEF At, Locals, Shape
  <2>4. r.pc # "delete" /\ r.reg = th[t].reg /\ th[t].pc # "delete"
    BY <1>0 DEF At, Locals, Shape
  <2> QED BY <2>2, <2>3, <2>4
<1> HIDE DEF r
<1> QED BY <1>1, <1>2, <1>3, <1>4, <1>5, <1>6, <1>7, Findable, GrabStep

\* What QueueInOnePlace says of one queue.
Placed(h) ==
    /\ mq[h].state = "live" /\ (mq[h].in_global \/ mq[h].release) => Places(h) = 1
    /\ mq[h].state = "live" /\ ~mq[h].in_global /\ ~mq[h].release =>
          Places(h) = 0 /\ Length(mq[h]) = 0
    /\ mq[h].state # "live" => Places(h) = 0

\* The places of a queue are at most one, and the worker that has it is the one.
LEMMA OnePlace ==
    ASSUME QueueInv, NEW w \in Workers, NEW h \in Handles, Has(th[w], h) > 0
    PROVE  /\ Places(h) = 1 /\ Has(th[w], h) = 1 /\ InSeq(global, h) = 0
           /\ mq[h].state = "live" /\ (mq[h].in_global \/ mq[h].release)
           /\ \A u \in Workers \ {w} : /\ th[u].queue # h /\ th[u].nextq # h
                                       /\ th[u].new # h /\ th[u].dropq # h
<1>1. /\ Places(h) = InSeq(global, h) + PlacesOf(th, h)
      /\ InSeq(global, h) \in Nat /\ PlacesOf(th, h) \in Nat
  BY PlacesIs DEF QueueInv, Types
<1>2. Has(th[w], h) \in Nat /\ PlacesOf(th, h) >= Has(th[w], h)
  BY HasPlace
<1>3. Placed(h)
  BY DEF QueueInv, QueueInOnePlace, Placed
<1>4. Places(h) # 0
  BY <1>1, <1>2
<1>5. Places(h) = 1 /\ mq[h].state = "live" /\ (mq[h].in_global \/ mq[h].release)
  BY <1>3, <1>4 DEF Placed
<1>6. PlacesOf(th, h) = 1 /\ Has(th[w], h) = 1 /\ InSeq(global, h) = 0
  BY <1>1, <1>2, <1>5
<1>7. ASSUME NEW u \in Workers \ {w}
      PROVE  th[u].queue # h /\ th[u].nextq # h /\ th[u].new # h /\ th[u].dropq # h
  <2> DEFINE z == [queue |-> 0, nextq |-> 0, new |-> 0, dropq |-> 0]
             g == [v \in Threads |-> IF v = w THEN z ELSE th[v]]
  <2>1. Others(th, g, w) /\ g[w] = z /\ g[u] = th[u]
    BY DEF Others, Threads
  <2>2. Has(z, h) = 0
    BY DEF Has, B, Handles
  <2> HIDE DEF g, z
  <2>3. PlacesOf(g, h) \in Nat /\ PlacesOf(g, h) - Has(g[w], h) = PlacesOf(th, h) - Has(th[w], h)
    BY <2>1, PlacesCount
  <2>4. PlacesOf(g, h) = 0
    BY <1>6, <2>1, <2>2, <2>3
  <2>5. g[u].queue # h /\ g[u].nextq # h /\ g[u].new # h /\ g[u].dropq # h
    BY <2>4, NoPlace
  <2> QED BY <2>1, <2>5
<1> QED BY <1>5, <1>6, <1>7

\* A worker that releases or dispatches a queue has it.
LEMMA HasIt ==
    ASSUME QueueInv, NEW w \in Workers, NEW h \in Handles,
           h \in {th[w].queue, th[w].nextq, th[w].new, th[w].dropq}
    PROVE  Has(th[w], h) > 0
BY DEF Has, B

\* A step that changes the places and the queue of e only.
LEMMA OtherPlaces ==
    ASSUME QueueInv, NEW t, Step(t), global' \in Seq(Handles), NEW e \in Handles, Placed(e)',
           \A h \in Handles \ {e} :
              /\ mq'[h] = mq[h]
              /\ InSeq(global', h) + HasT(t, th'[t], h) = InSeq(global, h) + HasT(t, th[t], h)
    PROVE  QueueInOnePlace'
<1>1. ASSUME NEW h \in Handles, h # e PROVE Places(h)' = Places(h)
  <2>1. global \in Seq(Handles)
    BY DEF QueueInv, Types
  <2>2. HasT(t, th'[t], h) \in Nat /\ HasT(t, th[t], h) \in Nat
    BY DEF HasT, Has, B
  <2>3. InSeq(global', h) + HasT(t, th'[t], h) = InSeq(global, h) + HasT(t, th[t], h)
    BY <1>1
  <2>4. /\ Places(h) \in Nat /\ Places(h)' \in Nat
        /\ InSeq(global, h) \in Nat /\ InSeq(global', h) \in Nat
        /\ Places(h)' - InSeq(global', h) - HasT(t, th'[t], h)
             = Places(h) - InSeq(global, h) - HasT(t, th[t], h)
    BY <2>1, PlacesStep
  <2> QED BY <2>2, <2>3, <2>4
<1>2. ASSUME NEW h \in Handles PROVE Placed(h)'
  <2>1. CASE h = e
    BY <2>1
  <2>2. CASE h # e
    <3>1. Placed(h)
      BY DEF QueueInv, QueueInOnePlace, Placed
    <3>2. mq'[h] = mq[h] /\ Places(h)' = Places(h)
      BY <1>1, <2>2
    <3> QED BY <3>1, <3>2 DEF Placed
  <2> QED BY <2>1, <2>2
<1> QED BY <1>2 DEF QueueInOnePlace, Placed

\* skynet_handle_retire clears one slot.
LEMMA RetireSlot ==
    ASSUME QueueInv, NEW e \in Handles, Registered(e), slot' = Retired(e)
    PROVE  /\ Size' = Size /\ slot' \in [0..Size - 1 -> Handle0]
           /\ \A h \in Handles : InSlot(h)' <=> InSlot(h) /\ h # e
           /\ \A i \in 0..Size - 1 : slot'[i] # 0 => slot'[i] = slot[i]
<1>1. /\ Size \in Nat \ {0} /\ slot \in [0..Size - 1 -> Handle0] /\ DOMAIN slot = 0..Size - 1
      /\ 0 \in Handle0 /\ 0 \notin Handles
  <2>1. 0 \in Handle0 /\ 0 \notin Handles
    BY QueueAssumption DEF Handle0, Handles
  <2> QED BY <2>1 DEF QueueInv, Types
<1>2. e % Size \in 0..Size - 1 /\ slot[e % Size] = e
  BY Findable DEF Registered
<1>3. slot' = [slot EXCEPT ![e % Size] = 0]
  BY DEF Retired
<1>4. slot' \in [0..Size - 1 -> Handle0] /\ DOMAIN slot' = DOMAIN slot
  BY <1>1, <1>3
<1>5. Size' = Size
  BY <1>4 DEF Size
<1>i. \A i \in 0..Size - 1 : slot[i] = e => i = e % Size
  BY <1>1, <1>2 DEF QueueInv, SlotInv
<1>6. ASSUME NEW h \in Handles PROVE InSlot(h)' <=> InSlot(h) /\ h # e
  <2>1. ASSUME NEW i \in 0..Size - 1 PROVE slot'[i] = h <=> slot[i] = h /\ h # e
    BY <1>1, <1>2, <1>3, <1>i
  <2> QED BY <1>1, <1>4, <2>1 DEF InSlot
<1>7. \A i \in 0..Size - 1 : slot'[i] # 0 => slot'[i] = slot[i]
  BY <1>1, <1>3
<1> QED BY <1>2, <1>4, <1>5, <1>6, <1>7

\* A thread takes over the reference of the slot it clears.
LEMMA RetireStep ==
    ASSUME QueueInv, NEW t \in Threads, NEW r \in Locals, th' = [th EXCEPT ![t] = r],
           Shape(t, r), UNCHANGED <<handle_index, ref, total, mq, global, quit>>, HistTypes',
           NEW e \in Handles, Registered(e), slot' = Retired(e), Counting(t, r, e),
           th[t].pc # "delete", r.pc # "delete", At(r) # "drop", r.reg = th[t].reg
    PROVE  QueueInv'
<1>1. Step(t) /\ th'[t] = r
  BY StepLemma DEF QueueInv, Types
<1>0. Owned(e)
  BY Findable
<1>r. /\ Size' = Size /\ slot' \in [0..Size - 1 -> Handle0]
      /\ \A h \in Handles : InSlot(h)' <=> InSlot(h) /\ h # e
      /\ \A i \in 0..Size - 1 : slot'[i] # 0 => slot'[i] = slot[i]
  BY RetireSlot
<1>3. \A h \in Handles : Owned(h)' <=> Owned(h) /\ h # e
  BY <1>r DEF Owned
<1>2. Types'
  BY <1>1, <1>r DEF QueueInv, Types, HistTypes, Step
<1>4. SlotInv'
  <2>1. ASSUME NEW w \in Workers, th'[w].reg # 0
        PROVE  /\ mq'[th'[w].reg].state = "none" /\ InTable(slot', th'[w].reg)
               /\ th'[w].reg < handle_index'
               /\ \A v \in Workers : th'[v].reg = th'[w].reg => v = w
    <3>1. \A v \in Workers : th'[v].reg = th[v].reg
      BY <1>1 DEF Step, Threads
    <3>2. /\ mq[th[w].reg].state = "none" /\ InSlot(th[w].reg) /\ th[w].reg < handle_index
          /\ \A v \in Workers : th[v].reg = th[w].reg => v = w
      BY <2>1, <3>1 DEF QueueInv, SlotInv, RegInv
    <3>3. th[w].reg \in Handle0
      BY DEF QueueInv, Types, Threads, Locals
    <3>4. PICK n \in Handles : n = th[w].reg /\ n = th'[w].reg
      BY <2>1, <3>1, <3>3 DEF Handle0, Handles
    <3>5. n # e
      BY <1>0, <3>2, <3>4 DEF Owned
    <3>6. InSlot(n)'
      BY <1>r, <3>2, <3>4, <3>5
    <3>7. InTable(slot', th'[w].reg)
      BY <3>4, <3>6 DEF InSlot, InTable
    <3> QED BY <3>1, <3>2, <3>7
  <2>2. RegInv'
    BY <2>1 DEF RegInv, InSlot, InTable
  <2>3. /\ \A i \in 0..Size - 1 : slot'[i] # 0 => slot'[i] < handle_index'
        /\ \A i, j \in 0..Size - 1 : slot'[i] # 0 /\ slot'[i] = slot'[j] => i = j
    BY <1>r DEF QueueInv, SlotInv
  <2> QED BY <1>r, <2>2, <2>3 DEF SlotInv
<1>5. LifeInv' /\ RefInv' /\ DeleteInv' /\ TotalInv'
  <2>1. ASSUME NEW h \in Handles
        PROVE /\ mq'[h].state = mq[h].state /\ mq'[h].release = mq[h].release
              /\ mq[h].state = "none" => mq'[h] = mq[h]
              /\ ref'[h] - Held(t, th'[t], h) - B(Owned(h)')
                    = ref[h] - Held(t, th[t], h) - B(Owned(h))
              /\ ref'[h] = 0 <=> ref[h] = 0
    <3>1. ref'[h] = ref[h] /\ ref[h] \in Nat
      BY DEF QueueInv, Types
    <3>2. /\ Held(t, th'[t], h) = Held(t, th[t], h) + B(e = h)
          /\ Held(t, th[t], h) \in Nat /\ B(e = h) \in Nat
      BY <1>1 DEF Counting, B, Held
    <3>3. B(Owned(h)') + B(e = h) = B(Owned(h)) /\ B(Owned(h)) \in Nat /\ B(Owned(h)') \in Nat
      <4>1. (Owned(h)' <=> Owned(h) /\ h # e) /\ Owned(e)
        BY <1>0, <1>3
      <4>2. CASE h = e
        BY <4>1, <4>2 DEF B
      <4>3. CASE h # e
        BY <4>1, <4>3 DEF B
      <4> QED BY <4>2, <4>3
    <3> QED BY <3>1, <3>2, <3>3
  <2> QED BY <1>1, <1>2, <1>4, <2>1, KeepRefs
<1>6. QueueInOnePlace'
  <2>1. \A h \in Handles : InSeq(global', h) + HasT(t, th'[t], h)
                             = InSeq(global, h) + HasT(t, th[t], h)
    BY <1>1 DEF Counting
  <2> QED BY <1>1, <1>2, <2>1, KeepPlaces DEF QueueInv, Types
<1>7. Shapes'
  BY <1>1, StepShapes DEF QueueInv
<1> QED BY <1>2, <1>4, <1>5, <1>6, <1>7 DEF QueueInv

\* A callback ends a service.
LEMMA KillInv ==
    ASSUME QueueInv, NEW w \in Workers, NEW e \in Handles, Kill(w, e)
    PROVE  QueueInv'
<1> w \in Threads
  BY DEF Threads
<1> DEFINE r == Releasing(th[w], e, "call")
<1>0. /\ th[w] \in Locals /\ Shape(w, th[w]) /\ HistTypes /\ Ext \notin Workers
      /\ th[w].pc = "call" /\ Registered(e) /\ slot' = Retired(e) /\ e \in Handle0 /\ e # 0
  BY Record, QueueAssumption DEF Kill, Handles, Handle0
<1>1. UNCHANGED <<handle_index, ref, total, mq, global, quit>> /\ HistTypes'
  BY <1>0 DEF Kill, hist, HistTypes
<1>2. th' = [th EXCEPT ![w] = r]
  BY DEF Kill
<1>3. r \in Locals
  BY <1>0 DEF Locals, Pcs, Releasing
<1>4. Shape(w, r)
  BY <1>0 DEF Shape, At, Locals, InCallback, Launching, Releasing
<1>6. Counting(w, r, e)
  BY <1>0 DEF Counting, Held, HRel, HPush, HQueue, HNew, B, HasT, Has, Handles, Locals,
              Shape, At, InCallback, Launching, Releasing
<1>7. r.pc # "delete" /\ r.reg = th[w].reg /\ th[w].pc # "delete" /\ At(r) # "drop"
  BY <1>0 DEF At, Locals, Releasing
<1> HIDE DEF r
<1> QED BY <1>0, <1>1, <1>2, <1>3, <1>4, <1>6, <1>7, RetireStep

\* The launch of a service fails.
LEMMA LaunchFailedInv ==
    ASSUME QueueInv, NEW w \in Workers, LaunchFailed(w)
    PROVE  QueueInv'
<1> w \in Threads
  BY DEF Threads
<1> DEFINE e == th[w].new
           p == [th[w] EXCEPT !.pc = "mqrel", !.dropq = e, !.new = 0]
           r == Releasing(p, e, "mqrel")
<1>0. /\ th[w] \in Locals /\ Shape(w, th[w]) /\ HistTypes /\ Ext \notin Workers /\ w # Ext
      /\ th[w].pc = "failed" /\ slot' = Retired(e) /\ 0 \in Handle0
      /\ global \in Seq(Handles) /\ quit \in BOOLEAN
  BY Record, QueueAssumption DEF LaunchFailed
<1>e. e \in Handles /\ e # 0
  BY <1>0 DEF Shape, At, Launching, InCallback, Locals, Handle0, Handles
<1>1. UNCHANGED <<handle_index, ref, total, mq, global, quit>> /\ HistTypes'
  BY <1>0 DEF LaunchFailed, hist, HistTypes
<1>2. th' = [th EXCEPT ![w] = IF Registered(e) THEN r ELSE p]
  BY DEF LaunchFailed
\* the context is found and its slot is cleared
<1>3. CASE Registered(e)
  <2>2. th' = [th EXCEPT ![w] = r]
    BY <1>2, <1>3
  <2>3. r \in Locals
    BY <1>0 DEF Locals, Pcs, Releasing
  <2>4. Shape(w, r)
    BY <1>0 DEF Shape, At, Locals, InCallback, Launching, Releasing
  <2>6. Counting(w, r, e)
    BY <1>0 DEF Counting, Held, HRel, HPush, HQueue, HNew, B, HasT, Has, Handles, Locals,
                Shape, At, InCallback, Launching, Releasing
  <2>7. r.pc # "delete" /\ r.reg = th[w].reg /\ th[w].pc # "delete" /\ At(r) # "drop"
    BY <1>0 DEF At, Locals, Releasing
  <2> HIDE DEF r, e, p
  <2> QED BY <1>0, <1>e, <1>1, <1>3, <2>2, <2>3, <2>4, <2>6, <2>7, RetireStep
\* it is not found
<1>4. CASE ~Registered(e)
  <2>1. slot' = slot
    BY <1>0, <1>4 DEF Retired
  <2>2. th' = [th EXCEPT ![w] = p]
    BY <1>2, <1>4
  <2>3. p \in Locals
    BY <1>0 DEF Locals, Pcs
  <2>4. Shape(w, p)
    BY <1>0 DEF Shape, At, Locals, InCallback, Launching
  <2>5. \A h \in Handles :
           /\ Held(w, p, h) = Held(w, th[w], h)
           /\ HasT(w, p, h) = HasT(w, th[w], h)
    BY <1>0 DEF Held, HRel, HPush, HQueue, HNew, B, HasT, Has, Handles, Locals, Shape, At,
                InCallback, Launching
  <2>6. /\ p.pc # "delete" /\ p.reg = th[w].reg /\ th[w].pc # "delete"
        /\ At(p) = "drop" => mq[p.dropq].release
    BY <1>0 DEF At, Locals
  <2> HIDE DEF r, e, p
  <2>7. Quiet(w, p)
    BY <1>1, <2>5, <2>6 DEF Quiet
  <2> QED BY <1>0, <1>1, <2>1, <2>2, <2>3, <2>4, <2>7, QuietStep
<1> QED BY <1>3, <1>4

\* Queues other than e stay where they are.
Elsewhere(t, r, e) ==
    \A h \in Handles \ {e} :
        InSeq(global', h) + HasT(t, r, h) = InSeq(global, h) + HasT(t, th[t], h)

SameRefs(t, r) == \A h \in Handles : Held(t, r, h) = Held(t, th[t], h)

\* A step that changes one queue e, and neither its state nor its mark.
LEMMA QueueStep ==
    ASSUME QueueInv, NEW t \in Threads, NEW r \in Locals, th' = [th EXCEPT ![t] = r],
           Shape(t, r), UNCHANGED <<slot, handle_index, ref, total, quit>>, HistTypes',
           global' \in Seq(Handles), NEW e \in Handles, NEW q \in Queues, Ring(q), Filled(q),
           mq' = [mq EXCEPT ![e] = q], mq[e].state = "live", q.state = mq[e].state,
           q.release = mq[e].release, Placed(e)',
           SameRefs(t, r), Elsewhere(t, r, e),
           th[t].pc # "delete", r.pc # "delete", r.reg = th[t].reg,
           At(r) = "drop" => mq[r.dropq].release
    PROVE  QueueInv'
<1>1. Step(t) /\ th'[t] = r
  BY StepLemma DEF QueueInv, Types
<1>0. mq \in [Handles -> Queues] /\ \A h \in Handles : Ring(mq[h]) /\ Filled(mq[h])
  BY DEF QueueInv, Types
<1>2. Types'
  <2>1. mq' \in [Handles -> Queues]
    BY <1>0
  <2>2. \A h \in Handles : Ring(mq'[h]) /\ Filled(mq'[h])
    BY <1>0
  <2>3. \A h \in Handles : Ring(mq[h])' /\ Filled(mq[h])'
    BY <2>2 DEF Ring, Filled, Contents, Length
  <2> QED BY <1>1, <2>1, <2>3 DEF QueueInv, Types, HistTypes, Size, Step
<1>3. \A h \in Handles : Owned(h)' <=> Owned(h)
  <2>1. \A h \in Handles : mq'[h].state = mq[h].state
    BY <1>0
  <2> QED BY <2>1, KeepOwned
<1>4. SlotInv'
  <2>1. \A w \in Workers : th'[w].reg = th[w].reg
    BY <1>1 DEF Step, Threads
  <2>2. \A h \in Handles : mq'[h].state = mq[h].state
    BY <1>0
  <2> QED BY <2>1, <2>2, KeepSlots
<1>5. LifeInv' /\ RefInv' /\ DeleteInv' /\ TotalInv'
  <2>1. ASSUME NEW h \in Handles
        PROVE /\ mq'[h].state = mq[h].state /\ mq'[h].release = mq[h].release
              /\ mq[h].state = "none" => mq'[h] = mq[h]
              /\ ref'[h] - Held(t, th'[t], h) - B(Owned(h)')
                    = ref[h] - Held(t, th[t], h) - B(Owned(h))
              /\ ref'[h] = 0 <=> ref[h] = 0
    <3>1. ref'[h] = ref[h] /\ Held(t, th'[t], h) = Held(t, th[t], h)
      BY <1>1 DEF SameRefs
    <3>2. B(Owned(h)') = B(Owned(h))
      BY <1>3 DEF B
    <3>3. /\ mq'[h].state = mq[h].state /\ mq'[h].release = mq[h].release
          /\ mq[h].state = "none" => mq'[h] = mq[h]
      BY <1>0
    <3> QED BY <3>1, <3>2, <3>3
  <2> QED BY <1>1, <1>2, <1>4, <2>1, KeepRefs
<1>6. QueueInOnePlace'
  <2>1. \A h \in Handles \ {e} :
              /\ mq'[h] = mq[h]
              /\ InSeq(global', h) + HasT(t, th'[t], h) = InSeq(global, h) + HasT(t, th[t], h)
    BY <1>0, <1>1 DEF Elsewhere
  <2> QED BY <1>1, <2>1, OtherPlaces
<1>7. Shapes'
  BY <1>1, StepShapes DEF QueueInv
<1> QED BY <1>2, <1>4, <1>5, <1>6, <1>7 DEF QueueInv

\* The queue a worker has keeps its place while the worker keeps it.
LEMMA StaysPlaced ==
    ASSUME QueueInv, NEW w \in Workers, Step(w), global' = global, NEW e \in Handles,
           Has(th[w], e) > 0, Has(th'[w], e) = Has(th[w], e),
           mq'[e].state = mq[e].state, mq'[e].release = mq[e].release,
           mq'[e].in_global = mq[e].in_global
    PROVE  Placed(e)'
<1>1. /\ Places(e) = 1 /\ mq[e].state = "live" /\ (mq[e].in_global \/ mq[e].release)
  BY OnePlace
<1>2. global \in Seq(Handles)
  BY DEF QueueInv, Types
<1>3. /\ Places(e) \in Nat /\ Places(e)' \in Nat
      /\ InSeq(global, e) \in Nat /\ InSeq(global', e) \in Nat
      /\ Places(e)' - InSeq(global', e) - HasT(w, th'[w], e)
             = Places(e) - InSeq(global, e) - HasT(w, th[w], e)
  BY <1>2, PlacesStep
<1>4. HasT(w, th'[w], e) = HasT(w, th[w], e) /\ HasT(w, th[w], e) \in Nat
  BY DEF HasT, Has, B
<1>5. Places(e)' = 1
  BY <1>1, <1>3, <1>4
<1> QED BY <1>1, <1>5 DEF Placed

\* What is left when a message leaves a queue are messages.
LEMMA PoppedFilled ==
    ASSUME NEW q \in Queues, Ring(q), Filled(q), Length(q) > 0
    PROVE  q.ring[q.head] \in Messages /\ Filled(Popped(q))
<1>1. /\ q.ring[q.head] = Contents(q)[1] /\ Length(Popped(q)) = Length(q) - 1
      /\ Contents(Popped(q)) = Tail(Contents(q))
  BY PoppedRing
<1>2. /\ Length(q) \in Nat
      /\ Contents(q) \in Seq({0} \cup Messages) /\ Len(Contents(q)) = Length(q)
  BY LengthNat
<1>3. Contents(q)[1] \in Messages
  BY <1>2 DEF Filled
<1>4. ASSUME NEW k \in 1..Length(q) - 1 PROVE Tail(Contents(q))[k] \in Messages
  <2> DEFINE s == Contents(q)
  <2>1. s[k + 1] \in Messages
    BY <1>2 DEF Filled
  <2>2. Tail(s)[k] = s[k + 1]
    <3> HIDE DEF s
    <3>1. s \in Seq({0} \cup Messages) /\ Len(s) = Length(q)
      BY <1>2 DEF s
    <3>2. s # <<>>
      BY <1>2, <3>1
    <3> QED BY <3>1, <3>2, HeadTailProperties
  <2> QED BY <2>1, <2>2
<1> QED BY <1>1, <1>3, <1>4 DEF Filled

\* And when one enters.
LEMMA PushedFilled ==
    ASSUME NEW q \in Queues, Ring(q), Filled(q), NEW m \in Messages
    PROVE  Filled(Pushed(q, m))
<1>1. Length(Pushed(q, m)) = Length(q) + 1 /\ Contents(Pushed(q, m)) = Append(Contents(q), m)
  BY PushedRing
<1>2. /\ Length(q) \in Nat
      /\ Contents(q) \in Seq({0} \cup Messages) /\ Len(Contents(q)) = Length(q)
  BY LengthNat
<1>3. ASSUME NEW k \in 1..Length(q) + 1 PROVE Append(Contents(q), m)[k] \in Messages
  <2> DEFINE s == Contents(q)
  <2>1. k \in 1..Length(q) => s[k] \in Messages
    BY DEF Filled
  <2>2. s \in Seq({0} \cup Messages) /\ Len(s) = Length(q)
    BY <1>2
  <2> HIDE DEF s
  <2>3. Append(s, m)[k] = IF k = Len(s) + 1 THEN m ELSE s[k]
    BY <1>2, <2>2, AppendProperties
  <2>4. Append(s, m)[k] \in Messages
    BY <1>2, <2>1, <2>2, <2>3
  <2> QED BY <2>4 DEF s
<1> QED BY <1>1, <1>3 DEF Filled

\* skynet_mq_pop takes a message.
LEMMA MqPopTakes ==
    ASSUME QueueInv, NEW w \in Workers, MqPop(w), Length(mq[th[w].queue]) > 0
    PROVE  QueueInv'
<1> w \in Threads
  BY DEF Threads
<1>0. /\ th[w] \in Locals /\ Shape(w, th[w]) /\ HistTypes /\ Ext \notin Workers /\ w # Ext
      /\ th[w].pc \in {"pop0", "pop"} /\ global \in Seq(Handles)
  BY Record, QueueAssumption DEF MqPop
<1>e. PICK e \in Handles : e = th[w].queue /\ e # 0
  BY <1>0 DEF Shape, At, Locals, Handle0, Handles
<1> DEFINE q == mq[e]
           p == Popped(q)
           first == th[w].pc = "pop0"
           l == IF first /\ Weight[w] >= 0 THEN "len" ELSE "call"
           k == IF first THEN 0 ELSE th[w].left - 1
           r == [th[w] EXCEPT !.msg = q.ring[q.head], !.left = k, !.pc = l]
<1>q. q \in Queues /\ Ring(q) /\ Filled(q)
  BY <1>e DEF QueueInv, Types
<1>p. /\ p \in Queues /\ Ring(p) /\ q.ring[q.head] = Contents(q)[1]
      /\ p.state = q.state /\ p.release = q.release /\ p.in_global = q.in_global
      /\ q.ring[q.head] \in Messages /\ Filled(p)
  <2>1. Length(q) > 0
    BY <1>e
  <2> QED BY <1>q, <2>1, PoppedRing, PoppedFilled
<1>h. Has(th[w], e) > 0
  BY <1>e, HasIt
<1>o. mq[e].state = "live"
  BY <1>e, <1>h, OnePlace
<1>1. UNCHANGED <<slot, handle_index, ref, total, global, quit>> /\ HistTypes'
  BY <1>0 DEF MqPop, slots, hist, HistTypes
<1>2. th' = [th EXCEPT ![w] = r] /\ mq' = [mq EXCEPT ![e] = p]
  <2>1. Length(q) # 0
    BY <1>e, <1>q, LengthNat
  <2>2. mq' = [mq EXCEPT ![e] = p]
    BY <1>e, <2>1 DEF MqPop
  <2>3. th' = [th EXCEPT ![w].msg = q.ring[q.head], ![w].left = IF first THEN 0 ELSE @ - 1, ![w].pc = l]
    BY <1>e, <2>1 DEF MqPop
  <2>4. th \in [Threads -> Locals]
    BY DEF QueueInv, Types
  <2>5. th' = [th EXCEPT ![w] = r]
    <3> HIDE DEF l, q
    <3> QED BY <2>3, <2>4 DEF Locals
  <2> QED BY <2>2, <2>5
<1>m. PICK m \in Messages : m = q.ring[q.head] /\ m # 0
  BY <1>p DEF Messages
<1>k. k \in Nat /\ l \in {"len", "call"} /\ (l = "len" => Weight[w] >= 0)
  BY <1>0 DEF Shape, At, Locals
<1>7. r = [th[w] EXCEPT !.msg = m, !.left = k, !.pc = l]
  BY <1>m
<1> HIDE DEF r, k, l, p
<1>3. r \in Locals
  BY <1>0, <1>7, <1>k DEF Locals, Pcs
<1>4. Shape(w, r)
  BY <1>0, <1>7, <1>k, <1>m DEF Shape, At, Locals, InCallback, Launching
<1>5. SameRefs(w, r) /\ \A h \in Handles : HasT(w, r, h) = HasT(w, th[w], h) /\ Has(r, h) = Has(th[w], h)
  BY <1>0, <1>7, <1>k DEF SameRefs, Held, HRel, HPush, HQueue, HNew, B, HasT, Has, Handles,
              Locals, Shape, At, InCallback, Launching
<1>6. r.pc # "delete" /\ r.reg = th[w].reg /\ th[w].pc # "delete" /\ At(r) # "drop"
  BY <1>0, <1>7, <1>k DEF At, Locals
<1>8. Step(w) /\ th'[w] = r
  BY <1>2, <1>3, <1>4, StepLemma DEF QueueInv, Types
<1>9. mq'[e] = p /\ global' = global
  BY <1>1, <1>2, <1>e DEF QueueInv, Types
<1>10. Elsewhere(w, r, e)
  BY <1>5, <1>9 DEF Elsewhere
<1>11. Placed(e)'
  <2>1. Has(th'[w], e) = Has(th[w], e)
    BY <1>5, <1>8, <1>e
  <2>2. /\ mq'[e].state = mq[e].state /\ mq'[e].release = mq[e].release
        /\ mq'[e].in_global = mq[e].in_global
    BY <1>p, <1>9
  <2> QED BY <1>e, <1>h, <1>8, <1>9, <2>1, <2>2, StaysPlaced
<1> QED BY <1>0, <1>1, <1>2, <1>e, <1>o, <1>p, <1>3, <1>4, <1>5, <1>6, <1>9, <1>10, <1>11, QueueStep

\* skynet_mq_pop of an empty queue: nobody has it afterwards.
LEMMA MqPopEmpty ==
    ASSUME QueueInv, NEW w \in Workers, MqPop(w), Length(mq[th[w].queue]) = 0
    PROVE  QueueInv'
<1> w \in Threads
  BY DEF Threads
<1>0. /\ th[w] \in Locals /\ Shape(w, th[w]) /\ HistTypes /\ Ext \notin Workers /\ w # Ext
      /\ th[w].pc \in {"pop0", "pop"} /\ global \in Seq(Handles) /\ 0 \in Handle0
  BY Record, QueueAssumption DEF MqPop
<1>e. PICK e \in Handles : e = th[w].queue /\ e # 0 /\ e \in Handle0
  BY <1>0 DEF Shape, At, Locals, Handle0, Handles
<1> DEFINE q == mq[e]
           p == Emptied(q)
           r == [Releasing(th[w], e, "next") EXCEPT !.queue = 0]
<1>q. q \in Queues /\ Ring(q) /\ Filled(q) /\ Length(q) = 0
  BY <1>e DEF QueueInv, Types
<1>p. /\ p \in Queues /\ Ring(p) /\ Filled(p) /\ Length(p) = 0
      /\ p.state = q.state /\ p.release = q.release /\ p.in_global = FALSE
  <2>1. /\ p \in Queues /\ p.head = q.head /\ p.tail = q.tail /\ p.cap = q.cap /\ p.ring = q.ring
        /\ p.state = q.state /\ p.release = q.release /\ p.in_global = FALSE
    BY <1>q DEF Queues, Emptied
  <2>2. Length(p) = 0
    BY <1>q, <2>1 DEF Length
  <2> HIDE DEF p
  <2>3. Filled(p)
    BY <2>2 DEF Filled
  <2> QED BY <1>q, <2>1, <2>2, <2>3 DEF Ring
<1>h. Has(th[w], e) > 0
  BY <1>e, HasIt
<1>o. mq[e].state = "live" /\ Places(e) = 1
  BY <1>e, <1>h, OnePlace
<1>1. UNCHANGED <<slot, handle_index, ref, total, global, quit>> /\ HistTypes'
  BY <1>0 DEF MqPop, slots, hist, HistTypes
<1>2. th' = [th EXCEPT ![w] = r] /\ mq' = [mq EXCEPT ![e] = p]
  <2>1. ~(Length(q) > 0)
    BY <1>q
  <2> QED BY <1>e, <2>1 DEF MqPop
<1>3. r \in Locals
  BY <1>0, <1>e DEF Locals, Pcs, Releasing
<1>4. Shape(w, r)
  BY <1>0, <1>e DEF Shape, At, Locals, InCallback, Launching, Releasing
<1>5. SameRefs(w, r) /\ \A h \in Handles : HasT(w, th[w], h) = HasT(w, r, h) + B(e = h) /\ HasT(w, r, h) \in Nat
  BY <1>0, <1>e DEF SameRefs, Held, HRel, HPush, HQueue, HNew, B, HasT, Has, Handles,
              Locals, Shape, At, InCallback, Launching, Releasing
<1>a. ~q.release
  <2>1. Held(w, th[w], e) > 0
    BY <1>0, <1>e DEF Held, HRel, HPush, HQueue, HNew, B
  <2> QED BY <1>e, <2>1, Alive
<1>6. r.pc # "delete" /\ r.reg = th[w].reg /\ th[w].pc # "delete" /\ At(r) # "drop"
  BY <1>0 DEF At, Locals, Releasing
<1> HIDE DEF r, p
<1>8. Step(w) /\ th'[w] = r
  BY <1>2, <1>3, <1>4, StepLemma DEF QueueInv, Types
<1>9. mq'[e] = p /\ global' = global
  BY <1>1, <1>2, <1>e DEF QueueInv, Types
<1>10. Elsewhere(w, r, e)
  BY <1>5, <1>9 DEF Elsewhere, B
<1>11. Placed(e)'
  <2>1. /\ Places(e) \in Nat /\ Places(e)' \in Nat
        /\ InSeq(global, e) \in Nat /\ InSeq(global', e) \in Nat
        /\ Places(e)' - InSeq(global', e) - HasT(w, th'[w], e)
             = Places(e) - InSeq(global, e) - HasT(w, th[w], e)
    BY <1>0, <1>8, <1>9, PlacesStep
  <2>2. HasT(w, th[w], e) = HasT(w, th'[w], e) + 1 /\ HasT(w, th'[w], e) \in Nat
    BY <1>5, <1>8 DEF B
  <2>3. Places(e)' = 0
    BY <1>o, <1>9, <2>1, <2>2
  <2>4. Length(mq'[e]) = 0 /\ mq'[e].in_global = FALSE /\ ~mq'[e].release
    BY <1>9, <1>p, <1>a
  <2>5. Length(mq[e])' = 0
    BY <2>4 DEF Length
  <2> QED BY <2>3, <2>4, <2>5 DEF Placed
<1> QED BY <1>0, <1>1, <1>2, <1>e, <1>o, <1>p, <1>3, <1>4, <1>5, <1>6, <1>9, <1>10, <1>11, QueueStep

\* skynet_mq_push: the first message of a queue that is nowhere pushes the queue.
LEMMA SendPushInv ==
    ASSUME QueueInv, NEW t \in Threads, SendPush(t)
    PROVE  QueueInv'
<1>0. /\ th[t] \in Locals /\ Shape(t, th[t]) /\ HistTypes /\ Ext \notin Workers
      /\ th[t].pc = "push" /\ global \in Seq(Handles) /\ 0 \in Handle0
  BY Record, QueueAssumption DEF SendPush
<1>e. PICK e \in Handles : e = th[t].dst /\ e # 0 /\ e \in Handle0
  BY <1>0 DEF Shape, At, Locals, Handle0, Handles
<1>m. PICK m \in Messages : m = th[t].out
  BY <1>0 DEF Shape, At, Locals
<1> DEFINE q == mq[e]
           u == Pushed(q, m)
           p == [u EXCEPT !.in_global = TRUE]
           r == [th[t] EXCEPT !.pc = "rel", !.rel = e, !.out = 0, !.dst = 0]
<1>q. q \in Queues /\ Ring(q) /\ Filled(q)
  BY <1>e DEF QueueInv, Types
<1>u. /\ u \in Queues /\ Ring(u) /\ Filled(u) /\ u.state = q.state /\ u.release = q.release
  BY <1>q, PushedRing, PushedFilled
<1>p. /\ p \in Queues /\ Ring(p) /\ Filled(p)
      /\ p.state = q.state /\ p.release = q.release /\ p.in_global = TRUE
  <2> HIDE DEF u
  <2>1. p \in Queues /\ p.head = u.head /\ p.tail = u.tail /\ p.cap = u.cap /\ p.ring = u.ring
        /\ p.state = u.state /\ p.release = u.release /\ p.in_global = TRUE
    BY <1>u DEF Queues
  <2>2. Length(p) = Length(u) /\ Contents(p) = Contents(u)
    BY <2>1 DEF Length, Contents
  <2> HIDE DEF p
  <2> QED BY <1>u, <2>1, <2>2 DEF Ring, Filled
<1>a. q.state = "live" /\ ~q.release
  <2>1. Held(t, th[t], e) > 0
    BY <1>0, <1>e DEF Held, HRel, HPush, HQueue, HNew, B
  <2> QED BY <2>1, Alive
<1>1. UNCHANGED <<slot, handle_index, ref, total, quit>> /\ HistTypes'
  BY <1>0 DEF SendPush, slots, hist, HistTypes
<1>2. /\ th' = [th EXCEPT ![t] = r] /\ mq' = [mq EXCEPT ![e] = p]
      /\ global' = IF q.in_global THEN global ELSE Append(global, e)
  BY <1>e, <1>m DEF SendPush
<1>3. r \in Locals
  BY <1>0, <1>e DEF Locals, Pcs
<1>4. Shape(t, r)
  BY <1>0, <1>e DEF Shape, At, Locals, InCallback, Launching
<1>5. SameRefs(t, r) /\ \A h \in Handles : HasT(t, th[t], h) = HasT(t, r, h) /\ HasT(t, r, h) \in Nat
  BY <1>0, <1>e DEF SameRefs, Held, HRel, HPush, HQueue, HNew, B, HasT, Has, Handles,
              Locals, Shape, At, InCallback, Launching
<1>6. /\ r.pc # "delete" /\ r.reg = th[t].reg /\ th[t].pc # "delete"
      /\ At(r) = "drop" => mq[r.dropq].release
  <2>1. At(th[t]) = "drop" => t \in Workers
    BY <1>0 DEF Shape, At, Threads
  <2>2. At(th[t]) = "drop" => mq[th[t].dropq].release
    BY <2>1 DEF QueueInv, LifeInv
  <2>3. At(r) = At(th[t]) /\ r.dropq = th[t].dropq
    BY <1>0 DEF At, Locals, Shape
  <2>4. r.pc # "delete" /\ r.reg = th[t].reg /\ th[t].pc # "delete"
    BY <1>0 DEF At, Locals, Shape
  <2> QED BY <2>2, <2>3, <2>4
<1> HIDE DEF r, p, u
<1>8. Step(t) /\ th'[t] = r
  BY <1>2, <1>3, <1>4, StepLemma DEF QueueInv, Types
<1>9. mq'[e] = p
  BY <1>2 DEF QueueInv, Types
<1>g. /\ global' \in Seq(Handles)
      /\ \A h \in Handles : /\ InSeq(global', h) \in Nat /\ InSeq(global, h) \in Nat
                            /\ InSeq(global', h) = InSeq(global, h) + B(~q.in_global /\ e = h)
  <2>1. CASE q.in_global
    <3>1. global' = global
      BY <1>2, <2>1
    <3> QED BY <1>0, <2>1, <3>1, InSeqNat DEF B
  <2>2. CASE ~q.in_global
    <3>1. global' = Append(global, e)
      BY <1>2, <2>2
    <3> QED BY <1>0, <2>2, <3>1, PushSeq DEF B
  <2> QED BY <2>1, <2>2
<1>10. Elsewhere(t, r, e)
  BY <1>5, <1>g DEF Elsewhere, B
<1>11. Placed(e)'
  <2>1. /\ Places(e) \in Nat /\ Places(e)' \in Nat
        /\ Places(e)' - InSeq(global', e) - HasT(t, th'[t], e)
             = Places(e) - InSeq(global, e) - HasT(t, th[t], e)
    BY <1>0, <1>8, <1>g, PlacesStep
  <2>2. HasT(t, th[t], e) = HasT(t, th'[t], e) /\ HasT(t, th[t], e) \in Nat
    BY <1>5, <1>8
  <2>3. Places(e) = B(q.in_global)
    BY <1>a DEF QueueInv, QueueInOnePlace, B
  <2>4. Places(e)' = 1
    BY <1>g, <2>1, <2>2, <2>3 DEF B
  <2> QED BY <1>9, <1>p, <1>a, <2>4 DEF Placed
<1> QED BY <1>0, <1>1, <1>2, <1>e, <1>a, <1>p, <1>3, <1>4, <1>5, <1>6, <1>9, <1>g, <1>10, <1>11, QueueStep

\* _drop_queue takes a message and reports it.
LEMMA DropQueueTakes ==
    ASSUME QueueInv, NEW w \in Workers, DropQueue(w), Length(mq[th[w].dropq]) > 0
    PROVE  QueueInv'
<1> w \in Threads
  BY DEF Threads
<1>0. /\ th[w] \in Locals /\ Shape(w, th[w]) /\ HistTypes /\ Ext \notin Workers /\ w # Ext
      /\ th[w].pc = "drop" /\ global \in Seq(Handles)
  BY Record, QueueAssumption DEF DropQueue
<1>e. PICK e \in Handles : e = th[w].dropq /\ e # 0
  BY <1>0 DEF Shape, At, Locals, Handle0, Handles
<1> DEFINE q == mq[e]
           p == Popped(q)
<1>q. q \in Queues /\ Ring(q) /\ Filled(q)
  BY <1>e DEF QueueInv, Types
<1>p. /\ p \in Queues /\ Ring(p) /\ q.ring[q.head] = Contents(q)[1]
      /\ p.state = q.state /\ p.release = q.release /\ p.in_global = q.in_global
      /\ q.ring[q.head] \in Messages /\ Filled(p)
  <2>1. Length(q) > 0
    BY <1>e
  <2> QED BY <1>q, <2>1, PoppedRing, PoppedFilled
<1>h. Has(th[w], e) > 0
  BY <1>e, HasIt
<1>o. mq[e].state = "live"
  BY <1>e, <1>h, OnePlace
<1>m. PICK m \in Messages : m = q.ring[q.head] /\ m # 0
  BY <1>p DEF Messages
<1> DEFINE r == Reported(th[w], m)
<1>1. UNCHANGED <<slot, handle_index, ref, total, global, quit>> /\ HistTypes'
  <2>0. Length(q) # 0
    BY <1>e, <1>q, LengthNat
  <2>1. fate' = [fate EXCEPT ![m] = "dropped"]
    BY <1>e, <1>m, <2>0 DEF DropQueue
  <2> QED BY <1>0, <2>1 DEF DropQueue, slots, hist, HistTypes
<1>2. th' = [th EXCEPT ![w] = r] /\ mq' = [mq EXCEPT ![e] = p]
  <2>1. Length(q) # 0
    BY <1>e, <1>q, LengthNat
  <2> QED BY <1>e, <1>m, <2>1 DEF DropQueue
<1>r. \/ r = th[w]
      \/ \E x \in Messages, d \in Handles : r = Sending(th[w], x, d, "drop") /\ x # 0 /\ d # 0 /\ d \in Handle0
  <2>1. CASE m \in Errors \/ source[m] = 0
    BY <2>1 DEF Reported
  <2>2. CASE ~(m \in Errors \/ source[m] = 0)
    <3>1. source[m] \in Handles /\ source[m] \in Handle0 /\ source[m] # 0
      <4>1. source[m] \in Handle0 /\ source[m] # 0
        BY <1>0, <2>2 DEF HistTypes
      <4> QED BY <4>1 DEF Handle0, Handles
    <3>2. MaxMsgs + m \in Messages /\ MaxMsgs + m # 0
      <4>1. m \in 1..2 * MaxMsgs /\ m \notin MaxMsgs + 1..2 * MaxMsgs /\ MaxMsgs \in Nat
        BY <2>2, QueueAssumption DEF Messages, Errors
      <4>2. MaxMsgs + m \in 1..2 * MaxMsgs /\ MaxMsgs + m # 0
        BY <4>1
      <4> QED BY <4>2 DEF Messages
    <3>3. r = Sending(th[w], MaxMsgs + m, source[m], "drop")
      BY <2>2 DEF Reported
    <3> QED BY <3>1, <3>2, <3>3
  <2> QED BY <2>1, <2>2
<1> HIDE DEF r, p
<1>3. r \in Locals
  BY <1>0, <1>r DEF Locals, Pcs, Sending
<1>4. Shape(w, r)
  BY <1>0, <1>r DEF Shape, At, Locals, InCallback, Launching, Sending
<1>5. SameRefs(w, r) /\ \A h \in Handles : HasT(w, r, h) = HasT(w, th[w], h) /\ Has(r, h) = Has(th[w], h)
  BY <1>0, <1>r DEF SameRefs, Held, HRel, HPush, HQueue, HNew, B, HasT, Has, Handles,
              Locals, Shape, At, InCallback, Launching, Sending
<1>6. /\ r.pc # "delete" /\ r.reg = th[w].reg /\ th[w].pc # "delete"
      /\ At(r) = "drop" => mq[r.dropq].release
  <2>1. mq[th[w].dropq].release
    BY <1>0 DEF QueueInv, LifeInv, At
  <2>2. r.dropq = th[w].dropq /\ r.pc # "delete" /\ r.reg = th[w].reg /\ th[w].pc # "delete"
    BY <1>0, <1>r DEF Locals, Sending
  <2> QED BY <2>1, <2>2
<1>8. Step(w) /\ th'[w] = r
  BY <1>2, <1>3, <1>4, StepLemma DEF QueueInv, Types
<1>9. mq'[e] = p /\ global' = global
  BY <1>1, <1>2, <1>e DEF QueueInv, Types
<1>10. Elsewhere(w, r, e)
  BY <1>5, <1>9 DEF Elsewhere
<1>11. Placed(e)'
  <2>1. Has(th'[w], e) = Has(th[w], e)
    BY <1>5, <1>8, <1>e
  <2>2. /\ mq'[e].state = mq[e].state /\ mq'[e].release = mq[e].release
        /\ mq'[e].in_global = mq[e].in_global
    BY <1>p, <1>9
  <2> QED BY <1>e, <1>h, <1>8, <1>9, <2>1, <2>2, StaysPlaced
<1> QED BY <1>0, <1>1, <1>2, <1>e, <1>o, <1>p, <1>3, <1>4, <1>5, <1>6, <1>9, <1>10, <1>11, QueueStep

\* A context is given up by one step; nothing but the count, the marks and the
\* records of the thread change.
LEMMA ReleaseInv ==
    ASSUME QueueInv, NEW t \in Threads, Release(t)
    PROVE  QueueInv'
<1>0. /\ th[t] \in Locals /\ Shape(t, th[t]) /\ HistTypes /\ Ext \notin Workers
      /\ th[t].pc = "rel" /\ global \in Seq(Handles) /\ 0 \in Handle0
  BY Record, QueueAssumption DEF Release
<1>e. PICK e \in Handles : e = th[t].rel
  BY <1>0 DEF Shape, At, Locals, Handle0, Handles
<1> DEFINE r == IF ref[e] = 1 THEN [th[t] EXCEPT !.pc = "delete"] ELSE Returning(th[t])
<1>a. ref[e] \in Nat /\ ref[e] > 0 /\ mq[e].state = "live" /\ ~mq[e].release
  <2>1. Held(t, th[t], e) > 0
    BY <1>0, <1>e DEF Held, HRel, HPush, HQueue, HNew, B
  <2> QED BY <2>1, Alive
<1>1. UNCHANGED <<slot, handle_index, total, mq, global, quit>> /\ HistTypes'
  BY <1>0 DEF Release, slots, hist, HistTypes
<1>2. th' = [th EXCEPT ![t] = r] /\ ref' = [ref EXCEPT ![e] = @ - 1]
  BY <1>e DEF Release
<1>3. r \in Locals
  BY <1>0 DEF Locals, Pcs, Returning
<1>4. Shape(t, r)
  BY <1>0 DEF Shape, At, Locals, InCallback, Launching, Returning
<1>5. \A h \in Handles : /\ Held(t, th[t], h) = Held(t, r, h) + B(e = h) /\ Held(t, r, h) \in Nat
                        /\ HasT(t, th[t], h) = HasT(t, r, h)
  BY <1>0, <1>e DEF Held, HRel, HPush, HQueue, HNew, B, HasT, Has, Handles,
              Locals, Shape, At, InCallback, Launching, Returning
<1>6. At(r) = At(th[t]) /\ r.reg = th[t].reg /\ r.dropq = th[t].dropq
  BY <1>0 DEF At, Locals, Returning, Shape
<1>7. \A h \in Handles : r.pc = "delete" /\ r.rel = h <=> h = e /\ ref[e] = 1
  BY <1>0, <1>e DEF Locals, Returning, Shape, At
<1> HIDE DEF r
<1>8. Step(t) /\ th'[t] = r
  BY <1>2, <1>3, <1>4, StepLemma DEF QueueInv, Types
<1>9. Types'
  <2>1. ref' \in [Handles -> Nat]
    <3>1. ref \in [Handles -> Nat]
      BY DEF QueueInv, Types
    <3>2. ref[e] - 1 \in Nat
      BY <1>a
    <3> QED BY <1>2, <3>1, <3>2
  <2> QED BY <1>1, <1>8, <2>1 DEF QueueInv, Types, HistTypes, Size, Step
<1>10. Shapes'
  BY <1>8, StepShapes DEF QueueInv
<1>11. SlotInv'
  <2>1. \A w \in Workers : th'[w].reg = th[w].reg
    BY <1>6, <1>8 DEF Step, Threads
  <2> QED BY <1>1, <2>1, KeepSlots
<1>12. LifeInv'
  <2>1. ASSUME NEW w \in Workers, At(th'[w]) = "drop" PROVE mq'[th'[w].dropq].release
    <3>1. At(th[w]) = At(th'[w]) /\ th'[w].dropq = th[w].dropq
      BY <1>6, <1>8 DEF Step, Threads
    <3> QED BY <1>1, <2>1, <3>1 DEF QueueInv, LifeInv
  <2> QED BY <1>1, <2>1 DEF QueueInv, LifeInv
<1>13. RefInv'
  <2> SUFFICES ASSUME NEW h \in Handles
               PROVE  /\ ref'[h] = Cardinality(Holders(h)') + B(Owned(h)')
                      /\ ref'[h] > 0 => mq'[h].state = "live" /\ ~mq'[h].release
    BY DEF RefInv
  <2>1. /\ Cardinality(Holders(h)) \in Nat /\ Cardinality(Holders(h)') \in Nat
        /\ Cardinality(Holders(h)') - Held(t, th'[t], h)
             = Cardinality(Holders(h)) - Held(t, th[t], h)
    BY <1>8, HoldersStep
  <2>2. ref[h] = Cardinality(Holders(h)) + B(Owned(h)) /\ ref[h] \in Nat
    BY DEF QueueInv, RefInv, Types
  <2>3. B(Owned(h)') = B(Owned(h)) /\ B(Owned(h)) \in Nat /\ B(e = h) \in Nat
    BY <1>1 DEF Owned, InSlot, B
  <2>4. ref'[h] = ref[h] - B(e = h) /\ ref'[h] \in Nat
    <3>1. ref \in [Handles -> Nat] /\ ref' \in [Handles -> Nat]
      BY <1>9 DEF QueueInv, Types
    <3>2. ref'[h] = IF e = h THEN ref[h] - 1 ELSE ref[h]
      BY <1>2, <3>1
    <3> QED BY <3>1, <3>2 DEF B
  <2>5. Held(t, th[t], h) = Held(t, th'[t], h) + B(e = h) /\ Held(t, th'[t], h) \in Nat
    BY <1>5, <1>8
  <2>6. ref'[h] = Cardinality(Holders(h)') + B(Owned(h)')
    BY <2>1, <2>2, <2>3, <2>4, <2>5
  <2>7. ref'[h] > 0 => ref[h] > 0
    BY <2>2, <2>3, <2>4
  <2> QED BY <1>1, <2>6, <2>7 DEF QueueInv, RefInv
<1>14. \A u \in Threads, h \in Handles :
          Deleting(u, h)' <=> Deleting(u, h) \/ (u = t /\ h = e /\ ref[e] = 1)
  BY <1>0, <1>7, <1>8 DEF Step, Deleting
<1>15. DeleteInv'
  <2>1. \A u \in Threads : ~Deleting(u, e)
    BY <1>a DEF QueueInv, DeleteInv
  <2>2. \A h \in Handles : h # e => ref'[h] = ref[h]
    BY <1>2 DEF QueueInv, Types
  <2>3. ref'[e] = ref[e] - 1
    BY <1>2 DEF QueueInv, Types
  <2>4. ASSUME NEW h \in Handles, mq'[h].state # "none", ref'[h] = 0
        PROVE  mq'[h].release \/ \E u \in Threads : Deleting(u, h)'
    <3>1. CASE h = e
      <4>1. ref[e] = 1
        BY <1>a, <2>3, <2>4, <3>1
      <4> QED BY <1>14, <3>1, <4>1
    <3>2. CASE h # e
      <4>1. mq[h].release \/ \E u \in Threads : Deleting(u, h)
        BY <1>1, <2>2, <2>4, <3>2 DEF QueueInv, DeleteInv, Created
      <4> QED BY <1>1, <1>14, <4>1
    <3> QED BY <3>1, <3>2
  <2>5. ASSUME NEW u \in Threads, NEW h \in Handles, Deleting(u, h)'
        PROVE  /\ mq'[h].state = "live" /\ ~mq'[h].release /\ ref'[h] = 0
               /\ \A v \in Threads : Deleting(v, h)' => v = u
    <3>1. CASE h = e
      <4>1. u = t /\ ref[e] = 1
        BY <1>14, <2>1, <2>5, <3>1
      <4>2. \A v \in Threads : Deleting(v, h)' => v = u
        BY <1>14, <2>1, <3>1, <4>1
      <4> QED BY <1>1, <1>a, <2>3, <3>1, <4>1, <4>2
    <3>2. CASE h # e
      <4>1. Deleting(u, h)
        BY <1>14, <2>5, <3>2
      <4>2. /\ mq[h].state = "live" /\ ~mq[h].release /\ ref[h] = 0
            /\ \A v \in Threads : Deleting(v, h) => v = u
        BY <4>1 DEF QueueInv, DeleteInv
      <4>3. \A v \in Threads : Deleting(v, h)' => v = u
        BY <1>14, <3>2, <4>2
      <4> QED BY <1>1, <2>2, <3>2, <4>2, <4>3
    <3> QED BY <3>1, <3>2
  <2> QED BY <2>4, <2>5 DEF DeleteInv, Created
<1>16. TotalInv'
  BY <1>1 DEF QueueInv, TotalInv, Contexts, Created
<1>17. QueueInOnePlace'
  <2>1. \A h \in Handles : InSeq(global', h) + HasT(t, th'[t], h)
                             = InSeq(global, h) + HasT(t, th[t], h)
    BY <1>1, <1>5, <1>8
  <2> QED BY <1>0, <1>1, <1>8, <2>1, KeepPlaces DEF QueueInv
<1> QED BY <1>9, <1>10, <1>11, <1>12, <1>13, <1>15, <1>16, <1>17 DEF QueueInv

\* The contexts are finitely many.
LEMMA ContextsFinite == IsFiniteSet(Contexts) /\ Contexts \subseteq Handles
<1>1. Contexts \subseteq 1..MaxHandle /\ IsFiniteSet(1..MaxHandle)
  BY QueueAssumption, FS_Interval DEF Contexts, Created, Handles
<1> QED BY <1>1, FS_Subset DEF Handles

\* delete_context marks the queue, and pushes it if it is nowhere.
LEMMA DeleteStepInv ==
    ASSUME QueueInv, NEW t \in Threads, Delete(t)
    PROVE  QueueInv'
<1>0. /\ th[t] \in Locals /\ Shape(t, th[t]) /\ HistTypes /\ Ext \notin Workers
      /\ th[t].pc = "delete" /\ global \in Seq(Handles) /\ 0 \in Handle0
  BY Record, QueueAssumption DEF Delete
<1>e. PICK e \in Handles : e = th[t].rel
  BY <1>0 DEF Shape, At, Locals, Handle0, Handles
<1>d. Deleting(t, e)
  BY <1>0, <1>e DEF Deleting
<1>a. /\ mq[e].state = "live" /\ ~mq[e].release /\ ref[e] = 0
      /\ \A u \in Threads : Deleting(u, e) => u = t
  BY <1>d DEF QueueInv, DeleteInv
<1> DEFINE r == Returning(th[t])
           q == mq[e]
           p == [q EXCEPT !.release = TRUE]
<1>1. UNCHANGED <<slot, handle_index, ref, quit>> /\ HistTypes'
  BY <1>0 DEF Delete, slots, hist, HistTypes
<1>2. /\ th' = [th EXCEPT ![t] = r] /\ total' = total - 1
      /\ global' = IF q.in_global THEN global ELSE Append(global, e)
  BY <1>e DEF Delete
<1>m. mq \in [Handles -> Queues] /\ mq' = [mq EXCEPT ![e] = p] /\ mq'[e] = p
  <2>1. mq \in [Handles -> Queues]
    BY DEF QueueInv, Types
  <2>2. mq' = [mq EXCEPT ![e].release = TRUE]
    BY <1>e DEF Delete
  <2> QED BY <2>1, <2>2
<1>q. q \in Queues /\ Ring(q) /\ Filled(q)
  BY DEF QueueInv, Types
<1>p. /\ p \in Queues /\ Ring(p) /\ Filled(p)
      /\ p.state = "live" /\ p.release /\ p.in_global = q.in_global
  <2>1. /\ p \in Queues /\ p.head = q.head /\ p.tail = q.tail /\ p.cap = q.cap /\ p.ring = q.ring
        /\ p.state = q.state /\ p.release /\ p.in_global = q.in_global
    BY <1>q DEF Queues
  <2>2. Length(p) = Length(q) /\ Contents(p) = Contents(q)
    BY <2>1 DEF Length, Contents
  <2> HIDE DEF p
  <2> QED BY <1>q, <1>a, <2>1, <2>2 DEF Ring, Filled
<1>n. \A h \in Handles : h # e => mq'[h] = mq[h]
  BY <1>m
<1>3. r \in Locals
  BY <1>0 DEF Locals, Pcs, Returning
<1>4. Shape(t, r)
  BY <1>0 DEF Shape, At, Locals, InCallback, Launching, Returning
<1>5. \A h \in Handles : /\ Held(t, th[t], h) = Held(t, r, h) /\ Held(t, r, h) \in Nat
                        /\ HasT(t, th[t], h) = HasT(t, r, h) /\ HasT(t, r, h) \in Nat
  BY <1>0, <1>e DEF Held, HRel, HPush, HQueue, HNew, B, HasT, Has, Handles,
              Locals, Shape, At, InCallback, Launching, Returning
<1>6. /\ At(r) = At(th[t]) /\ r.reg = th[t].reg /\ r.dropq = th[t].dropq /\ r.pc # "delete"
  BY <1>0 DEF At, Locals, Returning, Shape
<1> HIDE DEF r, p
<1>8. Step(t) /\ th'[t] = r
  BY <1>2, <1>3, <1>4, StepLemma DEF QueueInv, Types
<1>g. /\ global' \in Seq(Handles)
      /\ \A h \in Handles : /\ InSeq(global', h) \in Nat /\ InSeq(global, h) \in Nat
                            /\ InSeq(global', h) = InSeq(global, h) + B(~q.in_global /\ e = h)
  <2>1. CASE q.in_global
    <3>1. global' = global
      BY <1>2, <2>1
    <3> QED BY <1>0, <2>1, <3>1, InSeqNat DEF B
  <2>2. CASE ~q.in_global
    <3>1. global' = Append(global, e)
      BY <1>2, <2>2
    <3> QED BY <1>0, <2>2, <3>1, PushSeq DEF B
  <2> QED BY <2>1, <2>2
<1>c. Contexts' = Contexts \ {e} /\ e \in Contexts
  <2>1. e \in Contexts
    BY <1>a DEF Contexts, Created
  <2>2. \A h \in Handles : h \in Contexts' <=> h \in Contexts /\ h # e
    BY <1>m, <1>n, <1>p DEF Contexts, Created
  <2> QED BY <2>1, <2>2 DEF Contexts, Created
<1>t. total' \in Nat /\ TotalInv'
  <2>1. Cardinality(Contexts \ {e}) = Cardinality(Contexts) - 1
    BY <1>c, ContextsFinite, FS_RemoveElement
  <2>2. Cardinality(Contexts \ {e}) \in Nat
    BY ContextsFinite, FS_RemoveElement, FS_CardinalityType
  <2>3. total = Cardinality(Contexts)
    BY DEF QueueInv, TotalInv
  <2> QED BY <1>2, <1>c, <2>1, <2>2, <2>3 DEF TotalInv
<1>9. Types'
  <2>1. mq' \in [Handles -> Queues]
    BY <1>m, <1>p
  <2>2. \A h \in Handles : Ring(mq'[h]) /\ Filled(mq'[h])
    BY <1>m, <1>n, <1>p DEF QueueInv, Types
  <2>3. \A h \in Handles : Ring(mq[h])' /\ Filled(mq[h])'
    BY <2>2 DEF Ring, Filled, Contents, Length
  <2> QED BY <1>1, <1>8, <1>g, <1>t, <2>1, <2>3 DEF QueueInv, Types, HistTypes, Size, Step
<1>10. Shapes'
  BY <1>8, StepShapes DEF QueueInv
<1>11. SlotInv'
  <2>1. \A w \in Workers : th'[w].reg = th[w].reg
    BY <1>6, <1>8 DEF Step, Threads
  <2>2. \A h \in Handles : mq'[h].state = mq[h].state
    BY <1>a, <1>m, <1>n, <1>p
  <2> QED BY <1>1, <2>1, <2>2, KeepSlots
<1>12. LifeInv'
  <2>1. ASSUME NEW w \in Workers, At(th'[w]) = "drop" PROVE mq'[th'[w].dropq].release
    <3>1. At(th[w]) = At(th'[w]) /\ th'[w].dropq = th[w].dropq
      BY <1>6, <1>8 DEF Step, Threads
    <3>2. mq[th[w].dropq].release
      BY <2>1, <3>1 DEF QueueInv, LifeInv
    <3>3. th'[w].dropq \in Handles
      <4>1. th'[w] \in Locals /\ Shape(w, th'[w])
        BY <1>8, <1>10 DEF Step, Threads, Shapes
      <4> QED BY <2>1, <4>1 DEF Locals, Shape, Handle0, Handles
    <3> QED BY <1>m, <1>n, <1>p, <3>1, <3>2, <3>3
  <2>2. ASSUME NEW h \in Handles
        PROVE  /\ mq'[h].state = "none" => mq'[h] = NoQueue
               /\ h >= handle_index' => mq'[h].state = "none"
               /\ mq'[h].state = "freed" => mq'[h].release
    <3>1. CASE h = e
      <4>1. ~(e >= handle_index')
        BY <1>1, <1>a DEF QueueInv, LifeInv
      <4> QED BY <1>m, <1>p, <3>1, <4>1
    <3>2. CASE h # e
      BY <1>1, <1>n, <3>2 DEF QueueInv, LifeInv
    <3> QED BY <3>1, <3>2
  <2> QED BY <2>1, <2>2 DEF LifeInv
<1>13. RefInv'
  <2> SUFFICES ASSUME NEW h \in Handles
               PROVE  /\ ref'[h] = Cardinality(Holders(h)') + B(Owned(h)')
                      /\ ref'[h] > 0 => mq'[h].state = "live" /\ ~mq'[h].release
    BY DEF RefInv
  <2>1. /\ Cardinality(Holders(h)) \in Nat /\ Cardinality(Holders(h)') \in Nat
        /\ Cardinality(Holders(h)') - Held(t, th'[t], h)
             = Cardinality(Holders(h)) - Held(t, th[t], h)
    BY <1>8, HoldersStep
  <2>2. ref[h] = Cardinality(Holders(h)) + B(Owned(h)) /\ ref[h] \in Nat
    BY DEF QueueInv, RefInv, Types
  <2>3. B(Owned(h)') = B(Owned(h)) /\ B(Owned(h)) \in Nat
    <3>1. \A g \in Handles : mq'[g].state = "none" <=> mq[g].state = "none"
      BY <1>a, <1>m, <1>n, <1>p
    <3>2. Owned(h)' <=> Owned(h)
      BY <1>1, <3>1, KeepOwned
    <3> QED BY <3>2 DEF B
  <2>5. Held(t, th[t], h) = Held(t, th'[t], h) /\ Held(t, th'[t], h) \in Nat
    BY <1>5, <1>8
  <2>6. ref'[h] = Cardinality(Holders(h)') + B(Owned(h)')
    BY <1>1, <2>1, <2>2, <2>3, <2>5
  <2>7. ref'[h] > 0 => ref[h] > 0 /\ h # e
    BY <1>1, <1>a
  <2> QED BY <1>n, <2>6, <2>7 DEF QueueInv, RefInv
<1>14. \A u \in Threads, h \in Handles : Deleting(u, h)' <=> Deleting(u, h) /\ h # e
  <2>1. \A u \in Threads \ {t} : th'[u] = th[u]
    BY <1>8 DEF Step
  <2>2. \A h \in Handles : ~Deleting(t, h)'
    BY <1>6, <1>8 DEF Deleting
  <2>3. \A h \in Handles : Deleting(t, h) => h = e
    BY <1>e DEF Deleting
  <2>4. \A u \in Threads \ {t}, h \in Handles : Deleting(u, h)' <=> Deleting(u, h)
    BY <2>1 DEF Deleting
  <2>5. \A u \in Threads : Deleting(u, e) => u = t
    BY <1>a
  <2> QED BY <2>2, <2>3, <2>4, <2>5
<1>15. DeleteInv'
  <2>4. ASSUME NEW h \in Handles, mq'[h].state # "none", ref'[h] = 0
        PROVE  mq'[h].release \/ \E u \in Threads : Deleting(u, h)'
    <3>1. CASE h = e
      BY <1>m, <1>p, <3>1
    <3>2. CASE h # e
      <4>1. mq[h].release \/ \E u \in Threads : Deleting(u, h)
        BY <1>1, <1>n, <2>4, <3>2 DEF QueueInv, DeleteInv, Created
      <4> QED BY <1>n, <1>14, <3>2, <4>1
    <3> QED BY <3>1, <3>2
  <2>5. ASSUME NEW u \in Threads, NEW h \in Handles, Deleting(u, h)'
        PROVE  /\ mq'[h].state = "live" /\ ~mq'[h].release /\ ref'[h] = 0
               /\ \A v \in Threads : Deleting(v, h)' => v = u
    <3>1. Deleting(u, h) /\ h # e
      BY <1>14, <2>5
    <3>2. /\ mq[h].state = "live" /\ ~mq[h].release /\ ref[h] = 0
          /\ \A v \in Threads : Deleting(v, h) => v = u
      BY <3>1 DEF QueueInv, DeleteInv
    <3> QED BY <1>1, <1>n, <1>14, <3>1, <3>2
  <2> QED BY <2>4, <2>5 DEF DeleteInv, Created
<1>17. QueueInOnePlace'
  <2>1. \A h \in Handles \ {e} :
              /\ mq'[h] = mq[h]
              /\ InSeq(global', h) + HasT(t, th'[t], h) = InSeq(global, h) + HasT(t, th[t], h)
    BY <1>n, <1>5, <1>8, <1>g DEF B
  <2>2. Placed(e)'
    <3>1. /\ Places(e) \in Nat /\ Places(e)' \in Nat
          /\ Places(e)' - InSeq(global', e) - HasT(t, th'[t], e)
               = Places(e) - InSeq(global, e) - HasT(t, th[t], e)
      BY <1>0, <1>8, <1>g, PlacesStep
    <3>2. HasT(t, th[t], e) = HasT(t, th'[t], e) /\ HasT(t, th[t], e) \in Nat
      BY <1>5, <1>8
    <3>3. Places(e) = B(q.in_global)
      BY <1>a DEF QueueInv, QueueInOnePlace, B
    <3>4. Places(e)' = 1
      BY <1>g, <3>1, <3>2, <3>3 DEF B
    <3> QED BY <1>m, <1>p, <3>4 DEF Placed
  <2> QED BY <1>8, <1>g, <2>1, <2>2, OtherPlaces
<1> QED BY <1>9, <1>10, <1>11, <1>12, <1>13, <1>15, <1>t, <1>17 DEF QueueInv

\* A queue that is empty and marked is freed.
LEMMA DropQueueFrees ==
    ASSUME QueueInv, NEW w \in Workers, DropQueue(w), Length(mq[th[w].dropq]) = 0
    PROVE  QueueInv'
<1> w \in Threads
  BY DEF Threads
<1>0. /\ th[w] \in Locals /\ Shape(w, th[w]) /\ HistTypes /\ Ext \notin Workers /\ w # Ext
      /\ th[w].pc = "drop" /\ global \in Seq(Handles) /\ 0 \in Handle0
  BY Record, QueueAssumption DEF DropQueue
<1>e. PICK e \in Handles : e = th[w].dropq
  BY <1>0 DEF Shape, At, Locals, Handle0, Handles
<1> DEFINE q == mq[e]
           p == [q EXCEPT !.state = "freed"]
           r == Released(th[w])
<1>h. Has(th[w], e) > 0
  BY <1>e, HasIt
<1>o. mq[e].state = "live" /\ Places(e) = 1
  BY <1>h, OnePlace
<1>a. mq[e].release /\ ref[e] = 0 /\ \A u \in Threads : ~Deleting(u, e)
  <2>1. mq[e].release
    BY <1>0, <1>e DEF QueueInv, LifeInv, At
  <2>2. ref[e] \in Nat /\ ~(ref[e] > 0)
    BY <2>1 DEF QueueInv, RefInv, Types
  <2> QED BY <2>1, <2>2 DEF QueueInv, DeleteInv
<1>1. UNCHANGED <<slot, handle_index, ref, total, global, quit>> /\ HistTypes'
  <2>1. ~(Length(mq[th[w].dropq]) > 0)
    OBVIOUS
  <2> QED BY <1>0, <2>1 DEF DropQueue, slots, hist, HistTypes
<1>2. th' = [th EXCEPT ![w] = r]
  <2>1. ~(Length(mq[th[w].dropq]) > 0)
    OBVIOUS
  <2> QED BY <2>1 DEF DropQueue
<1>m. mq \in [Handles -> Queues] /\ mq' = [mq EXCEPT ![e] = p] /\ mq'[e] = p
  <2>1. mq \in [Handles -> Queues]
    BY DEF QueueInv, Types
  <2>2. ~(Length(mq[th[w].dropq]) > 0)
    OBVIOUS
  <2>3. mq' = [mq EXCEPT ![e].state = "freed"]
    BY <1>e, <2>2 DEF DropQueue
  <2> QED BY <2>1, <2>3
<1>q. q \in Queues /\ Ring(q) /\ Filled(q)
  BY DEF QueueInv, Types
<1>p. /\ p \in Queues /\ Ring(p) /\ Filled(p) /\ p.state = "freed" /\ p.release
  <2>1. /\ p \in Queues /\ p.head = q.head /\ p.tail = q.tail /\ p.cap = q.cap /\ p.ring = q.ring
        /\ p.state = "freed" /\ p.release = q.release
    BY <1>q DEF Queues
  <2>2. Length(p) = Length(q) /\ Contents(p) = Contents(q)
    BY <2>1 DEF Length, Contents
  <2> HIDE DEF p
  <2> QED BY <1>q, <1>a, <2>1, <2>2 DEF Ring, Filled
<1>n. \A h \in Handles : h # e => mq'[h] = mq[h]
  BY <1>m
<1>3. r \in Locals
  BY <1>0 DEF Locals, Pcs, Released
<1>4. Shape(w, r)
  BY <1>0 DEF Shape, At, Locals, InCallback, Launching, Released
<1>5. \A h \in Handles : /\ Held(w, th[w], h) = Held(w, r, h) /\ Held(w, r, h) \in Nat
                        /\ HasT(w, th[w], h) = HasT(w, r, h) + B(e = h) /\ HasT(w, r, h) \in Nat
  BY <1>0, <1>e DEF Held, HRel, HPush, HQueue, HNew, B, HasT, Has, Handles,
              Locals, Shape, At, InCallback, Launching, Released
<1>6. At(r) # "drop" /\ r.reg = th[w].reg /\ r.pc # "delete" /\ th[w].pc # "delete"
  BY <1>0 DEF At, Locals, Released, Shape
<1> HIDE DEF r, p
<1>8. Step(w) /\ th'[w] = r
  BY <1>2, <1>3, <1>4, StepLemma DEF QueueInv, Types
<1>9. Types'
  <2>1. mq' \in [Handles -> Queues]
    BY <1>m, <1>p
  <2>2. \A h \in Handles : Ring(mq'[h]) /\ Filled(mq'[h])
    BY <1>m, <1>n, <1>p DEF QueueInv, Types
  <2>3. \A h \in Handles : Ring(mq[h])' /\ Filled(mq[h])'
    BY <2>2 DEF Ring, Filled, Contents, Length
  <2> QED BY <1>1, <1>8, <2>1, <2>3 DEF QueueInv, Types, HistTypes, Size, Step
<1>10. Shapes'
  BY <1>8, StepShapes DEF QueueInv
<1>11. SlotInv'
  <2>1. \A v \in Workers : th'[v].reg = th[v].reg
    BY <1>6, <1>8 DEF Step, Threads
  <2>2. \A h \in Handles : mq[h].state = "none" => mq'[h].state = "none"
    BY <1>o, <1>n
  <2> QED BY <1>1, <2>1, <2>2, KeepSlots
<1>12. LifeInv'
  <2>1. ASSUME NEW v \in Workers, At(th'[v]) = "drop" PROVE mq'[th'[v].dropq].release
    <3>1. At(th[v]) = At(th'[v]) /\ th'[v].dropq = th[v].dropq
      BY <1>6, <1>8, <2>1 DEF Step, Threads
    <3>2. mq[th[v].dropq].release
      BY <2>1, <3>1 DEF QueueInv, LifeInv
    <3>3. th'[v].dropq \in Handles
      <4>1. th'[v] \in Locals /\ Shape(v, th'[v])
        BY <1>8, <1>10 DEF Step, Threads, Shapes
      <4> QED BY <2>1, <4>1 DEF Locals, Shape, Handle0, Handles
    <3> QED BY <1>m, <1>n, <1>p, <3>1, <3>2, <3>3
  <2>2. ASSUME NEW h \in Handles
        PROVE  /\ mq'[h].state = "none" => mq'[h] = NoQueue
               /\ h >= handle_index' => mq'[h].state = "none"
               /\ mq'[h].state = "freed" => mq'[h].release
    <3>1. CASE h = e
      <4>1. ~(e >= handle_index')
        BY <1>1, <1>o DEF QueueInv, LifeInv
      <4> QED BY <1>m, <1>p, <3>1, <4>1
    <3>2. CASE h # e
      BY <1>1, <1>n, <3>2 DEF QueueInv, LifeInv
    <3> QED BY <3>1, <3>2
  <2> QED BY <2>1, <2>2 DEF LifeInv
<1>13. RefInv'
  <2> SUFFICES ASSUME NEW h \in Handles
               PROVE  /\ ref'[h] = Cardinality(Holders(h)') + B(Owned(h)')
                      /\ ref'[h] > 0 => mq'[h].state = "live" /\ ~mq'[h].release
    BY DEF RefInv
  <2>1. /\ Cardinality(Holders(h)) \in Nat /\ Cardinality(Holders(h)') \in Nat
        /\ Cardinality(Holders(h)') - Held(w, th'[w], h)
             = Cardinality(Holders(h)) - Held(w, th[w], h)
    BY <1>8, HoldersStep
  <2>2. ref[h] = Cardinality(Holders(h)) + B(Owned(h)) /\ ref[h] \in Nat
    BY DEF QueueInv, RefInv, Types
  <2>3. B(Owned(h)') = B(Owned(h)) /\ B(Owned(h)) \in Nat
    <3>1. \A g \in Handles : mq'[g].state = "none" <=> mq[g].state = "none"
      BY <1>m, <1>n, <1>o, <1>p
    <3>2. Owned(h)' <=> Owned(h)
      BY <1>1, <3>1, KeepOwned
    <3> QED BY <3>2 DEF B
  <2>5. Held(w, th[w], h) = Held(w, th'[w], h) /\ Held(w, th'[w], h) \in Nat
    BY <1>5, <1>8
  <2>6. ref'[h] = Cardinality(Holders(h)') + B(Owned(h)')
    BY <1>1, <2>1, <2>2, <2>3, <2>5
  <2>7. ref'[h] > 0 => ref[h] > 0 /\ h # e
    BY <1>1, <1>a
  <2> QED BY <1>n, <2>6, <2>7 DEF QueueInv, RefInv
<1>14. \A u \in Threads, h \in Handles : Deleting(u, h)' <=> Deleting(u, h)
  BY <1>6, <1>8 DEF Step, Deleting
<1>15. DeleteInv'
  <2>4. ASSUME NEW h \in Handles, mq'[h].state # "none", ref'[h] = 0
        PROVE  mq'[h].release \/ \E u \in Threads : Deleting(u, h)'
    <3>1. CASE h = e
      BY <1>m, <1>p, <3>1
    <3>2. CASE h # e
      <4>1. mq[h].release \/ \E u \in Threads : Deleting(u, h)
        BY <1>1, <1>n, <2>4, <3>2 DEF QueueInv, DeleteInv, Created
      <4> QED BY <1>n, <1>14, <3>2, <4>1
    <3> QED BY <3>1, <3>2
  <2>5. ASSUME NEW u \in Threads, NEW h \in Handles, Deleting(u, h)'
        PROVE  /\ mq'[h].state = "live" /\ ~mq'[h].release /\ ref'[h] = 0
               /\ \A v \in Threads : Deleting(v, h)' => v = u
    <3>1. Deleting(u, h) /\ h # e
      BY <1>14, <1>a, <2>5
    <3>2. /\ mq[h].state = "live" /\ ~mq[h].release /\ ref[h] = 0
          /\ \A v \in Threads : Deleting(v, h) => v = u
      BY <3>1 DEF QueueInv, DeleteInv
    <3> QED BY <1>1, <1>n, <1>14, <3>1, <3>2
  <2> QED BY <2>4, <2>5 DEF DeleteInv, Created
<1>16. TotalInv'
  <2>1. Contexts' = Contexts
    BY <1>m, <1>n, <1>p, <1>a DEF Contexts, Created
  <2> QED BY <1>1, <2>1 DEF QueueInv, TotalInv
<1>17. QueueInOnePlace'
  <2>1. \A h \in Handles \ {e} :
              /\ mq'[h] = mq[h]
              /\ InSeq(global', h) + HasT(w, th'[w], h) = InSeq(global, h) + HasT(w, th[w], h)
    BY <1>n, <1>5, <1>8, <1>1 DEF B
  <2>2. Placed(e)'
    <3>1. /\ Places(e) \in Nat /\ Places(e)' \in Nat
          /\ InSeq(global, e) \in Nat /\ InSeq(global', e) \in Nat
          /\ Places(e)' - InSeq(global', e) - HasT(w, th'[w], e)
               = Places(e) - InSeq(global, e) - HasT(w, th[w], e)
      BY <1>0, <1>1, <1>8, PlacesStep
    <3>2. HasT(w, th[w], e) = HasT(w, th'[w], e) + 1 /\ HasT(w, th'[w], e) \in Nat
      BY <1>5, <1>8 DEF B
    <3>4. Places(e)' = 0
      BY <1>1, <1>o, <3>1, <3>2
    <3> QED BY <1>m, <1>p, <3>4 DEF Placed
  <2> QED BY <1>0, <1>1, <1>8, <2>1, <2>2, OtherPlaces
<1> QED BY <1>9, <1>10, <1>11, <1>12, <1>13, <1>15, <1>16, <1>17 DEF QueueInv

\* skynet_handle_register: the new context is in the table besides the others, and the
\* ones that were found still are.
LEMMA RegisterSlots ==
    ASSUME QueueInv, NEW e \in Free(SlotsFor), e <= MaxHandle,
           Free(slot) = {} => GrownAsserted(slot),
           slot' = [SlotsFor EXCEPT ![e % Cardinality(DOMAIN SlotsFor)] = e]
    PROVE  /\ e \in Handles /\ e >= handle_index
           /\ Size' \in Nat \ {0} /\ slot' \in [0..Size' - 1 -> Handle0]
           /\ \A h \in Handles : InSlot(h)' <=> InSlot(h) \/ h = e
           /\ \A h \in Handles : Registered(h) => slot'[h % Size'] = h
           /\ \A i \in 0..Size' - 1 : slot'[i] # 0 => slot'[i] < e + 1
           /\ \A i, j \in 0..Size' - 1 : slot'[i] # 0 /\ slot'[i] = slot'[j] => i = j
<1>0. /\ handle_index \in Nat \ {0} /\ MaxHandle \in Nat /\ Handle0 \subseteq Nat
      /\ Table(slot, Size) /\ \A h \in Handles : InSlot(h) => h < handle_index
  <2>1. handle_index \in 1..MaxHandle + 1 /\ MaxHandle \in Nat
    BY QueueAssumption DEF QueueInv, Types
  <2>2. handle_index \in Nat \ {0}
    BY <2>1
  <2>3. Table(slot, Size)
    BY DEF QueueInv, Types, Table, SlotInv
  <2>4. \A h \in Handles : InSlot(h) => h < handle_index
    <3>1. DOMAIN slot = 0..Size - 1 /\ 0 \notin Handles
      BY <2>3 DEF Table, Handles
    <3> QED BY <3>1 DEF QueueInv, SlotInv, InSlot
  <2> QED BY <2>1, <2>2, <2>3, <2>4 DEF Handle0
<1>1. PICK n \in Nat \ {0} :
             /\ Table(SlotsFor, n) /\ Cardinality(DOMAIN SlotsFor) = n
             /\ e \in Nat /\ e >= handle_index /\ SlotsFor[e % n] = 0
             /\ \A h \in Handles : (\E i \in 0..n - 1 : SlotsFor[i] = h) <=> InSlot(h)
             /\ \A h \in Handles : Registered(h) => SlotsFor[h % n] = h
  BY <1>0, RegisterTable
<1>2. e \in Handles /\ e # 0 /\ e \in Handle0 /\ e \in Nat /\ ~InSlot(e)
  <2>1. e \in Handles /\ e # 0 /\ e \in Handle0 /\ e \in Nat
    BY <1>0, <1>1 DEF Handles, Handle0
  <2> QED BY <1>0, <1>1, <2>1
<1>3. e % n \in 0..n - 1
  BY <1>2, DivMod
<1>4. /\ SlotsFor \in [0..n - 1 -> Handle0]
      /\ \A i, j \in 0..n - 1 : SlotsFor[i] # 0 /\ SlotsFor[i] = SlotsFor[j] => i = j
  BY <1>1 DEF Table
<1>5. slot' = [SlotsFor EXCEPT ![e % n] = e]
  BY <1>1
<1>6. slot' \in [0..n - 1 -> Handle0] /\ DOMAIN slot' = DOMAIN SlotsFor /\ DOMAIN slot' = 0..n - 1
  BY <1>2, <1>4, <1>5
<1>7. Size' = n
  BY <1>1, <1>6 DEF Size
<1>s. \A i \in 0..n - 1 : slot'[i] = IF i = e % n THEN e ELSE SlotsFor[i]
  BY <1>3, <1>4, <1>5
<1>x. \A i \in 0..n - 1 : SlotsFor[i] # e
  BY <1>1, <1>2
<1>8. ASSUME NEW h \in Handles PROVE InSlot(h)' <=> InSlot(h) \/ h = e
  <2>1. h # 0
    BY DEF Handles
  <2>2. (\E i \in 0..n - 1 : slot'[i] = h) <=> (\E i \in 0..n - 1 : SlotsFor[i] = h) \/ h = e
    BY <1>1, <1>3, <1>s, <2>1
  <2> QED BY <1>1, <1>6, <2>2 DEF InSlot
<1>9. ASSUME NEW h \in Handles, Registered(h) PROVE slot'[h % n] = h
  <2>1. h \in Nat /\ h # 0
    BY DEF Handles
  <2>2. h % n \in 0..n - 1 /\ SlotsFor[h % n] = h
    BY <1>1, <1>9, <2>1, DivMod
  <2> QED BY <1>1, <1>s, <2>1, <2>2
<1>10. ASSUME NEW i \in 0..n - 1, slot'[i] # 0 PROVE slot'[i] < e + 1
  <2>1. CASE i = e % n
    BY <1>2, <1>s, <2>1
  <2>2. CASE i # e % n
    <3>1. PICK h \in Handles : h = SlotsFor[i] /\ slot'[i] = h
      <4>1. SlotsFor[i] \in Handle0 /\ SlotsFor[i] # 0 /\ slot'[i] = SlotsFor[i]
        BY <1>4, <1>10, <1>s, <2>2
      <4> QED BY <4>1 DEF Handle0, Handles
    <3>2. h < handle_index /\ h \in Nat
      BY <1>0, <1>1, <3>1 DEF Handles
    <3> QED BY <1>0, <1>1, <3>1, <3>2
  <2> QED BY <2>1, <2>2
<1>11. \A i, j \in 0..n - 1 : slot'[i] # 0 /\ slot'[i] = slot'[j] => i = j
  BY <1>4, <1>s, <1>x
<1> QED BY <1>1, <1>2, <1>6, <1>7, <1>8, <1>9, <1>10, <1>11

\* What a new queue is.
LEMMA NewQueueRing ==
    /\ NewQueue \in Queues /\ Ring(NewQueue) /\ Filled(NewQueue) /\ Length(NewQueue) = 0
    /\ NoQueue \in Queues /\ Ring(NoQueue) /\ Filled(NoQueue) /\ Length(NoQueue) = 0
    /\ NewQueue.state = "live" /\ NewQueue.in_global = TRUE /\ NewQueue.release = FALSE
    /\ NoQueue.state = "none" /\ NoQueue.in_global = FALSE /\ NoQueue.release = FALSE
<1>1. QueueSize \in Nat \ {0} /\ QueueSize - 1 \in Nat
  BY QueueAssumption
<1>2. [i \in 0..QueueSize - 1 |-> 0] \in [0..QueueSize - 1 -> {0} \cup Messages]
  OBVIOUS
<1>3. [i \in 0..QueueSize - 1 |-> 0] \in Rings
  BY <1>1, <1>2 DEF Rings
<1>4. NoQueue \in Queues /\ NewQueue \in Queues
  BY <1>1, <1>3 DEF Queues, NewQueue, NoQueue
<1>5. Ring(NoQueue) /\ Ring(NewQueue)
  BY <1>1, <1>2 DEF Ring, NewQueue, NoQueue
<1>6. Length(NewQueue) = 0 /\ Length(NoQueue) = 0
  BY DEF Length, NewQueue, NoQueue
<1>7. Filled(NewQueue) /\ Filled(NoQueue)
  BY <1>6 DEF Filled
<1> QED BY <1>4, <1>5, <1>6, <1>7 DEF NewQueue, NoQueue

\* skynet_context_new takes a handle.
LEMMA RegisterInv ==
    ASSUME QueueInv, NEW w \in Workers, Register(w)
    PROVE  QueueInv'
<1> w \in Threads
  BY DEF Threads
<1>0. /\ th[w] \in Locals /\ Shape(w, th[w]) /\ HistTypes /\ Ext \notin Workers /\ w # Ext
      /\ th[w].pc = "call" /\ global \in Seq(Handles) /\ quit \in BOOLEAN /\ 0 \in Handle0
  BY Record, QueueAssumption DEF Register
<1>f. PICK e \in Free(SlotsFor) :
         /\ e <= MaxHandle /\ handle_index' = e + 1
         /\ slot' = [SlotsFor EXCEPT ![e % Cardinality(DOMAIN SlotsFor)] = e]
         /\ th' = [th EXCEPT ![w].pc = "reg", ![w].reg = e]
  BY DEF Register
<1>1. /\ e \in Handles /\ e >= handle_index
      /\ Size' \in Nat \ {0} /\ slot' \in [0..Size' - 1 -> Handle0]
      /\ \A h \in Handles : InSlot(h)' <=> InSlot(h) \/ h = e
      /\ \A i \in 0..Size' - 1 : slot'[i] # 0 => slot'[i] < e + 1
      /\ \A i, j \in 0..Size' - 1 : slot'[i] # 0 /\ slot'[i] = slot'[j] => i = j
  BY <1>f, RegisterSlots DEF Register
<1> DEFINE r == [th[w] EXCEPT !.pc = "reg", !.reg = e]
<1>2. /\ th' = [th EXCEPT ![w] = r] /\ UNCHANGED <<ref, total, mq, global, quit>> /\ HistTypes'
  BY <1>0, <1>f DEF Register, hist, HistTypes
<1>e. e # 0 /\ e \in Handle0 /\ e \in Nat /\ handle_index' \in 1..MaxHandle + 1 /\ handle_index \in Nat
  <2>1. e \in 1..MaxHandle /\ MaxHandle \in Nat
    BY <1>1, QueueAssumption DEF Handles
  <2>2. handle_index \in 1..MaxHandle + 1
    BY DEF QueueInv, Types
  <2> QED BY <1>f, <2>1, <2>2 DEF Handle0
<1>a. mq[e].state = "none"
  BY <1>1, <1>e DEF QueueInv, LifeInv
<1>b. \A h \in Handles : Owned(h)' <=> Owned(h)
  BY <1>1, <1>2, <1>a DEF Owned
<1>3. r \in Locals
  BY <1>0, <1>e DEF Locals, Pcs
<1>4. Shape(w, r)
  BY <1>0, <1>e DEF Shape, At, Locals, InCallback, Launching
<1>5. \A h \in Handles : /\ Held(w, r, h) = Held(w, th[w], h)
                        /\ HasT(w, r, h) = HasT(w, th[w], h)
  BY <1>0, <1>e DEF Held, HRel, HPush, HQueue, HNew, B, HasT, Has, Handles,
              Locals, Shape, At, InCallback, Launching
<1>6. At(r) # "drop" /\ r.pc # "delete" /\ th[w].pc # "delete" /\ r.reg = e
  BY <1>0 DEF At, Locals, Shape
<1> HIDE DEF r
<1>8. Step(w) /\ th'[w] = r
  BY <1>2, <1>3, <1>4, StepLemma DEF QueueInv, Types
<1>9. Types'
  BY <1>0, <1>1, <1>2, <1>8, <1>e DEF QueueInv, Types, HistTypes, Step
<1>10. Shapes'
  BY <1>8, StepShapes DEF QueueInv
<1>11. SlotInv'
  <2>1. ASSUME NEW v \in Workers, th'[v].reg # 0
        PROVE  /\ mq'[th'[v].reg].state = "none" /\ InTable(slot', th'[v].reg)
               /\ th'[v].reg < handle_index'
               /\ \A u \in Workers : th'[u].reg = th'[v].reg => u = v
    <3>1. \A u \in Workers : th'[u].reg = IF u = w THEN e ELSE th[u].reg
      BY <1>6, <1>8 DEF Step, Threads
    <3>2. \A u \in Workers : th[u].reg # 0 =>
             /\ mq[th[u].reg].state = "none" /\ InSlot(th[u].reg) /\ th[u].reg < handle_index
             /\ \A x \in Workers : th[x].reg = th[u].reg => x = u
      BY DEF QueueInv, SlotInv, RegInv
    <3>3. \A u \in Workers : th[u].reg \in Handle0
      BY DEF QueueInv, Types, Threads, Locals
    <3>4. PICK n \in Handles : n = th'[v].reg
      BY <1>1, <2>1, <3>1, <3>3 DEF Handle0, Handles
    <3>5. CASE v = w
      <4>1. n = e
        BY <3>1, <3>4, <3>5
      <4>2. \A u \in Workers : u # w => th[u].reg # e
        BY <1>1, <1>e, <3>2, <3>3 DEF Handle0
      <4>3. InSlot(n)'
        BY <1>1, <4>1
      <4>4. InTable(slot', th'[v].reg)
        BY <3>4, <4>3 DEF InSlot, InTable
      <4> QED BY <1>2, <1>a, <1>e, <1>f, <3>1, <3>4, <3>5, <4>1, <4>2, <4>4
    <3>6. CASE v # w
      <4>1. n = th[v].reg /\ n # 0
        BY <2>1, <3>1, <3>4, <3>6
      <4>2. mq[n].state = "none" /\ InSlot(n) /\ n < handle_index
        BY <3>2, <4>1
      <4>3. InSlot(n)'
        BY <1>1, <4>2
      <4>4. InTable(slot', th'[v].reg)
        BY <3>4, <4>3 DEF InSlot, InTable
      <4>5. n \in Nat /\ n < handle_index' /\ n # e
        BY <1>1, <1>e, <1>f, <4>2 DEF Handles
      <4>6. \A u \in Workers : th'[u].reg = th'[v].reg => u = v
        BY <3>1, <3>2, <3>4, <4>1, <4>5
      <4> QED BY <1>2, <3>4, <4>2, <4>4, <4>5, <4>6
    <3> QED BY <3>5, <3>6
  <2>2. RegInv'
    BY <2>1 DEF RegInv, InSlot, InTable
  <2> QED BY <1>1, <1>f, <2>2 DEF SlotInv
<1>12. LifeInv' /\ RefInv' /\ DeleteInv' /\ TotalInv'
  <2>1. ASSUME NEW h \in Handles
        PROVE /\ mq'[h].state = mq[h].state /\ mq'[h].release = mq[h].release
              /\ mq[h].state = "none" => mq'[h] = mq[h]
              /\ ref'[h] - Held(w, th'[w], h) - B(Owned(h)')
                    = ref[h] - Held(w, th[w], h) - B(Owned(h))
              /\ ref'[h] = 0 <=> ref[h] = 0
    BY <1>2, <1>5, <1>8, <1>b DEF B
  <2>2. \A h \in Handles : h >= handle_index' => h >= handle_index
    BY <1>1, <1>e, <1>f DEF Handles
  <2> QED BY <1>2, <1>6, <1>8, <1>9, <1>11, <2>1, <2>2, KeepRefs
<1>13. QueueInOnePlace'
  <2>1. \A h \in Handles : InSeq(global', h) + HasT(w, th'[w], h)
                             = InSeq(global, h) + HasT(w, th[w], h)
    BY <1>2, <1>5, <1>8
  <2> QED BY <1>0, <1>2, <1>8, <1>9, <2>1, KeepPlaces DEF QueueInv, Types
<1> QED BY <1>9, <1>10, <1>11, <1>12, <1>13 DEF QueueInv

\* The handle is stored, and the context gets its queue and its references.
LEMMA LaunchInv ==
    ASSUME QueueInv, NEW w \in Workers, Launch(w)
    PROVE  QueueInv'
<1> w \in Threads
  BY DEF Threads
<1>0. /\ th[w] \in Locals /\ Shape(w, th[w]) /\ HistTypes /\ Ext \notin Workers /\ w # Ext
      /\ th[w].pc = "reg" /\ global \in Seq(Handles) /\ 0 \in Handle0
  BY Record, QueueAssumption DEF Launch
<1>s. PICK e \in Handles : e = th[w].reg
  BY <1>0 DEF Shape, At, Locals, Handle0, Handles
<1>e. e # 0 /\ e \in Handle0 /\ e \in Nat
  BY QueueAssumption DEF Handle0, Handles
<1>i. /\ mq[e].state = "none" /\ InSlot(e) /\ e < handle_index
      /\ \A v \in Workers : th[v].reg = e => v = w
  BY <1>e, <1>s DEF QueueInv, SlotInv, RegInv
<1> DEFINE r == [th[w] EXCEPT !.pc = "init", !.new = e, !.reg = 0]
<1>2. /\ th' = [th EXCEPT ![w] = r] /\ UNCHANGED <<slot, handle_index>> /\ total' = total + 1
      /\ ref' = [ref EXCEPT ![e] = 2] /\ mq' = [mq EXCEPT ![e] = NewQueue]
      /\ global' = global /\ quit' = quit /\ HistTypes'
  BY <1>0, <1>s DEF Launch, slots, hist, HistTypes
<1>m. /\ mq \in [Handles -> Queues] /\ mq'[e] = NewQueue /\ \A h \in Handles : h # e => mq'[h] = mq[h]
      /\ ref \in [Handles -> Nat] /\ ref'[e] = 2 /\ \A h \in Handles : h # e => ref'[h] = ref[h]
  <2>1. mq \in [Handles -> Queues] /\ ref \in [Handles -> Nat]
    BY DEF QueueInv, Types
  <2> QED BY <1>2, <2>1
<1>1. \A h \in Handles : Owned(h)' <=> Owned(h) \/ h = e
  BY <1>2, <1>i, <1>m, NewQueueRing DEF Owned, InSlot
<1>a. mq[e].state = "none" /\ mq[e] = NoQueue /\ Places(e) = 0
  BY <1>i DEF QueueInv, LifeInv, QueueInOnePlace
<1>b. ref[e] = 0 /\ ~Owned(e) /\ Cardinality(Holders(e)) = 0 /\ \A u \in Threads : ~Deleting(u, e)
  <2>1. ref[e] \in Nat /\ ~(ref[e] > 0)
    BY <1>1, <1>a, <1>m DEF QueueInv, RefInv
  <2>2. ref[e] = Cardinality(Holders(e)) + B(Owned(e))
    BY <1>1 DEF QueueInv, RefInv
  <2>3. IsFiniteSet(HoldersOf(th, e)) /\ Cardinality(Holders(e)) \in Nat
    BY HoldersFinite, HoldersIs, FS_CardinalityType
  <2>4. \A u \in Threads : ~Deleting(u, e)
    BY <1>1, <1>a DEF QueueInv, DeleteInv
  <2> QED BY <2>1, <2>2, <2>3, <2>4 DEF B
<1>3. r \in Locals
  BY <1>0, <1>e DEF Locals, Pcs
<1>4. Shape(w, r)
  BY <1>0, <1>e DEF Shape, At, Locals, InCallback, Launching
<1>5. \A h \in Handles : /\ Held(w, r, h) = Held(w, th[w], h) + B(e = h) /\ Held(w, th[w], h) \in Nat
                        /\ HasT(w, r, h) = HasT(w, th[w], h) + B(e = h) /\ HasT(w, th[w], h) \in Nat
  BY <1>0, <1>e DEF Held, HRel, HPush, HQueue, HNew, B, HasT, Has, Handles,
              Locals, Shape, At, InCallback, Launching
<1>6. At(r) # "drop" /\ r.pc # "delete" /\ th[w].pc # "delete" /\ r.new = e /\ r.reg = 0
  BY <1>0 DEF At, Locals, Shape
<1> HIDE DEF r
<1>8. Step(w) /\ th'[w] = r
  BY <1>2, <1>3, <1>4, StepLemma DEF QueueInv, Types
<1>9. Types'
  <2>1. mq' \in [Handles -> Queues] /\ ref' \in [Handles -> Nat]
    BY <1>m, <1>2, NewQueueRing
  <2>2. \A h \in Handles : Ring(mq'[h]) /\ Filled(mq'[h])
    BY <1>m, NewQueueRing DEF QueueInv, Types
  <2>3. \A h \in Handles : Ring(mq[h])' /\ Filled(mq[h])'
    BY <2>2 DEF Ring, Filled, Contents, Length
  <2>4. total' \in Nat
    <3>1. total \in Nat
      BY DEF QueueInv, Types
    <3> QED BY <1>2, <3>1
  <2> QED BY <1>0, <1>2, <1>8, <2>1, <2>3, <2>4 DEF QueueInv, Types, HistTypes, Size, Step
<1>10. Shapes'
  BY <1>8, StepShapes DEF QueueInv
<1>11. SlotInv'
  <2>1. ASSUME NEW v \in Workers, th'[v].reg # 0
        PROVE  /\ mq'[th'[v].reg].state = "none" /\ InTable(slot', th'[v].reg)
               /\ th'[v].reg < handle_index'
               /\ \A u \in Workers : th'[u].reg = th'[v].reg => u = v
    <3>1. \A u \in Workers : th'[u].reg = IF u = w THEN 0 ELSE th[u].reg
      BY <1>6, <1>8 DEF Step, Threads
    <3>2. th'[v].reg = th[v].reg /\ v # w
      BY <2>1, <3>1
    <3>3. /\ mq[th[v].reg].state = "none" /\ InSlot(th[v].reg) /\ th[v].reg < handle_index
          /\ \A x \in Workers : th[x].reg = th[v].reg => x = v
      BY <2>1, <3>2 DEF QueueInv, SlotInv, RegInv
    <3>4. th[v].reg \in Handle0
      BY DEF QueueInv, Types, Threads, Locals
    <3>5. th[v].reg \in Handles /\ th[v].reg # e
      BY <1>i, <2>1, <3>2, <3>4 DEF Handle0, Handles
    <3>6. mq'[th[v].reg].state = "none"
      BY <1>m, <3>3, <3>5
    <3>7. InTable(slot', th'[v].reg)
      BY <1>2, <3>2, <3>3 DEF InSlot, InTable
    <3>8. \A u \in Workers : th'[u].reg = th'[v].reg => u = v
      BY <2>1, <3>1, <3>2, <3>3
    <3> QED BY <1>2, <3>2, <3>3, <3>6, <3>7, <3>8
  <2>2. RegInv'
    BY <2>1 DEF RegInv, InSlot, InTable
  <2> QED BY <1>2, <2>2 DEF QueueInv, SlotInv, Size
<1>12. LifeInv'
  <2>1. ASSUME NEW v \in Workers, At(th'[v]) = "drop" PROVE mq'[th'[v].dropq].release
    <3>1. At(th[v]) = At(th'[v]) /\ th'[v].dropq = th[v].dropq
      BY <1>6, <1>8, <2>1 DEF Step, Threads
    <3>2. mq[th[v].dropq].release
      BY <2>1, <3>1 DEF QueueInv, LifeInv
    <3>3. th'[v].dropq \in Handles
      <4>1. th'[v] \in Locals /\ Shape(v, th'[v])
        BY <1>8, <1>10 DEF Step, Threads, Shapes
      <4> QED BY <2>1, <4>1 DEF Locals, Shape, Handle0, Handles
    <3>4. th[v].dropq # e
      BY <1>a, <3>2, NewQueueRing
    <3> QED BY <1>m, <3>1, <3>2, <3>3, <3>4
  <2>2. ASSUME NEW h \in Handles
        PROVE  /\ mq'[h].state = "none" => mq'[h] = NoQueue
               /\ h >= handle_index' => mq'[h].state = "none"
               /\ mq'[h].state = "freed" => mq'[h].release
    <3>1. CASE h = e
      <4>1. handle_index \in Nat
        <5>1. handle_index \in 1..MaxHandle + 1
          BY DEF QueueInv, Types
        <5> QED BY <5>1
      <4>2. ~(e >= handle_index')
        BY <1>2, <1>e, <1>i, <4>1
      <4> QED BY <1>m, <3>1, <4>2, NewQueueRing
    <3>2. CASE h # e
      BY <1>2, <1>m, <3>2 DEF QueueInv, LifeInv
    <3> QED BY <3>1, <3>2
  <2> QED BY <2>1, <2>2 DEF LifeInv
<1>13. RefInv'
  <2> SUFFICES ASSUME NEW h \in Handles
               PROVE  /\ ref'[h] = Cardinality(Holders(h)') + B(Owned(h)')
                      /\ ref'[h] > 0 => mq'[h].state = "live" /\ ~mq'[h].release
    BY DEF RefInv
  <2>1. /\ Cardinality(Holders(h)) \in Nat /\ Cardinality(Holders(h)') \in Nat
        /\ Cardinality(Holders(h)') - Held(w, th'[w], h)
             = Cardinality(Holders(h)) - Held(w, th[w], h)
    BY <1>8, HoldersStep
  <2>2. ref[h] = Cardinality(Holders(h)) + B(Owned(h)) /\ ref[h] \in Nat
    BY DEF QueueInv, RefInv, Types
  <2>5. Held(w, th'[w], h) = Held(w, th[w], h) + B(e = h) /\ Held(w, th[w], h) \in Nat
    BY <1>5, <1>8
  <2>6. CASE h = e
    <3>1. B(Owned(h)') = 1 /\ B(e = h) = 1
      BY <1>1, <2>6 DEF B
    <3>2. Cardinality(Holders(h)') = 1
      BY <1>b, <2>1, <2>5, <2>6, <3>1
    <3> QED BY <1>m, <2>6, <3>1, <3>2, NewQueueRing
  <2>7. CASE h # e
    <3>1. B(Owned(h)') = B(Owned(h)) /\ B(e = h) = 0 /\ B(Owned(h)) \in Nat
      BY <1>1, <2>7 DEF B
    <3>2. Cardinality(Holders(h)') = Cardinality(Holders(h))
      BY <2>1, <2>5, <3>1
    <3> QED BY <1>m, <2>2, <2>7, <3>1, <3>2 DEF QueueInv, RefInv
  <2> QED BY <2>6, <2>7
<1>14. \A u \in Threads, h \in Handles : Deleting(u, h)' <=> Deleting(u, h)
  BY <1>6, <1>8 DEF Step, Deleting
<1>15. DeleteInv'
  <2>4. ASSUME NEW h \in Handles, mq'[h].state # "none", ref'[h] = 0
        PROVE  mq'[h].release \/ \E u \in Threads : Deleting(u, h)'
    <3>2. h # e
      BY <1>m, <2>4
    <3>3. mq[h].release \/ \E u \in Threads : Deleting(u, h)
      BY <1>m, <2>4, <3>2 DEF QueueInv, DeleteInv, Created
    <3> QED BY <1>m, <1>14, <3>2, <3>3
  <2>5. ASSUME NEW u \in Threads, NEW h \in Handles, Deleting(u, h)'
        PROVE  /\ mq'[h].state = "live" /\ ~mq'[h].release /\ ref'[h] = 0
               /\ \A v \in Threads : Deleting(v, h)' => v = u
    <3>1. Deleting(u, h) /\ h # e
      BY <1>14, <1>b, <2>5
    <3>2. /\ mq[h].state = "live" /\ ~mq[h].release /\ ref[h] = 0
          /\ \A v \in Threads : Deleting(v, h) => v = u
      BY <3>1 DEF QueueInv, DeleteInv
    <3> QED BY <1>m, <1>14, <3>1, <3>2
  <2> QED BY <2>4, <2>5 DEF DeleteInv, Created
<1>16. TotalInv'
  <2>1. Contexts' = Contexts \cup {e} /\ e \notin Contexts
    <3>1. e \notin Contexts
      BY <1>a DEF Contexts, Created
    <3>2. \A h \in Handles : h \in Contexts' <=> h \in Contexts \/ h = e
      BY <1>1, <1>m, NewQueueRing DEF Contexts, Created
    <3>3. Contexts' \subseteq Handles /\ Contexts \subseteq Handles
      BY DEF Contexts, Created
    <3> QED BY <1>1, <3>1, <3>2, <3>3
  <2>2. Cardinality(Contexts \cup {e}) = Cardinality(Contexts) + 1
    BY <2>1, ContextsFinite, FS_AddElement
  <2> QED BY <1>2, <2>1, <2>2 DEF QueueInv, TotalInv
<1>17. QueueInOnePlace'
  <2>1. \A h \in Handles \ {e} :
              /\ mq'[h] = mq[h]
              /\ InSeq(global', h) + HasT(w, th'[w], h) = InSeq(global, h) + HasT(w, th[w], h)
    BY <1>m, <1>5, <1>8, <1>2 DEF B
  <2>2. Placed(e)'
    <3>1. /\ Places(e) \in Nat /\ Places(e)' \in Nat
          /\ InSeq(global, e) \in Nat /\ InSeq(global', e) \in Nat
          /\ Places(e)' - InSeq(global', e) - HasT(w, th'[w], e)
               = Places(e) - InSeq(global, e) - HasT(w, th[w], e)
      BY <1>0, <1>2, <1>8, PlacesStep
    <3>2. HasT(w, th'[w], e) = HasT(w, th[w], e) + 1 /\ HasT(w, th[w], e) \in Nat
      BY <1>1, <1>5, <1>8 DEF B
    <3>4. Places(e)' = 1
      BY <1>2, <1>a, <3>1, <3>2
    <3> QED BY <1>m, <3>4, NewQueueRing DEF Placed
  <2> QED BY <1>0, <1>1, <1>2, <1>8, <2>1, <2>2, OtherPlaces
<1> QED BY <1>9, <1>10, <1>11, <1>12, <1>13, <1>15, <1>16, <1>17 DEF QueueInv

\* CHECK_ABORT wakes the workers that sleep; they hold and have nothing.
LEMMA CheckAbortInv == ASSUME QueueInv, CheckAbort PROVE QueueInv'
<1>1. /\ th \in [Threads -> Locals] /\ Shapes /\ HistTypes /\ Ext \notin Workers
      /\ UNCHANGED <<slot, handle_index, ref, total, mq, global>> /\ quit' = TRUE /\ HistTypes'
  BY QueueAssumption DEF QueueInv, Types, CheckAbort, slots, hist, HistTypes
<1>2. ASSUME NEW t \in Threads
      PROVE  /\ th'[t] \in Locals
             /\ \/ th'[t] = th[t]
                \/ th[t].pc = "asleep" /\ th'[t] = [th[t] EXCEPT !.pc = "top"]
  BY <1>1 DEF CheckAbort, Locals, Pcs
<1>3. th' \in [Threads -> Locals]
  BY <1>2 DEF CheckAbort
<1>4. ASSUME NEW t \in Threads
      PROVE  /\ Shape(t, th'[t])
             /\ th'[t].new = th[t].new /\ th'[t].queue = th[t].queue /\ th'[t].nextq = th[t].nextq
             /\ th'[t].reg = th[t].reg
             /\ th'[t].dropq = th[t].dropq /\ (At(th'[t]) = "drop" <=> At(th[t]) = "drop")
             /\ (th'[t].pc = "delete" <=> th[t].pc = "delete")
             /\ th'[t].rel = th[t].rel
  <2>1. Shape(t, th[t]) /\ th[t] \in Locals
    BY <1>1 DEF Shapes
  <2>2. CASE th'[t] = th[t]
    BY <2>1, <2>2
  <2>3. CASE th[t].pc = "asleep" /\ th'[t] = [th[t] EXCEPT !.pc = "top"]
    BY <2>1, <2>3 DEF Shape, At, Locals, InCallback, Launching
  <2> QED BY <1>2, <2>2, <2>3
<1>5. ASSUME NEW t \in Threads, NEW h \in Handles
      PROVE  /\ HRel(th'[t], h) <=> HRel(th[t], h)
             /\ HPush(th'[t], h) <=> HPush(th[t], h)
             /\ HQueue(t, th'[t], h) <=> HQueue(t, th[t], h)
             /\ HNew(t, th'[t], h) <=> HNew(t, th[t], h)
  <2>1. Shape(t, th[t]) /\ th[t] \in Locals
    BY <1>1 DEF Shapes
  <2>2. CASE th'[t] = th[t]
    BY <2>2
  <2>3. CASE th[t].pc = "asleep" /\ th'[t] = [th[t] EXCEPT !.pc = "top"]
    BY <2>1, <2>3 DEF Shape, At, Locals, HRel, HPush, HQueue, HNew, Handles,
                      InCallback, Launching
  <2> QED BY <1>2, <2>2, <2>3
<1>6. ASSUME NEW h \in Handles
      PROVE  Holders(h)' = Holders(h) /\ Places(h)' = Places(h) /\ (Owned(h)' <=> Owned(h))
  <2>1. HoldersOf(th', h) = HoldersOf(th, h)
    BY <1>5 DEF HoldersOf
  <2>2. Holders(h)' = Holders(h)
    BY <2>1, HoldersIs
  <2>3. \A w \in Workers : /\ th'[w].new = th[w].new /\ th'[w].queue = th[w].queue
                          /\ th'[w].nextq = th[w].nextq /\ th'[w].dropq = th[w].dropq
    BY <1>4 DEF Threads
  <2>4. Places(h)' = Places(h)
    BY <1>1, <2>3 DEF Places
  <2> QED BY <1>1, <2>2, <2>4 DEF Owned, InSlot
<1>7. Types'
  BY <1>1, <1>3 DEF QueueInv, Types, HistTypes, Size
<1>8. Shapes'
  BY <1>4 DEF Shapes
<1>9. SlotInv'
  <2>1. \A w \in Workers : th'[w].reg = th[w].reg
    BY <1>4 DEF Threads
  <2> QED BY <1>1, <2>1, KeepSlots
<1>10. LifeInv'
  <2>1. ASSUME NEW w \in Workers, At(th'[w]) = "drop" PROVE mq'[th'[w].dropq].release
    BY <1>1, <1>4, <2>1 DEF QueueInv, LifeInv, Threads
  <2> QED BY <1>1, <2>1 DEF QueueInv, LifeInv
<1>11. RefInv'
  BY <1>1, <1>6 DEF QueueInv, RefInv, B
<1>12. \A t \in Threads, h \in Handles : Deleting(t, h)' <=> Deleting(t, h)
  BY <1>4 DEF Deleting
<1>13. DeleteInv'
  BY <1>1, <1>12 DEF QueueInv, DeleteInv, Created
<1>14. TotalInv'
  BY <1>1 DEF QueueInv, TotalInv, Contexts, Created
<1>15. QueueInOnePlace'
  BY <1>1, <1>6 DEF QueueInv, QueueInOnePlace
<1> QED BY <1>7, <1>8, <1>9, <1>10, <1>11, <1>13, <1>14, <1>15 DEF QueueInv

\* The first services are registered.
LEMMA InitSlots ==
    ASSUME Init
    PROVE  /\ Size = SlotSize /\ slot \in [0..Size - 1 -> Handle0]
           /\ \A h \in Handles : InSlot(h) <=> h <= InitHandles
           /\ \A h \in Handles : h <= InitHandles => slot[h % Size] = h
           /\ \A i \in 0..Size - 1 : slot[i] # 0 => slot[i] % Size = i /\ slot[i] \in 1..InitHandles
<1> DEFINE n == SlotSize
           P(i, h) == h \in 1..InitHandles /\ h % n = i
<1>0. n \in Nat \ {0} /\ InitHandles \in Nat /\ InitHandles <= n /\ MaxHandle \in Nat /\ InitHandles <= MaxHandle
  BY QueueAssumption
<1>1. slot = [i \in 0..n - 1 |->
                 IF \E h \in 1..InitHandles : h % n = i
                   THEN CHOOSE h \in 1..InitHandles : h % n = i
                   ELSE 0]
  BY DEF Init
<1> HIDE DEF n
<1>2. ASSUME NEW i \in 0..n - 1
      PROVE  /\ slot[i] # 0 => slot[i] \in 1..InitHandles /\ slot[i] % n = i
             /\ slot[i] = 0 => ~\E h \in 1..InitHandles : h % n = i
  <2>1. CASE \E h \in 1..InitHandles : h % n = i
    <3>1. slot[i] = CHOOSE h \in 1..InitHandles : h % n = i
      BY <1>1, <2>1
    <3>2. slot[i] \in 1..InitHandles /\ slot[i] % n = i
      BY <2>1, <3>1
    <3> QED BY <1>0, <3>2
  <2>2. CASE ~\E h \in 1..InitHandles : h % n = i
    BY <1>1, <2>2
  <2> QED BY <2>1, <2>2
<1>3. slot \in [0..n - 1 -> Handle0]
  <2>1. \A i \in 0..n - 1 : slot[i] \in Handle0
    BY <1>0, <1>2 DEF Handle0
  <2>2. DOMAIN slot = 0..n - 1 /\ slot = [i \in 0..n - 1 |-> slot[i]]
    BY <1>1
  <2> QED BY <2>1, <2>2
<1>4. Size = n
  BY <1>0, <1>3, FS_Interval DEF Size
<1>5. ASSUME NEW h \in 1..InitHandles, NEW g \in 1..InitHandles, h % n = g % n PROVE h = g
  <2>1. /\ h % n = IF h < n THEN h ELSE h - n
        /\ g % n = IF g < n THEN g ELSE g - n
    <3>1. h \in Nat /\ g \in Nat /\ h < 2 * n /\ g < 2 * n
      BY <1>0
    <3> QED BY <1>0, <3>1, ModSmall
  <2> QED BY <1>0, <1>5, <2>1
<1>6. ASSUME NEW h \in Handles
      PROVE  (InSlot(h) <=> h <= InitHandles) /\ (h <= InitHandles => slot[h % n] = h)
  <2>1. h \in Nat /\ h # 0
    BY DEF Handles
  <2>2. h % n \in 0..n - 1
    BY <1>0, <2>1, DivMod
  <2>3. ASSUME h <= InitHandles PROVE slot[h % n] = h
    <3>1. h \in 1..InitHandles
      BY <1>0, <2>1, <2>3
    <3>2. slot[h % n] # 0
      BY <1>2, <2>2, <3>1
    <3>3. slot[h % n] \in 1..InitHandles /\ slot[h % n] % n = h % n
      BY <1>2, <2>2, <3>2
    <3> QED BY <1>5, <3>1, <3>3
  <2>4. ASSUME NEW i \in 0..n - 1, slot[i] = h PROVE h <= InitHandles
    BY <1>0, <1>2, <2>1, <2>4
  <2>5. DOMAIN slot = 0..n - 1
    BY <1>1
  <2> QED BY <2>2, <2>3, <2>4, <2>5 DEF InSlot
<1> QED BY <1>2, <1>3, <1>4, <1>6 DEF n

\* And wait in the global queue.
LEMMA QueueInit == Init => QueueInv
<1> SUFFICES ASSUME Init PROVE QueueInv
  OBVIOUS
<1>0. /\ InitHandles \in Nat /\ MaxHandle \in Nat /\ InitHandles <= MaxHandle /\ QueueSize \in Nat \ {0}
      /\ SlotSize \in Nat \ {0} /\ MaxMsgs \in Nat /\ Ext \notin Workers /\ IsFiniteSet(Workers)
  BY QueueAssumption
<1>h. 1..InitHandles \subseteq Handles /\ Handles \subseteq Nat /\ 0 \in Handle0 /\ 0 \notin Handles
  BY <1>0 DEF Handles, Handle0
<1>s. /\ Size = SlotSize /\ slot \in [0..Size - 1 -> Handle0]
      /\ \A h \in Handles : InSlot(h) <=> h <= InitHandles
      /\ \A i \in 0..Size - 1 : slot[i] # 0 => slot[i] % Size = i /\ slot[i] \in 1..InitHandles
  BY InitSlots
<1>1. PICK at \in 0..QueueSize - 1 :
          mq = [h \in Handles |->
                  IF h <= InitHandles THEN [NewQueue EXCEPT !.head = at, !.tail = at]
                                      ELSE NoQueue]
  BY DEF Init
<1> DEFINE p == [NewQueue EXCEPT !.head = at, !.tail = at]
<1>p. /\ p \in Queues /\ Ring(p) /\ Filled(p) /\ Length(p) = 0
      /\ p.state = "live" /\ p.in_global = TRUE /\ p.release = FALSE
  <2>1. /\ p \in Queues /\ p.head = at /\ p.tail = at /\ p.cap = QueueSize /\ p.ring = NewQueue.ring
        /\ p.state = "live" /\ p.in_global = TRUE /\ p.release = FALSE /\ NewQueue.cap = QueueSize
    <3>1. at \in Nat /\ NewQueue \in Queues
      BY <1>0, NewQueueRing
    <3>2. p \in Queues
      BY <3>1 DEF Queues
    <3>3. /\ p.head = at /\ p.tail = at /\ p.ring = NewQueue.ring /\ p.cap = NewQueue.cap
          /\ p.state = NewQueue.state /\ p.in_global = NewQueue.in_global
          /\ p.release = NewQueue.release
      BY <3>1 DEF Queues
    <3>4. NewQueue.cap = QueueSize
      BY DEF NewQueue, NoQueue
    <3> QED BY <3>2, <3>3, <3>4, NewQueueRing
  <2> HIDE DEF p
  <2>2. Length(p) = 0
    BY <1>0, <2>1 DEF Length
  <2>3. Filled(p)
    BY <2>2 DEF Filled
  <2>4. Ring(p)
    BY <1>0, <2>1, NewQueueRing DEF Ring
  <2> QED BY <2>1, <2>2, <2>3, <2>4
<1> HIDE DEF p
<1>q. \A h \in Handles : mq[h] = IF h <= InitHandles THEN p ELSE NoQueue
  BY <1>1 DEF p
<1>t. \A t \in Threads :
        /\ th[t] \in Locals /\ Shape(t, th[t]) /\ th[t].queue = 0 /\ th[t].nextq = 0
        /\ th[t].reg = 0 /\ th[t].new = 0 /\ th[t].dropq = 0 /\ th[t].pc \in {"idle", "top"}
  <2> TAKE t \in Threads
  <2>1. th[t] = [pc |-> IF t = Ext THEN "idle" ELSE "top", queue |-> 0, msg |-> 0,
                left |-> 0, nextq |-> 0, out |-> 0, dst |-> 0, rel |-> 0,
                back |-> "idle", reg |-> 0, new |-> 0, dropq |-> 0]
    BY DEF Init
  <2>2. th[t] \in Locals
    BY <1>h, <2>1 DEF Locals, Pcs
  <2> QED BY <2>1, <2>2 DEF Shape, At, InCallback, Launching
<1>2. Types
  <2>1. mq \in [Handles -> Queues]
    BY <1>1, <1>p, NewQueueRing DEF p
  <2>2. \A h \in Handles : Ring(mq[h]) /\ Filled(mq[h])
    BY <1>q, <1>p, NewQueueRing
  <2>3. ref \in [Handles -> Nat] /\ total \in Nat /\ quit \in BOOLEAN
    BY <1>0 DEF Init
  <2>4. handle_index \in 1..MaxHandle + 1
    <3>1. handle_index = InitHandles + 1
      BY DEF Init
    <3> QED BY <1>0, <3>1
  <2>5. global \in Seq(Handles)
    <3>1. global = [i \in 1..InitHandles |-> i]
      BY DEF Init
    <3> QED BY <1>0, <1>h, <3>1
  <2>6. th \in [Threads -> Locals]
    <3>1. th = [t \in Threads |-> th[t]]
      BY DEF Init
    <3> QED BY <1>t, <3>1
  <2>7. nmsg \in 0..MaxMsgs /\ source \in [Messages -> Handle0]
    <3>1. nmsg = 0 /\ source = [m \in Messages |-> 0]
      BY DEF Init
    <3>2. nmsg \in 0..MaxMsgs
      BY <1>0, <3>1
    <3> QED BY <1>h, <3>1, <3>2
  <2>8. fate \in [Messages -> {"", "handled", "refused", "dropped"}]
    BY DEF Init
  <2> QED BY <1>0, <1>s, <2>1, <2>2, <2>3, <2>4, <2>5, <2>6, <2>7, <2>8 DEF Types
<1>3. Shapes
  BY <1>t DEF Shapes
<1>4. SlotInv
  <2>1. handle_index = InitHandles + 1
    BY DEF Init
  <2>2. \A i \in 0..Size - 1 : slot[i] # 0 => slot[i] % Size = i /\ slot[i] < handle_index
    BY <1>0, <1>s, <2>1
  <2>3. RegInv
    BY <1>t DEF RegInv, Threads
  <2> QED BY <2>2, <2>3 DEF SlotInv
<1>5. LifeInv
  <2>1. handle_index = InitHandles + 1
    BY DEF Init
  <2>2. \A h \in Handles :
          /\ mq[h].state = "none" => mq[h] = NoQueue
          /\ h >= handle_index => mq[h].state = "none"
          /\ mq[h].state = "freed" => mq[h].release
    BY <1>0, <1>h, <1>q, <1>p, <2>1, NewQueueRing
  <2>3. \A w \in Workers : At(th[w]) # "drop"
    BY <1>t DEF At, Threads
  <2> QED BY <2>2, <2>3 DEF LifeInv
<1>6. RefInv
  <2> SUFFICES ASSUME NEW h \in Handles
               PROVE  /\ ref[h] = Cardinality(Holders(h)) + B(Owned(h))
                      /\ ref[h] > 0 => mq[h].state = "live" /\ ~mq[h].release
    BY DEF RefInv
  <2>1. HoldersOf(th, h) = {}
    BY <1>h, <1>t DEF HoldersOf, HRel, HPush, HQueue, HNew
  <2>2. Cardinality(Holders(h)) = 0
    BY <2>1, HoldersIs, FS_EmptySet
  <2>3. ref[h] = IF h <= InitHandles THEN 1 ELSE 0
    BY DEF Init
  <2>4. Owned(h) <=> h <= InitHandles
    BY <1>s, <1>q, <1>p, NewQueueRing DEF Owned
  <2> QED BY <1>q, <1>p, <2>2, <2>3, <2>4 DEF B
<1>7. DeleteInv
  <2>1. \A t \in Threads, h \in Handles : ~Deleting(t, h)
    BY <1>t DEF Deleting
  <2>2. \A h \in Created : ref[h] # 0
    <3>1. \A h \in Created : h \in Handles /\ h <= InitHandles
      BY <1>q, NewQueueRing DEF Created
    <3>2. ref = [h \in Handles |-> IF h <= InitHandles THEN 1 ELSE 0]
      BY DEF Init
    <3> QED BY <3>1, <3>2
  <2> QED BY <2>1, <2>2 DEF DeleteInv
<1>8. TotalInv
  <2>1. Contexts = 1..InitHandles
    <3>1. \A h \in Handles : h \in Contexts <=> h <= InitHandles
      BY <1>q, <1>p, NewQueueRing DEF Contexts, Created
    <3>2. Contexts \subseteq Handles
      BY DEF Contexts, Created
    <3>3. \A h \in Handles : h <= InitHandles <=> h \in 1..InitHandles
      BY <1>0 DEF Handles
    <3> QED BY <1>h, <3>1, <3>2, <3>3
  <2>2. Cardinality(1..InitHandles) = InitHandles
    BY <1>0, FS_Interval
  <2> QED BY <2>1, <2>2 DEF TotalInv, Init
<1>9. QueueInOnePlace
  <2> SUFFICES ASSUME NEW h \in Handles PROVE Placed(h)
    BY DEF QueueInOnePlace, Placed
  <2>1. PlacesOf(th, h) = 0
    <3>1. /\ {w \in Workers : th[w].queue = h} = {} /\ {w \in Workers : th[w].nextq = h} = {}
          /\ {w \in Workers : th[w].new = h} = {} /\ {w \in Workers : th[w].dropq = h} = {}
      BY <1>h, <1>t DEF Threads
    <3>2. Cardinality({}) = 0
      BY FS_EmptySet
    <3>3. /\ Cardinality({w \in Workers : th[w].queue = h}) = 0
          /\ Cardinality({w \in Workers : th[w].nextq = h}) = 0
          /\ Cardinality({w \in Workers : th[w].new = h}) = 0
          /\ Cardinality({w \in Workers : th[w].dropq = h}) = 0
      BY <3>1, <3>2
    <3> QED BY <3>3 DEF PlacesOf
  <2>2. global = [i \in 1..InitHandles |-> i] /\ h \in Nat /\ h # 0
    BY <1>h DEF Init
  <2>3. InSeq(global, h) = IF h <= InitHandles THEN 1 ELSE 0
    <3>1. CASE h <= InitHandles
      <4>1. {i \in DOMAIN global : global[i] = h} = {h}
        BY <1>0, <2>2, <3>1
      <4> QED BY <3>1, <4>1, FS_Singleton DEF InSeq
    <3>2. CASE ~(h <= InitHandles)
      <4>1. {i \in DOMAIN global : global[i] = h} = {}
        BY <1>0, <2>2, <3>2
      <4> QED BY <3>2, <4>1, FS_EmptySet DEF InSeq
    <3> QED BY <3>1, <3>2
  <2>4. Places(h) = InSeq(global, h) + PlacesOf(th, h)
    BY <1>2, PlacesIs DEF Types
  <2>5. Places(h) = IF h <= InitHandles THEN 1 ELSE 0
    BY <2>1, <2>3, <2>4
  <2> QED BY <1>q, <1>p, <2>5, NewQueueRing DEF Placed
<1> QED BY <1>2, <1>3, <1>4, <1>5, <1>6, <1>7, <1>8, <1>9 DEF QueueInv

\* Every step of every thread keeps the invariant.
LEMMA QueueNext == ASSUME QueueInv, [Next]_vars PROVE QueueInv'
<1>1. ASSUME NEW w \in Workers, Dispatch(w) PROVE QueueInv'
  <2>1. CASE Grab(w)
    BY <2>1, GrabFails, GrabSucceeds
  <2>2. CASE MqPop(w)
    <3>1. Length(mq[th[w].queue]) = 0 \/ Length(mq[th[w].queue]) > 0
      BY <2>2 DEF MqPop
    <3> QED BY <2>2, <3>1, MqPopEmpty, MqPopTakes
  <2>3. CASE DropQueue(w)
    <3>1. Length(mq[th[w].dropq]) = 0 \/ Length(mq[th[w].dropq]) > 0
      BY <2>3 DEF DropQueue
    <3> QED BY <2>3, <3>1, DropQueueTakes, DropQueueFrees
  <2> QED BY <1>1, <2>1, <2>2, <2>3, PopGlobalInv, ExitInv, SleepInv, MqLengthInv, SwapInv,
             PushBackInv, LaunchInv, LaunchedInv, LaunchFailedInv, MqReleaseInv DEF Dispatch
<1>2. ASSUME NEW w \in Workers, Callback(w) \/ Return(w) \/ Wakeup(w) PROVE QueueInv'
  BY <1>2, KillInv, RegisterInv, InitSendInv, InitEndInv, ReturnInv, WakeupInv DEF Callback
<1>3. ASSUME NEW t \in Threads, Go(t) PROVE QueueInv'
  <2>1. CASE SendGrab(t)
    BY <2>1, SendGrabFails, SendGrabSucceeds
  <2> QED BY <1>3, <2>1, ReleaseInv, DeleteStepInv, SendPushInv DEF Go
<1>4. CASE UNCHANGED vars
  <2>1. UNCHANGED <<slot, handle_index, ref, total, mq, global, quit, th, nmsg, source, fate>>
    BY <1>4 DEF vars, slots, hist
  <2>2. \A h : Holders(h)' = Holders(h) /\ Places(h)' = Places(h)
    BY <2>1 DEF Holders, Places
  <2>3. Types' /\ Shapes'
    BY <2>1 DEF QueueInv, Types, Shapes, Size
  <2>4. SlotInv' /\ LifeInv'
    BY <2>1 DEF QueueInv, SlotInv, RegInv, LifeInv, InSlot, Size
  <2>5. RefInv'
    BY <2>1, <2>2 DEF QueueInv, RefInv, Owned, InSlot
  <2>6. DeleteInv'
    BY <2>1 DEF QueueInv, DeleteInv, Created, Deleting
  <2>7. TotalInv'
    BY <2>1 DEF QueueInv, TotalInv, Contexts, Created
  <2>8. QueueInOnePlace'
    BY <2>1, <2>2 DEF QueueInv, QueueInOnePlace
  <2> QED BY <2>3, <2>4, <2>5, <2>6, <2>7, <2>8 DEF QueueInv
<1> QED BY <1>1, <1>2, <1>3, <1>4, SendInv, CheckAbortInv DEF Next

\* The inductive invariant.
THEOREM QueueInvariant == Spec => []QueueInv
BY QueueInit, QueueNext, PTL DEF Spec

\* A queue is in the global queue or in the hands of one worker, once, while it may
\* hold messages or its release is due, and else nowhere and empty: skynet_mq_push,
\* skynet_mq_pop, skynet_mq_mark_release and skynet_globalmq_push agree on in_global.
THEOREM QueuePlaced == Spec => []QueueInOnePlace
<1>1. QueueInv => QueueInOnePlace
  BY DEF QueueInv
<1> QED BY <1>1, QueueInvariant, PTL

\* The reference count of a context is the number of its references, so no thread uses a
\* context or a queue that is freed, and a context without references is deleted once
\* (skynet_context_grab, skynet_context_release, skynet_handle_retire).
THEOREM ContextsCounted == Spec => []RefsCounted
<1>1. QueueInv => TypeOK
  <2> SUFFICES ASSUME QueueInv PROVE TypeOK
    OBVIOUS
  <2>1. \A h \in Handles : mq[h] \in Queues /\ Ring(mq[h])
    BY DEF QueueInv, Types
  <2>2. \A h \in Handles :
          /\ mq[h].state \in {"none", "live", "freed"}
          /\ mq[h].in_global \in BOOLEAN /\ mq[h].release \in BOOLEAN
          /\ mq[h].ring \in [0..mq[h].cap - 1 -> {0} \cup Messages]
          /\ mq[h].head \in 0..mq[h].cap - 1 /\ mq[h].tail \in 0..mq[h].cap - 1
    BY <2>1 DEF Queues, Ring
  <2> QED BY <2>2 DEF QueueInv, Types, TypeOK, Size
<1>2. QueueInv => RefsCounted
  <2> SUFFICES ASSUME QueueInv, NEW h \in Created
               PROVE  /\ ref[h] = Cardinality(Holders(h)) + IF InSlot(h) THEN 1 ELSE 0
                      /\ ref[h] > 0 => mq[h].state = "live" /\ ~mq[h].release
                      /\ ref[h] = 0 <=>
                            \/ mq[h].release
                            \/ \E t \in Threads : th[t].pc = "delete" /\ th[t].rel = h
    BY <1>1 DEF RefsCounted
  <2>1. h \in Handles /\ ref[h] \in Nat
    BY DEF QueueInv, Types, Created
  <2>2. /\ ref[h] = Cardinality(Holders(h)) + B(Owned(h))
        /\ ref[h] > 0 => mq[h].state = "live" /\ ~mq[h].release
    BY <2>1 DEF QueueInv, RefInv
  <2>3. /\ ref[h] = 0 => mq[h].release \/ \E t \in Threads : Deleting(t, h)
        /\ \A t \in Threads : Deleting(t, h) => ref[h] = 0
    BY <2>1 DEF QueueInv, DeleteInv
  <2>4. Owned(h) <=> InSlot(h)
    BY DEF Owned, Created
  <2> QED BY <2>1, <2>2, <2>3, <2>4 DEF B, Deleting
<1> QED BY <1>2, QueueInvariant, PTL
=============================================================================
