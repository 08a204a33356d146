---------------------------- MODULE MailboxProofs ----------------------------
(* What becomes of the messages: ServiceQueue implements Mailbox, and a       *)
(* message that is dropped is reported to its sender.                         *)
EXTENDS ServiceQueueProofs

\* The messages a service runs for and the services that are retired, as the
\* refinement maps them.
Run(h) == {th[w].msg : w \in {v \in Workers : th[v].queue = h /\ th[v].msg # 0}}
Gone == {h \in Created : ~InSlot(h)}

\* The record s has the messages of the record r.
SameMsgs(r, s) ==
    /\ s.out = r.out /\ s.dst = r.dst /\ s.msg = r.msg
    /\ r.msg # 0 => s.queue = r.queue

\* The steps that move no message: boxes, callbacks and reports stay as they are.
Still ==
    /\ \A h \in Handles : Contents(mq'[h]) = Contents(mq[h])
    /\ \A t \in Threads : SameMsgs(th[t], th'[t])
    /\ Gone' = Gone /\ Created \subseteq Created'
    /\ UNCHANGED hist

\* Nobody changes the tables and the queues.
LEMMA SameTables ==
    ASSUME UNCHANGED <<slot, mq>>
    PROVE  /\ \A h \in Handles : Contents(mq'[h]) = Contents(mq[h])
           /\ Gone' = Gone /\ Created' = Created
BY DEF Gone, Created, InSlot

\* What a queue holds depends on its array only.
LEMMA SameContents ==
    ASSUME NEW q, NEW p, p.head = q.head, p.tail = q.tail, p.cap = q.cap, p.ring = q.ring
    PROVE  Contents(p) = Contents(q)
BY DEF Contents, Length

\* The step of one thread that keeps its messages.
LEMMA OneSame ==
    ASSUME QueueInv, NEW t \in Threads, NEW r, th' = [th EXCEPT ![t] = r], SameMsgs(th[t], r)
    PROVE  \A u \in Threads : SameMsgs(th[u], th'[u])
<1>1. th'[t] = r /\ \A u \in Threads \ {t} : th'[u] = th[u]
  BY DEF QueueInv, Types
<1> QED BY <1>1 DEF SameMsgs

\* Such a step among the ones that touch neither tables nor queues.
LEMMA StillThread ==
    ASSUME QueueInv, NEW t \in Threads, NEW r, th' = [th EXCEPT ![t] = r], SameMsgs(th[t], r),
           UNCHANGED <<slot, mq>>, UNCHANGED hist
    PROVE  Still
BY OneSame, SameTables DEF Still

\* The worker's loop moves queues and no messages.
LEMMA LoopStill ==
    ASSUME QueueInv, NEW w \in Workers,
           TakeQueue(w) \/ NextQueue(w) \/ Exit(w) \/ Sleep(w) \/ Wakeup(w) \/ Grab(w)
           \/ MqLength(w) \/ Swap(w) \/ PushBack(w) \/ Launched(w) \/ MqRelease(w)
    PROVE  Still
<1> w \in Threads
  BY DEF Threads
<1>0. th[w] \in Locals /\ Shape(w, th[w]) /\ th \in [Threads -> Locals]
  BY Record DEF QueueInv, Types
<1>1. UNCHANGED <<slot, mq>> /\ UNCHANGED hist
  BY DEF TakeQueue, NextQueue, Exit, Sleep, Wakeup, Grab, MqLength, Swap, PushBack,
         Launched, MqRelease, slots
<1>2. \A u \in Threads \ {w} : th'[u] = th[u]
  BY <1>0 DEF TakeQueue, NextQueue, PopGlobal, Exit, Sleep, Wakeup, Grab, MqLength, Swap,
              PushBack, Launched, MqRelease, Goto
<1>3. SameMsgs(th[w], th'[w])
  <2>1. CASE TakeQueue(w) \/ NextQueue(w)
    <3>1. th[w].msg = 0
      BY <1>0, <2>1 DEF TakeQueue, NextQueue, Shape, At, InCallback
    <3> QED BY <1>0, <2>1, <3>1 DEF TakeQueue, NextQueue, PopGlobal, Goto, SameMsgs, Locals
  <2>2. CASE Exit(w) \/ Sleep(w) \/ Wakeup(w)
    BY <1>0, <2>2 DEF Exit, Sleep, Wakeup, Goto, SameMsgs, Locals
  <2>3. CASE Grab(w)
    <3>1. th[w].msg = 0
      BY <1>0, <2>3 DEF Grab, Shape, At, InCallback
    <3> QED BY <1>0, <2>3, <3>1 DEF Grab, Goto, SameMsgs, Locals
  <2>4. CASE MqLength(w) \/ Launched(w)
    BY <1>0, <2>4 DEF MqLength, Launched, SameMsgs, Locals
  <2>5. CASE Swap(w)
    BY <1>0, <2>5 DEF Swap, Releasing, SameMsgs, Locals
  <2>6. CASE PushBack(w)
    <3>1. th[w].msg = 0
      BY <1>0, <2>6 DEF PushBack, Shape, At, InCallback
    <3> QED BY <1>0, <2>6, <3>1 DEF PushBack, Releasing, SameMsgs, Locals
  <2>7. CASE MqRelease(w)
    <3>1. \/ th' = [th EXCEPT ![w].pc = "drop"]
          \/ th' = [th EXCEPT ![w] = Released(@)]
      BY <2>7 DEF MqRelease, Goto
    <3>2. th'[w] \in {[th[w] EXCEPT !.pc = "drop"], Released(th[w])}
      BY <1>0, <3>1
    <3>3. SameMsgs(th[w], Released(th[w])) /\ SameMsgs(th[w], [th[w] EXCEPT !.pc = "drop"])
      BY <1>0 DEF SameMsgs, Released, Locals
    <3> QED BY <3>2, <3>3
  <2> QED BY <2>1, <2>2, <2>3, <2>4, <2>5, <2>6, <2>7
<1>4. \A u \in Threads : SameMsgs(th[u], th'[u])
  BY <1>2, <1>3 DEF SameMsgs
<1> QED BY <1>1, <1>4, SameTables DEF Still

\* References and the start of the sending, whoever uses them.
LEMMA GoStill ==
    ASSUME QueueInv, NEW t \in Threads,
           Release(t) \/ Delete(t) \/ (SendGrab(t) /\ Registered(th[t].dst))
    PROVE  Still
<1>0. th[t] \in Locals /\ Shape(t, th[t]) /\ th \in [Threads -> Locals]
  BY Record DEF QueueInv, Types
<1>1. CASE Release(t)
  <2>1. PICK r \in {[th[t] EXCEPT !.pc = "delete"], Returning(th[t])} : th' = [th EXCEPT ![t] = r]
    BY <1>0, <1>1 DEF Release
  <2>2. SameMsgs(th[t], r)
    BY <1>0 DEF SameMsgs, Returning, Locals
  <2>3. UNCHANGED <<slot, mq>> /\ UNCHANGED hist
    BY <1>1 DEF Release, slots
  <2> QED BY <2>1, <2>2, <2>3, StillThread
<1>2. CASE Delete(t)
  <2>1. th' = [th EXCEPT ![t] = Returning(th[t])] /\ UNCHANGED slot /\ UNCHANGED hist
    BY <1>0, <1>2 DEF Delete, slots
  <2>2. SameMsgs(th[t], Returning(th[t]))
    BY <1>0 DEF SameMsgs, Returning, Locals
  <2>3. mq' = [mq EXCEPT ![th[t].rel].release = TRUE] /\ mq \in [Handles -> Queues]
    BY <1>2 DEF Delete, QueueInv, Types
  <2>4. ASSUME NEW h \in Handles
        PROVE  Contents(mq'[h]) = Contents(mq[h]) /\ mq'[h].state = mq[h].state
    <3>1. /\ mq'[h].head = mq[h].head /\ mq'[h].tail = mq[h].tail /\ mq'[h].cap = mq[h].cap
          /\ mq'[h].ring = mq[h].ring /\ mq'[h].state = mq[h].state
      BY <2>3 DEF Queues
    <3> QED BY <3>1, SameContents
  <2>5. Created' = Created /\ Gone' = Gone
    BY <2>1, <2>4 DEF Created, Gone, InSlot
  <2> QED BY <2>1, <2>2, <2>4, <2>5, OneSame DEF Still
<1>3. CASE SendGrab(t) /\ Registered(th[t].dst)
  <2>1. th' = [th EXCEPT ![t] = [th[t] EXCEPT !.pc = "push"]]
    BY <1>0, <1>3 DEF SendGrab, Goto
  <2>2. SameMsgs(th[t], [th[t] EXCEPT !.pc = "push"])
    BY <1>0 DEF SameMsgs, Locals
  <2>3. UNCHANGED <<slot, mq>> /\ UNCHANGED hist
    BY <1>3 DEF SendGrab, slots, hist
  <2> QED BY <2>1, <2>2, <2>3, StillThread
<1> QED BY <1>1, <1>2, <1>3

\* The end of a module's init.
LEMMA InitEndStill ==
    ASSUME QueueInv, NEW w \in Workers, NEW ok \in BOOLEAN, InitEnd(w, ok)
    PROVE  Still
<1> w \in Threads
  BY DEF Threads
<1>0. th[w] \in Locals /\ th \in [Threads -> Locals]
  BY Record DEF QueueInv, Types
<1> DEFINE r == Releasing(th[w], th[w].new, IF ok THEN "launched" ELSE "failed")
<1>1. th' = [th EXCEPT ![w] = r] /\ UNCHANGED <<slot, mq>> /\ UNCHANGED hist
  BY <1>0 DEF InitEnd, slots
<1>2. SameMsgs(th[w], r)
  BY <1>0 DEF SameMsgs, Releasing, Locals
<1> HIDE DEF r
<1> QED BY <1>1, <1>2, StillThread

\* A step that changes one queue and not its array.
LEMMA StillQueue ==
    ASSUME QueueInv, NEW t \in Threads, NEW r, th' = [th EXCEPT ![t] = r], SameMsgs(th[t], r),
           UNCHANGED slot, UNCHANGED hist, NEW e \in Handles, NEW q, mq' = [mq EXCEPT ![e] = q],
           Contents(q) = Contents(mq[e]), q.state = "none" <=> mq[e].state = "none"
    PROVE  Still
<1>1. mq'[e] = q /\ \A h \in Handles \ {e} : mq'[h] = mq[h]
  BY DEF QueueInv, Types
<1>2. \A h \in Handles : /\ Contents(mq'[h]) = Contents(mq[h])
                         /\ mq'[h].state = "none" <=> mq[h].state = "none"
  BY <1>1
<1>3. Created' = Created /\ Gone' = Gone
  BY <1>2 DEF Created, Gone, InSlot
<1> QED BY <1>2, <1>3, OneSame DEF Still

\* skynet_mq_pop of an empty queue.
LEMMA PopEmptyStill ==
    ASSUME QueueInv, NEW w \in Workers, MqPop(w), Length(mq[th[w].queue]) = 0
    PROVE  Still
<1> w \in Threads
  BY DEF Threads
<1>0. th[w] \in Locals /\ Shape(w, th[w]) /\ th[w].pc \in {"pop0", "pop"}
  BY Record DEF MqPop
<1>e. PICK e \in Handles : e = th[w].queue
  BY <1>0 DEF Shape, At, Locals, Handle0, Handles
<1> DEFINE r == [Releasing(th[w], e, "next") EXCEPT !.queue = 0]
           q == Emptied(mq[e])
<1>1. mq[e] \in Queues
  BY DEF QueueInv, Types
<1>2. th' = [th EXCEPT ![w] = r] /\ mq' = [mq EXCEPT ![e] = q]
  BY <1>e DEF MqPop
<1>3. SameMsgs(th[w], r)
  <2>1. th[w].msg = 0
    BY <1>0 DEF Shape, At, InCallback
  <2> QED BY <1>0, <2>1 DEF SameMsgs, Releasing, Locals
<1>4. Contents(q) = Contents(mq[e]) /\ q.state = mq[e].state
  <2>1. /\ q.head = mq[e].head /\ q.tail = mq[e].tail /\ q.cap = mq[e].cap
        /\ q.ring = mq[e].ring /\ q.state = mq[e].state
    BY <1>1 DEF Queues, Emptied
  <2> QED BY <2>1, SameContents
<1>5. UNCHANGED slot /\ UNCHANGED hist
  BY DEF MqPop, slots
<1> HIDE DEF r, q
<1> QED BY <1>2, <1>3, <1>4, <1>5, StillQueue

\* _drop_queue frees a queue that is empty.
LEMMA FreeStill ==
    ASSUME QueueInv, NEW w \in Workers, DropQueue(w), Length(mq[th[w].dropq]) = 0
    PROVE  Still
<1> w \in Threads
  BY DEF Threads
<1>0. th[w] \in Locals /\ Shape(w, th[w]) /\ th[w].pc = "drop"
  BY Record DEF DropQueue
<1>e. PICK e \in Handles : e = th[w].dropq
  BY <1>0 DEF Shape, At, Locals, Handle0, Handles
<1> DEFINE r == Released(th[w])
           q == [mq[e] EXCEPT !.state = "freed"]
<1>1. mq[e] \in Queues /\ mq[e].state = "live"
  <2>1. Has(th[w], e) > 0
    BY <1>e, HasIt
  <2>2. mq[e].state = "live"
    BY <2>1, OnePlace
  <2> QED BY <2>2 DEF QueueInv, Types
<1>2. th' = [th EXCEPT ![w] = r] /\ mq' = [mq EXCEPT ![e] = q]
  BY <1>e DEF DropQueue
<1>3. SameMsgs(th[w], r)
  BY <1>0 DEF SameMsgs, Released, Locals
<1>4. Contents(q) = Contents(mq[e]) /\ q.state # "none"
  <2>1. /\ q.head = mq[e].head /\ q.tail = mq[e].tail /\ q.cap = mq[e].cap
        /\ q.ring = mq[e].ring /\ q.state = "freed"
    BY <1>1 DEF Queues
  <2> QED BY <2>1, SameContents
<1>5. UNCHANGED slot /\ UNCHANGED hist
  BY <1>e DEF DropQueue, slots, hist
<1> HIDE DEF r, q
<1> QED BY <1>1, <1>2, <1>3, <1>4, <1>5, StillQueue

\* An empty queue holds nothing.
LEMMA NoContents ==
    ASSUME NEW q, Length(q) = 0
    PROVE  Contents(q) = <<>>
BY DEF Contents

\* skynet_handle_register: a context without a queue gets a slot, nobody loses one.
LEMMA RegisterStill ==
    ASSUME QueueInv, NEW w \in Workers, Register(w)
    PROVE  Still /\ \A h \in Created : /\ InSlot(h)' <=> InSlot(h)
                                       /\ Registered(h) => Registered(h)'
<1> w \in Threads
  BY DEF Threads
<1>0. th[w] \in Locals /\ th \in [Threads -> Locals]
  BY Record DEF QueueInv, Types
<1>1. PICK e \in Free(SlotsFor) :
         /\ e <= MaxHandle
         /\ slot' = [SlotsFor EXCEPT ![e % Cardinality(DOMAIN SlotsFor)] = e]
         /\ th' = [th EXCEPT ![w].pc = "reg", ![w].reg = e]
  BY DEF Register
<1>2. (Free(slot) = {} => GrownAsserted(slot)) /\ UNCHANGED mq /\ UNCHANGED hist
  BY DEF Register
<1>3. /\ e \in Handles /\ e >= handle_index
      /\ \A h \in Handles : InSlot(h)' <=> InSlot(h) \/ h = e
      /\ \A h \in Handles : Registered(h) => slot'[h % Size'] = h
  BY <1>1, <1>2, RegisterSlots
<1>4. mq[e].state = "none"
  BY <1>3 DEF QueueInv, LifeInv
<1>5. /\ Created' = Created /\ e \notin Created /\ Created \subseteq Handles
      /\ \A h \in Handles : Contents(mq'[h]) = Contents(mq[h])
  BY <1>2, <1>4 DEF Created
<1>6. \A h \in Created : InSlot(h)' <=> InSlot(h)
  BY <1>3, <1>5
<1>7. Gone' = Gone
  <2>1. Gone' = {h \in Created' : ~InSlot(h)'}
    BY DEF Gone
  <2> QED BY <1>5, <1>6, <2>1 DEF Gone
<1>8. \A h \in Created : Registered(h) => Registered(h)'
  <2> SUFFICES ASSUME NEW h \in Created, Registered(h) PROVE Registered(h)'
    OBVIOUS
  <2>1. slot'[h % Size'] = h /\ Stored(h) = h
    BY <1>3, <1>5 DEF Registered
  <2>2. Stored(h)' = Stored(h)
    BY <1>2 DEF Stored
  <2> QED BY <2>1, <2>2 DEF Registered
<1> DEFINE r == [th[w] EXCEPT !.pc = "reg", !.reg = e]
<1>9. th' = [th EXCEPT ![w] = r] /\ SameMsgs(th[w], r)
  BY <1>0, <1>1 DEF SameMsgs, Locals
<1> HIDE DEF r
<1> QED BY <1>2, <1>5, <1>6, <1>7, <1>8, <1>9, OneSame DEF Still

\* skynet_context_new stores the handle and creates the queue of what it registered.
LEMMA LaunchStill ==
    ASSUME QueueInv, NEW w \in Workers, Launch(w)
    PROVE  Still
<1> w \in Threads
  BY DEF Threads
<1>0. th[w] \in Locals /\ mq \in [Handles -> Queues] /\ th \in [Threads -> Locals]
      /\ Shape(w, th[w]) /\ th[w].pc = "reg"
  BY Record DEF QueueInv, Types, Launch
<1>e. PICK e \in Handles : e = th[w].reg /\ e # 0
  BY <1>0 DEF Shape, At, Locals, Handle0, Handles
<1> DEFINE r == [th[w] EXCEPT !.pc = "init", !.new = e, !.reg = 0]
<1>1. /\ mq' = [mq EXCEPT ![e] = NewQueue] /\ UNCHANGED hist /\ UNCHANGED slot
      /\ th' = [th EXCEPT ![w].pc = "init", ![w].new = e, ![w].reg = 0]
  BY <1>e DEF Launch, slots
<1>2. mq[e].state = "none" /\ InSlot(e)
  BY <1>e DEF QueueInv, SlotInv, RegInv
<1>4. th' = [th EXCEPT ![w] = r] /\ SameMsgs(th[w], r)
  BY <1>0, <1>1 DEF SameMsgs, Locals
<1>6. mq[e] = NoQueue
  BY <1>2 DEF QueueInv, LifeInv
<1>7. mq'[e] = NewQueue /\ \A h \in Handles \ {e} : mq'[h] = mq[h]
  BY <1>0, <1>1
<1>8. Contents(mq'[e]) = Contents(mq[e])
  <2>1. Contents(NewQueue) = <<>> /\ Contents(NoQueue) = <<>>
    BY NewQueueRing, NoContents
  <2> QED BY <1>6, <1>7, <2>1
<1>9. \A h \in Handles : Contents(mq'[h]) = Contents(mq[h])
  BY <1>7, <1>8
<1>10. Created' = Created \cup {e} /\ e \notin Created
  BY <1>2, <1>7, NewQueueRing DEF Created
<1>11. Gone' = Gone
  <2>1. Gone' = {h \in Created' : ~InSlot(h)'}
    BY DEF Gone
  <2>2. \A h : InSlot(h)' <=> InSlot(h)
    BY <1>1 DEF InSlot
  <2> QED BY <1>2, <1>10, <2>1, <2>2 DEF Gone
<1> HIDE DEF r
<1> QED BY <1>1, <1>4, <1>9, <1>10, <1>11, OneSame DEF Still

\* CHECK_ABORT, and a step that changes nothing.
LEMMA IdleStill ==
    ASSUME QueueInv, CheckAbort \/ UNCHANGED vars
    PROVE  Still
<1>0. th \in [Threads -> Locals]
  BY DEF QueueInv, Types
<1>1. UNCHANGED <<slot, mq>> /\ UNCHANGED hist
  BY DEF CheckAbort, vars, slots
<1>2. ASSUME NEW t \in Threads PROVE SameMsgs(th[t], th'[t])
  <2>1. th'[t] = th[t] \/ th'[t] = [th[t] EXCEPT !.pc = "top"]
    BY <1>0 DEF CheckAbort, vars
  <2> QED BY <1>0, <2>1 DEF SameMsgs, Locals
<1> QED BY <1>1, <1>2, SameTables DEF Still

-----------------------------------------------------------------------------
(* The steps that move messages *)

\* Thread t alone has a new record.
Only(t) == \A u \in Threads \ {t} : th'[u] = th[u]

\* It sends the same message to the same service, and runs for the same one.
SameOut(t) == th'[t].out = th[t].out /\ th'[t].dst = th[t].dst
SameIn(t) == th'[t].msg = th[t].msg /\ th'[t].queue = th[t].queue

\* Queue e alone has new contents s.
Refilled(e, s) ==
    Contents(mq'[e]) = s /\ \A h \in Handles \ {e} : Contents(mq'[h]) = Contents(mq[h])

SameServices == Created' = Created /\ Gone' = Gone

\* skynet_mq_pop of a message: the first one, for a service that runs for no other.
Takes(w, e) ==
    /\ e = th[w].queue /\ Contents(mq[e]) # <<>> /\ th[w].msg = 0
    /\ th[w].pc \in {"pop0", "pop"}
    /\ \A v \in Workers \ {w} : th[v].queue # e
    /\ Refilled(e, Tail(Contents(mq[e])))
    /\ Only(w) /\ SameOut(w)
    /\ th'[w].msg = Head(Contents(mq[e])) /\ th'[w].queue = e
    /\ SameServices /\ UNCHANGED hist

\* _drop_queue of a message: the first one, of a service that is gone and does not run.
Drops(w, e) ==
    /\ e \in Gone /\ Contents(mq[e]) # <<>> /\ th[w].out = 0
    /\ \A v \in Workers : th[v].queue # e
    /\ Refilled(e, Tail(Contents(mq[e])))
    /\ LET m == Head(Contents(mq[e])) IN
       /\ fate' = [fate EXCEPT ![m] = "dropped"]
       /\ IF m \in Errors \/ source[m] = 0
            THEN SameOut(w)
            ELSE th'[w].out = MaxMsgs + m /\ th'[w].dst = source[m]
    /\ Only(w) /\ SameIn(w)
    /\ SameServices /\ UNCHANGED <<nmsg, source>>

\* A callback returns.
Finishes(w, e) ==
    /\ e = th[w].queue /\ th[w].msg # 0 /\ th'[w].msg = 0 /\ SameOut(w) /\ Only(w)
    /\ \A v \in Workers \ {w} : th[v].queue # e
    /\ fate' = [fate EXCEPT ![th[w].msg] = "handled"]
    /\ UNCHANGED <<slot, mq, nmsg, source>>

\* skynet_mq_push.
Puts(t, e) ==
    /\ e = th[t].dst /\ th[t].out \in Messages /\ th'[t].out = 0 /\ th[t].pc = "push"
    /\ Only(t) /\ SameIn(t)
    /\ Refilled(e, Append(Contents(mq[e]), th[t].out))
    /\ SameServices /\ UNCHANGED hist

\* A new message m, from s to e: from Ext, from a service that runs, or from a new
\* service to itself.
Sends(t, s, e) ==
    /\ s = 0 \/ s = e \/ (t \in Workers /\ th[t].msg # 0 /\ s = th[t].queue)
    /\ nmsg < MaxMsgs /\ nmsg' = nmsg + 1 /\ s \in Created \cup {0}
    /\ source' = [source EXCEPT ![nmsg + 1] = s]
    /\ th[t].out = 0 /\ th'[t].out = nmsg + 1 /\ th'[t].dst = e /\ th'[t].pc = "grab"
    /\ Only(t) /\ SameIn(t)
    /\ UNCHANGED <<slot, mq, fate>>

\* skynet_handle_grab does not find the destination.
Refuses(t, e) ==
    /\ e = th[t].dst /\ ~Registered(e) /\ th[t].out # 0 /\ th'[t].out = 0
    /\ Only(t) /\ SameIn(t)
    /\ fate' = [fate EXCEPT ![th[t].out] = "refused"]
    /\ UNCHANGED <<slot, mq, nmsg, source>>

\* skynet_handle_retire.
Retires(w, e) ==
    /\ e \in Created /\ Gone' = Gone \cup {e} /\ Created' = Created
    /\ Only(w) /\ SameOut(w) /\ SameIn(w)
    /\ UNCHANGED mq /\ UNCHANGED hist

\* A message leaves the queue it is first in.
LEMMA PopRefills ==
    ASSUME QueueInv, NEW e \in Handles, Length(mq[e]) > 0, mq' = [mq EXCEPT ![e] = Popped(mq[e])],
           UNCHANGED slot
    PROVE  /\ Contents(mq[e]) # <<>> /\ mq[e].ring[mq[e].head] = Head(Contents(mq[e]))
           /\ Refilled(e, Tail(Contents(mq[e]))) /\ SameServices
<1>1. mq[e] \in Queues /\ Ring(mq[e]) /\ mq \in [Handles -> Queues]
  BY DEF QueueInv, Types
<1>2. /\ mq[e].ring[mq[e].head] = Contents(mq[e])[1]
      /\ Contents(Popped(mq[e])) = Tail(Contents(mq[e])) /\ Popped(mq[e]).state = mq[e].state
  BY <1>1, PoppedRing
<1>3. Len(Contents(mq[e])) > 0 /\ Contents(mq[e]) \in Seq({0} \cup Messages)
  BY <1>1, LengthNat
<1>4. Contents(mq[e]) # <<>> /\ Contents(mq[e])[1] = Head(Contents(mq[e]))
  BY <1>3
<1>5. mq'[e] = Popped(mq[e]) /\ \A h \in Handles \ {e} : mq'[h] = mq[h]
  BY <1>1
<1>6. \A h \in Handles : mq'[h].state = mq[h].state
  BY <1>2, <1>5
<1>7. SameServices
  BY <1>6 DEF SameServices, Created, Gone, InSlot
<1> QED BY <1>2, <1>4, <1>5, <1>7 DEF Refilled

\* MqPop takes.
LEMMA PopTakes ==
    ASSUME QueueInv, NEW w \in Workers, MqPop(w), Length(mq[th[w].queue]) > 0
    PROVE  \E e \in Handles : Takes(w, e)
<1> w \in Threads
  BY DEF Threads
<1>0. th[w] \in Locals /\ Shape(w, th[w]) /\ th[w].pc \in {"pop0", "pop"}
  BY Record DEF MqPop
<1>e. PICK e \in Handles : e = th[w].queue
  BY <1>0 DEF Shape, At, Locals, Handle0, Handles
<1>1. \A v \in Workers \ {w} : th[v].queue # e
  <2>1. Has(th[w], e) > 0
    BY <1>e, HasIt
  <2> QED BY <2>1, OnePlace
<1>2. th[w].msg = 0
  BY <1>0 DEF Shape, At, InCallback
<1>q. mq[e] \in Queues /\ Ring(mq[e]) /\ Length(mq[e]) # 0 /\ th \in [Threads -> Locals]
  <2>1. mq[e] \in Queues /\ Ring(mq[e]) /\ th \in [Threads -> Locals]
    BY DEF QueueInv, Types
  <2> QED BY <1>e, <2>1, LengthNat
<1>3. mq' = [mq EXCEPT ![e] = Popped(mq[e])] /\ UNCHANGED slot /\ UNCHANGED hist
  BY <1>e, <1>q DEF MqPop, slots
<1>4. /\ Contents(mq[e]) # <<>> /\ mq[e].ring[mq[e].head] = Head(Contents(mq[e]))
      /\ Refilled(e, Tail(Contents(mq[e]))) /\ SameServices
  BY <1>e, <1>3, PopRefills
<1>5. /\ th'[w].msg = mq[e].ring[mq[e].head] /\ th'[w].queue = th[w].queue
      /\ th'[w].out = th[w].out /\ th'[w].dst = th[w].dst
      /\ \A u \in Threads \ {w} : th'[u] = th[u]
  <2> DEFINE m == mq[e].ring[mq[e].head]
             k == IF th[w].pc = "pop0" THEN 0 ELSE th[w].left - 1
             l == IF th[w].pc = "pop0" /\ Weight[w] >= 0 THEN "len" ELSE "call"
  <2>1. th' = [th EXCEPT ![w].msg = m, ![w].left = IF th[w].pc = "pop0" THEN 0 ELSE @ - 1, ![w].pc = l]
    BY <1>e, <1>q DEF MqPop
  <2> HIDE DEF m, l
  <2>2. /\ th'[w].msg = m /\ th'[w].queue = th[w].queue
        /\ th'[w].out = th[w].out /\ th'[w].dst = th[w].dst
        /\ \A u \in Threads \ {w} : th'[u] = th[u]
    BY <1>q, <2>1 DEF Locals
  <2> QED BY <2>2 DEF m
<1>6. Takes(w, e)
  BY <1>0, <1>e, <1>1, <1>2, <1>3, <1>4, <1>5 DEF Takes, Only, SameOut
<1> QED BY <1>6

\* DropQueue drops.
LEMMA QueueDrops ==
    ASSUME QueueInv, NEW w \in Workers, DropQueue(w), Length(mq[th[w].dropq]) > 0
    PROVE  \E e \in Handles : Drops(w, e)
<1> w \in Threads
  BY DEF Threads
<1>0. th[w] \in Locals /\ Shape(w, th[w]) /\ th[w].pc = "drop" /\ th \in [Threads -> Locals]
  BY Record DEF DropQueue, QueueInv, Types
<1>e. PICK e \in Handles : e = th[w].dropq
  BY <1>0 DEF Shape, At, Locals, Handle0, Handles
<1>1. Has(th[w], e) > 0
  BY <1>e, HasIt
<1>2. /\ Has(th[w], e) = 1 /\ mq[e].state = "live"
      /\ \A v \in Workers \ {w} : th[v].queue # e
  BY <1>1, OnePlace
<1>3. th[w].queue # e
  BY <1>2, <1>e DEF Has, B
<1>4. e \in Gone
  <2>1. mq[e].release
    BY <1>0, <1>e DEF QueueInv, LifeInv, At
  <2>2. ~Owned(e)
    BY <2>1, Alive
  <2> QED BY <1>2, <2>2 DEF Gone, Created, Owned
<1>5. \A v \in Workers : th[v].queue # e
  BY <1>2, <1>3
<1>6. mq[e] \in Queues /\ Ring(mq[e]) /\ Length(mq[e]) # 0
  <2>1. mq[e] \in Queues /\ Ring(mq[e])
    BY DEF QueueInv, Types
  <2> QED BY <1>e, <2>1, LengthNat
<1> DEFINE m == mq[e].ring[mq[e].head]
<1>7. /\ mq' = [mq EXCEPT ![e] = Popped(mq[e])] /\ UNCHANGED <<slot, nmsg, source>>
      /\ fate' = [fate EXCEPT ![m] = "dropped"] /\ th' = [th EXCEPT ![w] = Reported(th[w], m)]
  BY <1>e, <1>6 DEF DropQueue, slots
<1>8. /\ Contents(mq[e]) # <<>> /\ m = Head(Contents(mq[e]))
      /\ Refilled(e, Tail(Contents(mq[e]))) /\ SameServices
  BY <1>e, <1>7, PopRefills
<1> HIDE DEF m
<1>9. th[w].out = 0
  BY <1>0 DEF Shape
<1>10. Only(w) /\ th'[w] = Reported(th[w], m)
  BY <1>0, <1>7 DEF Only
<1>11. SameIn(w)
  BY <1>0, <1>10 DEF SameIn, Reported, Sending, Locals
<1>12. IF m \in Errors \/ source[m] = 0
         THEN SameOut(w)
         ELSE th'[w].out = MaxMsgs + m /\ th'[w].dst = source[m]
  BY <1>0, <1>10 DEF SameOut, Reported, Sending, Locals
<1>13. Drops(w, e)
  BY <1>4, <1>5, <1>7, <1>8, <1>9, <1>10, <1>11, <1>12 DEF Drops
<1> QED BY <1>13

\* Return finishes.
LEMMA ReturnFinishes ==
    ASSUME QueueInv, NEW w \in Workers, Return(w)
    PROVE  \E e \in Handles : Finishes(w, e)
<1> w \in Threads
  BY DEF Threads
<1>0. th[w] \in Locals /\ Shape(w, th[w]) /\ th[w].pc = "call" /\ th \in [Threads -> Locals]
  BY Record DEF Return, QueueInv, Types
<1>e. PICK e \in Handles : e = th[w].queue
  BY <1>0 DEF Shape, At, Locals, Handle0, Handles, InCallback
<1>1. Has(th[w], e) > 0
  BY <1>e, HasIt
<1>2. \A v \in Workers \ {w} : th[v].queue # e
  BY <1>1, OnePlace
<1>3. th[w].msg # 0
  BY <1>0 DEF Shape, At, InCallback
<1>4. Only(w) /\ SameOut(w) /\ th'[w].msg = 0
  BY <1>0 DEF Return, Only, SameOut, Locals
<1>5. fate' = [fate EXCEPT ![th[w].msg] = "handled"] /\ UNCHANGED <<slot, mq, nmsg, source>>
  BY DEF Return, slots
<1>6. Finishes(w, e)
  BY <1>e, <1>2, <1>3, <1>4, <1>5 DEF Finishes
<1> QED BY <1>6

\* SendPush puts.
LEMMA PushPuts ==
    ASSUME QueueInv, NEW t \in Threads, SendPush(t)
    PROVE  \E e \in Handles : Puts(t, e)
<1>0. th[t] \in Locals /\ Shape(t, th[t]) /\ th[t].pc = "push" /\ th \in [Threads -> Locals]
  BY Record DEF SendPush, QueueInv, Types
<1>e. PICK e \in Handles : e = th[t].dst
  BY <1>0 DEF Shape, At, Locals, Handle0, Handles
<1>m. PICK m \in Messages : m = th[t].out
  BY <1>0 DEF Shape, Locals
<1> DEFINE p == Pushed(mq[e], m)
           q == [p EXCEPT !.in_global = TRUE]
<1>1. mq[e] \in Queues /\ Ring(mq[e]) /\ mq \in [Handles -> Queues]
  BY DEF QueueInv, Types
<1>2. /\ p \in Queues /\ Contents(p) = Append(Contents(mq[e]), m) /\ p.state = mq[e].state
  BY <1>1, PushedRing
<1>3. mq' = [mq EXCEPT ![e] = q] /\ UNCHANGED slot /\ UNCHANGED hist
  BY <1>e, <1>m DEF SendPush, slots
<1> HIDE DEF p
<1>4. Contents(q) = Contents(p) /\ q.state = mq[e].state
  <2>1. q.head = p.head /\ q.tail = p.tail /\ q.cap = p.cap /\ q.ring = p.ring /\ q.state = p.state
    BY <1>2 DEF Queues
  <2> QED BY <1>2, <2>1, SameContents
<1> HIDE DEF q
<1>5. mq'[e] = q /\ \A h \in Handles \ {e} : mq'[h] = mq[h]
  BY <1>1, <1>3
<1>6. Refilled(e, Append(Contents(mq[e]), m))
  BY <1>2, <1>4, <1>5 DEF Refilled
<1>7. SameServices
  <2>1. \A h \in Handles : mq'[h].state = mq[h].state
    BY <1>4, <1>5
  <2> QED BY <1>3, <2>1 DEF SameServices, Created, Gone, InSlot
<1>8. Only(t) /\ SameIn(t) /\ th'[t].out = 0
  BY <1>0 DEF SendPush, Only, SameIn, Locals
<1>9. Puts(t, e)
  BY <1>0, <1>e, <1>m, <1>3, <1>6, <1>7, <1>8 DEF Puts
<1> QED BY <1>9

\* Send sends, for a service that runs or for Ext.
LEMMA SendSends ==
    ASSUME QueueInv, NEW t \in Threads, NEW d \in Handles, Send(t, d)
    PROVE  \E s : Sends(t, s, d)
<1>0. th[t] \in Locals /\ Shape(t, th[t]) /\ th \in [Threads -> Locals] /\ Ext \notin Workers
  BY Record, QueueAssumption DEF QueueInv, Types
<1> DEFINE s == IF t = Ext THEN 0 ELSE th[t].queue
<1>1. s \in Created \cup {0}
  <2>1. CASE t # Ext
    <3>1. t \in Workers /\ th[t].pc = "call"
      BY <2>1 DEF Threads, Send
    <3>2. PICK e \in Handles : e = th[t].queue
      BY <1>0, <3>1 DEF Shape, At, Locals, Handle0, Handles, InCallback
    <3>3. Has(th[t], e) > 0
      BY <3>1, <3>2, HasIt
    <3>4. mq[e].state = "live"
      BY <3>1, <3>3, OnePlace
    <3> QED BY <2>1, <3>2, <3>4 DEF Created
  <2> QED BY <2>1
<1>r. s = 0 \/ (t \in Workers /\ th[t].msg # 0 /\ s = th[t].queue)
  <2>1. CASE t # Ext
    <3>1. t \in Workers /\ th[t].pc = "call"
      BY <2>1 DEF Threads, Send
    <3> QED BY <1>0, <2>1, <3>1 DEF Shape, At, InCallback
  <2> QED BY <2>1
<1>2. /\ nmsg < MaxMsgs /\ nmsg' = nmsg + 1 /\ source' = [source EXCEPT ![nmsg + 1] = s]
      /\ UNCHANGED <<slot, mq, fate>>
      /\ th' = [th EXCEPT ![t] = Sending(th[t], nmsg + 1, d, th[t].pc)]
  BY DEF Send, slots
<1> HIDE DEF s
<1>3. th'[t] = Sending(th[t], nmsg + 1, d, th[t].pc) /\ Only(t)
  BY <1>0, <1>2 DEF Only
<1>4. SameIn(t) /\ th'[t].out = nmsg + 1 /\ th'[t].dst = d /\ th'[t].pc = "grab"
  BY <1>0, <1>3 DEF Sending, SameIn, Locals
<1>5. th[t].out = 0
  BY <1>0 DEF Send, Shape
<1>6. Sends(t, s, d)
  BY <1>r, <1>1, <1>2, <1>3, <1>4, <1>5 DEF Sends
<1> QED BY <1>6

\* InitSend sends, for the service that is launched.
LEMMA InitSends ==
    ASSUME QueueInv, NEW w \in Workers, InitSend(w)
    PROVE  \E e \in Handles : Sends(w, e, e)
<1> w \in Threads
  BY DEF Threads
<1>0. th[w] \in Locals /\ Shape(w, th[w]) /\ th \in [Threads -> Locals] /\ th[w].pc = "init"
  BY Record DEF QueueInv, Types, InitSend
<1>e. PICK e \in Handles : e = th[w].new
  BY <1>0 DEF Shape, At, Locals, Handle0, Handles, Launching
<1>1. e \in Created
  <2>1. Has(th[w], e) > 0
    BY <1>e, HasIt
  <2>2. mq[e].state = "live"
    BY <2>1, OnePlace
  <2> QED BY <2>2 DEF Created
<1>2. /\ nmsg < MaxMsgs /\ nmsg' = nmsg + 1 /\ source' = [source EXCEPT ![nmsg + 1] = e]
      /\ UNCHANGED <<slot, mq, fate>>
      /\ th' = [th EXCEPT ![w] = Sending(th[w], nmsg + 1, e, "inited")]
  BY <1>e DEF InitSend, slots
<1>3. th'[w] = Sending(th[w], nmsg + 1, e, "inited") /\ Only(w)
  BY <1>0, <1>2 DEF Only
<1>4. SameIn(w) /\ th'[w].out = nmsg + 1 /\ th'[w].dst = e /\ th'[w].pc = "grab"
  BY <1>0, <1>3 DEF Sending, SameIn, Locals
<1>5. th[w].out = 0
  BY <1>0 DEF Shape
<1>6. Sends(w, e, e)
  BY <1>1, <1>2, <1>3, <1>4, <1>5 DEF Sends
<1> QED BY <1>6

\* SendGrab refuses.
LEMMA GrabRefuses ==
    ASSUME QueueInv, NEW t \in Threads, SendGrab(t), ~Registered(th[t].dst)
    PROVE  \E e \in Handles : Refuses(t, e)
<1>0. th[t] \in Locals /\ Shape(t, th[t]) /\ th \in [Threads -> Locals] /\ th[t].pc = "grab"
  BY Record DEF QueueInv, Types, SendGrab
<1>e. PICK e \in Handles : e = th[t].dst
  BY <1>0 DEF Shape, At, Locals, Handle0, Handles
<1>1. /\ fate' = [fate EXCEPT ![th[t].out] = "refused"] /\ UNCHANGED <<slot, mq, nmsg, source>>
      /\ th' = [th EXCEPT ![t] = [Returning(th[t]) EXCEPT !.out = 0, !.dst = 0]]
  BY DEF SendGrab, slots
<1>2. Only(t) /\ SameIn(t) /\ th'[t].out = 0
  BY <1>0, <1>1 DEF Only, SameIn, Returning, Locals
<1>3. th[t].out # 0
  BY <1>0 DEF Shape
<1>4. Refuses(t, e)
  BY <1>e, <1>1, <1>2, <1>3 DEF Refuses
<1> QED BY <1>4

\* A service that has its slot loses it.
LEMMA SlotRetires ==
    ASSUME QueueInv, NEW e \in Handles, Registered(e), slot' = Retired(e), UNCHANGED mq
    PROVE  e \in Created /\ Gone' = Gone \cup {e} /\ Created' = Created
<1>1. \A h \in Handles : InSlot(h)' <=> InSlot(h) /\ h # e
  BY RetireSlot
<1>2. e \in Created
  BY Findable DEF Created, Owned
<1>3. Created' = Created /\ Created \subseteq Handles
  BY DEF Created
<1>4. Gone' = {h \in Created' : ~InSlot(h)'}
  BY DEF Gone
<1> QED BY <1>1, <1>2, <1>3, <1>4 DEF Gone

\* Kill and LaunchFailed retire.
LEMMA KillRetires ==
    ASSUME QueueInv, NEW w \in Workers, NEW e \in Handles, Kill(w, e)
    PROVE  Retires(w, e)
<1> w \in Threads
  BY DEF Threads
<1>0. th[w] \in Locals /\ th \in [Threads -> Locals]
  BY Record DEF QueueInv, Types
<1>1. e \in Created /\ Gone' = Gone \cup {e} /\ Created' = Created
  BY SlotRetires DEF Kill
<1>2. UNCHANGED mq /\ UNCHANGED hist /\ th' = [th EXCEPT ![w] = Releasing(th[w], e, "call")]
  BY DEF Kill
<1>3. Only(w) /\ SameOut(w) /\ SameIn(w)
  BY <1>0, <1>2 DEF Only, SameOut, SameIn, Releasing, Locals
<1> QED BY <1>1, <1>2, <1>3 DEF Retires

\* And LaunchFailed, when it finds the context.
LEMMA FailedRetires ==
    ASSUME QueueInv, NEW w \in Workers, LaunchFailed(w)
    PROVE  Still \/ \E e \in Handles : Retires(w, e)
<1> w \in Threads
  BY DEF Threads
<1>0. th[w] \in Locals /\ Shape(w, th[w]) /\ th \in [Threads -> Locals] /\ th[w].pc = "failed"
  BY Record DEF QueueInv, Types, LaunchFailed
<1>e. PICK e \in Handles : e = th[w].new /\ e # 0
  BY <1>0 DEF Shape, At, Locals, Handle0, Handles, Launching
<1> DEFINE r == [th[w] EXCEPT !.pc = "mqrel", !.dropq = e, !.new = 0]
<1>2. /\ UNCHANGED mq /\ UNCHANGED hist /\ slot' = Retired(e)
      /\ th' = [th EXCEPT ![w] = IF Registered(e) THEN Releasing(r, e, "mqrel") ELSE r]
  BY <1>e DEF LaunchFailed
<1>3. CASE Registered(e)
  <2>1. e \in Created /\ Gone' = Gone \cup {e} /\ Created' = Created
    BY <1>2, <1>3, SlotRetires
  <2>2. th' = [th EXCEPT ![w] = Releasing(r, e, "mqrel")]
    BY <1>2, <1>3
  <2>3. Only(w) /\ SameOut(w) /\ SameIn(w)
    BY <1>0, <2>2 DEF Only, SameOut, SameIn, Releasing, Locals
  <2>4. Retires(w, e)
    BY <1>2, <2>1, <2>3 DEF Retires
  <2> QED BY <2>4
<1>4. CASE ~Registered(e)
  <2>1. UNCHANGED <<slot, mq>> /\ th' = [th EXCEPT ![w] = r]
    BY <1>2, <1>4 DEF Retired
  <2>2. SameMsgs(th[w], r)
    BY <1>0 DEF SameMsgs, Locals
  <2> HIDE DEF r
  <2> QED BY <1>2, <2>1, <2>2, StillThread
<1> QED BY <1>3, <1>4

\* Every step is one of these.
LEMMA Kinds ==
    ASSUME QueueInv, [Next]_vars
    PROVE  \/ Still
           \/ \E w \in Workers, e \in Handles :
                 Takes(w, e) \/ Drops(w, e) \/ Finishes(w, e) \/ Retires(w, e)
           \/ \E t \in Threads, e \in Handles :
                 Puts(t, e) \/ Refuses(t, e) \/ \E s : Sends(t, s, e)
<1> DEFINE Goal == \/ Still
                   \/ \E w \in Workers, e \in Handles :
                         Takes(w, e) \/ Drops(w, e) \/ Finishes(w, e) \/ Retires(w, e)
                   \/ \E t \in Threads, e \in Handles :
                         Puts(t, e) \/ Refuses(t, e) \/ \E s : Sends(t, s, e)
<1>1. ASSUME NEW w \in Workers, Dispatch(w) PROVE Goal
  <2>1. CASE MqPop(w)
    <3>1. Length(mq[th[w].queue]) = 0 \/ Length(mq[th[w].queue]) > 0
      BY <2>1 DEF MqPop
    <3> QED BY <2>1, <3>1, PopEmptyStill, PopTakes
  <2>2. CASE DropQueue(w)
    <3>1. Length(mq[th[w].dropq]) = 0 \/ Length(mq[th[w].dropq]) > 0
      BY <2>2 DEF DropQueue
    <3> QED BY <2>2, <3>1, FreeStill, QueueDrops
  <2>3. CASE LaunchFailed(w)
    BY <2>3, FailedRetires
  <2> QED BY <1>1, <2>1, <2>2, <2>3, LoopStill, LaunchStill DEF Dispatch
<1>2. ASSUME NEW w \in Workers, Callback(w) PROVE Goal
  <2> w \in Threads
    BY DEF Threads
  <2>1. CASE \E h \in Handles : Kill(w, h)
    BY <2>1, KillRetires
  <2>2. CASE InitSend(w)
    BY <2>2, InitSends
  <2> QED BY <1>2, <2>1, <2>2, RegisterStill, InitEndStill DEF Callback
<1>3. ASSUME NEW w \in Workers, Return(w) \/ Wakeup(w) PROVE Goal
  BY <1>3, ReturnFinishes, LoopStill
<1>4. ASSUME NEW t \in Threads, Go(t) PROVE Goal
  <2>1. CASE SendGrab(t)
    BY <2>1, GoStill, GrabRefuses
  <2>2. CASE SendPush(t)
    BY <2>2, PushPuts
  <2> QED BY <1>4, <2>1, <2>2, GoStill DEF Go
<1>5. ASSUME NEW t \in Threads, NEW h \in Handles, Send(t, h) PROVE Goal
  BY <1>5, SendSends
<1>6. CASE CheckAbort \/ UNCHANGED vars
  BY <1>6, IdleStill
<1> QED BY <1>1, <1>2, <1>3, <1>4, <1>5, <1>6 DEF Next

-----------------------------------------------------------------------------
(* The refinement *)

\* The callbacks run for the same messages when every worker does.
LEMMA SameRun ==
    ASSUME \A w \in Workers : /\ th'[w].msg = th[w].msg
                              /\ th[w].msg # 0 => th'[w].queue = th[w].queue
    PROVE  \A h : Run(h)' = Run(h)
<1> TAKE h
<1>1. {v \in Workers : th'[v].queue = h /\ th'[v].msg # 0}
        = {v \in Workers : th[v].queue = h /\ th[v].msg # 0}
  OBVIOUS
<1>2. Run(h)' = {th'[w].msg : w \in {v \in Workers : th'[v].queue = h /\ th'[v].msg # 0}}
  BY DEF Run
<1> QED BY <1>1, <1>2 DEF Run

\* The mailbox the queues implement.
Boxes == [h \in Handles |-> Contents(mq[h])]
Runs == [h \in Handles |-> Run(h)]

\* The steps of the mailbox, in its own terms.
LEMMA MailboxStep ==
    ASSUME \/ UNCHANGED <<Boxes, Runs, Gone>>
           \/ \E s \in Handles :
                \/ \E m \in Messages : /\ Boxes' = [Boxes EXCEPT ![s] = Append(@, m)]
                                       /\ UNCHANGED <<Runs, Gone>>
                \/ /\ Boxes[s] # <<>> /\ Runs[s] = {}
                   /\ Runs' = [Runs EXCEPT ![s] = {Head(Boxes[s])}]
                   /\ Boxes' = [Boxes EXCEPT ![s] = Tail(@)] /\ UNCHANGED Gone
                \/ /\ Runs[s] # {} /\ Runs' = [Runs EXCEPT ![s] = {}]
                   /\ UNCHANGED <<Boxes, Gone>>
                \/ Gone' = Gone \cup {s} /\ UNCHANGED <<Boxes, Runs>>
                \/ /\ s \in Gone /\ Boxes[s] # <<>> /\ Runs[s] = {}
                   /\ Boxes' = [Boxes EXCEPT ![s] = Tail(@)] /\ UNCHANGED <<Runs, Gone>>
    PROVE  [MB!Next]_<<Boxes, Runs, Gone>>
BY DEF MB!Next, MB!Put, MB!Take, MB!Finish, MB!Retire, MB!Drop, Boxes, Runs, Run, Gone

\* Each step of the threads is a step of the mailbox or leaves it as it is.
LEMMA MailboxNext ==
    ASSUME QueueInv, [Next]_vars
    PROVE  [MB!Next]_<<Boxes, Runs, Gone>>
<1>n. Handles \in SUBSET Nat /\ Workers \subseteq Threads
  BY DEF Handles, Threads
<1>1. CASE Still
  <2>1. \A h \in Handles : Contents(mq'[h]) = Contents(mq[h]) /\ Run(h)' = Run(h)
    BY <1>1, <1>n, SameRun DEF Still, SameMsgs
  <2> QED BY <1>1, <2>1, MailboxStep DEF Still, Boxes, Runs
<1>2. ASSUME NEW w \in Workers, NEW e \in Handles, Takes(w, e)
      PROVE  [MB!Next]_<<Boxes, Runs, Gone>>
  <2>1. Run(e) = {}
    BY <1>2 DEF Takes, Run
  <2>2. Run(e)' = {Head(Contents(mq[e]))}
    <3>1. /\ th'[w].queue = e /\ th'[w].msg = Head(Contents(mq[e]))
          /\ \A v \in Workers \ {w} : th'[v].queue # e
      BY <1>2, <1>n DEF Takes, Only
    <3>2. th'[w].msg # 0
      <4>1. mq[e] \in Queues /\ Ring(mq[e]) /\ Filled(mq[e])
        BY DEF QueueInv, Types
      <4>2. /\ Length(mq[e]) \in Nat /\ Len(Contents(mq[e])) = Length(mq[e])
            /\ Contents(mq[e]) \in Seq({0} \cup Messages) /\ Contents(mq[e]) # <<>>
        BY <1>2, <4>1, LengthNat DEF Takes
      <4>3. Length(mq[e]) > 0 /\ Head(Contents(mq[e])) = Contents(mq[e])[1]
        BY <4>2
      <4>4. Head(Contents(mq[e])) \in Messages
        BY <4>1, <4>2, <4>3 DEF Filled
      <4> QED BY <3>1, <4>4 DEF Messages
    <3>3. Run(e)' = {th'[v].msg : v \in {u \in Workers : th'[u].queue = e /\ th'[u].msg # 0}}
      BY DEF Run
    <3>4. {u \in Workers : th'[u].queue = e /\ th'[u].msg # 0} = {w}
      BY <3>1, <3>2
    <3> QED BY <3>1, <3>3, <3>4
  <2>3. ASSUME NEW h \in Handles \ {e} PROVE Run(h)' = Run(h)
    <3>1. /\ th[w].queue # h /\ th'[w].queue # h
          /\ \A v \in Workers \ {w} : th'[v] = th[v]
      BY <1>2, <1>n, <2>3 DEF Takes, Only
    <3>2. \A v \in Workers : (th'[v].queue = h /\ th'[v].msg # 0) <=> (th[v].queue = h /\ th[v].msg # 0)
      BY <3>1
    <3> QED BY <3>1, <3>2 DEF Run
  <2>4. Runs' = [Runs EXCEPT ![e] = {Head(Boxes[e])}] /\ Runs[e] = {} /\ Boxes[e] # <<>>
    BY <1>2, <2>1, <2>2, <2>3 DEF Runs, Boxes, Takes
  <2>5. Boxes' = [Boxes EXCEPT ![e] = Tail(@)] /\ UNCHANGED Gone
    BY <1>2 DEF Boxes, Takes, Refilled, SameServices
  <2> QED BY <2>4, <2>5, MailboxStep
<1>3. ASSUME NEW w \in Workers, NEW e \in Handles, Drops(w, e)
      PROVE  [MB!Next]_<<Boxes, Runs, Gone>>
  <2>1. \A h : Run(h)' = Run(h)
    BY <1>3, <1>n, SameRun DEF Drops, Only, SameIn
  <2>2. Run(e) = {}
    BY <1>3 DEF Drops, Run
  <2>3. Boxes' = [Boxes EXCEPT ![e] = Tail(@)] /\ UNCHANGED <<Runs, Gone>>
    BY <1>3, <2>1 DEF Boxes, Runs, Drops, Refilled, SameServices
  <2>4. e \in Gone /\ Boxes[e] # <<>> /\ Runs[e] = {}
    BY <1>3, <2>2 DEF Drops, Boxes, Runs
  <2> QED BY <2>3, <2>4, MailboxStep
<1>4. ASSUME NEW w \in Workers, NEW e \in Handles, Finishes(w, e)
      PROVE  [MB!Next]_<<Boxes, Runs, Gone>>
  <2>0. /\ th[w].queue = e /\ th[w].msg # 0 /\ th'[w].msg = 0
        /\ \A v \in Workers \ {w} : th'[v] = th[v] /\ th[v].queue # e
    BY <1>4, <1>n DEF Finishes, Only
  <2>1. th[w].msg \in Run(e)
    BY <2>0 DEF Run
  <2>2. Run(e)' = {}
    <3>1. \A v \in Workers : ~(th'[v].queue = e /\ th'[v].msg # 0)
      BY <2>0
    <3> QED BY <3>1 DEF Run
  <2>3. ASSUME NEW h \in Handles \ {e} PROVE Run(h)' = Run(h)
    <3>2. \A v \in Workers : (th'[v].queue = h /\ th'[v].msg # 0) <=> (th[v].queue = h /\ th[v].msg # 0)
      BY <2>0, <2>3
    <3> QED BY <2>0, <2>3, <3>2 DEF Run
  <2>4. Runs[e] # {} /\ Runs' = [Runs EXCEPT ![e] = {}]
    BY <2>1, <2>2, <2>3 DEF Runs
  <2>5. UNCHANGED <<Boxes, Gone>>
    BY <1>4, SameTables DEF Finishes, Boxes
  <2> QED BY <2>4, <2>5, MailboxStep
<1>5. ASSUME NEW w \in Workers, NEW e \in Handles, Retires(w, e)
      PROVE  [MB!Next]_<<Boxes, Runs, Gone>>
  <2>1. \A h : Run(h)' = Run(h)
    BY <1>5, <1>n, SameRun DEF Retires, Only, SameIn
  <2>2. Gone' = Gone \cup {e} /\ UNCHANGED <<Boxes, Runs>>
    BY <1>5, <2>1 DEF Retires, Boxes, Runs
  <2> QED BY <2>2, MailboxStep
<1>6. ASSUME NEW t \in Threads, NEW e \in Handles, Puts(t, e)
      PROVE  [MB!Next]_<<Boxes, Runs, Gone>>
  <2>1. \A h : Run(h)' = Run(h)
    BY <1>6, <1>n, SameRun DEF Puts, Only, SameIn
  <2>2. /\ Boxes' = [Boxes EXCEPT ![e] = Append(@, th[t].out)] /\ th[t].out \in Messages
        /\ UNCHANGED <<Runs, Gone>>
    BY <1>6, <2>1 DEF Puts, Boxes, Runs, Refilled, SameServices
  <2> QED BY <2>2, MailboxStep
<1>7. ASSUME NEW t \in Threads, NEW e, UNCHANGED <<slot, mq>>, Only(t), SameIn(t)
      PROVE  [MB!Next]_<<Boxes, Runs, Gone>>
  <2>1. \A h : Run(h)' = Run(h)
    BY <1>7, <1>n, SameRun DEF Only, SameIn
  <2>2. UNCHANGED <<Boxes, Runs, Gone>>
    BY <1>7, <2>1, SameTables DEF Boxes, Runs
  <2> QED BY <2>2, MailboxStep
<1>8. ASSUME NEW t \in Threads, NEW e \in Handles, Refuses(t, e) \/ \E s : Sends(t, s, e)
      PROVE  [MB!Next]_<<Boxes, Runs, Gone>>
  BY <1>7, <1>8 DEF Refuses, Sends
<1> QED BY <1>1, <1>2, <1>3, <1>4, <1>5, <1>6, <1>8, Kinds

\* The node starts with empty mailboxes and nobody retired.
LEMMA MailboxInit == Init => MB!Init
<1> SUFFICES ASSUME Init PROVE MB!Init
  OBVIOUS
<1>1. \A h \in Handles : Contents(mq[h]) = <<>>
  <2>1. PICK at \in 0..QueueSize - 1 :
          mq = [h \in Handles |->
                  IF h <= InitHandles THEN [NewQueue EXCEPT !.head = at, !.tail = at]
                                      ELSE NoQueue]
    BY DEF Init
  <2> DEFINE p == [NewQueue EXCEPT !.head = at, !.tail = at]
  <2>2. Length(p) = 0
    <3>1. p.head = at /\ p.tail = at
      BY NewQueueRing DEF Queues
    <3>2. at \in Int
      OBVIOUS
    <3> HIDE DEF p
    <3> QED BY <3>1, <3>2 DEF Length
  <2>3. \A h \in Handles : mq[h] = p \/ mq[h] = NoQueue
    BY <2>1
  <2> HIDE DEF p
  <2>4. Contents(p) = <<>> /\ Contents(NoQueue) = <<>>
    BY <2>2, NewQueueRing, NoContents
  <2> QED BY <2>3, <2>4
<1>2. \A h \in Handles : Run(h) = {}
  <2>1. \A w \in Workers : th[w].msg = 0
    BY DEF Init, Threads
  <2> QED BY <2>1 DEF Run
<1>3. Gone = {}
  <2>1. \A h \in Handles : InSlot(h) <=> h <= InitHandles
    BY InitSlots
  <2>2. \A h \in Handles : ~(h <= InitHandles) => mq[h] = NoQueue
    BY DEF Init
  <2> QED BY <2>1, <2>2, NewQueueRing DEF Gone, Created
<1>4. Boxes = [s \in Handles |-> <<>>] /\ Runs = [s \in Handles |-> {}]
  BY <1>1, <1>2 DEF Boxes, Runs
<1> QED BY <1>3, <1>4 DEF MB!Init, Boxes, Runs, Run, Gone

\* The queues implement the mailbox: the messages of a service are handled one at a time
\* in the order of skynet_mq_push, and dropped only after skynet_handle_retire when the
\* service does not run.
THEOREM QueuesAreMailboxes == Spec => MailboxSpec
<1>1. QueueInv /\ [Next]_vars => [MB!Next]_<<Boxes, Runs, Gone>>
  BY MailboxNext
<1> QED BY <1>1, MailboxInit, QueueInvariant, PTL DEF Spec, MailboxSpec, MB!Spec, Boxes, Runs, Run, Gone

-----------------------------------------------------------------------------
(* Reports *)

\* Message e waits in the queue of s.
Queued(e, s) == \E i \in 1..Len(Contents(mq[s])) : Contents(mq[s])[i] = e

\* The messages sent so far and the errors that may report them.
Sent == {m \in Messages : m <= nmsg \/ (m > MaxMsgs /\ m <= MaxMsgs + nmsg)}

\* Every message in the node was sent, a report goes to the sender of what it reports,
\* and senders are services.
MsgInv ==
    /\ \A h \in Handles : \A e : Queued(e, h) => e \in Sent
    /\ \A t \in Threads :
          /\ th[t].out \in {0} \cup Sent /\ th[t].msg \in {0} \cup Sent
          /\ th[t].out \in Errors => th[t].dst = source[th[t].out - MaxMsgs]
    /\ \A m \in Messages \ Sent : fate[m] = ""
    /\ \A m \in Messages : source[m] # 0 => m \in Sent /\ m \notin Errors /\ source[m] \in Created

\* What has become of the report e of a message of service s.
Accounted(e, s) ==
    \/ fate[e] \in {"handled", "dropped"}
    \/ fate[e] = "refused" /\ s \in Gone
    \/ \E t \in Threads : th[t].out = e
    \/ \E w \in Workers : th[w].msg = e
    \/ Queued(e, s)

ReportInv ==
    \A m \in 1..MaxMsgs :
        fate[m] = "dropped" /\ source[m] # 0 => Accounted(MaxMsgs + m, source[m])

\* The contents of queues are sequences.
LEMMA Boxed ==
    ASSUME QueueInv, NEW h \in Handles
    PROVE  Contents(mq[h]) \in Seq({0} \cup Messages)
<1>1. mq[h] \in Queues /\ Ring(mq[h])
  BY DEF QueueInv, Types
<1> QED BY <1>1, LengthNat

\* What is in a sequence when its first element has gone, and in one that has got one more.
LEMMA InTail ==
    ASSUME NEW S, NEW s \in Seq(S), s # <<>>, NEW e
    PROVE  /\ (\E i \in 1..Len(s) : s[i] = e) =>
                  e = Head(s) \/ \E i \in 1..Len(Tail(s)) : Tail(s)[i] = e
           /\ (\E i \in 1..Len(Tail(s)) : Tail(s)[i] = e) => \E i \in 1..Len(s) : s[i] = e
           /\ \E i \in 1..Len(s) : s[i] = Head(s)
<1>1. /\ Len(s) \in Nat /\ Len(s) > 0 /\ Head(s) = s[1] /\ Len(Tail(s)) = Len(s) - 1
      /\ \A i \in 1..Len(s) - 1 : Tail(s)[i] = s[i + 1]
  BY HeadTailProperties
<1>2. ASSUME NEW i \in 1..Len(s), s[i] = e, e # Head(s)
      PROVE  \E j \in 1..Len(Tail(s)) : Tail(s)[j] = e
  <2>1. i # 1 /\ i - 1 \in 1..Len(s) - 1
    BY <1>1, <1>2
  <2>2. Tail(s)[i - 1] = s[i]
    BY <1>1, <2>1
  <2> QED BY <1>1, <1>2, <2>1, <2>2
<1>3. ASSUME NEW i \in 1..Len(Tail(s)), Tail(s)[i] = e PROVE \E j \in 1..Len(s) : s[j] = e
  <2>1. i + 1 \in 1..Len(s) /\ s[i + 1] = e
    BY <1>1, <1>3
  <2> QED BY <2>1
<1>4. 1 \in 1..Len(s)
  BY <1>1
<1> QED BY <1>1, <1>2, <1>3, <1>4

\* The same for a sequence that has got one element more.
LEMMA InAppend ==
    ASSUME NEW S, NEW s \in Seq(S), NEW x \in S, NEW e
    PROVE  (\E i \in 1..Len(Append(s, x)) : Append(s, x)[i] = e) <=>
                  e = x \/ \E i \in 1..Len(s) : s[i] = e
<1>1. /\ Len(s) \in Nat /\ Len(Append(s, x)) = Len(s) + 1 /\ Append(s, x)[Len(s) + 1] = x
      /\ \A i \in 1..Len(s) : Append(s, x)[i] = s[i]
  BY AppendProperties
<1>2. ASSUME NEW i \in 1..Len(s) + 1 PROVE i = Len(s) + 1 \/ i \in 1..Len(s)
  BY <1>1
<1>3. ASSUME NEW i \in 1..Len(s) PROVE i \in 1..Len(s) + 1
  BY <1>1
<1>4. Len(s) + 1 \in 1..Len(s) + 1
  BY <1>1
<1> QED BY <1>1, <1>2, <1>3, <1>4

\* A step of a message out of the queue of e or into it, seen by all queues.
LEMMA QueuedTail ==
    ASSUME QueueInv, NEW h \in Handles, Contents(mq[h]) # <<>>, Refilled(h, Tail(Contents(mq[h])))
    PROVE  /\ \A s \in Handles : \A e : Queued(e, s)' => Queued(e, s)
           /\ \A s \in Handles : \A e : Queued(e, s) => Queued(e, s)' \/ e = Head(Contents(mq[h]))
           /\ Queued(Head(Contents(mq[h])), h)
<1>1. PICK c : c = Contents(mq[h]) /\ c \in Seq({0} \cup Messages) /\ c # <<>>
  BY Boxed
<1>2. Contents(mq'[h]) = Tail(c) /\ \A g \in Handles \ {h} : Contents(mq'[g]) = Contents(mq[g])
  BY <1>1 DEF Refilled
<1>4. ASSUME NEW s \in Handles, NEW e
      PROVE  /\ Queued(e, s)' => Queued(e, s)
             /\ Queued(e, s) => Queued(e, s)' \/ e = Head(Contents(mq[h]))
  <2>1. CASE s = h
    <3> DEFINE Before == \E i \in 1..Len(c) : c[i] = e
               After == \E i \in 1..Len(Tail(c)) : Tail(c)[i] = e
    <3>1. (Before => e = Head(c) \/ After) /\ (After => Before)
      <4>1. PICK S : c \in Seq(S)
        BY <1>1
      <4>2. c # <<>>
        BY <1>1
      <4>3. /\ (\E i \in 1..Len(c) : c[i] = e) =>
                  e = Head(c) \/ \E i \in 1..Len(Tail(c)) : Tail(c)[i] = e
            /\ (\E i \in 1..Len(Tail(c)) : Tail(c)[i] = e) => \E i \in 1..Len(c) : c[i] = e
            /\ \E i \in 1..Len(c) : c[i] = Head(c)
        BY <4>1, <4>2, InTail
      <4> QED BY <4>3
    <3>2. (Queued(e, s) <=> Before) /\ (Queued(e, s)' <=> After)
      BY <1>1, <1>2, <2>1 DEF Queued
    <3> HIDE DEF Before, After
    <3> QED BY <1>1, <3>1, <3>2
  <2>2. CASE s # h
    BY <1>2, <2>2 DEF Queued
  <2> QED BY <2>1, <2>2
<1>5. Queued(Head(Contents(mq[h])), h)
  BY <1>1, InTail DEF Queued
<1> QED BY <1>4, <1>5

\* And into it.
LEMMA QueuedAppend ==
    ASSUME QueueInv, NEW h \in Handles, NEW x \in Messages, Refilled(h, Append(Contents(mq[h]), x))
    PROVE  \A s \in Handles : \A e : Queued(e, s)' <=> Queued(e, s) \/ (s = h /\ e = x)
<1>1. PICK c : c = Contents(mq[h]) /\ c \in Seq({0} \cup Messages)
  BY Boxed
<1>2. /\ Contents(mq'[h]) = Append(c, x)
      /\ \A g \in Handles \ {h} : Contents(mq'[g]) = Contents(mq[g])
  BY <1>1 DEF Refilled
<1>3. \A e : (\E i \in 1..Len(Append(c, x)) : Append(c, x)[i] = e) <=>
                  e = x \/ \E i \in 1..Len(c) : c[i] = e
  BY <1>1, InAppend
<1>4. ASSUME NEW s \in Handles, NEW e PROVE Queued(e, s)' <=> Queued(e, s) \/ (s = h /\ e = x)
  <2>1. CASE s = h
    BY <1>1, <1>2, <1>3, <2>1 DEF Queued
  <2>2. CASE s # h
    BY <1>2, <2>2 DEF Queued
  <2> QED BY <2>1, <2>2
<1> QED BY <1>4

\* The two invariants and the types they rest on.
MsgTypes ==
    /\ nmsg \in 0..MaxMsgs /\ MaxMsgs \in Nat
    /\ source \in [Messages -> Handle0] /\ DOMAIN fate = Messages
    /\ Created \subseteq Handles /\ Handles \subseteq Nat \ {0}

\* These types.
LEMMA TypedMsgs == ASSUME QueueInv PROVE MsgTypes
<1>1. nmsg \in 0..MaxMsgs /\ source \in [Messages -> Handle0] /\ DOMAIN fate = Messages
  BY DEF QueueInv, Types
<1>2. MaxMsgs \in Nat /\ Created \subseteq Handles /\ Handles \subseteq Nat \ {0}
  BY QueueAssumption DEF Created, Handles
<1> QED BY <1>1, <1>2 DEF MsgTypes

\* A thread's messages, as MsgInv has them.
Told(r) ==
    /\ r.out \in {0} \cup Sent /\ r.msg \in {0} \cup Sent
    /\ r.out \in Errors => r.dst = source[r.out - MaxMsgs]

\* Steps that send nothing new: what threads and queues have was sent.
LEMMA KeepMsgs ==
    ASSUME MsgInv, UNCHANGED <<nmsg, source>>, Created \subseteq Created',
           \A h \in Handles : \A e : Queued(e, h)' => e \in Sent,
           \A t \in Threads : Told(th'[t]),
           \A m \in Messages \ Sent : fate'[m] = ""
    PROVE  MsgInv'
<1>1. Sent' = Sent
  BY DEF Sent
<1>2. \A t \in Threads : /\ th'[t].out \in {0} \cup Sent /\ th'[t].msg \in {0} \cup Sent
                         /\ th'[t].out \in Errors => th'[t].dst = source[th'[t].out - MaxMsgs]
  BY DEF Told
<1>3. \A m \in Messages : source'[m] # 0 => m \in Sent /\ m \notin Errors /\ source'[m] \in Created'
  BY DEF MsgInv
<1> QED BY <1>1, <1>2, <1>3 DEF MsgInv

\* The thread that keeps what it sends and runs for, or stops doing so.
LEMMA KeepTold ==
    ASSUME MsgInv, NEW t \in Threads,
           th'[t].out = 0 \/ SameOut(t), th'[t].msg = 0 \/ th'[t].msg = th[t].msg
    PROVE  Told(th'[t])
<1>1. 0 \notin Errors
  BY QueueAssumption DEF Errors
<1>2. Told(th[t])
  BY DEF MsgInv, Told
<1> QED BY <1>1, <1>2 DEF Told, SameOut

\* MsgInv is kept by the steps that move no message and by each that moves one.
LEMMA MsgStill == ASSUME QueueInv, MsgInv, Still PROVE MsgInv'
<1>1. \A h \in Handles : \A e : Queued(e, h)' <=> Queued(e, h)
  BY DEF Still, Queued
<1>2. ASSUME NEW t \in Threads PROVE Told(th'[t])
  BY KeepTold DEF Still, SameMsgs, SameOut
<1>3. \A m \in Messages \ Sent : fate'[m] = ""
  BY DEF MsgInv, Still, hist
<1>4. \A h \in Handles : \A e : Queued(e, h)' => e \in Sent
  BY <1>1 DEF MsgInv
<1> QED BY <1>2, <1>3, <1>4, KeepMsgs DEF Still, hist

\* skynet_mq_pop.
LEMMA MsgTakes ==
    ASSUME QueueInv, MsgInv, NEW w \in Workers, NEW h \in Handles, Takes(w, h)
    PROVE  MsgInv'
<1> w \in Threads
  BY DEF Threads
<1>1. /\ \A s \in Handles : \A e : Queued(e, s)' => Queued(e, s)
      /\ Queued(Head(Contents(mq[h])), h)
  BY QueuedTail DEF Takes
<1>2. \A s \in Handles : \A e : Queued(e, s)' => e \in Sent
  BY <1>1 DEF MsgInv
<1>3. Told(th'[w])
  <2>1. th'[w].msg \in Sent
    BY <1>1 DEF Takes, MsgInv
  <2>2. Told(th[w])
    BY DEF MsgInv, Told
  <2> QED BY <2>1, <2>2 DEF Takes, SameOut, Told
<1>4. ASSUME NEW t \in Threads PROVE Told(th'[t])
  BY <1>3, KeepTold DEF Takes, Only, SameOut
<1>5. \A m \in Messages \ Sent : fate'[m] = ""
  BY DEF MsgInv, Takes, hist
<1> QED BY <1>2, <1>4, <1>5, KeepMsgs DEF Takes, SameServices, hist

\* _drop_queue.
LEMMA MsgDrops ==
    ASSUME QueueInv, MsgInv, NEW w \in Workers, NEW h \in Handles, Drops(w, h)
    PROVE  MsgInv'
<1> w \in Threads
  BY DEF Threads
<1>0. MsgTypes
  BY TypedMsgs
<1>1. /\ \A s \in Handles : \A e : Queued(e, s)' => Queued(e, s)
      /\ Queued(Head(Contents(mq[h])), h)
  BY QueuedTail DEF Drops
<1>2. \A s \in Handles : \A e : Queued(e, s)' => e \in Sent
  BY <1>1 DEF MsgInv
<1>3. PICK m : m = Head(Contents(mq[h])) /\ m \in Sent
  BY <1>1 DEF MsgInv
<1>4. Told(th'[w])
  <2>1. CASE SameOut(w)
    BY <2>1, KeepTold DEF Drops, SameIn
  <2>2. CASE ~SameOut(w)
    <3>1. /\ th'[w].out = MaxMsgs + m /\ th'[w].dst = source[m] /\ m \notin Errors
          /\ th'[w].msg = th[w].msg
      BY <1>3, <2>2 DEF Drops, SameIn
    <3>2. m \in 1..nmsg
      BY <1>0, <1>3, <3>1 DEF Sent, Errors, Messages, MsgTypes
    <3>3. MaxMsgs + m \in Sent /\ (MaxMsgs + m) - MaxMsgs = m
      BY <1>0, <3>2 DEF Sent, Messages, MsgTypes
    <3>4. th[w].msg \in {0} \cup Sent
      BY DEF MsgInv
    <3> QED BY <3>1, <3>3, <3>4 DEF Told
  <2> QED BY <2>1, <2>2
<1>5. ASSUME NEW t \in Threads PROVE Told(th'[t])
  BY <1>4, KeepTold DEF Drops, Only, SameOut
<1>6. \A x \in Messages \ Sent : fate'[x] = ""
  BY <1>0, <1>3 DEF MsgInv, Drops, MsgTypes
<1> QED BY <1>2, <1>5, <1>6, KeepMsgs DEF Drops, SameServices

\* The end of a callback, a service that is retired, a message that nobody takes.
LEMMA MsgEnds ==
    ASSUME QueueInv, MsgInv, NEW t \in Threads, NEW h \in Handles,
           (t \in Workers /\ (Finishes(t, h) \/ Retires(t, h))) \/ Refuses(t, h)
    PROVE  MsgInv'
<1>0. MsgTypes
  BY TypedMsgs
<1>1. \A s \in Handles : \A e : Queued(e, s)' <=> Queued(e, s)
  BY DEF Finishes, Retires, Refuses, Queued
<1>2. \A s \in Handles : \A e : Queued(e, s)' => e \in Sent
  BY <1>1 DEF MsgInv
<1>3. ASSUME NEW u \in Threads PROVE Told(th'[u])
  BY KeepTold DEF Finishes, Retires, Refuses, Only, SameOut, SameIn
<1>4. \A m \in Messages \ Sent : fate'[m] = ""
  <2>1. th[t].out \in {0} \cup Sent /\ th[t].msg \in {0} \cup Sent
    BY DEF MsgInv
  <2> QED BY <1>0, <2>1 DEF MsgInv, Finishes, Retires, Refuses, MsgTypes, hist
<1>5. UNCHANGED <<nmsg, source>> /\ Created' = Created
  BY DEF Finishes, Retires, Refuses, hist, Created
<1> QED BY <1>2, <1>3, <1>4, <1>5, KeepMsgs

\* skynet_mq_push.
LEMMA MsgPuts ==
    ASSUME QueueInv, MsgInv, NEW t \in Threads, NEW h \in Handles, Puts(t, h)
    PROVE  MsgInv'
<1>1. \A s \in Handles : \A e : Queued(e, s)' <=> Queued(e, s) \/ (s = h /\ e = th[t].out)
  BY QueuedAppend DEF Puts
<1>2. th[t].out \in Sent
  <2>1. th[t].out \in {0} \cup Sent /\ th[t].out # 0
    <3>1. 0 \notin Messages
      BY DEF Messages
    <3> QED BY <3>1 DEF MsgInv, Puts
  <2> QED BY <2>1
<1>3. \A s \in Handles : \A e : Queued(e, s)' => e \in Sent
  BY <1>1, <1>2 DEF MsgInv
<1>4. ASSUME NEW u \in Threads PROVE Told(th'[u])
  BY KeepTold DEF Puts, Only, SameOut, SameIn
<1>5. \A m \in Messages \ Sent : fate'[m] = ""
  BY DEF MsgInv, Puts, hist
<1> QED BY <1>3, <1>4, <1>5, KeepMsgs DEF Puts, SameServices, hist

\* A new message.
LEMMA MsgSends ==
    ASSUME QueueInv, MsgInv, NEW t \in Threads, NEW h \in Handles, NEW s, Sends(t, s, h)
    PROVE  MsgInv'
<1>0. MsgTypes
  BY TypedMsgs
<1>m. PICK n \in Nat : n = nmsg + 1 /\ n <= MaxMsgs
  BY <1>0 DEF MsgTypes, Sends
<1>n. n \in Messages /\ n \notin Sent /\ n \notin Errors /\ n # 0
  BY <1>0, <1>m DEF MsgTypes, Messages, Sent, Errors
<1>1. Sent \subseteq Sent' /\ n \in Sent'
  BY <1>0, <1>m DEF MsgTypes, Sent, Sends, Messages
<1>2. \A g \in Handles : \A e : Queued(e, g)' => e \in Sent'
  BY <1>1 DEF MsgInv, Sends, Queued
<1>3. ASSUME NEW u \in Threads
      PROVE  /\ th'[u].out \in {0} \cup Sent' /\ th'[u].msg \in {0} \cup Sent'
             /\ th'[u].out \in Errors => th'[u].dst = source'[th'[u].out - MaxMsgs]
  <2>1. CASE u = t
    <3>1. th'[u].out = n /\ th'[u].msg = th[u].msg
      BY <1>m, <2>1 DEF Sends, SameIn
    <3> QED BY <1>n, <1>1, <3>1 DEF MsgInv
  <2>2. CASE u # t
    <3>1. th'[u] = th[u]
      BY <2>2 DEF Sends, Only
    <3>2. ASSUME th[u].out \in Errors
          PROVE  th[u].dst = source'[th[u].out - MaxMsgs]
      <4>1. th[u].out \in Sent /\ th[u].dst = source[th[u].out - MaxMsgs]
        <5>1. 0 \notin Errors
          BY <1>0 DEF Errors, MsgTypes
        <5> QED BY <3>2, <5>1 DEF MsgInv
      <4>2. PICK k \in Nat : k = th[u].out - MaxMsgs /\ k <= nmsg /\ k # n
        <5>1. th[u].out - MaxMsgs \in Nat /\ th[u].out - MaxMsgs <= nmsg
          BY <1>0, <3>2, <4>1 DEF Errors, Sent, MsgTypes, Messages
        <5> QED BY <1>0, <1>m, <5>1 DEF MsgTypes
      <4>3. source'[k] = source[k]
        BY <1>m, <4>2, <1>0 DEF Sends, MsgTypes
      <4> QED BY <4>1, <4>2, <4>3
    <3> QED BY <1>1, <3>1, <3>2 DEF MsgInv
  <2> QED BY <2>1, <2>2
<1>4. \A m \in Messages \ Sent' : fate'[m] = ""
  BY <1>1 DEF MsgInv, Sends
<1>5. ASSUME NEW m \in Messages, source'[m] # 0
      PROVE  m \in Sent' /\ m \notin Errors /\ source'[m] \in Created'
  <2>1. Created' = Created
    BY DEF Sends, Created
  <2>2. CASE m = n
    <3>1. source'[m] = s
      BY <1>0, <1>m, <1>n, <2>2 DEF Sends, MsgTypes
    <3> QED BY <1>1, <1>n, <1>5, <2>1, <2>2, <3>1 DEF Sends
  <2>3. CASE m # n
    <3>1. source'[m] = source[m]
      BY <1>0, <1>m, <2>3 DEF Sends, MsgTypes
    <3> QED BY <1>1, <1>5, <2>1, <3>1 DEF MsgInv
  <2> QED BY <2>2, <2>3
<1> QED BY <1>2, <1>3, <1>4, <1>5 DEF MsgInv

-----------------------------------------------------------------------------
(* Who has sent can be found *)

\* skynet_handle_grab finds h, or h is retired.  A new context that a concurrent
\* skynet_handle_register hashed before its handle was stored is neither.
Found(h) == h \in Created /\ (Registered(h) \/ ~InSlot(h))

\* Message m was sent by a new service to itself and has not arrived.
Loose(m) ==
    /\ \A h \in Handles : ~Queued(m, h)
    /\ \A t \in Threads : th[t].msg # m
    /\ \A t \in Threads : th[t].out = m => th[t].pc = "grab" /\ th[t].dst = source[m]
    /\ fate[m] # "dropped"

\* A service that runs was found, and so was the sender of a message that arrived.
FoundInv ==
    /\ \A w \in Workers : th[w].pc \in {"pop0", "pop"} \/ th[w].msg # 0 => Found(th[w].queue)
    /\ \A m \in Messages : source[m] # 0 => Found(source[m]) \/ Loose(m)

\* A thread changes its own record.
LEMMA OthersSame ==
    ASSUME QueueInv, NEW t \in Threads,
           \/ t \in Workers /\ (Dispatch(t) \/ Callback(t) \/ Return(t) \/ Wakeup(t))
           \/ Go(t) \/ \E d \in Handles : Send(t, d)
    PROVE  \A u \in Threads \ {t} : th'[u] = th[u]
<1>0. th \in [Threads -> Locals]
  BY DEF QueueInv, Types
<1>1. ASSUME NEW u \in Threads \ {t}, t \in Workers, Dispatch(t) PROVE th'[u] = th[u]
  BY <1>0, <1>1 DEF Dispatch, TakeQueue, NextQueue, PopGlobal, Goto, Exit, Sleep, Grab, MqPop,
     MqLength, Swap, PushBack, Launch, Launched, LaunchFailed, MqRelease, DropQueue
<1>2. ASSUME NEW u \in Threads \ {t}, t \in Workers, Callback(t) \/ Return(t) \/ Wakeup(t)
      PROVE  th'[u] = th[u]
  BY <1>0, <1>2 DEF Callback, Kill, Register, InitSend, InitEnd, Return, Wakeup, Goto
<1>3. ASSUME NEW u \in Threads \ {t}, Go(t) \/ \E d \in Handles : Send(t, d)
      PROVE  th'[u] = th[u]
  BY <1>0, <1>3 DEF Go, Release, Delete, SendGrab, SendPush, Send, Goto
<1> QED BY <1>1, <1>2, <1>3

\* What is found stays so until it is retired.
LEMMA FoundStays ==
    ASSUME QueueInv, [Next]_vars, NEW h, Found(h)
    PROVE  Found(h)'
<1>0. h \in Created /\ h \in Handles /\ Stored(h) = h
  BY DEF Found, Created, Stored
<1>1. h \in Created'
  <2>1. Created \subseteq Created'
    BY Kinds DEF Still, Takes, Drops, Finishes, Retires, Puts, Refuses, Sends, SameServices, Created
  <2> QED BY <1>0, <2>1
<1>2. Stored(h)' = h
  BY <1>1 DEF Stored, Created
<1>3. CASE UNCHANGED slot
  <2>1. (Registered(h) => Registered(h)') /\ (InSlot(h)' <=> InSlot(h))
    BY <1>2, <1>3 DEF Registered, InSlot, Size
  <2> QED BY <1>1, <2>1 DEF Found
<1>4. ASSUME NEW e \in Handles, Registered(e), slot' = Retired(e) PROVE Found(h)'
  <2>1. InSlot(h)' <=> InSlot(h) /\ h # e
    BY <1>0, <1>4, RetireSlot
  <2>2. CASE h = e \/ ~InSlot(h)
    BY <1>1, <2>1, <2>2 DEF Found
  <2>3. CASE h # e /\ InSlot(h)
    <3>1. /\ slot[h % Size] = h /\ slot[e % Size] = e /\ Size' = Size
          /\ slot' = [slot EXCEPT ![e % Size] = 0] /\ h % Size \in DOMAIN slot
      BY <1>0, <1>4, <2>3, RetireSlot, Findable DEF Found, Registered, Retired
    <3>2. slot'[h % Size'] = h
      BY <2>3, <3>1
    <3> QED BY <1>1, <1>2, <3>2 DEF Found, Registered
  <2> QED BY <2>2, <2>3
<1>5. ASSUME NEW w \in Workers, Register(w) PROVE Found(h)'
  BY <1>0, <1>1, <1>5, RegisterStill DEF Found
<1>6. \/ UNCHANGED slot
      \/ \E e \in Handles : Registered(e) /\ slot' = Retired(e)
      \/ \E w \in Workers : Register(w)
  <2>1. ASSUME NEW w \in Workers, Dispatch(w)
        PROVE  UNCHANGED slot \/ \E e \in Handles : Registered(e) /\ slot' = Retired(e)
    <3>1. CASE LaunchFailed(w)
      <4>1. w \in Threads
        BY DEF Threads
      <4>2. th[w] \in Locals /\ Shape(w, th[w]) /\ th[w].pc = "failed"
        BY <3>1, <4>1, Record DEF LaunchFailed
      <4>3. th[w].new \in Handles
        BY <4>2 DEF Shape, At, Locals, Handle0, Handles, Launching
      <4>4. slot' = Retired(th[w].new)
        BY <3>1 DEF LaunchFailed
      <4> QED BY <4>3, <4>4 DEF Retired
    <3> QED BY <2>1, <3>1 DEF Dispatch, TakeQueue, NextQueue, Exit, Sleep, Grab, MqPop,
               MqLength, Swap, PushBack, Launch, Launched, MqRelease, DropQueue, slots
  <2>2. ASSUME NEW w \in Workers, Callback(w) \/ Return(w) \/ Wakeup(w)
        PROVE  \/ UNCHANGED slot
               \/ \E e \in Handles : Registered(e) /\ slot' = Retired(e)
               \/ Register(w)
    BY <2>2 DEF Callback, Kill, InitSend, InitEnd, Return, Wakeup, slots
  <2>3. ASSUME NEW t \in Threads, Go(t) \/ \E d \in Handles : Send(t, d)
        PROVE  UNCHANGED slot
    BY <2>3 DEF Go, Release, Delete, SendGrab, SendPush, Send, slots
  <2>4. CASE CheckAbort \/ UNCHANGED vars
    BY <2>4 DEF CheckAbort, vars, slots
  <2> QED BY <2>1, <2>2, <2>3, <2>4 DEF Next
<1> QED BY <1>3, <1>4, <1>5, <1>6

\* A worker pops the queue it has popped or run for, or one it has just found.
LEMMA PopsFound ==
    ASSUME QueueInv, [Next]_vars, NEW w \in Workers, th'[w].pc \in {"pop0", "pop"}
    PROVE  /\ th'[w].queue = th[w].queue
           /\ \/ th[w].pc \in {"pop0", "pop"} \/ th[w].msg # 0
              \/ Registered(th[w].queue) /\ th[w].queue \in Handles
<1> w \in Threads
  BY DEF Threads
<1>0. th[w] \in Locals /\ Shape(w, th[w]) /\ th \in [Threads -> Locals]
  BY Record DEF QueueInv, Types
<1>1. CASE th'[w] = th[w]
  BY <1>1
<1>2. CASE Grab(w)
  <2>1. th[w].queue \in Handles
    BY <1>0, <1>2 DEF Grab, Shape, At, Locals, Handle0, Handles
  <2>2. Registered(th[w].queue) /\ th' = [th EXCEPT ![w].pc = "pop0"]
    BY <1>0, <1>2 DEF Grab, Goto, Locals
  <2> QED BY <1>0, <2>1, <2>2 DEF Locals
<1>3. CASE Return(w)
  <2>1. th[w].msg # 0
    BY <1>0, <1>3 DEF Return, Shape, At, InCallback
  <2> QED BY <1>0, <1>3, <2>1 DEF Return, Locals
<1>4. CASE Release(w) \/ Delete(w) \/ SendGrab(w) \/ SendPush(w)
  <2>1. th[w].back \notin {"pop0", "pop"} /\ th[w].pc \in {"rel", "delete", "grab", "push"}
    BY <1>0, <1>4 DEF Release, Delete, SendGrab, SendPush, Shape, At
  <2>2. \/ th'[w] = [th[w] EXCEPT !.pc = "delete"] \/ th'[w] = Returning(th[w])
        \/ th'[w] = [th[w] EXCEPT !.pc = "push"]
        \/ th'[w] = [Returning(th[w]) EXCEPT !.out = 0, !.dst = 0]
        \/ th'[w].pc = "rel"
    <3>1. CASE Release(w)
      BY <1>0, <3>1 DEF Release
    <3>2. CASE Delete(w)
      BY <1>0, <3>2 DEF Delete
    <3>3. CASE SendGrab(w)
      BY <1>0, <3>3 DEF SendGrab, Goto
    <3>4. CASE SendPush(w)
      BY <1>0, <3>4 DEF SendPush, Locals
    <3> QED BY <1>4, <3>1, <3>2, <3>3, <3>4
  <2> QED BY <1>0, <2>1, <2>2 DEF Returning, Locals
<1>5. ASSUME \/ TakeQueue(w) \/ NextQueue(w) \/ Exit(w) \/ Sleep(w) \/ MqLength(w) \/ Wakeup(w)
             \/ Launch(w) \/ Launched(w) \/ Register(w) \/ InitSend(w) \/ CheckAbort
             \/ \E d \in Handles : Send(w, d)
      PROVE  th'[w] = th[w]
  <2>1. CASE CheckAbort
    BY <1>0, <2>1 DEF CheckAbort, Locals
  <2>2. CASE ~CheckAbort
    <3>1. CASE TakeQueue(w) \/ NextQueue(w) \/ Exit(w) \/ Sleep(w) \/ Wakeup(w)
      BY <1>0, <3>1 DEF TakeQueue, NextQueue, PopGlobal, Exit, Sleep, Wakeup, Goto, Locals
    <3>2. CASE MqLength(w) \/ Launch(w) \/ Launched(w) \/ Register(w)
      BY <1>0, <3>2 DEF MqLength, Launch, Launched, Register, Locals
    <3>3. CASE InitSend(w) \/ \E d \in Handles : Send(w, d)
      <4>2. \E m, d, l : th'[w] = Sending(th[w], m, d, l)
        BY <1>0, <3>3 DEF InitSend, Send
      <4> QED BY <1>0, <4>2 DEF Sending, Locals
    <3> QED BY <1>5, <2>2, <3>1, <3>2, <3>3
  <2> QED BY <2>1, <2>2
<1>6. ASSUME \/ MqPop(w) \/ Swap(w) \/ PushBack(w) \/ LaunchFailed(w) \/ MqRelease(w)
             \/ DropQueue(w) \/ (\E d \in Handles : Kill(w, d)) \/ \E ok \in BOOLEAN : InitEnd(w, ok)
      PROVE  FALSE
  <2>1. CASE MqPop(w)
    <3>1. CASE Length(mq[th[w].queue]) = 0
      <4>1. th'[w] = [Releasing(th[w], th[w].queue, "next") EXCEPT !.queue = 0]
        BY <1>0, <2>1, <3>1 DEF MqPop
      <4> QED BY <1>0, <4>1 DEF Releasing, Locals
    <3>2. CASE Length(mq[th[w].queue]) # 0
      <4> DEFINE x == mq[th[w].queue].ring[mq[th[w].queue].head]
                 n == IF th[w].pc = "pop0" THEN 0 ELSE th[w].left - 1
                 l == IF th[w].pc = "pop0" /\ Weight[w] >= 0 THEN "len" ELSE "call"
      <4>1. th' = [th EXCEPT ![w].msg = x, ![w].left = IF th[w].pc = "pop0" THEN 0 ELSE @ - 1,
                             ![w].pc = l]
        BY <2>1, <3>2 DEF MqPop
      <4>2. l # "pop0" /\ l # "pop"
        OBVIOUS
      <4> HIDE DEF x, l
      <4>3. th'[w].pc = l
        BY <1>0, <4>1 DEF Locals
      <4> QED BY <4>2, <4>3
    <3> QED BY <3>1, <3>2
  <2>2. CASE Swap(w) \/ PushBack(w)
    BY <1>0, <2>2 DEF Swap, PushBack, Releasing, Locals
  <2>3. CASE LaunchFailed(w)
    BY <1>0, <2>3 DEF LaunchFailed, Releasing, Locals
  <2>4. CASE MqRelease(w)
    BY <1>0, <2>4 DEF MqRelease, Released, Goto, Locals
  <2>5. CASE DropQueue(w)
    <3>1. \/ \E m : th'[w] = Reported(th[w], m)
          \/ th'[w] = Released(th[w])
      BY <1>0, <2>5 DEF DropQueue
    <3>2. th[w].pc = "drop"
      BY <2>5 DEF DropQueue
    <3> QED BY <1>0, <3>1, <3>2 DEF Released, Reported, Sending, Locals
  <2>6. CASE (\E d \in Handles : Kill(w, d)) \/ \E ok \in BOOLEAN : InitEnd(w, ok)
    BY <1>0, <2>6 DEF Kill, InitEnd, Releasing, Locals
  <2> QED BY <1>6, <2>1, <2>2, <2>3, <2>4, <2>5, <2>6
<1>7. \/ th'[w] = th[w]
      \/ Dispatch(w) \/ Callback(w) \/ Return(w) \/ Wakeup(w) \/ Go(w) \/ CheckAbort
      \/ \E d \in Handles : Send(w, d)
  <2>1. ASSUME NEW v \in Workers, v # w,
               Dispatch(v) \/ Callback(v) \/ Return(v) \/ Wakeup(v)
        PROVE  th'[w] = th[w]
    <3>1. v \in Threads
      BY DEF Threads
    <3> QED BY <2>1, <3>1, OthersSame
  <2>2. ASSUME NEW t \in Threads, t # w, Go(t) \/ \E d \in Handles : Send(t, d)
        PROVE  th'[w] = th[w]
    BY <2>2, OthersSame
  <2>3. CASE UNCHANGED vars
    BY <2>3 DEF vars
  <2> QED BY <2>1, <2>2, <2>3 DEF Next
<1> QED BY <1>1, <1>2, <1>3, <1>4, <1>5, <1>6, <1>7 DEF Dispatch, Callback, Go

\* A thread that looks for the destination goes on when it has found it.
LEMMA GrabFinds ==
    ASSUME QueueInv, [Next]_vars, NEW t \in Threads, th[t].pc = "grab"
    PROVE  \/ th'[t] = th[t] \/ th'[t].out = 0
           \/ Registered(th[t].dst) /\ th'[t].dst = th[t].dst /\ th'[t].out = th[t].out
<1>0. th[t] \in Locals /\ Shape(t, th[t]) /\ th \in [Threads -> Locals]
  BY Record DEF QueueInv, Types
<1>1. CASE SendGrab(t)
  <2>1. \/ Registered(th[t].dst) /\ th'[t] = [th[t] EXCEPT !.pc = "push"]
        \/ th'[t] = [Returning(th[t]) EXCEPT !.out = 0, !.dst = 0]
    BY <1>0, <1>1 DEF SendGrab, Goto
  <2> QED BY <1>0, <2>1 DEF Returning, Locals
<1>2. ASSUME NEW w \in Workers, Dispatch(w) \/ Callback(w) \/ Return(w) \/ Wakeup(w)
      PROVE  w # t
  BY <1>2 DEF Dispatch, TakeQueue, NextQueue, Exit, Sleep, Grab, MqPop, MqLength, Swap,
     PushBack, Launch, Launched, LaunchFailed, MqRelease, DropQueue, Callback, Kill, Register,
     InitSend, InitEnd, Return, Wakeup
<1>3. ASSUME NEW u \in Threads, Go(u) \/ \E d \in Handles : Send(u, d)
      PROVE  u # t \/ SendGrab(t)
  BY <1>3 DEF Go, Release, Delete, SendPush, Send
<1>4. CASE CheckAbort \/ UNCHANGED vars
  BY <1>0, <1>4 DEF CheckAbort, vars
<1>5. CASE th'[t] = th[t]
  BY <1>5
<1>6. th'[t] = th[t] \/ SendGrab(t) \/ CheckAbort \/ UNCHANGED vars
  <2>1. ASSUME NEW w \in Workers, Dispatch(w) \/ Callback(w) \/ Return(w) \/ Wakeup(w)
        PROVE  th'[t] = th[t]
    <3>1. w \in Threads
      BY DEF Threads
    <3> QED BY <1>2, <2>1, <3>1, OthersSame
  <2>2. ASSUME NEW u \in Threads, Go(u) \/ \E d \in Handles : Send(u, d)
        PROVE  th'[t] = th[t] \/ SendGrab(t)
    BY <1>3, <2>2, OthersSame
  <2> QED BY <2>1, <2>2 DEF Next
<1> QED BY <1>1, <1>4, <1>5, <1>6

\* The records of the workers, and a message that has not arrived stays away.
LEMMA FoundRuns ==
    ASSUME QueueInv, FoundInv, [Next]_vars, NEW w \in Workers,
           th'[w].pc \in {"pop0", "pop"} \/ th'[w].msg # 0
    PROVE  \E h : h = th'[w].queue /\ Found(h)'
<1> w \in Threads /\ Workers \subseteq Threads
  BY DEF Threads
<1> DEFINE q == th'[w].queue
<1>1. q = th[w].queue /\ Found(q)
  <2>1. CASE th'[w].pc \in {"pop0", "pop"}
    <3>1. /\ q = th[w].queue
          /\ \/ th[w].pc \in {"pop0", "pop"} \/ th[w].msg # 0
             \/ Registered(th[w].queue) /\ th[w].queue \in Handles
      BY <2>1, PopsFound
    <3>2. CASE Registered(q) /\ q \in Handles
      BY <3>1, <3>2, Findable DEF Found, Owned, Created
    <3> QED BY <3>1, <3>2 DEF FoundInv
  <2>2. CASE th'[w].msg # 0
    <3>1. /\ q = th[w].queue
          /\ th[w].pc \in {"pop0", "pop"} \/ th[w].msg # 0
      <4>1. CASE Still
        BY <2>2, <4>1 DEF Still, SameMsgs
      <4>2. ASSUME NEW v \in Workers, NEW e \in Handles, Takes(v, e) \/ Drops(v, e)
                     \/ Finishes(v, e) \/ Retires(v, e)
            PROVE  q = th[w].queue /\ (th[w].pc \in {"pop0", "pop"} \/ th[w].msg # 0)
        BY <2>2, <4>2 DEF Takes, Drops, Finishes, Retires, Only, SameIn
      <4>3. ASSUME NEW t \in Threads, NEW e \in Handles,
                   Puts(t, e) \/ Refuses(t, e) \/ \E s : Sends(t, s, e)
            PROVE  q = th[w].queue /\ th[w].msg # 0
        BY <2>2, <4>3 DEF Puts, Refuses, Sends, Only, SameIn
      <4> QED BY <4>1, <4>2, <4>3, Kinds
    <3> QED BY <3>1 DEF FoundInv
  <2> QED BY <2>1, <2>2
<1>2. PICK h : h = q
  OBVIOUS
<1>3. Found(h)'
  BY <1>1, <1>2, FoundStays
<1> QED BY <1>2, <1>3

\* A message that has not arrived has not arrived after the step either, or its sender is
\* found.
LEMMA LooseStays ==
    ASSUME QueueInv, MsgInv, [Next]_vars, NEW m \in Messages, m \notin Errors,
           source[m] # 0, Loose(m), source'[m] = source[m]
    PROVE  Found(source[m]) \/ Loose(m)'
<1> SUFFICES ASSUME ~Found(source[m]) PROVE Loose(m)'
  OBVIOUS
<1> Workers \subseteq Threads
  BY DEF Threads
<1>0. MsgTypes
  BY TypedMsgs
<1>1. ASSUME NEW t \in Threads, th[t].out = m
      PROVE  th[t].pc = "grab" /\ (th'[t] = th[t] \/ th'[t].out = 0)
  <2>1. th[t].pc = "grab" /\ th[t].dst = source[m]
    BY <1>1 DEF Loose
  <2>2. ~Registered(source[m])
    <3>1. source[m] \in Created
      BY DEF MsgInv
    <3> QED BY <3>1 DEF Found
  <2> QED BY <2>1, <2>2, GrabFinds
<1>z. m # 0
  BY DEF Messages, MsgTypes
<1>2. CASE Still
  <2>1. \A h \in Handles : ~Queued(m, h)'
    BY <1>2 DEF Still, Queued, Loose
  <2>2. \A t \in Threads : th'[t].msg # m /\ th'[t].out = th[t].out
    BY <1>2 DEF Still, SameMsgs, Loose
  <2>3. \A t \in Threads : th'[t].out = m => th'[t].pc = "grab" /\ th'[t].dst = source[m]
    BY <1>z, <1>1, <2>2 DEF Loose
  <2> QED BY <1>2, <2>1, <2>2, <2>3 DEF Loose, Still, hist
<1>3. ASSUME NEW w \in Workers, NEW e \in Handles, Takes(w, e) PROVE Loose(m)'
  <2>1. /\ \A h \in Handles : ~Queued(m, h)' /\ m # Head(Contents(mq[e]))
    BY <1>3, QueuedTail DEF Takes, Loose
  <2>2. \A t \in Threads : th'[t].msg # m /\ th'[t].out = th[t].out
    BY <1>3, <2>1 DEF Takes, Only, SameOut, Loose
  <2>3. \A t \in Threads : th'[t].out = m => th'[t].pc = "grab" /\ th'[t].dst = source[m]
    BY <1>z, <1>1, <2>2 DEF Loose
  <2> QED BY <1>3, <2>1, <2>2, <2>3 DEF Loose, Takes, hist
<1>4. ASSUME NEW w \in Workers, NEW e \in Handles, Drops(w, e) PROVE Loose(m)'
  <2>1. /\ \A h \in Handles : ~Queued(m, h)' /\ m # Head(Contents(mq[e]))
    BY <1>4, QueuedTail DEF Drops, Loose
  <2>2. \A t \in Threads : th'[t].msg # m
    BY <1>4 DEF Drops, Only, SameIn, Loose
  <2>3. ASSUME NEW t \in Threads, th'[t].out = m PROVE th[t].out = m
    <3>1. CASE t = w
      <4>1. PICK x : x = Head(Contents(mq[e])) /\ x \in Sent
        BY <1>4, QueuedTail DEF Drops, MsgInv
      <4>2. CASE ~(x \in Errors \/ source[x] = 0)
        <5>1. x \in Nat /\ x # 0 /\ x <= MaxMsgs
          BY <1>0, <4>1, <4>2 DEF Sent, Messages, Errors, MsgTypes
        <5>2. MaxMsgs + x \in Errors
          BY <1>0, <5>1 DEF Errors, MsgTypes
        <5> QED BY <1>4, <2>3, <3>1, <4>1, <4>2, <5>2 DEF Drops
      <4> QED BY <1>4, <2>3, <3>1, <4>1, <4>2 DEF Drops, SameOut
    <3> QED BY <1>4, <2>3, <3>1 DEF Drops, Only
  <2>4. \A t \in Threads : th'[t].out = m => th'[t].pc = "grab" /\ th'[t].dst = source[m]
    BY <1>z, <1>1, <2>3 DEF Loose
  <2>5. fate'[m] # "dropped"
    <3>1. PICK x : x = Head(Contents(mq[e])) /\ x # m
      BY <2>1
    <3> QED BY <1>0, <1>4, <3>1 DEF Drops, Loose, MsgTypes
  <2> QED BY <2>1, <2>2, <2>4, <2>5 DEF Loose
<1>5. ASSUME NEW w \in Workers, NEW e \in Handles, Finishes(w, e) \/ Retires(w, e)
      PROVE  Loose(m)'
  <2>1. \A h \in Handles : ~Queued(m, h)'
    BY <1>5 DEF Finishes, Retires, Queued, Loose
  <2>2. \A t \in Threads : th'[t].msg # m /\ th'[t].out = th[t].out
    BY <1>5, <1>z DEF Finishes, Retires, Only, SameOut, SameIn, Loose
  <2>3. \A t \in Threads : th'[t].out = m => th'[t].pc = "grab" /\ th'[t].dst = source[m]
    BY <1>z, <1>1, <2>2 DEF Loose
  <2>4. fate'[m] # "dropped"
    BY <1>0, <1>5 DEF Finishes, Retires, Loose, MsgTypes, hist
  <2> QED BY <2>1, <2>2, <2>3, <2>4 DEF Loose
<1>6. ASSUME NEW t \in Threads, NEW e \in Handles, Puts(t, e) PROVE Loose(m)'
  <2>1. th[t].out # m
    BY <1>1, <1>6 DEF Puts
  <2>2. \A h \in Handles : ~Queued(m, h)'
    BY <1>6, <2>1, QueuedAppend DEF Puts, Loose
  <2>3. \A u \in Threads : th'[u].msg # m /\ (th'[u].out = m => th[u].out = m)
    BY <1>6, <1>z DEF Puts, Only, SameIn, Loose
  <2>4. \A u \in Threads : th'[u].out = m => th'[u].pc = "grab" /\ th'[u].dst = source[m]
    BY <1>z, <1>1, <2>3 DEF Loose
  <2> QED BY <1>6, <2>2, <2>3, <2>4 DEF Loose, Puts, hist
<1>7. ASSUME NEW t \in Threads, NEW e \in Handles, Refuses(t, e) \/ \E s : Sends(t, s, e)
      PROVE  Loose(m)'
  <2>1. \A h \in Handles : ~Queued(m, h)'
    BY <1>7 DEF Refuses, Sends, Queued, Loose
  <2>2. ASSUME NEW u \in Threads PROVE th'[u].msg # m /\ (th'[u].out = m => th[u].out = m)
    <3>1. CASE \E s : Sends(t, s, e)
      <4>1. m # nmsg + 1
        <5>1. m \in Sent
          BY DEF MsgInv
        <5> QED BY <1>0, <5>1 DEF Sent, MsgTypes, Messages, Errors
      <4> QED BY <3>1, <4>1 DEF Sends, Only, SameIn, Loose
    <3> QED BY <1>7, <1>z, <3>1 DEF Refuses, Only, SameIn, Loose
  <2>3. \A u \in Threads : th'[u].out = m => th'[u].pc = "grab" /\ th'[u].dst = source[m]
    BY <1>z, <1>1, <2>2 DEF Loose
  <2>4. fate'[m] # "dropped"
    BY <1>0, <1>7 DEF Refuses, Sends, Loose, MsgTypes
  <2> QED BY <2>1, <2>2, <2>3, <2>4 DEF Loose
<1> QED BY <1>2, <1>3, <1>4, <1>5, <1>6, <1>7, Kinds

\* A step keeps the senders found.
LEMMA FoundNext ==
    ASSUME QueueInv, MsgInv, FoundInv, [Next]_vars
    PROVE  FoundInv'
<1>0. MsgTypes /\ Workers \subseteq Threads
  BY TypedMsgs DEF Threads
<1>1. ASSUME NEW m \in Messages, source'[m] # 0
      PROVE  \E h : h = source'[m] /\ (Found(h)' \/ Loose(m)')
  <2>1. CASE source'[m] = source[m]
    <3>1. PICK h : h = source[m]
      OBVIOUS
    <3>2. m \notin Errors /\ (Found(h) \/ Loose(m))
      BY <1>1, <2>1, <3>1 DEF MsgInv, FoundInv
    <3>3. Found(h) \/ Loose(m)'
      BY <1>1, <2>1, <3>1, <3>2, LooseStays
    <3>4. Found(h) => Found(h)'
      BY FoundStays
    <3> QED BY <2>1, <3>1, <3>3, <3>4
  <2>2. CASE source'[m] # source[m]
    <3>1. PICK t \in Threads, e \in Handles : \E s : Sends(t, s, e)
      BY <2>2, Kinds DEF Still, Takes, Drops, Finishes, Retires, Puts, Refuses, hist
    <3>2. PICK h : Sends(t, h, e)
      BY <3>1
    <3>3. /\ m = nmsg + 1 /\ source'[m] = h /\ h # 0
      BY <1>0, <1>1, <2>2, <3>2 DEF Sends, MsgTypes
    <3>4. CASE t \in Workers /\ th[t].msg # 0 /\ h = th[t].queue
      BY <3>3, <3>4, FoundStays DEF FoundInv
    <3>5. CASE h = e
      <4>1. m \notin Sent /\ fate[m] = "" /\ m # 0
        <5>1. m \notin Sent /\ m # 0
          BY <1>0, <3>2, <3>3 DEF Sends, Sent, MsgTypes, Messages
        <5> QED BY <5>1 DEF MsgInv
      <4>2. \A g \in Handles : ~Queued(m, g)'
        BY <3>2, <4>1 DEF Sends, Queued, MsgInv
      <4>3. \A u \in Threads : th[u].msg # m /\ th[u].out # m
        BY <4>1 DEF MsgInv
      <4>4. \A u \in Threads : /\ th'[u].msg # m
                               /\ th'[u].out = m => th'[u].pc = "grab" /\ th'[u].dst = h
        BY <3>2, <3>5, <4>3 DEF Sends, Only, SameIn
      <4>5. fate'[m] # "dropped"
        BY <3>2, <4>1 DEF Sends
      <4> QED BY <3>3, <4>2, <4>4, <4>5 DEF Loose
    <3> QED BY <3>2, <3>3, <3>4, <3>5 DEF Sends
  <2> QED BY <2>1, <2>2
<1>2. ASSUME NEW w \in Workers, th'[w].pc \in {"pop0", "pop"} \/ th'[w].msg # 0
      PROVE  \E h : h = th'[w].queue /\ Found(h)'
  BY <1>2, FoundRuns
<1> QED BY <1>1, <1>2 DEF FoundInv, Found, Created, Registered, InSlot, Stored, Size

\* Message m of service s was dropped and its report e is accounted for.
Owed(m, e, s) ==
    /\ m \in Messages /\ m \notin Errors /\ e \in Errors /\ e \in Messages
    /\ e - MaxMsgs = m /\ e # m /\ e # 0
    /\ s = source[m] /\ s \in Handles

\* A report stays accounted for in a step that moves no message.
LEMMA ReportStill ==
    ASSUME QueueInv, NEW m, NEW e, NEW s, Owed(m, e, s), Still,
           fate'[m] = "dropped", fate[m] = "dropped" => Accounted(e, s)
    PROVE  Accounted(e, s)'
<1> Workers \subseteq Threads
  BY DEF Threads
<1>1. Accounted(e, s)
  BY DEF Still, hist
<1>2. Queued(e, s)' <=> Queued(e, s)
  BY DEF Still, Queued, Owed
<1>3. \A t \in Threads : th'[t].out = th[t].out /\ th'[t].msg = th[t].msg
  BY DEF Still, SameMsgs
<1>4. fate' = fate /\ Gone' = Gone
  BY DEF Still, hist
<1> QED BY <1>1, <1>2, <1>3, <1>4 DEF Accounted

\* Its service takes it, or another message is taken.
LEMMA ReportTakes ==
    ASSUME QueueInv, NEW m, NEW e, NEW s, Owed(m, e, s), NEW w \in Workers, NEW h \in Handles,
           Takes(w, h), fate'[m] = "dropped", fate[m] = "dropped" => Accounted(e, s)
    PROVE  Accounted(e, s)'
<1> Workers \subseteq Threads
  BY DEF Threads
<1>1. Accounted(e, s) /\ fate' = fate /\ Gone' = Gone
  BY DEF Takes, hist, SameServices
<1>2. Queued(e, s) => Queued(e, s)' \/ e = Head(Contents(mq[h]))
  BY QueuedTail DEF Takes, Owed
<1>3. th'[w].msg = Head(Contents(mq[h])) /\ th[w].msg # e
  BY DEF Takes, Owed
<1>4. /\ \A t \in Threads : th'[t].out = th[t].out
      /\ \A v \in Workers \ {w} : th'[v].msg = th[v].msg
  BY DEF Takes, Only, SameOut
<1> QED BY <1>1, <1>2, <1>3, <1>4 DEF Accounted

\* It is dropped, or the message that it reports, or another one.
LEMMA ReportDrops ==
    ASSUME QueueInv, NEW m, NEW e, NEW s, Owed(m, e, s), NEW w \in Workers, NEW h \in Handles,
           Drops(w, h), e = MaxMsgs + m,
           fate'[m] = "dropped", fate[m] = "dropped" => Accounted(e, s)
    PROVE  Accounted(e, s)'
<1> Workers \subseteq Threads
  BY DEF Threads
<1>0. MsgTypes
  BY TypedMsgs
<1>1. PICK x : x = Head(Contents(mq[h]))
  OBVIOUS
<1>2. fate' = [fate EXCEPT ![x] = "dropped"] /\ Gone' = Gone
  BY <1>1 DEF Drops, SameServices
<1>3. CASE x = m
  <2>1. m \notin Errors /\ source[m] # 0
    BY <1>0 DEF Owed, MsgTypes
  <2>2. th'[w].out = e
    BY <1>1, <1>3, <2>1 DEF Drops
  <2> QED BY <2>2 DEF Accounted
<1>4. CASE x = e
  <2>1. fate'[e] = "dropped"
    BY <1>0, <1>2, <1>4 DEF Owed, MsgTypes
  <2> QED BY <2>1 DEF Accounted
<1>5. CASE x # m /\ x # e
  <2>1. fate'[m] = fate[m] /\ fate'[e] = fate[e]
    BY <1>0, <1>2, <1>5 DEF Owed, MsgTypes
  <2>2. Accounted(e, s)
    BY <2>1
  <2>3. Queued(e, s) => Queued(e, s)'
    BY <1>1, <1>5, QueuedTail DEF Drops, Owed
  <2>4. \A t \in Threads : th[t].out = e => th'[t].out = e
    BY DEF Drops, Only, Owed
  <2>5. \A v \in Workers : th'[v].msg = th[v].msg
    BY DEF Drops, Only, SameIn
  <2> QED BY <1>2, <2>1, <2>2, <2>3, <2>4, <2>5 DEF Accounted
<1> QED BY <1>3, <1>4, <1>5

\* A callback has handled it, or a service is retired.
LEMMA ReportEnds ==
    ASSUME QueueInv, NEW m, NEW e, NEW s, Owed(m, e, s), NEW w \in Workers, NEW h \in Handles,
           Finishes(w, h) \/ Retires(w, h),
           fate'[m] = "dropped", fate[m] = "dropped" => Accounted(e, s)
    PROVE  Accounted(e, s)'
<1> Workers \subseteq Threads
  BY DEF Threads
<1>0. MsgTypes
  BY TypedMsgs
<1>1. Queued(e, s)' <=> Queued(e, s)
  BY DEF Finishes, Retires, Queued
<1>2. \A t \in Threads : th'[t].out = th[t].out
  BY DEF Finishes, Retires, Only, SameOut
<1>3. CASE Finishes(w, h)
  <2>1. PICK x : x = th[w].msg
    OBVIOUS
  <2>2. fate' = [fate EXCEPT ![x] = "handled"] /\ Gone' = Gone
    BY <1>3, <2>1, SameTables DEF Finishes
  <2>3. x # m /\ fate[m] = "dropped"
    BY <1>0, <2>2 DEF Owed, MsgTypes
  <2>4. CASE x = e
    <3>1. fate'[e] = "handled"
      BY <1>0, <2>2, <2>4 DEF Owed, MsgTypes
    <3> QED BY <3>1 DEF Accounted
  <2>5. CASE x # e
    <3>1. fate'[e] = fate[e]
      BY <1>0, <2>2, <2>5 DEF Owed, MsgTypes
    <3>2. \A v \in Workers : th[v].msg = e => th'[v].msg = e
      BY <1>3, <2>1, <2>5 DEF Finishes, Only
    <3> QED BY <1>1, <1>2, <2>2, <2>3, <3>1, <3>2 DEF Accounted
  <2> QED BY <2>4, <2>5
<1>4. CASE Retires(w, h)
  <2>1. Gone' = Gone \cup {h} /\ fate' = fate
    BY <1>4 DEF Retires, hist
  <2>2. \A v \in Workers : th'[v].msg = th[v].msg
    BY <1>4 DEF Retires, Only, SameIn
  <2> QED BY <1>1, <1>2, <2>1, <2>2 DEF Accounted
<1> QED BY <1>3, <1>4

\* It is pushed, and to its service's queue, or another message is.
LEMMA ReportPuts ==
    ASSUME QueueInv, MsgInv, NEW m, NEW e, NEW s, Owed(m, e, s), NEW t \in Threads,
           NEW h \in Handles, Puts(t, h),
           fate'[m] = "dropped", fate[m] = "dropped" => Accounted(e, s)
    PROVE  Accounted(e, s)'
<1> Workers \subseteq Threads
  BY DEF Threads
<1>1. Queued(e, s)' <=> Queued(e, s) \/ (s = h /\ e = th[t].out)
  BY QueuedAppend DEF Puts, Owed
<1>2. th[t].out = e => s = h
  BY DEF MsgInv, Puts, Owed
<1>3. \A u \in Threads \ {t} : th'[u].out = th[u].out
  BY DEF Puts, Only
<1>4. \A v \in Workers : th'[v].msg = th[v].msg
  BY DEF Puts, Only, SameIn
<1>5. Accounted(e, s) /\ fate' = fate /\ Gone' = Gone
  BY DEF Puts, hist, SameServices
<1> QED BY <1>1, <1>2, <1>3, <1>4, <1>5 DEF Accounted

\* Its service is not found any more, or that of another message.
LEMMA ReportRefuses ==
    ASSUME QueueInv, MsgInv, FoundInv, NEW m, NEW e, NEW s, Owed(m, e, s), NEW t \in Threads,
           NEW h \in Handles, Refuses(t, h),
           fate'[m] = "dropped", fate[m] = "dropped" => Accounted(e, s)
    PROVE  Accounted(e, s)'
<1> Workers \subseteq Threads
  BY DEF Threads
<1>0. MsgTypes
  BY TypedMsgs
<1>1. PICK x : x = th[t].out
  OBVIOUS
<1>2. fate' = [fate EXCEPT ![x] = "refused"] /\ Gone' = Gone
  BY <1>1, SameTables DEF Refuses
<1>3. x # m /\ fate[m] = "dropped"
  BY <1>0, <1>2 DEF Owed, MsgTypes
<1>4. CASE x = e
  <2>1. fate'[e] = "refused"
    BY <1>0, <1>2, <1>4 DEF Owed, MsgTypes
  <2>2. h = s /\ ~Registered(h)
    BY <1>1, <1>4 DEF MsgInv, Refuses, Owed
  <2>3. Found(s)
    BY <1>0, <1>3 DEF FoundInv, Loose, Owed, MsgTypes
  <2>4. s \in Gone
    BY <2>2, <2>3 DEF Found, Gone
  <2> QED BY <1>2, <2>1, <2>4 DEF Accounted
<1>5. CASE x # e
  <2>1. fate'[e] = fate[e]
    BY <1>0, <1>2, <1>5 DEF Owed, MsgTypes
  <2>2. Queued(e, s)' <=> Queued(e, s)
    BY DEF Refuses, Queued
  <2>3. /\ \A u \in Threads : th[u].out = e => th'[u].out = e
        /\ \A v \in Workers : th'[v].msg = th[v].msg
    BY <1>1, <1>5 DEF Refuses, Only, SameIn
  <2> QED BY <1>2, <1>3, <2>1, <2>2, <2>3 DEF Accounted
<1> QED BY <1>4, <1>5

\* A new message, which is not dropped yet.
LEMMA ReportSends ==
    ASSUME QueueInv, MsgInv, NEW m, NEW e, NEW s, NEW t \in Threads, NEW h \in Handles,
           NEW g, Sends(t, g, h), e # 0, fate[m] = "dropped" => Accounted(e, s), fate[m] = "dropped"
    PROVE  Accounted(e, s)'
<1> Workers \subseteq Threads
  BY DEF Threads
<1>1. Queued(e, s)' <=> Queued(e, s)
  BY DEF Sends, Queued
<1>2. /\ \A u \in Threads : th[u].out = e => th'[u].out = e
      /\ \A v \in Workers : th'[v].msg = th[v].msg
  BY DEF Sends, Only, SameIn
<1>3. fate' = fate /\ Gone' = Gone
  BY SameTables DEF Sends
<1> QED BY <1>1, <1>2, <1>3 DEF Accounted

\* The invariants hold at the start.
LEMMA MsgInit == Init => MsgInv /\ FoundInv /\ ReportInv
<1> SUFFICES ASSUME Init PROVE MsgInv /\ FoundInv /\ ReportInv
  OBVIOUS
<1>0. MaxMsgs \in Nat
  BY QueueAssumption
<1>1. \A h \in Handles : Contents(mq[h]) = <<>>
  BY MailboxInit DEF MB!Init
<1>2. \A h \in Handles : \A e : ~Queued(e, h)
  <2>1. Len(<<>>) = 0
    OBVIOUS
  <2> QED BY <1>1, <2>1 DEF Queued
<1>3. /\ \A t \in Threads : th[t].out = 0 /\ th[t].msg = 0
      /\ \A m \in Messages : fate[m] = "" /\ source[m] = 0
  BY DEF Init
<1>4. 0 \notin Errors
  BY <1>0 DEF Errors
<1>5. 1..MaxMsgs \subseteq Messages
  BY <1>0 DEF Messages
<1>6. MsgInv
  BY <1>2, <1>3, <1>4 DEF MsgInv
<1>7. FoundInv
  <2>1. \A w \in Workers : th[w].pc = "top" /\ th[w].msg = 0
    BY QueueAssumption DEF Init, Threads
  <2> QED BY <1>3, <2>1 DEF FoundInv
<1> QED BY <1>3, <1>5, <1>6, <1>7 DEF ReportInv

\* And each step keeps them.
LEMMA MsgNext ==
    ASSUME QueueInv, MsgInv, [Next]_vars
    PROVE  MsgInv'
<1> Workers \subseteq Threads
  BY DEF Threads
<1> QED BY Kinds, MsgStill, MsgTakes, MsgDrops, MsgEnds, MsgPuts, MsgSends

\* A message that was dropped before the step, or is by it, is reported after it.
LEMMA ReportNext ==
    ASSUME QueueInv, MsgInv, FoundInv, ReportInv, [Next]_vars
    PROVE  ReportInv'
<1>0. MsgTypes
  BY TypedMsgs
<1> SUFFICES ASSUME NEW m \in 1..MaxMsgs, fate'[m] = "dropped", source'[m] # 0
             PROVE  \E s : s = source'[m] /\ Accounted(MaxMsgs + m, s)'
  BY DEF ReportInv, Accounted, Queued
<1>e. PICK e \in Messages : e = MaxMsgs + m /\ e \in Errors /\ e # 0 /\ e # m /\ e - MaxMsgs = m
  <2>1. /\ MaxMsgs + m \in 1..2 * MaxMsgs /\ MaxMsgs + m \in MaxMsgs + 1 .. 2 * MaxMsgs
        /\ MaxMsgs + m # m /\ (MaxMsgs + m) - MaxMsgs = m /\ MaxMsgs + m # 0
    BY <1>0 DEF MsgTypes
  <2> QED BY <2>1 DEF Messages, Errors
<1>m. m \in Messages /\ m \notin Errors
  BY <1>0 DEF MsgTypes, Messages, Errors
<1>1. CASE \E t \in Threads, h \in Handles : \E s : Sends(t, s, h)
  <2>1. PICK t \in Threads, h \in Handles : \E s : Sends(t, s, h)
    BY <1>1
  <2>2. PICK g : Sends(t, g, h)
    BY <2>1
  <2>3. nmsg + 1 \in Messages /\ nmsg + 1 \notin Sent
    BY <1>0, <2>2 DEF Sends, MsgTypes, Messages, Sent
  <2>4. m # nmsg + 1 /\ fate[m] = "dropped"
    BY <2>2, <2>3 DEF Sends, MsgInv
  <2>5. source'[m] = source[m]
    BY <1>0, <1>m, <2>2, <2>4 DEF Sends, MsgTypes
  <2>6. Accounted(e, source[m])
    BY <1>e, <2>4, <2>5 DEF ReportInv
  <2>7. PICK s : s = source[m]
    OBVIOUS
  <2>8. Accounted(e, s)'
    BY <1>e, <2>2, <2>4, <2>6, <2>7, ReportSends
  <2> QED BY <1>e, <2>5, <2>7, <2>8
<1>2. CASE ~\E t \in Threads, h \in Handles : \E s : Sends(t, s, h)
  <2>1. source' = source
    BY <1>2, Kinds DEF Still, Takes, Drops, Finishes, Retires, Puts, Refuses, hist
  <2>2. PICK s : s = source[m]
    OBVIOUS
  <2>3. Owed(m, e, s)
    <3>1. s \in Created
      BY <1>m, <2>1, <2>2 DEF MsgInv
    <3> QED BY <1>0, <1>e, <1>m, <2>2, <3>1 DEF Owed, MsgTypes
  <2>4. fate[m] = "dropped" => Accounted(e, s)
    BY <1>e, <2>1, <2>2 DEF ReportInv
  <2>5. Accounted(e, s)'
    BY <1>2, <1>e, <2>3, <2>4, Kinds, ReportStill, ReportTakes, ReportDrops, ReportEnds,
       ReportPuts, ReportRefuses
  <2> QED BY <1>e, <2>1, <2>2, <2>5
<1> QED BY <1>1, <1>2

\* A message that is dropped with the queue of a dead service is reported to its sender,
\* and the report is lost only when the sender is retired too (drop_message).
THEOREM DropsReported == Spec => []DropReported
<1>1. QueueInv /\ MsgInv /\ FoundInv /\ ReportInv /\ [Next]_vars
        => MsgInv' /\ FoundInv' /\ ReportInv'
  BY MsgNext, FoundNext, ReportNext
<1>2. QueueInv /\ MsgInv /\ ReportInv => DropReported
  <2> SUFFICES ASSUME QueueInv, MsgInv, ReportInv, NEW m \in 1..MaxMsgs,
                      fate[m] = "dropped", source[m] # 0
               PROVE  LET e == MaxMsgs + m IN
                      \/ fate[e] \in {"handled", "dropped"}
                      \/ fate[e] = "refused" /\ ~InSlot(source[m])
                      \/ \E t \in Threads : th[t].out = e
                      \/ \E w \in Workers : th[w].msg = e
                      \/ \E i \in 1..Length(mq[source[m]]) : Contents(mq[source[m]])[i] = e
    BY DEF DropReported
  <2>1. Accounted(MaxMsgs + m, source[m])
    BY DEF ReportInv
  <2>2. MsgTypes /\ m \in Messages
    <3>1. MsgTypes
      BY TypedMsgs
    <3> QED BY <3>1 DEF MsgTypes, Messages
  <2>3. source[m] \in Handles
    BY <2>2 DEF MsgInv, MsgTypes
  <2>4. Len(Contents(mq[source[m]])) = Length(mq[source[m]])
    BY <2>3, LengthNat DEF QueueInv, Types
  <2> QED BY <2>1, <2>4 DEF Accounted, Queued, Gone
<1> QED BY <1>1, <1>2, MsgInit, QueueInvariant, PTL DEF Spec

=============================================================================
