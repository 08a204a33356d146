---------------------------- MODULE ServiceQueue ----------------------------
(***************************************************************************)
(* How skynet runs services on its worker threads (skynet_mq.c,            *)
(* skynet_server.c, skynet_handle.c, skynet_start.c).                      *)
(*                                                                         *)
(* Every service has a context, found by its handle in a table of slots,   *)
(* and a message queue.  A queue that may hold messages is in the global   *)
(* queue or in the hands of the worker that dispatches it (in_global).  A  *)
(* context is counted by references; when the last one goes its queue is   *)
(* marked, and whoever gets that queue next drops what is left in it and   *)
(* answers every sender with an error.                                     *)
(*                                                                         *)
(* An action is one critical section (a spinlock or the rwlock of the      *)
(* handles) or one atomic decrement; between two of them every other       *)
(* thread may run.  Threads are the workers and Ext, which stands for the  *)
(* timer and socket threads that push messages.  A context and its queue   *)
(* are named by their handle: handles are not reused before 2^24 launches. *)
(*                                                                         *)
(* Left out: logging and the log service, the overload and endless-loop    *)
(* warnings, names, profiling, harbor.                                     *)
(***************************************************************************)
EXTENDS Integers, Sequences, FiniteSets

CONSTANTS
    Workers,      \* worker threads
    Weight,       \* the weight of each worker, at least -1
    InitHandles,  \* number of services at the start
    MaxHandle,    \* bound: services created in a behaviour
    MaxMsgs,      \* bound: messages sent in a behaviour
    SlotSize,     \* DEFAULT_SLOT_SIZE
    QueueSize,    \* DEFAULT_QUEUE_SIZE
    Steady,       \* a worker whose callbacks return
    Ext           \* the threads that are no workers

ASSUME QueueAssumption ==
    /\ IsFiniteSet(Workers) /\ Ext \notin Workers /\ Steady \in Workers
    /\ Weight \in [Workers -> {-1} \cup Nat]
    /\ \A w \in Workers : Weight[w] >= 0 => 2^Weight[w] \in Nat \ {0}
    /\ InitHandles \in Nat /\ MaxHandle \in Nat /\ InitHandles <= MaxHandle
    /\ MaxMsgs \in Nat
    /\ SlotSize \in Nat \ {0} /\ \E k \in 0..MaxHandle : SlotSize = 2^k
    /\ InitHandles <= SlotSize
    /\ QueueSize \in Nat \ {0}

VARIABLES
    slot,          \* slot[i]: the handle of the context in slot i, or 0
    handle_index,  \* the handle to try next
    ref,           \* ctx->ref by handle; 0 before creation and after deletion
    total,         \* G_NODE.total
    mq,            \* the queue of a handle
    global,        \* the global queue, a sequence of queues
    quit,          \* m->quit
    th,            \* the local state of a thread
    \* History:
    nmsg,          \* messages sent so far
    source,        \* by message: the handle of its sender, 0 for Ext
    fate           \* by message: "" or how it ended

slots == <<slot, handle_index>>
hist == <<nmsg, source, fate>>
vars == <<slots, ref, total, mq, global, quit, th, hist>>

Threads == Workers \cup {Ext}
Handles == 1..MaxHandle
Handle0 == 0..MaxHandle
\* A message, or the error that reports message m, which is MaxMsgs + m
Errors == MaxMsgs + 1 .. 2 * MaxMsgs
Messages == 1 .. 2 * MaxMsgs

Pcs == {"idle", "top", "sleepy", "asleep", "exited", "got", "pop0", "len", "pop",
        "call", "swap", "pushback", "next", "grab", "push", "rel", "delete",
        "reg", "init", "inited", "launched", "failed", "mqrel", "drop"}

Locals ==
    [pc : Pcs,
     queue : Handle0,              \* the queue the worker holds, 0 for NULL
     msg : {0} \cup Messages,      \* the message its callback handles
     left : Nat,                   \* how many more it may take from the queue
     nextq : Handle0,              \* nq, popped at the end of a dispatch
     out : {0} \cup Messages,      \* the message it sends ...
     dst : Handle0,                \* ... and to whom
     rel : Handle0,                \* the context skynet_context_release gives up
     back : Pcs,                   \* where to go on after it
     reg : Handle0,                \* the context whose handle is not stored yet
     new : Handle0,                \* the context skynet_context_new creates
     dropq : Handle0]              \* the queue skynet_mq_release releases

\* The variables have the values the code can give them; head and tail stay in
\* the array of the queue (skynet_mq_pop, skynet_mq_push, expand_queue).
TypeOK ==
    /\ slot \in [0..Cardinality(DOMAIN slot) - 1 -> Handle0]
    /\ handle_index \in 1..MaxHandle + 1
    /\ ref \in [Handles -> Nat] /\ total \in Nat
    /\ \A h \in Handles :
          /\ mq[h].state \in {"none", "live", "freed"}
          /\ mq[h].in_global \in BOOLEAN /\ mq[h].release \in BOOLEAN
          /\ mq[h].ring \in [0..mq[h].cap - 1 -> {0} \cup Messages]
          /\ mq[h].head \in 0..mq[h].cap - 1 /\ mq[h].tail \in 0..mq[h].cap - 1
    /\ global \in Seq(Handles)
    /\ quit \in BOOLEAN
    /\ \A t \in Threads : th[t] \in Locals
    /\ nmsg \in 0..MaxMsgs
    /\ source \in [Messages -> Handle0]
    /\ fate \in [Messages -> {"", "handled", "refused", "dropped"}]

-----------------------------------------------------------------------------
(* Handles *)

Size == Cardinality(DOMAIN slot)

\* ctx->handle of the context h: 0 until skynet_context_new stores it and
\* creates the queue
Stored(h) == IF mq[h].state = "none" THEN 0 ELSE h

\* skynet_handle_grab finds h
Registered(h) == slot[h % Size] = h /\ Stored(h) = h

\* The context h is in the table, in its slot or in another
InSlot(h) == \E i \in DOMAIN slot : slot[i] = h

\* the slots after the doubling in skynet_handle_register, which hashes the
\* handles that are stored
Grown(s) ==
    LET size == 2 * Cardinality(DOMAIN s)
    IN  [i \in 0..size - 1 |->
            IF \E j \in DOMAIN s : s[j] # 0 /\ Stored(s[j]) % size = i
              THEN s[CHOOSE j \in DOMAIN s : s[j] # 0 /\ Stored(s[j]) % size = i]
              ELSE 0]

\* and its assertion that no two contexts fall into one slot
GrownAsserted(s) ==
    LET size == 2 * Cardinality(DOMAIN s)
    IN  \A i, j \in DOMAIN s :
           i # j /\ s[i] # 0 /\ s[j] # 0 => Stored(s[i]) % size # Stored(s[j]) % size

\* the free handles among the next Size ones
Free(s) ==
    {h \in handle_index..handle_index + Cardinality(DOMAIN s) - 1 :
        s[h % Cardinality(DOMAIN s)] = 0}

\* skynet_handle_register: the slots are doubled when none is free
SlotsFor == IF Free(slot) = {} THEN Grown(slot) ELSE slot

\* skynet_handle_retire: the slot is cleared, then the context released
Retired(h) ==
    IF Registered(h) THEN [slot EXCEPT ![h % Size] = 0] ELSE slot

-----------------------------------------------------------------------------
(* Message queues *)

NoQueue == [state |-> "none", in_global |-> FALSE, release |-> FALSE,
            ring |-> [i \in 0..QueueSize - 1 |-> 0], cap |-> QueueSize,
            head |-> 0, tail |-> 0]

\* skynet_mq_create
NewQueue == [NoQueue EXCEPT !.state = "live", !.in_global = TRUE]

\* skynet_mq_length
Length(q) == IF q.head <= q.tail THEN q.tail - q.head ELSE q.tail + q.cap - q.head

Contents(q) == [k \in 1..Length(q) |-> q.ring[(q.head + k - 1) % q.cap]]

\* Mutant: the old array is copied as it lies, without turning it to head.
ExpandedUnturned(q) ==
    [q EXCEPT !.ring = [i \in 0..2 * q.cap - 1 |-> IF i < q.cap THEN q.ring[i] ELSE 0],
              !.head = 0, !.tail = q.cap, !.cap = 2 * q.cap]

\* expand_queue, called when the array is full
Expanded(q) ==
    [q EXCEPT !.ring = [i \in 0..2 * q.cap - 1 |->
                          IF i < q.cap THEN q.ring[(q.head + i) % q.cap] ELSE 0],
              !.head = 0, !.tail = q.cap, !.cap = 2 * q.cap]

\* skynet_mq_push without its test of in_global
Pushed(q, m) ==
    LET tail == (q.tail + 1) % q.cap
        q1 == [q EXCEPT !.ring[q.tail] = m, !.tail = tail]
    IN  IF q.head = tail THEN Expanded(q1) ELSE q1

\* skynet_mq_pop of a queue that is not empty
Popped(q) == [q EXCEPT !.ring[q.head] = 0, !.head = (q.head + 1) % q.cap]

\* skynet_mq_pop of an empty one
Emptied(q) == [q EXCEPT !.in_global = FALSE]

-----------------------------------------------------------------------------
(* The worker's loop and skynet_context_message_dispatch *)

Goto(t, l) == th' = [th EXCEPT ![t].pc = l]

\* t's record when it calls skynet_context_release(h) and goes on at l
Releasing(r, h, l) == [r EXCEPT !.pc = "rel", !.rel = h, !.back = l]

\* and when that call is over
Returning(r) == [r EXCEPT !.pc = r.back, !.back = "idle", !.rel = 0]

\* skynet_globalmq_pop: the worker goes on at l with the queue, or to sleep
PopGlobal(w, l) ==
    \/ /\ global = <<>>
       /\ Goto(w, "sleepy")
       /\ UNCHANGED global
    \/ /\ global # <<>>
       /\ th' = [th EXCEPT ![w].pc = l, ![w].queue = Head(global)]
       /\ global' = Tail(global)

\* The start of a dispatch without a queue
TakeQueue(w) ==
    /\ th[w].pc = "top" /\ th[w].queue = 0 /\ ~quit
    /\ PopGlobal(w, "got")
    /\ UNCHANGED <<slots, ref, total, mq, quit, hist>>

\* The end of a dispatch that has given its queue away
NextQueue(w) ==
    /\ th[w].pc = "next"
    /\ PopGlobal(w, "top")
    /\ UNCHANGED <<slots, ref, total, mq, quit, hist>>

\* m->quit ends the loop
Exit(w) ==
    /\ th[w].pc = "top" /\ quit
    /\ Goto(w, "exited")
    /\ UNCHANGED <<slots, ref, total, mq, global, quit, hist>>

\* No queue: the worker locks the mutex, counts itself and waits
Sleep(w) ==
    /\ th[w].pc = "sleepy"
    /\ Goto(w, IF quit THEN "top" ELSE "asleep")
    /\ UNCHANGED <<slots, ref, total, mq, global, quit, hist>>

\* Mutant: a worker is woken only when all of them sleep.
WakeupAllAsleep(w) ==
    /\ \A v \in Workers : th[v].pc = "asleep"
    /\ ~quit
    /\ Goto(w, "top")
    /\ UNCHANGED <<slots, ref, total, mq, global, quit, hist>>

\* wakeup of the timer thread, every 2.5 ms: one worker that sleeps is
\* signalled, also when others are busy.  The socket thread's wakeup and
\* spurious wakeups have no other effect.
Wakeup(w) ==
    /\ th[w].pc = "asleep" /\ ~quit
    /\ Goto(w, "top")
    /\ UNCHANGED <<slots, ref, total, mq, global, quit, hist>>

\* CHECK_ABORT of the timer thread: no service is left, all workers are woken
CheckAbort ==
    /\ total = 0 /\ ~quit
    /\ quit' = TRUE
    /\ th' = [t \in Threads |->
                IF th[t].pc = "asleep" THEN [th[t] EXCEPT !.pc = "top"] ELSE th[t]]
    /\ UNCHANGED <<slots, ref, total, mq, global, hist>>

\* skynet_handle_grab of the queue's handle
Grab(w) ==
    LET h == th[w].queue IN
    /\ th[w].pc = "got" \/ (th[w].pc = "top" /\ h # 0 /\ ~quit)
    /\ \/ /\ Registered(h)
          /\ ref' = [ref EXCEPT ![h] = @ + 1]
          /\ Goto(w, "pop0")
       \/ /\ ~Registered(h)
          /\ th' = [th EXCEPT ![w].pc = "mqrel", ![w].dropq = h, ![w].queue = 0]
          /\ UNCHANGED ref
    /\ UNCHANGED <<slots, total, mq, global, quit, hist>>

\* skynet_mq_pop; an empty queue ends the dispatch
MqPop(w) ==
    LET h == th[w].queue
        q == mq[h]
        first == th[w].pc = "pop0"
    IN
    /\ th[w].pc \in {"pop0", "pop"}
    /\ \/ /\ Length(q) = 0
          /\ mq' = [mq EXCEPT ![h] = Emptied(q)]
          /\ th' = [th EXCEPT ![w] = [Releasing(@, h, "next") EXCEPT !.queue = 0]]
       \/ /\ Length(q) > 0
          /\ mq' = [mq EXCEPT ![h] = Popped(q)]
          /\ th' = [th EXCEPT ![w].msg = q.ring[q.head],
                              ![w].left = IF first THEN 0 ELSE @ - 1,
                              ![w].pc = IF first /\ Weight[w] >= 0 THEN "len" ELSE "call"]
    /\ UNCHANGED <<slots, ref, total, global, quit, hist>>

\* n = skynet_mq_length(q) >> weight, of which the first is taken already
MqLength(w) ==
    LET n == Length(mq[th[w].queue]) \div (2 ^ Weight[w]) IN
    /\ th[w].pc = "len"
    /\ th' = [th EXCEPT ![w].pc = "call", ![w].left = IF n = 0 THEN 0 ELSE n - 1]
    /\ UNCHANGED <<slots, ref, total, mq, global, quit, hist>>

\* ctx->cb returns
Return(w) ==
    /\ th[w].pc = "call"
    /\ fate' = [fate EXCEPT ![th[w].msg] = "handled"]
    /\ th' = [th EXCEPT ![w].msg = 0, ![w].pc = IF th[w].left > 0 THEN "pop" ELSE "swap"]
    /\ UNCHANGED <<slots, ref, total, mq, global, quit, nmsg, source>>

\* The end of a dispatch: nq = skynet_globalmq_pop() ...
Swap(w) ==
    /\ th[w].pc = "swap"
    /\ \/ /\ global = <<>>
          /\ th' = [th EXCEPT ![w] = Releasing(@, th[w].queue, "top")]
          /\ UNCHANGED global
       \/ /\ global # <<>>
          /\ th' = [th EXCEPT ![w].pc = "pushback", ![w].nextq = Head(global)]
          /\ global' = Tail(global)
    /\ UNCHANGED <<slots, ref, total, mq, quit, hist>>

\* ... and the old queue goes back
PushBack(w) ==
    LET h == th[w].queue IN
    /\ th[w].pc = "pushback"
    /\ global' = Append(global, h)
    /\ th' = [th EXCEPT ![w] = [Releasing(@, h, "top") EXCEPT
                                  !.queue = th[w].nextq, !.nextq = 0]]
    /\ UNCHANGED <<slots, ref, total, mq, quit, hist>>

-----------------------------------------------------------------------------
(* References, used by every thread *)

\* ATOM_DEC(&ctx->ref)
Release(t) ==
    LET h == th[t].rel IN
    /\ th[t].pc = "rel"
    /\ ref' = [ref EXCEPT ![h] = @ - 1]
    /\ th' = [th EXCEPT ![t] = IF ref[h] = 1 THEN [@ EXCEPT !.pc = "delete"]
                                            ELSE Returning(@)]
    /\ UNCHANGED <<slots, total, mq, global, quit, hist>>

\* Mutant: mark_release pushes the queue whether it is dispatched or not.
DeletePushes(t) ==
    LET h == th[t].rel IN
    /\ th[t].pc = "delete"
    /\ mq' = [mq EXCEPT ![h].release = TRUE]
    /\ global' = Append(global, h)
    /\ total' = total - 1
    /\ th' = [th EXCEPT ![t] = Returning(@)]
    /\ UNCHANGED <<slots, ref, quit, hist>>

\* delete_context, skynet_mq_mark_release: a queue that is nowhere is pushed
Delete(t) ==
    LET h == th[t].rel IN
    /\ th[t].pc = "delete"
    /\ mq' = [mq EXCEPT ![h].release = TRUE]
    /\ global' = IF mq[h].in_global THEN global ELSE Append(global, h)
    /\ total' = total - 1
    /\ th' = [th EXCEPT ![t] = Returning(@)]
    /\ UNCHANGED <<slots, ref, quit, hist>>

-----------------------------------------------------------------------------
(* Sending: skynet_send and skynet_context_push *)

\* the record of a thread that starts to send m to h and then goes on at l
Sending(r, m, h, l) == [r EXCEPT !.pc = "grab", !.out = m, !.dst = h, !.back = l]

\* A callback sends a message, or the timer or socket thread does
Send(t, h) ==
    /\ th[t].pc = IF t = Ext THEN "idle" ELSE "call"
    /\ nmsg < MaxMsgs /\ h < handle_index
    /\ nmsg' = nmsg + 1
    /\ source' = [source EXCEPT ![nmsg + 1] = IF t = Ext THEN 0 ELSE th[t].queue]
    /\ th' = [th EXCEPT ![t] = Sending(@, nmsg + 1, h, th[t].pc)]
    /\ UNCHANGED <<slots, ref, total, mq, global, quit, fate>>

\* skynet_handle_grab of the destination; a message nobody takes is freed
SendGrab(t) ==
    LET h == th[t].dst IN
    /\ th[t].pc = "grab"
    /\ \/ /\ Registered(h)
          /\ ref' = [ref EXCEPT ![h] = @ + 1]
          /\ Goto(t, "push")
          /\ UNCHANGED fate
       \/ /\ ~Registered(h)
          /\ fate' = [fate EXCEPT ![th[t].out] = "refused"]
          /\ th' = [th EXCEPT ![t] = [Returning(@) EXCEPT !.out = 0, !.dst = 0]]
          /\ UNCHANGED ref
    /\ UNCHANGED <<slots, total, mq, global, quit, nmsg, source>>

\* skynet_mq_push, then skynet_context_release
SendPush(t) ==
    LET h == th[t].dst IN
    /\ th[t].pc = "push"
    /\ mq' = [mq EXCEPT ![h] = [Pushed(@, th[t].out) EXCEPT !.in_global = TRUE]]
    /\ global' = IF mq[h].in_global THEN global ELSE Append(global, h)
    /\ th' = [th EXCEPT ![t] = [@ EXCEPT !.pc = "rel", !.rel = h, !.out = 0, !.dst = 0]]
    /\ UNCHANGED <<slots, ref, total, quit, hist>>

-----------------------------------------------------------------------------
(* Commands of a callback: EXIT and KILL, LAUNCH *)

\* handle_exit of a service whose launch is over
Kill(w, h) ==
    /\ th[w].pc = "call" /\ h < handle_index
    /\ \A v \in Workers : th[v].new # h
    /\ Registered(h)
    /\ slot' = Retired(h)
    /\ th' = [th EXCEPT ![w] = Releasing(@, h, "call")]
    /\ UNCHANGED <<handle_index, ref, total, mq, global, quit, hist>>

\* skynet_context_new up to skynet_handle_register, which takes the first free
\* handle.  A process whose assertion fails ends here.
Register(w) ==
    /\ th[w].pc = "call" /\ handle_index <= MaxHandle
    /\ Free(slot) = {} => GrownAsserted(slot)
    /\ \E h \in Free(SlotsFor) :
          /\ \A g \in Free(SlotsFor) : h <= g
          /\ h <= MaxHandle
          /\ slot' = [SlotsFor EXCEPT ![h % Cardinality(DOMAIN SlotsFor)] = h]
          /\ handle_index' = h + 1
          /\ th' = [th EXCEPT ![w].pc = "reg", ![w].reg = h]
    /\ UNCHANGED <<ref, total, mq, global, quit, hist>>

\* The handle is stored and the queue created, up to the call of the module's
\* init.  No thread reaches the context before, so its count starts here.
Launch(w) ==
    LET h == th[w].reg IN
    /\ th[w].pc = "reg"
    /\ ref' = [ref EXCEPT ![h] = 2]
    /\ mq' = [mq EXCEPT ![h] = NewQueue]
    /\ total' = total + 1
    /\ th' = [th EXCEPT ![w].pc = "init", ![w].new = h, ![w].reg = 0]
    /\ UNCHANGED <<slots, global, quit, hist>>

\* snlua's init sends the new service its first message
InitSend(w) ==
    /\ th[w].pc = "init"
    /\ nmsg < MaxMsgs
    /\ nmsg' = nmsg + 1
    /\ source' = [source EXCEPT ![nmsg + 1] = th[w].new]
    /\ th' = [th EXCEPT ![w] = Sending(@, nmsg + 1, @.new, "inited")]
    /\ UNCHANGED <<slots, ref, total, mq, global, quit, fate>>

\* init succeeded or failed; both begin with skynet_context_release
InitEnd(w, ok) ==
    /\ th[w].pc \in {"init", "inited"}
    /\ th' = [th EXCEPT ![w] = Releasing(@, @.new, IF ok THEN "launched" ELSE "failed")]
    /\ UNCHANGED <<slots, ref, total, mq, global, quit, hist>>

\* skynet_globalmq_push of the new queue
Launched(w) ==
    /\ th[w].pc = "launched"
    /\ global' = Append(global, th[w].new)
    /\ th' = [th EXCEPT ![w].pc = "call", ![w].new = 0]
    /\ UNCHANGED <<slots, ref, total, mq, quit, hist>>

\* skynet_handle_retire, which may not find the context, then
\* skynet_mq_release of the new queue
LaunchFailed(w) ==
    LET h == th[w].new
        r == [th[w] EXCEPT !.pc = "mqrel", !.dropq = h, !.new = 0]
    IN
    /\ th[w].pc = "failed"
    /\ slot' = Retired(h)
    /\ th' = [th EXCEPT ![w] = IF Registered(h) THEN Releasing(r, h, "mqrel") ELSE r]
    /\ UNCHANGED <<handle_index, ref, total, mq, global, quit, hist>>

-----------------------------------------------------------------------------
(* skynet_mq_release *)

\* the record of a worker whose skynet_mq_release is over: a failed launch
\* returns to the callback, a dispatch looks for the next queue
Released(r) == [r EXCEPT !.dropq = 0, !.pc = IF r.queue # 0 THEN "call" ELSE "next"]

\* Mutant: the queue is dropped at once, marked or not.
MqReleaseUnmarked(w) ==
    /\ th[w].pc = "mqrel"
    /\ Goto(w, "drop")
    /\ UNCHANGED <<slots, ref, total, mq, global, quit, hist>>

\* A queue that is not marked yet goes back to the global queue
MqRelease(w) ==
    LET h == th[w].dropq IN
    /\ th[w].pc = "mqrel"
    /\ \/ /\ mq[h].release
          /\ Goto(w, "drop")
          /\ UNCHANGED global
       \/ /\ ~mq[h].release
          /\ global' = Append(global, h)
          /\ th' = [th EXCEPT ![w] = Released(@)]
    /\ UNCHANGED <<slots, ref, total, mq, quit, hist>>

\* Mutant: drop_message frees the message and reports nothing.
ReportedNothing(r, m) == r

\* drop_message tells the sender of m.  The report of an error would go to a
\* service that is gone, and a message of Ext has no sender.
Reported(r, m) ==
    IF m \in Errors \/ source[m] = 0 THEN r
    ELSE Sending(r, MaxMsgs + m, source[m], "drop")

\* _drop_queue: each message is popped and reported, then the queue is freed
DropQueue(w) ==
    LET h == th[w].dropq
        q == mq[h]
        m == q.ring[q.head]
    IN
    /\ th[w].pc = "drop"
    /\ \/ /\ Length(q) > 0
          /\ mq' = [mq EXCEPT ![h] = Popped(q)]
          /\ fate' = [fate EXCEPT ![m] = "dropped"]
          /\ th' = [th EXCEPT ![w] = Reported(@, m)]
       \/ /\ Length(q) = 0
          /\ mq' = [mq EXCEPT ![h].state = "freed"]
          /\ th' = [th EXCEPT ![w] = Released(@)]
          /\ UNCHANGED fate
    /\ UNCHANGED <<slots, ref, total, global, quit, nmsg, source>>

-----------------------------------------------------------------------------
(* The threads *)

\* A node whose first services are launched and have handled what their init
\* sent: their queues are empty, head and tail are anywhere in the array
Init ==
    /\ slot = [i \in 0..SlotSize - 1 |->
                 IF \E h \in 1..InitHandles : h % SlotSize = i
                   THEN CHOOSE h \in 1..InitHandles : h % SlotSize = i
                   ELSE 0]
    /\ handle_index = InitHandles + 1
    /\ ref = [h \in Handles |-> IF h <= InitHandles THEN 1 ELSE 0]
    /\ total = InitHandles
    /\ \E at \in 0..QueueSize - 1 :
          mq = [h \in Handles |->
                  IF h <= InitHandles THEN [NewQueue EXCEPT !.head = at, !.tail = at]
                                      ELSE NoQueue]
    /\ global = [i \in 1..InitHandles |-> i]
    /\ th = [t \in Threads |->
               [pc |-> IF t = Ext THEN "idle" ELSE "top", queue |-> 0, msg |-> 0,
                left |-> 0, nextq |-> 0, out |-> 0, dst |-> 0, rel |-> 0,
                back |-> "idle", reg |-> 0, new |-> 0, dropq |-> 0]]
    /\ quit = FALSE
    /\ nmsg = 0
    /\ source = [m \in Messages |-> 0]
    /\ fate = [m \in Messages |-> ""]

\* The steps a thread takes by itself once it has begun something
Dispatch(w) ==
    \/ TakeQueue(w) \/ NextQueue(w) \/ Exit(w) \/ Sleep(w) \/ Grab(w)
    \/ MqPop(w) \/ MqLength(w) \/ Swap(w) \/ PushBack(w)
    \/ Launch(w) \/ Launched(w) \/ LaunchFailed(w) \/ MqRelease(w) \/ DropQueue(w)

Go(t) == Release(t) \/ Delete(t) \/ SendGrab(t) \/ SendPush(t)

\* What a callback may do, and its end
Callback(w) ==
    \/ \E h \in Handles : Kill(w, h)
    \/ Register(w) \/ InitSend(w)
    \/ \E ok \in BOOLEAN : InitEnd(w, ok)

Next ==
    \/ \E w \in Workers : Dispatch(w) \/ Callback(w) \/ Return(w) \/ Wakeup(w)
    \/ \E t \in Threads : Go(t) \/ \E h \in Handles : Send(t, h)
    \/ CheckAbort

Spec == Init /\ [][Next]_vars

\* The fairness of the code: a thread goes on unless it is in a callback, the
\* timer thread never stops signalling, and among the workers Steady is one
\* whose callbacks return.  Nothing is said of the callbacks of the others.
FairSpec ==
    /\ Spec
    /\ \A w \in Workers : WF_vars(Dispatch(w))
    /\ \A t \in Threads : WF_vars(Go(t))
    /\ WF_vars(CheckAbort)
    /\ WF_vars(\E w \in Workers : Wakeup(w))
    /\ WF_vars(Return(Steady))
    /\ WF_vars(\E ok \in BOOLEAN : InitEnd(Steady, ok))

-----------------------------------------------------------------------------
(* Properties *)

Created == {h \in Handles : mq[h].state # "none"}

\* How often queue h is in the global queue or in the hands of a worker
Places(h) ==
    Cardinality({i \in DOMAIN global : global[i] = h})
    + Cardinality({w \in Workers : th[w].queue = h})
    + Cardinality({w \in Workers : th[w].nextq = h})
    + Cardinality({w \in Workers : th[w].new = h})
    + Cardinality({w \in Workers : th[w].dropq = h})

\* A queue is in the global queue or in one worker's hands, once, while
\* in_global says so or its release is due, and else nowhere, and then it is
\* empty: no queue is linked twice (the assert of skynet_globalmq_push), no
\* two workers dispatch one service, no message waits in a queue that no
\* worker will find (skynet_mq_push, skynet_mq_pop, skynet_mq_mark_release).
QueueInOnePlace ==
    \A h \in Handles :
        LET q == mq[h] IN
        /\ q.state = "live" /\ (q.in_global \/ q.release) => Places(h) = 1
        /\ q.state = "live" /\ ~q.in_global /\ ~q.release =>
              Places(h) = 0 /\ Length(q) = 0
        /\ q.state # "live" => Places(h) = 0

\* The references threads hold to the context of h
Holders(h) ==
    LET Left(r) == r.pc \in {"rel", "delete"} IN
    {<<t, "rel">> : t \in {u \in Threads : th[u].pc = "rel" /\ th[u].rel = h}}
    \cup {<<t, "push">> : t \in {u \in Threads : th[u].pc = "push" /\ th[u].dst = h}}
    \cup {<<t, "queue">> : t \in {w \in Workers :
             /\ th[w].queue = h /\ th[w].pc \notin {"top", "got", "exited"}
             /\ ~(Left(th[w]) /\ th[w].back = "top")}}
    \cup {<<t, "new">> : t \in {w \in Workers :
             /\ th[w].new = h /\ th[w].pc \notin {"launched", "failed"}
             /\ ~(Left(th[w]) /\ th[w].back \in {"launched", "failed"})}}

\* The reference count is the number of references: the one of the slot and
\* one for each thread that uses the context.  So no thread uses a context or
\* a queue after it is freed, a context is deleted once, and one that nobody
\* uses and that has no slot is deleted (skynet_context_release,
\* skynet_handle_grab).
RefsCounted ==
    /\ TypeOK
    /\ \A h \in Created :
        /\ ref[h] = Cardinality(Holders(h)) + IF InSlot(h) THEN 1 ELSE 0
        /\ ref[h] > 0 => mq[h].state = "live" /\ ~mq[h].release
        /\ ref[h] = 0 <=>
              \/ mq[h].release
              \/ \E t \in Threads : th[t].pc = "delete" /\ th[t].rel = h

\* A message that was dropped with the queue of a dead service is reported to
\* its sender, and the report is lost only when the sender is retired too
\* (drop_message).
DropReported ==
    \A m \in 1..MaxMsgs :
        LET e == MaxMsgs + m IN
        fate[m] = "dropped" /\ source[m] # 0 =>
            \/ fate[e] \in {"handled", "dropped"}
            \/ fate[e] = "refused" /\ ~InSlot(source[m])
            \/ \E t \in Threads : th[t].out = e
            \/ \E w \in Workers : th[w].msg = e
            \/ \E i \in 1..Length(mq[source[m]]) : Contents(mq[source[m]])[i] = e

\* A context in the table is found by its handle.  The code does not keep it:
\* a skynet_handle_register that doubles the slots before another thread has
\* stored its new handle hashes that context by 0 (ctx->handle in
\* skynet_handle_register against its assignment in skynet_context_new).
ContextFound == \A h \in Created : InSlot(h) => Registered(h)

\* A queue that is in the global queue is taken from it, although every worker
\* but one may be stuck in a callback and the others asleep
\* (thread_timer's wakeup, the round robin of message_dispatch).
QueueServed ==
    \A h \in Handles :
        (\E i \in DOMAIN global : global[i] = h)
            ~> (quit \/ ~\E i \in DOMAIN global : global[i] = h)

-----------------------------------------------------------------------------
(* The abstract specification *)

MB == INSTANCE Mailbox WITH
        Services <- Handles,
        box <- [h \in Handles |-> Contents(mq[h])],
        running <- [h \in Handles |->
                      {th[w].msg : w \in {v \in Workers : th[v].queue = h /\ th[v].msg # 0}}],
        retired <- {h \in Created : ~InSlot(h)}

\* The queues, the slots and the references implement the mailbox: the
\* messages of a service are handled in the order they were pushed, one at a
\* time, and dropped only when it is retired and not running, whatever the
\* ring buffer's wrap-around and growth.
MailboxSpec == MB!Spec

=============================================================================
