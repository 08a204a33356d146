------------------------------ MODULE AsyncLog ------------------------------
(***************************************************************************)
(* The asynchronous logger of lua-log.c.  The SysLog service appends to    *)
(* curr_buffer and, when that is full, links it into buffers and goes on   *)
(* with next_buffer or a new one.  A thread takes the buffers away under   *)
(* the mutex, leaves its two spare ones instead, writes the messages to    *)
(* the file of their level, and makes two of the written buffers its new   *)
(* spares.  Too many buffers in one go are thrown away but for two.        *)
(*                                                                         *)
(* A buffer is a number; its next pointer and messages are in heap.  A     *)
(* message is its position in the order of append, and one byte long.  An  *)
(* assert that fails or a pointer that is NULL or freed sets failed.       *)
(*                                                                         *)
(* Every level rolls by the hour (roll_type 1 does the same with days).    *)
(* Left out: file and directory names, the level filter of lwrite.         *)
(***************************************************************************)
EXTENDS Integers, Sequences, FiniteSets

CONSTANTS
    Levels,        \* log levels, each with a file of its own
    MessageSize,   \* LOG_MESSAGE_SIZE
    DropLimit,     \* buffers in one go, 25 in the code
    RollSize,      \* rollsize
    HoursPerDay,   \* range of tm_hour
    MaxMsgs,       \* bound: messages appended
    MaxHour,       \* bound: how often the hour changes
    Bufs,          \* bound: buffers, 1..n
    FopenMayFail   \* levels whose file rollfile may fail to open

ASSUME LogAssumption ==
    /\ MessageSize \in Nat \ {0, 1} /\ DropLimit \in Nat \ {0, 1}
    /\ RollSize \in Nat \ {0} /\ HoursPerDay \in Nat \ {0}
    /\ MaxMsgs \in Nat /\ MaxHour \in Nat
    /\ \E n \in 0..MaxMsgs + 4 : n >= 4 /\ Bufs = 1..n
    /\ FopenMayFail \subseteq Levels

VARIABLES
    heap,        \* by buffer: [live, next, msgs]
    curr_buffer, next_buffer,
    buffers,     \* [head, tail, size]
    running,
    handle,      \* by level: [kind, hour, idx], the open file
    roll_hour,   \* by level: the hour when it was opened; -1 at first
    written_bytes,
    \* the logger's thread
    pc, new_buffer1, new_buffer2, buffers_to_write, tm,
    node, i,     \* the place of the loop that writes
    need_flush,
    \* the service
    exiting,     \* log_exit: "no", "join", "done"
    \* the environment and history
    hour,        \* the time, in hours
    crossed,     \* the hours that began inside a rollfile
    nmsg,        \* messages appended so far
    level,       \* the level of a message
    dropped,     \* messages given up
    disk,        \* by level: what was written, in order
    oom,         \* a calloc of append has failed
    failed

front == <<curr_buffer, next_buffer, buffers>>
files == <<handle, roll_hour, written_bytes, disk>>
clock == <<hour, crossed>>
spares == <<new_buffer1, new_buffer2>>
vars == <<heap, front, running, files, pc, spares, buffers_to_write, tm, node, i,
          need_flush, exiting, clock, nmsg, level, dropped, oom, failed>>

Msgs == 1..MaxMsgs
Buf0 == {0} \cup Bufs
Empty == [head |-> 0, tail |-> 0, size |-> 0]
Zeroed == [live |-> TRUE, next |-> 0, msgs |-> <<>>]
NoFile == [kind |-> "none", hour |-> 0, idx |-> 0]
Stdout == [kind |-> "stdout", hour |-> 0, idx |-> 0]

Lists == [head : Buf0, tail : Buf0, size : Nat]

\* The variables have the values the code can give them, and a buffer never
\* holds more than fit in its array (append).
TypeOK ==
    /\ \A b \in Bufs : /\ heap[b].live \in BOOLEAN /\ heap[b].next \in Buf0
                       /\ heap[b].msgs \in Seq(Msgs) /\ Len(heap[b].msgs) <= MessageSize
    /\ curr_buffer \in Bufs /\ next_buffer \in Buf0
    /\ buffers \in Lists /\ buffers_to_write \in Lists
    /\ new_buffer1 \in Buf0 /\ new_buffer2 \in Buf0 /\ node \in Buf0
    /\ i \in 0..MessageSize /\ tm \in 0..MaxHour /\ hour \in 0..MaxHour
    /\ pc \in {"top", "lock", "wait", "trim", "write", "flush", "recycle", "end"}
    /\ exiting \in {"no", "join", "done"}
    /\ running \in BOOLEAN /\ oom \in BOOLEAN /\ failed \in BOOLEAN
    /\ handle \in [Levels -> [kind : {"none", "file", "stdout"}, hour : 0..MaxHour, idx : Nat]]
    /\ roll_hour \in [Levels -> {-1} \cup 0..MaxHour] /\ crossed \subseteq 0..MaxHour
    /\ written_bytes \in [Levels -> Nat]
    /\ need_flush \subseteq Levels /\ dropped \subseteq Msgs
    /\ nmsg \in 0..MaxMsgs /\ level \in [1..nmsg -> Levels]

\* linit; the thread has made its two buffers
Init ==
    /\ heap = [b \in Bufs |-> [Zeroed EXCEPT !.live = b <= 4]]
    /\ curr_buffer = 1 /\ next_buffer = 2
    /\ new_buffer1 = 3 /\ new_buffer2 = 4
    /\ buffers = Empty /\ buffers_to_write = Empty
    /\ running = TRUE /\ pc = "top"
    /\ handle = [l \in Levels |-> NoFile]
    /\ roll_hour = [l \in Levels |-> -1] /\ crossed = {}
    /\ written_bytes = [l \in Levels |-> 0]
    /\ disk = [l \in Levels |-> <<>>]
    /\ tm = 0 /\ hour = 0 /\ node = 0 /\ i = 0
    /\ need_flush = {} /\ dropped = {}
    /\ exiting = "no"
    /\ nmsg = 0 /\ level = <<>>
    /\ oom = FALSE /\ failed = FALSE

-----------------------------------------------------------------------------
(* append *)

Full(b) == Len(heap[b].msgs) + 1 >= MessageSize

\* Mutant: curr_buffer is linked in front of the others.
LinkedInFront == [head |-> curr_buffer,
                  tail |-> IF buffers.tail = 0 THEN curr_buffer ELSE buffers.tail,
                  size |-> buffers.size + 1]

\* buffers with curr_buffer linked behind its tail
Linked == [head |-> IF buffers.head = 0 THEN curr_buffer ELSE buffers.head,
           tail |-> curr_buffer, size |-> buffers.size + 1]

\* the next pointers after that
LinkedHeap ==
    IF buffers.head = 0 THEN heap ELSE [heap EXCEPT ![buffers.tail].next = curr_buffer]

\* the asserts about buffers.tail
LinkFails == (buffers.head = 0 /\ buffers.tail # 0) \/ LinkedHeap[curr_buffer].next # 0

Appended == /\ nmsg' = nmsg + 1
            /\ \E l \in Levels : level' = Append(level, l)

\* calloc returns b, the first that is not in use
NewBuffer(b) == ~heap[b].live /\ \A c \in Bufs : c < b => heap[c].live

\* There is room in curr_buffer
Append1 ==
    /\ exiting = "no" /\ nmsg < MaxMsgs /\ ~failed
    /\ ~Full(curr_buffer)
    /\ heap' = [heap EXCEPT ![curr_buffer].msgs = Append(@, nmsg + 1)]
    /\ Appended
    /\ UNCHANGED <<front, running, files, pc, spares, buffers_to_write, tm, node,
                   i, need_flush, exiting, clock, dropped, oom, failed>>

\* curr_buffer is full; b is the buffer to go on with
AppendFull(b) ==
    /\ exiting = "no" /\ nmsg < MaxMsgs /\ ~failed
    /\ Full(curr_buffer)
    /\ \/ next_buffer # 0 /\ b = next_buffer
       \/ next_buffer = 0 /\ NewBuffer(b)
    /\ buffers' = Linked
    /\ failed' = LinkFails
    /\ LET h == [LinkedHeap EXCEPT ![curr_buffer].next = b]
       IN  heap' = [h EXCEPT ![b] =
                       [IF next_buffer = 0 THEN Zeroed ELSE @ EXCEPT
                           !.msgs = <<nmsg + 1>>]]
    /\ curr_buffer' = b /\ next_buffer' = 0
    /\ Appended
    /\ UNCHANGED <<running, files, pc, spares, buffers_to_write, tm, node, i,
                   need_flush, exiting, clock, dropped, oom>>

\* curr_buffer is full and calloc fails: the message is given up
AppendNoMemory ==
    /\ exiting = "no" /\ nmsg < MaxMsgs /\ ~failed
    /\ Full(curr_buffer) /\ next_buffer = 0
    /\ buffers' = Linked
    /\ heap' = LinkedHeap
    /\ failed' = LinkFails
    /\ dropped' = dropped \cup {nmsg + 1}
    /\ oom' = TRUE
    /\ Appended
    /\ UNCHANGED <<curr_buffer, next_buffer, running, files, pc, spares,
                   buffers_to_write, tm, node, i, need_flush, exiting, clock>>

-----------------------------------------------------------------------------
(* worker_func *)

\* while (inst.running), and the asserts of the loop
Loop ==
    /\ pc = "top" /\ ~failed
    /\ IF running
         THEN /\ pc' = "lock"
              /\ failed' = (\/ buffers_to_write.head # 0
                            \/ new_buffer1 = 0 \/ new_buffer2 = 0
                            \/ heap[new_buffer1].msgs # <<>>
                            \/ heap[new_buffer2].msgs # <<>>)
         ELSE pc' = "end" /\ UNCHANGED failed
    /\ UNCHANGED <<heap, front, running, files, spares, buffers_to_write, tm,
                   node, i, need_flush, exiting, clock, nmsg, level, dropped, oom>>

\* No buffer is linked: pthread_cond_timedwait
Wait ==
    /\ pc = "lock" /\ ~failed /\ buffers.head = 0
    /\ pc' = "wait"
    /\ UNCHANGED <<heap, front, running, files, spares, buffers_to_write, tm,
                   node, i, need_flush, exiting, clock, nmsg, level, dropped, oom, failed>>

\* Mutant: the spare buffer is handed over whether next_buffer was used or not.
SparesLeftAlways ==
    /\ curr_buffer' = new_buffer1 /\ new_buffer1' = 0
    /\ next_buffer' = new_buffer2 /\ new_buffer2' = 0

\* The two spare buffers go to the front; the second only when it is missing
SparesLeft ==
    /\ curr_buffer' = new_buffer1 /\ new_buffer1' = 0
    /\ IF next_buffer = 0
         THEN next_buffer' = new_buffer2 /\ new_buffer2' = 0
         ELSE UNCHANGED <<next_buffer, new_buffer2>>

\* Mutant: the wait has no timeout, and only a full buffer ends it.
SwapNoTimeout ==
    /\ pc \in {"lock", "wait"} /\ buffers.head # 0
    /\ ~failed
    /\ buffers_to_write' = Linked
    /\ buffers' = Empty
    /\ SparesLeft
    /\ pc' = "trim"
    /\ UNCHANGED <<heap, running, files, tm, node, i, need_flush, exiting, clock,
                   nmsg, level, dropped, oom, failed>>

\* The critical section, at once or after a signal, the timeout or a spurious
\* wakeup.  tail->next is curr_buffer already.
Swap ==
    /\ pc = "wait" \/ (pc = "lock" /\ buffers.head # 0)
    /\ ~failed
    /\ buffers_to_write' = Linked
    /\ buffers' = Empty
    /\ SparesLeft
    /\ pc' = "trim"
    /\ UNCHANGED <<heap, running, files, tm, node, i, need_flush, exiting, clock,
                   nmsg, level, dropped, oom, failed>>

\* The buffers from b on, in heap h: what every set has that has b and, of
\* each buffer in it, the next
Closed(h, S) == \A c \in S : h[c].next \in S \cup {0}
ChainIn(h, b) ==
    LET closed == {S \in SUBSET Bufs : b \in S \cup {0} /\ Closed(h, S)}
    IN  IF b = 0 THEN {} ELSE {c \in Bufs : \A S \in closed : c \in S}

Chain(b) == ChainIn(heap, b)

Held(bs) == UNION {{heap[b].msgs[k] : k \in DOMAIN heap[b].msgs} : b \in bs}

\* Freed buffers
Free(bs) == [b \in Bufs |-> IF b \in bs THEN [heap[b] EXCEPT !.live = FALSE] ELSE heap[b]]

\* The first two of too many buffers are the ones to keep
TooMany == buffers_to_write.size > DropLimit
Second == heap[buffers_to_write.head].next
Excess == Chain(heap[Second].next)

\* Mutant: the second buffer still points to the freed ones.
TrimmedDangling == Free(Excess)

Trimmed == [Free(Excess) EXCEPT ![Second].next = 0]

\* The time is read, and all but two of too many buffers are freed
Trim ==
    /\ pc = "trim" /\ ~failed
    /\ IF TooMany
         THEN /\ heap' = Trimmed
              /\ dropped' = dropped \cup Held(Excess)
              /\ buffers_to_write' = [head |-> buffers_to_write.head, tail |-> Second, size |-> 2]
         ELSE UNCHANGED <<heap, dropped, buffers_to_write>>
    /\ tm' = hour
    /\ node' = buffers_to_write.head /\ i' = 0 /\ need_flush' = {}
    /\ pc' = "write"
    /\ UNCHANGED <<front, running, files, spares, exiting, clock, nmsg, level, oom, failed>>

-----------------------------------------------------------------------------
(* rollfile *)

\* The size of a file of level l
FileSize(l, h, n) ==
    Cardinality({k \in DOMAIN disk[l] :
        disk[l][k].file = [kind |-> "file", hour |-> h, idx |-> n]})

\* What the clock may show while rollfile looks for a file: g[m] when it makes
\* the name of index m (get_log_filename), until file n is not full, and
\* g[n + 1] when it sets roll_hour
Readings(l, n) ==
    {g \in [0..n + 1 -> hour..MaxHour] :
        /\ \A m, k \in 0..n + 1 : m <= k => g[m] <= g[k]
        /\ \A m \in 0..n - 1 : FileSize(l, g[m], m) >= RollSize
        /\ FileSize(l, g[n], n) < RollSize}

Rolled(l) ==
    UNION {{[file |-> [kind |-> "file", hour |-> g[n], idx |-> n], roll |-> g[n + 1]] :
              g \in Readings(l, n)} : n \in 0..MaxMsgs}

\* what rollfile may leave: a level that went to stdout stays there
RollFile(l) ==
    LET stdout == {[file |-> Stdout, roll |-> roll_hour[l]]}
    IN  IF handle[l].kind = "stdout" THEN stdout
        ELSE Rolled(l) \cup IF l \in FopenMayFail THEN stdout ELSE {}

\* The file stays as it is
Stays(l) == {[file |-> handle[l], roll |-> roll_hour[l]]}

\* The level has the file of r, and it is as late as its roll_hour
Rolls(l, r) ==
    /\ handle' = [handle EXCEPT ![l] = r.file]
    /\ roll_hour' = [roll_hour EXCEPT ![l] = r.roll]
    /\ hour' = IF r.roll > hour THEN r.roll ELSE hour
    /\ crossed' = crossed \cup (hour + 1)..r.roll

\* written_bytes after it: set from the file, else as it was
RolledBytes(l, f) ==
    IF f.kind = "file" THEN FileSize(l, f.hour, f.idx) ELSE written_bytes[l]

\* Mutant: the hour is not looked at.
HourPassedNever(l) == FALSE

\* roll_hour is set, and not the tm_hour of the batch
HourPassed(l) ==
    roll_hour[l] >= 0 /\ roll_hour[l] % HoursPerDay # tm % HoursPerDay

-----------------------------------------------------------------------------
(* Writing *)

\* The level of the next message has no file yet
OpenFile ==
    /\ pc = "write" /\ ~failed
    /\ node # 0 /\ i < Len(heap[node].msgs)
    /\ LET l == level[heap[node].msgs[i + 1]]
       IN  /\ handle[l].kind = "none"
           /\ \E r \in RollFile(l) :
                 /\ Rolls(l, r)
                 /\ written_bytes' = [written_bytes EXCEPT ![l] = RolledBytes(l, r.file)]
    /\ UNCHANGED <<heap, front, running, disk, pc, spares, buffers_to_write, tm, node,
                   i, need_flush, exiting, nmsg, level, dropped, oom, failed>>

\* One message: the file is rolled with the hour before
WriteMessage ==
    /\ pc = "write" /\ ~failed
    /\ node # 0 /\ i < Len(heap[node].msgs)
    /\ LET m == heap[node].msgs[i + 1]
           l == level[m]
       IN  /\ handle[l].kind # "none"
           /\ \E r \in IF HourPassed(l) THEN RollFile(l) ELSE Stays(l) :
                 /\ Rolls(l, r)
                 /\ written_bytes' = [written_bytes EXCEPT ![l] =
                       1 + IF r.file = handle[l] THEN @ ELSE RolledBytes(l, r.file)]
                 /\ disk' = [disk EXCEPT ![l] = Append(@, [id |-> m, file |-> r.file, tm |-> tm])]
           /\ need_flush' = need_flush \cup {l}
    /\ i' = i + 1
    /\ UNCHANGED <<heap, front, running, pc, spares, buffers_to_write, tm, node,
                   exiting, nmsg, level, dropped, oom, failed>>

\* The next buffer
WriteNext ==
    /\ pc = "write" /\ ~failed
    /\ node # 0 /\ i >= Len(heap[node].msgs)
    /\ node' = heap[node].next /\ i' = 0
    /\ pc' = IF heap[node].next = 0 THEN "flush" ELSE "write"
    /\ UNCHANGED <<heap, front, running, files, spares, buffers_to_write, tm,
                   need_flush, exiting, clock, nmsg, level, dropped, oom, failed>>

\* A level that was written is flushed and, when its file is too large, rolled
Flush(l) ==
    /\ pc = "flush" /\ ~failed /\ l \in need_flush
    /\ \E r \in IF written_bytes[l] > RollSize THEN RollFile(l) ELSE Stays(l) :
          /\ Rolls(l, r)
          /\ written_bytes' = [written_bytes EXCEPT ![l] =
                IF r.file = handle[l] THEN @ ELSE RolledBytes(l, r.file)]
    /\ need_flush' = need_flush \ {l}
    /\ UNCHANGED <<heap, front, running, disk, pc, spares, buffers_to_write, tm,
                   node, i, exiting, nmsg, level, dropped, oom, failed>>

\* The written buffers that become spare ones, and the others
Taken == {buffers_to_write.head} \cup IF new_buffer2 = 0 THEN {Second} ELSE {}
Rest == Chain(IF new_buffer2 = 0 /\ Second # 0 THEN heap[Second].next ELSE Second)

\* The spare buffers are zeroed, the others are freed
Recycle ==
    /\ pc = "flush" /\ ~failed /\ need_flush = {}
    /\ failed' = (new_buffer2 = 0 /\ (buffers_to_write.size < 2 \/ Second = 0))
    /\ new_buffer1' = buffers_to_write.head
    /\ new_buffer2' = IF new_buffer2 = 0 THEN Second ELSE new_buffer2
    /\ heap' = [b \in Bufs |-> IF b \in Taken THEN Zeroed ELSE Free(Rest)[b]]
    /\ buffers_to_write' = Empty
    /\ pc' = "top"
    /\ UNCHANGED <<front, running, files, tm, node, i, need_flush, exiting, clock,
                   nmsg, level, dropped, oom>>

-----------------------------------------------------------------------------
(* log_exit, and the clock *)

\* running is reset without the mutex; the signal may find nobody waiting
Exit ==
    /\ exiting = "no" /\ ~failed
    /\ running' = FALSE /\ exiting' = "join"
    /\ UNCHANGED <<heap, front, files, pc, spares, buffers_to_write, tm, node, i,
                   need_flush, clock, nmsg, level, dropped, oom, failed>>

\* pthread_join returns and the files are closed
Join ==
    /\ exiting = "join" /\ pc = "end"
    /\ exiting' = "done"
    /\ handle' = [l \in Levels |-> NoFile]
    /\ UNCHANGED <<heap, front, running, roll_hour, written_bytes, disk, pc, spares,
                   buffers_to_write, tm, node, i, need_flush, clock, nmsg, level,
                   dropped, oom, failed>>

Tick ==
    /\ hour < MaxHour
    /\ hour' = hour + 1
    /\ UNCHANGED <<heap, front, running, files, pc, spares, buffers_to_write, tm,
                   node, i, need_flush, exiting, crossed, nmsg, level, dropped, oom, failed>>

Thread == Loop \/ Wait \/ Swap \/ Trim \/ OpenFile \/ WriteMessage \/ WriteNext
          \/ (\E l \in Levels : Flush(l)) \/ Recycle

Next ==
    \/ Append1 \/ (\E b \in Bufs : AppendFull(b)) \/ AppendNoMemory
    \/ Thread
    \/ Exit \/ Join \/ Tick

Spec == Init /\ [][Next]_vars

\* The thread goes on, and its wait ends after flush_interval
FairSpec == Spec /\ WF_vars(Thread)

-----------------------------------------------------------------------------
(* Properties *)

\* No assert of append and worker_func fails, and no pointer they follow is
\* NULL: there is always a written buffer for each spare one that is missing.
\* After a calloc that failed in append, curr_buffer is in the list and still
\* the current one, and this is no longer so.
NoAssertFails == ~oom => ~failed

Writing == pc \in {"trim", "write", "flush"}

\* Every buffer that is allocated has one owner: the front, the thread's
\* spares or the list being written; none leaks, none is used after free
\* (the swap and the recycling of worker_func, the drop of excess buffers).
OneOwner ==
    LET front_ == Chain(buffers.head) \cup {curr_buffer}
        list == IF Writing THEN Chain(buffers_to_write.head) ELSE {}
        owners == <<front_, {next_buffer} \ {0}, {new_buffer1} \ {0},
                    {new_buffer2} \ {0}, list>>
    IN  TypeOK /\ (~oom =>
        /\ {b \in Bufs : heap[b].live} = UNION {owners[k] : k \in 1..5}
        /\ \A k, n \in 1..5 : k # n => owners[k] \cap owners[n] = {})

\* The messages of the buffers bs are in the order of append, in each buffer and
\* from one to the next
Ordered(bs) ==
    \A b \in bs :
        LET s == heap[b].msgs IN
        /\ \A k, n \in DOMAIN s : k < n => s[k] < s[n]
        /\ \A m \in Held(Chain(heap[b].next)) : \A k \in DOMAIN s : s[k] < m

\* What the thread has still to write of the buffers it took
Unwritten ==
    CASE pc = "trim" -> Held(Chain(buffers_to_write.head))
      [] pc = "write" -> {heap[node].msgs[k] : k \in i + 1..Len(heap[node].msgs)}
                         \cup Held(Chain(heap[node].next))
      [] OTHER -> {}

\* Of each level, what is written and what waits in the buffers is what was
\* appended but for what was dropped; it is written once and in order, before
\* all that waits, and what waits is in order too (append, the swap and the
\* loop of worker_func that writes).
NoneLost ==
    LET front_ == Chain(buffers.head) \cup {curr_buffer}
        waits == Unwritten \cup Held(front_)
    IN  ~oom /\ ~failed =>
        /\ Ordered(front_) /\ (Writing => Ordered(Chain(buffers_to_write.head)))
        /\ \A m \in Unwritten : \A n \in Held(front_) : m < n
        /\ \A l \in Levels :
              /\ \A k, n \in DOMAIN disk[l] : k < n => disk[l][k].id < disk[l][n].id
              /\ \A k \in DOMAIN disk[l] : \A m \in waits :
                    level[m] = l => disk[l][k].id < m
              /\ {disk[l][k].id : k \in DOMAIN disk[l]} \cup {m \in waits : level[m] = l}
                    = {m \in 1..nmsg : level[m] = l /\ m \notin dropped}

Before(f, g) ==
    CASE f.kind = "stdout" -> g.kind = "stdout"
      [] g.kind = "stdout" -> TRUE
      [] OTHER -> \/ f.hour < g.hour
                  \/ f.hour = g.hour /\ (f.idx <= g.idx \/ f.hour \in crossed)

\* A level goes through its files in the order of their hours, and a batch
\* never goes to the file of an hour before it began (rollfile, and the test
\* of roll_hour in worker_func).  Not so in an hour that began inside a
\* rollfile, which reads the clock for each name it tries and again for
\* roll_hour: the batches of that hour may all go to the file of the hour
\* before, and its files may be used out of the order of their indexes.
\* Within a day: tm_hour repeats.
RolledInTime ==
    \A l \in Levels : \A k \in DOMAIN disk[l] :
        LET d == disk[l][k] IN
        /\ d.file.kind = "file" => d.file.hour >= d.tm \/ d.tm \in crossed
        /\ \A n \in k..Len(disk[l]) : Before(d.file, disk[l][n].file)

\* written_bytes is the size of the open file, and no batch begins in a file
\* that is over rollsize.
FileSizes ==
    \A l \in Levels :
        handle[l].kind = "file" =>
            /\ written_bytes[l] = FileSize(l, handle[l].hour, handle[l].idx)
            /\ pc \in {"top", "lock", "wait", "trim"} => written_bytes[l] <= RollSize

\* The files are rolled by hour and by size (rollfile, worker_func): both of
\* the above hold.
FilesRolled ==
    RolledInTime /\ FileSizes

Written(m) ==
    m <= nmsg /\ \E k \in DOMAIN disk[level[m]] : disk[level[m]][k].id = m

\* A message is written, or dropped with too many others, as long as the
\* logger runs, also when no buffer ever gets full.
Logged ==
    \A m \in Msgs : (nmsg >= m) ~> (Written(m) \/ m \in dropped \/ ~running \/ oom)

\* What the comment in log_exit says, "wake the thread to write what is left":
\* when log_exit is done, every message is written.  The code does not keep
\* it: a thread that is not in its wait sees running = 0 and ends.
ExitWritesAll ==
    exiting = "done" => \A m \in 1..nmsg : Written(m) \/ m \in dropped

=============================================================================
