---------------------------- MODULE SocketServer ----------------------------
(***************************************************************************)
(* skynet's socket server (socket_server.c) for TCP connections.           *)
(*                                                                         *)
(* One socket thread polls the kernel and takes the commands that the      *)
(* services, on the worker threads, write into a pipe.  A service that     *)
(* sends finds out, without the socket thread, whether it may write to the *)
(* connection directly; what the kernel does not take at once is left in   *)
(* dw_buffer for the socket thread.  The other messages go through the     *)
(* pipe to one of two lists of the connection, and the count `sending`     *)
(* tells that some are on the way.  A slot is used again for later ids.    *)
(*                                                                         *)
(* Each call of ctrl_cmd is one step of the socket thread, and so is each  *)
(* event, and each ends before what the services may interfere with: a     *)
(* force_close without the lock frees the lists in one step and closes in  *)
(* a second one, and clear_closed_event is a step after ctrl_cmd.  A       *)
(* direct write takes four steps.  can_direct_write is one step under the  *)
(* lock, although the code reads the id, the count and the type one after  *)
(* the other.                                                              *)
(*                                                                         *)
(* Left out: listening sockets' own slots, UDP, pause, socket options,     *)
(* BIND, warnings and statistics, failing epoll calls; ids that wrap       *)
(* around; sends to an id that no SOCKET_OPEN was reported for, which the  *)
(* socket library for services does not make.                              *)
(***************************************************************************)
EXTENDS Integers, Sequences, FiniteSets, Functions

CONSTANTS
    Services,     \* the services that send, each on a thread of its own
    MAX_SOCKET,   \* slots
    Size,         \* units of which the kernel takes a message
    MaxId,        \* bound: connections
    MaxSends,     \* bound, by service: messages that it sends
    LowSenders,   \* the services that may send with low priority
    Closers,      \* the services that may close a connection
    Nobody        \* no service

ASSUME SocketAssumption ==
    /\ IsFiniteSet(Services) /\ Nobody \notin Services /\ LowSenders \cup Closers \subseteq Services
    /\ MAX_SOCKET \in Nat \ {0} /\ Size \in Nat \ {0}
    /\ MaxId \in Nat /\ MaxSends \in [Services -> Nat]

Ids == 1..MaxId
Slots == 0..MAX_SOCKET - 1
HASH_ID(id) == id % MAX_SOCKET
\* all units that can ever be pending
MaxUnits == Size * FoldFunction(+, 0, MaxSends)
Msgs == [from : Services, n : Nat \ {0}, low : BOOLEAN]
Units == Msgs \X (1..Size)
NoMsg == [from |-> Nobody, n |-> 0, low |-> FALSE]

\* events: of a slot, of the pipe and of a socket that listens
Pipe == -1
Listen == -2

VARIABLES
    slot,      \* by slot: struct socket
    alloc_id,  \* ss->alloc_id
    pipe,      \* the commands between sendctrl_fd and recvctrl_fd
    poll,      \* of the socket thread: "ctrl" while checkctrl is set, "first" after
               \* sp_wait, "rest" for the other events and in sp_wait; "close" in a force_close
               \* before socket_lock, "clear" before clear_closed_event; "abort"
               \* when an assertion failed
    job,       \* what the socket thread closes: the id, whether because nothing is
               \* left to be sent, and poll when that is done
    ev,        \* ss->ev from event_index on
    th,        \* by service: where it is in socket_server_send
    known,     \* by id: what was reported of it to a service
    \* History:
    conn,      \* by id, until it is closed: the units that the kernel took, the
               \* messages that were sent, the service that closed it first, and
               \* what that service had sent before
    cut        \* messages that were sent before a connection was closed because
               \* nothing was left to be sent, and not written

vars == <<slot, alloc_id, pipe, poll, job, ev, th, known, conn, cut>>

Types == {"INVALID", "RESERVE", "CONNECTING", "CONNECTED", "HALFCLOSE", "PACCEPT"}

\* The lists hold the units still to be written; dw_buffer is NULL when empty.
\* writing: the kernel watches for EPOLLOUT.  lost: wb_size still counts units of
\* lists that were freed.
Socket ==
    [type : Types, id : {0} \cup Ids, tcp : BOOLEAN, tag : {0} \cup Ids, sending : Nat,
     high : Seq(Units), low : Seq(Units), dw_buffer : Seq(Units), writing : BOOLEAN,
     lock : Services \cup {Nobody}, lost : BOOLEAN]

Jobs == [id : {0} \cup Ids, drained : BOOLEAN, next : {"ctrl", "rest", "clear"}]

Cmds == [cmd : {"R", "K", "O", "W", "D", "P"}, id : Ids, msg : Msgs \cup {NoMsg}, shutdown : BOOLEAN]

\* The variables have the values the code can give them.  A service holds the
\* lock of a slot exactly while it writes directly to the slot's connection.
TypeOK ==
    /\ \A i \in Slots : slot[i] \in Socket
    /\ alloc_id \in 0..MaxId
    /\ \A k \in DOMAIN pipe : pipe[k] \in Cmds
    /\ poll \in {"ctrl", "first", "rest", "close", "clear", "abort"} /\ job \in Jobs
    /\ \A e \in ev : e \in [from : Slots \cup {Pipe, Listen},
                            what : SUBSET {"read", "write"}]
    /\ \A v \in Services :
           /\ th[v].pc \in {"idle", "write", "inc", "push"}
           /\ \A i \in Slots : slot[i].lock = v <=> th[v].pc = "write" /\ HASH_ID(th[v].id) = i
    /\ known \in [Ids -> {"none", "accepted", "open"}]
    /\ \A id \in Ids : /\ conn[id].wire \in Seq(Units) /\ conn[id].sent \subseteq Msgs
                       /\ conn[id].closer \in Services \cup {Nobody}
                       /\ conn[id].promise \subseteq Msgs
    /\ cut \subseteq Msgs

NoSocket ==
    [type |-> "INVALID", id |-> 0, tcp |-> FALSE, tag |-> 0, sending |-> 0,
     high |-> <<>>, low |-> <<>>, dw_buffer |-> <<>>, writing |-> FALSE, lock |-> Nobody,
     lost |-> FALSE]

NoJob == [id |-> 0, drained |-> FALSE, next |-> "ctrl"]

NoConn == [wire |-> <<>>, sent |-> {}, closer |-> Nobody, promise |-> {}]

\* A service that has sent n messages and is not sending
Idle(n) == [pc |-> "idle", n |-> n, id |-> 0, cmd |-> "D", msg |-> NoMsg]

\* socket_server_create
Init ==
    /\ slot = [i \in Slots |-> NoSocket]
    /\ alloc_id = 0 /\ pipe = <<>> /\ poll = "ctrl" /\ job = NoJob /\ ev = {}
    /\ th = [v \in Services |-> Idle(0)]
    /\ known = [id \in Ids |-> "none"]
    /\ conn = [id \in Ids |-> NoConn] /\ cut = {}

-----------------------------------------------------------------------------
(* Slots *)

\* the id that reserve_id takes: the next one whose slot is free
FreeIds == {id \in alloc_id + 1..MaxId : slot[HASH_ID(id)].type = "INVALID"}
IsNextId(id) == id \in FreeIds /\ \A other \in FreeIds : id <= other

Reserved(s, id) == [s EXCEPT !.type = "RESERVE", !.id = id, !.tcp = FALSE]

\* new_fd, when the socket gets the given type
NewFd(s, id, type) ==
    [s EXCEPT !.type = type, !.id = id, !.tcp = TRUE, !.tag = id, !.sending = 0,
              !.writing = (type = "CONNECTING"), !.dw_buffer = <<>>, !.lost = FALSE]

send_buffer_empty(s) == s.high = <<>> /\ s.low = <<>>

\* Mutant: the low list is not freed.
FreedHigh(s) ==
    [s EXCEPT !.high = <<>>, !.writing = FALSE, !.lost = ~send_buffer_empty(s)]

\* force_close before socket_lock: the lists are freed, and sp_del
Freed(s) ==
    [s EXCEPT !.high = <<>>, !.low = <<>>, !.writing = FALSE, !.lost = ~send_buffer_empty(s)]

\* ... and under the lock
Closed(s) == [s EXCEPT !.type = "INVALID", !.dw_buffer = <<>>]

\* force_close of a socket that no service can write to directly meanwhile
ForceClosed(s) == Closed(Freed(s))

nomore_sending_data(s) == send_buffer_empty(s) /\ s.dw_buffer = <<>> /\ s.sending = 0

\* s is a socket with this id
IsSocket(s, id) == s.type # "INVALID" /\ s.id = id

-----------------------------------------------------------------------------
(* The services' calls *)

\* send_request
Request(cmd, id, msg, shutdown) ==
    pipe' = Append(pipe, [cmd |-> cmd, id |-> id, msg |-> msg, shutdown |-> shutdown])

\* socket_server_connect: reserve_id, in open_request
Reserve(id) ==
    /\ poll # "abort"
    /\ IsNextId(id)
    /\ slot' = [slot EXCEPT ![HASH_ID(id)] = Reserved(@, id)]
    /\ alloc_id' = id
    /\ UNCHANGED <<pipe, poll, job, ev, th, known, conn, cut>>

\* ... and then send_request
Connect(id) ==
    LET s == slot[HASH_ID(id)] IN
    /\ poll # "abort"
    /\ s.type = "RESERVE" /\ s.id = id
    /\ \A k \in DOMAIN pipe : pipe[k].cmd = "O" => pipe[k].id # id
    /\ Request("O", id, NoMsg, FALSE)
    /\ UNCHANGED <<slot, alloc_id, poll, job, ev, th, known, conn, cut>>

\* socket_server_start, after the report of an accepted connection
Start(id) ==
    /\ poll # "abort"
    /\ known[id] = "accepted"
    /\ \A k \in DOMAIN pipe : pipe[k].cmd = "R" => pipe[k].id # id
    /\ Request("R", id, NoMsg, FALSE)
    /\ UNCHANGED <<slot, alloc_id, poll, job, ev, th, known, conn, cut>>

\* socket_server_close and socket_server_shutdown (bound: a second close only
\* to shut down a socket that the first one left half closed)
Close(v, id, shutdown) ==
    LET c == conn[id]
        again == shutdown /\ slot[HASH_ID(id)].type = "HALFCLOSE"
    IN
    /\ poll # "abort"
    /\ v \in Closers /\ th[v].pc = "idle" /\ known[id] # "none"
    /\ c.closer = Nobody \/ (again /\ \A k \in DOMAIN pipe : pipe[k].cmd # "K")
    /\ Request("K", id, NoMsg, shutdown)
    /\ conn' = IF c.closer = Nobody
                 THEN [conn EXCEPT ![id].closer = v,
                                   ![id].promise = {m \in c.sent : m.from = v}]
                 ELSE conn
    /\ UNCHANGED <<slot, alloc_id, poll, job, ev, th, known, cut>>

\* Mutant: messages that are on the way through the pipe are overlooked.
can_direct_write_early(s, id) ==
    s.id = id /\ send_buffer_empty(s) /\ s.dw_buffer = <<>> /\ s.type = "CONNECTED"

can_direct_write(s, id) == s.id = id /\ nomore_sending_data(s) /\ s.type = "CONNECTED"

\* The head of socket_server_send and socket_server_send_lowpriority: a
\* service that may write directly, and gets the lock, goes on to write.
\* A message for a socket that is gone is dropped, with no effect.
Send(v, id, low) ==
    LET s == slot[HASH_ID(id)]
        m == [from |-> v, n |-> th[v].n + 1, low |-> low]
        direct == ~low /\ can_direct_write(s, id) /\ s.lock = Nobody
    IN
    /\ poll # "abort"
    /\ low => v \in LowSenders
    /\ th[v].pc = "idle" /\ m.n <= MaxSends[v] /\ known[id] = "open" /\ IsSocket(s, id)
    /\ conn' = [conn EXCEPT ![id].sent = @ \cup {m}]
    /\ th' = [th EXCEPT ![v] = [pc |-> IF direct THEN "write" ELSE "inc", n |-> m.n, id |-> id,
                                cmd |-> IF low THEN "P" ELSE "D", msg |-> m]]
    /\ slot' = IF direct THEN [slot EXCEPT ![HASH_ID(id)].lock = v] ELSE slot
    /\ UNCHANGED <<alloc_id, pipe, poll, job, ev, known, cut>>

UnitsOf(m) == [u \in 1..Size |-> <<m, u>>]

\* Mutant: dw_offset is not set, and what the kernel took is written again.
DirectWriteAgain(v, n) ==
    LET i == HASH_ID(th[v].id)
        all == UnitsOf(th[v].msg)
    IN
    /\ poll # "abort"
    /\ th[v].pc = "write"
    /\ conn' = [conn EXCEPT ![slot[i].id].wire = @ \o SubSeq(all, 1, n)]
    /\ slot' = [slot EXCEPT ![i].dw_buffer = IF n = Size THEN <<>> ELSE all, ![i].lock = Nobody]
    /\ th' = [th EXCEPT ![v] = IF n = Size THEN Idle(@.n)
                               ELSE [@ EXCEPT !.pc = "inc", !.cmd = "W"]]
    /\ UNCHANGED <<alloc_id, pipe, poll, job, ev, known, cut>>

\* The direct write, of which the kernel takes n units (none when it fails);
\* the rest is left in dw_buffer.
DirectWrite(v, n) ==
    LET i == HASH_ID(th[v].id)
        all == UnitsOf(th[v].msg)
    IN
    /\ poll # "abort"
    /\ th[v].pc = "write"
    /\ conn' = [conn EXCEPT ![slot[i].id].wire = @ \o SubSeq(all, 1, n)]
    /\ slot' = [slot EXCEPT ![i].dw_buffer = SubSeq(all, n + 1, Size), ![i].lock = Nobody]
    /\ th' = [th EXCEPT ![v] = IF n = Size THEN Idle(@.n)
                               ELSE [@ EXCEPT !.pc = "inc", !.cmd = "W"]]
    /\ UNCHANGED <<alloc_id, pipe, poll, job, ev, known, cut>>

\* inc_sending_ref
IncSending(v) ==
    LET i == HASH_ID(th[v].id) IN
    /\ poll # "abort"
    /\ th[v].pc = "inc"
    /\ slot' = IF slot[i].tcp /\ slot[i].tag = th[v].id
                 THEN [slot EXCEPT ![i].sending = @ + 1] ELSE slot
    /\ th' = [th EXCEPT ![v].pc = "push"]
    /\ UNCHANGED <<alloc_id, pipe, poll, job, ev, known, conn, cut>>

\* the end of socket_server_send
SendRequest(v) ==
    /\ poll # "abort"
    /\ th[v].pc = "push"
    /\ Request(th[v].cmd, th[v].id, IF th[v].cmd = "W" THEN NoMsg ELSE th[v].msg, FALSE)
    /\ th' = [th EXCEPT ![v] = Idle(@.n)]
    /\ UNCHANGED <<slot, alloc_id, poll, job, ev, known, conn, cut>>

-----------------------------------------------------------------------------
(* send_buffer, when the kernel takes n units *)

\* dw_buffer goes before the high list
High(s) == s.dw_buffer \o s.high
Listed(s) == [s EXCEPT !.high = High(s), !.dw_buffer = <<>>]

\* The kernel takes the high list first, and the low list when that is empty.
Pending(s) == High(s) \o s.low

\* raise_uncomplete: the rest of a message of the low list of which a part was
\* written goes to the high list, which is empty
Raised(s) ==
    LET k == Size + 1 - Head(s.low)[2] IN
    IF s.low # <<>> /\ Head(s.low)[2] > 1
      THEN [s EXCEPT !.high = SubSeq(s.low, 1, k), !.low = SubSeq(s.low, k + 1, Len(s.low))]
      ELSE s

\* The lists after send_list for high and then for low
Written(s, n) ==
    LET k == Len(High(s))
        left == [s EXCEPT !.dw_buffer = <<>>,
                          !.high = SubSeq(High(s), n + 1, k),
                          !.low = IF n > k THEN SubSeq(@, n - k + 1, Len(@)) ELSE @]
    IN  IF n >= k THEN Raised(left) ELSE left

\* Step 4: nothing is left to be written
SendBuffer(s, n) ==
    LET w == Written(s, n) IN
    IF ~send_buffer_empty(w) THEN w
    ELSE IF w.type = "HALFCLOSE" THEN ForceClosed([w EXCEPT !.writing = FALSE])
    ELSE [w EXCEPT !.writing = FALSE]

\* conn when the kernel took n units
Took(s, n) == [conn EXCEPT ![s.id].wire = @ \o SubSeq(Pending(s), 1, n)]

\* The connection of s, which has come to c, is closed, and reported so.
Ends(s, c, drained) ==
    /\ conn' = [c EXCEPT ![s.id] = NoConn]
    /\ cut' = IF drained
                THEN cut \cup {m \in c[s.id].promise : <<m, Size>> \notin Range(c[s.id].wire)}
                ELSE cut
    /\ known' = [known EXCEPT ![s.id] = "none"]

-----------------------------------------------------------------------------
(* ctrl_cmd *)

\* The socket thread takes this command.
Takes(cmd) == poll = "ctrl" /\ pipe # <<>> /\ Head(pipe).cmd = cmd

Cmd == Head(pipe)
At == HASH_ID(Cmd.id)

\* The command is done with and leaves its slot as s.
Leaves(s) == slot' = [slot EXCEPT ![At] = s] /\ pipe' = Tail(pipe)

\* The socket thread goes on in poll with what it closes.
Goes(next, closing) == poll' = next /\ job' = closing

\* ctrl_cmd returns with the next command still to come, or with SOCKET_CLOSE
\* or SOCKET_ERR for the id of this one.
Continues == Goes("ctrl", NoJob)
Reported == Goes("clear", [NoJob EXCEPT !.id = Cmd.id])

\* open_socket: it fails, or is connecting, or is connected at once.
OpenSocket(type) ==
    /\ Takes("O")
    /\ Leaves(IF type = "INVALID" THEN [slot[At] EXCEPT !.type = type]
              ELSE NewFd(slot[At], Cmd.id, type))
    /\ IF type = "INVALID" THEN Reported ELSE Continues
    /\ known' = IF type = "CONNECTED" THEN [known EXCEPT ![Cmd.id] = "open"] ELSE known
    /\ UNCHANGED <<alloc_id, ev, th, conn, cut>>

\* resume_socket
ResumeSocket ==
    /\ Takes("R")
    /\ IF IsSocket(slot[At], Cmd.id) /\ slot[At].type = "PACCEPT"
         THEN /\ Leaves([slot[At] EXCEPT !.type = "CONNECTED"])
              /\ known' = [known EXCEPT ![Cmd.id] = "open"]
         ELSE Leaves(slot[At]) /\ UNCHANGED known
    /\ IF IsSocket(slot[At], Cmd.id) THEN Continues ELSE Reported
    /\ UNCHANGED <<alloc_id, ev, th, conn, cut>>

\* Mutant: the write event is enabled only if the list is not empty, and so
\* not for a rest in dw_buffer.
TriggerWriteListed ==
    /\ Takes("W")
    /\ Leaves(IF IsSocket(slot[At], Cmd.id) /\ ~send_buffer_empty(slot[At])
              THEN [slot[At] EXCEPT !.writing = TRUE] ELSE slot[At])
    /\ UNCHANGED <<alloc_id, poll, job, ev, th, known, conn, cut>>

\* trigger_write
TriggerWrite ==
    /\ Takes("W")
    /\ Leaves(IF IsSocket(slot[At], Cmd.id) THEN [slot[At] EXCEPT !.writing = TRUE]
              ELSE slot[At])
    /\ UNCHANGED <<alloc_id, poll, job, ev, th, known, conn, cut>>

\* send_socket: the message goes to the high list when both are empty
Appended(s, m) ==
    IF send_buffer_empty(s) /\ s.type = "CONNECTED"
      THEN [s EXCEPT !.high = UnitsOf(m), !.writing = TRUE]
    ELSE IF m.low THEN [s EXCEPT !.low = @ \o UnitsOf(m)]
    ELSE [s EXCEPT !.high = @ \o UnitsOf(m)]

\* dec_sending_ref
DecSending(s, id) == IF s.id = id /\ s.tcp THEN [s EXCEPT !.sending = @ - 1] ELSE s

SendSocket ==
    LET s == slot[At]
        takes == IsSocket(s, Cmd.id) /\ s.type \notin {"HALFCLOSE", "PACCEPT"}
    IN
    /\ Takes("D") \/ Takes("P")
    /\ Leaves(DecSending(IF takes THEN Appended(s, Cmd.msg) ELSE s, Cmd.id))
    /\ UNCHANGED <<alloc_id, poll, job, ev, th, known, conn, cut>>

\* close_socket of a socket that is gone
CloseNothing ==
    /\ Takes("K") /\ ~IsSocket(slot[At], Cmd.id)
    /\ Leaves(slot[At]) /\ Reported
    /\ UNCHANGED <<alloc_id, ev, th, known, conn, cut>>

\* Mutant: the messages in the lists are not looked at.
ClosesAtOnce(s, shutdown) == shutdown \/ s.sending = 0

\* the condition of force_close in close_socket
Closes(s, shutdown) == shutdown \/ nomore_sending_data(s)

\* close_socket, when the kernel takes n units.  send_buffer does nothing
\* while a service writes directly.
CloseSocket(n) ==
    LET s == slot[At]
        sends == s.lock = Nobody /\ ~nomore_sending_data(s)
        b == IF sends THEN SendBuffer(s, n) ELSE s
    IN
    /\ Takes("K") /\ IsSocket(s, Cmd.id)
    /\ n \in 0..(IF sends THEN Len(Pending(s)) ELSE 0)
    /\ \/ /\ b.type = "INVALID"
          /\ Leaves(b) /\ Reported
          /\ Ends(s, Took(s, n), TRUE)
       \/ /\ b.type # "INVALID" /\ Closes(b, Cmd.shutdown)
          /\ Leaves(Freed(b))
          /\ Goes("close", [id |-> Cmd.id, drained |-> ~Cmd.shutdown, next |-> "clear"])
          /\ conn' = Took(s, n) /\ UNCHANGED <<known, cut>>
       \/ /\ b.type # "INVALID" /\ ~Closes(b, Cmd.shutdown)
          /\ Leaves([b EXCEPT !.type = "HALFCLOSE"]) /\ Continues
          /\ conn' = Took(s, n) /\ UNCHANGED <<known, cut>>
    /\ UNCHANGED <<alloc_id, ev, th>>

\* ... when the write fails
CloseSocketError ==
    LET s == slot[At] IN
    /\ Takes("K") /\ IsSocket(s, Cmd.id) /\ s.lock = Nobody /\ Pending(s) # <<>>
    /\ Leaves(ForceClosed(Listed(s))) /\ Reported
    /\ Ends(s, conn, FALSE)
    /\ UNCHANGED <<alloc_id, ev, th>>

\* force_close, which has freed the lists, gets the lock.
CloseFd ==
    LET s == slot[HASH_ID(job.id)] IN
    /\ poll = "close" /\ s.lock = Nobody
    /\ slot' = [slot EXCEPT ![HASH_ID(job.id)] = Closed(@)]
    /\ Ends(s, conn, job.drained)
    /\ Goes(job.next, IF job.next = "clear" THEN [NoJob EXCEPT !.id = job.id] ELSE NoJob)
    /\ UNCHANGED <<alloc_id, pipe, ev, th>>

\* clear_closed_event, after SOCKET_CLOSE or SOCKET_ERR: no event is left for
\* the socket, if its slot was not taken since
ClearClosedEvent ==
    LET s == slot[HASH_ID(job.id)] IN
    /\ poll = "clear"
    /\ ev' = IF s.type = "INVALID" /\ s.id = job.id
               THEN {e \in ev : e.from # HASH_ID(job.id)} ELSE ev
    /\ Continues
    /\ UNCHANGED <<slot, alloc_id, pipe, th, known, conn, cut>>

CtrlCmd ==
    \/ \E type \in {"INVALID", "CONNECTING", "CONNECTED"} : OpenSocket(type)
    \/ ResumeSocket \/ TriggerWrite \/ SendSocket
    \/ CloseNothing \/ CloseSocketError \/ CloseFd \/ ClearClosedEvent
    \/ \E n \in 0..MaxUnits : CloseSocket(n)

-----------------------------------------------------------------------------
(* socket_server_poll *)

\* has_cmd finds the pipe empty, and checkctrl is reset.
NoCmd ==
    /\ poll = "ctrl" /\ pipe = <<>>
    /\ poll' = "rest"
    /\ UNCHANGED <<slot, alloc_id, pipe, job, ev, th, known, conn, cut>>

\* What epoll may report of s: EPOLLOUT when that is enabled; a peer that hung
\* up is reported as readable in any state.  An error is here a connection
\* that is readable and at its end, as poll does the same with both.
Reports(s) ==
    IF s.type \in {"INVALID", "RESERVE"} THEN {{}}
    ELSE {{}, {"read"}} \cup (IF s.writing THEN {{"write"}, {"read", "write"}} ELSE {})

\* sp_wait
Wait(what, accepting) ==
    /\ poll = "rest" /\ ev = {}
    /\ \A i \in Slots : what[i] \in Reports(slot[i])
    /\ accepting => FreeIds # {}
    /\ ev' = {[from |-> i, what |-> what[i]] : i \in {j \in Slots : what[j] # {}}}
             \cup {[from |-> Pipe, what |-> {"read"}] : k \in {1} \cap DOMAIN pipe}
             \cup {[from |-> Listen, what |-> {"read"}] : k \in {1 : b \in {accepting} \ {FALSE}}}
    /\ ev' # {}
    /\ poll' = "first"
    /\ UNCHANGED <<slot, alloc_id, pipe, job, th, known, conn, cut>>

\* poll after an event
Onward == IF poll = "first" THEN "ctrl" ELSE "rest"

\* The socket thread goes on to event e.
Dispatch(e) ==
    /\ poll \in {"first", "rest"}
    /\ e \in ev
    /\ UNCHANGED <<pipe, th>>

\* ... which it has then done with
Done(e) == Dispatch(e) /\ ev' = ev \ {e} /\ Goes(Onward, NoJob)

\* The event of the pipe, or of a socket that was closed since
Ignore(e) ==
    /\ Done(e)
    /\ e.from = Pipe \/ (e.from \in Slots /\ slot[e.from].type = "INVALID")
    /\ UNCHANGED <<slot, alloc_id, known, conn, cut>>

\* report_accept; without a free slot the connection is closed
ReportAccept(e) ==
    /\ Done(e)
    /\ e.from = Listen
    /\ \/ \E id \in Ids :
             /\ IsNextId(id)
             /\ slot' = [slot EXCEPT ![HASH_ID(id)] = NewFd(Reserved(@, id), id, "PACCEPT")]
             /\ alloc_id' = id
             /\ known' = [known EXCEPT ![id] = "accepted"]
       \/ FreeIds = {} /\ UNCHANGED <<slot, alloc_id, known>>
    /\ UNCHANGED <<conn, cut>>

\* report_connect
ReportConnect(e, ok) ==
    LET s == slot[e.from] IN
    /\ Done(e)
    /\ e.from \in Slots /\ s.type = "CONNECTING"
    /\ IF ok
         THEN /\ slot' = [slot EXCEPT ![e.from].type = "CONNECTED",
                                      ![e.from].writing = @ /\ ~nomore_sending_data(s)]
              /\ known' = [known EXCEPT ![s.id] = "open"]
              /\ UNCHANGED <<conn, cut>>
         ELSE /\ slot' = [slot EXCEPT ![e.from] = ForceClosed(@)]
              /\ Ends(s, conn, FALSE)
    /\ UNCHANGED alloc_id

\* The event of a closed socket whose slot was reserved since.  There is no fd:
\* reading fails, and force_close asserts that the slot is not reserved;
\* send_buffer asserts that wb_size is 0.
StaleEvent(e) ==
    /\ Dispatch(e) /\ ev' = ev \ {e}
    /\ e.from \in Slots /\ slot[e.from].type = "RESERVE"
    /\ Goes(IF e.what # {"write"} \/ slot[e.from].lost THEN "abort" ELSE Onward, NoJob)
    /\ UNCHANGED <<slot, alloc_id, known, conn, cut>>

\* An event of a connection that is past connecting
Transfers(e, what) ==
    /\ e.from \in Slots /\ slot[e.from].type \in {"PACCEPT", "CONNECTED", "HALFCLOSE"}
    /\ what \in e.what
    /\ UNCHANGED alloc_id

\* forward_message_tcp: data, which change nothing here; the same event is
\* dispatched again when it is writable, too
ForwardMessage(e) ==
    /\ Dispatch(e) /\ Transfers(e, "read") /\ Goes(Onward, NoJob)
    /\ ev' = (ev \ {e}) \cup (IF "write" \in e.what THEN {[e EXCEPT !.what = {"write"}]} ELSE {})
    /\ UNCHANGED <<slot, known, conn, cut>>

\* ... the end of the connection, or an error
ForwardEnd(e) ==
    /\ Dispatch(e) /\ Transfers(e, "read")
    /\ ev' = ev \ {e}
    /\ slot' = [slot EXCEPT ![e.from] = Freed(@)]
    /\ Goes("close", [id |-> slot[e.from].id, drained |-> FALSE, next |-> Onward])
    /\ UNCHANGED <<known, conn, cut>>

\* send_buffer, when the kernel takes n units
WriteEvent(e, n) ==
    LET s == slot[e.from]
        b == SendBuffer(s, n)
    IN
    /\ Done(e) /\ Transfers(e, "write") /\ "read" \notin e.what
    /\ s.lock = Nobody /\ n \in 0..Len(Pending(s))
    /\ slot' = [slot EXCEPT ![e.from] = b]
    /\ IF b.type = "INVALID" THEN Ends(s, Took(s, n), TRUE)
                             ELSE conn' = Took(s, n) /\ UNCHANGED <<known, cut>>

\* ... when the write fails
WriteError(e) ==
    /\ Done(e) /\ Transfers(e, "write") /\ "read" \notin e.what
    /\ slot[e.from].lock = Nobody /\ Pending(slot[e.from]) # <<>>
    /\ slot' = [slot EXCEPT ![e.from] = ForceClosed(Listed(@))]
    /\ Ends(slot[e.from], conn, FALSE)

\* ... while a service writes directly
WriteBlocked(e) ==
    /\ Done(e) /\ Transfers(e, "write") /\ "read" \notin e.what
    /\ slot[e.from].lock # Nobody
    /\ UNCHANGED <<slot, known, conn, cut>>

Event ==
    \E e \in ev :
        \/ Ignore(e) \/ ReportAccept(e) \/ StaleEvent(e)
        \/ \E ok \in BOOLEAN : ReportConnect(e, ok)
        \/ ForwardMessage(e) \/ ForwardEnd(e)
        \/ \E n \in 0..MaxUnits : WriteEvent(e, n)
        \/ WriteError(e) \/ WriteBlocked(e)

WaitAny ==
    \E what \in [Slots -> SUBSET {"read", "write"}], accepting \in BOOLEAN :
        Wait(what, accepting)

SocketThread == CtrlCmd \/ NoCmd \/ WaitAny \/ Event

\* the steps of a call that a service has begun
Sending(v) == (\E n \in 0..Size : DirectWrite(v, n)) \/ IncSending(v) \/ SendRequest(v)

Next ==
    \/ \E id \in Ids : Reserve(id) \/ Connect(id) \/ Start(id)
    \/ \E v \in Services, id \in Ids, b \in BOOLEAN : Close(v, id, b) \/ Send(v, id, b)
    \/ \E v \in Services : Sending(v)
    \/ SocketThread

Spec == Init /\ [][Next]_vars

\* Threads go on.  The peers read: a connection that has something to write is
\* reported writable, and the kernel takes a part of it, again and again.
FairSpec ==
    /\ Spec
    /\ \A v \in Services : WF_vars(Sending(v))
    /\ WF_vars(SocketThread)
    /\ \A i \in Slots :
           /\ SF_vars(\E what \in [Slots -> SUBSET {"read", "write"}] :
                          what[i] = {"write"} /\ \E b \in BOOLEAN : Wait(what, b))
           /\ SF_vars(\E e \in ev : e.from = i /\ \E n \in 1..MaxUnits : WriteEvent(e, n))

-----------------------------------------------------------------------------
(* Properties *)

Complete(id, m) == <<m, Size>> \in Range(conn[id].wire)

\* force_close has freed messages for id.
Lost(id) == slot[HASH_ID(id)].id = id /\ slot[HASH_ID(id)].lost

\* No message is cut by another one: the parts of a message that several
\* writes sent, by the service and by the socket thread, are next to each
\* other and in order (dw_buffer, raise_uncomplete).  After force_close has
\* freed the lists, and before it closes, a service can still write directly
\* behind half a message: this is up to then.
WireWhole ==
    \A id \in {j \in Ids : ~Lost(j)} : \A k \in DOMAIN conn[id].wire :
        LET u == conn[id].wire[k] IN
        IF u[2] > 1 THEN k > 1 /\ conn[id].wire[k - 1] = <<u[1], u[2] - 1>>
                    ELSE k = 1 \/ conn[id].wire[k - 1][2] = Size

\* Messages that one service sent with the same priority; n numbers them.
Alike(m, o) == m.from = o.from /\ m.low = o.low

\* The unit u is sent before the unit w, if their messages are alike.
Precedes(u, w) ==
    Alike(u[1], w[1]) => u[1].n < w[1].n \/ (u[1] = w[1] /\ u[2] < w[2])

\* A connection carries the messages that were sent to its id and no others,
\* each once, and those that a service sent with the same priority in the
\* order in which they were sent, without a gap (can_direct_write, send_socket)
\* up to the messages that force_close frees.
InOrder ==
    \A id \in Ids : \A k \in DOMAIN conn[id].wire :
        LET u == conn[id].wire[k] IN
        /\ u[1] \in conn[id].sent
        /\ \A j \in 1..k - 1 : Precedes(conn[id].wire[j], u)
        /\ \A m \in conn[id].sent :
               Alike(m, u[1]) /\ m.n < u[1].n => Complete(id, m) \/ Lost(id)

\* The messages for id that are in the pipe, or on the way to it
Underway(id) ==
    Cardinality({k \in DOMAIN pipe : pipe[k].id = id /\ pipe[k].cmd \in {"D", "P"}})
    + Cardinality({v \in Services : th[v].id = id /\ th[v].pc = "push" /\ th[v].cmd # "W"})

\* These assertions of socket_server.c cannot fail: the count that
\* dec_sending_ref lowers covers the messages underway; a slot is still
\* reserved, with empty lists, when new_fd takes it; a message of the low list
\* is never left incomplete there.
AssertsHold ==
    /\ TypeOK
    /\ \A i \in Slots :
           /\ slot[i].tcp => slot[i].sending >= Underway(slot[i].id)
           /\ slot[i].type \in {"INVALID", "RESERVE"} => send_buffer_empty(slot[i])
           /\ slot[i].low # <<>> => Head(slot[i].low)[2] = 1
    /\ \A k \in DOMAIN pipe :
           pipe[k].cmd = "O" =>
               LET s == slot[HASH_ID(pipe[k].id)]
               IN  s.type = "RESERVE" /\ s.id = pipe[k].id

\* No assertion ends the process: no event of a closed socket reaches a slot
\* that is reserved again (clear_closed_event).  The code does not keep this:
\* reserve_id can take the slot between ctrl_cmd, which closes the socket, and
\* clear_closed_event, which then does not know the event any more.
NeverAborts ==
    poll # "abort"

\* When a connection is closed because nothing is left to be sent, all that
\* the service that closed it had sent before is on the wire (close_socket).
Drained ==
    cut = {}

\* While nobody closes a connection all that is sent is written in the end:
\* no message is left in dw_buffer or in a list with the write event off
\* (enable_write, trigger_write).
Delivered ==
    <>[](\A id \in Ids : conn[id].closer = Nobody /\ poll # "abort" =>
            \A m \in conn[id].sent : Complete(id, m))

\* A socket that is half closed is closed, and reported so, later, as the
\* comment in resume_socket says.  The code does not keep this: send_socket
\* drops the message that a socket is half closed for, and after it nothing
\* closes the socket.
HalfCloseEnds ==
    \A i \in Slots : slot[i].type = "HALFCLOSE" ~> slot[i].type # "HALFCLOSE"
=============================================================================
