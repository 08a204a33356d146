------------------------------ MODULE GameGate ------------------------------
(***************************************************************************)
(* The client gate of game_server (GameGate.lua on skynet's gateserver).   *)
(*                                                                         *)
(* A client opens a socket (fd) and sends one handshake naming a username, *)
(* a handshake index and an hmac; afterwards it sends requests, each with a *)
(* session number.  A user may reconnect with a higher index and ask again *)
(* for a session whose response it did not get: the gate caches responses. *)
(*                                                                         *)
(* The gate is one skynet service.  A handler runs without interruption    *)
(* until it calls another service: do_auth yields in conf.auth_handler and *)
(* do_request in conf.request_handler, and other handlers run meanwhile.   *)
(* Each action below is the code between two such points.                  *)
(*                                                                         *)
(* A username holds a fresh subid, so it logs in once; the Lua record that *)
(* user_online[username] refers to lives on while a connection or a        *)
(* coroutine refers to it, so its fields are kept for every user and       *)
(* user_online[u] says where the name is in its life.  In the same way    *)
(* the response record p of do_request is named by the request that        *)
(* created it: response[u][s] refers to p[r].                              *)
(***************************************************************************)
EXTENDS Integers, FiniteSets

CONSTANTS
    Users,          \* usernames
    Fds,            \* socket ids, each opened once
    Sessions,       \* session numbers of requests
    MaxReqs,        \* bound: requests executed in a behaviour
    MaxHandshake,   \* bound: highest handshake index a client sends
    ExpiredNumber,  \* conf.expired_number
    None            \* nil

ASSUME GateAssumption ==
    /\ MaxReqs \in Nat /\ MaxHandshake \in Nat
    /\ ExpiredNumber \in Nat \ {0}
    /\ None \notin Users \cup Fds \cup Nat

VARIABLES
    user_online,  \* "new", "online" (has an entry) or "out" (entry removed)
    version,      \* u.version: handshake index of the last accepted auth
    index,        \* u.index: position of the next response in the cache
    ufd,          \* u.fd
    response,     \* u.response[session]: a request or None
    handshake,    \* the fds from which a handshake is expected
    connection,   \* connection[fd]: the user of an authenticated fd
    sock,         \* gateserver's and the socket thread's view of fd
    authing,      \* coroutines of do_auth waiting in conf.auth_handler
    p,            \* the response records, by request
    nreq,         \* requests created so far
    \* History, read by the properties only:
    conflicted,   \* (user, session) pairs that raised "Conflict session"
    completed     \* responses completed or sent again, per user

vars == <<user_online, version, index, ufd, response, handshake, connection,
          sock, authing, p, nreq, conflicted, completed>>

hist == <<conflicted, completed>>

Reqs == 1..MaxReqs

\* open: messages are dispatched; down: socketdriver.shutdown was called or
\* the peer left, queued messages are still dispatched; closing: closeclient
\* was called, messages are dropped; gone: handler.disconnect has run.
SockState == {"none", "open", "down", "closing", "gone"}

\* p = { return_fd, response, version, index }.  A version of 0 stands for
\* nil: handshake indexes start above 0.  ready: p[2] is not nil.
\* asked (the fd of the last request for p) and at (completed when p was
\* last completed or sent again) are history.
Response == [user : Users, sess : Sessions, fd : Fds \cup {None},
             ready : BOOLEAN, version : Nat, index : Nat,
             running : BOOLEAN, asked : Fds, at : Nat]

Auth == [user : Users, fd : Fds, idx : Nat]

TypeOK ==
    /\ user_online \in [Users -> {"new", "online", "out"}]
    /\ version \in [Users -> Nat]
    /\ index \in [Users -> Nat]
    /\ ufd \in [Users -> Fds \cup {None}]
    /\ response \in [Users -> [Sessions -> Reqs \cup {None}]]
    /\ handshake \subseteq Fds
    /\ connection \in [Fds -> Users \cup {None}]
    /\ sock \in [Fds -> SockState]
    /\ authing \subseteq Auth
    /\ nreq \in 0..MaxReqs
    /\ p \in [1..nreq -> Response]
    /\ conflicted \subseteq Users \X Sessions
    /\ completed \in [Users -> Nat]

Init ==
    /\ user_online = [u \in Users |-> "new"]
    /\ version = [u \in Users |-> 0]
    /\ index = [u \in Users |-> 0]
    /\ ufd = [u \in Users |-> None]
    /\ response = [u \in Users |-> [s \in Sessions |-> None]]
    /\ handshake = {}
    /\ connection = [f \in Fds |-> None]
    /\ sock = [f \in Fds |-> "none"]
    /\ authing = {}
    /\ nreq = 0
    /\ p = [r \in 1..0 |-> None]
    /\ conflicted = {}
    /\ completed = [u \in Users |-> 0]

-----------------------------------------------------------------------------
(* Sockets *)

\* gateserver dispatches a message of fd to handler.message.
Delivers(f) == sock[f] \in {"open", "down"}

\* gateserver.closeclient(fd)
CloseClient(f) ==
    [sock EXCEPT ![f] = IF Delivers(f) THEN "closing" ELSE @]

\* socketdriver.shutdown(fd), for the fd a user had before (None: no call)
Shutdown(old) ==
    [f \in Fds |-> IF f = old /\ sock[f] = "open" THEN "down" ELSE sock[f]]

Connect(f) ==
    /\ sock[f] = "none"
    /\ sock' = [sock EXCEPT ![f] = "open"]
    /\ handshake' = handshake \cup {f}
    /\ UNCHANGED <<user_online, version, index, ufd, response, connection,
                   authing, p, nreq, hist>>

\* handler.warning: too much data waits for fd
Warning(f) ==
    /\ sock[f] = "open"
    /\ sock' = Shutdown(f)
    /\ UNCHANGED <<user_online, version, index, ufd, response, handshake,
                   connection, authing, p, nreq, hist>>

\* handler.disconnect and handler.error.  The call of disconnect_handler
\* changes nothing in the gate; module AgentSession models it.
Disconnect(f) ==
    /\ sock[f] \in {"open", "down", "closing"}
    /\ sock' = [sock EXCEPT ![f] = "gone"]
    /\ handshake' = handshake \ {f}
    /\ ufd' = [u \in Users |-> IF u = connection[f] THEN None ELSE ufd[u]]
    /\ connection' = [connection EXCEPT ![f] = None]
    /\ UNCHANGED <<user_online, version, index, response, authing, p, nreq,
                   hist>>

-----------------------------------------------------------------------------
(* Users, called by Gamed *)

\* server.login; a username is new: it holds a fresh subid
Login(u) ==
    /\ user_online[u] = "new"
    /\ user_online' = [user_online EXCEPT ![u] = "online"]
    /\ UNCHANGED <<version, index, ufd, response, handshake, connection,
                   sock, authing, p, nreq, hist>>

\* server.logout
Logout(u) ==
    /\ user_online[u] = "online"
    /\ user_online' = [user_online EXCEPT ![u] = "out"]
    /\ IF ufd[u] # None
         THEN /\ sock' = CloseClient(ufd[u])
              /\ connection' = [connection EXCEPT ![ufd[u]] = None]
         ELSE UNCHANGED <<sock, connection>>
    /\ UNCHANGED <<version, index, ufd, response, handshake, authing, p,
                   nreq, hist>>

\* server.ip: the address of the user's connection, here whether there is one
HasIp(u) == user_online[u] = "online" /\ ufd[u] # None

-----------------------------------------------------------------------------
(* The handshake *)

\* What do_auth answers before it touches any state; good: the hmac matches.
AuthAnswer(u, idx, good) ==
    CASE user_online[u] # "online" -> "404"
      [] user_online[u] = "online" /\ idx <= version[u] -> "403"
      [] user_online[u] = "online" /\ idx > version[u] /\ ~good -> "401"
      [] OTHER -> "200"

\* The first package of fd is refused (a 400 is a 401 here: any error closes).
AuthRefuse(f, u, idx, good) ==
    /\ f \in handshake /\ Delivers(f)
    /\ AuthAnswer(u, idx, good) # "200"
    /\ sock' = CloseClient(f)
    /\ handshake' = handshake \ {f}
    /\ UNCHANGED <<user_online, version, index, ufd, response, connection,
                   authing, p, nreq, hist>>

\* do_auth up to the call of auth_handler, where it waits for the Agent;
\* handshake[fd] is still set while it waits.
AuthAccept(f, u, idx, good) ==
    /\ f \in handshake /\ Delivers(f)
    /\ AuthAnswer(u, idx, good) = "200"
    /\ sock' = Shutdown(ufd[u])
    /\ version' = [version EXCEPT ![u] = idx]
    /\ ufd' = [ufd EXCEPT ![u] = f]
    /\ connection' = [connection EXCEPT ![f] = u]
    /\ authing' = authing \cup {[user |-> u, fd |-> f, idx |-> idx]}
    /\ UNCHANGED <<user_online, index, response, handshake, p, nreq, hist>>

\* auth_handler returns, or the Agent raised an error (400, the fd is closed)
AuthReturn(a, ok) ==
    /\ a \in authing
    /\ authing' = authing \ {a}
    /\ handshake' = handshake \ {a.fd}
    /\ sock' = IF ok THEN sock ELSE CloseClient(a.fd)
    /\ UNCHANGED <<user_online, version, index, ufd, response, connection, p,
                   nreq, hist>>

-----------------------------------------------------------------------------
(* Requests *)

\* Mutant: handler.message does not look at handshake[fd].
AsksDuringHandshake(f, u) == Delivers(f) /\ u = connection[f]

\* handler.message passes a message of f to request, f belongs to user u
Asks(f, u) ==
    /\ Delivers(f) /\ f \notin handshake
    /\ u = connection[f]

\* the responses of row that retire_response looks at: p[1] == nil
Complete(row, pp) == {s \in Sessions : row[s] # None /\ pp[row[s]].fd = None}

\* Mutant: retire_response tests p[4] <= expired_number.
ExpiredEarly(row, pp) ==
    {s \in Complete(row, pp) : pp[row[s]].index <= ExpiredNumber}

\* of those, the ones it removes; the others move down by expired_number
Expired(row, pp) ==
    {s \in Complete(row, pp) : pp[row[s]].index < ExpiredNumber}

\* Mutant: retire_response renumbers what it removes, too.
KeptWithExpired(row, pp) == {row[s] : s \in Complete(row, pp)}

Kept(row, pp) == {row[s] : s \in Complete(row, pp) \ Expired(row, pp)}

\* The end of do_request for user u, whose cache is row, with records pp:
\* u.index is incremented and retire_response(u) runs.  m is the loop's max.
FinishRequest(u, row, pp) ==
    LET next == index[u] + 1
        moved == {pp[r].index - ExpiredNumber : r \in Kept(row, pp)}
    IN  /\ completed' = [completed EXCEPT ![u] = @ + 1]
        /\ \/ /\ next < 2 * ExpiredNumber
              /\ index' = [index EXCEPT ![u] = next]
              /\ response' = [response EXCEPT ![u] = row]
              /\ p' = pp
           \/ /\ next >= 2 * ExpiredNumber
              /\ \E m \in {0} \cup moved :
                   /\ \A i \in moved : i <= m
                   /\ index' = [index EXCEPT ![u] = m + 1]
              /\ response' = [response EXCEPT ![u] =
                    [s \in Sessions |->
                        IF s \in Expired(row, pp) THEN None ELSE row[s]]]
              /\ p' = [r \in DOMAIN pp |->
                    IF r \in Kept(row, pp)
                      THEN [pp[r] EXCEPT !.index = @ - ExpiredNumber]
                      ELSE pp[r]]

\* p = { fd }, a record for a request of u for session s that came on f
NewResponse(u, s, f) ==
    [user |-> u, sess |-> s, fd |-> f, ready |-> FALSE, version |-> 0,
     index |-> 0, running |-> TRUE, asked |-> f, at |-> 0]

\* Mutant: u.index is incremented before p[4] is set.
CompletedAfterIncrement(q, ok) ==
    [q EXCEPT !.fd = None, !.ready = ok, !.running = FALSE,
              !.version = version[q.user], !.index = index[q.user] + 1,
              !.at = completed[q.user] + 1]

\* p[2], p[3] and p[4] are set and p[1] is cleared at the end of do_request
Completed(q, ok) ==
    [q EXCEPT !.fd = None, !.ready = ok, !.running = FALSE,
              !.version = version[q.user], !.index = index[q.user],
              !.at = completed[q.user] + 1]

\* The session is in the cache and was used on the connection that is current
Reusable(u, s) ==
    response[u][s] # None /\ p[response[u][s]].version = version[u]

\* Mutant: a session used again on the current connection is called again,
\* whether it has a response or not.
RequestStartReusesRunning(f, u, s) ==
    /\ Asks(f, u)
    /\ response[u][s] = None \/ Reusable(u, s)
    /\ user_online[u] = "online"
    /\ nreq < MaxReqs
    /\ nreq' = nreq + 1
    /\ p' = [r \in 1..nreq + 1 |->
                IF r = nreq + 1 THEN NewResponse(u, s, f) ELSE p[r]]
    /\ response' = [response EXCEPT ![u][s] = nreq + 1]
    /\ UNCHANGED <<user_online, version, index, ufd, handshake, connection,
                   sock, authing, conflicted, completed>>

\* A new request, or a new use of a session whose response is ready: the
\* Agent is called and the coroutine waits.
RequestStart(f, u, s) ==
    /\ Asks(f, u)
    /\ response[u][s] = None \/ (Reusable(u, s) /\ p[response[u][s]].ready)
    /\ user_online[u] = "online"
    /\ nreq < MaxReqs
    /\ nreq' = nreq + 1
    /\ p' = [r \in 1..nreq + 1 |->
                IF r = nreq + 1 THEN NewResponse(u, s, f) ELSE p[r]]
    /\ response' = [response EXCEPT ![u][s] = nreq + 1]
    /\ UNCHANGED <<user_online, version, index, ufd, handshake, connection,
                   sock, authing, conflicted, completed>>

\* The same for a user that is logged out: request_handler fails at once.
RequestFail(f, u, s) ==
    LET q == Completed(NewResponse(u, s, f), FALSE)
        row == [response[u] EXCEPT ![s] = nreq + 1]
    IN  /\ Asks(f, u)
        /\ response[u][s] = None \/ (Reusable(u, s) /\ p[response[u][s]].ready)
        /\ user_online[u] # "online"
        /\ nreq < MaxReqs
        /\ nreq' = nreq + 1
        /\ FinishRequest(u, row,
              [r \in 1..nreq + 1 |-> IF r = nreq + 1 THEN q ELSE p[r]])
        /\ UNCHANGED <<user_online, version, ufd, handshake, connection, sock,
                       authing, conflicted>>

\* The session is used again on the current connection and has no response:
\* the record is dropped, error() ends the request and fd is closed.
RequestConflict(f, u, s) ==
    /\ Asks(f, u)
    /\ Reusable(u, s) /\ ~p[response[u][s]].ready
    /\ response' = [response EXCEPT ![u][s] = None]
    /\ conflicted' = conflicted \cup {<<u, s>>}
    /\ sock' = CloseClient(f)
    /\ UNCHANGED <<user_online, version, index, ufd, handshake, connection,
                   authing, p, nreq, completed>>

\* A client that reconnected asks again: the response goes to the new fd,
\* at once if it is ready, or when the waiting coroutine gets it.
RequestAgain(f, u, s) ==
    LET r == response[u][s]
        q == [p[r] EXCEPT !.fd = f, !.version = version[u],
                          !.index = index[u], !.asked = f]
    IN  /\ Asks(f, u)
        /\ r # None /\ ~Reusable(u, s)
        /\ \/ /\ ~q.ready
              /\ p' = [p EXCEPT ![r] = q]
              /\ UNCHANGED <<index, response, completed>>
           \/ /\ q.ready
              /\ FinishRequest(u, response[u],
                   [p EXCEPT ![r] = [q EXCEPT !.fd = None,
                                              !.at = completed[u] + 1]])
        /\ UNCHANGED <<user_online, version, ufd, handshake, connection, sock,
                       authing, nreq, conflicted>>

\* request_handler returns to the coroutine of r; ok: with a response (an
\* empty one and an error both leave p[2] nil).
RequestReturn(r, ok) ==
    /\ p[r].running
    /\ FinishRequest(p[r].user, response[p[r].user],
                     [p EXCEPT ![r] = Completed(@, ok)])
    /\ UNCHANGED <<user_online, version, ufd, handshake, connection, sock,
                   authing, nreq, conflicted>>

\* A package too short to hold a session, or no user for fd
RequestInvalid(f) ==
    /\ Delivers(f) /\ f \notin handshake
    /\ sock' = IF connection[f] # None THEN CloseClient(f) ELSE sock
    /\ UNCHANGED <<user_online, version, index, ufd, response, handshake,
                   connection, authing, p, nreq, hist>>

-----------------------------------------------------------------------------

Next ==
    \/ \E f \in Fds : Connect(f) \/ Warning(f) \/ Disconnect(f)
                        \/ RequestInvalid(f)
    \/ \E u \in Users : Login(u) \/ Logout(u)
    \/ \E f \in Fds, u \in Users, idx \in 0..MaxHandshake, good \in BOOLEAN :
          AuthRefuse(f, u, idx, good) \/ AuthAccept(f, u, idx, good)
    \/ \E a \in authing, ok \in BOOLEAN : AuthReturn(a, ok)
    \/ \E f \in Fds, u \in Users, s \in Sessions :
          \/ RequestStart(f, u, s) \/ RequestFail(f, u, s)
          \/ RequestConflict(f, u, s) \/ RequestAgain(f, u, s)
    \/ \E r \in 1..nreq, ok \in BOOLEAN : RequestReturn(r, ok)

Spec == Init /\ [][Next]_vars

-----------------------------------------------------------------------------
(* Properties *)

\* A response can only be sent to its own user: the return fd of a response
\* record (the fd do_request sends to) is never an fd that connection[fd]
\* gives to another user, whatever reconnections, double handshakes and
\* logouts happened while the request was with the Agent.
ReturnFdOwned ==
    \A r \in 1..nreq : p[r].fd # None =>
        connection[p[r].fd] \in {None, p[r].user}

\* retire_response keeps the numbering of the cache bounded and consistent:
\* u.index stays below 2 * expired_number and is above the index of every
\* response that is complete and cached.
CacheIndex ==
    \A u \in Users :
        /\ index[u] < 2 * ExpiredNumber
        /\ \A s \in Complete(response[u], p) :
              p[response[u][s]].index < index[u]

\* A request is with the Agent at most once for a user and session, unless
\* the client itself asked twice on one connection ("Conflict session"):
\* reconnecting, asking again and retire_response never forget a request
\* that is still running.
NoSecondRun ==
    \A r1, r2 \in 1..nreq :
        (/\ p[r1].running /\ p[r2].running
         /\ p[r1].user = p[r2].user /\ p[r1].sess = p[r2].sess)
           => r1 = r2 \/ <<p[r1].user, p[r1].sess>> \in conflicted

\* conf.expired_number, "the number of the response message cached after
\* sending out": retire_response removes a response only after that many
\* later ones of the user, and never one that is being sent.
RetiredLate ==
    \A u \in Users, s \in Sessions :
        LET r == response[u][s] IN
        (r # None /\ p'[r].fd = None /\ p'[r].ready /\ response'[u][s] = None)
           => completed'[u] - p'[r].at >= ExpiredNumber

RetireKeepsExpiredNumber == [][RetiredLate]_vars

\* What the comment in do_request says of its reuse branch, "session can be
\* reuse in the same connection": a cached response is given up for a new
\* request only if it was last asked for on the fd the new request came on.
ReusedOnSameFd ==
    \A u \in Users, s \in Sessions :
        LET r == response[u][s]
            n == response'[u][s]
        IN  (r # None /\ n # None /\ n # r) => p[r].asked = p'[n].asked

ReuseSameConnection == [][ReusedOnSameFd]_vars

\* What the API comment says of server.ip, "return ip when connection
\* establish, or nil": server.ip finds the connection of a user that is
\* logged in while some open fd is bound to it.  The code does not keep this:
\* handler.disconnect of an old fd clears u.fd of the new one.
IpWhenConnected ==
    \A u \in Users, f \in Fds :
        (user_online[u] = "online" /\ connection[f] = u /\ sock[f] = "open")
           => HasIp(u)

\* What the comment above do_auth says, "atomic , no yield": no two
\* handshakes of one fd are in progress at the same time.  The code does not
\* keep this: auth_handler waits for the Agent.
AuthAtomic == \A a, b \in authing : a.fd = b.fd => a = b

=============================================================================
