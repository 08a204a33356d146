--------------------------- MODULE GameGateProofs ---------------------------
(* Invariants of GameGate for all users, sockets, sessions and bounds. *)
EXTENDS GameGate, TLAPS

\* u.response[session] refers to a record of that user and session.
CacheRefs ==
    \A u \in Users, s \in Sessions : response[u][s] # None =>
        /\ response[u][s] \in 1..nreq
        /\ p[response[u][s]].user = u
        /\ p[response[u][s]].sess = s

\* A return fd has passed its handshake and belongs to the user or to nobody.
ReturnFds ==
    \A r \in 1..nreq : p[r].fd # None =>
        /\ p[r].fd \notin handshake
        /\ sock[p[r].fd] # "none"
        /\ connection[p[r].fd] \in {None, p[r].user}

\* A request with the Agent keeps its return fd, has no response yet, and is
\* the cached one unless its session conflicted.
Running ==
    \A r \in 1..nreq : p[r].running =>
        /\ p[r].fd # None /\ ~p[r].ready
        /\ \/ response[p[r].user][p[r].sess] = r
           \/ <<p[r].user, p[r].sess>> \in conflicted

\* The cache never believes a response older than it is.
CacheAge ==
    \A u \in Users : \A s \in Complete(response[u], p) :
        index[u] - p[response[u][s]].index
           <= completed[u] - p[response[u][s]].at + 1

GateInv ==
    TypeOK /\ CacheRefs /\ ReturnFds /\ Running /\ CacheIndex /\ CacheAge

-----------------------------------------------------------------------------
(* The end of do_request *)

\* What FinishRequest needs: row is a well formed cache of u over the records
\* pp of n requests, and no complete response in it is newer than u.index.
Finishable(u, row, pp, n) ==
    /\ u \in Users
    /\ n \in 0..MaxReqs
    /\ row \in [Sessions -> Reqs \cup {None}]
    /\ pp \in [1..n -> Response]
    /\ \A s \in Sessions : row[s] # None =>
          /\ row[s] \in 1..n
          /\ pp[row[s]].user = u
          /\ pp[row[s]].sess = s
    /\ \A s \in Complete(row, pp) :
          /\ pp[row[s]].index <= index[u]
          /\ index[u] - pp[row[s]].index <= completed[u] + 1 - pp[row[s]].at

\* What it leaves: only indexes of u's records change, a response is removed
\* only when it is complete and expired_number others came after it, and the
\* numbering of the cache of u is consistent again.
Finished(u, row, pp, n) ==
    /\ index' \in [Users -> Nat]
    /\ completed' = [completed EXCEPT ![u] = @ + 1]
    /\ response' \in [Users -> [Sessions -> Reqs \cup {None}]]
    /\ p' \in [1..n -> Response]
    /\ \A v \in Users \ {u} : index'[v] = index[v] /\ response'[v] = response[v]
    /\ index'[u] < 2 * ExpiredNumber
    /\ \A r \in 1..n :
          /\ p'[r].user = pp[r].user /\ p'[r].sess = pp[r].sess
          /\ p'[r].fd = pp[r].fd /\ p'[r].ready = pp[r].ready
          /\ p'[r].running = pp[r].running
          /\ p'[r].at = pp[r].at
          /\ pp[r].user # u => p'[r].index = pp[r].index
    /\ \A s \in Sessions :
          \/ response'[u][s] = row[s]
          \/ /\ response'[u][s] = None
             /\ row[s] # None
             /\ pp[row[s]].fd = None
             /\ pp[row[s]].index < index[u]
             /\ completed'[u] - pp[row[s]].at >= ExpiredNumber
    /\ \A s \in Complete(response'[u], p') :
          /\ p'[response'[u][s]].index < index'[u]
          /\ index'[u] - p'[response'[u][s]].index
                <= completed'[u] - p'[response'[u][s]].at + 1

\* FinishRequest (u.index is incremented, retire_response runs) does what
\* Finished says, for every expired_number.
LEMMA FinishLemma ==
    ASSUME TypeOK, CacheIndex,
           NEW u, NEW row, NEW pp, NEW n,
           Finishable(u, row, pp, n), FinishRequest(u, row, pp)
    PROVE  Finished(u, row, pp, n)
<1> DEFINE next == index[u] + 1
           moved == {pp[r].index - ExpiredNumber : r \in Kept(row, pp)}
<1>1. /\ ExpiredNumber \in Nat \ {0} /\ MaxReqs \in Nat /\ None \notin Reqs
      /\ index \in [Users -> Nat] /\ completed \in [Users -> Nat]
      /\ response \in [Users -> [Sessions -> Reqs \cup {None}]]
      /\ index[u] \in Nat /\ index[u] < 2 * ExpiredNumber
      /\ completed[u] \in Nat
  BY GateAssumption DEF TypeOK, CacheIndex, Finishable, Reqs
<1>2. /\ u \in Users /\ n \in 0..MaxReqs /\ pp \in [1..n -> Response]
      /\ row \in [Sessions -> Reqs \cup {None}]
  BY DEF Finishable
<1>3. \A r \in 1..n : pp[r].index \in Nat /\ pp[r].at \in Nat
  BY <1>2 DEF Response
<1>4. completed' = [completed EXCEPT ![u] = @ + 1]
  BY DEF FinishRequest
<1>5. CASE next < 2 * ExpiredNumber /\ index' = [index EXCEPT ![u] = next]
             /\ response' = [response EXCEPT ![u] = row] /\ p' = pp
  <2>1. \A s \in Complete(row, pp) : row[s] \in 1..n
    BY DEF Complete, Finishable
  <2>2. index'[u] = next /\ response'[u] = row /\ completed'[u] = completed[u] + 1
    BY <1>1, <1>2, <1>4, <1>5
  <2>3. \A s \in Complete(response'[u], p') :
          /\ p'[response'[u][s]].index < index'[u]
          /\ index'[u] - p'[response'[u][s]].index
                <= completed'[u] - p'[response'[u][s]].at + 1
    <3>1. Complete(response'[u], p') = Complete(row, pp)
      BY <1>5, <2>2
    <3> SUFFICES ASSUME NEW s \in Complete(response'[u], p')
                 PROVE  /\ p'[response'[u][s]].index < index'[u]
                        /\ index'[u] - p'[response'[u][s]].index
                           <= completed'[u] - p'[response'[u][s]].at + 1
      OBVIOUS
    <3>3. s \in Complete(row, pp) /\ p'[response'[u][s]] = pp[row[s]]
      BY <1>5, <2>2, <3>1
    <3>2. /\ pp[row[s]].index \in Nat /\ pp[row[s]].at \in Nat
          /\ pp[row[s]].index <= index[u]
          /\ index[u] - pp[row[s]].index <= completed[u] + 1 - pp[row[s]].at
      BY <1>3, <2>1, <3>3 DEF Finishable
    <3> QED BY <1>1, <2>2, <3>2, <3>3
  <2> QED
    BY <1>1, <1>2, <1>4, <1>5, <2>2, <2>3 DEF Finished
<1>6. CASE /\ next >= 2 * ExpiredNumber
           /\ \E m \in {0} \cup moved :
                /\ \A i \in moved : i <= m
                /\ index' = [index EXCEPT ![u] = m + 1]
           /\ response' = [response EXCEPT ![u] =
                 [s \in Sessions |->
                     IF s \in Expired(row, pp) THEN None ELSE row[s]]]
           /\ p' = [r \in DOMAIN pp |->
                 IF r \in Kept(row, pp)
                   THEN [pp[r] EXCEPT !.index = @ - ExpiredNumber]
                   ELSE pp[r]]
  <2>1. PICK m \in {0} \cup moved :
                /\ \A i \in moved : i <= m
                /\ index' = [index EXCEPT ![u] = m + 1]
    BY <1>6
  <2>2. \A s \in Complete(row, pp) : s \in Sessions /\ row[s] \in 1..n
    BY DEF Complete, Finishable
  <2>3. \A r \in Kept(row, pp) :
          /\ r \in 1..n
          /\ pp[r].user = u
          /\ pp[r].fd = None
          /\ pp[r].index >= ExpiredNumber
          /\ pp[r].index <= index[u]
          /\ index[u] - pp[r].index <= completed[u] + 1 - pp[r].at
    BY <1>1, <1>3, <2>2 DEF Kept, Complete, Expired, Finishable
  <2>4. \A i \in moved : i \in Nat /\ i <= index[u] - ExpiredNumber
    BY <1>1, <1>3, <2>3
  <2>5. m \in Nat /\ (m = 0 \/ m <= index[u] - ExpiredNumber)
    BY <2>4
  <2>6. index'[u] = m + 1 /\ completed'[u] = completed[u] + 1
    BY <1>1, <1>2, <1>4, <2>1
  <2>7. \A s \in Sessions : response'[u][s] =
            IF s \in Expired(row, pp) THEN None ELSE row[s]
    BY <1>1, <1>2, <1>6
  <2>8. /\ DOMAIN pp = 1..n
        /\ \A r \in 1..n : p'[r] = IF r \in Kept(row, pp)
              THEN [pp[r] EXCEPT !.index = @ - ExpiredNumber] ELSE pp[r]
    BY <1>2, <1>6
  <2>9. \A r \in 1..n :
          /\ p'[r] \in Response
          /\ p'[r].user = pp[r].user /\ p'[r].sess = pp[r].sess
          /\ p'[r].fd = pp[r].fd /\ p'[r].ready = pp[r].ready
          /\ p'[r].running = pp[r].running
          /\ p'[r].at = pp[r].at
          /\ p'[r].index = IF r \in Kept(row, pp)
                THEN pp[r].index - ExpiredNumber ELSE pp[r].index
    <3> SUFFICES ASSUME NEW r \in 1..n
                 PROVE  /\ p'[r] \in Response
                        /\ p'[r].user = pp[r].user /\ p'[r].sess = pp[r].sess
                        /\ p'[r].fd = pp[r].fd /\ p'[r].ready = pp[r].ready
                        /\ p'[r].running = pp[r].running
                        /\ p'[r].at = pp[r].at
                        /\ p'[r].index = IF r \in Kept(row, pp)
                              THEN pp[r].index - ExpiredNumber
                              ELSE pp[r].index
      OBVIOUS
    <3>1. pp[r] \in Response
      BY <1>2
    <3>2. CASE r \notin Kept(row, pp)
      BY <2>8, <3>1, <3>2
    <3>3. CASE r \in Kept(row, pp)
      <4> DEFINE i == pp[r].index - ExpiredNumber
      <4>0. i \in Nat
        BY <1>1, <1>3, <2>3, <3>3
      <4>1. p'[r] = [pp[r] EXCEPT !.index = i]
        BY <2>8, <3>3, Zenon
      <4> HIDE DEF i
      <4>2. /\ p'[r] \in Response /\ p'[r].index = i
            /\ p'[r].user = pp[r].user /\ p'[r].sess = pp[r].sess
            /\ p'[r].fd = pp[r].fd /\ p'[r].ready = pp[r].ready
            /\ p'[r].running = pp[r].running /\ p'[r].at = pp[r].at
        BY <3>1, <4>0, <4>1 DEF Response
      <4> QED BY <3>3, <4>2 DEF i
    <3> QED BY <3>2, <3>3
  <2>10. p' \in [1..n -> Response]
    BY <1>6, <2>8, <2>9
  <2>11. \A s \in Sessions :
          \/ response'[u][s] = row[s]
          \/ /\ response'[u][s] = None
             /\ row[s] # None
             /\ pp[row[s]].fd = None
             /\ pp[row[s]].index < index[u]
             /\ completed'[u] - pp[row[s]].at >= ExpiredNumber
    <3> SUFFICES ASSUME NEW s \in Expired(row, pp)
                 PROVE  /\ row[s] # None
                        /\ pp[row[s]].fd = None
                        /\ pp[row[s]].index < index[u]
                        /\ completed'[u] - pp[row[s]].at >= ExpiredNumber
      BY <2>7
    <3>1. /\ s \in Complete(row, pp) /\ row[s] \in 1..n
          /\ row[s] # None /\ pp[row[s]].fd = None
          /\ pp[row[s]].index < ExpiredNumber
          /\ pp[row[s]].index \in Nat /\ pp[row[s]].at \in Nat
          /\ index[u] - pp[row[s]].index <= completed[u] + 1 - pp[row[s]].at
      BY <1>3, <2>2 DEF Expired, Complete, Finishable
    <3> QED BY <1>1, <1>6, <2>6, <3>1
  <2>12. \A s \in Complete(response'[u], p') :
          /\ p'[response'[u][s]].index < index'[u]
          /\ index'[u] - p'[response'[u][s]].index
                <= completed'[u] - p'[response'[u][s]].at + 1
    <3> SUFFICES ASSUME NEW s \in Complete(response'[u], p')
                 PROVE  /\ p'[row[s]].index < index'[u]
                        /\ index'[u] - p'[row[s]].index
                              <= completed'[u] - p'[row[s]].at + 1
                        /\ response'[u][s] = row[s]
      OBVIOUS
    <3>1. s \in Sessions /\ response'[u][s] # None /\ response'[u][s] = row[s]
      BY <2>7 DEF Complete
    <3>2. row[s] \in 1..n
      BY <3>1 DEF Finishable
    <3>3. s \in Complete(row, pp) /\ s \notin Expired(row, pp)
      BY <2>7, <2>9, <3>1, <3>2 DEF Complete
    <3>4. row[s] \in Kept(row, pp)
      BY <3>3 DEF Kept
    <3>5. /\ p'[row[s]].index = pp[row[s]].index - ExpiredNumber
          /\ p'[row[s]].at = pp[row[s]].at
          /\ p'[row[s]].index \in moved
      BY <2>9, <3>2, <3>4
    <3>6. p'[row[s]].index <= m
      BY <2>1, <3>5
    <3>7. /\ pp[row[s]].index \in Nat /\ pp[row[s]].at \in Nat
          /\ pp[row[s]].index >= ExpiredNumber
          /\ pp[row[s]].index <= index[u]
          /\ index[u] - pp[row[s]].index <= completed[u] + 1 - pp[row[s]].at
      BY <1>3, <2>3, <3>2, <3>4
    <3> QED BY <1>1, <1>6, <2>5, <2>6, <3>1, <3>5, <3>6, <3>7
  <2>13. index'[u] < 2 * ExpiredNumber
    BY <1>1, <2>5, <2>6
  <2>14. index' \in [Users -> Nat]
    <3>1. m + 1 \in Nat
      BY <2>5
    <3> QED BY <1>1, <2>1, <3>1
  <2>15. response' \in [Users -> [Sessions -> Reqs \cup {None}]]
    BY <1>1, <1>2, <1>6
  <2>16. \A v \in Users \ {u} : index'[v] = index[v] /\ response'[v] = response[v]
    BY <1>1, <1>6, <2>1
  <2>17. \A r \in 1..n : pp[r].user # u => p'[r].index = pp[r].index
    BY <2>3, <2>9
  <2> QED
    BY <1>4, <2>9, <2>10, <2>11, <2>12, <2>13, <2>14, <2>15, <2>16, <2>17
    DEF Finished
<1> QED
  BY <1>5, <1>6 DEF FinishRequest

-----------------------------------------------------------------------------
(* The inductive invariant *)

\* The empty gate satisfies the inductive invariant.
LEMMA InitGateInv == Init => GateInv
<1> SUFFICES ASSUME Init PROVE GateInv
  OBVIOUS
<1>1. TypeOK
  BY GateAssumption DEF Init, TypeOK, Reqs, SockState
<1>2. CacheRefs /\ ReturnFds /\ Running
  BY DEF Init, CacheRefs, ReturnFds, Running
<1>3. \A u \in Users : Complete(response[u], p) = {}
  BY DEF Init, Complete
<1>4. CacheIndex /\ CacheAge
  BY <1>3, GateAssumption DEF Init, CacheIndex, CacheAge
<1> QED
  BY <1>1, <1>2, <1>4 DEF GateInv

\* A step that leaves the records and the caches alone keeps their part of
\* the invariant.
LEMMA QuietStep ==
    ASSUME GateInv, UNCHANGED <<index, response, p, nreq, hist>>
    PROVE  CacheRefs' /\ Running' /\ CacheIndex' /\ CacheAge'
<1>1. \A u : Complete(response[u], p)' = Complete(response[u], p)
  BY DEF Complete, hist
<1> QED
  BY <1>1 DEF GateInv, CacheRefs, Running, CacheIndex, CacheAge, hist

\* A socket that is opened, closed or reported slow keeps the invariant: only
\* its own connection and handshake change.
LEMMA SocketStep ==
    ASSUME GateInv, NEW f \in Fds,
           Connect(f) \/ Warning(f) \/ Disconnect(f) \/ RequestInvalid(f)
    PROVE  GateInv'
<1>1. TypeOK'
  <2>1. CASE Connect(f)
    BY <2>1 DEF GateInv, TypeOK, Connect, SockState, hist
  <2>2. CASE Warning(f)
    BY <2>2 DEF GateInv, TypeOK, Warning, Shutdown, SockState, hist
  <2>3. CASE Disconnect(f)
    BY <2>3 DEF GateInv, TypeOK, Disconnect, SockState, hist
  <2>4. CASE RequestInvalid(f)
    BY <2>4 DEF GateInv, TypeOK, RequestInvalid, CloseClient, Delivers,
                SockState, hist
  <2> QED BY <2>1, <2>2, <2>3, <2>4
<1>2. ReturnFds'
  <2>1. CASE Connect(f)
    BY <2>1 DEF GateInv, TypeOK, ReturnFds, Connect, Response
  <2>2. CASE Warning(f)
    BY <2>2 DEF GateInv, TypeOK, ReturnFds, Warning, Shutdown, Response
  <2>3. CASE Disconnect(f)
    BY <2>3 DEF GateInv, TypeOK, ReturnFds, Disconnect, Response
  <2>4. CASE RequestInvalid(f)
    BY <2>4 DEF GateInv, TypeOK, ReturnFds, RequestInvalid, CloseClient,
                Delivers, Response
  <2> QED BY <2>1, <2>2, <2>3, <2>4
<1>3. UNCHANGED <<index, response, p, nreq, hist>>
  BY DEF Connect, Warning, Disconnect, RequestInvalid
<1> QED
  BY <1>1, <1>2, <1>3, QuietStep DEF GateInv

\* server.login and server.logout keep the invariant.
LEMMA UserStep ==
    ASSUME GateInv, NEW u \in Users, Login(u) \/ Logout(u)
    PROVE  GateInv'
<1>1. CASE Login(u)
  <2>1. TypeOK'
    BY <1>1 DEF GateInv, TypeOK, Login, hist
  <2>2. ReturnFds'
    BY <1>1 DEF GateInv, ReturnFds, Login
  <2>3. UNCHANGED <<index, response, p, nreq, hist>>
    BY <1>1 DEF Login
  <2> QED BY <2>1, <2>2, <2>3, QuietStep DEF GateInv
<1>2. CASE Logout(u)
  <2>1. /\ sock' \in [Fds -> SockState]
        /\ \A f \in Fds : sock'[f] = "none" => sock[f] = "none"
        /\ connection' \in [Fds -> Users \cup {None}]
        /\ \A f \in Fds : connection'[f] \in {None, connection[f]}
    <3>1. CASE ufd[u] = None
      BY <1>2, <3>1 DEF GateInv, TypeOK, Logout
    <3>2. CASE ufd[u] # None
      <4>1. ufd[u] \in Fds
        BY <3>2 DEF GateInv, TypeOK
      <4> QED
        BY <1>2, <3>2, <4>1 DEF GateInv, TypeOK, Logout, CloseClient,
                                Delivers, SockState
    <3> QED BY <3>1, <3>2
  <2>2. TypeOK'
    BY <1>2, <2>1 DEF GateInv, TypeOK, Logout, hist
  <2>3. ReturnFds'
    BY <1>2, <2>1 DEF GateInv, TypeOK, ReturnFds, Logout, Response
  <2>4. UNCHANGED <<index, response, p, nreq, hist>>
    BY <1>2 DEF Logout
  <2> QED BY <2>2, <2>3, <2>4, QuietStep DEF GateInv
<1> QED BY <1>1, <1>2

\* A handshake package that is refused, or that goes to the Agent, keeps the
\* invariant.
LEMMA AuthStep ==
    ASSUME GateInv, NEW f \in Fds, NEW u \in Users,
           NEW idx \in 0..MaxHandshake, NEW good \in BOOLEAN,
           AuthRefuse(f, u, idx, good) \/ AuthAccept(f, u, idx, good)
    PROVE  GateInv'
<1>1. idx \in Nat
  BY GateAssumption
<1>2. TypeOK'
  <2>1. CASE AuthRefuse(f, u, idx, good)
    BY <2>1 DEF GateInv, TypeOK, AuthRefuse, CloseClient, Delivers, SockState,
                hist
  <2>2. CASE AuthAccept(f, u, idx, good)
    BY <1>1, <2>2 DEF GateInv, TypeOK, AuthAccept, Shutdown, SockState, Auth,
                      hist
  <2> QED BY <2>1, <2>2
<1>3. ReturnFds'
  <2>1. CASE AuthRefuse(f, u, idx, good)
    BY <2>1 DEF GateInv, TypeOK, ReturnFds, AuthRefuse, CloseClient, Delivers,
                Response
  <2>2. CASE AuthAccept(f, u, idx, good)
    BY <2>2 DEF GateInv, TypeOK, ReturnFds, AuthAccept, Shutdown, Response
  <2> QED BY <2>1, <2>2
<1>4. UNCHANGED <<index, response, p, nreq, hist>>
  BY DEF AuthRefuse, AuthAccept
<1> QED
  BY <1>2, <1>3, <1>4, QuietStep DEF GateInv

\* The answer of the Agent to a handshake keeps the invariant, whatever
\* happened to the user and to the fd meanwhile.
LEMMA AuthReturnStep ==
    ASSUME GateInv, NEW a \in authing, NEW ok \in BOOLEAN, AuthReturn(a, ok)
    PROVE  GateInv'
<1>1. a.fd \in Fds
  BY DEF GateInv, TypeOK, Auth
<1>2. TypeOK'
  BY <1>1 DEF GateInv, TypeOK, AuthReturn, CloseClient, Delivers, SockState,
              hist
<1>3. ReturnFds'
  BY <1>1 DEF GateInv, TypeOK, ReturnFds, AuthReturn, CloseClient, Delivers,
              Response
<1>4. UNCHANGED <<index, response, p, nreq, hist>>
  BY DEF AuthReturn
<1> QED
  BY <1>2, <1>3, <1>4, QuietStep DEF GateInv

\* The three ways a request ends (it returns, fails at once, or is answered
\* from the cache) keep the invariant: pp are the records with the one of
\* this request completed, row is the cache of its user.
LEMMA FinishStep ==
    ASSUME GateInv, NEW u, NEW row, NEW pp, NEW n,
           Finishable(u, row, pp, n), FinishRequest(u, row, pp),
           n >= nreq, nreq' = n,
           \A r \in 1..nreq : p[r].user # u => pp[r] = p[r],
           \A r \in 1..n : pp[r].fd # None =>
               /\ pp[r].fd \notin handshake
               /\ sock[pp[r].fd] # "none"
               /\ connection[pp[r].fd] \in {None, pp[r].user},
           \A r \in 1..n : pp[r].running =>
               /\ pp[r].fd # None /\ ~pp[r].ready
               /\ \/ pp[r].user = u /\ row[pp[r].sess] = r
                  \/ pp[r].user # u /\ response[pp[r].user][pp[r].sess] = r
                  \/ <<pp[r].user, pp[r].sess>> \in conflicted,
           \A t \in Sessions : response[u][t] # None =>
               \/ /\ row[t] = response[u][t]
                  /\ \/ p[row[t]].fd # None
                     \/ pp[row[t]].at = p[row[t]].at
               \/ row[t] # None /\ pp[row[t]].index = index[u],
           UNCHANGED <<user_online, version, ufd, handshake, connection, sock,
                       authing, conflicted>>
    PROVE  GateInv' /\ RetiredLate
<1>1. Finished(u, row, pp, n)
  BY FinishLemma DEF GateInv
<1>2. u \in Users /\ n \in 0..MaxReqs /\ pp \in [1..n -> Response]
  BY DEF Finishable
<1>3. \A r \in 1..n :
        /\ p'[r].user = pp[r].user /\ p'[r].sess = pp[r].sess
        /\ p'[r].fd = pp[r].fd /\ p'[r].ready = pp[r].ready
        /\ p'[r].running = pp[r].running /\ p'[r].at = pp[r].at
        /\ pp[r].user # u => p'[r].index = pp[r].index
        /\ pp[r].user \in Users /\ pp[r].sess \in Sessions
        /\ pp[r].fd \in Fds \cup {None}
  BY <1>1, <1>2 DEF Finished, Response
<1>4. \A v \in Users \ {u} : index'[v] = index[v] /\ response'[v] = response[v]
                              /\ completed'[v] = completed[v]
  BY <1>1, <1>2 DEF Finished, GateInv, TypeOK
<1>5. TypeOK'
  <2>1. completed' \in [Users -> Nat]
    BY <1>1, <1>2 DEF Finished, GateInv, TypeOK
  <2> QED
    BY <1>1, <1>2, <2>1 DEF Finished, GateInv, TypeOK
<1>6. \A v \in Users \ {u}, s \in Sessions : response[v][s] # None =>
        /\ response[v][s] \in 1..nreq /\ response[v][s] \in 1..n
        /\ pp[response[v][s]] = p[response[v][s]]
        /\ p[response[v][s]].user = v
        /\ p[response[v][s]].sess = s
  <2>1. nreq \in Nat /\ n \in Nat
    BY <1>2, GateAssumption DEF GateInv, TypeOK
  <2> QED BY <2>1 DEF GateInv, CacheRefs
<1>7. CacheRefs'
  <2> SUFFICES ASSUME NEW v \in Users, NEW s \in Sessions,
                      response'[v][s] # None
               PROVE  /\ response'[v][s] \in 1..n
                      /\ p'[response'[v][s]].user = v
                      /\ p'[response'[v][s]].sess = s
    BY DEF CacheRefs
  <2>1. CASE v # u
    BY <1>3, <1>4, <1>6, <2>1
  <2>2. CASE v = u
    <3>1. response'[u][s] = row[s]
      BY <1>1, <2>2 DEF Finished
    <3> QED BY <1>3, <2>2, <3>1 DEF Finishable
  <2> QED BY <2>1, <2>2
<1>8. ReturnFds'
  BY <1>3 DEF ReturnFds
<1>9. Running'
  <2> SUFFICES ASSUME NEW r \in 1..n, p'[r].running
               PROVE  /\ p'[r].fd # None /\ ~p'[r].ready
                      /\ \/ response'[p'[r].user][p'[r].sess] = r
                         \/ <<p'[r].user, p'[r].sess>> \in conflicted
    BY DEF Running
  <2>1. pp[r].running /\ pp[r].fd # None /\ ~pp[r].ready
    BY <1>3
  <2>2. CASE pp[r].user = u /\ row[pp[r].sess] = r
    <3>1. response'[u][pp[r].sess] = row[pp[r].sess]
      BY <1>1, <1>3, <2>1, <2>2 DEF Finished
    <3> QED BY <1>3, <2>1, <2>2, <3>1
  <2>3. CASE pp[r].user # u /\ response[pp[r].user][pp[r].sess] = r
    BY <1>3, <1>4, <2>1, <2>3
  <2>4. CASE <<pp[r].user, pp[r].sess>> \in conflicted
    BY <1>3, <2>1, <2>4
  <2> QED BY <2>1, <2>2, <2>3, <2>4
<1>10. \A v \in Users \ {u} : \A s \in Complete(response'[v], p') :
         /\ s \in Complete(response[v], p)
         /\ p'[response'[v][s]].index = p[response[v][s]].index
         /\ p'[response'[v][s]].at = p[response[v][s]].at
  BY <1>3, <1>4, <1>6 DEF Complete
<1>11. CacheIndex'
  <2> SUFFICES ASSUME NEW v \in Users
               PROVE  /\ index'[v] < 2 * ExpiredNumber
                      /\ \A s \in Complete(response'[v], p') :
                            p'[response'[v][s]].index < index'[v]
    BY DEF CacheIndex, Complete
  <2>1. CASE v = u
    BY <1>1, <2>1 DEF Finished
  <2>2. CASE v # u
    BY <1>4, <1>10, <2>2 DEF GateInv, CacheIndex
  <2> QED BY <2>1, <2>2
<1>12. CacheAge'
  <2> SUFFICES ASSUME NEW v \in Users
               PROVE  \A s \in Complete(response'[v], p') :
                         index'[v] - p'[response'[v][s]].index
                            <= completed'[v] - p'[response'[v][s]].at + 1
    BY DEF CacheAge, Complete
  <2>1. CASE v = u
    BY <1>1, <2>1 DEF Finished
  <2>2. CASE v # u
    BY <1>4, <1>10, <2>2 DEF GateInv, CacheAge
  <2> QED BY <2>1, <2>2
<1>13. RetiredLate
  <2> SUFFICES ASSUME NEW v \in Users, NEW t \in Sessions,
                      response[v][t] # None, response'[v][t] = None
               PROVE  completed'[v] - p'[response[v][t]].at >= ExpiredNumber
    BY DEF RetiredLate
  <2>1. v = u
    BY <1>4
  <2>2. \/ response'[u][t] = row[t]
        \/ /\ response'[u][t] = None
           /\ row[t] # None
           /\ pp[row[t]].fd = None
           /\ pp[row[t]].index < index[u]
           /\ completed'[u] - pp[row[t]].at >= ExpiredNumber
    BY <1>1 DEF Finished
  <2>3. row[t] # None
    BY <2>1
  <2>4. index[u] \in Nat
    BY <1>2 DEF GateInv, TypeOK
  <2>5. row[t] = response[u][t] /\ row[t] \in 1..n
    BY <2>1, <2>2, <2>3, <2>4 DEF Finishable
  <2>6. p'[row[t]].at = pp[row[t]].at
    BY <1>1, <2>5 DEF Finished
  <2> QED BY <2>1, <2>2, <2>3, <2>5, <2>6
<1> QED
  BY <1>5, <1>7, <1>8, <1>9, <1>11, <1>12, <1>13 DEF GateInv

\* Facts about records every step on a request uses.
LEMMA GateFacts ==
    ASSUME GateInv
    PROVE  /\ nreq \in Nat /\ nreq <= MaxReqs /\ MaxReqs \in Nat
           /\ None \notin Fds /\ None \notin Users /\ None \notin Nat
           /\ \A r \in 1..nreq : p[r] \in Response
           /\ \A u \in Users : /\ index[u] \in Nat /\ completed[u] \in Nat
                               /\ version[u] \in Nat
           /\ \A u \in Users : response[u] \in [Sessions -> Reqs \cup {None}]
  BY GateAssumption DEF GateInv, TypeOK

\* A request that is new to the cache keeps the invariant.
LEMMA RequestStartStep ==
    ASSUME GateInv, NEW f \in Fds, NEW u \in Users, NEW s \in Sessions,
           RequestStart(f, u, s)
    PROVE  GateInv'
<1> DEFINE n == nreq + 1
           q == NewResponse(u, s, f)
<1>1. /\ n \in 1..MaxReqs /\ n \in Reqs /\ nreq' = n /\ n # None
      /\ nreq \in Nat /\ None \notin Fds
  BY GateFacts, GateAssumption DEF RequestStart, Reqs
<1>2. /\ q \in Response /\ q.user = u /\ q.sess = s /\ q.fd = f /\ q.fd # None
      /\ q.running = TRUE /\ q.ready = FALSE
  BY <1>1 DEF NewResponse, Response
<1>3. /\ DOMAIN p' = 1..n /\ p'[n] = q
      /\ \A r \in 1..nreq : p'[r] = p[r] /\ r # n
      /\ \A r \in 1..n : r = n \/ r \in 1..nreq
  BY <1>1 DEF RequestStart
<1>4. /\ response' = [response EXCEPT ![u][s] = n]
      /\ response'[u][s] = n
      /\ \A v \in Users, t \in Sessions : v # u \/ t # s =>
            response'[v][t] = response[v][t]
  BY <1>1 DEF RequestStart, GateInv, TypeOK
<1>5. TypeOK'
  <2>1. p' \in [1..n -> Response]
    BY <1>1, <1>2, <1>3, GateFacts DEF RequestStart
  <2>2. response' \in [Users -> [Sessions -> Reqs \cup {None}]]
    BY <1>1, <1>4 DEF GateInv, TypeOK
  <2> QED
    BY <1>1, <2>1, <2>2 DEF RequestStart, GateInv, TypeOK
<1>6. \A v \in Users, t \in Sessions : response[v][t] # None =>
         response[v][t] \in 1..nreq /\ p[response[v][t]].user = v
         /\ p[response[v][t]].sess = t
  BY DEF GateInv, CacheRefs
<1>7. CacheRefs'
  <2> SUFFICES ASSUME NEW v \in Users, NEW t \in Sessions,
                      response'[v][t] # None
               PROVE  /\ response'[v][t] \in 1..n
                      /\ p'[response'[v][t]].user = v
                      /\ p'[response'[v][t]].sess = t
    BY <1>1 DEF CacheRefs
  <2>1. CASE v = u /\ t = s
    BY <1>1, <1>2, <1>3, <1>4, <2>1
  <2>2. CASE v # u \/ t # s
    <3>1. response'[v][t] = response[v][t] /\ response[v][t] \in 1..nreq
      BY <1>4, <1>6, <2>2
    <3> QED BY <1>1, <1>3, <1>6, <3>1
  <2> QED BY <2>1, <2>2
<1>8. ReturnFds'
  <2> SUFFICES ASSUME NEW r \in 1..n, p'[r].fd # None
               PROVE  /\ p'[r].fd \notin handshake
                      /\ sock[p'[r].fd] # "none"
                      /\ connection[p'[r].fd] \in {None, p'[r].user}
    BY <1>1 DEF ReturnFds, RequestStart
  <2>1. CASE r = n
    BY <1>2, <1>3, <2>1 DEF RequestStart, Asks, Delivers
  <2>2. CASE r \in 1..nreq
    BY <1>3, <2>2 DEF GateInv, ReturnFds
  <2> QED BY <1>3, <2>1, <2>2
<1>9. Running'
  <2> SUFFICES ASSUME NEW r \in 1..n, p'[r].running
               PROVE  /\ p'[r].fd # None /\ ~p'[r].ready
                      /\ \/ response'[p'[r].user][p'[r].sess] = r
                         \/ <<p'[r].user, p'[r].sess>> \in conflicted
    BY <1>1 DEF Running, RequestStart
  <2>1. CASE r = n
    BY <1>2, <1>3, <1>4, <2>1
  <2>2. CASE r \in 1..nreq
    <3>1. /\ p'[r] = p[r] /\ p[r].user \in Users /\ p[r].sess \in Sessions
          /\ p[r].fd # None /\ ~p[r].ready
          /\ \/ response[p[r].user][p[r].sess] = r
             \/ <<p[r].user, p[r].sess>> \in conflicted
      BY <1>3, <2>2, GateFacts DEF GateInv, Running, Response
    <3>2. response[u][s] = None \/ p[response[u][s]].ready
      BY DEF RequestStart
    <3>3. ~(p[r].user = u /\ p[r].sess = s /\ response[u][s] = r)
      BY <1>1, <2>2, <3>1, <3>2, GateFacts
    <3> QED BY <1>4, <3>1, <3>3
  <2> QED BY <1>3, <2>1, <2>2
<1>10. \A v \in Users : \A t \in Complete(response'[v], p') :
         /\ t \in Complete(response[v], p)
         /\ p'[response'[v][t]] = p[response[v][t]]
  <2> SUFFICES ASSUME NEW v \in Users, NEW t \in Complete(response'[v], p')
               PROVE  /\ t \in Complete(response[v], p)
                      /\ p'[response'[v][t]] = p[response[v][t]]
    OBVIOUS
  <2>1. t \in Sessions /\ response'[v][t] # None
        /\ p'[response'[v][t]].fd = None
    BY DEF Complete
  <2>2. v # u \/ t # s
    BY <1>2, <1>3, <1>4, <2>1
  <2>3. response'[v][t] = response[v][t] /\ response[v][t] \in 1..nreq
    BY <1>4, <1>6, <2>1, <2>2
  <2> QED BY <1>3, <2>1, <2>3 DEF Complete
<1>11. index' = index /\ completed' = completed
  BY DEF RequestStart
<1>12. CacheIndex'
  <2> SUFFICES ASSUME NEW v \in Users
               PROVE  /\ index'[v] < 2 * ExpiredNumber
                      /\ \A t \in Complete(response'[v], p') :
                            p'[response'[v][t]].index < index'[v]
    BY DEF CacheIndex, Complete
  <2> QED BY <1>10, <1>11 DEF GateInv, CacheIndex
<1>13. CacheAge'
  <2> SUFFICES ASSUME NEW v \in Users
               PROVE  \A t \in Complete(response'[v], p') :
                         index'[v] - p'[response'[v][t]].index
                            <= completed'[v] - p'[response'[v][t]].at + 1
    BY DEF CacheAge, Complete
  <2> QED BY <1>10, <1>11 DEF GateInv, CacheAge
<1> QED
  BY <1>5, <1>7, <1>8, <1>9, <1>12, <1>13 DEF GateInv

\* A request that a client makes conflict with a cached one keeps the invariant.
LEMMA RequestConflictStep ==
    ASSUME GateInv, NEW f \in Fds, NEW u \in Users, NEW s \in Sessions,
           RequestConflict(f, u, s)
    PROVE  GateInv'
<1>1. /\ response' \in [Users -> [Sessions -> Reqs \cup {None}]]
      /\ response'[u][s] = None
      /\ \A v \in Users, t \in Sessions : v # u \/ t # s =>
            response'[v][t] = response[v][t]
  BY DEF RequestConflict, GateInv, TypeOK
<1>2. TypeOK'
  BY <1>1 DEF RequestConflict, GateInv, TypeOK, CloseClient, Delivers,
              SockState
<1>3. CacheRefs'
  BY <1>1 DEF RequestConflict, GateInv, CacheRefs
<1>4. ReturnFds'
  BY DEF RequestConflict, GateInv, TypeOK, ReturnFds, CloseClient, Delivers,
         Response
<1>5. Running'
  <2> SUFFICES ASSUME NEW r \in 1..nreq, p[r].running
               PROVE  /\ p[r].fd # None /\ ~p[r].ready
                      /\ \/ response'[p[r].user][p[r].sess] = r
                         \/ <<p[r].user, p[r].sess>> \in conflicted'
    BY DEF Running, RequestConflict
  <2>1. /\ p[r].user \in Users /\ p[r].sess \in Sessions
        /\ p[r].fd # None /\ ~p[r].ready
        /\ \/ response[p[r].user][p[r].sess] = r
           \/ <<p[r].user, p[r].sess>> \in conflicted
    BY GateFacts DEF GateInv, Running, Response
  <2> QED BY <1>1, <2>1 DEF RequestConflict
<1>6. \A v \in Users : \A t \in Complete(response'[v], p) :
         /\ t \in Complete(response[v], p)
         /\ response'[v][t] = response[v][t]
  BY <1>1 DEF Complete
<1>7. p' = p /\ index' = index /\ completed' = completed
  BY DEF RequestConflict
<1>8. CacheIndex'
  <2> SUFFICES ASSUME NEW v \in Users
               PROVE  /\ index[v] < 2 * ExpiredNumber
                      /\ \A t \in Complete(response'[v], p) :
                            p[response'[v][t]].index < index[v]
    BY <1>7 DEF CacheIndex, Complete
  <2> QED BY <1>6 DEF GateInv, CacheIndex
<1>9. CacheAge'
  <2> SUFFICES ASSUME NEW v \in Users
               PROVE  \A t \in Complete(response'[v], p) :
                         index[v] - p[response'[v][t]].index
                            <= completed[v] - p[response'[v][t]].at + 1
    BY <1>7 DEF CacheAge, Complete
  <2> QED BY <1>6 DEF GateInv, CacheAge
<1> QED
  BY <1>2, <1>3, <1>4, <1>5, <1>8, <1>9 DEF GateInv

\* A request that is asked for again keeps the invariant.
LEMMA RequestAgainStep ==
    ASSUME GateInv, NEW f \in Fds, NEW u \in Users, NEW s \in Sessions,
           RequestAgain(f, u, s)
    PROVE  GateInv' /\ RetiredLate
<1> DEFINE r == response[u][s]
           q == [p[r] EXCEPT !.fd = f, !.version = version[u],
                             !.index = index[u], !.asked = f]
<1>1. /\ r \in 1..nreq /\ p[r].user = u /\ p[r].sess = s
      /\ r \in Reqs /\ p[r] \in Response
  BY GateFacts DEF RequestAgain, GateInv, CacheRefs, Reqs
<1>2. /\ q \in Response /\ q.user = u /\ q.sess = s /\ q.fd = f
      /\ q.ready = p[r].ready /\ q.running = p[r].running
      /\ q.index = index[u] /\ f # None
  BY <1>1, GateFacts DEF Response
<1>3. f \notin handshake /\ sock[f] # "none" /\ connection[f] = u
  BY DEF RequestAgain, Asks, Delivers
<1>4. \A t \in Sessions : t # s => response[u][t] # r
  BY <1>1, GateFacts DEF GateInv, CacheRefs
<1>5. \A v \in Users, t \in Sessions : response[v][t] # None =>
         response[v][t] \in 1..nreq /\ p[response[v][t]].user = v
         /\ p[response[v][t]].sess = t
  BY DEF GateInv, CacheRefs
<1> HIDE DEF q
<1>6. CASE ~q.ready /\ p' = [p EXCEPT ![r] = q]
             /\ UNCHANGED <<index, response, completed>>
  <2>1. /\ p' \in [1..nreq -> Response] /\ p'[r] = q
        /\ \A i \in 1..nreq : i # r => p'[i] = p[i]
    BY <1>1, <1>2, <1>6 DEF GateInv, TypeOK
  <2>2. nreq' = nreq /\ UNCHANGED <<handshake, sock, connection, conflicted>>
    BY DEF RequestAgain
  <2>3. TypeOK'
    BY <1>6, <2>1 DEF RequestAgain, GateInv, TypeOK
  <2>4. CacheRefs'
    BY <1>1, <1>2, <1>5, <1>6, <2>1, <2>2 DEF CacheRefs
  <2>5. ReturnFds'
    BY <1>2, <1>3, <2>1, <2>2 DEF GateInv, ReturnFds
  <2>6. Running'
    <3> SUFFICES ASSUME NEW i \in 1..nreq, p'[i].running
                 PROVE  /\ p'[i].fd # None /\ ~p'[i].ready
                        /\ \/ response[p'[i].user][p'[i].sess] = i
                           \/ <<p'[i].user, p'[i].sess>> \in conflicted
      BY <1>6, <2>2 DEF Running
    <3> QED BY <1>1, <1>2, <1>6, <2>1 DEF GateInv, Running
  <2>7. \A v \in Users : \A t \in Complete(response[v], p') :
           /\ t \in Complete(response[v], p)
           /\ p'[response[v][t]] = p[response[v][t]]
    BY <1>2, <1>5, <2>1 DEF Complete
  <2>8. CacheIndex'
    <3> SUFFICES ASSUME NEW v \in Users
                 PROVE  /\ index[v] < 2 * ExpiredNumber
                        /\ \A t \in Complete(response[v], p') :
                              p'[response[v][t]].index < index[v]
      BY <1>6 DEF CacheIndex, Complete
    <3> QED BY <2>7 DEF GateInv, CacheIndex
  <2>9. CacheAge'
    <3> SUFFICES ASSUME NEW v \in Users
                 PROVE  \A t \in Complete(response[v], p') :
                           index[v] - p'[response[v][t]].index
                              <= completed[v] - p'[response[v][t]].at + 1
      BY <1>6 DEF CacheAge, Complete
    <3> QED BY <2>7 DEF GateInv, CacheAge
  <2> QED BY <1>6, <2>3, <2>4, <2>5, <2>6, <2>8, <2>9 DEF GateInv, RetiredLate
<1>7. ASSUME q.ready,
             FinishRequest(u, response[u],
                [p EXCEPT ![r] = [q EXCEPT !.fd = None,
                                           !.at = completed[u] + 1]])
      PROVE  GateInv' /\ RetiredLate
  <2> DEFINE z == [q EXCEPT !.fd = None, !.at = completed[u] + 1]
             pp == [p EXCEPT ![r] = z]
  <2>1. /\ z \in Response /\ z.user = u /\ z.sess = s /\ z.fd = None
        /\ z.running = p[r].running /\ z.index = index[u]
        /\ z.at = completed[u] + 1
    <3> DEFINE c == completed[u] + 1
    <3>1. c \in Nat
      BY GateFacts
    <3> HIDE DEF c
    <3>2. /\ [q EXCEPT !.fd = None, !.at = c] \in Response
          /\ \A x : x = [q EXCEPT !.fd = None, !.at = c] =>
                /\ x.user = q.user /\ x.sess = q.sess /\ x.fd = None
                /\ x.running = q.running /\ x.index = q.index /\ x.at = c
      BY <1>2, <3>1 DEF Response
    <3> QED BY <1>2, <3>2 DEF c
  <2>2. ~p[r].running
    BY <1>1, <1>2, <1>7 DEF GateInv, Running
  <2> HIDE DEF z
  <2>3. /\ pp \in [1..nreq -> Response] /\ pp[r] = z
        /\ \A i \in 1..nreq : i # r => pp[i] = p[i]
    BY <1>1, <2>1 DEF GateInv, TypeOK
  <2>4. FinishRequest(u, response[u], pp)
    BY <1>7 DEF z
  <2> HIDE DEF pp
  <2>5. Finishable(u, response[u], pp, nreq)
    <3>1. nreq \in 0..MaxReqs /\ response[u] \in [Sessions -> Reqs \cup {None}]
      BY GateFacts
    <3>2. \A t \in Sessions : response[u][t] # None =>
            /\ response[u][t] \in 1..nreq
            /\ pp[response[u][t]].user = u
            /\ pp[response[u][t]].sess = t
      BY <1>1, <1>5, <2>1, <2>3
    <3>3. \A t \in Complete(response[u], pp) :
            /\ pp[response[u][t]].index <= index[u]
            /\ index[u] - pp[response[u][t]].index
                  <= completed[u] + 1 - pp[response[u][t]].at
      <4> SUFFICES ASSUME NEW t \in Complete(response[u], pp)
                   PROVE  /\ pp[response[u][t]].index <= index[u]
                          /\ index[u] - pp[response[u][t]].index
                                <= completed[u] + 1 - pp[response[u][t]].at
        OBVIOUS
      <4>1. t \in Sessions /\ response[u][t] \in 1..nreq
        BY <3>2 DEF Complete
      <4>2. CASE t = s
        BY <2>1, <2>3, <4>2, GateFacts
      <4>3. CASE t # s
        <5>1. pp[response[u][t]] = p[response[u][t]]
          BY <1>4, <2>3, <4>1, <4>3
        <5>2. t \in Complete(response[u], p)
          BY <5>1 DEF Complete
        <5>3. /\ p[response[u][t]].index < index[u]
              /\ index[u] - p[response[u][t]].index
                    <= completed[u] - p[response[u][t]].at + 1
              /\ p[response[u][t]].index \in Nat
              /\ p[response[u][t]].at \in Nat
          BY <4>1, <5>2, GateFacts
          DEF GateInv, CacheIndex, CacheAge, Response
        <5> QED BY <5>1, <5>3, GateFacts
      <4> QED BY <4>2, <4>3
    <3> QED BY <2>3, <3>1, <3>2, <3>3 DEF Finishable
  <2>6. nreq >= nreq /\ nreq' = nreq
    BY GateFacts DEF RequestAgain
  <2>7. \A i \in 1..nreq : p[i].user # u => pp[i] = p[i]
    BY <1>1, <2>3
  <2>8. \A i \in 1..nreq : pp[i].fd # None =>
            /\ pp[i].fd \notin handshake
            /\ sock[pp[i].fd] # "none"
            /\ connection[pp[i].fd] \in {None, pp[i].user}
    BY <2>1, <2>3 DEF GateInv, ReturnFds
  <2>9. \A i \in 1..nreq : pp[i].running =>
            /\ pp[i].fd # None /\ ~pp[i].ready
            /\ \/ pp[i].user = u /\ response[u][pp[i].sess] = i
               \/ pp[i].user # u /\ response[pp[i].user][pp[i].sess] = i
               \/ <<pp[i].user, pp[i].sess>> \in conflicted
    BY <2>1, <2>2, <2>3 DEF GateInv, Running
  <2>10. UNCHANGED <<user_online, version, ufd, handshake, connection, sock,
                     authing, conflicted>>
    BY DEF RequestAgain
  <2>11. \A t \in Sessions : response[u][t] # None =>
            \/ pp[response[u][t]].at = p[response[u][t]].at
            \/ pp[response[u][t]].index = index[u]
    BY <1>5, <2>1, <2>3
  <2> QED BY <2>4, <2>5, <2>6, <2>7, <2>8, <2>9, <2>10, <2>11, FinishStep
<1> QED
  BY <1>6, <1>7 DEF RequestAgain, q

\* The record a request leaves: Completed(x, ok) for a record x of user u.
LEMMA CompletedRecord ==
    ASSUME GateInv, NEW x \in Response, NEW ok \in BOOLEAN
    PROVE  /\ Completed(x, ok) \in Response
           /\ Completed(x, ok).user = x.user
           /\ Completed(x, ok).sess = x.sess
           /\ Completed(x, ok).fd = None
           /\ Completed(x, ok).running = FALSE
           /\ Completed(x, ok).index = index[x.user]
           /\ Completed(x, ok).at = completed[x.user] + 1
<1> DEFINE c == completed[x.user] + 1
<1>1. x.user \in Users
  BY DEF Response
<1>2. c \in Nat /\ index[x.user] \in Nat /\ version[x.user] \in Nat
  BY <1>1, GateFacts
<1>3. Completed(x, ok) =
        [x EXCEPT !.fd = None, !.ready = ok, !.running = FALSE,
                  !.version = version[x.user], !.index = index[x.user],
                  !.at = c]
  BY DEF Completed
<1> HIDE DEF c
<1>4. /\ Completed(x, ok) \in Response
      /\ Completed(x, ok).user = x.user
      /\ Completed(x, ok).sess = x.sess
      /\ Completed(x, ok).fd = None
      /\ Completed(x, ok).running = FALSE
      /\ Completed(x, ok).index = index[x.user]
      /\ Completed(x, ok).at = c
  BY <1>2, <1>3 DEF Response
<1> QED BY <1>4 DEF c

\* The answer of the Agent to a request keeps the invariant.
LEMMA RequestReturnStep ==
    ASSUME GateInv, NEW r \in 1..nreq, NEW ok \in BOOLEAN, RequestReturn(r, ok)
    PROVE  GateInv' /\ RetiredLate
<1> DEFINE u == p[r].user
           z == Completed(p[r], ok)
           pp == [p EXCEPT ![r] = z]
<1>1. /\ p[r] \in Response /\ u \in Users /\ p[r].sess \in Sessions
  BY GateFacts DEF Response
<1>2. /\ z \in Response /\ z.user = u /\ z.sess = p[r].sess /\ z.fd = None
      /\ z.running = FALSE /\ z.index = index[u] /\ z.at = completed[u] + 1
  BY <1>1, CompletedRecord
<1> HIDE DEF z
<1>3. /\ pp \in [1..nreq -> Response] /\ pp[r] = z
      /\ \A i \in 1..nreq : i # r => pp[i] = p[i]
  BY <1>2 DEF GateInv, TypeOK
<1>4. FinishRequest(u, response[u], pp)
  BY DEF RequestReturn, z
<1> HIDE DEF pp
<1>5. \A t \in Sessions : response[u][t] # None =>
        /\ response[u][t] \in 1..nreq
        /\ pp[response[u][t]].user = u
        /\ pp[response[u][t]].sess = t
  <2>1. \A t \in Sessions : response[u][t] # None =>
          /\ response[u][t] \in 1..nreq
          /\ p[response[u][t]].user = u
          /\ p[response[u][t]].sess = t
    BY <1>1 DEF GateInv, CacheRefs
  <2> QED BY <1>2, <1>3, <2>1
<1>6. \A t \in Complete(response[u], pp) :
        /\ pp[response[u][t]].index <= index[u]
        /\ index[u] - pp[response[u][t]].index
              <= completed[u] + 1 - pp[response[u][t]].at
  <2> SUFFICES ASSUME NEW t \in Complete(response[u], pp)
               PROVE  /\ pp[response[u][t]].index <= index[u]
                      /\ index[u] - pp[response[u][t]].index
                            <= completed[u] + 1 - pp[response[u][t]].at
    OBVIOUS
  <2>1. t \in Sessions /\ response[u][t] \in 1..nreq
    BY <1>5 DEF Complete
  <2>2. CASE response[u][t] = r
    BY <1>1, <1>2, <1>3, <2>2, GateFacts
  <2>3. CASE response[u][t] # r
    <3>1. pp[response[u][t]] = p[response[u][t]]
      BY <1>3, <2>1, <2>3
    <3>2. t \in Complete(response[u], p)
      BY <3>1 DEF Complete
    <3>3. /\ p[response[u][t]].index < index[u]
          /\ index[u] - p[response[u][t]].index
                <= completed[u] - p[response[u][t]].at + 1
          /\ p[response[u][t]].index \in Nat
          /\ p[response[u][t]].at \in Nat
      BY <1>1, <2>1, <3>2, GateFacts
      DEF GateInv, CacheIndex, CacheAge, Response
    <3> QED BY <1>1, <3>1, <3>3, GateFacts
  <2> QED BY <2>2, <2>3
<1>7. Finishable(u, response[u], pp, nreq)
  BY <1>1, <1>3, <1>5, <1>6, GateFacts DEF Finishable
<1>8. nreq >= nreq /\ nreq' = nreq
  BY GateFacts DEF RequestReturn
<1>9. \A i \in 1..nreq : p[i].user # u => pp[i] = p[i]
  BY <1>3
<1>10. \A i \in 1..nreq : pp[i].fd # None =>
          /\ pp[i].fd \notin handshake
          /\ sock[pp[i].fd] # "none"
          /\ connection[pp[i].fd] \in {None, pp[i].user}
  BY <1>2, <1>3 DEF GateInv, ReturnFds
<1>11. \A i \in 1..nreq : pp[i].running =>
          /\ pp[i].fd # None /\ ~pp[i].ready
          /\ \/ pp[i].user = u /\ response[u][pp[i].sess] = i
             \/ pp[i].user # u /\ response[pp[i].user][pp[i].sess] = i
             \/ <<pp[i].user, pp[i].sess>> \in conflicted
  BY <1>2, <1>3 DEF GateInv, Running
<1>12. UNCHANGED <<user_online, version, ufd, handshake, connection, sock,
                   authing, conflicted>>
  BY DEF RequestReturn
<1>13. \A t \in Sessions : response[u][t] # None =>
          p[response[u][t]].fd # None
             \/ pp[response[u][t]].at = p[response[u][t]].at
  BY <1>3, <1>5 DEF RequestReturn, GateInv, Running
<1> QED
  BY <1>4, <1>7, <1>8, <1>9, <1>10, <1>11, <1>12, <1>13, FinishStep

\* An error of the Agent in a request keeps the invariant.
LEMMA RequestFailStep ==
    ASSUME GateInv, NEW f \in Fds, NEW u \in Users, NEW s \in Sessions,
           RequestFail(f, u, s)
    PROVE  GateInv' /\ RetiredLate
<1> DEFINE n == nreq + 1
           z == Completed(NewResponse(u, s, f), FALSE)
           row == [response[u] EXCEPT ![s] = n]
           pp == [i \in 1..n |-> IF i = n THEN z ELSE p[i]]
<1>1. /\ n \in 1..MaxReqs /\ n \in Reqs /\ nreq' = n /\ n # None
      /\ nreq \in Nat /\ n >= nreq
  BY GateFacts, GateAssumption DEF RequestFail, Reqs
<1>2. NewResponse(u, s, f) \in Response /\ NewResponse(u, s, f).user = u
      /\ NewResponse(u, s, f).sess = s
  BY DEF NewResponse, Response
<1>3. /\ z \in Response /\ z.user = u /\ z.sess = s /\ z.fd = None
      /\ z.running = FALSE /\ z.index = index[u] /\ z.at = completed[u] + 1
  BY <1>2, CompletedRecord
<1>4. FinishRequest(u, row, pp)
  BY DEF RequestFail
<1> HIDE DEF z
<1>5. /\ pp \in [1..n -> Response] /\ pp[n] = z
      /\ \A i \in 1..nreq : pp[i] = p[i] /\ i # n
      /\ \A i \in 1..n : i = n \/ i \in 1..nreq
  BY <1>1, <1>3, GateFacts
<1>6. /\ row \in [Sessions -> Reqs \cup {None}] /\ row[s] = n
      /\ \A t \in Sessions : t # s => row[t] = response[u][t]
  BY <1>1, GateFacts
<1> HIDE DEF pp, row
<1>7. \A t \in Sessions : response[u][t] # None =>
        /\ response[u][t] \in 1..nreq
        /\ p[response[u][t]].user = u
        /\ p[response[u][t]].sess = t
  BY DEF GateInv, CacheRefs
<1>8. \A t \in Sessions : row[t] # None =>
        /\ row[t] \in 1..n
        /\ pp[row[t]].user = u
        /\ pp[row[t]].sess = t
  <2> SUFFICES ASSUME NEW t \in Sessions, row[t] # None
               PROVE  /\ row[t] \in 1..n
                      /\ pp[row[t]].user = u
                      /\ pp[row[t]].sess = t
    OBVIOUS
  <2>1. CASE t = s
    BY <1>1, <1>3, <1>5, <1>6, <2>1
  <2>2. CASE t # s
    <3>1. row[t] = response[u][t] /\ response[u][t] \in 1..nreq
      BY <1>6, <1>7, <2>2
    <3> QED BY <1>1, <1>5, <1>7, <3>1
  <2> QED BY <2>1, <2>2
<1>9. \A t \in Complete(row, pp) :
        /\ pp[row[t]].index <= index[u]
        /\ index[u] - pp[row[t]].index <= completed[u] + 1 - pp[row[t]].at
  <2> SUFFICES ASSUME NEW t \in Complete(row, pp)
               PROVE  /\ pp[row[t]].index <= index[u]
                      /\ index[u] - pp[row[t]].index
                            <= completed[u] + 1 - pp[row[t]].at
    OBVIOUS
  <2>1. t \in Sessions /\ row[t] # None /\ pp[row[t]].fd = None
    BY DEF Complete
  <2>2. CASE t = s
    BY <1>3, <1>5, <1>6, <2>2, GateFacts
  <2>3. CASE t # s
    <3>1. row[t] = response[u][t] /\ response[u][t] \in 1..nreq
          /\ pp[row[t]] = p[response[u][t]]
      BY <1>5, <1>6, <1>7, <2>1, <2>3
    <3>2. t \in Complete(response[u], p)
      BY <2>1, <3>1 DEF Complete
    <3>3. /\ p[response[u][t]].index < index[u]
          /\ index[u] - p[response[u][t]].index
                <= completed[u] - p[response[u][t]].at + 1
          /\ p[response[u][t]].index \in Nat
          /\ p[response[u][t]].at \in Nat
      BY <3>1, <3>2, GateFacts DEF GateInv, CacheIndex, CacheAge, Response
    <3> QED BY <3>1, <3>3, GateFacts
  <2> QED BY <2>2, <2>3
<1>10. Finishable(u, row, pp, n)
  BY <1>1, <1>5, <1>6, <1>8, <1>9 DEF Finishable
<1>11. \A i \in 1..nreq : p[i].user # u => pp[i] = p[i]
  BY <1>5
<1>12. \A i \in 1..n : pp[i].fd # None =>
          /\ pp[i].fd \notin handshake
          /\ sock[pp[i].fd] # "none"
          /\ connection[pp[i].fd] \in {None, pp[i].user}
  BY <1>3, <1>5 DEF GateInv, ReturnFds
<1>13. \A i \in 1..n : pp[i].running =>
          /\ pp[i].fd # None /\ ~pp[i].ready
          /\ \/ pp[i].user = u /\ row[pp[i].sess] = i
             \/ pp[i].user # u /\ response[pp[i].user][pp[i].sess] = i
             \/ <<pp[i].user, pp[i].sess>> \in conflicted
  <2> SUFFICES ASSUME NEW i \in 1..n, pp[i].running
               PROVE  /\ pp[i].fd # None /\ ~pp[i].ready
                      /\ \/ pp[i].user = u /\ row[pp[i].sess] = i
                         \/ pp[i].user # u
                              /\ response[pp[i].user][pp[i].sess] = i
                         \/ <<pp[i].user, pp[i].sess>> \in conflicted
    OBVIOUS
  <2>1. i \in 1..nreq /\ pp[i] = p[i]
    BY <1>3, <1>5
  <2>2. /\ p[i].fd # None /\ ~p[i].ready /\ p[i].sess \in Sessions
        /\ \/ response[p[i].user][p[i].sess] = i
           \/ <<p[i].user, p[i].sess>> \in conflicted
    BY <2>1, GateFacts DEF GateInv, Running, Response
  <2>3. response[u][s] = None \/ p[response[u][s]].ready
    BY DEF RequestFail
  <2>4. ~(p[i].user = u /\ p[i].sess = s /\ response[u][s] = i)
    BY <1>1, <2>1, <2>2, <2>3, GateFacts
  <2> QED BY <1>6, <2>1, <2>2, <2>4
<1>14. UNCHANGED <<user_online, version, ufd, handshake, connection, sock,
                   authing, conflicted>>
  BY DEF RequestFail
<1>15. \A t \in Sessions : response[u][t] # None =>
          \/ /\ row[t] = response[u][t]
             /\ \/ p[row[t]].fd # None
                \/ pp[row[t]].at = p[row[t]].at
          \/ row[t] # None /\ pp[row[t]].index = index[u]
  BY <1>1, <1>3, <1>5, <1>6, <1>7
<1> QED
  BY <1>1, <1>4, <1>10, <1>11, <1>12, <1>13, <1>14, <1>15, FinishStep

\* The invariant is inductive: one case per action.
LEMMA NextGateInv == GateInv /\ [Next]_vars => GateInv'
<1> SUFFICES ASSUME GateInv, [Next]_vars PROVE GateInv'
  OBVIOUS
<1>1. CASE UNCHANGED vars
  <2>1. UNCHANGED <<index, response, p, nreq, hist>>
    BY <1>1 DEF vars, hist
  <2>2. TypeOK' /\ ReturnFds'
    BY <1>1 DEF vars, GateInv, TypeOK, ReturnFds
  <2> QED BY <2>1, <2>2, QuietStep DEF GateInv
<1>2. CASE Next
  BY <1>2, SocketStep, UserStep, AuthStep, AuthReturnStep, RequestStartStep,
     RequestFailStep, RequestConflictStep, RequestAgainStep, RequestReturnStep
  DEF Next
<1> QED BY <1>1, <1>2

-----------------------------------------------------------------------------
(* Theorems *)

\* GateInv, the type invariant included, holds in every reachable state of
\* the gate.
THEOREM GateInvariant == Spec => []GateInv
<1>1. Init => GateInv
  BY InitGateInv
<1>2. GateInv /\ [Next]_vars => GateInv'
  BY NextGateInv
<1> QED BY <1>1, <1>2, PTL DEF Spec

\* Every field of the gate's tables keeps its type: retire_response never
\* makes an index of the cache negative, and do_request never leaves a
\* response entry that names no request.
THEOREM TypeOKTheorem == Spec => []TypeOK
<1>1. GateInv => TypeOK
  BY DEF GateInv
<1> QED BY <1>1, GateInvariant, PTL

\* A response is only ever sent to an fd of its own user: GameGate.lua's
\* check of connection[fd] before socketdriver.send is enough.
THEOREM ReturnFdOwnedTheorem == Spec => []ReturnFdOwned
<1>1. GateInv => ReturnFdOwned
  BY DEF GateInv, ReturnFds, ReturnFdOwned
<1> QED BY <1>1, GateInvariant, PTL

\* do_request has the Agent run a session twice at a time only after the
\* client made it conflict.
THEOREM NoSecondRunTheorem == Spec => []NoSecondRun
<1>1. GateInv => NoSecondRun
  BY DEF GateInv, Running, NoSecondRun
<1> QED BY <1>1, GateInvariant, PTL

\* retire_response keeps u.index and the indexes of the cache bounded, for
\* every expired_number.
THEOREM CacheIndexTheorem == Spec => []CacheIndex
<1>1. GateInv => CacheIndex
  BY DEF GateInv
<1> QED BY <1>1, GateInvariant, PTL

\* The steps that end no request remove no response that is ready.
LEMMA NextRetiredLate == GateInv /\ [Next]_vars => RetiredLate
<1> SUFFICES ASSUME GateInv, [Next]_vars PROVE RetiredLate
  OBVIOUS
<1>1. CASE response' = response
  BY <1>1 DEF RetiredLate
<1>2. ASSUME NEW f \in Fds, NEW u \in Users, NEW s \in Sessions,
             RequestStart(f, u, s) \/ RequestConflict(f, u, s)
      PROVE  RetiredLate
  <2>1. nreq + 1 # None
    BY GateFacts
  <2>2. \A v \in Users, t \in Sessions : v # u \/ t # s =>
            response'[v][t] = response[v][t]
    BY <1>2 DEF RequestStart, RequestConflict, GateInv, TypeOK
  <2>3. response'[u][s] = None => ~p'[response[u][s]].ready
    BY <1>2, <2>1 DEF RequestStart, RequestConflict, GateInv, TypeOK
  <2> QED BY <2>2, <2>3 DEF RetiredLate
<1>3. CASE Next
  <2>1. \A f \in Fds : Connect(f) \/ Warning(f) \/ Disconnect(f)
                         \/ RequestInvalid(f) => response' = response
    BY DEF Connect, Warning, Disconnect, RequestInvalid
  <2>2. \A u \in Users : Login(u) \/ Logout(u) => response' = response
    BY DEF Login, Logout
  <2>3. \A f \in Fds, u \in Users, idx \in 0..MaxHandshake, good \in BOOLEAN :
          AuthRefuse(f, u, idx, good) \/ AuthAccept(f, u, idx, good)
             => response' = response
    BY DEF AuthRefuse, AuthAccept
  <2>4. \A a \in authing, ok \in BOOLEAN : AuthReturn(a, ok)
             => response' = response
    BY DEF AuthReturn
  <2> QED
    BY <1>1, <1>2, <1>3, <2>1, <2>2, <2>3, <2>4, RequestFailStep,
       RequestAgainStep, RequestReturnStep DEF Next
<1>4. CASE UNCHANGED vars
  BY <1>1, <1>4 DEF vars
<1> QED BY <1>3, <1>4

\* conf.expired_number is honoured: retire_response removes a response only
\* after at least that many later ones of the same user, for every
\* expired_number and every interleaving of requests, reconnections and
\* answers from the cache.
THEOREM RetireKeepsExpiredNumberTheorem == Spec => RetireKeepsExpiredNumber
<1>1. GateInv /\ [Next]_vars => [RetiredLate]_vars
  BY NextRetiredLate
<1> QED
  BY <1>1, GateInvariant, PTL DEF Spec, RetireKeepsExpiredNumber
=============================================================================
