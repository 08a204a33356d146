------------------------- MODULE AgentSessionProofs -------------------------
(***************************************************************************)
(* Gamed knows only sessions that their Agents have, for any number of     *)
(* sessions, connections, Agents and kicks, and with every fault: timers,  *)
(* slow role logins and kicks from the web (SessionInv).  While no timer   *)
(* runs out a role is taken over whole by a newer session (TakeoverInv).   *)
(***************************************************************************)
EXTENDS AgentSession, TLAPS

\* The count that the role login under way will set is within its bound
RefInv ==
    rolelogin # None /\ rolelogin.pc \in {"afk", "logout"} =>
        AddRid(rolelogin.u).ref <= MaxRef

\* Usernames that login_handler has made and that Agent.login has added
Entered == (1..internal_id) \ entering

\* Only entered sessions are worked on, so a logout never meets its login; a
\* logout that is about to drop its session has made Gamed forget it
NamesInv ==
    /\ entering \subseteq 1..internal_id
    /\ AgentNames \subseteq Entered
    /\ \A t \in afks \cup logouts : t.u \in Entered
    /\ rolelogin # None /\ rolelogin.pc = "afk" => rolelogin.old \in Entered
    /\ username_map \subseteq AgentNames
    /\ \A t \in logouts : t.pc = "end" => t.u \notin username_map

SessionInv == TypeOK /\ RefInv /\ NamesInv

-----------------------------------------------------------------------------
(* The operators that actions share *)

\* A logout that is called is a logout of the session at its start.
LEMMA LogoutType ==
    ASSUME NEW u \in Names, NEW by \in {"timer", "stray", "login", "web"},
           NEW keeprole \in BOOLEAN
    PROVE  /\ Logout(u, by, keeprole) \in Logouts
           /\ Logout(u, by, keeprole).u = u
           /\ Logout(u, by, keeprole).pc = "start"
  BY DEF Logout, Logouts

\* An afk that goes on does so for its own session.
LEMMA AfkNext ==
    ASSUME NEW t \in Afks, NEW pc \in {"role", "end"}
    PROVE  [t EXCEPT !.pc = pc] \in Afks /\ [t EXCEPT !.pc = pc].u = t.u
  BY DEF Afks

\* A logout that goes on does so for its own session.
LEMMA LogoutNext ==
    ASSUME NEW t \in Logouts, NEW pc \in {"unload", "del", "gate", "end"},
           NEW clean \in BOOLEAN
    PROVE  /\ [t EXCEPT !.pc = pc] \in Logouts
           /\ [t EXCEPT !.pc = pc].u = t.u
           /\ [t EXCEPT !.pc = pc].pc = pc
           /\ [t EXCEPT !.pc = pc, !.clean = clean] \in Logouts
           /\ [t EXCEPT !.pc = pc, !.clean = clean].u = t.u
           /\ [t EXCEPT !.pc = pc, !.clean = clean].pc = pc
  BY DEF Logouts

\* What logouts that start where others may run leave of the invariant.
LEMMA NewLogouts ==
    ASSUME NamesInv, NEW u \in Entered, NEW S,
           \A t \in S : t.u = u /\ t.pc = "start"
    PROVE  /\ \A t \in logouts \cup S : t.u \in Entered
           /\ \A t \in logouts \cup S : t.pc = "end" => t.u \notin username_map
  BY DEF NamesInv

\* Every count of AgentMgr stays within its bounds when a session is dropped,
\* and the count that a role login would set does not grow.
LEMMA DelRidType ==
    ASSUME TypeOK, NEW u \in Names, NEW v \in Names
    PROVE  /\ DelRid(u) \in [username : Names, ref : 1..MaxRef] \cup {None}
           /\ AddRid(v).ref <= MaxRef =>
                 (IF DelRid(u) # None /\ DelRid(u).username = v
                    THEN DelRid(u).ref + 1 ELSE 1) <= MaxRef
  <1>1. AgentMgr \in [username : Names, ref : 1..MaxRef] \cup {None}
        /\ MaxRef \in Nat \ {0}
        /\ None \notin [username : Names, ref : 1..MaxRef]
    BY SessionAssumption DEF TypeOK
  <1>2. CASE AgentMgr = None
    BY <1>1, <1>2 DEF DelRid, AddRid
  <1>3. CASE AgentMgr # None
    <2> PICK n \in Names, r \in 1..MaxRef : AgentMgr = [username |-> n, ref |-> r]
      BY <1>1, <1>3
    <2>1. r - 1 \in Int /\ (r > 1 => r - 1 \in 1..MaxRef)
      BY <1>1
    <2>2. [AgentMgr EXCEPT !.ref = @ - 1] = [username |-> n, ref |-> r - 1]
      OBVIOUS
    <2> QED
      BY <1>1, <1>3, <2>1, <2>2 DEF DelRid, AddRid
  <1> QED
    BY <1>2, <1>3

-----------------------------------------------------------------------------
(* What every action keeps *)

\* The part of afk after the wait.
LEMMA GoAfkInv ==
    ASSUME SessionInv, NEW t \in Afks, t.u \in Entered, GoAfk(t)
    PROVE  /\ info' \in [Names -> Info]
           /\ afks' \subseteq Afks /\ logouts' \subseteq Logouts
           /\ \A s \in afks' \cup logouts' : s.u \in Entered
           /\ \A s \in logouts' : s.pc = "end" => s.u \notin username_map
  <1> USE DEF SessionInv
  <1>1. t.u \in Names /\ info \in [Names -> Info]
        /\ afks \subseteq Afks /\ logouts \subseteq Logouts
    BY DEF TypeOK, Afks
  <1>2. info' \in [Names -> Info]
    <2>1. info[t.u] \in Info
      BY <1>1
    <2>2. [info[t.u] EXCEPT !.state = "AFK", !.timer = TRUE,
                            !.stray = @ \/ info[t.u].timer] \in Info
      BY <2>1 DEF Info
    <2> QED
      BY <1>1, <2>2 DEF GoAfk
  <1>3. \A s \in AfterAfk(t) : s \in Logouts /\ s.u = t.u /\ s.pc = "start"
    <2>1. /\ Logout(t.u, "web", FALSE) \in Logouts
          /\ Logout(t.u, "web", FALSE).u = t.u
          /\ Logout(t.u, "web", FALSE).pc = "start"
      BY <1>1, LogoutType
    <2> QED
      BY <2>1 DEF AfterAfk
  <1>4. [t EXCEPT !.pc = "role"] \in Afks /\ [t EXCEPT !.pc = "role"].u = t.u
    BY AfkNext
  <1>5. /\ \A s \in logouts \cup AfterAfk(t) : s.u \in Entered
        /\ \A s \in logouts \cup AfterAfk(t) :
              s.pc = "end" => s.u \notin username_map
    BY <1>3, NewLogouts
  <1>6. logouts' = logouts \/ logouts' = logouts \cup AfterAfk(t)
    BY DEF GoAfk
  <1>7. afks' = afks \ {t} \/ afks' = (afks \ {t}) \cup {[t EXCEPT !.pc = "role"]}
    BY DEF GoAfk
  <1>8. \A s \in afks : s.u \in Entered
    BY DEF NamesInv
  <1> QED
    BY <1>1, <1>2, <1>3, <1>4, <1>5, <1>6, <1>7, <1>8

\* A call of afk.
LEMMA AfkInv ==
    ASSUME SessionInv, NEW u \in Names, NEW fd \in Fds,
           NEW by \in {"gate", "kick", "web"}, Afk(u, fd, by)
    PROVE  /\ info' \in [Names -> Info]
           /\ afks' \subseteq Afks /\ logouts' \subseteq Logouts
           /\ \A s \in afks' \cup logouts' : s.u \in Entered
           /\ \A s \in logouts' : s.pc = "end" => s.u \notin username_map
  <1> DEFINE t == [u |-> u, fd |-> fd, by |-> by, pc |-> "wait"]
  <1>1. t \in Afks /\ t.u = u
    BY DEF Afks
  <1>2. CASE UNCHANGED <<info, afks, logouts>>
    BY <1>2 DEF SessionInv, TypeOK, NamesInv
  <1>3. CASE u \in AgentNames /\ GoAfk(t)
    <2>1. t.u \in Entered
      BY <1>1, <1>3 DEF SessionInv, NamesInv
    <2> QED
      BY <1>1, <1>3, <2>1, GoAfkInv
  <1>4. CASE u \in AgentNames /\ afks' = afks \cup {t} /\ UNCHANGED <<info, logouts>>
    BY <1>1, <1>4 DEF SessionInv, TypeOK, NamesInv
  <1> QED
    BY <1>2, <1>3, <1>4 DEF Afk

\* An action that changes only info, afks, logouts, connections and kicks keeps
\* the invariant if it keeps these.
LEMMA CoroutineInv ==
    ASSUME SessionInv,
           UNCHANGED <<gamed, AgentNames, AgentUids, AgentMgr, role, rolelogin>>,
           connection' \in [Fds -> Names \cup {None}],
           nfd' \in 0..MaxFds, nkicks' \in 0..MaxKicks,
           kicks' \subseteq [u : Names, islogout : BOOLEAN],
           info' \in [Names -> Info],
           afks' \subseteq Afks, logouts' \subseteq Logouts,
           \A s \in afks' \cup logouts' : s.u \in Entered,
           \A s \in logouts' : s.pc = "end" => s.u \notin username_map
    PROVE  SessionInv'
  <1>1. TypeOK'
    BY DEF SessionInv, TypeOK, gamed, role
  <1>2. RefInv'
    BY DEF SessionInv, RefInv, AddRid
  <1>3. NamesInv'
    BY DEF SessionInv, NamesInv, Entered, gamed
  <1> QED
    BY <1>1, <1>2, <1>3 DEF SessionInv

-----------------------------------------------------------------------------
(* Gamed: login, connections *)

\* A new username is entering.
LEMMA LoginHandlerInv ==
    ASSUME SessionInv, NEW a \in Agents, LoginHandler(a) PROVE SessionInv'
  <1> USE SessionAssumption DEF SessionInv, LoginHandler, conns, agents, role, coroutines
  <1>1. internal_id \in Nat /\ internal_id + 1 \in Names
        /\ internal_id + 1 \in 0..MaxNames
    BY DEF TypeOK, Names
  <1>2. TypeOK'
    BY <1>1 DEF TypeOK
  <1>3. RefInv'
    BY DEF RefInv, AddRid
  <1>4. Entered' = Entered
    BY <1>1 DEF Entered
  <1>5. NamesInv'
    <2>1. entering' \subseteq 1..internal_id'
      BY <1>1 DEF NamesInv
    <2> QED
      BY <1>4, <2>1 DEF NamesInv
  <1> QED
    BY <1>2, <1>3, <1>5

\* A username that enters has no logout yet.
LEMMA LoginInv ==
    ASSUME SessionInv, NEW u \in Names, Login(u) PROVE SessionInv'
  <1> USE DEF SessionInv, Login, conns, role, coroutines
  <1>1. NewInfo \in Info
    BY DEF NewInfo, Info
  <1>2. TypeOK'
    BY <1>1 DEF TypeOK
  <1>3. RefInv'
    BY DEF RefInv, AddRid
  <1>4. Entered' = Entered \cup {u} /\ u \notin Entered
    BY DEF Entered, NamesInv
  <1>5. NamesInv'
    BY <1>4 DEF NamesInv
  <1> QED
    BY <1>2, <1>3, <1>5

\* A connection changes only what info says of its session.
LEMMA AuthInv ==
    ASSUME SessionInv, NEW u \in Names, Auth(u) PROVE SessionInv'
  <1> USE DEF SessionInv
  <1>1. nfd + 1 \in Fds /\ nfd + 1 \in 0..MaxFds
    BY SessionAssumption DEF TypeOK, Fds, Auth
  <1>2. info' \in [Names -> Info]
    <2>1. info \in [Names -> Info] /\ info[u] \in Info
      BY DEF TypeOK
    <2>2. [info[u] EXCEPT !.fd = nfd + 1, !.state = "OK",
                          !.timer = @ /\ info[u].state = "OK"] \in Info
      BY <1>1, <2>1 DEF Info
    <2> QED
      BY <2>1, <2>2 DEF Auth
  <1>3. connection' \in [Fds -> Names \cup {None}]
    BY <1>1 DEF Auth, TypeOK
  <1> QED
    BY <1>1, <1>2, <1>3, CoroutineInv
    DEF Auth, TypeOK, NamesInv, gamed, coroutines, role

\* A disconnect that Gamed reports calls afk of the session.
LEMMA DisconnectInv ==
    ASSUME SessionInv, NEW fd \in Fds, Disconnect(fd) PROVE SessionInv'
  <1> USE DEF SessionInv
  <1>1. /\ connection' \in [Fds -> Names \cup {None}]
        /\ nfd' \in 0..MaxFds /\ nkicks' \in 0..MaxKicks
        /\ kicks' \subseteq [u : Names, islogout : BOOLEAN]
        /\ UNCHANGED <<gamed, AgentNames, AgentUids, AgentMgr, role, rolelogin>>
    BY DEF Disconnect, TypeOK
  <1>2. /\ info' \in [Names -> Info]
        /\ afks' \subseteq Afks /\ logouts' \subseteq Logouts
        /\ \A s \in afks' \cup logouts' : s.u \in Entered
        /\ \A s \in logouts' : s.pc = "end" => s.u \notin username_map
    <2>1. CASE UNCHANGED <<info, afks, logouts>>
      BY <2>1 DEF TypeOK, NamesInv
    <2>2. CASE connection[fd] \in username_map /\ Afk(connection[fd], fd, "gate")
      <3>1. connection[fd] \in Names
        BY <2>2 DEF TypeOK
      <3> QED
        BY <2>2, <3>1, AfkInv
    <2> QED
      BY <2>1, <2>2 DEF Disconnect
  <1> QED
    BY <1>1, <1>2, CoroutineInv

-----------------------------------------------------------------------------
(* afk and kicks *)

\* A step of an afk.
LEMMA AfkStepInv ==
    ASSUME SessionInv, AfkStep PROVE SessionInv'
  <1> USE DEF SessionInv
  <1>1. PICK t \in afks : AfkWaited(t) \/ AfkRole(t) \/ AfkEnd(t)
    BY DEF AfkStep
  <1>2. t \in Afks /\ t.u \in Names /\ t.u \in Entered
    BY DEF TypeOK, NamesInv, Afks
  <1>3. CASE AfkWaited(t)
    <2>1. GoAfk(t)
      BY <1>3 DEF AfkWaited
    <2> QED
      BY <1>2, <1>3, <2>1, GoAfkInv, CoroutineInv DEF AfkWaited, TypeOK, conns
  <1>4. CASE AfkRole(t)
    <2>1. /\ afks' \subseteq Afks
          /\ \A s \in afks' : s.u \in Entered
      BY <1>2, <1>4, AfkNext DEF AfkRole, TypeOK, NamesInv
    <2>2. TypeOK'
      BY <1>4, <2>1 DEF AfkRole, TypeOK, gamed, conns, agents
    <2>3. RefInv'
      BY <1>4 DEF AfkRole, RefInv, AddRid
    <2>4. NamesInv'
      BY <1>4, <2>1 DEF AfkRole, NamesInv, Entered, gamed, agents
    <2> QED
      BY <2>2, <2>3, <2>4
  <1>5. CASE AfkEnd(t)
    <2>1. info' \in [Names -> Info]
      <3>1. info[t.u] \in Info
        BY <1>2 DEF TypeOK
      <3>2. [info[t.u] EXCEPT !.online = FALSE] \in Info
        BY <3>1 DEF Info
      <3> QED
        BY <1>5, <3>2 DEF AfkEnd, TypeOK
    <2>2. /\ Logout(t.u, "web", FALSE) \in Logouts
          /\ Logout(t.u, "web", FALSE).u = t.u
          /\ Logout(t.u, "web", FALSE).pc = "start"
      BY <1>2, LogoutType
    <2>3. \A s \in AfterAfk(t) : s \in Logouts /\ s.u = t.u /\ s.pc = "start"
      BY <2>2 DEF AfterAfk
    <2>4. /\ \A s \in logouts' : s.u \in Entered
          /\ \A s \in logouts' : s.pc = "end" => s.u \notin username_map
      BY <1>2, <1>5, <2>3, NewLogouts DEF AfkEnd
    <2>5. /\ afks' \subseteq Afks /\ logouts' \subseteq Logouts
          /\ \A s \in afks' : s.u \in Entered
      BY <1>5, <2>3 DEF AfkEnd, TypeOK, NamesInv
    <2> QED
      BY <1>5, <2>1, <2>4, <2>5, CoroutineInv DEF AfkEnd, TypeOK, conns
  <1> QED
    BY <1>1, <1>3, <1>4, <1>5

\* A kick is of a session that AgentMgr names.
LEMMA FindKickInv ==
    ASSUME SessionInv, NEW islogout \in BOOLEAN, FindKick(islogout)
    PROVE  SessionInv'
  <1> USE DEF SessionInv
  <1>1. nkicks' \in 0..MaxKicks
    BY SessionAssumption DEF FindKick, TypeOK
  <1>2. AgentMgr.username \in Names
    BY DEF FindKick, TypeOK
  <1>3. kicks' \subseteq [u : Names, islogout : BOOLEAN]
    BY <1>2 DEF FindKick, TypeOK
  <1> QED
    BY <1>1, <1>3, CoroutineInv DEF FindKick, TypeOK, NamesInv, agents

\* A kick of a session that has ended does nothing.
LEMMA KickInv ==
    ASSUME SessionInv, NEW k \in kicks, Kick(k) PROVE SessionInv'
  <1> USE DEF SessionInv
  <1> DEFINE u == k.u
             by == IF k.islogout THEN "web" ELSE "kick"
  <1>1. u \in Names
    BY DEF TypeOK
  <1>2. /\ info' \in [Names -> Info]
        /\ afks' \subseteq Afks /\ logouts' \subseteq Logouts
        /\ \A s \in afks' \cup logouts' : s.u \in Entered
        /\ \A s \in logouts' : s.pc = "end" => s.u \notin username_map
    <2>1. CASE UNCHANGED <<info, afks, logouts>>
      BY <2>1 DEF TypeOK, NamesInv
    <2>2. CASE info[u].fd # None /\ Afk(u, info[u].fd, by)
      <3>1. info[u].fd \in Fds
        BY <1>1, <2>2 DEF TypeOK, Info
      <3>2. by \in {"gate", "kick", "web"}
        OBVIOUS
      <3> QED
        BY <1>1, <2>2, <3>1, <3>2, AfkInv
    <2>3. CASE /\ u \in AgentNames
               /\ logouts' = logouts \cup AfterAfk([u |-> u, by |-> by])
               /\ UNCHANGED <<info, afks>>
      <3>1. /\ Logout(u, "web", FALSE) \in Logouts
            /\ Logout(u, "web", FALSE).u = u
            /\ Logout(u, "web", FALSE).pc = "start"
        BY <1>1, LogoutType
      <3>2. \A s \in AfterAfk([u |-> u, by |-> by]) :
               s \in Logouts /\ s.u = u /\ s.pc = "start"
        BY <3>1 DEF AfterAfk
      <3>3. u \in Entered
        BY <2>3 DEF NamesInv
      <3>4. /\ \A s \in logouts' : s.u \in Entered
            /\ \A s \in logouts' : s.pc = "end" => s.u \notin username_map
        BY <2>3, <3>2, <3>3, NewLogouts
      <3> QED
        BY <2>3, <3>2, <3>4 DEF TypeOK, NamesInv
    <2> QED
      BY <2>1, <2>2, <2>3 DEF Kick
  <1>3. kicks' \subseteq [u : Names, islogout : BOOLEAN]
    BY DEF Kick, TypeOK
  <1> QED
    BY <1>2, <1>3, CoroutineInv DEF Kick, TypeOK, conns

-----------------------------------------------------------------------------
(* logout *)

\* A timer starts a logout of a session that its Agent has.
LEMMA TimerFiresInv ==
    ASSUME SessionInv, NEW u \in Names, NEW stray \in BOOLEAN,
           TimerFires(u, stray)
    PROVE  SessionInv'
  <1> USE DEF SessionInv
  <1> DEFINE by == IF stray THEN "stray" ELSE "timer"
  <1>1. info' \in [Names -> Info]
    <2>1. info[u] \in Info
      BY DEF TypeOK
    <2>2. [info[u] EXCEPT !.timer = @ /\ stray, !.stray = @ /\ ~stray] \in Info
      BY <2>1 DEF Info
    <2> QED
      BY <2>2 DEF TimerFires, TypeOK
  <1>2. by \in {"timer", "stray", "login", "web"}
    OBVIOUS
  <1>3. /\ Logout(u, by, FALSE) \in Logouts
        /\ Logout(u, by, FALSE).u = u
        /\ Logout(u, by, FALSE).pc = "start"
    BY <1>2, LogoutType
  <1>4. logouts' = logouts \cup {Logout(u, by, FALSE)} /\ u \in Entered
    BY DEF TimerFires, NamesInv
  <1> HIDE DEF by
  <1>5. /\ \A s \in logouts' : s.u \in Entered
        /\ \A s \in logouts' : s.pc = "end" => s.u \notin username_map
    BY <1>3, <1>4 DEF NamesInv
  <1>6. logouts' \subseteq Logouts
    BY <1>3, <1>4 DEF TypeOK
  <1> QED
    BY <1>1, <1>5, <1>6, CoroutineInv DEF TimerFires, TypeOK, NamesInv, conns

\* A logout that goes on, but not to its end, keeps the invariant if what else
\* it changes keeps its type.
LEMMA BecomeInv ==
    ASSUME SessionInv, NEW t \in logouts, NEW s \in Logouts,
           s.u = t.u, s.pc # "end", Become(t, s)
    PROVE  /\ logouts' \subseteq Logouts
           /\ \A r \in logouts' : r.u \in Entered
           /\ \A r \in logouts' : r.pc = "end" => r.u \notin username_map
  BY DEF SessionInv, TypeOK, NamesInv, Become

\* The call of Gamed is a step of the logout.
LEMMA CallGateInv ==
    ASSUME SessionInv, NEW t \in logouts, NEW owner, CallGate(t, owner)
    PROVE  /\ logouts' \subseteq Logouts
           /\ \A r \in logouts' : r.u \in Entered
           /\ \A r \in logouts' : r.pc = "end" => r.u \notin username_map
  <1> DEFINE clean == owner = None /\ ~t.keeprole
             s == [t EXCEPT !.pc = "gate", !.clean = clean]
  <1>1. t \in Logouts
    BY DEF SessionInv, TypeOK
  <1>2. clean \in BOOLEAN
    BY <1>1 DEF Logouts
  <1>3. s \in Logouts /\ s.u = t.u /\ s.pc = "gate"
    <2>1. \A c \in BOOLEAN :
             /\ [t EXCEPT !.pc = "gate", !.clean = c] \in Logouts
             /\ [t EXCEPT !.pc = "gate", !.clean = c].u = t.u
             /\ [t EXCEPT !.pc = "gate", !.clean = c].pc = "gate"
      BY <1>1 DEF Logouts
    <2> QED
      BY <1>2, <2>1
  <1>4. Become(t, s)
    BY DEF CallGate
  <1> QED
    BY <1>3, <1>4, BecomeInv

\* A step of a logout.
LEMMA LogoutStepInv ==
    ASSUME SessionInv, LogoutStep PROVE SessionInv'
  <1> USE DEF SessionInv
  <1>1. PICK t \in logouts :
           \/ LogoutStart(t) \/ LogoutUnload(t) \/ LogoutDelRid(t)
           \/ LogoutHandler(t) \/ LogoutEnd(t)
    BY DEF LogoutStep
  <1>2. t \in Logouts /\ t.u \in Names /\ t.u \in Entered
    BY DEF TypeOK, NamesInv, Logouts
  <1>3. CASE LogoutStart(t)
    <2>1. info' \in [Names -> Info]
      <3>1. info[t.u] \in Info
        BY <1>2 DEF TypeOK
      <3>2. [info[t.u] EXCEPT !.timer = FALSE] \in Info
        BY <3>1 DEF Info
      <3> QED
        BY <1>3, <3>2 DEF LogoutStart, TypeOK
    <2>2. /\ logouts' \subseteq Logouts
          /\ \A r \in logouts' : r.u \in Entered
          /\ \A r \in logouts' : r.pc = "end" => r.u \notin username_map
      <3>1. CASE logouts' = logouts \ {t}
        BY <3>1 DEF TypeOK, NamesInv
      <3>2. CASE Become(t, [t EXCEPT !.pc = "del"])
        <4>1. [t EXCEPT !.pc = "del"] \in Logouts /\ [t EXCEPT !.pc = "del"].u = t.u
              /\ [t EXCEPT !.pc = "del"].pc = "del"
          BY <1>2 DEF Logouts
        <4> QED
          BY <3>2, <4>1, BecomeInv
      <3>3. CASE Become(t, [t EXCEPT !.pc = "unload"])
        <4>1. [t EXCEPT !.pc = "unload"] \in Logouts
              /\ [t EXCEPT !.pc = "unload"].u = t.u
              /\ [t EXCEPT !.pc = "unload"].pc = "unload"
          BY <1>2 DEF Logouts
        <4> QED
          BY <3>3, <4>1, BecomeInv
      <3>4. CASE CallGate(t, AgentUids[home[t.u]])
        BY <3>4, CallGateInv
      <3> QED
        BY <1>3, <3>1, <3>2, <3>3, <3>4 DEF LogoutStart
    <2> QED
      BY <1>3, <2>1, <2>2, CoroutineInv DEF LogoutStart, TypeOK, NamesInv, conns
  <1>4. CASE LogoutUnload(t)
    <2>1. [t EXCEPT !.pc = "del"] \in Logouts /\ [t EXCEPT !.pc = "del"].u = t.u
          /\ [t EXCEPT !.pc = "del"].pc = "del"
      BY <1>2 DEF Logouts
    <2>2. /\ logouts' \subseteq Logouts
          /\ \A r \in logouts' : r.u \in Entered
          /\ \A r \in logouts' : r.pc = "end" => r.u \notin username_map
      BY <1>4, <2>1, BecomeInv DEF LogoutUnload
    <2>3. TypeOK'
      BY <1>4, <2>2 DEF LogoutUnload, TypeOK, gamed, conns, agents
    <2>4. RefInv'
      BY <1>4 DEF LogoutUnload, RefInv, AddRid
    <2>5. NamesInv'
      BY <1>4, <2>2 DEF LogoutUnload, NamesInv, Entered, gamed, agents
    <2> QED
      BY <2>3, <2>4, <2>5
  <1>5. CASE LogoutDelRid(t)
    <2>1. /\ logouts' \subseteq Logouts
          /\ \A r \in logouts' : r.u \in Entered
          /\ \A r \in logouts' : r.pc = "end" => r.u \notin username_map
      BY <1>5, CallGateInv DEF LogoutDelRid
    <2>2. AgentMgr' \in [username : Names, ref : 1..MaxRef] \cup {None}
      BY <1>2, <1>5, DelRidType DEF LogoutDelRid
    <2>3. AgentUids' \in [Agents -> Names \cup {None}]
      BY <1>5 DEF LogoutDelRid, TypeOK
    <2>4. TypeOK'
      BY <1>5, <2>1, <2>2, <2>3 DEF LogoutDelRid, TypeOK, gamed, conns, role
    <2>5. RefInv'
      <3>1. SUFFICES ASSUME rolelogin # None, rolelogin.pc \in {"afk", "logout"}
                     PROVE  (AddRid(rolelogin.u).ref <= MaxRef)'
        BY <1>5 DEF RefInv, LogoutDelRid
      <3>2. rolelogin.u \in Names
        BY <3>1 DEF TypeOK, RoleLogins
      <3>3. AddRid(rolelogin.u).ref <= MaxRef
        BY <3>1 DEF RefInv
      <3> QED
        BY <1>2, <1>5, <3>2, <3>3, DelRidType DEF LogoutDelRid, AddRid
    <2>6. NamesInv'
      BY <1>5, <2>1 DEF LogoutDelRid, NamesInv, Entered, gamed
    <2> QED
      BY <2>4, <2>5, <2>6
  <1>6. CASE LogoutHandler(t)
    <2>1. [t EXCEPT !.pc = "end"] \in Logouts /\ [t EXCEPT !.pc = "end"].u = t.u
      BY <1>2 DEF Logouts
    <2>2. logouts' = (logouts \ {t}) \cup {[t EXCEPT !.pc = "end"]}
      BY <1>6 DEF LogoutHandler, Become
    <2>3. TypeOK'
      BY <1>6, <2>1, <2>2 DEF LogoutHandler, TypeOK, conns, agents, role
    <2>4. RefInv'
      BY <1>6 DEF LogoutHandler, RefInv, AddRid
    <2>5. NamesInv'
      BY <1>2, <1>6, <2>1, <2>2 DEF LogoutHandler, NamesInv, Entered, agents
    <2> QED
      BY <2>3, <2>4, <2>5
  <1>7. CASE LogoutEnd(t)
    <2>1. TypeOK'
      BY <1>7 DEF LogoutEnd, TypeOK, gamed, conns, role
    <2>2. RefInv'
      BY <1>7 DEF LogoutEnd, RefInv, AddRid
    <2>3. NamesInv'
      BY <1>7 DEF LogoutEnd, NamesInv, Entered, gamed
    <2> QED
      BY <2>1, <2>2, <2>3
  <1> QED
    BY <1>1, <1>3, <1>4, <1>5, <1>6, <1>7

-----------------------------------------------------------------------------
(* onRolelogin *)

\* A role login logs out only a session that its Agent has.
LEMMA RoleLoginInv ==
    ASSUME SessionInv, NEW u \in Names, RoleLogin(u) PROVE SessionInv'
  <1> USE DEF SessionInv
  <1> DEFINE old == AgentUids[home[u]]
             kicked == old \notin {None, u}
             afk == kicked /\ info[old].state = "OK" /\ info[old].online
  <1>1. /\ old \in Names \cup {None}
        /\ old = None \/ old \in AgentNames
        /\ AddRid(u).ref <= MaxRef
        /\ rolelogin' = [u |-> u, old |-> old, keeprole |-> old # None,
                         pc |-> IF afk THEN "afk" ELSE "logout"]
        /\ logouts' = IF kicked /\ ~afk
                        THEN logouts \cup {Logout(old, "login", TRUE)} ELSE logouts
        /\ UNCHANGED <<gamed, conns, agents, AgentMgr, role, afks, kicks>>
    BY DEF RoleLogin, TypeOK
  <1>2. kicked => old \in AgentNames /\ old \in Entered /\ old \in Names
    BY <1>1 DEF NamesInv
  <1>3. kicked => /\ Logout(old, "login", TRUE) \in Logouts
                  /\ Logout(old, "login", TRUE).u = old
                  /\ Logout(old, "login", TRUE).pc = "start"
    BY <1>2, LogoutType
  <1>4. rolelogin' \in RoleLogins /\ rolelogin'.u = u /\ rolelogin'.old = old
        /\ (rolelogin'.pc = "afk" => kicked)
    BY <1>1 DEF RoleLogins
  <1> HIDE DEF old, kicked, afk
  <1>5. TypeOK'
    BY <1>1, <1>3, <1>4 DEF TypeOK, gamed, conns, agents, role
  <1>6. RefInv'
    BY <1>1, <1>4 DEF RefInv, AddRid
  <1>7. NamesInv'
    <2>1. /\ \A s \in logouts' : s.u \in Entered
          /\ \A s \in logouts' : s.pc = "end" => s.u \notin username_map
      BY <1>1, <1>2, <1>3 DEF NamesInv
    <2> QED
      BY <1>1, <1>2, <1>4, <2>1 DEF NamesInv, Entered, gamed, agents
  <1> QED
    BY <1>5, <1>6, <1>7

\* A step of a role login.
LEMMA RoleLoginStepInv ==
    ASSUME SessionInv, RoleLoginStep PROVE SessionInv'
  <1> USE DEF SessionInv
  <1>1. rolelogin \in RoleLogins /\ rolelogin.u \in Names
        /\ None \notin RoleLogins
    BY SessionAssumption
    DEF RoleLoginStep, RoleLoginAfk, RoleLoginAddRid, RoleLoginLoad, RoleLoginSet,
        RoleLoginPush, TypeOK, RoleLogins
  <1>2. \A pc \in {"logout", "load", "set", "push"} :
           /\ [rolelogin EXCEPT !.pc = pc] \in RoleLogins
           /\ [rolelogin EXCEPT !.pc = pc].u = rolelogin.u
           /\ [rolelogin EXCEPT !.pc = pc].pc = pc
    BY <1>1 DEF RoleLogins
  <1>3. CASE RoleLoginAfk
    <2>1. rolelogin.old \in Entered /\ rolelogin.old \in Names
      BY <1>3, SessionAssumption DEF RoleLoginAfk, NamesInv, Entered, TypeOK, Names
    <2>2. /\ Logout(rolelogin.old, "login", TRUE) \in Logouts
          /\ Logout(rolelogin.old, "login", TRUE).u = rolelogin.old
          /\ Logout(rolelogin.old, "login", TRUE).pc = "start"
      BY <2>1, LogoutType
    <2>3. TypeOK'
      BY <1>2, <1>3, <2>2 DEF RoleLoginAfk, TypeOK, gamed, conns, agents
    <2>4. RefInv'
      BY <1>2, <1>3 DEF RoleLoginAfk, RefInv, AddRid
    <2>5. NamesInv'
      BY <1>2, <1>3, <2>1, <2>2
      DEF RoleLoginAfk, NamesInv, Entered, gamed, agents
    <2> QED
      BY <2>3, <2>4, <2>5
  <1>4. CASE RoleLoginAddRid
    <2>1. AddRid(rolelogin.u) \in [username : Names, ref : 1..MaxRef]
      <3>1. AddRid(rolelogin.u).ref <= MaxRef
        BY <1>4 DEF RoleLoginAddRid, RefInv
      <3>2. AgentMgr # None => AgentMgr.ref \in 1..MaxRef
        BY DEF TypeOK
      <3> QED
        BY <1>1, <3>1, <3>2, SessionAssumption DEF AddRid
    <2>2. TypeOK'
      BY <1>2, <1>4, <2>1 DEF RoleLoginAddRid, TypeOK, gamed, conns, agents, role
    <2>3. RefInv'
      BY <1>2, <1>4 DEF RoleLoginAddRid, RefInv
    <2>4. NamesInv'
      BY <1>2, <1>4 DEF RoleLoginAddRid, NamesInv, Entered, gamed, agents
    <2> QED
      BY <2>2, <2>3, <2>4
  <1>5. CASE RoleLoginLoad
    <2>1. TypeOK'
      BY <1>1, <1>2, <1>5
      DEF RoleLoginLoad, TypeOK, RoleLogins, gamed, conns, agents
    <2>2. RefInv'
      BY <1>2, <1>5 DEF RoleLoginLoad, RefInv
    <2>3. NamesInv'
      BY <1>2, <1>5 DEF RoleLoginLoad, NamesInv, Entered, gamed, agents
    <2> QED
      BY <2>1, <2>2, <2>3
  <1>6. CASE RoleLoginSet
    <2>1. info' \in [Names -> Info]
      <3>1. info[rolelogin.u] \in Info
        BY <1>1 DEF TypeOK
      <3>2. [info[rolelogin.u] EXCEPT !.rid = TRUE] \in Info
        BY <3>1 DEF Info
      <3> QED
        BY <1>6, <3>2 DEF RoleLoginSet, TypeOK
    <2>2. AgentUids' \in [Agents -> Names \cup {None}]
      BY <1>1, <1>6 DEF RoleLoginSet, TypeOK
    <2>3. TypeOK'
      BY <1>2, <1>6, <2>1, <2>2 DEF RoleLoginSet, TypeOK, gamed, conns
    <2>4. RefInv'
      BY <1>2, <1>6 DEF RoleLoginSet, RefInv
    <2>5. NamesInv'
      BY <1>2, <1>6 DEF RoleLoginSet, NamesInv, Entered, gamed
    <2> QED
      BY <2>3, <2>4, <2>5
  <1>7. CASE RoleLoginPush
    <2>1. info' \in [Names -> Info]
      <3>1. info[rolelogin.u] \in Info
        BY <1>1 DEF TypeOK
      <3>2. [info[rolelogin.u] EXCEPT !.online = TRUE] \in Info
        BY <3>1 DEF Info
      <3> QED
        BY <1>7, <3>2 DEF RoleLoginPush, TypeOK
    <2>2. TypeOK'
      BY <1>7, <2>1 DEF RoleLoginPush, TypeOK, gamed, conns, role
    <2>3. RefInv'
      BY <1>7 DEF RoleLoginPush, RefInv
    <2>4. NamesInv'
      BY <1>7 DEF RoleLoginPush, NamesInv, Entered, gamed
    <2> QED
      BY <2>2, <2>3, <2>4
  <1> QED
    BY <1>3, <1>4, <1>5, <1>6, <1>7 DEF RoleLoginStep

-----------------------------------------------------------------------------
(* The theorems *)

\* The invariant holds at the start.
LEMMA InitInv == Init => SessionInv
  <1> SUFFICES ASSUME Init PROVE SessionInv
    OBVIOUS
  <1> USE SessionAssumption DEF Init
  <1>1. NewInfo \in Info
    BY DEF NewInfo, Info
  <1>2. (CHOOSE a \in Agents : TRUE) \in Agents
    OBVIOUS
  <1>3. TypeOK
    <2>1. home \in [Names -> Agents]
      BY <1>2
    <2>2. info \in [Names -> Info]
      BY <1>1
    <2>3. /\ internal_id \in 0..MaxNames /\ nfd \in 0..MaxFds
          /\ nkicks \in 0..MaxKicks
      OBVIOUS
    <2>4. /\ connection \in [Fds -> Names \cup {None}]
          /\ AgentUids \in [Agents -> Names \cup {None}]
      OBVIOUS
    <2> QED
      BY <2>1, <2>2, <2>3, <2>4 DEF TypeOK
  <1>4. RefInv /\ NamesInv
    BY DEF RefInv, NamesInv
  <1> QED
    BY <1>3, <1>4 DEF SessionInv

\* Every step keeps the invariant.
LEMMA NextInv == SessionInv /\ [Next]_vars => SessionInv'
  <1> SUFFICES ASSUME SessionInv, [Next]_vars PROVE SessionInv'
    OBVIOUS
  <1>1. CASE UNCHANGED vars
    <2> USE <1>1 DEF vars, gamed, conns, agents, role, coroutines
    <2>1. TypeOK'
      BY DEF SessionInv, TypeOK
    <2>2. RefInv'
      BY DEF SessionInv, RefInv, AddRid
    <2>3. NamesInv'
      BY DEF SessionInv, NamesInv, Entered
    <2> QED
      BY <2>1, <2>2, <2>3 DEF SessionInv
  <1>2. CASE \E k \in kicks : Kick(k)
    BY <1>2, KickInv
  <1> QED
    BY <1>1, <1>2, LoginHandlerInv, LoginInv, AuthInv, RoleLoginInv, DisconnectInv,
       TimerFiresInv, FindKickInv, AfkStepInv, LogoutStepInv, RoleLoginStepInv
    DEF Next

\* SessionInv is an invariant of every behaviour.
LEMMA AlwaysInv == Spec => []SessionInv
  BY InitInv, NextInv, PTL DEF Spec

\* The state of Gamed, the Agents and AgentMgr always has its type; in
\* particular no count of AgentMgr is 0, whatever the order of addRid, delRid
\* and their coroutines.
THEOREM TypeOKTheorem == Spec => []TypeOK
  <1>1. SessionInv => TypeOK
    BY DEF SessionInv
  <1> QED
    BY <1>1, AlwaysInv, PTL

\* With every fault Gamed passes connections and requests only to sessions that
\* their Agent has: a logout drops a session only after logout_handler has
\* forgotten it, and no logout overtakes the login of its session.
THEOREM NamesKnownTheorem == Spec => []NamesKnown
  <1>1. SessionInv => NamesKnown
    BY DEF SessionInv, NamesInv, NamesKnown
  <1> QED
    BY <1>1, AlwaysInv, PTL

-----------------------------------------------------------------------------
(* The takeover of a role by a newer session, while no timer runs out *)

\* No timer runs out and nobody is kicked from the web, so that only a role
\* login of a newer session logs a session out.  Role logins may be slow.
TakeoversOnly == Env \subseteq {"slow"}

\* The session that has the role, in the one Agent of the account
Owner == IF uid_agent = None THEN None ELSE AgentUids[uid_agent]

\* The account stays with its first Agent
OneAgentInv ==
    /\ \A u \in 1..internal_id : home[u] = uid_agent
    /\ \A a \in Agents : AgentUids[a] # None => a = uid_agent

\* A logout is the one that the role login under way waits for
LogoutInv ==
    /\ \A t \in logouts :
          /\ t.by = "login" /\ t.keeprole = TRUE /\ t.clean = FALSE
          /\ t.pc # "unload" /\ t.u \in AgentNames
          /\ rolelogin # None /\ rolelogin.pc = "logout"
          /\ rolelogin.old = t.u /\ rolelogin.u # t.u
          /\ Owner = IF t.pc \in {"start", "del"} THEN t.u ELSE None
    /\ \A t, s \in logouts : t = s
    /\ \A t \in afks : t.by # "web"
    /\ \A k \in kicks : k.islogout = FALSE

\* The owner of the role has its data and its route, and every session that was
\* given the role is the owner or about to be dropped
OwnerInv ==
    /\ Owner # None => /\ Owner \in AgentNames /\ info[Owner].rid = TRUE
                       /\ loaded = TRUE
                       /\ AgentMgr # None /\ AgentMgr.username = Owner
    /\ \A v \in AgentNames :
          info[v].rid = TRUE =>
             Owner = v \/ \E t \in logouts : t.u = v /\ t.pc \in {"gate", "end"}
    /\ \A v \in AgentNames : info[v].online = TRUE => info[v].rid = TRUE

\* What a role login knows of the session that it takes the role from
TakesInv ==
    /\ rolelogin = None => (loaded = TRUE => Owner # None)
    /\ rolelogin # None =>
          /\ rolelogin.u \in AgentNames
          /\ rolelogin.keeprole = TRUE <=> rolelogin.old # None
          /\ rolelogin.pc \in {"afk", "logout", "load"} =>
                (loaded = TRUE <=> rolelogin.keeprole = TRUE)
          /\ rolelogin.pc \in {"set", "push"} => loaded = TRUE
          /\ rolelogin.pc = "afk" =>
                /\ Owner = rolelogin.old
                /\ rolelogin.old \notin {None, rolelogin.u}
          /\ rolelogin.pc \in {"logout", "load", "set"} /\ logouts = {} =>
                Owner = IF rolelogin.old = rolelogin.u THEN rolelogin.u ELSE None
          /\ rolelogin.pc \in {"load", "set", "push"} =>
                AgentMgr # None /\ AgentMgr.username = rolelogin.u
          /\ rolelogin.pc = "push" => Owner = rolelogin.u

TakeoverInv == OneAgentInv /\ LogoutInv /\ OwnerInv /\ TakesInv

\* What the lemmas below start from.
LEMMA TakeoverFacts ==
    ASSUME SessionInv, TakeoverInv
    PROVE  /\ \A u \in AgentNames : /\ u \in Names /\ u \in 1..internal_id
                                    /\ home[u] = uid_agent /\ uid_agent \in Agents
                                    /\ AgentUids[home[u]] = Owner
           /\ Owner \in Names \cup {None} /\ None \notin Names
           /\ rolelogin # None => rolelogin \in RoleLogins
           /\ logouts # {} => /\ rolelogin # None /\ rolelogin.pc = "logout"
           /\ \A u \in Names : info[u] \in Info
  <1>1. \A u \in AgentNames : u \in Names /\ u \in 1..internal_id
    BY DEF SessionInv, TypeOK, NamesInv, Entered
  <1>2. \A u \in AgentNames : home[u] = uid_agent /\ uid_agent \in Agents
    BY <1>1 DEF SessionInv, TypeOK, TakeoverInv, OneAgentInv
  <1>3. None \notin Agents /\ None \notin Names
    BY SessionAssumption
  <1>4. \A u \in AgentNames : AgentUids[home[u]] = Owner
    BY <1>2, <1>3 DEF Owner
  <1>5. Owner \in Names \cup {None}
    BY DEF Owner, SessionInv, TypeOK
  <1>6. /\ rolelogin # None => rolelogin \in RoleLogins
        /\ \A u \in Names : info[u] \in Info
    BY DEF SessionInv, TypeOK
  <1>7. logouts # {} => rolelogin # None /\ rolelogin.pc = "logout"
    BY DEF TakeoverInv, LogoutInv
  <1> QED
    BY <1>1, <1>2, <1>3, <1>4, <1>5, <1>6, <1>7

\* A step beside the takeover: it gives no session the role, and neither the
\* owner of the role nor a logout goes on.
Aside ==
    /\ UNCHANGED <<uid_agent, internal_id, home, AgentNames, AgentUids, AgentMgr,
                   loaded, rolelogin, logouts>>
    /\ \A v \in Names : /\ info'[v].rid = info[v].rid
                        /\ info'[v].online = TRUE => info[v].online = TRUE
    /\ \A t \in afks' : t.by # "web"
    /\ \A k \in kicks' : k.islogout = FALSE

\* Such a step keeps the invariant.
LEMMA AsideTakeover ==
    ASSUME SessionInv, TakeoverInv, Aside
    PROVE  TakeoverInv'
  <1>1. /\ UNCHANGED <<uid_agent, internal_id, home, AgentNames, AgentUids,
                       AgentMgr, loaded, rolelogin, logouts>>
        /\ Owner' = Owner
    BY DEF Aside, Owner
  <1>2. \A v \in AgentNames : v \in Names
    BY TakeoverFacts
  <1>3. OneAgentInv'
    BY <1>1 DEF TakeoverInv, OneAgentInv
  <1>4. LogoutInv'
    BY <1>1 DEF Aside, TakeoverInv, LogoutInv
  <1>5. OwnerInv'
    <2>1. Owner # None => Owner \in Names
      BY TakeoverFacts
    <2>2. \A v \in Names : /\ info'[v].rid = info[v].rid
                           /\ info'[v].online = TRUE => info[v].online = TRUE
      BY DEF Aside
    <2> QED
      BY <1>1, <1>2, <2>1, <2>2 DEF TakeoverInv, OwnerInv
  <1>6. TakesInv'
    BY <1>1 DEF TakeoverInv, TakesInv
  <1> QED
    BY <1>3, <1>4, <1>5, <1>6 DEF TakeoverInv

\* The part of afk after the wait is such a step: nothing calls logout after
\* the afk of a lost connection or of a heart beat.
LEMMA GoAfkAside ==
    ASSUME SessionInv, TakeoverInv, NEW t \in Afks, t.by # "web", GoAfk(t)
    PROVE  /\ logouts' = logouts
           /\ \A v \in Names : /\ info'[v].rid = info[v].rid
                               /\ info'[v].online = info[v].online
           /\ \A s \in afks' : s.by # "web"
  <1>1. logouts' = logouts
    BY DEF GoAfk, AfterAfk
  <1>2. \A v \in Names : /\ info'[v].rid = info[v].rid
                         /\ info'[v].online = info[v].online
    <2>1. info \in [Names -> Info]
      BY DEF SessionInv, TypeOK
    <2>2. info' = [info EXCEPT ![t.u].state = "AFK", ![t.u].timer = TRUE,
                               ![t.u].stray = @ \/ info[t.u].timer]
      BY DEF GoAfk
    <2> QED
      BY <2>1, <2>2 DEF Info
  <1>3. [t EXCEPT !.pc = "role"].by = t.by
    BY DEF Afks
  <1>4. afks' = afks \ {t} \/ afks' = (afks \ {t}) \cup {[t EXCEPT !.pc = "role"]}
    BY DEF GoAfk
  <1>5. \A s \in afks' : s.by # "web"
    BY <1>3, <1>4 DEF TakeoverInv, LogoutInv
  <1> QED
    BY <1>1, <1>2, <1>5

\* So is a call of afk.
LEMMA AfkAside ==
    ASSUME SessionInv, TakeoverInv, NEW u \in Names, NEW fd \in Fds,
           NEW by \in {"gate", "kick"}, Afk(u, fd, by)
    PROVE  /\ logouts' = logouts
           /\ \A v \in Names : /\ info'[v].rid = info[v].rid
                               /\ info'[v].online = info[v].online
           /\ \A s \in afks' : s.by # "web"
  <1> DEFINE t == [u |-> u, fd |-> fd, by |-> by, pc |-> "wait"]
  <1>1. t \in Afks /\ t.by # "web"
    BY DEF Afks
  <1>2. CASE UNCHANGED <<info, afks, logouts>>
    BY <1>2 DEF TakeoverInv, LogoutInv
  <1>3. CASE GoAfk(t)
    BY <1>1, <1>3, GoAfkAside
  <1>4. CASE afks' = afks \cup {t} /\ UNCHANGED <<info, logouts>>
    BY <1>1, <1>4 DEF TakeoverInv, LogoutInv
  <1> QED
    BY <1>2, <1>3, <1>4 DEF Afk

\* Connections, disconnects, afks and kicks are steps beside the takeover.
LEMMA AsideSteps ==
    ASSUME TakeoversOnly, SessionInv, TakeoverInv,
           \/ \E u \in Names : Auth(u)
           \/ \E fd \in Fds : Disconnect(fd)
           \/ \E islogout \in BOOLEAN : FindKick(islogout)
           \/ \E k \in kicks : Kick(k)
           \/ AfkStep
    PROVE  Aside
  <1>1. /\ info \in [Names -> Info] /\ AgentNames \subseteq Names
        /\ afks \subseteq Afks
        /\ \A t \in afks : t.by # "web"
        /\ \A k \in kicks : k.islogout = FALSE
        /\ "web" \notin Env
    BY DEF SessionInv, TypeOK, TakeoverInv, LogoutInv, TakeoversOnly
  <1>2. ASSUME NEW u \in Names, Auth(u) PROVE Aside
    <2>1. \A v \in Names : /\ info'[v].rid = info[v].rid
                           /\ info'[v].online = info[v].online
      BY <1>1, <1>2 DEF Auth, Info
    <2> QED
      BY <1>1, <1>2, <2>1 DEF Aside, Auth, gamed, role, coroutines
  <1>3. ASSUME NEW fd \in Fds, Disconnect(fd) PROVE Aside
    <2>1. /\ logouts' = logouts
          /\ \A v \in Names : /\ info'[v].rid = info[v].rid
                              /\ info'[v].online = info[v].online
          /\ \A s \in afks' : s.by # "web"
      <3>1. CASE UNCHANGED <<info, afks, logouts>>
        BY <1>1, <3>1
      <3>2. CASE connection[fd] \in username_map /\ Afk(connection[fd], fd, "gate")
        <4>1. connection[fd] \in Names
          BY <3>2 DEF SessionInv, TypeOK
        <4> QED
          BY <3>2, <4>1, AfkAside
      <3> QED
        BY <1>3, <3>1, <3>2 DEF Disconnect
    <2> QED
      BY <1>1, <1>3, <2>1 DEF Aside, Disconnect, gamed, role
  <1>4. ASSUME NEW islogout \in BOOLEAN, FindKick(islogout) PROVE Aside
    <2>1. islogout = FALSE
      BY <1>1, <1>4 DEF FindKick
    <2> QED
      BY <1>1, <1>4, <2>1 DEF Aside, FindKick, gamed, agents, role
  <1>5. ASSUME NEW k \in kicks, Kick(k) PROVE Aside
    <2>1. k.u \in Names /\ k.islogout = FALSE
      BY <1>1 DEF SessionInv, TypeOK
    <2>2. /\ logouts' = logouts
          /\ \A v \in Names : /\ info'[v].rid = info[v].rid
                              /\ info'[v].online = info[v].online
          /\ \A s \in afks' : s.by # "web"
      <3>1. CASE UNCHANGED <<info, afks, logouts>>
        BY <1>1, <3>1
      <3>2. CASE info[k.u].fd # None /\ Afk(k.u, info[k.u].fd, "kick")
        <4>1. info[k.u].fd \in Fds
          BY <1>1, <2>1, <3>2 DEF Info
        <4> QED
          BY <2>1, <3>2, <4>1, AfkAside
      <3>3. CASE /\ logouts' = logouts \cup AfterAfk([u |-> k.u, by |-> "kick"])
                 /\ UNCHANGED <<info, afks>>
        BY <1>1, <3>3 DEF AfterAfk
      <3> QED
        BY <1>5, <2>1, <3>1, <3>2, <3>3 DEF Kick
    <2> QED
      BY <1>1, <1>5, <2>2 DEF Aside, Kick, gamed, role
  <1>6. CASE AfkStep
    <2>1. PICK t \in afks : AfkWaited(t) \/ AfkRole(t) \/ AfkEnd(t)
      BY <1>6 DEF AfkStep
    <2>2. t \in Afks /\ t.by # "web" /\ t.u \in Names
      BY <1>1 DEF Afks
    <2>3. CASE AfkWaited(t)
      <3>1. /\ logouts' = logouts
            /\ \A v \in Names : /\ info'[v].rid = info[v].rid
                                /\ info'[v].online = info[v].online
            /\ \A s \in afks' : s.by # "web"
        BY <2>2, <2>3, GoAfkAside DEF AfkWaited
      <3> QED
        BY <1>1, <2>3, <3>1 DEF Aside, AfkWaited, gamed, role
    <2>4. CASE AfkRole(t)
      <3>1. [t EXCEPT !.pc = "end"].by = t.by
        BY <2>2 DEF Afks
      <3>2. \A s \in afks' : s.by # "web"
        BY <1>1, <2>2, <2>4, <3>1 DEF AfkRole
      <3> QED
        BY <1>1, <2>4, <3>2 DEF Aside, AfkRole, gamed, agents
    <2>5. CASE AfkEnd(t)
      <3>1. logouts' = logouts
        BY <2>2, <2>5 DEF AfkEnd, AfterAfk
      <3>2. \A v \in Names : /\ info'[v].rid = info[v].rid
                             /\ info'[v].online = TRUE => info[v].online = TRUE
        <4>1. info' = [info EXCEPT ![t.u].online = FALSE]
          BY <2>5 DEF AfkEnd
        <4> QED
          BY <1>1, <4>1 DEF Info
      <3> QED
        BY <1>1, <2>5, <3>1, <3>2 DEF Aside, AfkEnd, gamed, role
    <2> QED
      BY <2>1, <2>3, <2>4, <2>5
  <1> QED
    BY <1>2, <1>3, <1>4, <1>5, <1>6

\* A new session of the account is given the same Agent.
LEMMA LoginHandlerTakeover ==
    ASSUME SessionInv, TakeoverInv, NEW a \in Agents, LoginHandler(a)
    PROVE  TakeoverInv'
  <1> USE DEF LoginHandler, conns, agents, role, coroutines
  <1>1. /\ uid_agent \in {None, a} /\ uid_agent' = a
        /\ internal_id \in 0..MaxNames /\ internal_id' = internal_id + 1
        /\ internal_id + 1 \in Names /\ None \notin Agents
        /\ home \in [Names -> Agents]
        /\ home' = [home EXCEPT ![internal_id + 1] = a]
        /\ UNCHANGED <<AgentUids, AgentNames, AgentMgr, info, loaded, rolelogin,
                       logouts, afks, kicks>>
    BY SessionAssumption DEF SessionInv, TypeOK, Names
  <1>2. OneAgentInv'
    <2>1. \A u \in 1..internal_id : u \in Names /\ home[u] = uid_agent
      BY <1>1, SessionAssumption DEF TakeoverInv, OneAgentInv, Names
    <2>2. \A u \in 1..internal_id : uid_agent = a
      BY <1>1, <2>1
    <2>3. \A u \in 1..internal_id' : u \in 1..internal_id \/ u = internal_id + 1
      BY <1>1
    <2>4. \A u \in 1..internal_id : home'[u] = a
      BY <1>1, <2>1, <2>2
    <2>5. home'[internal_id + 1] = a
      BY <1>1
    <2>6. \A b \in Agents : AgentUids[b] # None => b = a
      BY <1>1 DEF TakeoverInv, OneAgentInv
    <2> QED
      BY <1>1, <2>3, <2>4, <2>5, <2>6 DEF OneAgentInv
  <1>3. Owner' = Owner
    BY <1>1 DEF TakeoverInv, OneAgentInv, Owner
  <1>4. LogoutInv'
    BY <1>1, <1>3 DEF TakeoverInv, LogoutInv
  <1>5. OwnerInv'
    BY <1>1, <1>3 DEF TakeoverInv, OwnerInv
  <1>6. TakesInv'
    BY <1>1, <1>3 DEF TakeoverInv, TakesInv
  <1> QED
    BY <1>2, <1>4, <1>5, <1>6 DEF TakeoverInv

\* A session that enters has no role.
LEMMA LoginTakeover ==
    ASSUME SessionInv, TakeoverInv, NEW u \in Names, Login(u)
    PROVE  TakeoverInv'
  <1> USE DEF Login, conns, role, coroutines
  <1>1. /\ AgentNames' = AgentNames \cup {u} /\ u \notin AgentNames
        /\ info' = [info EXCEPT ![u] = NewInfo] /\ info \in [Names -> Info]
        /\ AgentNames \subseteq Names
        /\ UNCHANGED <<uid_agent, internal_id, home, AgentUids, AgentMgr, loaded,
                       rolelogin, logouts, afks, kicks>>
    BY DEF SessionInv, TypeOK, NamesInv, Entered
  <1>2. /\ info'[u].rid = FALSE /\ info'[u].online = FALSE
        /\ \A v \in AgentNames : info'[v] = info[v]
    BY <1>1 DEF NewInfo
  <1>3. Owner' = Owner
    BY <1>1 DEF Owner
  <1>4. OneAgentInv'
    BY <1>1 DEF TakeoverInv, OneAgentInv
  <1>5. LogoutInv'
    BY <1>1, <1>3 DEF TakeoverInv, LogoutInv
  <1>6. OwnerInv'
    BY <1>1, <1>2, <1>3 DEF TakeoverInv, OwnerInv
  <1>7. TakesInv'
    BY <1>1, <1>3 DEF TakeoverInv, TakesInv
  <1> QED
    BY <1>4, <1>5, <1>6, <1>7 DEF TakeoverInv

\* A role login takes the role from the session that has it.
LEMMA RoleLoginTakeover ==
    ASSUME SessionInv, TakeoverInv, NEW u \in Names, RoleLogin(u)
    PROVE  TakeoverInv'
  <1> DEFINE kicked == Owner \notin {None, u}
             afk == kicked /\ info[Owner].state = "OK" /\ info[Owner].online
  <1>1. u \in AgentNames /\ rolelogin = None
    BY DEF RoleLogin
  <1>2. /\ AgentUids[home[u]] = Owner /\ Owner \in Names \cup {None}
        /\ None \notin Names /\ logouts = {}
    BY <1>1, TakeoverFacts
  <1>3. /\ rolelogin' = [u |-> u, old |-> Owner, keeprole |-> Owner # None,
                         pc |-> IF afk THEN "afk" ELSE "logout"]
        /\ logouts' = IF kicked /\ ~afk
                        THEN logouts \cup {Logout(Owner, "login", TRUE)} ELSE logouts
        /\ UNCHANGED <<gamed, conns, agents, AgentMgr, role, afks, kicks>>
    BY <1>2 DEF RoleLogin
  <1>4. /\ UNCHANGED <<uid_agent, internal_id, home, AgentNames, AgentUids, info,
                       AgentMgr, loaded, afks, kicks>>
    BY <1>3 DEF gamed, agents, role
  <1>5. Owner' = Owner
    BY <1>4 DEF Owner
  <1>6. None \notin RoleLogins /\ rolelogin' \in RoleLogins
    BY <1>2, <1>3, SessionAssumption DEF RoleLogins
  <1>7. /\ rolelogin' # None
        /\ rolelogin'.u = u /\ rolelogin'.old = Owner
        /\ rolelogin'.keeprole = (Owner # None)
        /\ rolelogin'.pc = IF afk THEN "afk" ELSE "logout"
    BY <1>3, <1>6
  <1>8. /\ Logout(Owner, "login", TRUE).u = Owner
        /\ Logout(Owner, "login", TRUE).by = "login"
        /\ Logout(Owner, "login", TRUE).keeprole = TRUE
        /\ Logout(Owner, "login", TRUE).clean = FALSE
        /\ Logout(Owner, "login", TRUE).pc = "start"
    BY DEF Logout
  <1>9. logouts' = {} \/ (kicked /\ ~afk /\ logouts' = {Logout(Owner, "login", TRUE)})
    BY <1>2, <1>3
  <1>10. kicked /\ ~afk => logouts' # {}
    BY <1>2, <1>3
  <1>11. /\ Owner # None => /\ Owner \in AgentNames /\ loaded = TRUE
         /\ loaded = TRUE => Owner # None
    BY <1>1 DEF TakeoverInv, OwnerInv, TakesInv
  <1>12. OneAgentInv'
    BY <1>4 DEF TakeoverInv, OneAgentInv
  <1>13. LogoutInv'
    <2>1. (\A t \in afks : t.by # "web") /\ (\A k \in kicks : k.islogout = FALSE)
      BY DEF TakeoverInv, LogoutInv
    <2>2. CASE logouts' = {}
      BY <1>4, <2>1, <2>2 DEF LogoutInv
    <2>3. CASE kicked /\ ~afk /\ logouts' = {Logout(Owner, "login", TRUE)}
      <3>1. Owner \in AgentNames /\ rolelogin'.pc = "logout" /\ rolelogin'.u # Owner
        BY <1>7, <1>11, <2>3
      <3> QED
        BY <1>4, <1>5, <1>7, <1>8, <2>1, <2>3, <3>1 DEF LogoutInv
    <2> QED
      BY <1>9, <2>2, <2>3
  <1>14. OwnerInv'
    <2>1. \A v \in AgentNames : info[v].rid = TRUE => Owner = v
      BY <1>2 DEF TakeoverInv, OwnerInv
    <2> QED
      BY <1>4, <1>5, <2>1 DEF TakeoverInv, OwnerInv
  <1>15. TakesInv'
    <2>1. rolelogin'.keeprole = TRUE <=> rolelogin'.old # None
      BY <1>7
    <2>2. rolelogin'.pc = "afk" =>
             Owner = rolelogin'.old /\ rolelogin'.old \notin {None, rolelogin'.u}
      BY <1>7
    <2>3. rolelogin'.pc = "logout" /\ logouts' = {} =>
             Owner = IF rolelogin'.old = rolelogin'.u THEN rolelogin'.u ELSE None
      BY <1>7, <1>10
    <2>4. rolelogin'.pc \in {"afk", "logout"}
      BY <1>7
    <2>5. loaded = TRUE <=> rolelogin'.keeprole = TRUE
      BY <1>7, <1>11
    <2> HIDE DEF kicked, afk
    <2> QED
      BY <1>1, <1>4, <1>5, <1>7, <2>1, <2>2, <2>3, <2>4, <2>5 DEF TakesInv
  <1> QED
    BY <1>12, <1>13, <1>14, <1>15 DEF TakeoverInv

\* The logout of the old session: the role leaves it before it is dropped.
LEMMA LogoutTakeover ==
    ASSUME SessionInv, TakeoverInv, LogoutStep
    PROVE  TakeoverInv'
  <1>1. PICK t \in logouts :
           \/ LogoutStart(t) \/ LogoutUnload(t) \/ LogoutDelRid(t)
           \/ LogoutHandler(t) \/ LogoutEnd(t)
    BY DEF LogoutStep
  <1>2. /\ t \in Logouts /\ t.u \in Names /\ t.u \in AgentNames
        /\ t.by = "login" /\ t.keeprole = TRUE /\ t.clean = FALSE
        /\ t.pc # "unload"
        /\ rolelogin # None /\ rolelogin.pc = "logout"
        /\ rolelogin.old = t.u /\ rolelogin.u # t.u
        /\ Owner = IF t.pc \in {"start", "del"} THEN t.u ELSE None
        /\ logouts = {t}
        /\ \A s \in afks : s.by # "web"
        /\ \A k \in kicks : k.islogout = FALSE
        /\ rolelogin.u \in AgentNames
    BY DEF SessionInv, TypeOK, Logouts, TakeoverInv, LogoutInv, TakesInv
  <1>3. /\ home[t.u] = uid_agent /\ uid_agent \in Agents
        /\ None \notin Names /\ None \notin Agents
        /\ info \in [Names -> Info] /\ AgentNames \subseteq Names
        /\ AgentUids \in [Agents -> Names \cup {None}]
    BY <1>2, TakeoverFacts, SessionAssumption DEF SessionInv, TypeOK
  <1>4. \A v \in AgentNames : info[v].online = TRUE => info[v].rid = TRUE
    BY DEF TakeoverInv, OwnerInv
  <1>5. ASSUME NEW s, s.u = t.u, s.by = "login", s.keeprole = TRUE,
               s.clean = FALSE, s.pc # "unload", logouts' = {s},
               Owner' = IF s.pc \in {"start", "del"} THEN t.u ELSE None,
               UNCHANGED <<AgentNames, rolelogin, afks, kicks>>
        PROVE  LogoutInv'
    BY <1>2, <1>5 DEF LogoutInv
  <1>6. CASE LogoutStart(t)
    <2>1. t.pc = "start" /\ Owner = t.u /\ info[t.u].rid = TRUE
      BY <1>2, <1>3, <1>6 DEF LogoutStart, TakeoverInv, OwnerInv
    <2> DEFINE s == [t EXCEPT !.pc = "del"]
    <2>2. /\ logouts' = {s} /\ info' = [info EXCEPT ![t.u].timer = FALSE]
          /\ UNCHANGED <<uid_agent, internal_id, home, AgentNames, AgentUids,
                         AgentMgr, loaded, rolelogin, afks, kicks>>
      BY <1>2, <1>6, <2>1 DEF LogoutStart, Become, gamed, role
    <2>3. /\ s.u = t.u /\ s.by = "login" /\ s.keeprole = TRUE /\ s.clean = FALSE
          /\ s.pc = "del"
      BY <1>2 DEF Logouts
    <2> HIDE DEF s
    <2>4. Owner' = Owner
      BY <2>2 DEF Owner
    <2>5. LogoutInv'
      BY <1>5, <2>1, <2>2, <2>3, <2>4
    <2>6. \A v \in Names : info'[v].rid = info[v].rid /\ info'[v].online = info[v].online
      BY <1>3, <2>2 DEF Info
    <2>7. OwnerInv'
      <3>1. \A v \in AgentNames : info[v].rid = TRUE => Owner = v
        BY <1>2, <2>1 DEF TakeoverInv, OwnerInv
      <3>2. Owner \in Names
        BY <1>2, <2>1
      <3> QED
        BY <1>3, <1>4, <2>2, <2>4, <2>6, <3>1, <3>2 DEF TakeoverInv, OwnerInv
    <2>8. OneAgentInv'
      BY <2>2 DEF TakeoverInv, OneAgentInv
    <2>9. TakesInv'
      BY <1>2, <2>2, <2>4 DEF TakeoverInv, TakesInv
    <2> QED
      BY <2>5, <2>7, <2>8, <2>9 DEF TakeoverInv
  <1>7. ~LogoutUnload(t)
    BY <1>2 DEF LogoutUnload
  <1>8. CASE LogoutDelRid(t)
    <2>1. t.pc = "del" /\ Owner = t.u
      BY <1>2, <1>8 DEF LogoutDelRid
    <2> DEFINE s == [t EXCEPT !.pc = "gate", !.clean = FALSE]
    <2>2. /\ logouts' = {s}
          /\ AgentUids' = [AgentUids EXCEPT ![uid_agent] = None]
          /\ UNCHANGED <<uid_agent, internal_id, home, AgentNames, info, loaded,
                         rolelogin, afks, kicks>>
      BY <1>2, <1>3, <1>8 DEF LogoutDelRid, CallGate, Become, gamed, role
    <2>3. /\ s.u = t.u /\ s.by = "login" /\ s.keeprole = TRUE /\ s.clean = FALSE
          /\ s.pc = "gate"
      BY <1>2 DEF Logouts
    <2> HIDE DEF s
    <2>4. Owner' = None
      BY <1>3, <2>2 DEF Owner
    <2>5. LogoutInv'
      BY <1>5, <2>2, <2>3, <2>4
    <2>6. OwnerInv'
      <3>1. \A v \in AgentNames : info[v].rid = TRUE => v = t.u
        BY <1>2, <1>3, <2>1 DEF TakeoverInv, OwnerInv
      <3> QED
        <4>1. \A v \in AgentNames' :
                 info'[v].rid = TRUE =>
                    \E r \in logouts' : r.u = v /\ r.pc \in {"gate", "end"}
          BY <2>2, <2>3, <3>1
        <4> QED
          BY <1>4, <2>2, <2>4, <4>1 DEF OwnerInv
    <2>7. OneAgentInv'
      BY <1>3, <2>2 DEF TakeoverInv, OneAgentInv
    <2>8. TakesInv'
      BY <1>2, <2>2, <2>4 DEF TakeoverInv, TakesInv
    <2> QED
      BY <2>5, <2>6, <2>7, <2>8 DEF TakeoverInv
  <1>9. CASE LogoutHandler(t)
    <2>1. t.pc = "gate" /\ Owner = None
      BY <1>2, <1>9 DEF LogoutHandler
    <2> DEFINE s == [t EXCEPT !.pc = "end"]
    <2>2. /\ logouts' = {s}
          /\ UNCHANGED <<uid_agent, internal_id, home, AgentNames, AgentUids, info,
                         AgentMgr, loaded, rolelogin, afks, kicks>>
      BY <1>2, <1>9 DEF LogoutHandler, Become, agents, role
    <2>3. /\ s.u = t.u /\ s.by = "login" /\ s.keeprole = TRUE /\ s.clean = FALSE
          /\ s.pc = "end"
      BY <1>2 DEF Logouts
    <2> HIDE DEF s
    <2>4. Owner' = None
      BY <2>1, <2>2 DEF Owner
    <2>5. LogoutInv'
      BY <1>5, <2>2, <2>3, <2>4
    <2>6. OwnerInv'
      <3>1. \A v \in AgentNames : info[v].rid = TRUE => v = t.u
        BY <1>2, <1>3, <2>1 DEF TakeoverInv, OwnerInv
      <3> QED
        <4>1. \A v \in AgentNames' :
                 info'[v].rid = TRUE =>
                    \E r \in logouts' : r.u = v /\ r.pc \in {"gate", "end"}
          BY <2>2, <2>3, <3>1
        <4> QED
          BY <1>4, <2>2, <2>4, <4>1 DEF OwnerInv
    <2>7. OneAgentInv'
      BY <2>2 DEF TakeoverInv, OneAgentInv
    <2>8. TakesInv'
      BY <1>2, <2>1, <2>2, <2>4 DEF TakeoverInv, TakesInv
    <2> QED
      BY <2>5, <2>6, <2>7, <2>8 DEF TakeoverInv
  <1>10. CASE LogoutEnd(t)
    <2>1. t.pc = "end" /\ Owner = None
      BY <1>2, <1>10 DEF LogoutEnd
    <2>2. /\ logouts' = {} /\ AgentNames' = AgentNames \ {t.u}
          /\ UNCHANGED <<uid_agent, internal_id, home, AgentUids, info,
                         AgentMgr, loaded, rolelogin, afks, kicks>>
      BY <1>2, <1>10 DEF LogoutEnd, gamed, role
    <2>3. Owner' = None
      BY <2>1, <2>2 DEF Owner
    <2>4. LogoutInv'
      BY <1>2, <2>2 DEF LogoutInv
    <2>5. OwnerInv'
      <3>1. \A v \in AgentNames : info[v].rid = TRUE => v = t.u
        BY <1>2, <1>3, <2>1 DEF TakeoverInv, OwnerInv
      <3> QED
        BY <1>4, <2>2, <2>3, <3>1 DEF OwnerInv
    <2>6. OneAgentInv'
      BY <2>2 DEF TakeoverInv, OneAgentInv
    <2>7. TakesInv'
      BY <1>2, <2>2, <2>3 DEF TakeoverInv, TakesInv
    <2> QED
      BY <2>4, <2>5, <2>6, <2>7 DEF TakeoverInv
  <1> QED
    BY <1>1, <1>6, <1>7, <1>8, <1>9, <1>10

\* The steps of a role login after the old session is gone.
LEMMA RoleLoginStepTakeover ==
    ASSUME SessionInv, TakeoverInv, RoleLoginStep
    PROVE  TakeoverInv'
  <1>1. /\ rolelogin # None /\ rolelogin \in RoleLogins /\ rolelogin.u \in Names
        /\ None \notin RoleLogins
    BY SessionAssumption
    DEF RoleLoginStep, RoleLoginAfk, RoleLoginAddRid, RoleLoginLoad, RoleLoginSet,
        RoleLoginPush, SessionInv, TypeOK, RoleLogins
  <1>2. \A pc \in {"logout", "load", "set", "push"} :
           /\ [rolelogin EXCEPT !.pc = pc] \in RoleLogins
           /\ [rolelogin EXCEPT !.pc = pc].u = rolelogin.u
           /\ [rolelogin EXCEPT !.pc = pc].old = rolelogin.old
           /\ [rolelogin EXCEPT !.pc = pc].keeprole = rolelogin.keeprole
           /\ [rolelogin EXCEPT !.pc = pc].pc = pc
    BY <1>1 DEF RoleLogins
  <1>3. /\ rolelogin.u \in AgentNames
        /\ rolelogin.keeprole = TRUE <=> rolelogin.old # None
        /\ rolelogin.pc # "logout" => logouts = {}
        /\ \A t \in afks : t.by # "web"
        /\ \A k \in kicks : k.islogout = FALSE
    BY <1>1 DEF TakeoverInv, LogoutInv, TakesInv
  <1>4. /\ home[rolelogin.u] = uid_agent /\ uid_agent \in Agents
        /\ None \notin Names /\ None \notin Agents
        /\ info \in [Names -> Info] /\ AgentNames \subseteq Names
        /\ AgentUids \in [Agents -> Names \cup {None}]
        /\ Owner \in Names \cup {None}
        /\ loaded \in BOOLEAN /\ rolelogin.keeprole \in BOOLEAN
    BY <1>1, <1>3, TakeoverFacts, SessionAssumption
    DEF SessionInv, TypeOK, RoleLogins
  <1>5. CASE RoleLoginAfk
    <2>1. /\ rolelogin.pc = "afk" /\ Owner = rolelogin.old
          /\ rolelogin.old \notin {None, rolelogin.u}
          /\ logouts = {}
      BY <1>1, <1>3, <1>5 DEF RoleLoginAfk, TakeoverInv, TakesInv
    <2> DEFINE s == Logout(rolelogin.old, "login", TRUE)
    <2>2. /\ s.u = Owner /\ s.by = "login" /\ s.keeprole = TRUE /\ s.clean = FALSE
          /\ s.pc = "start"
      BY <2>1 DEF Logout
    <2>3. /\ logouts' = {s} /\ rolelogin' = [rolelogin EXCEPT !.pc = "logout"]
          /\ UNCHANGED <<uid_agent, internal_id, home, AgentNames, AgentUids, info,
                         AgentMgr, loaded, afks, kicks>>
      BY <1>5, <2>1 DEF RoleLoginAfk, gamed, agents
    <2> HIDE DEF s
    <2>4. /\ rolelogin' # None /\ rolelogin'.u = rolelogin.u
          /\ rolelogin'.old = rolelogin.old
          /\ rolelogin'.keeprole = rolelogin.keeprole
          /\ rolelogin'.pc = "logout"
      BY <1>1, <1>2, <2>3
    <2>5. Owner' = Owner
      BY <2>3 DEF Owner
    <2>6. LogoutInv'
      <3>1. Owner \in AgentNames
        BY <2>1 DEF TakeoverInv, OwnerInv
      <3> QED
        BY <1>3, <2>1, <2>2, <2>3, <2>4, <2>5, <3>1 DEF LogoutInv
    <2>7. OwnerInv'
      <3>1. \A v \in AgentNames : info[v].rid = TRUE => Owner = v
        BY <2>1 DEF TakeoverInv, OwnerInv
      <3> QED
        BY <2>3, <2>5, <3>1 DEF TakeoverInv, OwnerInv
    <2>8. OneAgentInv'
      BY <2>3 DEF TakeoverInv, OneAgentInv
    <2>9. TakesInv'
      <3>1. loaded = TRUE <=> rolelogin.keeprole = TRUE
        BY <1>1, <2>1 DEF TakeoverInv, TakesInv
      <3>2. logouts' # {}
        BY <2>3
      <3> QED
        BY <1>3, <2>3, <2>4, <3>1, <3>2 DEF TakesInv
    <2> QED
      BY <2>6, <2>7, <2>8, <2>9 DEF TakeoverInv
  <1>6. CASE RoleLoginAddRid
    <2>1. rolelogin.pc = "logout" /\ logouts = {}
      BY <1>6 DEF RoleLoginAddRid, TakeoverInv, LogoutInv
    <2>2. /\ Owner = IF rolelogin.old = rolelogin.u THEN rolelogin.u ELSE None
          /\ loaded = TRUE <=> rolelogin.keeprole = TRUE
      BY <1>1, <2>1 DEF TakeoverInv, TakesInv
    <2>3. /\ rolelogin' = [rolelogin EXCEPT !.pc = "load"]
          /\ AgentMgr' = AddRid(rolelogin.u)
          /\ UNCHANGED <<uid_agent, internal_id, home, AgentNames, AgentUids, info,
                         loaded, logouts, afks, kicks>>
      BY <1>6 DEF RoleLoginAddRid, gamed, agents, role
    <2>4. /\ rolelogin' # None /\ rolelogin'.u = rolelogin.u
          /\ rolelogin'.old = rolelogin.old
          /\ rolelogin'.keeprole = rolelogin.keeprole
          /\ rolelogin'.pc = "load"
      BY <1>1, <1>2, <2>3
    <2>5. Owner' = Owner
      BY <2>3 DEF Owner
    <2>6. AgentMgr' # None /\ AgentMgr'.username = rolelogin.u
      <3>1. AgentMgr'.username = rolelogin.u
        BY <2>3 DEF AddRid
      <3>2. AddRid(rolelogin.u) \in [username : Names, ref : 1..MaxRef]
        <4>1. AddRid(rolelogin.u).ref <= MaxRef
          BY <1>1, <2>1 DEF SessionInv, RefInv
        <4>2. AgentMgr # None => AgentMgr.ref \in 1..MaxRef
          BY DEF SessionInv, TypeOK
        <4> QED
          BY <1>1, <4>1, <4>2, SessionAssumption DEF AddRid
      <3> QED
        BY <2>3, <3>1, <3>2, SessionAssumption
    <2>7. LogoutInv'
      BY <1>3, <2>1, <2>3 DEF LogoutInv
    <2>8. OwnerInv'
      <3>1. Owner # None => Owner = rolelogin.u
        BY <2>2
      <3> QED
        BY <2>3, <2>5, <2>6, <3>1 DEF TakeoverInv, OwnerInv
    <2>9. OneAgentInv'
      BY <2>3 DEF TakeoverInv, OneAgentInv
    <2>10. TakesInv'
      BY <1>3, <2>2, <2>3, <2>4, <2>5, <2>6 DEF TakesInv
    <2> QED
      BY <2>7, <2>8, <2>9, <2>10 DEF TakeoverInv
  <1>7. CASE RoleLoginLoad
    <2>1. rolelogin.pc = "load" /\ logouts = {}
      BY <1>3, <1>7 DEF RoleLoginLoad
    <2>2. /\ Owner = IF rolelogin.old = rolelogin.u THEN rolelogin.u ELSE None
          /\ loaded = TRUE <=> rolelogin.keeprole = TRUE
          /\ AgentMgr # None /\ AgentMgr.username = rolelogin.u
      BY <1>1, <2>1 DEF TakeoverInv, TakesInv
    <2>3. /\ rolelogin' = [rolelogin EXCEPT !.pc = "set"] /\ loaded' = TRUE
          /\ UNCHANGED <<uid_agent, internal_id, home, AgentNames, AgentUids, info,
                         AgentMgr, logouts, afks, kicks>>
      BY <1>4, <1>7, <2>2 DEF RoleLoginLoad, gamed, agents
    <2>4. /\ rolelogin' # None /\ rolelogin'.u = rolelogin.u
          /\ rolelogin'.old = rolelogin.old
          /\ rolelogin'.keeprole = rolelogin.keeprole
          /\ rolelogin'.pc = "set"
      BY <1>1, <1>2, <2>3
    <2>5. Owner' = Owner
      BY <2>3 DEF Owner
    <2>6. LogoutInv'
      BY <1>3, <2>1, <2>3 DEF LogoutInv
    <2>7. OwnerInv'
      BY <2>3, <2>5 DEF TakeoverInv, OwnerInv
    <2>8. OneAgentInv'
      BY <2>3 DEF TakeoverInv, OneAgentInv
    <2>9. TakesInv'
      BY <1>3, <2>2, <2>3, <2>4, <2>5 DEF TakesInv
    <2> QED
      BY <2>6, <2>7, <2>8, <2>9 DEF TakeoverInv
  <1>8. CASE RoleLoginSet
    <2>1. rolelogin.pc = "set" /\ logouts = {}
      BY <1>3, <1>8 DEF RoleLoginSet
    <2>2. /\ Owner = IF rolelogin.old = rolelogin.u THEN rolelogin.u ELSE None
          /\ loaded = TRUE
          /\ AgentMgr # None /\ AgentMgr.username = rolelogin.u
      BY <1>1, <2>1 DEF TakeoverInv, TakesInv
    <2>3. /\ rolelogin' = [rolelogin EXCEPT !.pc = "push"]
          /\ AgentUids' = [AgentUids EXCEPT ![uid_agent] = rolelogin.u]
          /\ info' = [info EXCEPT ![rolelogin.u].rid = TRUE]
          /\ UNCHANGED <<uid_agent, internal_id, home, AgentNames,
                         AgentMgr, loaded, logouts, afks, kicks>>
      BY <1>4, <1>8 DEF RoleLoginSet, gamed
    <2>4. /\ rolelogin' # None /\ rolelogin'.u = rolelogin.u
          /\ rolelogin'.old = rolelogin.old
          /\ rolelogin'.keeprole = rolelogin.keeprole
          /\ rolelogin'.pc = "push"
      BY <1>1, <1>2, <2>3
    <2>5. Owner' = rolelogin.u
      BY <1>4, <2>3 DEF Owner
    <2>6. LogoutInv'
      BY <1>3, <2>1, <2>3 DEF LogoutInv
    <2>7. OwnerInv'
      <3>1. /\ info'[rolelogin.u].rid = TRUE
            /\ \A v \in AgentNames :
                  /\ info'[v].online = info[v].online
                  /\ v # rolelogin.u => info'[v].rid = info[v].rid
        <4>1. PICK u \in Names : u = rolelogin.u
          BY <1>1
        <4>2. info' = [info EXCEPT ![u] = [info[u] EXCEPT !.rid = TRUE]]
          BY <2>3, <4>1
        <4>3. info[u] \in Info
          BY <1>4
        <4>4. /\ [info[u] EXCEPT !.rid = TRUE].rid = TRUE
              /\ [info[u] EXCEPT !.rid = TRUE].online = info[u].online
          BY <4>3 DEF Info
        <4>5. info'[u].rid = TRUE /\ info'[u].online = info[u].online
          BY <1>4, <4>2, <4>4
        <4>6. \A v \in AgentNames : v # u => info'[v] = info[v]
          BY <1>4, <4>2
        <4> QED
          BY <4>1, <4>5, <4>6
      <3>2. \A v \in AgentNames : info[v].rid = TRUE => v = rolelogin.u
        BY <1>4, <2>1, <2>2 DEF TakeoverInv, OwnerInv
      <3>3. \A v \in AgentNames : info[v].online = TRUE => info[v].rid = TRUE
        BY DEF TakeoverInv, OwnerInv
      <3>4. rolelogin.u # None
        BY <1>1, <1>4
      <3>5. \A v \in AgentNames : info'[v].rid = TRUE => v = rolelogin.u
        BY <3>1, <3>2
      <3>6. \A v \in AgentNames : info'[v].online = TRUE => info'[v].rid = TRUE
        BY <3>1, <3>3
      <3> QED
        BY <1>3, <2>2, <2>3, <2>5, <3>1, <3>4, <3>5, <3>6 DEF OwnerInv
    <2>8. OneAgentInv'
      BY <1>4, <2>3 DEF TakeoverInv, OneAgentInv
    <2>9. TakesInv'
      BY <1>3, <2>2, <2>3, <2>4, <2>5 DEF TakesInv
    <2> QED
      BY <2>6, <2>7, <2>8, <2>9 DEF TakeoverInv
  <1>9. CASE RoleLoginPush
    <2>1. rolelogin.pc = "push" /\ logouts = {}
      BY <1>3, <1>9 DEF RoleLoginPush
    <2>2. Owner = rolelogin.u /\ loaded = TRUE
      BY <1>1, <2>1 DEF TakeoverInv, TakesInv
    <2>3. /\ rolelogin' = None
          /\ info' = [info EXCEPT ![rolelogin.u].online = TRUE]
          /\ UNCHANGED <<uid_agent, internal_id, home, AgentNames, AgentUids,
                         AgentMgr, loaded, logouts, afks, kicks>>
      BY <1>9 DEF RoleLoginPush, gamed, role
    <2>4. Owner' = Owner /\ Owner # None
      BY <1>1, <1>4, <2>2, <2>3 DEF Owner
    <2>5. LogoutInv'
      BY <1>3, <2>1, <2>3 DEF LogoutInv
    <2>6. OwnerInv'
      <3>1. \A v \in AgentNames :
               /\ info'[v].rid = info[v].rid
               /\ v # rolelogin.u => info'[v].online = info[v].online
        BY <1>1, <1>4, <2>3 DEF Info
      <3>2. /\ Owner \in AgentNames /\ info[Owner].rid = TRUE
            /\ AgentMgr # None /\ AgentMgr.username = Owner
        BY <2>4 DEF TakeoverInv, OwnerInv
      <3>3. \A v \in AgentNames : info[v].rid = TRUE => Owner = v
        BY <2>1 DEF TakeoverInv, OwnerInv
      <3>4. \A v \in AgentNames : info'[v].online = TRUE => info'[v].rid = TRUE
        BY <2>2, <3>1, <3>2 DEF TakeoverInv, OwnerInv
      <3> QED
        BY <2>2, <2>3, <2>4, <3>1, <3>2, <3>3, <3>4 DEF OwnerInv
    <2>7. OneAgentInv'
      BY <2>3 DEF TakeoverInv, OneAgentInv
    <2>8. TakesInv'
      BY <2>3, <2>4 DEF TakesInv
    <2> QED
      BY <2>5, <2>6, <2>7, <2>8 DEF TakeoverInv
  <1> QED
    BY <1>5, <1>6, <1>7, <1>8, <1>9 DEF RoleLoginStep

\* While only role logins end sessions, the invariant of the takeover holds in
\* every state.
LEMMA AlwaysTakeover ==
    ASSUME TakeoversOnly PROVE Spec => [](SessionInv /\ TakeoverInv)
  <1>1. Init => TakeoverInv
    BY DEF Init, TakeoverInv, OneAgentInv, LogoutInv, OwnerInv, TakesInv, Owner
  <1>2. SessionInv /\ TakeoverInv /\ [Next]_vars => TakeoverInv'
    <2> SUFFICES ASSUME SessionInv, TakeoverInv, [Next]_vars PROVE TakeoverInv'
      OBVIOUS
    <2>1. CASE UNCHANGED vars
      <3>1. Aside
        BY <2>1 DEF Aside, vars, gamed, conns, agents, role, coroutines,
                    TakeoverInv, LogoutInv
      <3> QED
        BY <3>1, AsideTakeover
    <2>2. ASSUME NEW u \in Names, NEW stray \in BOOLEAN, TimerFires(u, stray)
          PROVE  FALSE
      BY <2>2 DEF TimerFires, TakeoversOnly
    <2>3. CASE \/ \E u \in Names : Auth(u)
               \/ \E fd \in Fds : Disconnect(fd)
               \/ \E islogout \in BOOLEAN : FindKick(islogout)
               \/ \E k \in kicks : Kick(k)
               \/ AfkStep
      BY <2>3, AsideSteps, AsideTakeover
    <2> QED
      BY <2>1, <2>2, <2>3, LoginHandlerTakeover, LoginTakeover, RoleLoginTakeover,
         LogoutTakeover, RoleLoginStepTakeover DEF Next
  <1> QED
    BY <1>1, <1>2, InitInv, NextInv, PTL DEF Spec

\* The role is online in one session at a time, however many sessions the
\* account opens, reconnects and slow role logins overlap: onRolelogin waits
\* for the logout of the old session.
THEOREM OneOnlineSessionTheorem ==
    ASSUME TakeoversOnly PROVE Spec => []OneOnlineSession
  <1>1. SessionInv /\ TakeoverInv => OneOnlineSession
    <2> SUFFICES ASSUME SessionInv, TakeoverInv, NEW u \in AgentNames,
                        NEW v \in AgentNames, info[u].online, info[v].online
                 PROVE  u = v
      BY DEF OneOnlineSession
    <2>1. /\ u \in Names /\ v \in Names /\ info[u] \in Info /\ info[v] \in Info
          /\ None \notin Names
      BY TakeoverFacts
    <2>2. info[u].rid = TRUE /\ info[v].rid = TRUE
      BY <2>1 DEF TakeoverInv, OwnerInv, Info
    <2>3. /\ Owner = u \/ \E t \in logouts : t.u = u /\ t.pc \in {"gate", "end"}
          /\ Owner = v \/ \E t \in logouts : t.u = v /\ t.pc \in {"gate", "end"}
      BY <2>2 DEF TakeoverInv, OwnerInv
    <2>4. \A t \in logouts : t.pc \in {"gate", "end"} => Owner = None
      BY DEF TakeoverInv, LogoutInv
    <2>5. \A t, s \in logouts : t = s
      BY DEF TakeoverInv, LogoutInv
    <2> QED
      BY <2>1, <2>3, <2>4, <2>5
  <1> QED
    BY <1>1, AlwaysTakeover, PTL

\* Messages for the role go to the session in which it is online: addRid of the
\* new session comes after delRid of the old one, whatever its count was.
THEOREM RoutedTheorem ==
    ASSUME TakeoversOnly PROVE Spec => []Routed
  <1>1. SessionInv /\ TakeoverInv => Routed
    <2> SUFFICES ASSUME SessionInv, TakeoverInv, NEW u \in AgentNames,
                        info[u].online, rolelogin = None
                 PROVE  AgentMgr # None /\ AgentMgr.username = u
      BY DEF Routed
    <2>1. u \in Names /\ info[u] \in Info /\ None \notin Names /\ logouts = {}
      BY TakeoverFacts
    <2>2. info[u].rid = TRUE
      BY <2>1 DEF TakeoverInv, OwnerInv, Info
    <2>3. Owner = u
      BY <2>1, <2>2 DEF TakeoverInv, OwnerInv
    <2> QED
      BY <2>1, <2>3 DEF TakeoverInv, OwnerInv
  <1> QED
    BY <1>1, AlwaysTakeover, PTL

\* The session that AgentUids names for the role is one that its Agent has, so
\* that onRolelogin never indexes a session that has ended.
THEOREM OwnerExistsTheorem ==
    ASSUME TakeoversOnly PROVE Spec => []OwnerExists
  <1>1. SessionInv /\ TakeoverInv => OwnerExists
    <2> SUFFICES ASSUME SessionInv, TakeoverInv, NEW a \in Agents,
                        AgentUids[a] # None
                 PROVE  AgentUids[a] \in AgentNames
      BY DEF OwnerExists
    <2>1. a = uid_agent /\ None \notin Agents
      BY SessionAssumption DEF TakeoverInv, OneAgentInv
    <2>2. Owner = AgentUids[a]
      BY <2>1 DEF Owner
    <2> QED
      BY <2>2 DEF TakeoverInv, OwnerInv
  <1> QED
    BY <1>1, AlwaysTakeover, PTL

\* onRoleLogin never loads the role's data over data that are loaded.
THEOREM NotReloadedTheorem ==
    ASSUME TakeoversOnly PROVE Spec => NotReloaded
  <1>1. SessionInv /\ TakeoverInv /\ [Next]_vars =>
           [rolelogin # None /\ rolelogin.pc = "load" /\ ~rolelogin.keeprole
              /\ rolelogin' # rolelogin => ~loaded]_vars
    <2> SUFFICES ASSUME SessionInv, TakeoverInv, rolelogin # None,
                        rolelogin.pc = "load", ~rolelogin.keeprole
                 PROVE  ~loaded
      OBVIOUS
    <2>1. loaded \in BOOLEAN
      BY DEF SessionInv, TypeOK
    <2> QED
      BY <2>1 DEF TakeoverInv, TakesInv
  <1> QED
    BY <1>1, AlwaysTakeover, PTL DEF Spec, NotReloaded
=============================================================================
