---------------------------- MODULE AgentSession ----------------------------
(***************************************************************************)
(* The sessions of one account (uid) with one role, across the services    *)
(* that share them: Gamed (uid_agent, username_map), the Agents            *)
(* (AgentNames, AgentUids), AgentMgr (which session a role's messages go   *)
(* to), OnlineMgr and the role's loaded data.  Every login of the account  *)
(* makes a new session, named by its subid.                                *)
(*                                                                         *)
(* Each service runs one coroutine at a time, so the steps are the code    *)
(* between two yields.  A coroutine that waits is a record in afks,        *)
(* logouts, rolelogin or kicks.  A call whose handler does not yield is    *)
(* one step with its call: messages between two services keep their order. *)
(***************************************************************************)
EXTENDS Integers, FiniteSets

CONSTANTS
    Agents,     \* the Agent services that the account may be given
    MaxNames,   \* bound: sessions in a behaviour
    MaxFds,     \* bound: connections in a behaviour
    MaxRef,     \* bound: role logins in one session
    MaxKicks,   \* bound: kicks of the role, by its heart beat or by the web
    Env,        \* "timeout": the login and afk timers run out;
                \* "slow": a role login takes longer than afk waits for it;
                \* "web": roles are kicked from the web, and logged out
    None        \* nil

Names == 1..MaxNames
Fds == 1..MaxFds

ASSUME SessionAssumption ==
    /\ Agents # {} /\ None \notin Agents
    /\ MaxNames \in Nat /\ MaxFds \in Nat /\ MaxRef \in Nat \ {0}
    /\ MaxKicks \in Nat
    /\ None \notin Names
    /\ None \notin [username : Names, ref : 1..MaxRef]
    /\ None \notin [u : Names, old : Names \cup {None}, keeprole : BOOLEAN,
                   pc : {"afk", "logout", "load", "set", "push"}]
    /\ Env \subseteq {"timeout", "slow", "web"}

VARIABLES
    \* Gamed
    internal_id,    \* number of usernames made
    uid_agent,      \* uid_agent[uid]
    home,           \* the agent of each username
    entering,       \* usernames whose agent.req.login is under way
    username_map,   \* usernames that Gamed knows
    connection,     \* the username of each fd whose disconnect Gamed reports
    nfd,            \* connections made
    \* Agents
    AgentNames,     \* usernames in the AgentNames of their agents
    info,           \* what AgentNames[username] is, or was, bound to
    AgentUids,      \* for each agent, AgentUids[uid][rid].username
    \* other services
    AgentMgr,       \* agentRidHandles[rid]
    loaded,         \* the role's data is loaded
    onlineRids,     \* OnlineMgr has the role
    \* coroutines that wait
    afks, logouts, rolelogin, kicks,
    nkicks          \* kicks made

gamed == <<internal_id, uid_agent, home, entering, username_map>>
conns == <<connection, nfd, nkicks>>
agents == <<AgentNames, info, AgentUids>>
role == <<loaded, onlineRids>>
coroutines == <<afks, logouts, rolelogin, kicks>>
vars == <<gamed, conns, agents, AgentMgr, role, coroutines>>

\* timer: its login or afk timer runs; stray: one runs that no field names
Info == [state : {"PRELOGIN", "OK", "AFK"}, fd : Fds \cup {None}, rid : BOOLEAN,
         online : BOOLEAN, timer : BOOLEAN, stray : BOOLEAN]

NewInfo == [state |-> "PRELOGIN", fd |-> None, rid |-> FALSE, online |-> FALSE,
            timer |-> TRUE, stray |-> FALSE]

\* wait: for a busy session; role: in onRoleAfk; end: after it
Afks == [u : Names, fd : Fds, by : {"gate", "kick", "web"},
         pc : {"wait", "role", "end"}]

\* by: what called logout.  start: called; unload: in onRoleLogout; del: in
\* delRid; gate: in the call of Gamed; end: after it
Logouts == [u : Names, by : {"timer", "stray", "login", "web"},
            keeprole : BOOLEAN, clean : BOOLEAN,
            pc : {"start", "unload", "del", "gate", "end"}]

RoleLogins == [u : Names, old : Names \cup {None}, keeprole : BOOLEAN,
               pc : {"afk", "logout", "load", "set", "push"}]

\* The type invariant; a count of AgentMgr is never 0
TypeOK ==
    /\ internal_id \in 0..MaxNames
    /\ uid_agent \in Agents \cup {None}
    /\ home \in [Names -> Agents]
    /\ entering \subseteq Names /\ username_map \subseteq Names
    /\ connection \in [Fds -> Names \cup {None}]
    /\ nfd \in 0..MaxFds /\ nkicks \in 0..MaxKicks
    /\ AgentNames \subseteq Names
    /\ info \in [Names -> Info]
    /\ AgentUids \in [Agents -> Names \cup {None}]
    /\ AgentMgr \in [username : Names, ref : 1..MaxRef] \cup {None}
    /\ loaded \in BOOLEAN /\ onlineRids \in BOOLEAN
    /\ afks \subseteq Afks /\ logouts \subseteq Logouts
    /\ rolelogin \in RoleLogins \cup {None}
    /\ kicks \subseteq [u : Names, islogout : BOOLEAN]

Init ==
    /\ internal_id = 0 /\ uid_agent = None
    /\ home = [u \in Names |-> CHOOSE a \in Agents : TRUE]
    /\ entering = {} /\ username_map = {}
    /\ connection = [f \in Fds |-> None] /\ nfd = 0 /\ nkicks = 0
    /\ AgentNames = {} /\ info = [u \in Names |-> NewInfo]
    /\ AgentUids = [a \in Agents |-> None]
    /\ AgentMgr = None
    /\ loaded = FALSE /\ onlineRids = FALSE
    /\ afks = {} /\ logouts = {} /\ rolelogin = None /\ kicks = {}

-----------------------------------------------------------------------------
(* Gamed: login, connections *)

\* login_handler up to its call of the agent
LoginHandler(agent) ==
    /\ internal_id < MaxNames
    /\ uid_agent \in {None, agent}
    /\ internal_id' = internal_id + 1
    /\ uid_agent' = agent
    /\ home' = [home EXCEPT ![internal_id + 1] = agent]
    /\ entering' = entering \cup {internal_id + 1}
    /\ UNCHANGED <<username_map, conns, agents, AgentMgr, role, coroutines>>

\* Agent.login, which starts the login timer, and the rest of login_handler;
\* nobody knows the username before
Login(u) ==
    /\ u \in entering
    /\ entering' = entering \ {u}
    /\ AgentNames' = AgentNames \cup {u}
    /\ info' = [info EXCEPT ![u] = NewInfo]
    /\ username_map' = username_map \cup {u}
    /\ UNCHANGED <<internal_id, uid_agent, home, conns, AgentUids, AgentMgr, role,
                   coroutines>>

\* A handshake on a new connection: auth_handler and Agent.auth.  A client that
\* sends a second handshake on it before the first is answered is left out.
Auth(u) ==
    /\ u \in username_map /\ nfd < MaxFds
    /\ nfd' = nfd + 1
    /\ connection' = [connection EXCEPT ![nfd + 1] = u]
    /\ info' = IF u \in AgentNames
                 THEN [info EXCEPT ![u].fd = nfd + 1, ![u].state = "OK",
                          ![u].timer = @ /\ info[u].state = "OK"]
                 ELSE info
    /\ UNCHANGED <<gamed, nkicks, AgentNames, AgentUids, AgentMgr, role,
                   coroutines>>

-----------------------------------------------------------------------------
(* Agent.afk *)

Logout(u, by, keeprole) ==
    [u |-> u, by |-> by, keeprole |-> keeprole, clean |-> FALSE, pc |-> "start"]

AfterAfk(t) == IF t.by = "web" THEN {Logout(t.u, "web", FALSE)} ELSE {}

\* A request of the session is under way, which may only be a role login
Busy(u) == rolelogin # None /\ rolelogin.u = u

\* Mutant of GoAfk: without a role online no timer is started
GoAfkNoTimer(t) ==
    /\ info' = [info EXCEPT ![t.u].state = "AFK",
                            ![t.u].timer = @ \/ info[t.u].online]
    /\ IF info[t.u].online
         THEN /\ afks' = (afks \ {t}) \cup {[t EXCEPT !.pc = "role"]}
              /\ UNCHANGED logouts
         ELSE /\ afks' = afks \ {t}
              /\ logouts' = logouts \cup AfterAfk(t)

\* The part of afk after the wait.  The entry was looked up before it and is
\* not looked up again; the new timer replaces the afkTimer field.  Without a
\* role online the call ends here, and a kick with islogout goes on to logout.
GoAfk(t) ==
    /\ info' = [info EXCEPT ![t.u].state = "AFK", ![t.u].timer = TRUE,
                            ![t.u].stray = @ \/ info[t.u].timer]
    /\ IF info[t.u].online
         THEN /\ afks' = (afks \ {t}) \cup {[t EXCEPT !.pc = "role"]}
              /\ UNCHANGED logouts
         ELSE /\ afks' = afks \ {t}
              /\ logouts' = logouts \cup AfterAfk(t)

\* A call of afk: only for the session's current connection.  An unforced one
\* waits up to 2 s while a request of the session is under way.
Afk(u, fd, by) ==
    LET t == [u |-> u, fd |-> fd, by |-> by, pc |-> "wait"]
    IN  IF u \in AgentNames /\ info[u].fd = fd /\ info[u].state = "OK"
          THEN \/ (by = "gate" => ~Busy(u)) /\ GoAfk(t)
               \/ by = "gate" /\ afks' = afks \cup {t} /\ UNCHANGED <<info, logouts>>
          ELSE UNCHANGED <<info, afks, logouts>>

\* handler.disconnect and disconnect_handler
Disconnect(fd) ==
    /\ connection[fd] # None
    /\ connection' = [connection EXCEPT ![fd] = None]
    /\ IF connection[fd] \in username_map
         THEN Afk(connection[fd], fd, "gate")
         ELSE UNCHANGED <<info, afks, logouts>>
    /\ UNCHANGED <<gamed, nfd, nkicks, AgentNames, AgentUids, AgentMgr, role, rolelogin,
                   kicks>>

AfkWaited(t) ==
    /\ t.pc = "wait"
    /\ "slow" \in Env \/ ~Busy(t.u)
    /\ GoAfk(t)
    /\ UNCHANGED <<gamed, conns, AgentNames, AgentUids, AgentMgr, role, rolelogin,
                   kicks>>

\* RoleLogic:onRoleAfk
AfkRole(t) ==
    /\ t.pc = "role"
    /\ onlineRids' = FALSE
    /\ afks' = (afks \ {t}) \cup {[t EXCEPT !.pc = "end"]}
    /\ UNCHANGED <<gamed, conns, agents, AgentMgr, loaded, logouts, rolelogin,
                   kicks>>

AfkEnd(t) ==
    /\ t.pc = "end"
    /\ info' = [info EXCEPT ![t.u].online = FALSE]
    /\ afks' = afks \ {t}
    /\ logouts' = logouts \cup AfterAfk(t)
    /\ UNCHANGED <<gamed, conns, AgentNames, AgentUids, AgentMgr, role, rolelogin,
                   kicks>>

\* RoleHeartMgr and RoleQuery look the role's session up in AgentMgr ...
FindKick(islogout) ==
    /\ nkicks < MaxKicks /\ AgentMgr # None
    /\ islogout => "web" \in Env
    /\ nkicks' = nkicks + 1
    /\ kicks' = kicks \cup {[u |-> AgentMgr.username, islogout |-> islogout]}
    /\ UNCHANGED <<gamed, connection, nfd, agents, AgentMgr, role, afks, logouts,
                   rolelogin>>

\* ... and call kickAgent of its agent
Kick(k) ==
    LET u == k.u
        by == IF k.islogout THEN "web" ELSE "kick"
    IN  /\ kicks' = kicks \ {k}
        /\ IF u \in AgentNames /\ info[u].fd # None
             THEN IF info[u].state = "OK"
                    THEN Afk(u, info[u].fd, by)
                    ELSE /\ logouts' = logouts \cup AfterAfk([u |-> u, by |-> by])
                         /\ UNCHANGED <<info, afks>>
             ELSE UNCHANGED <<info, afks, logouts>>
        /\ UNCHANGED <<gamed, conns, AgentNames, AgentUids, AgentMgr, role,
                       rolelogin>>

-----------------------------------------------------------------------------
(* Agent.logout *)

\* The login or the afk timer runs out and calls logout
TimerFires(u, stray) ==
    /\ "timeout" \in Env
    /\ IF stray THEN info[u].stray ELSE info[u].timer
    /\ u \in AgentNames
    /\ info' = [info EXCEPT ![u].timer = @ /\ stray, ![u].stray = @ /\ ~stray]
    /\ logouts' = logouts \cup
                    {Logout(u, IF stray THEN "stray" ELSE "timer", FALSE)}
    /\ UNCHANGED <<gamed, conns, AgentNames, AgentUids, AgentMgr, role, afks,
                   rolelogin, kicks>>

Become(t, s) == logouts' = (logouts \ {t}) \cup {s}

\* The call of Gamed; AgentUids is as logout leaves it
CallGate(t, owner) ==
    Become(t, [t EXCEPT !.pc = "gate", !.clean = owner = None /\ ~t.keeprole])

LogoutStart(t) ==
    /\ t.pc = "start"
    /\ \/ /\ t.u \notin AgentNames
          /\ logouts' = logouts \ {t}
          /\ UNCHANGED info
       \/ /\ t.u \in AgentNames
          /\ info' = [info EXCEPT ![t.u].timer = FALSE]
          /\ IF info[t.u].rid
               THEN Become(t, [t EXCEPT !.pc = IF t.keeprole THEN "del"
                                                             ELSE "unload"])
               ELSE CallGate(t, AgentUids[home[t.u]])
    /\ UNCHANGED <<gamed, conns, AgentNames, AgentUids, AgentMgr, role, afks,
                   rolelogin, kicks>>

\* RoleLogic:onRoleLogout
LogoutUnload(t) ==
    /\ t.pc = "unload"
    /\ loaded' = FALSE
    /\ Become(t, [t EXCEPT !.pc = "del"])
    /\ UNCHANGED <<gamed, conns, agents, AgentMgr, onlineRids, afks, rolelogin,
                   kicks>>

\* Mutant of DelRid: a count of 0 is kept
DelRidKeepsZero(u) ==
    IF AgentMgr = None \/ AgentMgr.username # u THEN AgentMgr
    ELSE [AgentMgr EXCEPT !.ref = @ - 1]

DelRid(u) ==
    IF AgentMgr = None \/ AgentMgr.username # u THEN AgentMgr
    ELSE IF AgentMgr.ref <= 1 THEN None
    ELSE [AgentMgr EXCEPT !.ref = @ - 1]

\* Mutant of LogoutDelRid: the session is dropped before Gamed is told
LogoutDelRidDrops(t) ==
    /\ t.pc = "del"
    /\ AgentMgr' = DelRid(t.u)
    /\ AgentUids' = [AgentUids EXCEPT ![home[t.u]] = None]
    /\ AgentNames' = AgentNames \ {t.u}
    /\ CallGate(t, None)
    /\ UNCHANGED <<gamed, conns, info, role, afks, rolelogin, kicks>>

\* Mutant of LogoutDelRid: a logout that keeps the role keeps its entry too
LogoutDelRidKeepsUid(t) ==
    /\ t.pc = "del"
    /\ AgentMgr' = DelRid(t.u)
    /\ AgentUids' = IF t.keeprole THEN AgentUids
                    ELSE [AgentUids EXCEPT ![home[t.u]] = None]
    /\ CallGate(t, AgentUids'[home[t.u]])
    /\ UNCHANGED <<gamed, conns, AgentNames, info, role, afks, rolelogin, kicks>>

\* delRid and, after it, AgentUids: the role's entry is cleared whichever
\* session it names
LogoutDelRid(t) ==
    /\ t.pc = "del"
    /\ AgentMgr' = DelRid(t.u)
    /\ AgentUids' = [AgentUids EXCEPT ![home[t.u]] = None]
    /\ CallGate(t, None)
    /\ UNCHANGED <<gamed, conns, AgentNames, info, role, afks, rolelogin, kicks>>

\* Gamed's logout_handler
LogoutHandler(t) ==
    /\ t.pc = "gate"
    /\ username_map' = username_map \ {t.u}
    /\ uid_agent' = IF t.clean THEN None ELSE uid_agent
    /\ Become(t, [t EXCEPT !.pc = "end"])
    /\ UNCHANGED <<internal_id, home, entering, conns, agents, AgentMgr, role, afks,
                   rolelogin, kicks>>

LogoutEnd(t) ==
    /\ t.pc = "end"
    /\ AgentNames' = AgentNames \ {t.u}
    /\ logouts' = logouts \ {t}
    /\ UNCHANGED <<gamed, conns, info, AgentUids, AgentMgr, role, afks, rolelogin,
                   kicks>>

-----------------------------------------------------------------------------
(* Agent.onRolelogin, under the account's LoginLock *)

\* Mutant of AddRid: an entry that exists keeps its session
AddRidKeepsName(u) ==
    [username |-> IF AgentMgr # None THEN AgentMgr.username ELSE u,
     ref |-> IF AgentMgr # None /\ AgentMgr.username = u
               THEN AgentMgr.ref + 1 ELSE 1]

AddRid(u) ==
    [username |-> u,
     ref |-> IF AgentMgr # None /\ AgentMgr.username = u
               THEN AgentMgr.ref + 1 ELSE 1]

\* The connection of the session is open
Connected(u) == info[u].fd # None /\ connection[info[u].fd] = u

\* Mutant of RoleLogin: a session that has the role loads it again
RoleLoginReloads(u) ==
    LET old == AgentUids[home[u]]
        kicked == old \notin {None, u}
        afk == kicked /\ info[old].state = "OK" /\ info[old].online
    IN  /\ rolelogin = None
        /\ u \in AgentNames /\ info[u].state = "OK"
        /\ AddRid(u).ref <= MaxRef
        /\ old = None \/ old \in AgentNames
        /\ rolelogin' = [u |-> u, old |-> old, keeprole |-> kicked,
                         pc |-> IF afk THEN "afk" ELSE "logout"]
        /\ logouts' = IF kicked /\ ~afk
                        THEN logouts \cup {Logout(old, "login", TRUE)}
                        ELSE logouts
        /\ UNCHANGED <<gamed, conns, agents, AgentMgr, role, afks, kicks>>

\* A role login request, which may have waited for the lock while the
\* connection broke.  The session that has the role is kicked: afk if the role
\* is online in it, then a logout that keeps the role's data.  An owner that
\* AgentNames does not have is an error: the request fails and changes nothing.
RoleLogin(u) ==
    LET old == AgentUids[home[u]]
        kicked == old \notin {None, u}
        afk == kicked /\ info[old].state = "OK" /\ info[old].online
    IN  /\ rolelogin = None
        /\ u \in AgentNames /\ info[u].state = "OK"
        /\ AddRid(u).ref <= MaxRef
        /\ old = None \/ old \in AgentNames
        /\ rolelogin' = [u |-> u, old |-> old,
                         keeprole |-> old # None,
                         pc |-> IF afk THEN "afk" ELSE "logout"]
        /\ logouts' = IF kicked /\ ~afk
                        THEN logouts \cup {Logout(old, "login", TRUE)}
                        ELSE logouts
        /\ UNCHANGED <<gamed, conns, agents, AgentMgr, role, afks, kicks>>

\* RoleLogic:onRoleAfk of the old session
RoleLoginAfk ==
    /\ rolelogin # None /\ rolelogin.pc = "afk"
    /\ onlineRids' = FALSE
    /\ rolelogin' = [rolelogin EXCEPT !.pc = "logout"]
    /\ logouts' = logouts \cup {Logout(rolelogin.old, "login", TRUE)}
    /\ UNCHANGED <<gamed, conns, agents, AgentMgr, loaded, afks, kicks>>

\* Mutant of RoleLoginAddRid: the logout of the old session is not waited for
RoleLoginAddRidEarly ==
    /\ rolelogin # None /\ rolelogin.pc = "logout"
    /\ AgentMgr' = AddRid(rolelogin.u)
    /\ rolelogin' = [rolelogin EXCEPT !.pc = "load"]
    /\ UNCHANGED <<gamed, conns, agents, role, afks, logouts, kicks>>

\* The logout of the old session is done: addRid
RoleLoginAddRid ==
    /\ rolelogin # None /\ rolelogin.pc = "logout"
    /\ \A t \in logouts : t.by # "login"
    /\ AgentMgr' = AddRid(rolelogin.u)
    /\ rolelogin' = [rolelogin EXCEPT !.pc = "load"]
    /\ UNCHANGED <<gamed, conns, agents, role, afks, logouts, kicks>>

\* RoleLogic:onRoleLogin: the data is loaded unless the role was kept, ...
RoleLoginLoad ==
    /\ rolelogin # None /\ rolelogin.pc = "load"
    /\ loaded' = (loaded \/ ~rolelogin.keeprole)
    /\ rolelogin' = [rolelogin EXCEPT !.pc = "set"]
    /\ UNCHANGED <<gamed, conns, agents, AgentMgr, onlineRids, afks, logouts, kicks>>

\* ... OnlineMgr is told, and AgentUids and the session get the role
RoleLoginSet ==
    /\ rolelogin # None /\ rolelogin.pc = "set"
    /\ onlineRids' = TRUE
    /\ AgentUids' = [AgentUids EXCEPT ![home[rolelogin.u]] = rolelogin.u]
    /\ info' = [info EXCEPT ![rolelogin.u].rid = TRUE]
    /\ rolelogin' = [rolelogin EXCEPT !.pc = "push"]
    /\ UNCHANGED <<gamed, conns, AgentNames, AgentMgr, loaded, afks, logouts,
                   kicks>>

\* pushRole is done: the role is online in the session
RoleLoginPush ==
    /\ rolelogin # None /\ rolelogin.pc = "push"
    /\ info' = [info EXCEPT ![rolelogin.u].online = TRUE]
    /\ rolelogin' = None
    /\ UNCHANGED <<gamed, conns, AgentNames, AgentUids, AgentMgr, role, afks,
                   logouts, kicks>>

-----------------------------------------------------------------------------
AfkStep == \E t \in afks : AfkWaited(t) \/ AfkRole(t) \/ AfkEnd(t)

LogoutStep ==
    \E t \in logouts :
       \/ LogoutStart(t) \/ LogoutUnload(t) \/ LogoutDelRid(t)
       \/ LogoutHandler(t) \/ LogoutEnd(t)

RoleLoginStep ==
    \/ RoleLoginAfk \/ RoleLoginAddRid \/ RoleLoginLoad
    \/ RoleLoginSet \/ RoleLoginPush

Next ==
    \/ \E a \in Agents : LoginHandler(a)
    \/ \E u \in Names : Login(u) \/ Auth(u) \/ RoleLogin(u)
    \/ \E fd \in Fds : Disconnect(fd)
    \/ \E u \in Names, stray \in BOOLEAN : TimerFires(u, stray)
    \/ \E islogout \in BOOLEAN : FindKick(islogout)
    \/ \E k \in kicks : Kick(k)
    \/ AfkStep \/ LogoutStep \/ RoleLoginStep

Spec == Init /\ [][Next]_vars

\* Every coroutine that may go on does, and every timer runs out
Fairness ==
    /\ WF_vars(AfkStep) /\ WF_vars(LogoutStep) /\ WF_vars(RoleLoginStep)
    /\ \A u \in Names : WF_vars(Login(u)) /\ WF_vars(TimerFires(u, FALSE))

FairSpec == Spec /\ Fairness

-----------------------------------------------------------------------------
(* Properties *)

\* No coroutine of the account waits
Idle == afks = {} /\ logouts = {} /\ rolelogin = None /\ kicks = {}

\* Gamed passes connections and requests only to sessions that their Agent
\* has: auth would ignore another, and msgUnpack would index nil.  Logins, two
\* logouts of the same session and kicks may run in any order.
NamesKnown == username_map \subseteq AgentNames

\* The role is online in at most one session: onRolelogin logs the old session
\* out before it lets the new one in.
OneOnlineSession ==
    \A u, v \in AgentNames : info[u].online /\ info[v].online => u = v

\* What AgentMgr is asked for a role goes to the session in which it is online:
\* a logout of the old session, and a count left over from its reconnects, do
\* not take the route away from the new one.
Routed ==
    \A u \in AgentNames : info[u].online /\ rolelogin = None =>
        AgentMgr # None /\ AgentMgr.username = u

\* A role that is online in a session has its data loaded.  The code does not
\* keep this: the logout of a timer that ran out as the client came back unloads
\* the role under it.
OnlineIsLoaded == \A u \in AgentNames : info[u].online => loaded

\* At rest OnlineMgr and the Agents agree whether the role is online.  The code
\* does not keep this: when the onRoleAfk of a lost connection ends after the
\* role login of the reconnect, one of them has the role offline.
OnlineAgrees ==
    Idle => (onlineRids <=> \E u \in AgentNames : info[u].online)

\* At rest, when every Agent has dropped the role, AgentMgr names no session
\* that has ended: what addRid did in onRolelogin is undone by delRid of logout.
RouteDropped ==
    Idle /\ (\A a \in Agents : AgentUids[a] = None) /\ AgentMgr # None =>
        AgentMgr.username \in AgentNames

\* The session that AgentUids gives for the role exists: onRolelogin indexes
\* AgentNames with it before it tests for nil, and a role whose entry is stale
\* could never log in again.
OwnerExists ==
    \A a \in Agents : AgentUids[a] # None => AgentUids[a] \in AgentNames

\* onRoleLogin loads the role's data only when they are not loaded: loading
\* them over newer ones in memory would lose writes.
NotReloaded ==
    [][rolelogin # None /\ rolelogin.pc = "load" /\ ~rolelogin.keeprole
         /\ rolelogin' # rolelogin => ~loaded]_vars

\* A session without a connection ends or is connected again: whatever afks,
\* reconnects and kicks overlap, one of its timers is left running.
SessionsEnd ==
    \A u \in Names :
       (u \in AgentNames /\ ~Connected(u)) ~> (u \notin AgentNames \/ Connected(u))
=============================================================================
