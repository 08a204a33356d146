# Verification of the origin game server

TLA+ specifications of the core of the game server in `src/work`, from the skynet
kernel it runs on to the sessions and tables of the game, checked with
TLC on small instances and, where it matters most, proved with TLAPS for every
instance. `PROJECT.json` lists the runs, the source lines behind each
definition, the hazards and the findings.

## 1. The system

The server is a Lua program on skynet that runs as a cluster of nodes: login,
game, chat, battle, db, log, push and center nodes and a monitor. A node holds
many *services*. A service handles one message at a time, but a handler that
calls another service (`req`, `skynet.call`, a cluster rpc), sleeps or waits for
a lock gives way, and other handlers of the same service run before it goes on.
That is the only concurrency inside a service, and it is what makes the code hard:
everything that was read before such a call may be stale after it. A `post`
does not give way. Between two services messages keep their order.

Below the services is skynet's kernel in C, with real threads: workers that
dispatch message queues, a timer thread, a socket thread, and, in the server's own
C modules, a thread that writes the log. There the hard part is what happens
between two critical sections. The two layers meet in what the kernel promises a
service, which `Mailbox` states and the models of the Lua parts take for granted.

| Part | State | Operations | Talks to |
|---|---|---|---|
| GameGate (`server/game_server/GameGate.lua`) | users with their last handshake index and response cache, sockets, expected handshakes | connect, handshake, request, disconnect, login, logout, kick | gateserver (sockets), Gamed's handlers |
| Gamed, Agent, AgentMgr, OnlineMgr (`server/game_server`, `common/service`) | `uid_agent`, `username_map`; `AgentNames`, `AgentUids`; `agentRidHandles`; `onlineRids` | login, auth, afk, logout, role login with takeover, kick, timers | GameGate, RoleLogic, the entities, RoleHeartMgr, RoleQuery |
| Role entities (`common/lualib/entity`, `EntityLoad.lua`) | a row in the memory of the game node, in its cache, in the memory of the db node, in redis and in mysql | Load, UnLoad, Get, Update/Set, Save, Add, Delete, CacheSave | the db node through `Common.rpcMultiCall` |
| Other entities (multi row, user, common, config) | as above with an index per row | as above | as above |
| Login server (LoginGate, Logind, AccountMgr) | accounts, game nodes by opening time | handshake, AuthIGGID, choice of a node | Gamed's `login_handler` |
| PkIdMgr | counters in redis, copies in the database | newPkId, savePKId every 5 s, Init | redis, c_pkid |
| Cluster (MonitorPublish, MonitorSubscribe, Rpc) | `clusterInfo` on each node | sync, heart, clusterHold every 3 s, restartCluster | every node |
| Role services (RoleQueueMgr, RoleBuildQueueMgr, SoldierLockMgr, RoleTimer) | queues, locks and timers by role | start and end of queues | entities, Timer |
| Kernel (`3rd/skynet/skynet-src`: `skynet_mq.c`, `skynet_server.c`, `skynet_handle.c`, `skynet_start.c`) | slots by handle, contexts with reference counts, message queues, the global queue | send, dispatch, launch, kill, sleep and wakeup of workers | every service |
| Timers (`skynet_timer.c`) | five wheels of lists, a 32-bit tick | timeout, update, shift | message queues |
| Socket server (`socket_server.c`) | slots by id, write lists, `dw_buffer`, the command pipe | connect, start, send, close, poll | services through the pipe and by direct writes |
| Log (`common/luaclib_src/lua-log.c`, `SysLog.lua`) | two buffers in front, two spare ones, the list being written, files by level | append, the thread's loop, roll, exit | |
| Area of interest (`common/luaclib_src/aoi`, `AoiMgr.lua`) | hash map of objects, pairs of watcher and marker | enter, update, leave, init and release of a map | scene services by callbacks |
| Rallies, guilds, scene, chat, battle, activities | rules of the game | | entities, AOI |
| Push, center, web, protocol, tools, vendored libraries | no decision that the parts above depend on | | |

What makes each part correct:

* **gate**: an answer goes only to the connection of its own user; a request is
  not run twice because a client asks again; the cache forgets only old
  responses.
* **sessions**: a role is online in one session, and its messages are routed
  to that session; a session that lost its connection ends;
  Gamed passes nothing to a session that is gone.
* **entities**: the four copies of a row behave as one value; what mysql has is
  never rolled back; a role that logs out is saved; a deleted role stays
  deleted.
* **kernel**: a service handles its messages in order and one at a time; its
  queue is in one place; contexts and queues are freed once and not used after;
  a message that is thrown away is answered; a queue with messages is served.
* **timers**: a timer fires in its tick, once, and in the order of the calls.
* **sockets**: a connection carries whole messages in the order of each sender;
  nothing is left unwritten while it is open, and a close that waits for the
  lists loses nothing of its own sender.
* **log**: each message is written once, in order, to the file of its hour; no
  buffer is lost or shared.
* **area of interest**: the watchers know exactly the markers near them.
* **login, keys, cluster** (no module): an account has one uid; a key is issued
  once, also over a crash; the nodes agree on the members, and a shutdown
  writes every row before the db node stops.

## 2. Modules

| Module | Models |
|---|---|
| `GameGate` | the gate, at the yields of `do_auth` and `do_request` |
| `AgentSession` | one account with one role across Gamed, the Agents, AgentMgr, OnlineMgr |
| `RoleSingleEntity` | one role's row on the game and db node, in redis and mysql |
| `RoleStore` | abstract: what the role tables promise, a single value |
| `ServiceQueue` | handles, contexts, message queues and workers of skynet |
| `Mailbox` | abstract: what skynet promises a service |
| `TimerWheel` | skynet's timers |
| `SocketServer` | skynet's TCP connections |
| `AsyncLog` | the log's buffers, thread and files |
| `Aoi` | an area-of-interest space and AoiMgr's operations on it |
| `MC...` | the modules that TLC runs |
| `...Proofs` | invariants and theorems |

In the modules of Lua code an action is the code between two points at which a
coroutine gives way, and a coroutine that waits is part of the state. In those of
C code it is one critical section or atomic operation, and each thread has its
place in the code as part of the state. Operators named as mutants are deliberate
mistakes, one for every checked property; no action uses them.

### GameGate

`user_online`, `connection` and `handshake` are the tables of the same names.
The response record `p = { fd, response, version, index }` of `do_request` is
named by the request that created it, because the Lua table lives on in a
coroutine after the cache has dropped it. `do_auth` is split at
`auth_handler`, `do_request` at `request_handler`; everything else is one step.
Sockets (`sock`) are external: `shutdown` lets queued messages through,
`closeclient` does not, and the disconnect comes later. Payloads, the hmac and
framing are abstracted to the outcomes the code tells apart.

### AgentSession

Gamed's and the Agents' tables for one uid and one rid. A username has a fresh
subid, so `Names` is `1..MaxNames`. `info[u]` is what `AgentNames[u]` is bound to
and stays after the entry is removed, as coroutines keep the Lua table.

| Action | Code |
|---|---|
| `LoginHandler`, `Login` | `login_handler` before and after its call of `Agent.login` |
| `Auth` | a handshake: `auth_handler` and `Agent.auth` |
| `Disconnect`, `AfkWaited`, `AfkRole`, `AfkEnd` | `disconnect_handler` and `Agent.afk`: its wait for a busy session, `onRoleAfk`, the rest |
| `FindKick`, `Kick` | the heart beat or the web looks the session up in AgentMgr, then calls `kickAgent` |
| `TimerFires` | the login or afk timer calls `logout`; a timer that no field names any more is `stray` |
| `LogoutStart` ... `LogoutEnd` | `logout` at its calls of `onRoleLogout`, `delRid` and Gamed |
| `RoleLogin` ... `RoleLoginPush` | `onRolelogin` at its calls of `onRoleAfk`, `logout`, `addRid`, `onRoleLogin`, `pushRole`; `LoginLock` allows one at a time per account |

A call and its handler are one step where the handler does not give way and the
order of messages makes the moments between unobservable. `onRoleLogin` always
returns true, so the error branch after it is not reached. Two calls of logout
for one session from the same kind of caller that stand at the same step are one
record. `Env` chooses what may happen: `"timeout"` (timers run out), `"slow"` (a
role login takes longer than the 2 s that afk waits), `"web"` (kicks that log
out). `Auth` always takes a fresh socket: a second handshake on one socket while
`auth_handler` waits (`GameGate.lua:206`) is in `GameGate` and not here.

### RoleSingleEntity

One role: entries of different roles are independent, each under its own lock. An
operation holds the lock on the game node and waits at each call of the db node;
`CacheSave` takes no lock. A call is one step with four outcomes: done, not sent
(the link is down), done with the answer lost, and torn, when the db node stops
inside a save: `UpdateRole` deletes the row in redis, adds it again and then writes
mysql (`EntityImpl.lua:281-285`), and a crash may come between any two of these.
One step is sound otherwise because all calls of a node to another go over one
ordered connection. A row is the set of writes it reflects: a write of fields adds
to it, a whole row replaces it. A Get of a role that is not logged in may always
happen, as the role login makes one before Load (`proxy/Role.lua:143`); `Env`
chooses the faults (`"partition"`, `"dbcrash"`, `"gamecrash"`) and the other uses of
such roles (`"offlineset"`, `"delete"`). `split` records that a row was loaded while
it was in the cache.

### ServiceQueue and Mailbox

A context and its queue are named by their handle. A thread (`th[t]`) is a worker
or `Ext`, which stands for the timer and socket threads that push messages.
`TakeQueue` ... `PushBack` are `skynet_context_message_dispatch` at its calls of
the queues; `Release` and `Delete` are the atomic decrement and `delete_context`;
`Register` ... `LaunchFailed` are `skynet_context_new`, with an init that may send,
succeed or fail. `Register` puts the context in a slot under the write lock, and
only `Launch` stores `ctx->handle` (`skynet_server.c:154-155`): until then the
context has handle 0 (`Stored`), is not found by `skynet_handle_grab`
(`Registered`) and is hashed as 0 when another register doubles the slots
(`Grown`, `skynet_handle.c:62-66`), whose assertion is the guard `GrownAsserted`.
 `MqRelease` and `DropQueue` are the end of a queue. The array of
a queue is modelled with its head, tail and doubling. Left out: names, harbor,
logging, profiling, overload and endless-loop warnings, `retireall`, and killing
a service during its own launch.

`Mailbox` is the abstract specification: messages in order, one callback at a
time, and none thrown away before the service is retired and idle. `MailboxSpec`
is its refinement by `ServiceQueue`.

### TimerWheel

`NEAR` and `LEVEL` are the sizes of the wheels (256 and 64 in the code); `Size[l]`
is the number of ticks of one slot of level `l`, and the word wraps at `Size[4]`.
The code's masks and shifts are divisions by these. `PlaceOf` and `AddNode` are
`add_node`, and `AddAll` is the loop of `move_list`. `Timeout` may come between
any two critical sections of the timer thread, also while it dispatches a list;
`UpdateTime` lets several ticks pass at once. Three variables only record:
`pending` the timers that have not fired, `due` a timer's ticks, counted
independently of `expire`, and `earlier` the timers that were added before it. The
wheel's time lags behind the wall clock while the thread catches up, so that a
timer set meanwhile may fire early by the clock; that is not an error of the
wheel.

### SocketServer

`slot` is the table of sockets, `pipe` the command pipe, `th[v]` a service in
`socket_server_send`. A message consists of `Size` units, of which the kernel takes
any number at a time; lists hold units, so that a cut or a repeated part is
visible on `wire`. Each command and each event is one step of the socket thread
(`poll` is its place), up to the points at which the services interfere:

* `force_close` frees the lists and takes the socket from epoll without the lock
  (`Freed`, `poll = "close"`, with `job` the socket that is being closed), and makes
  the slot INVALID under it (`Closed` in `CloseFd`). In between a service may still
  pass `can_direct_write` and write. `lost` of a slot tells that messages were
  freed. Inside `send_buffer`, which has the lock, and for a socket that is still
  connecting, `force_close` is one step (`ForceClosed`).
* `clear_closed_event` comes after `ctrl_cmd` has returned (`poll = "clear"`,
  `ClearClosedEvent`), and a service may reserve the slot before it. A stale event
  of a reserved slot is `StaleEvent`; where the code then fails an assertion the
  thread ends in `"abort"`.
* A connect is `reserve_id` and then `send_request` (`Reserve`, `Connect`).
* A direct write takes four steps of the service, with the lock held during the
  write. One simplification is left: `can_direct_write` reads several fields in
  one step.

An error of a connection is modelled as a read that finds its end, since poll does
the same with both. A service closes a connection a second time only to shut down
one that is half closed. Services send only to ids whose opening was reported
to them; a send before that would skip `inc_sending_ref` and meet its assertion
in `dec_sending_ref`. `WireWhole` and the part of `InOrder` that says that nothing
is missing are stated up to the moment at which `force_close` frees messages
(`Lost`). `InOrder` compares the units of a wire pairwise: two
messages are alike when one service sent both with one priority (`Alike`), and
the units of alike messages are in the order of sending (`Precedes`), without a
gap.

### AsyncLog

`heap` holds the allocated buffers, with their `next` pointers, so that a leak, a
second owner or a use after free shows. `Append...` is `append` with its mutex;
`Loop`, `Wait`, `Swap`, `Trim`, `OpenFile`, `WriteMessage`, `WriteNext`, `Flush` and
`Recycle` are `worker_func`; `Exit` and `Join` are `log_exit`. A failed assertion sets
`failed` and stops the model. `RollFile` reads the clock for each name it tries
(`lua-log.c:94`) and again for `roll_hour` (204-207); the hour may begin in between,
and `crossed` records such hours. Time is counted in hours; rolling by the day, which
compares `tm_mday` in the same way, is not modelled apart. Messages are numbered
as they are appended, so that `NoneLost` can speak of the sets of messages that
are written, wait (`Unwritten`, the front list) or were dropped, and of the order
of their numbers (`Ordered`).

### Aoi

The hash map is modelled slot by slot (chains, `lastfree`, tombstones, rehash), the
pairs as a set with the key that `make_unique_int64` gives them. AoiMgr calls
`aoi_update` and `aoi_message` without giving way, so an operation of AoiMgr is one
step. `view` is what the callbacks told each watcher. The making and releasing of
whole maps (`initMapAoi`, `unInitMapAoi`) is outside the module; nothing in the
repository calls `unInitMapAoi`.

## 3. Runs

Passing runs:

| Run | Shows | Bounds and why they are enough |
|---|---|---|
| `gate` | `TypeOK`, `ReturnFdOwned`, `CacheIndex`, `NoSecondRun`, `RetireKeepsExpiredNumber` | two users, two sockets, one session, three requests, two handshakes, `ExpiredNumber = 1`: a request of one user is under way while its socket is rebound to the other, and the cache is trimmed meanwhile |
| `entity_store` | `UnloadedIsSaved`, `OnlineStaysLoaded`, `DeletedIsGone`, refinement of `RoleStore` | no faults, five writes, offline Gets, Sets and Deletes: every order of Get, unload timer, login, save and Delete around a write |
| `entity_faults` | `RedisNotStale`, `SavedNotRolledBack` | partitions, lost answers, saves torn by a crash of the db node, crashes of both nodes, four writes; a Get before each login |
| `session_takeover` | `TypeOK`, `OneOnlineSession`, `Routed`, `OwnerExists`, `NotReloaded` | two sessions, three connections, a role login per connection, one heart beat kick, slow logins: takeover of a session in each of its states, with a reconnect and afks that overlap. No timer runs out in this run |
| `session_end` | `NamesKnown`, `SessionsEnd` | one session, two connections, two role logins, timers, slow logins: afks of two connections overlap and leave a stray timer, and two logouts of the session overlap |
| `queue` | `QueueInOnePlace`, `RefsCounted`, `DropReported`, refinement of `Mailbox`, `QueueServed` | two workers with different weights, one service at the start and one launched, two messages with their error reports, one slot and an array of two: the slots and the array double, the table grows while a handle is not yet stored, a launch fails or a kill comes while others push |
| `timer` | `OnTime`, `SameTickInOrder` | two timers of up to 15 ticks, wheels of 2: the word has 5 bits and every level and the wrap are crossed from every start; up to two ticks late |
| `socket` | `WireWhole`, `InOrder`, `AssertsHold`, `Drained`, `Delivered` | two services, of which one also sends with low priority and one closes, three messages of two units, one slot used for two connections: a direct write comes between the two parts of `force_close`, and a reserve between a close and its `clear_closed_event` |
| `log` | `NoAssertFails`, `OneOwner`, `NoneLost`, `FilesRolled`, `Logged` | two levels, four messages, buffers of two, more than two linked buffers are too many, files of one message, one change of the hour, also inside a `rollfile`, a calloc and fopen that fail |
| `aoi` | `MapFinds`, `RefsExact`, `PairsExact`, `ViewMatches` | four objects (a role, two armies, a city), three points, radius 1, at most two pairs per watcher, ids whose keys collide and a map that starts with two slots: the map doubles, chains are moved and tombstones revived |

`RefsCounted`, `OnTime`, `AssertsHold`, `OneOwner` and `RefsExact` include the type
invariants of their modules; `OnTime` also says that a timer is in one list
(`OnceInWheel`).

The cfgs of the gate, the sessions, the queue, the sockets and the log switch
deadlock checking off: sockets, usernames, messages and ids are used once and run
out, a node without services stops, a log ends. The entity, timer and aoi runs
check deadlock.

Liveness needs fairness:

* `SessionsEnd`: weak fairness of the coroutines (skynet dispatches every message,
  and no call in them waits for a client), of `Login`, and of the timer that a
  session names (`Timer.runAfter` always fires). Clients are not fair: they need
  not connect, disconnect or send anything. That skynet dispatches every message
  is what `QueueServed` shows, and that timers fire what `OnTime` shows.
* `QueueServed`: a thread goes on unless it is in a callback; the timer thread
  signals again and again; of one worker (`Steady`) the callbacks return. Nothing
  is assumed of the callbacks of the others, which may run for ever.
* `Delivered`: the threads go on, and a peer reads: a connection with something to
  write is reported writable, and the kernel takes a part, again and again (strong
  fairness, as other events come in between).
* `Logged`: weak fairness of the log's thread; its wait has a timeout.

Two runs end in a violation, where the code disagrees with what it says itself:

* `log_exit` checks `ExitWritesAll`. `log_exit` resets `running` and signals the
  thread "to write the rest"; the thread leaves its loop without writing it. (SysLog
  calls `log_exit` when its service ends, so the last messages of a node are lost.)
* `socket_stale_event` checks `NeverAborts`. `ctrl_cmd` closes a socket for which an
  event is waiting, `reserve_id` takes its slot before `clear_closed_event` is
  called, which then leaves the event alone (`socket_server.c:1547-1550`, 1565-1567);
  the event reaches the reserved slot, and `force_close` asserts that a socket is
  not reserved (480).

The modules state more properties that the code does not keep; no run is kept
for them, and TLC refutes each in seconds:

| Property | Where | What happens |
|---|---|---|
| `ReuseSameConnection` | `GameGate` | a request that completes after a reconnect is stored with the new version (`GameGate.lua:300`) and is executed again when the client asks for it there |
| `IpWhenConnected` | `GameGate` | the late disconnect of a replaced socket clears `u.fd` of the new one |
| `AuthAtomic` | `GameGate` | `do_auth`, "atomic , no yield", waits in `auth_handler` |
| `CachedIsLoaded` | `RoleSingleEntity`, `Env = {"partition"}` | Load sends the cached row to a db node that has the role online, then loads the older row from redis |
| `DeletedNotServed` | `RoleSingleEntity`, `Env = {"delete"}` | `delMysqlImpl` returns nothing, so a deleted role stays in the memory of both nodes |
| `OnlineIsLoaded` | `RoleSingleEntity`, `Env = {"partition"}` | Load marks a role online although nothing was loaded |
| `CachedOrLoaded` | `RoleSingleEntity`, `Env = {"dbcrash"}` or `{"partition"}` | the UnLoad inside Load, for the row that the Get of the role login has loaded, caches it when the db node is down; Load goes on and may read the row again, and a later `CacheSave` writes the older copy over what was saved since |
| `SavedNotRolledBack` | `RoleSingleEntity`, `Env = {"partition", "offlineset"}` | an offline Set writes to the db node while the row is in the cache of the game node, and the next Load sends the cached row over it |
| `UnloadedIsSaved`, `OnlineStaysLoaded` | `RoleSingleEntity`, `Env = {"partition"}` or `{"dbcrash"}` | an UnLoad that cannot reach the db node leaves the row in the cache alone, and a Load whose call fails loads nothing |
| `OneOnlineSession` | `AgentSession`, `Env = {"timeout"}`, two Agents | a logout clears `uid_agent` of an account whose session goes on; the next login gets another Agent and kicks nobody |
| `OnlineIsLoaded`, `OwnerExists`, `Routed` | `AgentSession`, the same | a logout by a timer unloads or unroutes the role of a client that has come back |
| `RouteDropped` | `AgentSession` | `addRid` counts each role login of a session, logout calls `delRid` once |
| `OnlineAgrees` | `AgentSession`, `Env = {}`, `MaxRef = 2` | the end of `onRoleAfk` takes a role off line that is logged in again |
| `HalfCloseEnds` | `SocketServer`, `FairSpec` | a close is handled while a message of another service is on its way into the pipe; `send_socket` drops that message for the half closed socket, and nothing closes it afterwards. The rest of a direct write has the same effect: its reference is never given back |
| `ContextFound` | `ServiceQueue`, `InitHandles = 2`, `SlotSize = 2`, `MaxHandle = 5` | a register doubles the slots while another context has no handle yet and is hashed as 0: `skynet_handle_grab` and `retire` do not find it until the slots double again |
| `RolledInTime` without `crossed` | `AsyncLog` | the hour begins after `rollfile` made the name and before it sets `roll_hour`: the whole hour goes to the file of the hour before |
| `WireWhole`, `InOrder` without `Lost` | `SocketServer` | `force_close` frees a half written message before it takes the lock (`socket_server.c:481-484`), and a service writes directly behind the half that is on the wire |

`OneOnlineSession` with timeouts explains the limit of `session_takeover`: its
invariants fail once a logout by a timer or from the web overlaps the client's
return, and hold when none does. For example, a logout whose client has come back
unloads the role under it (`OnlineIsLoaded`), and one that runs during a role login
leaves `AgentUids` with a session that is gone (`OwnerExists`), after which line 407
of `Agent.lua` fails for every login of the role.

A save that is torn before mysql is written can lose the write it was about,
which `SavedNotRolledBack`, as it speaks of what mysql has, does not cover. `Save`
clears `updateflag` whatever the db node answers, so that the UnLoad sends nothing;
if redis has the row by then it is read at the next Load, but that does not mark it
as changed, and the UnLoad after it takes it out of redis and leaves mysql as it was.

What the modelling of the C code showed besides:

* After a failed `calloc` in `append` (`lua-log.c:260`) the full buffer is linked
  and still the current one; the next message links it again, to itself, and fails
  the assertion at line 246, where the comment expects it just to try again.
  `NoAssertFails`, `OneOwner` and `NoneLost` are stated for behaviours without it
  (`oom`).
* The hour of a log file is compared as `tm_hour`, so a level that is silent for
  exactly 24 h goes on in yesterday's file (`lua-log.c:398`).
* Two pairs of the area of interest may have one key (`aoi.c:376`), such as
  (1, 11) and (11, 1): only one of the two is ever made. A pair that the limit
  refused is tried again only when one of the two moves. `refused` records both,
  and `PairsExact` excepts them.
* The map of a space never shrinks, and ids that are always new use up its
  tombstones and make it double (`aoi.c:93`).
* A posted `armyUpdate` or `roleUpdate` that arrives after the leave makes the object
  anew (`AoiMgr.lua`), which nothing removes.

Kicks from the web (`"web"`) are in no run: with them the bounds that the other
actions need are out of TLC's reach. The theorems about `AgentSession` cover
them.

## 4. Proofs

TLAPS proves, for every value of the constants that the named assumptions
allow:

* `GameGateProofs` (assumes `GateAssumption`): `TypeOK`, `ReturnFdOwned`,
  `NoSecondRun`, `CacheIndex`, `RetireKeepsExpiredNumber`. The inductive
  invariant `GateInv` adds what the cache refers to (`CacheRefs`), which records
  coroutines hold (`ReturnFds`, `Running`) and how old each cached response is
  (`CacheAge`); without the last `retire_response` could remove a young one.
* `RoleSingleEntityProofs` (assumes `EntityAssumption`): under `NoOfflineSets`,
  with every fault, torn saves and the Get of every login included,
  `SavedNotRolledBack` and `RedisNotStale`, from `SavedInv`: every copy of a row
  contains what mysql has (`CopyInv`) until a row is loaded while it is in the
  cache, which `split` records (`OpInv`). Under
  `Faultless`, `UnloadedIsSaved`, `OnlineStaysLoaded` and `StoreRefinement`: the
  detailed specification implements `RoleStore`, from `StoreInv`. Under
  `NoFaults`, which allows every use of a role and no partition or crash,
  `DeletedIsGone`, from `GoneInv`: the two nodes hold the row or neither does. A
  Save after a Delete may put the row back into redis alone, and the UnLoad that
  must follow takes it out again. Each of the three hypotheses names the values
  of `Env` that the theorem covers.
* `AgentSessionProofs` (assumes `SessionAssumption`): `TypeOK` and `NamesKnown`
  with every fault. `NamesKnown` is not inductive: `NamesInv` adds that afks,
  logouts and takeovers are only of sessions that have entered, so that no
  logout meets the login of its session, and that a logout which is about to
  drop its session has made Gamed forget it. Under `TakeoversOnly` (sessions end
  by takeovers, and an afk may be slow) `OneOnlineSession`, `Routed`,
  `OwnerExists` and `NotReloaded`, for any number of sessions and Agents, from
  `TakeoverInv`: the account stays with its first Agent
  (`OneAgentInv`), a logout under way is the one that the role login waits for
  (`LogoutInv`), and what `AgentUids`, AgentMgr and the online flags hold follows
  from the place of that role login (`OwnerInv`, `TakesInv`). Section 3 shows that
  the first three fail beyond that hypothesis.
* `ServiceQueueProofs` (assumes `QueueAssumption`): `QueueInOnePlace` and
  `RefsCounted`, for any number of workers, handles, messages and slots, from
  `QueueInv`. Neither is inductive without the other: a context is used safely
  because its count is right (`RefInv`), its queue is dispatched by one worker
  because it is in one place, and its release is marked once because one thread
  deletes it (`DeleteInv`). A context is counted for
  its slot once its handle is stored (`Owned`). It is in one slot, which need not
  be the one of its handle (`SlotInv`): a register that grows the table at the wrong
  moment misplaces it, and the counts stay right all the same. A context that is in
  a slot without its handle belongs to one worker and has no queue (`RegInv`).
  `LifeInv` which states
  a queue goes through, `TotalInv` that the count of services is that of the
  contexts that are not released. The prover knows nothing of `^`, so
  `QueueAssumption` states that the powers of two that occur are positive.
* `MailboxProofs` (on top of `QueueInv`): `QueuesAreMailboxes`, the refinement of
  `Mailbox`, and `DropReported`. Every step of the kernel is of one of eight kinds
  for the mailboxes: it leaves them alone (`Still`), or takes, drops, finishes,
  retires, puts, refuses or sends (`Kinds`); each kind is a step of `Mailbox`.
  `MsgInv` says that every message in the node was sent and that a report goes to the
  sender of what it reports, `ReportInv` where the report of a dropped message is. A report
  could not be delivered to a context that a register has misplaced; `FoundInv` says
  that no service that runs, and no sender of a message that arrived, is such a
  context: its queue is never dispatched, and what it sends in its init goes to itself.
* `AsyncLogProofs` (assumes `LogAssumption`): `NoAssertFails` and `OneOwner`, for any
  number of buffers, messages and levels, from `BufferInv`: `curr_buffer` ends the
  front list (`FrontInv`), the thread has its spare buffers when it locks
  (`SpareInv`), the list that it writes ends, and has a buffer for each spare one
  that is missing (`ListInv`), and every buffer is in one place (`OwnerInv`). A list
  is the least set of buffers that contains its head and is closed under `next`;
  that a list which ends has no cycle follows from that, without induction.
  `FilesRolled`, from `FileInv`: the files before the open one are full, and the
  open one is over rollsize only until it is flushed, but for the hours that began
  inside a `rollfile` (`crossed`), in which the name and `roll_hour` differ. It has
  the hypothesis `WithinDay`, because `worker_func` compares `tm_hour` alone: a
  thread that sleeps for a whole day would go on with the file of the day before.
  `NoneLost`, from
  `MsgInv`: what the thread has still to write and the front list are one queue
  of ordered messages; `append` adds at its end, writing takes from its head, and
  only `Trim` takes anything else out of it, which it records as dropped.
* `SocketServerProofs` (assumes `SocketAssumption`): `WireWhole`, `AssertsHold`
  and `Drained`, for any number of services, slots, connections and messages and
  messages of any size, from `Inv`, and `InOrder`, from `OrderInv`. A sequence
  consists of whole messages (`Blocks`) when every unit has the other units of its
  message around it; the wire followed by `dw_buffer` and the high list is such a
  sequence, the low list is another, and while a service has the lock the wire and
  the high list are two (`WireInv`). `send_buffer` and `raise_uncomplete` keep
  this whatever number of units the kernel takes (`SendBufferLists`). `sending`
  covers the messages in the pipe and in the hands of services (`CountInv`); what
  a connection owes is on its wire, in its lists, in the pipe before any close, or
  with its sender (`DueInv`), and a close is in the pipe only after its call, so
  that one which finds the lists empty finds everything written (`CloseInv`). What is
  said of lists and wires is said of connections whose lists were not freed
  (`Kept`); between the two parts of `force_close` the slot keeps its connection and
  its lists stay empty (`JobInv`), and messages are lost only there (`LostInv`), so
  that a close which waited for the lists is still drained at its end. The
  others say which slot a command, a sender and a lock belong to; of events nothing
  is assumed, as a stale one may reach any slot. A step
  changes one slot, or none (`Change`, `Still`): one lemma for each invariant says
  what must be shown of that slot alone, and one for each action shows it.
  `OrderInv` follows a message from the hand of its sender through the pipe to the
  line (the wire, `dw_buffer` and the list of its priority): in each of the three
  alike messages are in order, and those further on were sent earlier.
  `send_buffer` moves units along the line and leaves it the same
  (`raise_uncomplete` moves the rest of a message, not its place among those
  alike); a direct write puts a message straight onto the wire, which is in order
  because `sending` is zero only when nothing is underway for the socket. Nothing
  that was sent is missing (`KeptOK`) until the socket is half closed; what
  `force_close` may have freed (`Gone`) counts as passed on, so that the order of what
  is on the wire holds to the end.
* `TimerWheelProofs` (assumes `WheelAssumption`): `OnTime` and `SameTickInOrder`,
  for wheels of every size and any number of timers, from `WheelInv`: `expire` is
  the end of a timer's timeout modulo the word (`DueInv`), what fires is what is
  due (`FiringInv`, `ThreadInv`), and each timer is in the list that `PlaceOf`
  gives for its `expire` and the present time, in the order in which the timers
  of the list were added where they expire together (`PlaceInv`). The argument is
  that `PlaceOf` is a function of these two alone: a tick changes the place only
  of the timers in the one list that `timer_shift` moves, so that moving it
  restores `PlaceInv`, and two timers that expire together always share a place.
  What the recursion in `AddAll` computes is shown from the least index at which
  it would fail, so no induction theorem is needed.

Only model-checked: the liveness properties `SessionsEnd`, `QueueServed`,
`Delivered` and `Logged` (liveness under fairness is out of the prover's reach),
and the four invariants of `Aoi`, `MapFinds`, `RefsExact`, `PairsExact` and
`ViewMatches`: an update of a space is a fold over its objects and pairs, with the
hash map's chains inside, and the provers cannot instantiate the operators that
folds and `SelectSeq` take.

## 5. Not modelled, and the plan

Left out of the modelled parts: `cleanAgent` and `UnLoadAll` at a shutdown, the
push queues of an Agent, accounts with several roles, fields of a row that are
not saved; UDP, pause and listening slots of the socket server; names and harbor
of the kernel. `components` in `PROJECT.json` gives the reason for every part that
has no module.

No module is planned for these, and their hazards are known only from reading:
PkIdMgr (its counters live in redis and are copied to the database every 5 s, and
Init sets redis from the database, so that a crash may issue keys again;
`savePKId` reads and writes in two calls), AccountMgr (`AuthIGGID` waits between
Get and Add), MonitorPublish (a loop over `clusterInfo` that waits in it; the
shutdown gives each game node 10 s and then stops the db node). `RoleMultiEntity`
and the other entities repeat the scheme of `RoleSingleEntity` with an index per
row. Most of the repository's C and C++ by size is vendored (jemalloc, the Lua
interpreter, Detour, lua-cjson, curl headers) and holds none of the server's own
decisions.

What is left to prove is `Aoi`. It would take the loops of `aoi_message` written as
recursive functions, as `AddAll` of `TimerWheel` is, and an invariant of the hash
map that says of each chain which slots it goes through.
