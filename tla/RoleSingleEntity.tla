-------------------------- MODULE RoleSingleEntity --------------------------
(***************************************************************************)
(* A role table of single rows (RoleSingleEntity.lua, served by d_role and *)
(* its like) on the two nodes that hold it: the game node, whose entity    *)
(* has a remoteNode, and the db node, whose entity keeps redis and mysql.  *)
(* The model is one role: the entries of different roles are independent.  *)
(*                                                                         *)
(* Every operation runs under the role's lock, so at most one is under way *)
(* on the game node; it waits (and lets the unlocked CacheSave timer, the  *)
(* network and crashes act) at each call of the db node.  Calls go over    *)
(* one ordered cluster connection, so a call is one step: the db node      *)
(* executes it and the answer comes back, or the connection is down and    *)
(* nothing happens, or it is executed and the answer is lost, or the db    *)
(* node stops between two of the writes the call makes to redis and mysql. *)
(* The db node runs a role's calls one at a time under its own lock of the *)
(* role, so a half-done call is seen only when that node stops.            *)
(*                                                                         *)
(* A row is the set of writes it reflects: a write of fields is added to   *)
(* it, a whole row sent by the game node overwrites every field.           *)
(***************************************************************************)
EXTENDS Integers

CONSTANTS
    MaxWrites,  \* bound: writes in a behaviour
    Env,        \* which faults, and which uses of a role beside its session,
                \* happen
    None        \* nil

Writes == 1..MaxWrites

ASSUME EntityAssumption ==
    /\ MaxWrites \in Nat
    /\ \A row \in SUBSET Writes : row # None
    /\ Env \subseteq {"partition", "dbcrash", "gamecrash",
                      "offlineset", "delete"}

VARIABLES
    \* the game node's entity, for the role
    recordset,         \* self.recordset[rid]
    online,            \* self.online[rid]
    updateflag,        \* self.updateflag[rid]
    offlineCacheTimer, \* self.offlineCacheTimer[rid] is set
    cache,             \* self.cache[rid].row
    op,                \* the operation that holds the lock, and where it is
    \* the db node's entity with redis and mysql
    db,
    \* the environment
    link,              \* the db node can be reached
    present,           \* the role is logged in
    nwrites,           \* writes made so far
    \* history
    split              \* the row has been loaded while it was in the cache

game == <<recordset, online, updateflag, offlineCacheTimer, cache>>
vars == <<game, op, db, link, present, nwrites, split>>

Rows == SUBSET Writes
RowOrNone == Rows \cup {None}

Db == [row : RowOrNone, online : BOOLEAN, dirty : BOOLEAN,
       redis : RowOrNone, mysql : RowOrNone]

\* alive, update, unload: the calls of UnLoad; load: the call of loadRole in
\* Load.  kind is what was asked for.
Op == [pc : {"idle", "alive", "update", "unload", "load"},
       kind : {"login", "get", "logout", "expire"}]

Idle == [pc |-> "idle", kind |-> "get"]

TypeOK ==
    /\ recordset \in RowOrNone
    /\ online \in BOOLEAN
    /\ updateflag \in BOOLEAN
    /\ offlineCacheTimer \in BOOLEAN
    /\ cache \in RowOrNone
    /\ op \in Op
    /\ db \in Db
    /\ link \in BOOLEAN
    /\ present \in BOOLEAN
    /\ nwrites \in 0..MaxWrites
    /\ split \in BOOLEAN

Init ==
    /\ recordset = None /\ cache = None
    /\ online = FALSE /\ updateflag = FALSE /\ offlineCacheTimer = FALSE
    /\ op = Idle
    /\ db \in {[row |-> None, online |-> FALSE, dirty |-> FALSE,
                redis |-> None, mysql |-> m] : m \in {None, {}}}
    /\ link = TRUE /\ present = FALSE /\ nwrites = 0 /\ split = FALSE

-----------------------------------------------------------------------------
(* The db node: what each operation of its entity makes of db *)

\* EntityImpl:loadRole looks in redis, then in mysql
Stored(d) == IF d.redis # None THEN d.redis ELSE d.mysql

\* EntityImpl:updateRole: hset in redis, and an UPDATE that needs the mysql row
UpdateRole(d, row) ==
    [d EXCEPT !.redis = row,
              !.mysql = IF @ = None THEN None ELSE row]

\* what an update (a whole row, or the write of some fields) makes of a row
Merge(row, change) ==
    CASE row = None -> None
      [] row # None /\ change.whole -> change.row
      [] OTHER -> row \cup change.row

Whole(row) == [whole |-> TRUE, row |-> row]
Fields(w) == [whole |-> FALSE, row |-> {w}]

\* The row that an update of the db node's entity comes to
NewRow(d, change) == Merge(IF d.online THEN d.row ELSE Stored(d), change)

\* Mutant: a saved row is not kept in the db node's memory.
DbUpdateForgets(d, change, saveFlag) ==
    LET row == NewRow(d, change)
    IN  CASE d.online /\ ~saveFlag -> [d EXCEPT !.row = row, !.dirty = TRUE]
          [] (saveFlag \/ ~d.online) /\ row # None -> UpdateRole(d, row)
          [] OTHER -> d

\* Update on the db node.  Online: in memory, and saved only with saveFlag
\* (an absent row fails the save).  Offline: loaded, merged and saved.
DbUpdate(d, change, saveFlag) ==
    LET row == NewRow(d, change)
    IN  CASE d.online /\ ~saveFlag -> [d EXCEPT !.row = row, !.dirty = TRUE]
          [] d.online /\ saveFlag /\ row # None ->
                UpdateRole([d EXCEPT !.row = row], row)
          [] ~d.online /\ row # None -> UpdateRole(d, row)
          [] OTHER -> d

\* Load on the db node reads redis or mysql again, also when it is online
DbLoad(d) ==
    [d EXCEPT !.redis = Stored(d), !.online = TRUE,
              !.row = IF Stored(d) # None THEN Stored(d) ELSE @]

\* Mutants: UnLoad on the db node leaves the row in memory, or in redis.
DbUnLoadKeepsRow(d) ==
    LET saved == IF d.dirty THEN UpdateRole(d, d.row) ELSE d
    IN  IF d.row = None THEN d
        ELSE [saved EXCEPT !.redis = None, !.online = FALSE, !.dirty = FALSE]

DbUnLoadKeepsRedis(d) ==
    LET saved == IF d.dirty THEN UpdateRole(d, d.row) ELSE d
    IN  IF d.row = None THEN d
        ELSE [saved EXCEPT !.row = None, !.online = FALSE, !.dirty = FALSE]

\* UnLoad on the db node saves what is dirty and empties redis and memory
DbUnLoad(d) ==
    LET saved == IF d.dirty THEN UpdateRole(d, d.row) ELSE d
    IN  IF d.row = None THEN d
        ELSE [saved EXCEPT !.row = None, !.redis = None, !.online = FALSE,
                           !.dirty = FALSE]

\* Add on the db node; the INSERT fails when mysql has the row
DbAdds(d) == d.row = None /\ d.mysql = None
DbAdd(d) ==
    IF DbAdds(d)
      THEN [d EXCEPT !.mysql = {}, !.redis = {},
                     !.row = IF d.online THEN {} ELSE @]
      ELSE d

\* Delete on the db node; delMysqlImpl returns nil, so memory stays
DbDelete(d) == [d EXCEPT !.mysql = None, !.redis = None]

-----------------------------------------------------------------------------
(* A call of the db node, and where it is when the db node stops inside it *)

\* The db node stops: its memory is lost, redis and mysql are not
Stopped(d) == [d EXCEPT !.row = None, !.online = FALSE, !.dirty = FALSE]

\* Mutant: mysql is written before redis.
HalfSavedMysqlFirst(d, row) ==
    {d, [d EXCEPT !.mysql = IF @ = None THEN None ELSE row], UpdateRole(d, row)}

\* updateRole does hdel and hset in redis, and then the UPDATE of mysql
HalfSaved(d, row) ==
    {d, [d EXCEPT !.redis = None], [d EXCEPT !.redis = row], UpdateRole(d, row)}

HalfUpdated(d, change, saveFlag) ==
    LET row == NewRow(d, change)
    IN  IF (saveFlag \/ ~d.online) /\ row # None THEN HalfSaved(d, row) ELSE {d}

HalfUnLoaded(d) ==
    {DbUnLoad(d)} \cup (IF d.row # None /\ d.dirty THEN HalfSaved(d, d.row) ELSE {d})

\* Add inserts into mysql and Delete deletes from mysql before redis
HalfAdded(d) ==
    {d, DbAdd(d), IF DbAdds(d) THEN [d EXCEPT !.mysql = {}] ELSE d}
HalfDeleted(d) == {d, DbDelete(d), [d EXCEPT !.mysql = None]}

\* The outcomes of a cluster call, and what it leaves of link and db
Outcomes ==
    IF ~link THEN {"down"}
    ELSE {"ok"} \cup (IF "partition" \in Env THEN {"lost"} ELSE {})
                \cup (IF "dbcrash" \in Env THEN {"torn"} ELSE {})

Call(o, d, half) ==
    /\ link' = (o = "ok")
    /\ \/ o = "down" /\ UNCHANGED db
       \/ o \in {"ok", "lost"} /\ db' = d
       \/ o = "torn" /\ \E h \in half : db' = Stopped(h)

CallUpdate(o, change, saveFlag) ==
    Call(o, DbUpdate(db, change, saveFlag), HalfUpdated(db, change, saveFlag))

-----------------------------------------------------------------------------
(* Load and UnLoad on the game node *)

\* Mutant: Load does not look at the timer of an offline Get.
LoadStepKeepsTimer(kind) ==
    op' = [kind |-> kind, pc |-> "load"] /\ UNCHANGED offlineCacheTimer

\* Load once the cache is written: a role that a Get had loaded is unloaded
\* first (Timer.delete makes its timer void).
LoadStep(kind) ==
    /\ op' = [kind |-> kind,
              pc |-> IF offlineCacheTimer /\ recordset # None
                       THEN "alive" ELSE "load"]
    /\ offlineCacheTimer' = FALSE

\* Load is called at a login, and by a Get of a role that is not in memory, as
\* RoleLogin makes before the login, and others of a role that is offline
Loads(kind) ==
    /\ op.pc = "idle"
    /\ \/ kind = "login" /\ ~present
       \/ kind = "get" /\ recordset = None

\* Load first writes a cached row to the db node; assert(false) ends it if
\* that fails.
BeginLoad(kind) ==
    /\ Loads(kind)
    /\ \/ /\ cache = None
          /\ LoadStep(kind)
          /\ UNCHANGED <<cache, db, link>>
       \/ /\ cache # None
          /\ \E o \in Outcomes :
                /\ CallUpdate(o, Whole(cache), FALSE)
                /\ \/ o = "ok" /\ cache' = None /\ LoadStep(kind)
                   \/ o # "ok" /\ UNCHANGED <<cache, op, offlineCacheTimer>>
    /\ UNCHANGED <<recordset, online, updateflag, present, nwrites, split>>

\* EntityImpl:loadRole from the db node.  The entry is online afterwards, also
\* when the call failed; a Get that found the row starts the unload timer.
LoadRow ==
    /\ op.pc = "load"
    /\ \E o \in Outcomes :
          /\ Call(o, DbLoad(db), {db, DbLoad(db)})
          /\ recordset' = IF o = "ok" /\ DbLoad(db).row # None
                            THEN DbLoad(db).row ELSE recordset
          /\ offlineCacheTimer' =
                (offlineCacheTimer \/ (op.kind = "get" /\ recordset' # None))
    /\ online' = TRUE
    /\ present' = (present \/ op.kind = "login")
    /\ op' = Idle
    /\ split' = (split \/ (cache # None /\ recordset' # None))
    /\ UNCHANGED <<updateflag, cache, nwrites>>

\* UnLoad at a logout, and by the timer that a Get started
BeginUnLoad(kind) ==
    /\ op.pc = "idle"
    /\ \/ kind = "logout" /\ present
       \/ kind = "expire" /\ offlineCacheTimer
    /\ op' = IF recordset # None THEN [kind |-> kind, pc |-> "alive"] ELSE Idle
    /\ present' = (present /\ kind # "logout")
    /\ UNCHANGED <<game, db, link, nwrites, split>>

\* The end of UnLoad; Load goes on when it was the caller
UnLoaded ==
    /\ recordset' = None /\ online' = FALSE /\ updateflag' = FALSE
    /\ offlineCacheTimer' = FALSE
    /\ op' = IF op.kind \in {"login", "get"}
               THEN [op EXCEPT !.pc = "load"] ELSE Idle

\* CheckRemoteNodeAlive; the row goes to the cache if the db node is down
UnLoadAlive ==
    /\ op.pc = "alive"
    /\ \/ /\ link
          /\ op' = [op EXCEPT !.pc = IF updateflag THEN "update" ELSE "unload"]
          /\ UNCHANGED game
       \/ /\ ~link
          /\ cache' = recordset
          /\ UnLoaded
    /\ UNCHANGED <<db, link, present, nwrites, split>>

\* The two calls of UnLoad, whose results it does not look at
UnLoadUpdate ==
    /\ op.pc = "update"
    /\ \E o \in Outcomes : CallUpdate(o, Whole(recordset), FALSE)
    /\ op' = [op EXCEPT !.pc = "unload"]
    /\ UNCHANGED <<game, present, nwrites, split>>

UnLoadUnLoad ==
    /\ op.pc = "unload"
    /\ \E o \in Outcomes : Call(o, DbUnLoad(db), HalfUnLoaded(db))
    /\ UnLoaded
    /\ UNCHANGED <<cache, present, nwrites, split>>

-----------------------------------------------------------------------------
(* The operations that make at most one call *)

\* Mutant: updateflag is not set.
UpdateOnlineNoFlag ==
    /\ op.pc = "idle" /\ online
    /\ nwrites < MaxWrites
    /\ nwrites' = nwrites + 1
    /\ recordset' = Merge(recordset, Fields(nwrites + 1))
    /\ UNCHANGED <<online, updateflag, offlineCacheTimer, cache, op, db, link,
                   present, split>>

\* Update, Set and LockSet of a role that is in memory
UpdateOnline ==
    /\ op.pc = "idle" /\ online
    /\ nwrites < MaxWrites
    /\ nwrites' = nwrites + 1
    /\ recordset' = Merge(recordset, Fields(nwrites + 1))
    /\ updateflag' = TRUE
    /\ UNCHANGED <<online, offlineCacheTimer, cache, op, db, link, present,
                   split>>

\* Update, Set and LockSet of a role that is not: the db node does it
UpdateOffline ==
    /\ "offlineset" \in Env
    /\ op.pc = "idle" /\ ~online
    /\ nwrites < MaxWrites
    /\ nwrites' = nwrites + 1
    /\ \E o \in Outcomes : CallUpdate(o, Fields(nwrites + 1), FALSE)
    /\ UNCHANGED <<game, op, present, split>>

\* Save, by the role's timer and at afk; updateflag is cleared in any case
Save ==
    /\ op.pc = "idle" /\ updateflag /\ recordset # None
    /\ \E o \in Outcomes : CallUpdate(o, Whole(recordset), TRUE)
    /\ updateflag' = FALSE
    /\ UNCHANGED <<recordset, online, offlineCacheTimer, cache, op, present,
                   nwrites, split>>

\* Add of a new role; createRole has loaded it before, as at a login
Add ==
    /\ op.pc = "idle" /\ present /\ recordset = None
    /\ \E o \in Outcomes :
          /\ Call(o, DbAdd(db), HalfAdded(db))
          /\ recordset' = IF o = "ok" /\ DbAdds(db) /\ online THEN {} ELSE None
    /\ split' = (split \/ (cache # None /\ recordset' # None))
    /\ UNCHANGED <<online, updateflag, offlineCacheTimer, cache, op, present,
                   nwrites>>

\* Delete; the db node answers nil, so the row stays in recordset
Delete ==
    /\ "delete" \in Env
    /\ op.pc = "idle"
    /\ \E o \in Outcomes : Call(o, DbDelete(db), HalfDeleted(db))
    /\ UNCHANGED <<game, op, present, nwrites, split>>

\* The CacheSave timer, which takes no lock: the cached row is written to the
\* db node, or is dropped once it is 30 minutes old.
CacheSave ==
    /\ cache # None /\ link
    /\ \/ \E o \in Outcomes :
            /\ CallUpdate(o, Whole(cache), FALSE)
            /\ cache' = IF o = "ok" THEN None ELSE cache
       \/ cache' = None /\ UNCHANGED <<db, link>>
    /\ UNCHANGED <<recordset, online, updateflag, offlineCacheTimer, op,
                   present, nwrites, split>>

-----------------------------------------------------------------------------
(* The environment *)

LinkDown ==
    /\ "partition" \in Env /\ link
    /\ link' = FALSE
    /\ UNCHANGED <<game, op, db, present, nwrites, split>>

LinkUp ==
    /\ ~link
    /\ link' = TRUE
    /\ UNCHANGED <<game, op, db, present, nwrites, split>>

\* The db node stops between two calls
DbCrash ==
    /\ "dbcrash" \in Env
    /\ link' = FALSE
    /\ db' = Stopped(db)
    /\ UNCHANGED <<game, op, present, nwrites, split>>

GameCrash ==
    /\ "gamecrash" \in Env
    /\ recordset' = None /\ cache' = None /\ op' = Idle
    /\ online' = FALSE /\ updateflag' = FALSE /\ offlineCacheTimer' = FALSE
    /\ present' = FALSE
    /\ UNCHANGED <<db, link, nwrites, split>>

Next ==
    \/ \E kind \in {"login", "get"} : BeginLoad(kind)
    \/ LoadRow
    \/ \E kind \in {"logout", "expire"} : BeginUnLoad(kind)
    \/ UnLoadAlive \/ UnLoadUpdate \/ UnLoadUnLoad
    \/ UpdateOnline \/ UpdateOffline \/ Save \/ Add \/ Delete
    \/ CacheSave
    \/ LinkDown \/ LinkUp \/ DbCrash \/ GameCrash

Spec == Init /\ [][Next]_vars

-----------------------------------------------------------------------------
(* Properties *)

\* The row the game server works with, wherever it is
Value ==
    CASE recordset # None -> recordset
      [] recordset = None /\ db.row # None -> db.row
      [] OTHER -> Stored(db)

\* Without faults the two nodes, redis and mysql are one store: every write
\* that Update acknowledged stays visible through loads, saves, offline
\* updates and the unload timer.
Store == INSTANCE RoleStore WITH value <- Value, deleted <- (db.mysql = None)
StoreSpec == Store!Spec

\* Without faults UnLoad leaves nothing behind: once a role is unloaded the
\* db node has saved all of it, holds no row and no redis copy that differs.
UnloadedIsSaved ==
    (op.pc = "idle" /\ recordset = None /\ db.mysql # None) =>
        db.row = None /\ db.redis \in {None, db.mysql}

\* "the role is really online, do not unload": without faults the timer of
\* an earlier offline Get never unloads a role that has logged in.
OnlineStaysLoaded ==
    (op.pc = "idle" /\ present /\ db.mysql # None) =>
        recordset # None /\ ~offlineCacheTimer

\* The row of a role is on the game node in one place: never cached for the
\* db node while it is also loaded.  The code does not keep this: the UnLoad
\* that Load begins with, for a role an earlier Get loaded, puts the row in the
\* cache when the db node is down, and Load goes on and may read it again.
CachedOrLoaded == cache # None => recordset = None

\* What mysql has is never rolled back, not by a cached row that is written
\* late or twice, a save after a reconnection, a restarted node or a db node
\* that stopped inside a save, unless the row has been loaded while it was in
\* the cache: that is the only way in which a role that has no offline Set
\* loses what was saved.
SavedGrows ==
    (~split /\ db.mysql # None) => db'.mysql # None /\ db.mysql \subseteq db'.mysql
SavedNotRolledBack == [][SavedGrows]_vars

\* loadRole reads redis first: wherever the db node stopped in a save, the copy
\* in redis has all that mysql has, and no row but mysql's is read in its
\* place (the same exception).
RedisNotStale ==
    (~split /\ db.redis # None) => db.mysql # None /\ db.mysql \subseteq db.redis

\* Delete, then UnLoad: no tier brings the row back.
DeletedIsGone ==
    (op.pc = "idle" /\ recordset = None /\ ~online /\ db.mysql = None) =>
        db.row = None /\ db.redis = None

\* What the comment in Load says, "write the cached data first": the row that
\* Load reads after it wrote the cached one has every write of the cached one.
FlushedIsLoaded ==
    (op.pc = "idle" /\ cache # None /\ op'.pc = "load")
       => cache \subseteq DbLoad(db').row
CachedIsLoaded == [][FlushedIsLoaded]_vars

\* What the comment in Update says, "online only updates the memory": an entry
\* that is online has the row of an existing role in memory.  The code does
\* not keep this: Load sets online also when its call of the db node failed.
OnlineIsLoaded ==
    (op.pc = "idle" /\ online /\ db.mysql # None) => recordset # None

\* What the comment in Delete says, "really delete the data": a role that is
\* in neither redis nor mysql is not in the game node's memory.
DeletedNotServed ==
    (op.pc = "idle" /\ db.mysql = None /\ db.redis = None) => recordset = None
=============================================================================
