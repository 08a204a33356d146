----------------------- MODULE RoleSingleEntityProofs -----------------------
(***************************************************************************)
(* Proofs about RoleSingleEntity, for any number of writes.                *)
(*                                                                         *)
(* With every fault, what mysql has is not rolled back and redis is not    *)
(* older than mysql until a row is loaded while it is in the cache         *)
(* (SavedInv).  Without faults the tiers implement RoleStore (StoreInv),   *)
(* and a deleted role stays deleted (GoneInv).                             *)
(***************************************************************************)
EXTENDS RoleSingleEntity, TLAPS

\* An operation that unloads has a row, and split remembers
OpInv ==
    /\ op.pc \in {"alive", "update", "unload"} => recordset # None
    /\ cache # None /\ recordset # None => split

\* The copy in redis has all that mysql has, and so has the one in the db
\* node's memory
Durable(d) == d.redis # None => d.mysql # None /\ d.mysql \subseteq d.redis
InMemory(d) ==
    d.row # None => d.online /\ d.mysql # None /\ d.mysql \subseteq d.row

\* A row held on the game node has all that mysql has
Covers(row, d) == row # None => d.mysql # None /\ d.mysql \subseteq row

CopyInv ==
    /\ Durable(db) /\ InMemory(db)
    /\ Covers(recordset, db) /\ Covers(cache, db)

SavedInv == TypeOK /\ OpInv /\ (~split => CopyInv)

\* Neither Set nor Delete of a role that is offline
NoOfflineSets == Env \cap {"offlineset", "delete"} = {}

\* d is db with nothing taken out of mysql
MysqlGrows(d) == db.mysql # None => d.mysql # None /\ db.mysql \subseteq d.mysql

-----------------------------------------------------------------------------
(* The db node *)

\* A record of db given by its fields
LEMMA DbFields ==
    ASSUME NEW d \in Db
    PROVE  /\ d.row \in RowOrNone /\ d.redis \in RowOrNone
           /\ d.mysql \in RowOrNone
           /\ d.online \in BOOLEAN /\ d.dirty \in BOOLEAN
  BY DEF Db

\* A call leaves db alone, does its operation or stops in the midst of it.
LEMMA CallFacts ==
    ASSUME NEW o, NEW e, NEW half, Call(o, e, half)
    PROVE  /\ link' \in BOOLEAN
           /\ db' = db \/ db' = e \/ (\E h \in half : db' = Stopped(h))
           /\ o = "ok" => db' = e
  BY DEF Call

\* A db node that stopped keeps redis and mysql.
LEMMA StoppedFacts ==
    ASSUME NEW d \in Db
    PROVE  /\ Stopped(d) \in Db /\ Stopped(d).row = None
           /\ Stopped(d).redis = d.redis /\ Stopped(d).mysql = d.mysql
  BY DbFields DEF Stopped, Db, RowOrNone

\* The save of a row, in full or in part
LEMMA SaveFacts ==
    ASSUME NEW d \in Db, NEW row \in Rows, NEW e \in HalfSaved(d, row)
    PROVE  /\ e \in Db /\ e.row = d.row /\ e.online = d.online
           /\ e.redis \in {d.redis, None, row}
           /\ e.mysql = d.mysql \/ (d.mysql # None /\ e.mysql = row)
           /\ d.mysql # None /\ e.mysql = row => e.redis = row \/ e.mysql = d.mysql
<1>1. /\ d.row \in RowOrNone /\ d.redis \in RowOrNone /\ d.mysql \in RowOrNone
      /\ d.online \in BOOLEAN /\ d.dirty \in BOOLEAN /\ None \in RowOrNone
      /\ row \in RowOrNone
  BY DbFields DEF RowOrNone
<1> QED BY <1>1 DEF HalfSaved, UpdateRole, Db

\* What the outcomes of a call keep: the types, what mysql had, a copy in redis
\* that has all of it, and row (if it is one) ahead of mysql.
Keeps(d, row) ==
    /\ d \in Db /\ Durable(d) /\ MysqlGrows(d)
    /\ Covers(row, d)

\* They hold after a call if they hold after the operation and wherever the
\* db node may stop in it.
LEMMA CallKeeps ==
    ASSUME NEW o, NEW e, NEW half, NEW row, Call(o, e, half),
           db \in Db, Durable(db), InMemory(db), Covers(row, db),
           Keeps(e, row), InMemory(e), \A h \in half : Keeps(h, row)
    PROVE  Keeps(db', row) /\ InMemory(db')
<1>1. Keeps(db, row)
  BY DEF Keeps, MysqlGrows
<1>2. ASSUME NEW h \in half, db' = Stopped(h)
      PROVE  Keeps(db', row) /\ InMemory(db')
  <2>1. Keeps(h, row)
    BY <1>2
  <2>2. /\ Stopped(h) \in Db /\ Stopped(h).row = None
        /\ Stopped(h).redis = h.redis /\ Stopped(h).mysql = h.mysql
    BY <2>1, StoppedFacts DEF Keeps
  <2> QED BY <1>2, <2>1, <2>2 DEF Keeps, Durable, InMemory, MysqlGrows, Covers
<1> QED BY <1>1, <1>2, CallFacts

\* Update on the db node, in full or in part, of a row that has all that mysql
\* has keeps these.
LEMMA UpdateKeeps ==
    ASSUME NEW row \in Rows, NEW save \in BOOLEAN, db \in Db,
           Durable(db), InMemory(db), Covers(row, db)
    PROVE  /\ Keeps(DbUpdate(db, Whole(row), save), row)
           /\ InMemory(DbUpdate(db, Whole(row), save))
           /\ \A h \in HalfUpdated(db, Whole(row), save) : Keeps(h, row)
<1>1. /\ db.row \in RowOrNone /\ db.redis \in RowOrNone
      /\ db.mysql \in RowOrNone /\ db.online \in BOOLEAN /\ db.dirty \in BOOLEAN
  BY DbFields
<1>2. row # None /\ row \in RowOrNone /\ None \in RowOrNone
  BY EntityAssumption DEF Rows, RowOrNone
<1>3. db.mysql # None /\ db.mysql \subseteq row
  BY <1>2 DEF Covers
<1> DEFINE new == NewRow(db, Whole(row))
<1>4. new \in {None, row} /\ (db.online /\ db.row = None => new = None)
  BY DEF NewRow, Merge, Whole
<1>5. Keeps(db, row)
  BY DEF Keeps, MysqlGrows
<1>6. ASSUME NEW d \in Db, d.redis = db.redis, d.mysql = db.mysql,
             NEW f \in HalfSaved(d, row)
      PROVE  Keeps(f, row) /\ f.row = d.row /\ f.online = d.online
             /\ f.mysql # None /\ f.mysql \subseteq row
  <2>1. /\ f \in Db /\ f.row = d.row /\ f.online = d.online
        /\ f.redis \in {d.redis, None, row}
        /\ f.mysql = d.mysql \/ f.mysql = row
        /\ f.mysql = row => f.redis = row \/ f.mysql = d.mysql
    BY <1>3, <1>6, SaveFacts
  <2>2. f.mysql # None /\ f.mysql \subseteq row /\ db.mysql \subseteq f.mysql
    BY <1>2, <1>3, <1>6, <2>1
  <2>3. f.redis # None => f.mysql \subseteq f.redis
    BY <1>3, <1>6, <2>1, <2>2 DEF Durable
  <2> QED BY <1>6, <2>1, <2>2, <2>3 DEF Keeps, Durable, MysqlGrows, Covers
<1>7. \A h \in HalfUpdated(db, Whole(row), save) : Keeps(h, row)
  <2>1. ASSUME NEW h \in HalfUpdated(db, Whole(row), save) PROVE Keeps(h, row)
    <3>1. h = db \/ (new # None /\ h \in HalfSaved(db, new))
      BY <2>1 DEF HalfUpdated
    <3> HIDE DEF new
    <3> QED BY <1>4, <1>5, <1>6, <3>1
  <2> QED BY <2>1
<1>8. DbUpdate(db, Whole(row), save)
         = CASE db.online /\ ~save -> [db EXCEPT !.row = new, !.dirty = TRUE]
             [] db.online /\ save /\ new # None ->
                   UpdateRole([db EXCEPT !.row = new], new)
             [] ~db.online /\ new # None -> UpdateRole(db, new)
             [] OTHER -> db
  BY DEF DbUpdate
<1> HIDE DEF new
<1> DEFINE e == DbUpdate(db, Whole(row), save)
<1>9. CASE db.online /\ ~save
  <2>1. e = [db EXCEPT !.row = new, !.dirty = TRUE]
    BY <1>8, <1>9
  <2>2. /\ e \in Db /\ e.redis = db.redis /\ e.mysql = db.mysql
        /\ e.online = db.online /\ e.row = new
    BY <1>1, <1>2, <1>4, <2>1 DEF Db
  <2> HIDE DEF e
  <2>3. Keeps(e, row) /\ InMemory(e)
    BY <1>3, <1>4, <1>9, <2>2 DEF Keeps, Durable, InMemory, MysqlGrows, Covers
  <2> QED BY <1>7, <2>3 DEF e
<1>10. CASE db.online /\ save /\ new # None
  <2> DEFINE d == [db EXCEPT !.row = row]
  <2>1. e = UpdateRole(d, row)
    BY <1>4, <1>8, <1>10
  <2>2. d \in Db /\ d.redis = db.redis /\ d.mysql = db.mysql
        /\ d.row = row /\ d.online
    BY <1>1, <1>2, <1>10 DEF Db
  <2>3. e \in HalfSaved(d, row)
    BY <2>1 DEF HalfSaved
  <2> HIDE DEF d, e
  <2>4. Keeps(e, row) /\ InMemory(e)
    BY <1>6, <2>2, <2>3 DEF InMemory
  <2> QED BY <1>7, <2>4 DEF e
<1>11. CASE ~db.online /\ new # None
  <2>1. e = UpdateRole(db, row)
    BY <1>4, <1>8, <1>11
  <2>2. e \in HalfSaved(db, row)
    BY <2>1 DEF HalfSaved
  <2> HIDE DEF e
  <2>3. Keeps(e, row) /\ InMemory(e)
    BY <1>6, <1>11, <2>2 DEF InMemory
  <2> QED BY <1>7, <2>3 DEF e
<1>12. CASE (save \/ ~db.online) /\ new = None
  BY <1>1, <1>5, <1>7, <1>8, <1>12
<1> QED BY <1>1, <1>9, <1>10, <1>11, <1>12

\* Load on the db node keeps them, and reads a row that has all of mysql's.
LEMMA LoadKeeps ==
    ASSUME NEW row, db \in Db, Durable(db), InMemory(db), Covers(row, db)
    PROVE  /\ \A h \in {db, DbLoad(db)} : Keeps(h, row) /\ InMemory(h)
           /\ DbLoad(db).mysql = db.mysql
           /\ Covers(DbLoad(db).row, db)
<1>1. /\ db.row \in RowOrNone /\ db.redis \in RowOrNone
      /\ db.mysql \in RowOrNone /\ db.online \in BOOLEAN /\ db.dirty \in BOOLEAN
  BY DbFields
<1>2. Stored(db) \in RowOrNone /\ Covers(Stored(db), db)
  BY <1>1 DEF Stored, Durable, Covers
<1> DEFINE e == DbLoad(db)
<1>3. /\ e \in Db /\ e.redis = Stored(db) /\ e.mysql = db.mysql /\ e.online
      /\ e.row = IF Stored(db) # None THEN Stored(db) ELSE db.row
  BY <1>1, <1>2 DEF DbLoad, Db
<1> HIDE DEF e
<1>4. Covers(e.row, db)
  BY <1>2, <1>3 DEF InMemory, Covers
<1>5. Keeps(e, row) /\ InMemory(e)
  BY <1>2, <1>3, <1>4 DEF Keeps, Durable, InMemory, MysqlGrows, Covers
<1>6. Keeps(db, row)
  BY DEF Keeps, MysqlGrows
<1> QED BY <1>3, <1>4, <1>5, <1>6 DEF e

\* UnLoad on the db node saves its row if it is dirty, and drops it.
LEMMA UnLoadKeeps ==
    ASSUME db \in Db, Durable(db), InMemory(db)
    PROVE  /\ Keeps(DbUnLoad(db), None) /\ InMemory(DbUnLoad(db))
           /\ \A h \in HalfUnLoaded(db) : Keeps(h, None)
<1>1. /\ db.row \in RowOrNone /\ db.redis \in RowOrNone /\ None \in RowOrNone
      /\ db.mysql \in RowOrNone /\ db.online \in BOOLEAN /\ db.dirty \in BOOLEAN
  BY DbFields DEF RowOrNone
<1>2. Keeps(db, None)
  BY DEF Keeps, MysqlGrows, Covers
<1>3. CASE db.row = None
  BY <1>2, <1>3 DEF DbUnLoad, HalfUnLoaded
<1>4. CASE db.row # None
  <2>1. db.row \in Rows /\ db.mysql # None /\ db.mysql \subseteq db.row
    BY <1>1, <1>4 DEF RowOrNone, InMemory
  <2>2. ASSUME NEW h \in HalfSaved(db, db.row) PROVE Keeps(h, None)
    <3>1. /\ h \in Db
          /\ h.redis \in {db.redis, None, db.row}
          /\ h.mysql = db.mysql \/ h.mysql = db.row
          /\ h.mysql = db.row => h.redis = db.row \/ h.mysql = db.mysql
      BY <2>1, <2>2, SaveFacts
    <3> QED BY <1>4, <2>1, <3>1 DEF Keeps, Durable, MysqlGrows, Covers
  <2> DEFINE e == DbUnLoad(db)
  <2>3. /\ e \in Db /\ e.row = None /\ e.redis = None
        /\ e.mysql = db.mysql \/ e.mysql = db.row
    <3>1. CASE db.dirty
      BY <1>1, <1>4, <2>1, <3>1 DEF DbUnLoad, UpdateRole, Db
    <3>2. CASE ~db.dirty
      BY <1>1, <1>4, <3>2 DEF DbUnLoad, Db
    <3> QED BY <1>1, <3>1, <3>2
  <2>4. \A h \in HalfUnLoaded(db) : h = e \/ h = db \/ h \in HalfSaved(db, db.row)
    BY DEF HalfUnLoaded
  <2> HIDE DEF e
  <2>5. Keeps(e, None) /\ InMemory(e)
    BY <1>4, <2>1, <2>3 DEF Keeps, Durable, InMemory, MysqlGrows, Covers
  <2> QED BY <1>2, <2>2, <2>4, <2>5 DEF e
<1> QED BY <1>3, <1>4

\* Add on the db node makes an empty row where there is none.
LEMMA AddKeeps ==
    ASSUME NEW row, db \in Db, Durable(db), InMemory(db), Covers(row, db)
    PROVE  /\ Keeps(DbAdd(db), row) /\ InMemory(DbAdd(db))
           /\ \A h \in HalfAdded(db) : Keeps(h, row)
           /\ DbAdds(db) => DbAdd(db).mysql = {}
<1>1. /\ db.row \in RowOrNone /\ db.redis \in RowOrNone
      /\ db.mysql \in RowOrNone /\ db.online \in BOOLEAN /\ db.dirty \in BOOLEAN
  BY DbFields
<1>2. {} \in RowOrNone /\ {} # None
  BY EntityAssumption DEF RowOrNone, Rows
<1>3. Keeps(db, row)
  BY DEF Keeps, MysqlGrows
<1>4. CASE ~DbAdds(db)
  BY <1>3, <1>4 DEF DbAdd, HalfAdded
<1>5. CASE DbAdds(db)
  <2>1. db.row = None /\ db.mysql = None /\ db.redis = None /\ row = None
    BY <1>5 DEF DbAdds, Durable, Covers
  <2> DEFINE e == DbAdd(db)
             f == [db EXCEPT !.mysql = {}]
  <2>2. /\ e \in Db /\ e.mysql = {} /\ e.redis = {} /\ e.online = db.online
        /\ e.row = IF db.online THEN {} ELSE None
    BY <1>1, <1>2, <1>5, <2>1 DEF DbAdd, Db
  <2>3. f \in Db /\ f.mysql = {} /\ f.redis = None
    BY <1>1, <1>2, <2>1 DEF Db
  <2>4. \A h \in HalfAdded(db) : h = db \/ h = e \/ h = f
    BY <1>5 DEF HalfAdded
  <2> HIDE DEF e, f
  <2>5. Keeps(e, row) /\ InMemory(e)
    BY <1>1, <1>2, <2>1, <2>2 DEF Keeps, Durable, InMemory, MysqlGrows, Covers
  <2>6. Keeps(f, row)
    BY <2>1, <2>3 DEF Keeps, Durable, MysqlGrows, Covers
  <2> QED BY <1>3, <2>2, <2>4, <2>5, <2>6 DEF e
<1> QED BY <1>4, <1>5

\* The types, for a db in any state
LEMMA DbTypes ==
    ASSUME db \in Db
    PROVE  /\ \A row \in Rows, save \in BOOLEAN, whole \in BOOLEAN :
                 LET c == [whole |-> whole, row |-> row]
                 IN  /\ DbUpdate(db, c, save) \in Db
                     /\ HalfUpdated(db, c, save) \subseteq Db
           /\ DbLoad(db) \in Db /\ DbUnLoad(db) \in Db /\ DbAdd(db) \in Db
           /\ DbDelete(db) \in Db
           /\ HalfUnLoaded(db) \subseteq Db /\ HalfAdded(db) \subseteq Db
           /\ HalfDeleted(db) \subseteq Db
<1>1. /\ db.row \in RowOrNone /\ db.redis \in RowOrNone /\ None \in RowOrNone
      /\ db.mysql \in RowOrNone /\ db.online \in BOOLEAN /\ db.dirty \in BOOLEAN
      /\ {} \in RowOrNone
  BY DbFields DEF RowOrNone, Rows
<1>2. ASSUME NEW d \in Db, NEW row \in RowOrNone, row # None
      PROVE  UpdateRole(d, row) \in Db /\ HalfSaved(d, row) \subseteq Db
  <2>1. UpdateRole(d, row) \in Db
    BY <1>2, DbFields DEF UpdateRole, Db, RowOrNone
  <2>2. HalfSaved(d, row) \subseteq Db
    BY <1>2, SaveFacts DEF RowOrNone
  <2> QED BY <2>1, <2>2
<1>3. ASSUME NEW row \in Rows, NEW save \in BOOLEAN, NEW whole \in BOOLEAN
      PROVE  LET c == [whole |-> whole, row |-> row]
             IN  /\ DbUpdate(db, c, save) \in Db
                 /\ HalfUpdated(db, c, save) \subseteq Db
  <2> DEFINE c == [whole |-> whole, row |-> row]
             new == NewRow(db, c)
             old == IF db.online THEN db.row ELSE Stored(db)
  <2>1. old \in RowOrNone
    BY <1>1 DEF Stored
  <2>2. new = Merge(old, c) /\ c.whole = whole /\ c.row = row
    BY DEF NewRow
  <2>3. new \in RowOrNone
    <3> HIDE DEF old, c, new
    <3>1. CASE old = None
      BY <1>1, <2>2, <3>1 DEF Merge
    <3>2. CASE old # None
      <4>1. row \in Rows /\ old \cup row \in Rows
        BY <2>1, <3>2 DEF RowOrNone, Rows
      <4> QED BY <2>2, <3>2, <4>1 DEF Merge, RowOrNone
    <3> QED BY <3>1, <3>2
  <2>4. DbUpdate(db, c, save)
           = CASE db.online /\ ~save -> [db EXCEPT !.row = new, !.dirty = TRUE]
               [] db.online /\ save /\ new # None ->
                     UpdateRole([db EXCEPT !.row = new], new)
               [] ~db.online /\ new # None -> UpdateRole(db, new)
               [] OTHER -> db
    BY DEF DbUpdate
  <2>5. HalfUpdated(db, c, save)
           = IF (save \/ ~db.online) /\ new # None THEN HalfSaved(db, new) ELSE {db}
    BY DEF HalfUpdated
  <2> HIDE DEF new, c
  <2>6. [db EXCEPT !.row = new] \in Db
        /\ [db EXCEPT !.row = new, !.dirty = TRUE] \in Db
    BY <1>1, <2>3 DEF Db
  <2>7. new # None => /\ UpdateRole(db, new) \in Db
                      /\ UpdateRole([db EXCEPT !.row = new], new) \in Db
                      /\ HalfSaved(db, new) \subseteq Db
    BY <1>2, <2>3, <2>6
  <2>8. DbUpdate(db, c, save) \in Db
    <3>1. CASE db.online /\ ~save
      BY <2>4, <2>6, <3>1
    <3>2. CASE new # None
      BY <1>1, <2>4, <2>6, <2>7, <3>2
    <3>3. CASE new = None /\ ~(db.online /\ ~save)
      BY <1>1, <2>4, <3>3
    <3> QED BY <3>1, <3>2, <3>3
  <2>9. HalfUpdated(db, c, save) \subseteq Db
    BY <2>5, <2>7
  <2> QED BY <2>8, <2>9 DEF c
<1>4. DbLoad(db) \in Db
  <2>1. Stored(db) \in RowOrNone
    BY <1>1 DEF Stored
  <2> QED BY <1>1, <2>1 DEF DbLoad, Db
<1>5. DbAdd(db) \in Db /\ HalfAdded(db) \subseteq Db
  BY <1>1 DEF DbAdd, HalfAdded, Db
<1>6. DbDelete(db) \in Db /\ HalfDeleted(db) \subseteq Db
  BY <1>1 DEF DbDelete, HalfDeleted, Db
<1>7. DbUnLoad(db) \in Db
  <2>1. ASSUME db.row # None PROVE UpdateRole(db, db.row) \in Db
    BY <1>1, <1>2, <2>1
  <2>2. ASSUME NEW d \in Db
        PROVE [d EXCEPT !.row = None, !.redis = None, !.online = FALSE,
                        !.dirty = FALSE] \in Db
    BY <1>1, <2>2, DbFields DEF Db
  <2>3. CASE db.row = None
    BY <2>3 DEF DbUnLoad
  <2>4. CASE db.row # None /\ db.dirty
    BY <2>1, <2>2, <2>4 DEF DbUnLoad
  <2>5. CASE db.row # None /\ ~db.dirty
    BY <2>2, <2>5 DEF DbUnLoad
  <2> QED BY <1>1, <2>3, <2>4, <2>5
<1>8. HalfUnLoaded(db) \subseteq Db
  <2>1. db.row # None => HalfSaved(db, db.row) \subseteq Db
    BY <1>1, <1>2
  <2> QED BY <1>7, <2>1 DEF HalfUnLoaded
<1> QED BY <1>3, <1>4, <1>5, <1>6, <1>7, <1>8

\* A call leaves a db node.
LEMMA CallTypes ==
    ASSUME NEW o, NEW e \in Db, NEW half, half \subseteq Db, Call(o, e, half),
           db \in Db
    PROVE  db' \in Db /\ link' \in BOOLEAN
<1>1. \A h \in half : Stopped(h) \in Db
  BY StoppedFacts
<1> QED BY <1>1, CallFacts

-----------------------------------------------------------------------------
(* Every fault *)

\* The types and what the operation under way relies on hold at the start.
LEMMA SavedInit == Init => SavedInv
<1> SUFFICES ASSUME Init PROVE SavedInv
  OBVIOUS
<1>1. None \in RowOrNone /\ {} \in RowOrNone /\ MaxWrites \in Nat
  BY EntityAssumption DEF RowOrNone, Rows
<1>2. PICK m \in {None, {}} :
         db = [row |-> None, online |-> FALSE, dirty |-> FALSE,
               redis |-> None, mysql |-> m]
  BY DEF Init
<1>3. TypeOK
  <2>1. db \in Db
    BY <1>1, <1>2 DEF Db
  <2>2. op \in Op
    BY DEF Init, Op, Idle
  <2>3. /\ recordset = None /\ cache = None /\ online = FALSE
        /\ updateflag = FALSE /\ offlineCacheTimer = FALSE /\ split = FALSE
        /\ link = TRUE /\ present = FALSE /\ nwrites \in 0..MaxWrites
    BY <1>1 DEF Init
  <2> QED BY <1>1, <2>1, <2>2, <2>3 DEF TypeOK
<1>4. OpInv
  BY DEF Init, OpInv, Idle
<1>5. CopyInv
  BY <1>2 DEF Init, CopyInv, Durable, InMemory, Covers
<1> QED BY <1>3, <1>4, <1>5 DEF SavedInv

\* They are inductive under every fault and every use of the role.
LEMMA TypeStep ==
    ASSUME TypeOK, OpInv, [Next]_vars
    PROVE  TypeOK' /\ OpInv'
<1>1. /\ db \in Db /\ recordset \in RowOrNone /\ cache \in RowOrNone
      /\ op \in Op /\ nwrites \in 0..MaxWrites /\ MaxWrites \in Nat
      /\ None \in RowOrNone /\ {} \in RowOrNone
      /\ \A row \in RowOrNone : row # None => row \in Rows
  BY EntityAssumption DEF TypeOK, RowOrNone, Rows
<1>2. Idle \in Op /\ Idle.pc = "idle"
  BY DEF Idle, Op
<1>3. ASSUME NEW row \in Rows, NEW save \in BOOLEAN, NEW o,
             CallUpdate(o, Whole(row), save)
      PROVE  db' \in Db /\ link' \in BOOLEAN
  BY <1>1, <1>3, DbTypes, CallTypes DEF CallUpdate, Whole
<1>4. ASSUME NEW kind \in {"login", "get"}, LoadStep(kind)
      PROVE  /\ op' \in Op /\ op'.pc \in {"alive", "load"}
             /\ op'.pc = "alive" => recordset # None
             /\ offlineCacheTimer' = FALSE
  BY <1>4 DEF LoadStep, Op
<1>5. CASE UNCHANGED vars
  BY <1>5 DEF vars, game, TypeOK, OpInv
<1>6. ASSUME NEW kind \in {"login", "get"}, BeginLoad(kind)
      PROVE  TypeOK' /\ OpInv'
  <2>1. UNCHANGED <<recordset, online, updateflag, present, nwrites, split>>
    BY <1>6 DEF BeginLoad
  <2>2. CASE cache = None /\ LoadStep(kind) /\ UNCHANGED <<cache, db, link>>
    BY <1>4, <2>1, <2>2 DEF TypeOK, OpInv
  <2>3. ASSUME cache # None, NEW o \in Outcomes,
               CallUpdate(o, Whole(cache), FALSE),
               \/ o = "ok" /\ cache' = None /\ LoadStep(kind)
               \/ o # "ok" /\ UNCHANGED <<cache, op, offlineCacheTimer>>
        PROVE  TypeOK' /\ OpInv'
    <3>1. db' \in Db /\ link' \in BOOLEAN
      BY <1>1, <1>3, <2>3
    <3> QED BY <1>1, <1>4, <2>1, <2>3, <3>1 DEF TypeOK, OpInv
  <2> QED BY <1>6, <2>2, <2>3 DEF BeginLoad
<1>7. CASE LoadRow
  <2>1. PICK o \in Outcomes :
          /\ Call(o, DbLoad(db), {db, DbLoad(db)})
          /\ recordset' = IF o = "ok" /\ DbLoad(db).row # None
                            THEN DbLoad(db).row ELSE recordset
          /\ offlineCacheTimer' =
                (offlineCacheTimer \/ (op.kind = "get" /\ recordset' # None))
    BY <1>7 DEF LoadRow
  <2>2. DbLoad(db) \in Db
    BY <1>1, DbTypes
  <2>3. db' \in Db /\ link' \in BOOLEAN
    BY <1>1, <2>1, <2>2, CallTypes
  <2>4. recordset' \in RowOrNone
    BY <1>1, <2>1, <2>2, DbFields
  <2>5. offlineCacheTimer' \in BOOLEAN /\ online' \in BOOLEAN
        /\ present' \in BOOLEAN /\ split' \in BOOLEAN
    BY <1>7, <2>1 DEF LoadRow, TypeOK
  <2>6. op' = Idle /\ UNCHANGED <<updateflag, cache, nwrites>>
        /\ (cache # None /\ recordset' # None => split')
    BY <1>7 DEF LoadRow
  <2> QED BY <1>2, <2>3, <2>4, <2>5, <2>6 DEF TypeOK, OpInv
<1>8. ASSUME NEW kind \in {"logout", "expire"}, BeginUnLoad(kind)
      PROVE  TypeOK' /\ OpInv'
  <2>1. op' = IF recordset # None THEN [kind |-> kind, pc |-> "alive"] ELSE Idle
    BY <1>8 DEF BeginUnLoad
  <2>2. op' \in Op /\ (op'.pc # "idle" => recordset # None)
    BY <1>2, <2>1 DEF Op
  <2>3. present' \in BOOLEAN /\ UNCHANGED <<game, db, link, nwrites, split>>
    BY <1>8 DEF BeginUnLoad, TypeOK
  <2> QED BY <2>2, <2>3 DEF game, TypeOK, OpInv
<1>9. ASSUME UnLoaded, op.pc \in {"alive", "unload"}
      PROVE  /\ recordset' = None /\ online' = FALSE /\ updateflag' = FALSE
             /\ offlineCacheTimer' = FALSE
             /\ op' \in Op /\ op'.pc \in {"load", "idle"}
  BY <1>1, <1>2, <1>9 DEF UnLoaded, Op
<1>10. CASE UnLoadAlive
  <2>1. op.pc = "alive" /\ recordset # None
        /\ UNCHANGED <<db, link, present, nwrites, split>>
    BY <1>10 DEF UnLoadAlive, OpInv
  <2>2. CASE /\ op' = [op EXCEPT !.pc = IF updateflag THEN "update" ELSE "unload"]
             /\ UNCHANGED game
    <3>1. op' \in Op
      BY <1>1, <2>2 DEF Op
    <3> QED BY <2>1, <2>2, <3>1 DEF game, TypeOK, OpInv
  <2>3. CASE cache' = recordset /\ UnLoaded
    BY <1>1, <1>9, <2>1, <2>3 DEF TypeOK, OpInv
  <2> QED BY <1>10, <2>2, <2>3 DEF UnLoadAlive
<1>11. CASE UnLoadUpdate
  <2>1. /\ op.pc = "update" /\ recordset # None /\ recordset \in Rows
        /\ UNCHANGED <<game, present, nwrites, split>>
    BY <1>1, <1>11 DEF UnLoadUpdate, OpInv
  <2>2. db' \in Db /\ link' \in BOOLEAN
    BY <1>3, <1>11, <2>1 DEF UnLoadUpdate
  <2>3. op' \in Op
    BY <1>1, <1>11 DEF UnLoadUpdate, Op
  <2> QED BY <2>1, <2>2, <2>3 DEF game, TypeOK, OpInv
<1>12. CASE UnLoadUnLoad
  <2>1. /\ op.pc = "unload" /\ UnLoaded /\ UNCHANGED <<cache, present, nwrites, split>>
    BY <1>12 DEF UnLoadUnLoad
  <2>2. db' \in Db /\ link' \in BOOLEAN
    BY <1>1, <1>12, DbTypes, CallTypes DEF UnLoadUnLoad
  <2> QED BY <1>1, <1>9, <2>1, <2>2 DEF TypeOK, OpInv
<1>13. CASE UpdateOnline
  <2>1. nwrites' \in 0..MaxWrites /\ nwrites + 1 \in Writes
    BY <1>1, <1>13 DEF UpdateOnline, Writes
  <2>2. recordset' = IF recordset = None THEN None
                     ELSE recordset \cup {nwrites + 1}
    BY <1>13 DEF UpdateOnline, Merge, Fields
  <2>3. recordset' \in RowOrNone /\ (recordset' # None <=> recordset # None)
    <3>1. CASE recordset = None
      BY <1>1, <2>2, <3>1
    <3>2. CASE recordset # None
      <4>1. recordset' \in Rows
        BY <1>1, <2>1, <2>2, <3>2 DEF Rows
      <4> QED BY <3>2, <4>1, EntityAssumption DEF Rows, RowOrNone
    <3> QED BY <3>1, <3>2
  <2>4. updateflag' = TRUE /\ UNCHANGED <<online, offlineCacheTimer, cache, op,
                                          db, link, present, split>>
    BY <1>13 DEF UpdateOnline
  <2> QED BY <2>1, <2>3, <2>4 DEF TypeOK, OpInv
<1>14. CASE UpdateOffline
  <2>1. nwrites' \in 0..MaxWrites /\ {nwrites + 1} \in Rows
    BY <1>1, <1>14 DEF UpdateOffline, Writes, Rows
  <2>2. db' \in Db /\ link' \in BOOLEAN
    <3>1. PICK o \in Outcomes : CallUpdate(o, Fields(nwrites + 1), FALSE)
      BY <1>14 DEF UpdateOffline
    <3> QED BY <1>1, <2>1, <3>1, DbTypes, CallTypes DEF CallUpdate, Fields
  <2>3. UNCHANGED <<game, op, present, split>>
    BY <1>14 DEF UpdateOffline
  <2> QED BY <2>1, <2>2, <2>3 DEF game, TypeOK, OpInv
<1>15. CASE Save
  <2>1. /\ recordset \in Rows /\ updateflag' = FALSE
        /\ UNCHANGED <<recordset, online, offlineCacheTimer, cache, op,
                       present, nwrites, split>>
    BY <1>1, <1>15 DEF Save
  <2>2. link' \in BOOLEAN /\ db' \in Db
    BY <1>3, <1>15, <2>1 DEF Save
  <2> QED BY <2>1, <2>2 DEF TypeOK, OpInv
<1>16. CASE Add
  <2>1. PICK o \in Outcomes :
          /\ Call(o, DbAdd(db), HalfAdded(db))
          /\ recordset' = IF o = "ok" /\ DbAdds(db) /\ online THEN {} ELSE None
    BY <1>16 DEF Add
  <2>2. db' \in Db /\ link' \in BOOLEAN
    BY <1>1, <2>1, DbTypes, CallTypes
  <2>3. /\ op.pc = "idle" /\ split' \in BOOLEAN
        /\ (cache # None /\ recordset' # None => split')
        /\ UNCHANGED <<online, updateflag, offlineCacheTimer, cache, op, present,
                       nwrites>>
    BY <1>16 DEF Add, TypeOK
  <2> QED BY <1>1, <2>1, <2>2, <2>3 DEF TypeOK, OpInv
<1>17. CASE Delete
  <2>1. db' \in Db /\ link' \in BOOLEAN
    BY <1>1, <1>17, DbTypes, CallTypes DEF Delete
  <2>2. UNCHANGED <<game, op, present, nwrites, split>>
    BY <1>17 DEF Delete
  <2> QED BY <2>1, <2>2 DEF game, TypeOK, OpInv
<1>18. CASE CacheSave
  <2>1. /\ cache \in Rows /\ cache # None
        /\ UNCHANGED <<recordset, online, updateflag, offlineCacheTimer, op,
                       present, nwrites, split>>
    BY <1>1, <1>18 DEF CacheSave
  <2>2. /\ cache' \in {None, cache} /\ link' \in BOOLEAN /\ db' \in Db
    BY <1>3, <1>18, <2>1 DEF CacheSave, TypeOK
  <2> QED BY <1>1, <2>1, <2>2 DEF TypeOK, OpInv
<1>19. CASE LinkDown \/ LinkUp \/ DbCrash
  <2>1. /\ link' \in BOOLEAN /\ db' \in Db
        /\ UNCHANGED <<game, op, present, nwrites, split>>
    BY <1>1, <1>19, StoppedFacts DEF LinkDown, LinkUp, DbCrash
  <2> QED BY <2>1 DEF game, TypeOK, OpInv
<1>20. CASE GameCrash
  <2>1. /\ recordset' = None /\ cache' = None /\ op' = Idle
        /\ online' = FALSE /\ updateflag' = FALSE /\ offlineCacheTimer' = FALSE
        /\ present' = FALSE /\ UNCHANGED <<db, link, nwrites, split>>
    BY <1>20 DEF GameCrash
  <2> QED BY <1>1, <1>2, <2>1 DEF TypeOK, OpInv
<1> QED
  BY <1>5, <1>6, <1>7, <1>8, <1>10, <1>11, <1>12, <1>13, <1>14, <1>15, <1>16,
     <1>17, <1>18, <1>19, <1>20 DEF Next

\* While no row has been loaded out of the cache's sight every copy has all
\* that mysql has, and no step takes a write out of mysql.
LEMMA SavedStep ==
    ASSUME NoOfflineSets, SavedInv, [Next]_vars
    PROVE  SavedInv' /\ SavedGrows
<1>1. TypeOK' /\ OpInv'
  BY TypeStep DEF SavedInv
<1>2. SUFFICES ASSUME ~split
               PROVE  MysqlGrows(db') /\ (~split' => CopyInv')
  <2>1. split => split'
    BY DEF SavedInv, Next, vars, BeginLoad, LoadRow, BeginUnLoad, UnLoadAlive,
           UnLoadUpdate, UnLoadUnLoad, UpdateOnline, UpdateOffline, Save, Add,
           Delete, CacheSave, LinkDown, LinkUp, DbCrash, GameCrash
  <2> QED BY <1>1, <1>2, <2>1 DEF SavedInv, SavedGrows, MysqlGrows
<1>3. /\ db \in Db /\ Durable(db) /\ InMemory(db)
      /\ Covers(recordset, db) /\ Covers(cache, db)
      /\ recordset \in RowOrNone /\ cache \in RowOrNone
      /\ cache # None => recordset = None
      /\ \A row \in RowOrNone : row # None => row \in Rows
  BY <1>2 DEF SavedInv, TypeOK, OpInv, CopyInv, RowOrNone
<1>4. "offlineset" \notin Env /\ "delete" \notin Env
  BY DEF NoOfflineSets
<1>5. ASSUME NEW row, Keeps(db', row), InMemory(db'),
             recordset' = None \/ recordset' = row, cache' = None \/ cache' = row
      PROVE  MysqlGrows(db') /\ CopyInv'
  BY <1>5 DEF Keeps, CopyInv, Covers
<1>6. ASSUME NEW row \in Rows, Covers(row, db), NEW save \in BOOLEAN, NEW o,
             CallUpdate(o, Whole(row), save)
      PROVE  Keeps(db', row) /\ InMemory(db')
  BY <1>3, <1>6, UpdateKeeps, CallKeeps DEF CallUpdate
<1>7. ASSUME UNCHANGED db PROVE MysqlGrows(db')
  BY <1>7 DEF MysqlGrows
<1>8. CASE UNCHANGED vars
  BY <1>2, <1>3, <1>7, <1>8 DEF vars, game, CopyInv
<1>9. ASSUME NEW kind \in {"login", "get"}, BeginLoad(kind)
      PROVE  MysqlGrows(db') /\ CopyInv'
  <2>1. UNCHANGED recordset
    BY <1>9 DEF BeginLoad
  <2>2. CASE UNCHANGED <<cache, db, link>>
    BY <1>3, <1>7, <2>1, <2>2 DEF CopyInv
  <2>3. ASSUME cache # None, NEW o \in Outcomes,
               CallUpdate(o, Whole(cache), FALSE), cache' \in {None, cache}
        PROVE  MysqlGrows(db') /\ CopyInv'
    <3>1. Keeps(db', cache) /\ InMemory(db')
      BY <1>3, <1>6, <2>3
    <3> QED BY <1>3, <1>5, <2>1, <2>3, <3>1
  <2> QED BY <1>9, <2>2, <2>3 DEF BeginLoad
<1>10. CASE LoadRow
  <2>1. PICK o \in Outcomes :
          /\ Call(o, DbLoad(db), {db, DbLoad(db)})
          /\ recordset' = IF o = "ok" /\ DbLoad(db).row # None
                            THEN DbLoad(db).row ELSE recordset
    BY <1>10 DEF LoadRow
  <2>2. UNCHANGED cache /\ (~split' => cache = None \/ recordset' = None)
    BY <1>10 DEF LoadRow
  <2>3. ASSUME NEW row, Covers(row, db)
        PROVE  Keeps(db', row) /\ InMemory(db')
    BY <1>3, <2>1, <2>3, LoadKeeps, CallKeeps
  <2>4. Covers(recordset', db)
    BY <1>3, <2>1, LoadKeeps
  <2>5. Keeps(db', recordset') /\ Keeps(db', cache) /\ InMemory(db')
    BY <1>3, <2>3, <2>4
  <2> QED BY <2>2, <2>5 DEF Keeps, CopyInv
<1>11. ASSUME NEW kind \in {"logout", "expire"}, BeginUnLoad(kind)
       PROVE  MysqlGrows(db') /\ CopyInv'
  BY <1>3, <1>7, <1>11 DEF BeginUnLoad, game, CopyInv
<1>12. CASE UnLoadAlive
  <2>1. UNCHANGED db /\ (UNCHANGED game \/ (cache' = recordset /\ recordset' = None))
    BY <1>12 DEF UnLoadAlive, UnLoaded
  <2> QED BY <1>3, <1>7, <2>1 DEF game, CopyInv, Covers
<1>13. CASE UnLoadUpdate
  <2>1. /\ recordset \in Rows /\ cache = None /\ UNCHANGED <<recordset, cache>>
    BY <1>3, <1>13 DEF UnLoadUpdate, SavedInv, OpInv, game
  <2>2. Keeps(db', recordset) /\ InMemory(db')
    BY <1>3, <1>6, <1>13, <2>1 DEF UnLoadUpdate
  <2> QED BY <1>5, <2>1, <2>2
<1>14. CASE UnLoadUnLoad
  <2>1. recordset # None /\ cache = None /\ UNCHANGED cache /\ recordset' = None
    BY <1>3, <1>14 DEF UnLoadUnLoad, UnLoaded, SavedInv, OpInv
  <2>2. Covers(None, db)
    BY DEF Covers
  <2>3. Keeps(db', None) /\ InMemory(db')
    BY <1>3, <1>14, <2>2, UnLoadKeeps, CallKeeps DEF UnLoadUnLoad
  <2> QED BY <1>5, <2>1, <2>3
<1>15. CASE UpdateOnline
  <2>1. UNCHANGED <<db, cache>>
        /\ recordset' = IF recordset = None THEN None
                        ELSE recordset \cup {nwrites + 1}
    BY <1>15 DEF UpdateOnline, Merge, Fields
  <2>2. Covers(recordset', db)
    BY <1>3, <2>1 DEF Covers
  <2> QED BY <1>3, <1>7, <2>1, <2>2 DEF CopyInv
<1>16. CASE Save
  <2>1. /\ recordset \in Rows /\ cache = None /\ UNCHANGED <<recordset, cache>>
    BY <1>3, <1>16 DEF Save
  <2>2. Keeps(db', recordset) /\ InMemory(db')
    BY <1>3, <1>6, <1>16, <2>1 DEF Save
  <2> QED BY <1>5, <2>1, <2>2
<1>17. CASE Add
  <2>1. PICK o \in Outcomes :
          /\ Call(o, DbAdd(db), HalfAdded(db))
          /\ recordset' = IF o = "ok" /\ DbAdds(db) /\ online THEN {} ELSE None
    BY <1>17 DEF Add
  <2>2. UNCHANGED cache
    BY <1>17 DEF Add
  <2>3. Keeps(db', cache) /\ InMemory(db')
    BY <1>3, <2>1, AddKeeps, CallKeeps
  <2>4. Covers(recordset', db')
    <3>1. CASE recordset' = None
      BY <3>1 DEF Covers
    <3>2. CASE recordset' # None
      <4>1. DbAdds(db) /\ db' = DbAdd(db) /\ recordset' = {}
        BY <2>1, <3>2, CallFacts
      <4>2. db'.mysql = {} /\ {} # None
        BY <1>3, <4>1, AddKeeps, EntityAssumption DEF Rows
      <4> QED BY <4>1, <4>2 DEF Covers
    <3> QED BY <3>1, <3>2
  <2> QED BY <2>2, <2>3, <2>4 DEF Keeps, CopyInv
<1>18. CASE CacheSave
  <2>1. /\ cache \in Rows /\ recordset = None /\ UNCHANGED recordset
    BY <1>3, <1>18 DEF CacheSave
  <2>2. CASE cache' = None /\ UNCHANGED <<db, link>>
    BY <1>3, <1>7, <2>1, <2>2 DEF CopyInv, Covers
  <2>3. ASSUME NEW o, CallUpdate(o, Whole(cache), FALSE), cache' \in {None, cache}
        PROVE  MysqlGrows(db') /\ CopyInv'
    <3>1. Keeps(db', cache) /\ InMemory(db')
      BY <1>3, <1>6, <2>1, <2>3
    <3> QED BY <1>5, <2>1, <2>3, <3>1
  <2> QED BY <1>18, <2>2, <2>3 DEF CacheSave
<1>19. CASE LinkDown \/ LinkUp
  BY <1>3, <1>7, <1>19 DEF LinkDown, LinkUp, game, CopyInv
<1>20. CASE DbCrash
  <2>1. db' = Stopped(db) /\ UNCHANGED <<recordset, cache>>
    BY <1>20 DEF DbCrash, game
  <2>2. /\ Stopped(db).row = None
        /\ Stopped(db).redis = db.redis /\ Stopped(db).mysql = db.mysql
    BY <1>3, StoppedFacts
  <2> QED BY <1>3, <2>1, <2>2 DEF CopyInv, Durable, InMemory, Covers, MysqlGrows
<1>21. CASE GameCrash
  BY <1>3, <1>7, <1>21 DEF GameCrash, CopyInv, Covers
<1>22. ~UpdateOffline /\ ~Delete
  BY <1>4 DEF UpdateOffline, Delete
<1> QED
  BY <1>8, <1>9, <1>10, <1>11, <1>12, <1>13, <1>14, <1>15, <1>16, <1>17, <1>18,
     <1>19, <1>20, <1>21, <1>22 DEF Next

\* Whatever fails, and with the offline Get that RoleLogin makes of every role,
\* what a Save or an UnLoad put into mysql is not rolled back: not by a cached
\* row that CacheSave or Load writes late or twice, not by a lost answer, a
\* partition, a restart or a save that stopped between redis and mysql.  The
\* exception is a row that Load read while it was in the cache.
THEOREM SavedNotRolledBackTheorem ==
    ASSUME NoOfflineSets PROVE Spec => SavedNotRolledBack
<1>1. Init => SavedInv
  BY SavedInit
<1>2. SavedInv /\ [Next]_vars => SavedInv' /\ [SavedGrows]_vars
  BY SavedStep
<1> QED BY <1>1, <1>2, PTL DEF Spec, SavedNotRolledBack

\* And redis, where loadRole looks first, has all that mysql has, wherever the
\* db node stopped between the hdel, the hset and the UPDATE of a save.
THEOREM RedisNotStaleTheorem ==
    ASSUME NoOfflineSets PROVE Spec => []RedisNotStale
<1>1. Init => SavedInv
  BY SavedInit
<1>2. SavedInv /\ [Next]_vars => SavedInv'
  BY SavedStep
<1>3. SavedInv => RedisNotStale
  BY DEF SavedInv, CopyInv, Durable, RedisNotStale
<1> QED BY <1>1, <1>2, <1>3, PTL DEF Spec

-----------------------------------------------------------------------------
(* Any use, without faults: the tiers implement RoleStore *)

\* No faults and no Delete, whatever else is done with the role.
Faultless == Env \subseteq {"offlineset"}

\* Both nodes hold the row or neither does, and they agree where they must:
\* the db node's row is the game node's unless updateflag says otherwise, and
\* it is mysql's unless the db node has it marked.
TierInv ==
    /\ link = TRUE /\ cache = None
    /\ online = db.online
    /\ recordset # None => db.online = TRUE /\ db.row # None
    /\ recordset = None => db.row = None
    /\ db.redis \in {None, db.mysql}
    /\ db.row # None => db.mysql # None /\ (~db.dirty => db.row = db.mysql)
    /\ recordset # None /\ (~updateflag \/ op.pc = "unload")
          => db.row = recordset

\* The writes in a row have been made
FreshInv ==
    /\ recordset # None => recordset \subseteq 1..nwrites
    /\ db.mysql # None => db.mysql \subseteq 1..nwrites

\* A role in memory is logged in or has an unload timer, never both
UseInv ==
    /\ op.pc = "load" => /\ recordset = None /\ offlineCacheTimer = FALSE
                          /\ op.kind \in {"login", "get"}
    /\ op.pc \in {"alive", "update", "unload"} =>
          recordset # None /\ present = FALSE
    /\ op.pc = "idle" /\ recordset # None => present \/ offlineCacheTimer
    /\ present => /\ offlineCacheTimer = FALSE /\ online = TRUE
                  /\ db.mysql # None => recordset # None

StoreInv == TypeOK /\ TierInv /\ FreshInv /\ UseInv

\* What RoleStore's value is while StoreInv holds
Row == IF recordset # None THEN recordset ELSE db.mysql

\* The refinement mapping in terms of the two places that matter.
LEMMA ValueIsRow == ASSUME StoreInv PROVE Value = Row
  BY DEF StoreInv, TierInv, Value, Row, Stored

\* Load on the db node reads what mysql has.
LEMMA LoadFacts ==
    ASSUME db \in Db, db.redis \in {None, db.mysql},
           db.row # None => db.mysql # None
    PROVE  LET e == DbLoad(db) IN
           /\ e \in Db
           /\ e.redis \in {None, e.mysql}
           /\ e.mysql = db.mysql /\ e.row = db.mysql
           /\ e.online /\ e.dirty = db.dirty
<1>1. /\ db.row \in RowOrNone /\ db.redis \in RowOrNone
      /\ db.mysql \in RowOrNone /\ db.online \in BOOLEAN /\ db.dirty \in BOOLEAN
  BY DbFields
<1>2. Stored(db) = db.mysql
  BY DEF Stored
<1> QED BY <1>1, <1>2 DEF DbLoad, Db

\* UnLoad on the db node saves its row if it is dirty, and drops it.
LEMMA UnLoadFacts ==
    ASSUME db \in Db, db.redis \in {None, db.mysql},
           db.row # None => db.mysql # None
    PROVE  LET e == DbUnLoad(db) IN
           /\ e \in Db
           /\ e.redis \in {None, e.mysql}
           /\ e.row = None
           /\ e.mysql = IF db.row # None /\ db.dirty THEN db.row ELSE db.mysql
           /\ e.online = IF db.row # None THEN FALSE ELSE db.online
<1>1. /\ db.row \in RowOrNone /\ db.redis \in RowOrNone
      /\ db.mysql \in RowOrNone /\ db.online \in BOOLEAN /\ db.dirty \in BOOLEAN
  BY DbFields
<1>2. None \in RowOrNone
  BY DEF RowOrNone
<1>3. CASE db.row = None
  BY <1>1, <1>3 DEF DbUnLoad
<1>4. CASE db.row # None /\ db.dirty
  BY <1>1, <1>2, <1>4 DEF DbUnLoad, UpdateRole, Db
<1>5. CASE db.row # None /\ ~db.dirty
  BY <1>1, <1>2, <1>5 DEF DbUnLoad, Db
<1> QED BY <1>1, <1>3, <1>4, <1>5

\* Add on the db node makes an empty row where there is none.
LEMMA AddFacts ==
    ASSUME db \in Db, db.redis \in {None, db.mysql},
           db.row # None => db.mysql # None
    PROVE  LET e == DbAdd(db) IN
           /\ e \in Db
           /\ ~DbAdds(db) => e = db
           /\ DbAdds(db) =>
                 /\ db.mysql = None /\ e.mysql = {} /\ e.redis = {}
                 /\ e.online = db.online /\ e.dirty = db.dirty
                 /\ e.row = IF db.online THEN {} ELSE None
<1>1. /\ db.row \in RowOrNone /\ db.redis \in RowOrNone
      /\ db.mysql \in RowOrNone /\ db.online \in BOOLEAN /\ db.dirty \in BOOLEAN
  BY DbFields
<1>2. {} \in RowOrNone
  BY DEF RowOrNone, Rows
<1> QED BY <1>1, <1>2 DEF DbAdd, DbAdds, Db

\* Without faults a call is executed and answered.
LEMMA CallOk ==
    ASSUME Faultless, link = TRUE, NEW o \in Outcomes, NEW e, NEW half,
           Call(o, e, half)
    PROVE  o = "ok" /\ link' = TRUE /\ db' = e
  BY DEF Faultless, Outcomes, Call

\* Update on the db node of a role that is online there
LEMMA UpdateOnlineRow ==
    ASSUME NEW row \in Rows, NEW save \in BOOLEAN, db \in Db,
           db.online, db.row # None, db.mysql # None,
           db.redis \in {None, db.mysql}
    PROVE  LET e == DbUpdate(db, Whole(row), save) IN
           /\ e \in Db /\ e.online = db.online /\ e.row = row
           /\ e.redis \in {None, e.mysql}
           /\ e.mysql = IF save THEN row ELSE db.mysql
           /\ ~save => e.dirty
<1>1. /\ db.row \in RowOrNone /\ db.redis \in RowOrNone
      /\ db.mysql \in RowOrNone /\ db.online \in BOOLEAN /\ db.dirty \in BOOLEAN
  BY DbFields
<1>2. row # None /\ row \in RowOrNone
  BY EntityAssumption DEF Rows, RowOrNone
<1>3. Merge(db.row, Whole(row)) = row
  BY DEF Merge, Whole
<1>4. CASE ~save
  <2>1. DbUpdate(db, Whole(row), save) = [db EXCEPT !.row = row, !.dirty = TRUE]
    BY <1>3, <1>4 DEF DbUpdate, NewRow
  <2> QED BY <1>1, <1>2, <1>4, <2>1 DEF Db
<1>5. CASE save
  <2>1. DbUpdate(db, Whole(row), save) = UpdateRole([db EXCEPT !.row = row], row)
    BY <1>2, <1>3, <1>5 DEF DbUpdate, NewRow
  <2> QED BY <1>1, <1>2, <1>5, <2>1 DEF UpdateRole, Db
<1> QED BY <1>4, <1>5

\* Update on the db node of a role that is not
LEMMA UpdateOfflineRow ==
    ASSUME NEW w \in Writes, db \in Db, ~db.online, db.row = None,
           db.redis \in {None, db.mysql}
    PROVE  LET e == DbUpdate(db, Fields(w), FALSE) IN
           /\ e \in Db /\ e.online = db.online /\ e.row = None
           /\ e.redis \in {None, e.mysql}
           /\ e.mysql = IF db.mysql = None THEN None ELSE db.mysql \cup {w}
<1>1. /\ db.row \in RowOrNone /\ db.redis \in RowOrNone
      /\ db.mysql \in RowOrNone /\ db.online \in BOOLEAN /\ db.dirty \in BOOLEAN
  BY DbFields
<1>2. Stored(db) = db.mysql
  BY DEF Stored
<1>3. CASE db.mysql = None
  <2>1. Merge(Stored(db), Fields(w)) = None
    BY <1>2, <1>3 DEF Merge
  <2>2. DbUpdate(db, Fields(w), FALSE) = db
    BY <2>1 DEF DbUpdate, NewRow
  <2> QED BY <1>3, <2>2
<1>4. CASE db.mysql # None
  <2> DEFINE new == db.mysql \cup {w}
  <2>1. new \in Rows
    BY <1>1, <1>4 DEF RowOrNone, Rows
  <2>2. new # None /\ new \in RowOrNone
    BY <2>1, EntityAssumption DEF Rows, RowOrNone
  <2>3. Merge(Stored(db), Fields(w)) = new
    BY <1>2, <1>4 DEF Merge, Fields
  <2> HIDE DEF new
  <2>4. DbUpdate(db, Fields(w), FALSE) = UpdateRole(db, new)
    BY <2>2, <2>3 DEF DbUpdate, NewRow
  <2>5. /\ UpdateRole(db, new) \in Db /\ UpdateRole(db, new).online = db.online
        /\ UpdateRole(db, new).row = None /\ UpdateRole(db, new).redis = new
        /\ UpdateRole(db, new).mysql = new
    BY <1>1, <1>4, <2>2 DEF UpdateRole, Db
  <2> QED BY <1>4, <2>4, <2>5 DEF new
<1> QED BY <1>3, <1>4

\* The invariant of a run without faults holds at the start, in an initial
\* state of the store.
LEMMA StoreInit == Init => StoreInv /\ Row \in {None, {}}
<1> SUFFICES ASSUME Init PROVE StoreInv /\ Row \in {None, {}}
  OBVIOUS
<1>1. PICK m \in {None, {}} :
         db = [row |-> None, online |-> FALSE, dirty |-> FALSE,
               redis |-> None, mysql |-> m]
  BY DEF Init
<1>2. /\ recordset = None /\ cache = None /\ online = FALSE
      /\ offlineCacheTimer = FALSE /\ link = TRUE /\ present = FALSE
      /\ op.pc = "idle"
  BY DEF Init, Idle
<1>3. /\ db.row = None /\ db.online = FALSE /\ db.redis = None /\ db.mysql = m
  BY <1>1
<1>4. TypeOK
  BY SavedInit DEF SavedInv
<1>5. TierInv /\ FreshInv /\ UseInv
  BY <1>2, <1>3 DEF TierInv, FreshInv, UseInv
<1> QED BY <1>2, <1>3, <1>4, <1>5 DEF StoreInv, Row

\* A step of the store, in terms of Row
RowStep ==
    \/ Row' = Row
    \/ Row = None /\ Row' = {}
    \/ Row # None /\ nwrites + 1 \in Writes /\ nwrites + 1 \notin Row
       /\ Row' = Row \cup {nwrites + 1}

\* It is inductive, and every step of the nodes is a step of the store or
\* leaves it as it is.
LEMMA StoreStep ==
    ASSUME Faultless, StoreInv, [Next]_vars
    PROVE  StoreInv' /\ RowStep
<1>0. TypeOK'
  BY TypeStep DEF StoreInv, TierInv, UseInv, OpInv
<1>1. /\ db \in Db /\ db.redis \in {None, db.mysql}
      /\ db.row # None => db.mysql # None
      /\ link = TRUE /\ recordset \in RowOrNone /\ cache = None
      /\ op \in Op /\ nwrites \in 0..MaxWrites /\ MaxWrites \in Nat
      /\ present \in BOOLEAN /\ online = db.online
      /\ online \in BOOLEAN /\ updateflag \in BOOLEAN
      /\ offlineCacheTimer \in BOOLEAN
  BY EntityAssumption DEF StoreInv, TypeOK, TierInv
<1>2. /\ "partition" \notin Env /\ "dbcrash" \notin Env
      /\ "gamecrash" \notin Env /\ "delete" \notin Env
  BY DEF Faultless
<1>3. Idle \in Op /\ Idle.pc = "idle"
  BY DEF Idle, Op
<1>4. /\ db.row \in RowOrNone /\ db.mysql \in RowOrNone /\ db.online \in BOOLEAN
      /\ None \in RowOrNone
      /\ \A row \in RowOrNone : row # None => row \in Rows
  BY <1>1, DbFields DEF RowOrNone
<1>5. CASE UNCHANGED vars
  BY <1>0, <1>5 DEF vars, game, StoreInv, TierInv, FreshInv, UseInv, RowStep,
              Row
<1>6. ASSUME NEW kind \in {"login", "get"}, BeginLoad(kind)
      PROVE  StoreInv' /\ RowStep
  <2>1. /\ op.pc = "idle" /\ LoadStep(kind)
        /\ UNCHANGED <<recordset, online, updateflag, cache, db, link, present,
                       nwrites>>
        /\ (kind = "login" /\ present = FALSE) \/ recordset = None
    BY <1>1, <1>6 DEF BeginLoad, Loads
  <2>2. /\ offlineCacheTimer' = FALSE /\ op' \in Op /\ op'.kind = kind
        /\ op'.pc = IF offlineCacheTimer /\ recordset # None
                      THEN "alive" ELSE "load"
    BY <2>1 DEF LoadStep, Op
  <2>3. /\ recordset # None => op'.pc = "alive" /\ present = FALSE
        /\ recordset = None => op'.pc = "load"
    BY <2>1, <2>2 DEF StoreInv, UseInv
  <2>4. TypeOK'
    BY <1>0
  <2>5. TierInv'
    BY <2>1, <2>3 DEF StoreInv, TierInv
  <2>6. FreshInv' /\ RowStep
    BY <2>1 DEF StoreInv, FreshInv, RowStep, Row
  <2>7. UseInv'
    BY <2>1, <2>2, <2>3 DEF StoreInv, UseInv
  <2> QED BY <2>4, <2>5, <2>6, <2>7 DEF StoreInv
<1>7. CASE LoadRow
  <2>1. /\ op.pc = "load" /\ recordset = None /\ offlineCacheTimer = FALSE
        /\ online' = TRUE /\ op' = Idle
        /\ present' = (present \/ op.kind = "login")
        /\ UNCHANGED <<updateflag, cache, nwrites>>
    BY <1>7 DEF LoadRow, StoreInv, UseInv
  <2>2. /\ DbLoad(db) \in Db /\ DbLoad(db).redis \in {None, DbLoad(db).mysql}
        /\ DbLoad(db).mysql = db.mysql /\ DbLoad(db).row = db.mysql
        /\ DbLoad(db).online = TRUE
    <3>1. DbLoad(db).online = TRUE
      BY <1>1 DEF DbLoad, Db
    <3> QED BY <1>1, <3>1, LoadFacts
  <2>3. /\ link' = TRUE /\ db' = DbLoad(db)
        /\ recordset' = db.mysql
        /\ offlineCacheTimer' = (op.kind = "get" /\ recordset' # None)
    BY <1>1, <1>7, <2>1, <2>2, CallOk DEF LoadRow
  <2>4. op.kind \in {"login", "get"}
    BY <2>1 DEF StoreInv, UseInv
  <2>5. TypeOK'
    BY <1>0
  <2>6. TierInv'
    BY <1>1, <1>3, <2>1, <2>2, <2>3 DEF TierInv
  <2>7. FreshInv' /\ RowStep
    BY <2>1, <2>2, <2>3 DEF StoreInv, FreshInv, RowStep, Row
  <2>8. UseInv'
    BY <1>1, <1>3, <2>1, <2>2, <2>3, <2>4 DEF StoreInv, UseInv
  <2> QED BY <2>5, <2>6, <2>7, <2>8 DEF StoreInv
<1>8. ASSUME NEW kind \in {"logout", "expire"}, BeginUnLoad(kind)
      PROVE  StoreInv' /\ RowStep
  <2>1. /\ op.pc = "idle" /\ present' = (present /\ kind # "logout")
        /\ kind = "logout" \/ offlineCacheTimer
        /\ UNCHANGED <<game, db, link, nwrites>>
    BY <1>8 DEF BeginUnLoad
  <2>2. present' = FALSE
    BY <1>1, <2>1 DEF StoreInv, UseInv
  <2>3. /\ op' \in Op
        /\ op'.pc = IF recordset # None THEN "alive" ELSE "idle"
    BY <1>3, <1>8 DEF BeginUnLoad, Op
  <2>4. TypeOK'
    BY <1>0
  <2>5. TierInv' /\ FreshInv' /\ RowStep
    BY <2>1, <2>3 DEF game, StoreInv, TierInv, FreshInv, RowStep, Row
  <2>6. UseInv'
    BY <2>1, <2>2, <2>3 DEF game, UseInv
  <2> QED BY <2>4, <2>5, <2>6 DEF StoreInv
<1>9. CASE UnLoadAlive
  <2>1. /\ op.pc = "alive" /\ UNCHANGED <<game, db, link, present, nwrites>>
        /\ op' = [op EXCEPT !.pc = IF updateflag THEN "update" ELSE "unload"]
    BY <1>1, <1>9 DEF UnLoadAlive, game
  <2>2. op' \in Op /\ op'.pc = IF updateflag THEN "update" ELSE "unload"
    BY <1>1, <2>1 DEF Op
  <2>3. TypeOK'
    BY <1>0
  <2>4. TierInv' /\ FreshInv' /\ RowStep
    BY <2>1, <2>2 DEF game, StoreInv, TierInv, FreshInv, RowStep, Row
  <2>5. UseInv'
    BY <2>1, <2>2 DEF game, StoreInv, UseInv
  <2> QED BY <2>3, <2>4, <2>5 DEF StoreInv
<1>10. ASSUME NEW save \in BOOLEAN, recordset # None, NEW o \in Outcomes,
              CallUpdate(o, Whole(recordset), save)
       PROVE  /\ link' = TRUE /\ db' \in Db /\ db'.online = db.online
              /\ db'.row = recordset /\ db'.redis \in {None, db'.mysql}
              /\ db'.mysql = IF save THEN recordset ELSE db.mysql
              /\ ~save => db'.dirty
              /\ db'.mysql # None /\ db.mysql # None /\ db.online = TRUE
  <2>1. recordset \in Rows /\ db.online = TRUE /\ db.row # None
        /\ db.mysql # None
    BY <1>1, <1>4, <1>10 DEF StoreInv, TierInv
  <2>2. link' = TRUE /\ db' = DbUpdate(db, Whole(recordset), save)
    BY <1>1, <1>10, CallOk DEF CallUpdate
  <2> QED BY <1>1, <1>10, <2>1, <2>2, UpdateOnlineRow
<1>11. CASE UnLoadUpdate
  <2>1. /\ op.pc = "update" /\ recordset # None
        /\ UNCHANGED <<game, present, nwrites>>
    BY <1>11 DEF UnLoadUpdate, StoreInv, UseInv
  <2>2. op' \in Op /\ op'.pc = "unload"
    BY <1>1, <1>11 DEF UnLoadUpdate, Op
  <2>3. /\ link' = TRUE /\ db' \in Db /\ db'.online = db.online
        /\ db'.row = recordset /\ db'.redis \in {None, db'.mysql}
        /\ db'.mysql = db.mysql /\ db'.dirty
        /\ db'.mysql # None /\ db.online = TRUE
    BY <1>10, <1>11, <2>1 DEF UnLoadUpdate
  <2>4. TypeOK'
    BY <1>0
  <2>5. TierInv'
    BY <1>1, <2>1, <2>2, <2>3 DEF game, TierInv
  <2>6. FreshInv' /\ RowStep
    BY <2>1, <2>3 DEF game, StoreInv, FreshInv, RowStep, Row
  <2>7. UseInv'
    BY <2>1, <2>2, <2>3 DEF game, StoreInv, UseInv
  <2> QED BY <2>4, <2>5, <2>6, <2>7 DEF StoreInv
<1>12. CASE UnLoadUnLoad
  <2>1. /\ op.pc = "unload" /\ recordset # None /\ present = FALSE
        /\ db.row = recordset
        /\ ~db.dirty => db.row = db.mysql
        /\ cache' = None /\ UNCHANGED <<present, nwrites>>
    BY <1>1, <1>12 DEF UnLoadUnLoad, StoreInv, UseInv, TierInv
  <2>2. /\ recordset' = None /\ online' = FALSE /\ updateflag' = FALSE
        /\ offlineCacheTimer' = FALSE
        /\ op' \in Op /\ op'.pc \in {"load", "idle"}
        /\ op'.pc = "load" => op'.kind \in {"login", "get"}
    BY <1>1, <1>3, <1>12 DEF UnLoadUnLoad, UnLoaded, Op
  <2>3. /\ DbUnLoad(db) \in Db /\ DbUnLoad(db).row = None
        /\ DbUnLoad(db).redis \in {None, DbUnLoad(db).mysql}
        /\ DbUnLoad(db).mysql = recordset
        /\ DbUnLoad(db).online = FALSE
    <3>1. db.row # None
      BY <2>1
    <3> QED BY <1>1, <2>1, <3>1, UnLoadFacts
  <2>4. link' = TRUE /\ db' = DbUnLoad(db)
    BY <1>1, <1>12, CallOk DEF UnLoadUnLoad
  <2>5. TypeOK'
    BY <1>0
  <2>6. TierInv'
    BY <2>1, <2>2, <2>3, <2>4 DEF TierInv
  <2>7. FreshInv' /\ RowStep
    BY <2>1, <2>2, <2>3, <2>4 DEF StoreInv, FreshInv, RowStep, Row
  <2>8. UseInv'
    BY <2>1, <2>2 DEF UseInv
  <2> QED BY <2>5, <2>6, <2>7, <2>8 DEF StoreInv
<1>13. CASE UpdateOnline
  <2>1. /\ nwrites' \in 0..MaxWrites /\ nwrites + 1 \in Writes
        /\ nwrites' = nwrites + 1 /\ nwrites \in Nat
    BY <1>1, <1>13 DEF UpdateOnline, Writes
  <2>2. recordset' = IF recordset = None THEN None
                     ELSE recordset \cup {nwrites + 1}
    BY <1>13 DEF UpdateOnline, Merge, Fields
  <2>3. /\ op.pc = "idle" /\ updateflag' = TRUE
        /\ UNCHANGED <<online, offlineCacheTimer, cache, op, db, link, present>>
    BY <1>13 DEF UpdateOnline
  <2>4. 1..nwrites \subseteq 1..nwrites' /\ nwrites + 1 \notin 1..nwrites
        /\ nwrites + 1 \in 1..nwrites'
    BY <2>1
  <2>5. /\ recordset' \in RowOrNone /\ (recordset' # None <=> recordset # None)
        /\ recordset # None => /\ recordset' = recordset \cup {nwrites + 1}
                               /\ nwrites + 1 \notin recordset
                               /\ recordset' \subseteq 1..nwrites'
    <3>1. CASE recordset = None
      BY <1>4, <2>2, <3>1
    <3>2. CASE recordset # None
      <4>1. recordset' \in Rows /\ recordset' = recordset \cup {nwrites + 1}
        BY <1>1, <1>4, <2>1, <2>2, <3>2 DEF Rows
      <4>2. recordset \subseteq 1..nwrites
        BY <3>2 DEF StoreInv, FreshInv
      <4> QED BY <2>4, <3>2, <4>1, <4>2, EntityAssumption DEF Rows, RowOrNone
    <3> QED BY <3>1, <3>2
  <2>6. TypeOK'
    BY <1>0
  <2>7. TierInv'
    BY <2>3, <2>5 DEF StoreInv, TierInv
  <2>8. FreshInv'
    BY <2>3, <2>4, <2>5 DEF StoreInv, FreshInv
  <2>9. UseInv'
    BY <2>3, <2>5 DEF StoreInv, UseInv
  <2>10. RowStep
    BY <2>1, <2>3, <2>5 DEF RowStep, Row
  <2> QED BY <2>6, <2>7, <2>8, <2>9, <2>10 DEF StoreInv
<1>14. CASE UpdateOffline
  <2>1. /\ nwrites' \in 0..MaxWrites /\ nwrites + 1 \in Writes
        /\ nwrites' = nwrites + 1 /\ nwrites \in Nat
    BY <1>1, <1>14 DEF UpdateOffline, Writes
  <2>2. /\ op.pc = "idle" /\ ~db.online /\ recordset = None /\ db.row = None
        /\ UNCHANGED <<game, op, present>>
    BY <1>1, <1>14 DEF UpdateOffline, StoreInv, TierInv
  <2>3. link' = TRUE /\ db' = DbUpdate(db, Fields(nwrites + 1), FALSE)
    BY <1>1, <1>14, CallOk DEF UpdateOffline, CallUpdate
  <2>4. /\ db' \in Db /\ db'.online = db.online /\ db'.row = None
        /\ db'.redis \in {None, db'.mysql}
        /\ db'.mysql = IF db.mysql = None THEN None
                       ELSE db.mysql \cup {nwrites + 1}
    BY <1>1, <2>1, <2>2, <2>3, UpdateOfflineRow
  <2>5. /\ 1..nwrites \subseteq 1..nwrites' /\ nwrites + 1 \notin 1..nwrites
        /\ nwrites + 1 \in 1..nwrites'
    BY <2>1
  <2>6. db.mysql # None => db.mysql \subseteq 1..nwrites
    BY DEF StoreInv, FreshInv
  <2>7. TypeOK'
    BY <1>0
  <2>8. TierInv'
    BY <1>1, <2>2, <2>3, <2>4 DEF game, TierInv
  <2>9. FreshInv'
    BY <2>2, <2>4, <2>5, <2>6 DEF game, FreshInv
  <2>10. UseInv'
    BY <2>2, <2>4 DEF game, StoreInv, UseInv
  <2>11. RowStep
    <3>1. Row = db.mysql /\ Row' = db'.mysql
      BY <2>2 DEF game, Row
    <3> QED BY <2>1, <2>4, <2>5, <2>6, <3>1 DEF RowStep
  <2> QED BY <2>7, <2>8, <2>9, <2>10, <2>11 DEF StoreInv
<1>15. CASE Save
  <2>1. /\ op.pc = "idle" /\ recordset # None /\ updateflag' = FALSE
        /\ UNCHANGED <<recordset, online, offlineCacheTimer, cache, op, present,
                       nwrites>>
    BY <1>15 DEF Save
  <2>2. /\ link' = TRUE /\ db' \in Db /\ db'.online = db.online
        /\ db'.row = recordset /\ db'.redis \in {None, db'.mysql}
        /\ db'.mysql = recordset /\ db.online = TRUE
    BY <1>10, <1>15, <2>1 DEF Save
  <2>3. TypeOK'
    BY <1>0
  <2>4. TierInv'
    BY <1>1, <2>1, <2>2 DEF TierInv
  <2>5. FreshInv' /\ RowStep
    BY <2>1, <2>2 DEF StoreInv, FreshInv, RowStep, Row
  <2>6. UseInv'
    BY <2>1, <2>2 DEF StoreInv, UseInv
  <2> QED BY <2>3, <2>4, <2>5, <2>6 DEF StoreInv
<1>16. CASE Add
  <2>1. /\ op.pc = "idle" /\ recordset = None /\ db.row = None /\ present
        /\ UNCHANGED <<online, updateflag, offlineCacheTimer, cache, op, present,
                       nwrites>>
    BY <1>16 DEF Add, StoreInv, TierInv
  <2>2. /\ link' = TRUE /\ db' = DbAdd(db)
        /\ recordset' = IF DbAdds(db) /\ online THEN {} ELSE None
    BY <1>1, <1>16, CallOk DEF Add
  <2>3. /\ db' \in Db
        /\ ~DbAdds(db) => db' = db
        /\ DbAdds(db) =>
              /\ db.mysql = None /\ db'.mysql = {} /\ db'.redis = {}
              /\ db'.online = db.online
              /\ db'.row = IF db.online THEN {} ELSE None
    BY <1>1, <2>2, AddFacts
  <2>4. {} \in RowOrNone /\ {} # None
    BY EntityAssumption DEF RowOrNone, Rows
  <2>5. TypeOK'
    BY <1>0
  <2>6. CASE ~DbAdds(db)
    BY <2>1, <2>2, <2>3, <2>5, <2>6
    DEF StoreInv, TierInv, FreshInv, UseInv, RowStep, Row
  <2>7. CASE DbAdds(db)
    <3>1. Row = None /\ Row' = {}
      BY <2>1, <2>2, <2>3, <2>7 DEF Row
    <3>2. TierInv'
      BY <1>1, <2>1, <2>2, <2>3, <2>4, <2>7 DEF TierInv
    <3>3. FreshInv'
      BY <2>2, <2>3, <2>7 DEF FreshInv
    <3>4. online = TRUE
      BY <2>1 DEF StoreInv, UseInv
    <3>5. UseInv'
      BY <2>1, <2>2, <2>3, <2>4, <2>7, <3>4 DEF StoreInv, UseInv
    <3> QED BY <2>5, <3>1, <3>2, <3>3, <3>5 DEF StoreInv, RowStep
  <2> QED BY <2>6, <2>7
<1>17. ~CacheSave /\ ~LinkDown /\ ~LinkUp /\ ~DbCrash /\ ~GameCrash /\ ~Delete
  BY <1>1, <1>2 DEF CacheSave, LinkDown, LinkUp, DbCrash, GameCrash, Delete
<1> QED
  BY <1>5, <1>6, <1>7, <1>8, <1>9, <1>11, <1>12, <1>13, <1>14, <1>15, <1>16,
     <1>17 DEF Next

\* The refinement: without faults the game node, the db node, redis and mysql
\* together are the single value of RoleStore, for any number of writes.
THEOREM StoreRefinement ==
    ASSUME Faultless PROVE Spec => StoreSpec
<1> DEFINE gone == (db.mysql = None)
<1>1. Init => StoreInv /\ Store!Init
  <2> SUFFICES ASSUME Init PROVE StoreInv /\ Store!Init
    OBVIOUS
  <2>1. StoreInv /\ Row \in {None, {}}
    BY StoreInit
  <2>2. Value = Row /\ (gone <=> Row = None)
    BY <2>1, ValueIsRow DEF StoreInv, TierInv, Row
  <2>3. {} # None
    BY EntityAssumption DEF Rows
  <2> QED BY <2>1, <2>2, <2>3 DEF Store!Init
<1>2. StoreInv /\ [Next]_vars => StoreInv' /\ [Store!Next]_(Store!store)
  <2> SUFFICES ASSUME StoreInv, [Next]_vars
               PROVE  StoreInv' /\ [Store!Next]_(Store!store)
    OBVIOUS
  <2>1. StoreInv' /\ RowStep
    BY StoreStep
  <2>2. Value = Row /\ (gone <=> Row = None)
    BY ValueIsRow DEF StoreInv, TierInv, Row
  <2>3. Value' = Row' /\ (gone' <=> Row' = None)
    BY <2>1 DEF StoreInv, TierInv, Value, Row, Stored
  <2>4. CASE Row' = Row
    BY <2>1, <2>2, <2>3, <2>4 DEF Store!store
  <2>5. CASE Row = None /\ Row' = {}
    <3>1. {} # None
      BY EntityAssumption DEF Rows
    <3> QED BY <2>1, <2>2, <2>3, <2>5, <3>1 DEF Store!Next, Store!Add
  <2>6. CASE /\ Row # None /\ nwrites + 1 \in Writes /\ nwrites + 1 \notin Row
             /\ Row' = Row \cup {nwrites + 1}
    <3>1. Row' # None
      <4>1. Row \in Rows
        BY <2>6, DbFields DEF StoreInv, TypeOK, Row, RowOrNone
      <4>2. Row' \in Rows
        BY <2>6, <4>1 DEF Rows
      <4> QED BY <4>2, EntityAssumption DEF Rows
    <3>2. Store!Write(nwrites + 1)
      BY <2>2, <2>3, <2>6, <3>1 DEF Store!Write
    <3> QED BY <2>1, <2>6, <3>2 DEF Store!Next, Store!Writes, Writes
  <2> QED BY <2>1, <2>4, <2>5, <2>6 DEF RowStep
<1> QED BY <1>1, <1>2, PTL DEF Spec, StoreSpec, Store!Spec

\* Without faults a role that is not in the game node's memory is, in full, in
\* mysql: UnLoad, the unload timer and offline updates leave nothing behind.
THEOREM UnloadedIsSavedTheorem ==
    ASSUME Faultless PROVE Spec => []UnloadedIsSaved
<1>1. Init => StoreInv
  BY StoreInit
<1>2. StoreInv /\ [Next]_vars => StoreInv'
  BY StoreStep
<1>3. StoreInv => UnloadedIsSaved
  BY DEF StoreInv, TierInv, UnloadedIsSaved
<1> QED BY <1>1, <1>2, <1>3, PTL DEF Spec

\* Without faults the timer of an earlier offline Get never takes the row of a
\* role that has logged in since.
THEOREM OnlineStaysLoadedTheorem ==
    ASSUME Faultless PROVE Spec => []OnlineStaysLoaded
<1>1. Init => StoreInv
  BY StoreInit
<1>2. StoreInv /\ [Next]_vars => StoreInv'
  BY StoreStep
<1>3. StoreInv => OnlineStaysLoaded
  BY DEF StoreInv, UseInv, OnlineStaysLoaded
<1> QED BY <1>1, <1>2, <1>3, PTL DEF Spec

-----------------------------------------------------------------------------
(* Deletes as well, without faults: what Delete removes stays removed *)

\* No faults; roles are deleted at any time, logged in or not.
NoFaults == Env \cap {"partition", "dbcrash", "gamecrash"} = {}

\* Both nodes hold the row or neither does.  Delete leaves the row in memory,
\* and a Save may put it back into redis alone; that copy is gone when the row
\* leaves the memory.
GoneInv ==
    /\ TypeOK
    /\ link = TRUE /\ cache = None
    /\ online = db.online
    /\ recordset = None <=> db.row = None
    /\ recordset # None => online
    /\ \/ db.redis \in {None, db.mysql}
       \/ db.mysql = None /\ recordset # None
    /\ op.pc \in {"alive", "update", "unload"} => recordset # None

\* Without faults a call is executed and answered, whatever is deleted.
LEMMA CallAnswered ==
    ASSUME NoFaults, link = TRUE, NEW o \in Outcomes, NEW e, NEW half,
           Call(o, e, half)
    PROVE  o = "ok" /\ link' = TRUE /\ db' = e
  BY DEF NoFaults, Outcomes, Call

\* A whole row that is sent to the db node, which has the row in memory, is in
\* its memory afterwards; redis has it only if mysql has it too or neither row
\* was there (EntityImpl:updateRole after a Delete).
LEMMA UpdateLoadedRow ==
    ASSUME NEW row \in Rows, NEW save \in BOOLEAN, db \in Db,
           db.online, db.row # None,
           db.redis \in {None, db.mysql} \/ db.mysql = None
    PROVE  LET e == DbUpdate(db, Whole(row), save) IN
           /\ e \in Db /\ e.online = db.online /\ e.row = row
           /\ e.redis \in {None, e.mysql} \/ e.mysql = None
<1>1. /\ db.row \in RowOrNone /\ db.redis \in RowOrNone
      /\ db.mysql \in RowOrNone /\ db.online \in BOOLEAN /\ db.dirty \in BOOLEAN
  BY DbFields
<1>2. row # None /\ row \in RowOrNone
  BY EntityAssumption DEF Rows, RowOrNone
<1>3. Merge(db.row, Whole(row)) = row
  BY DEF Merge, Whole
<1>4. CASE ~save
  <2>1. DbUpdate(db, Whole(row), save) = [db EXCEPT !.row = row, !.dirty = TRUE]
    BY <1>3, <1>4 DEF DbUpdate, NewRow
  <2> QED BY <1>1, <1>2, <1>4, <2>1 DEF Db
<1>5. CASE save
  <2>1. DbUpdate(db, Whole(row), save) = UpdateRole([db EXCEPT !.row = row], row)
    BY <1>2, <1>3, <1>5 DEF DbUpdate, NewRow
  <2> QED BY <1>1, <1>2, <1>5, <2>1 DEF UpdateRole, Db
<1> QED BY <1>4, <1>5

\* The invariant of a role that may be deleted is inductive without faults.
LEMMA GoneStep ==
    ASSUME NoFaults, GoneInv, [Next]_vars
    PROVE  GoneInv'
<1>0. TypeOK'
  BY TypeStep DEF GoneInv, OpInv
<1>1. /\ db \in Db /\ link = TRUE /\ recordset \in RowOrNone /\ cache = None
      /\ op \in Op /\ nwrites \in 0..MaxWrites /\ MaxWrites \in Nat
      /\ present \in BOOLEAN /\ online = db.online
      /\ online \in BOOLEAN /\ updateflag \in BOOLEAN
      /\ offlineCacheTimer \in BOOLEAN
      /\ recordset = None <=> db.row = None
      /\ recordset # None => online
      /\ \/ db.redis \in {None, db.mysql}
         \/ db.mysql = None /\ recordset # None
      /\ op.pc \in {"alive", "update", "unload"} => recordset # None
  BY EntityAssumption DEF GoneInv, TypeOK
<1>2. "partition" \notin Env /\ "dbcrash" \notin Env /\ "gamecrash" \notin Env
  BY DEF NoFaults
<1>3. Idle \in Op /\ Idle.pc = "idle"
  BY DEF Idle, Op
<1>4. /\ db.row \in RowOrNone /\ db.mysql \in RowOrNone
      /\ db.redis \in RowOrNone
      /\ db.online \in BOOLEAN /\ db.dirty \in BOOLEAN
      /\ None \in RowOrNone
      /\ \A row \in RowOrNone : row # None => row \in Rows
  BY <1>1, DbFields DEF RowOrNone
<1>5. CASE UNCHANGED vars
  BY <1>0, <1>5 DEF vars, game, GoneInv
<1>6. ASSUME NEW kind \in {"login", "get"}, BeginLoad(kind)
      PROVE  GoneInv'
  <2>1. /\ LoadStep(kind)
        /\ UNCHANGED <<recordset, online, updateflag, cache, db, link, present,
                       nwrites>>
    BY <1>1, <1>6 DEF BeginLoad
  <2>2. /\ offlineCacheTimer' = FALSE /\ op' \in Op
        /\ op'.pc = IF offlineCacheTimer /\ recordset # None
                      THEN "alive" ELSE "load"
    BY <2>1 DEF LoadStep, Op
  <2>3. TypeOK'
    BY <1>0
  <2> QED BY <1>1, <2>1, <2>2, <2>3 DEF GoneInv
<1>7. CASE LoadRow
  <2>1. PICK o \in Outcomes :
          /\ Call(o, DbLoad(db), {db, DbLoad(db)})
          /\ recordset' = IF o = "ok" /\ DbLoad(db).row # None
                            THEN DbLoad(db).row ELSE recordset
          /\ offlineCacheTimer' =
                (offlineCacheTimer \/ (op.kind = "get" /\ recordset' # None))
    BY <1>7 DEF LoadRow
  <2>2. /\ online' = TRUE /\ op' = Idle
        /\ present' = (present \/ op.kind = "login")
        /\ UNCHANGED <<updateflag, cache, nwrites>>
    BY <1>7 DEF LoadRow
  <2>3. o = "ok" /\ link' = TRUE /\ db' = DbLoad(db)
    BY <1>1, <2>1, CallAnswered
  <2>4. Stored(db) \in RowOrNone
    BY <1>4 DEF Stored
  <2>5. /\ db' \in Db /\ db'.online = TRUE /\ db'.redis = Stored(db)
        /\ db'.mysql = db.mysql
        /\ db'.row = IF Stored(db) # None THEN Stored(db) ELSE db.row
    BY <1>1, <1>4, <2>3, <2>4 DEF DbLoad, Db
  <2>6. /\ recordset' = IF db'.row # None THEN db'.row ELSE recordset
        /\ recordset' \in RowOrNone
        /\ recordset' = None <=> db'.row = None
        /\ recordset # None => recordset' # None
    BY <1>1, <1>4, <2>1, <2>3, <2>4, <2>5
  <2>7. \/ db'.redis \in {None, db'.mysql}
        \/ db'.mysql = None /\ recordset' # None
    BY <1>1, <2>5, <2>6 DEF Stored
  <2>8. TypeOK'
    BY <1>0
  <2> QED BY <1>1, <1>3, <2>2, <2>3, <2>5, <2>6, <2>7, <2>8 DEF GoneInv
<1>8. ASSUME NEW kind \in {"logout", "expire"}, BeginUnLoad(kind)
      PROVE  GoneInv'
  <2>1. present' \in BOOLEAN /\ UNCHANGED <<game, db, link, nwrites>>
    BY <1>1, <1>8 DEF BeginUnLoad
  <2>2. /\ op' \in Op
        /\ op'.pc = IF recordset # None THEN "alive" ELSE "idle"
    BY <1>3, <1>8 DEF BeginUnLoad, Op
  <2> QED BY <1>0, <2>1, <2>2 DEF game, GoneInv
<1>9. CASE UnLoadAlive
  <2>1. /\ op.pc = "alive" /\ UNCHANGED <<game, db, link, present, nwrites>>
        /\ op' = [op EXCEPT !.pc = IF updateflag THEN "update" ELSE "unload"]
    BY <1>1, <1>9 DEF UnLoadAlive, game
  <2>2. op' \in Op
    BY <1>1, <2>1 DEF Op
  <2> QED BY <1>0, <1>1, <2>1, <2>2 DEF game, GoneInv
<1>10. ASSUME NEW save \in BOOLEAN, recordset # None, NEW o \in Outcomes,
              CallUpdate(o, Whole(recordset), save)
       PROVE  /\ link' = TRUE /\ db' \in Db /\ db'.online = db.online
              /\ db'.row = recordset
              /\ db'.redis \in {None, db'.mysql} \/ db'.mysql = None
  <2>1. recordset \in Rows /\ db.online = TRUE /\ db.row # None
    BY <1>1, <1>4, <1>10
  <2>2. link' = TRUE /\ db' = DbUpdate(db, Whole(recordset), save)
    BY <1>1, <1>10, CallAnswered DEF CallUpdate
  <2> QED BY <1>1, <1>10, <2>1, <2>2, UpdateLoadedRow
<1>11. CASE UnLoadUpdate
  <2>1. /\ op.pc = "update" /\ recordset # None
        /\ UNCHANGED <<game, present, nwrites>>
    BY <1>1, <1>11 DEF UnLoadUpdate
  <2>2. op' \in Op
    BY <1>1, <1>11 DEF UnLoadUpdate, Op
  <2>3. /\ link' = TRUE /\ db' \in Db /\ db'.online = db.online
        /\ db'.row = recordset
        /\ db'.redis \in {None, db'.mysql} \/ db'.mysql = None
    BY <1>10, <1>11, <2>1 DEF UnLoadUpdate
  <2>4. TypeOK'
    BY <1>0
  <2> QED BY <1>1, <2>1, <2>3, <2>4 DEF game, GoneInv
<1>12. CASE UnLoadUnLoad
  <2>1. /\ op.pc = "unload" /\ recordset # None /\ db.row # None
        /\ cache' = None /\ UNCHANGED <<present, nwrites>>
    BY <1>1, <1>12 DEF UnLoadUnLoad
  <2>2. /\ recordset' = None /\ online' = FALSE /\ updateflag' = FALSE
        /\ offlineCacheTimer' = FALSE
        /\ op' \in Op /\ op'.pc \in {"load", "idle"}
    BY <1>1, <1>3, <1>12 DEF UnLoadUnLoad, UnLoaded, Op
  <2>3. link' = TRUE /\ db' = DbUnLoad(db)
    BY <1>1, <1>12, CallAnswered DEF UnLoadUnLoad
  <2>4. /\ db' \in Db /\ db'.row = None /\ db'.redis = None
        /\ db'.online = FALSE
    <3>1. CASE db.dirty
      BY <1>1, <1>4, <2>1, <2>3, <3>1 DEF DbUnLoad, UpdateRole, Db
    <3>2. CASE ~db.dirty
      BY <1>1, <1>4, <2>1, <2>3, <3>2 DEF DbUnLoad, Db
    <3> QED BY <3>1, <3>2
  <2>5. TypeOK'
    BY <1>0
  <2> QED BY <2>1, <2>2, <2>3, <2>4, <2>5 DEF GoneInv
<1>13. CASE UpdateOnline
  <2>1. /\ nwrites' \in 0..MaxWrites /\ nwrites + 1 \in Writes
    BY <1>1, <1>13 DEF UpdateOnline, Writes
  <2>2. recordset' = IF recordset = None THEN None
                     ELSE recordset \cup {nwrites + 1}
    BY <1>13 DEF UpdateOnline, Merge, Fields
  <2>3. /\ updateflag' = TRUE
        /\ UNCHANGED <<online, offlineCacheTimer, cache, op, db, link, present>>
    BY <1>13 DEF UpdateOnline
  <2>4. recordset' \in RowOrNone /\ (recordset' # None <=> recordset # None)
    <3>1. CASE recordset = None
      BY <1>4, <2>2, <3>1
    <3>2. CASE recordset # None
      <4>1. recordset' \in Rows
        BY <1>1, <1>4, <2>1, <2>2, <3>2 DEF Rows
      <4> QED BY <3>2, <4>1, EntityAssumption DEF Rows, RowOrNone
    <3> QED BY <3>1, <3>2
  <2>5. TypeOK'
    BY <1>0
  <2> QED BY <1>1, <2>3, <2>4, <2>5 DEF GoneInv
<1>14. CASE UpdateOffline
  <2>1. /\ nwrites' \in 0..MaxWrites /\ nwrites + 1 \in Writes
    BY <1>1, <1>14 DEF UpdateOffline, Writes
  <2>2. /\ ~db.online /\ recordset = None /\ db.row = None
        /\ db.redis \in {None, db.mysql}
        /\ UNCHANGED <<game, op, present>>
    BY <1>1, <1>14 DEF UpdateOffline
  <2>3. link' = TRUE /\ db' = DbUpdate(db, Fields(nwrites + 1), FALSE)
    BY <1>1, <1>14, CallAnswered DEF UpdateOffline, CallUpdate
  <2>4. /\ db' \in Db /\ db'.online = db.online /\ db'.row = None
        /\ db'.redis \in {None, db'.mysql}
    BY <1>1, <2>1, <2>2, <2>3, UpdateOfflineRow
  <2>5. TypeOK'
    BY <1>0
  <2> QED BY <1>1, <2>2, <2>3, <2>4, <2>5 DEF game, GoneInv
<1>15. CASE Save
  <2>1. /\ recordset # None /\ updateflag' = FALSE
        /\ UNCHANGED <<recordset, online, offlineCacheTimer, cache, op, present,
                       nwrites>>
    BY <1>15 DEF Save
  <2>2. /\ link' = TRUE /\ db' \in Db /\ db'.online = db.online
        /\ db'.row = recordset
        /\ db'.redis \in {None, db'.mysql} \/ db'.mysql = None
    BY <1>10, <1>15, <2>1 DEF Save
  <2>3. TypeOK'
    BY <1>0
  <2> QED BY <1>1, <2>1, <2>2, <2>3 DEF GoneInv
<1>16. CASE Add
  <2>1. /\ recordset = None /\ db.row = None /\ db.redis \in {None, db.mysql}
        /\ UNCHANGED <<online, updateflag, offlineCacheTimer, cache, op, present,
                       nwrites>>
    BY <1>1, <1>16 DEF Add
  <2>2. /\ link' = TRUE /\ db' = DbAdd(db)
        /\ recordset' = IF DbAdds(db) /\ online THEN {} ELSE None
    BY <1>1, <1>16, CallAnswered DEF Add
  <2>3. /\ db' \in Db
        /\ ~DbAdds(db) => db' = db
        /\ DbAdds(db) => /\ db'.mysql = {} /\ db'.redis = {}
                         /\ db'.online = db.online
                         /\ db'.row = IF db.online THEN {} ELSE None
    BY <1>1, <2>1, <2>2, AddFacts
  <2>4. {} \in RowOrNone /\ {} # None
    BY EntityAssumption DEF RowOrNone, Rows
  <2>5. TypeOK'
    BY <1>0
  <2>6. CASE ~DbAdds(db)
    BY <1>1, <2>1, <2>2, <2>3, <2>5, <2>6 DEF GoneInv
  <2>7. CASE DbAdds(db)
    BY <1>1, <2>1, <2>2, <2>3, <2>4, <2>5, <2>7 DEF GoneInv
  <2> QED BY <2>6, <2>7
<1>17. CASE Delete
  <2>1. UNCHANGED <<game, op, present, nwrites>>
    BY <1>17 DEF Delete
  <2>2. link' = TRUE /\ db' = DbDelete(db)
    BY <1>1, <1>17, CallAnswered DEF Delete
  <2>3. /\ db' \in Db /\ db'.mysql = None /\ db'.redis = None
        /\ db'.row = db.row /\ db'.online = db.online
    BY <1>1, <1>4, <2>2 DEF DbDelete, Db
  <2>4. TypeOK'
    BY <1>0
  <2> QED BY <1>1, <2>1, <2>2, <2>3, <2>4 DEF game, GoneInv
<1>18. ~CacheSave /\ ~LinkDown /\ ~LinkUp /\ ~DbCrash /\ ~GameCrash
  BY <1>1, <1>2 DEF CacheSave, LinkDown, LinkUp, DbCrash, GameCrash
<1> QED
  BY <1>5, <1>6, <1>7, <1>8, <1>9, <1>11, <1>12, <1>13, <1>14, <1>15, <1>16,
     <1>17, <1>18 DEF Next

\* Without faults a role that is deleted, at whatever moment of its loads and
\* saves, is in no tier once it has been unloaded: no UnLoad, Save or offline
\* update brings it back.
THEOREM DeletedIsGoneTheorem ==
    ASSUME NoFaults PROVE Spec => []DeletedIsGone
<1>1. Init => GoneInv
  <2> SUFFICES ASSUME Init PROVE GoneInv
    OBVIOUS
  <2>1. StoreInv
    BY StoreInit
  <2>2. op.pc = "idle"
    BY DEF Init, Idle
  <2> QED BY <2>1, <2>2 DEF StoreInv, TierInv, GoneInv
<1>2. GoneInv /\ [Next]_vars => GoneInv'
  BY GoneStep
<1>3. GoneInv => DeletedIsGone
  BY DEF GoneInv, DeletedIsGone
<1> QED BY <1>1, <1>2, <1>3, PTL DEF Spec
=============================================================================
