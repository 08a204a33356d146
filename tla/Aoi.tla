-------------------------------- MODULE Aoi --------------------------------
(***************************************************************************)
(* The area-of-interest space of a map (luaclib_src/aoi/aoi.c), which      *)
(* AoiMgr.lua drives: who sees whom within the radius.                     *)
(*                                                                         *)
(* The space keeps its objects, counted by reference, in a hash map whose  *)
(* collisions are chained through free slots; the list `hot` of pairs of a *)
(* watcher and a marker it sees; and a hash of the pairs by the decimal    *)
(* digits of the two ids.  updateAoi of AoiMgr calls aoi_update and then   *)
(* aoi_message without yielding in between, so the two are one action.     *)
(*                                                                         *)
(* The kinds of objects never change their mode: roles watch, armies watch *)
(* and are watched, all others are watched.  Positions are points of a     *)
(* line: only the distance counts.                                         *)
(***************************************************************************)
EXTENDS Integers, Sequences, FiniteSets
LOCAL INSTANCE SequencesExt
LOCAL INSTANCE FiniteSetsExt
LOCAL INSTANCE Functions

CONSTANTS
    Objects,      \* ids of objects
    Watchers,     \* the ones that are updated with "w"
    Markers,      \* the ones that are updated with "m"
    Points,       \* positions
    Targets,      \* tposition: where a movement heads
    Radius,       \* two objects are near up to this distance
    MaxAoiCount,  \* maxAoiCount: pairs a watcher may have
    PreAlloc      \* PRE_ALLOC, a power of two

ASSUME AoiAssumption ==
    /\ IsFiniteSet(Objects) /\ Objects \subseteq Nat \ {0}
    /\ Objects = Watchers \cup Markers
    /\ IsFiniteSet(Points) /\ Points \subseteq Nat /\ 0 \in Points
    /\ IsFiniteSet(Targets) /\ Targets \subseteq Nat /\ 0 \in Targets
    /\ Radius \in Nat /\ MaxAoiCount \in Nat \ {0}
    /\ PreAlloc \in Nat \ {0}

NoId == 0      \* INVALID_ID: objects are numbered from 1 on
Unseen == -1

VARIABLES
    map,      \* space->object: size, lastfree and the slots
    obj,      \* by id: the objects that are allocated
    hot,      \* space->hot: the pairs <<watcher, marker>>
    \* History:
    view,     \* by pair: the target that the last callback told the watcher
    refused   \* near pairs that gen_pair did not make

vars == <<map, obj, hot, view, refused>>

\* All of it, as the steps of a call pass it on
Space == [map |-> map, obj |-> obj, hot |-> hot, view |-> view, refused |-> refused]

Pairs == {<<w, m>> \in Watchers \X Markers : w # m}

\* turn: tposition differs from last_tpos.  It is looked at only while
\* MODE_MOVE is set, and forgotten with it.
Object ==
    [ref : Nat, count : Nat, pos : Points, tpos : Targets,
     drop : BOOLEAN, move : BOOLEAN, turn : BOOLEAN]

\* The variables have the values the code can give them: in particular an
\* object stays allocated no longer than it is in the space, and is never
\* left marked as dropped or as moving between two calls.
TypeOK ==
    /\ map.lastfree \in -1..map.size - 1
    /\ map.slot \in [0..map.size - 1 ->
            [id : Objects \cup {NoId}, next : -1..map.size - 1, live : BOOLEAN]]
    /\ DOMAIN obj \subseteq Objects
    /\ \A o \in DOMAIN obj : obj[o] \in Object /\ ~obj[o].drop /\ ~obj[o].move
    /\ hot \subseteq Pairs /\ refused \subseteq Pairs
    /\ view \in [Pairs -> Targets \cup {Unseen}]

-----------------------------------------------------------------------------
(* The map of objects.  A slot whose object was dropped keeps its id: live  *)
(* tells whether slot->obj is set.                                         *)

EmptySlot == [id |-> NoId, next |-> -1, live |-> FALSE]

NewMap(size) ==
    [size |-> size, lastfree |-> size - 1, slot |-> [i \in 0..size - 1 |-> EmptySlot]]

\* mainposition
Main(m, id) == id % m.size

\* The slots that a walk from slot i passes
Chain(m, i) ==
    LET reach[n \in 0..m.size] ==
            IF n = 0 THEN {i}
            ELSE reach[n - 1] \cup ({m.slot[j].next : j \in reach[n - 1]} \ {-1})
    IN  reach[m.size]

\* the slot where map_query and map_drop find id
Found(m, id) == {i \in Chain(m, Main(m, id)) : m.slot[i].id = id}

FreeSlots(m) == {i \in 0..m.lastfree : m.slot[i].id = NoId}

\* A mutant: the slots behind the main position are cut off
AttachedCutting(m, id) ==
    LET free == Max(FreeSlots(m))
    IN [m EXCEPT !.lastfree = free - 1,
                 !.slot[free] = [id |-> id, next |-> -1, live |-> TRUE],
                 !.slot[Main(m, id)].next = free]

\* id goes to the last free slot and is linked behind its main position
Attached(m, id) ==
    LET free == Max(FreeSlots(m))
        s == Main(m, id)
    IN [m EXCEPT !.lastfree = free - 1,
                 !.slot[free] = [id |-> id, next |-> m.slot[s].next, live |-> TRUE],
                 !.slot[s].next = free]

\* map_insert: id takes its main position, from which an id that does not
\* belong there is moved away; when the id there belongs there, id is attached.
Inserted(m, id, Attach(_, _)) ==
    LET s == Main(m, id)
        was == m.slot[s]
        last == CHOOSE i \in Chain(m, Main(m, was.id)) : m.slot[i].next = s
        taken == [id |-> id, next |-> -1, live |-> TRUE]
    IN  IF was.id = NoId
          THEN [m EXCEPT !.slot[s] = taken]
        ELSE IF Main(m, was.id) = s
          THEN Attach(m, id)
        ELSE LET cut == [m EXCEPT !.slot[last].next = was.next, !.slot[s] = taken]
             IN  IF was.live THEN Attach(cut, was.id) ELSE cut

\* the ids of the live slots, in the order of map_foreach
Foreach(m) ==
    LET live == SelectSeq([i \in 1..m.size |-> m.slot[i - 1]], LAMBDA s : s.live)
    IN  [k \in 1..Len(live) |-> live[k].id]

\* rehash: a table of twice the size never runs out of free slots
Rehashed(m) ==
    FoldLeft(LAMBDA n, id : Inserted(n, id, Attached), NewMap(2 * m.size), Foreach(m))

MapInsert(m, id) ==
    LET AttachOrRehash(n, x) ==
            IF FreeSlots(n) # {}
              THEN Attached(n, x)
              ELSE Inserted(Rehashed(n), x, Attached)
    IN  Inserted(m, id, AttachOrRehash)

NewObject ==
    [ref |-> 1, count |-> 0, pos |-> 0, tpos |-> 0,
     drop |-> FALSE, move |-> FALSE, turn |-> FALSE]

\* map_query: the object with this id, which is made when there is none
MapQuery(sp, id) ==
    LET found == Found(sp.map, id)
        i == CHOOSE j \in found : TRUE
    IN  IF found # {} /\ sp.map.slot[i].live
          THEN sp
          ELSE [sp EXCEPT !.obj = [o \in DOMAIN @ \cup {id} |->
                                       IF o = id THEN NewObject ELSE @[o]],
                          !.map = IF found # {} THEN [@ EXCEPT !.slot[i].live = TRUE]
                                                ELSE MapInsert(@, id)]

\* drop_object: the last reference takes the object out of the map and frees it
DropObject(sp, id) ==
    LET found == Found(sp.map, id)
        s == [sp EXCEPT !.obj[id].ref = @ - 1]
    IN  IF s.obj[id].ref > 0
          THEN s
          ELSE [s EXCEPT !.obj = Restrict(@, DOMAIN @ \ {id}),
                         !.map.slot = [i \in DOMAIN @ |->
                             IF i \in found THEN [@[i] EXCEPT !.live = FALSE] ELSE @[i]]]

-----------------------------------------------------------------------------
(* Pairs *)

Near(o, w, m) ==
    LET d == o[w].pos - o[m].pos IN d <= Radius /\ -d <= Radius

Digits(n) == CHOOSE d \in 1..10 : n < 10^d /\ (d = 1 \/ n >= 10^(d - 1))

\* make_unique_int64: the decimal digits of the one after those of the other
Key(p) == p[1] * 10^Digits(p[2]) + p[2]

\* aoi_update with "d"
Dropped(sp, id) ==
    LET s == MapQuery(sp, id) IN DropObject([s EXCEPT !.obj[id].drop = TRUE], id)

\* A mutant: a marker is told of when it moves, not when its target changes
MovedUnturned(sp, id, p, t) ==
    LET s == MapQuery(sp, id)
    IN [s EXCEPT !.obj[id] =
           [@ EXCEPT !.drop = FALSE, !.ref = IF s.obj[id].drop THEN @ + 1 ELSE @,
                     !.pos = p, !.tpos = t, !.turn = (p # s.obj[id].pos),
                     !.move = TRUE]]

\* aoi_update with another mode.  is_near never holds, so every update
\* counts as a movement.
Moved(sp, id, p, t) ==
    LET s == MapQuery(sp, id)
    IN [s EXCEPT !.obj[id] =
           [@ EXCEPT !.drop = FALSE, !.ref = IF s.obj[id].drop THEN @ + 1 ELSE @,
                     !.pos = p, !.tpos = t, !.turn = (t # s.obj[id].tpos),
                     !.move = TRUE]]

\* The callbacks "m" and "d", by way of the scene service to the watcher
Told(sp, p) == [sp EXCEPT !.view[p] = sp.obj[p[2]].tpos]
Untold(sp, p) == [sp EXCEPT !.view[p] = Unseen]

\* A mutant: the watcher's count is not lowered
DropPairUncounted(sp, p) ==
    DropObject(DropObject([sp EXCEPT !.hot = @ \ {p}], p[1]), p[2])

\* drop_pair
DropPair(sp, p) ==
    LET s == [sp EXCEPT !.hot = @ \ {p}, !.obj[p[1]].count = @ - 1]
    IN  DropObject(DropObject(s, p[1]), p[2])

\* flush_pair, for one pair: it ends when one of the two left or when they
\* are too far apart; a new target of the marker is told.  The watcher is not
\* told when it is the one that left.
Flush(sp, p) ==
    LET w == sp.obj[p[1]]
        m == sp.obj[p[2]]
    IN  IF w.drop \/ m.drop
          THEN DropPair(IF m.drop THEN Untold(sp, p) ELSE sp, p)
        ELSE IF ~Near(sp.obj, p[1], p[2])
          THEN DropPair(Untold(sp, p), p)
        ELSE IF m.move /\ m.turn
          THEN Told(sp, p)
        ELSE sp

FlushPairs(sp) == FoldSet(LAMBDA p, s : Flush(s, p), sp, sp.hot)

\* gen_pair: it is refused to a watcher that has its fill, and when a pair
\* has the same key, which may be another pair.
GenPair(sp, p) ==
    LET full == sp.obj[p[1]].count >= MaxAoiCount
        taken == \E q \in sp.hot : Key(q) = Key(p)
    IN  IF p[1] = p[2] \/ p \in sp.hot \/ ~Near(sp.obj, p[1], p[2])
          THEN sp
        ELSE IF full \/ taken
          THEN [sp EXCEPT !.refused = @ \cup {p}]
        ELSE Told([sp EXCEPT !.hot = @ \cup {p}, !.obj[p[1]].ref = @ + 1,
                             !.obj[p[1]].count = @ + 1, !.obj[p[2]].ref = @ + 1], p)

\* gen_pair_list
GenPairs(sp, ws, ms) ==
    FoldLeft(LAMBDA s, w : FoldLeft(LAMBDA t, m : GenPair(t, <<w, m>>), s, ms), sp, ws)

\* A mutant: a marker that comes to a watcher that stands still is overlooked
GenPairListsMovers(sp, ws, wm, ms, mm) == GenPairs(GenPairs(sp, wm, ms), wm, mm)

GenPairLists(sp, ws, wm, ms, mm) ==
    GenPairs(GenPairs(GenPairs(sp, ws, mm), wm, ms), wm, mm)

\* aoi_message: the pairs that end, then the sets of watchers and markers
\* that stand still or moved (set_push), then the new pairs
Message(sp) ==
    LET s == FlushPairs(sp)
        all == Foreach(s.map)
        In(S, moved) == SelectSeq(all, LAMBDA o : o \in S /\ s.obj[o].move = moved)
        still == [s EXCEPT !.obj = [o \in DOMAIN @ |-> [@[o] EXCEPT !.move = FALSE, !.turn = FALSE]]]
    IN  GenPairLists(still, In(Watchers, FALSE), In(Watchers, TRUE),
                            In(Markers, FALSE), In(Markers, TRUE))

-----------------------------------------------------------------------------
(* The operations of AoiMgr *)

Becomes(sp) ==
    /\ map' = sp.map /\ obj' = sp.obj /\ hot' = sp.hot
    /\ view' = sp.view /\ refused' = sp.refused

\* lnew
NewSpace ==
    [map |-> NewMap(PreAlloc), obj |-> <<>>, hot |-> {},
     view |-> [p \in Pairs |-> Unseen], refused |-> {}]

Init ==
    /\ map = NewSpace.map /\ obj = NewSpace.obj /\ hot = NewSpace.hot
    /\ view = NewSpace.view /\ refused = NewSpace.refused

\* Pairs with this object are tried again
Retried(sp, id) == [sp EXCEPT !.refused = {p \in @ : p[1] # id /\ p[2] # id}]

\* an object enters or is updated
UpdateAoi(id, p, t) == Becomes(Message(Moved(Retried(Space, id), id, p, t)))

\* An object leaves.  The scene of a role that leaves is forgotten.
LeaveAoi(id) ==
    LET sp == Retried(Space, id)
        s == [sp EXCEPT !.view = [q \in Pairs |-> IF q[1] = id THEN Unseen ELSE @[q]]]
    IN  Becomes(Message(Dropped(s, id)))

\* unInitMapAoi, and initMapAoi for the next map
ReleaseAoi == Becomes(NewSpace)

Next ==
    \/ \E id \in Objects, p \in Points, t \in Targets : UpdateAoi(id, p, t)
    \/ \E id \in Objects : LeaveAoi(id)
    \/ ReleaseAoi

Spec == Init /\ [][Next]_vars

-----------------------------------------------------------------------------
(* Properties *)

\* Each allocated object is found under its id, in one live slot, and no
\* other slot is live: an object is neither lost by a rehash or a move of
\* slots nor made a second time (map_insert, rehash, map_query).
MapFinds ==
    /\ \A o \in DOMAIN obj : \E i \in Found(map, o) : map.slot[i].live
    /\ \A i \in DOMAIN map.slot : map.slot[i].live => map.slot[i].id \in DOMAIN obj
    /\ \A i, j \in DOMAIN map.slot :
           map.slot[i].id = map.slot[j].id /\ i # j => map.slot[i].id = NoId

\* Between two calls the references of an object are the space's own and one
\* for each pair it is in, and a watcher's count is that of its pairs, which
\* the limit bounds (grab_object, drop_object, drop_pair, gen_pair).
RefsExact ==
    /\ TypeOK
    /\ \A o \in DOMAIN obj :
        LET asWatcher == Cardinality({p \in hot : p[1] = o})
            asMarker == Cardinality({p \in hot : p[2] = o})
        IN  /\ obj[o].ref = 1 + asWatcher + asMarker
            /\ obj[o].count = asWatcher
            /\ obj[o].count <= MaxAoiCount

\* Each pair is of two objects that are in the space and near each other,
\* whichever of the two moved (flush_pair).
PairsNear ==
    \A p \in hot :
        p[1] \in DOMAIN obj /\ p[2] \in DOMAIN obj /\ Near(obj, p[1], p[2])

\* Each watcher and each marker near it are a pair, whichever of the two
\* moved last, unless gen_pair refused the pair because of the limit or of
\* another pair with the same key (aoi_message).
NearPaired ==
    \A p \in Pairs :
        p[1] \in DOMAIN obj /\ p[2] \in DOMAIN obj /\ Near(obj, p[1], p[2])
            => p \in hot \cup refused

\* The pairs of the space are the near ones: both of the above hold after
\* every call of aoi_message.
PairsExact ==
    PairsNear /\ NearPaired

\* What the callbacks told the watchers is what the space holds: the markers
\* that each one sees, and where these are heading (flush_pair, gen_pair).
ViewMatches ==
    \A p \in Pairs : view[p] = IF p \in hot THEN obj[p[2]].tpos ELSE Unseen
=============================================================================
