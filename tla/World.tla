------------------------------- MODULE World --------------------------------
(***************************************************************************)
(* One simulated zone (world/src/zone.rs) with its grid index: entities    *)
(* are spawned and despawned, moves and teleports are queued between two   *)
(* ticks, and a tick takes the queues and decides each request in order.   *)
(* The actor that owns the zone runs a tick to its end before it receives  *)
(* the next command, so the actions of a tick, one per request, are not    *)
(* interleaved with the others ("phase").                                  *)
(***************************************************************************)
EXTENDS Geometry, Functions

CONSTANTS
    Players, Npcs,      \* entity ids
    Bounds, NavMesh,    \* the zone's flat polygon and its walkable polygons
    Links,              \* sequence of [edge, target_zone]
    Tables,             \* [spawn table -> [point, route, entity_type]]
    Routes, NoRoute,    \* routes the manifest declares; a table without one
    CellSize,           \* grid_cell_size_meters
    MaxStep,            \* max_speed * dt
    CollisionRadius,    \* COLLISION_RADIUS_METERS
    Targets,            \* [entity -> points it asks for]
    SpawnPoints,        \* points players are spawned at and teleported to
    Floor,              \* the points of the level one can stand on, drawn by hand
    SeqCap, QueueCap    \* bounds: requests a player sends; moves queued

Point == Int \X Int \X Int

WorldAssumption ==
    /\ CellSize \in Nat \ {0}
    /\ MaxStep \in Nat \ {0}
    /\ CollisionRadius \in Nat
    /\ Players \cap Npcs = {}
    /\ Targets \in [Players \cup Npcs -> SUBSET Point] /\ SpawnPoints \subseteq Point
    /\ \A t \in DOMAIN Tables : Tables[t].point \in Int \X Int
    /\ SeqCap \in [Players -> Nat]

VARIABLES
    entities,       \* partial function: entity -> kind
    positions,      \* partial function: entity -> point
    cells,          \* partial function: cell key -> nonempty set of entities
    npc_routes,     \* partial function: NPC -> route
    entity_types,   \* partial function: NPC -> declared type
    moves,          \* pending_moves: sequence of [entity, to, seq]
    teleports,      \* pending_teleports: sequence of [entity, to]
    batch,          \* what the running tick has taken and not yet decided
    phase,          \* "idle" between ticks, else what the tick is working on
    \* History: the position of each entity when the tick began, its accepted
    \* moves since, its placement ("walked", or "put" by spawn and teleport),
    \* and of each player the numbers it sent, is owed and was answered last.
    start, steps, placed, sent, owed, answered

index == <<positions, cells>>
roster == <<entities, npc_routes, entity_types>>
queues == <<moves, teleports>>
tick == <<batch, phase, start, steps>>
client == <<sent, owed, answered>>
vars == <<index, roster, queues, tick, placed, client>>

Inhabitant == Players \cup Npcs
Spawned(e) == e \in DOMAIN positions
Put(f, x, v) == [y \in DOMAIN f \cup {x} |-> IF y = x THEN v ELSE f[y]]
Without(f, e) == Restrict(f, DOMAIN f \ {e})

------------------------------------------------------------- (* GridIndex *)

CellKey(p) == <<p[1] \div CellSize, p[2] \div CellSize>>

RemoveFromCell(e, p) ==
    LET k == CellKey(p) IN
    IF k \notin DOMAIN cells THEN cells
    ELSE IF cells[k] \subseteq {e} THEN Without(cells, k)
    ELSE [cells EXCEPT ![k] = @ \ {e}]

Bucket(k, buckets) == IF k \in DOMAIN buckets THEN buckets[k] ELSE {}

Insert(e, p) ==
    LET left == IF Spawned(e) THEN RemoveFromCell(e, positions[e]) ELSE cells
        k    == CellKey(p)
    IN  /\ cells' = Put(left, k, Bucket(k, left) \cup {e})
        /\ positions' = Put(positions, e, p)

Remove(e) ==
    /\ cells' = IF Spawned(e) THEN RemoveFromCell(e, positions[e]) ELSE cells
    /\ positions' = Without(positions, e)

QueryOwnCell(center, radius) ==
    {e \in Bucket(CellKey(center), cells) :
        DistanceSq(center, positions[e]) <= radius * radius}

\* Only the cells the query's bounding box overlaps are visited.
QueryRadius(center, radius) ==
    LET low  == CellKey(<<center[1] - radius, center[2] - radius>>)
        high == CellKey(<<center[1] + radius, center[2] + radius>>)
    IN  {e \in UNION {Bucket(k, cells) : k \in (low[1]..high[1]) \X (low[2]..high[2])} :
            DistanceSq(center, positions[e]) <= radius * radius}

------------------------------------------------------------- (* movement *)

TooFast(from, to) == DistanceSq(from, to) > MaxStep * MaxStep

Blocked(e, to) == QueryRadius(to, CollisionRadius) \ {e} # {}

ValidateFlat(e, from, to) ==
    /\ ~TooFast(from, to)
    /\ PointInPolygon(Flat(to), Bounds)
    /\ ~Blocked(e, to)

ValidateMovement(e, from, to) ==
    /\ ~TooFast(from, to)
    /\ PointInPolygon(Flat(to), Bounds)
    /\ NavMeshContains(NavMesh, to)
    /\ ~Blocked(e, to)

------------------------------------------- (* what the actor calls, between ticks *)

Init ==
    /\ entities = <<>> /\ positions = <<>> /\ cells = <<>>
    /\ npc_routes = <<>> /\ entity_types = <<>>
    /\ moves = <<>> /\ teleports = <<>>
    /\ batch = <<>> /\ phase = "idle"
    /\ start = <<>> /\ steps = [e \in Inhabitant |-> 0] /\ placed = <<>>
    /\ sent = [e \in Players |-> 0]
    /\ owed = [e \in Players |-> {}]
    /\ answered = [e \in Players |-> 0]

\* An entity that is there already is moved: insert takes it out of its cell.
Spawn(e, p) ==
    /\ phase = "idle"
    /\ entities' = Put(entities, e, "player")
    /\ Insert(e, p)
    /\ placed' = Put(placed, e, "put")
    /\ UNCHANGED <<npc_routes, entity_types, queues, tick, client>>

\* spawn_npc_from_table: a route the manifest does not declare is not recorded.
SpawnNpc(e, t) ==
    /\ phase = "idle"
    /\ e \notin DOMAIN entities
    /\ entities' = Put(entities, e, "npc")
    /\ LET point == Tables[t].point IN Insert(e, <<point[1], point[2], 0>>)
    /\ placed' = Put(placed, e, "put")
    /\ npc_routes' = IF Tables[t].route \in Routes
                     THEN Put(npc_routes, e, Tables[t].route) ELSE npc_routes
    /\ entity_types' = Put(entity_types, e, Tables[t].entity_type)
    /\ UNCHANGED <<queues, tick, client>>

Gone(e) ==
    /\ entities' = Without(entities, e)
    /\ npc_routes' = Without(npc_routes, e)
    /\ entity_types' = Without(entity_types, e)
    /\ Remove(e)
    /\ placed' = Without(placed, e)
    /\ owed' = [p \in Players |-> IF p = e THEN {} ELSE owed[p]]

Despawn(e) ==
    /\ phase = "idle"
    /\ Spawned(e)
    /\ Gone(e)
    /\ UNCHANGED <<queues, tick, sent, answered>>

\* A client's request carries its next number; it is not asked whether the
\* entity is in this zone (a session may lag behind a crossing).
RequestMove(e, to) ==
    /\ phase = "idle"
    /\ Len(moves) < QueueCap
    /\ sent[e] < SeqCap[e]
    /\ sent' = [sent EXCEPT ![e] = @ + 1]
    /\ moves' = Append(moves, [entity |-> e, to |-> to, seq |-> sent[e] + 1])
    /\ owed' = IF Spawned(e) THEN [owed EXCEPT ![e] = @ \cup {sent[e] + 1}] ELSE owed
    /\ UNCHANGED <<index, roster, teleports, tick, placed, answered>>

\* move-entity: no number to answer to.
PluginMove(e, to) ==
    /\ phase = "idle"
    /\ Len(moves) < QueueCap
    /\ moves' = Append(moves, [entity |-> e, to |-> to, seq |-> 0])
    /\ UNCHANGED <<index, roster, teleports, tick, placed, client>>

RequestTeleport(e, to) ==
    /\ phase = "idle"
    /\ teleports = <<>>
    /\ teleports' = Append(teleports, [entity |-> e, to |-> to])
    /\ UNCHANGED <<index, roster, moves, tick, placed, client>>

---------------------------------------------------------------- (* a tick *)

BeginTickAgain ==
    /\ phase = "idle"
    /\ phase' = "moves" /\ batch' = moves /\ moves' = moves
    /\ start' = positions
    /\ UNCHANGED <<index, roster, teleports, steps, placed, client>>

BeginTick ==
    /\ phase = "idle"
    /\ phase' = "moves" /\ batch' = moves /\ moves' = <<>>
    /\ start' = positions
    /\ UNCHANGED <<index, roster, teleports, steps, placed, client>>

\* The request at the head of the batch.
Deciding(r) == batch # <<>> /\ r = Head(batch) /\ batch' = Tail(batch)

AnswerTo(r) ==
    IF r.seq = 0 THEN UNCHANGED <<owed, answered>>
    ELSE /\ owed' = [owed EXCEPT ![r.entity] = @ \ {r.seq}]
         /\ answered' = [answered EXCEPT ![r.entity] = r.seq]

\* Despawned between the request and the tick: dropped without an outcome.
DropMove(r) ==
    /\ phase = "moves" /\ Deciding(r)
    /\ ~Spawned(r.entity)
    /\ UNCHANGED <<index, roster, queues, phase, start, steps, placed, client>>

Crossing(r) ==
    /\ entities[r.entity] = "player"
    /\ CrossedLinks(Links, positions[r.entity], r.to) # {}

\* ZoneTransition: the zone despawns the player itself; no bounds are tested.
Cross(r) ==
    /\ phase = "moves" /\ Deciding(r)
    /\ Spawned(r.entity)
    /\ Crossing(r)
    /\ ~TooFast(positions[r.entity], r.to)
    /\ Gone(r.entity)
    /\ UNCHANGED <<queues, phase, start, steps, sent, answered>>

Accept(r) ==
    /\ phase = "moves" /\ Deciding(r)
    /\ Spawned(r.entity)
    /\ ~Crossing(r)
    /\ ValidateMovement(r.entity, positions[r.entity], r.to)
    /\ Insert(r.entity, r.to)
    /\ placed' = [placed EXCEPT ![r.entity] = "walked"]
    /\ steps' = [steps EXCEPT ![r.entity] = @ + 1]
    /\ AnswerTo(r)
    /\ UNCHANGED <<roster, queues, phase, start, sent>>

Reject(r) ==
    /\ phase = "moves" /\ Deciding(r)
    /\ Spawned(r.entity)
    /\ IF Crossing(r)
       THEN TooFast(positions[r.entity], r.to)
       ELSE ~ValidateMovement(r.entity, positions[r.entity], r.to)
    /\ AnswerTo(r)
    /\ UNCHANGED <<index, roster, queues, phase, start, steps, placed, sent>>

BeginTeleports ==
    /\ phase = "moves" /\ batch = <<>>
    /\ phase' = "teleports" /\ batch' = teleports /\ teleports' = <<>>
    /\ UNCHANGED <<index, roster, moves, start, steps, placed, client>>

Teleport(r) ==
    /\ phase = "teleports" /\ Deciding(r)
    /\ IF Spawned(r.entity)
       THEN Insert(r.entity, r.to) /\ placed' = [placed EXCEPT ![r.entity] = "put"]
       ELSE UNCHANGED <<index, placed>>
    /\ UNCHANGED <<roster, queues, phase, start, steps, client>>

EndTick ==
    /\ phase = "teleports" /\ batch = <<>>
    /\ phase' = "idle"
    /\ start' = <<>> /\ steps' = [e \in Inhabitant |-> 0]
    /\ UNCHANGED <<index, roster, queues, batch, placed, client>>

Decide == \E r \in {Head(batch)} :
    DropMove(r) \/ Cross(r) \/ Accept(r) \/ Reject(r) \/ Teleport(r)

Next ==
    \/ \E e \in Players :
        \/ \E p \in SpawnPoints : Spawn(e, p)
        \/ Despawn(e)
        \/ \E to \in Targets[e] : RequestMove(e, to)
    \/ \E e \in Npcs :
        \/ \E t \in DOMAIN Tables : SpawnNpc(e, t)
        \/ \E to \in Targets[e] : PluginMove(e, to)
    \/ \E e \in Npcs, to \in SpawnPoints : RequestTeleport(e, to)
    \/ BeginTick
    \/ batch # <<>> /\ Decide
    \/ BeginTeleports
    \/ EndTick

Spec == Init /\ [][Next]_vars

-------------------------------------------------------------- (* properties *)

\* The index and the roster agree: every entity of the zone is in the bucket of
\* its position and in no other, no bucket is empty, and only NPCs of the zone
\* have a route and a type (zone.rs keeps five maps, spatial.rs two of them,
\* through re-insertion, despawn and crossing).
MapsAgree ==
    /\ DOMAIN entities = DOMAIN positions
    /\ \A k \in DOMAIN cells :
        cells[k] = {e \in DOMAIN positions : CellKey(positions[e]) = k} /\ cells[k] # {}
    /\ \A e \in DOMAIN positions : CellKey(positions[e]) \in DOMAIN cells
    /\ DOMAIN npc_routes \subseteq DOMAIN entity_types
    /\ DOMAIN entity_types = {e \in DOMAIN entities : entities[e] = "npc"}

\* Moving never brings two entities within the collision radius that were not
\* within it: each move of a batch is tested against where the ones before it
\* have led, in every cell the radius reaches.
Near(pos, e, f) == DistanceSq(pos[e], pos[f]) <= CollisionRadius * CollisionRadius
KeepsApart ==
    [][phase = "moves" =>
        \A e, f \in DOMAIN positions' :
            e # f /\ Near(positions', e, f) => Near(positions, e, f)]_vars

\* What has walked stands on the level's floor: bounds, navmesh and heights
\* together admit no wall, no gap and no point between two floors.
WalkersOnFloor ==
    \A e \in DOMAIN positions : placed[e] = "walked" => positions[e] \in Floor

\* Every request of a player who is still in the zone is answered, once, in the
\* order it was sent: what is owed is still queued, and what is queued is later
\* than what was answered last.
Queue == (IF phase = "moves" THEN batch ELSE <<>>) \o moves
RequestsOf(e) == {i \in DOMAIN Queue : Queue[i].entity = e}
Answered ==
    \A e \in Players :
        /\ owed[e] \subseteq {Queue[i].seq : i \in RequestsOf(e)}
        /\ \A i \in RequestsOf(e) :
            /\ Queue[i].seq > answered[e]
            /\ \A j \in RequestsOf(e) : j < i => Queue[j].seq < Queue[i].seq

\* In one tick a player gets no further than its accepted moves carry it, each
\* at most what max speed allows in dt.
Displaced(e) == e \in DOMAIN start /\ e \in DOMAIN positions /\ placed[e] = "walked"
TravelBounded ==
    \A e \in Players :
        phase # "idle" /\ Displaced(e) =>
            DistanceSq(start[e], positions[e]) <= (steps[e] * MaxStep) * (steps[e] * MaxStep)

\* What the comment on MovementRejection::TooFast and movement.rs promise of a
\* tick: nothing moves further than is reachable in dt.  Several moves of one
\* entity in one batch add up, so it does not hold (World_speed.cfg).
WithinReach ==
    \A e \in Players :
        phase # "idle" /\ Displaced(e) => DistanceSq(start[e], positions[e]) <= MaxStep * MaxStep

=============================================================================
