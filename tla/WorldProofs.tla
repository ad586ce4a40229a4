---------------------------- MODULE WorldProofs ----------------------------
(***************************************************************************)
(* What is proved of a zone, for any geometry, entities and bounds: the    *)
(* grid index follows the roster, moving brings nobody within the          *)
(* collision radius of another, each request is answered once and in       *)
(* order, and a tick carries an entity no further than its accepted moves. *)
(*                                                                         *)
(* The index makes the collision test complete: whoever is within the      *)
(* radius has its cell among those the query visits (QueryFinds).  The     *)
(* answers follow from the numbers of the requests: in the batch and then  *)
(* in the queue they increase, above what was answered, up to what was     *)
(* sent (Tidy).  The displacement is bounded by the triangle inequality,   *)
(* move by move (StepsAddUp).                                              *)
(***************************************************************************)
EXTENDS Ticks, Integers, Sequences, SequenceTheorems, TLAPS

\* What is queued: a move with its number, and a teleport.
Request == [entity : W!Inhabitant, to : W!Point, seq : Nat]
Placement == [entity : W!Inhabitant, to : W!Point]

\* What each variable of a zone holds; an entity's kind is that of its id.
Types ==
    /\ DOMAIN positions \subseteq W!Inhabitant
    /\ positions \in [DOMAIN positions -> W!Point]
    /\ entities = [e \in DOMAIN positions |-> IF e \in Walkers THEN "player" ELSE "npc"]
    /\ requests \in Seq(Request) /\ teleports \in Seq(Placement)
    /\ phase \in {"idle", "moves", "teleports"}
    /\ phase = "idle" => batch = <<>>
    /\ phase = "moves" => batch \in Seq(Request)
    /\ phase = "teleports" => batch \in Seq(Placement)
    /\ asked \in [Walkers -> Nat] /\ answered \in [Walkers -> Nat]
    /\ owed \in [Walkers -> SUBSET Nat]

\* The requests that wait: those of the running tick, then those of the next.
Waiting == IF phase = "moves" THEN batch ELSE <<>>

\* Division by a positive number, rounded down, keeps the order.
LEMMA DivideMonotone ==
    ASSUME NEW a \in Int, NEW b \in Int, NEW d \in Nat \ {0}, a <= b
    PROVE  a \div d <= b \div d
<1>1. PICK q \in Int : q = a \div d /\ d * q <= a /\ a < d * (q + 1)
  OBVIOUS
<1>2. PICK t \in Int : t = b \div d /\ d * t <= b /\ b < d * (t + 1)
  OBVIOUS
<1>3. CASE q >= t + 1
  <2>1. d * q >= d * (t + 1)
    BY <1>3
  <2> QED
    BY <1>1, <1>2, <2>1
<1> QED
  BY <1>1, <1>2, <1>3

\* A square bounds its root.
LEMMA SquareBounds ==
    ASSUME NEW x \in Int, NEW r \in Nat, x * x <= r * r
    PROVE  -r <= x /\ x <= r
<1>1. CASE x > r
  BY <1>1
<1>2. CASE x < -r
  BY <1>2
<1> QED
  BY <1>1, <1>2

\* A square is a natural number.
LEMMA SquarePositive == \A x \in Int : x * x \in Nat
OBVIOUS

-----------------------------------------------------------------------------
\* The part of MapsAgree that is the index's own.
IndexAgrees ==
    /\ \A k \in DOMAIN cells :
        cells[k] = {e \in DOMAIN positions : W!CellKey(positions[e]) = k} /\ cells[k] # {}
    /\ \A e \in DOMAIN positions : W!CellKey(positions[e]) \in DOMAIN cells

\* Removing e from the bucket of its cell leaves the buckets of the others.
LEMMA RemovalAgrees ==
    ASSUME NEW e \in DOMAIN positions, IndexAgrees
    PROVE  LET left == W!RemoveFromCell(e, positions[e]) IN
           /\ \A k \in DOMAIN left :
                left[k] = {f \in DOMAIN positions \ {e} : W!CellKey(positions[f]) = k}
                /\ left[k] # {}
           /\ \A f \in DOMAIN positions \ {e} : W!CellKey(positions[f]) \in DOMAIN left
<1> DEFINE key == W!CellKey(positions[e])
           left == W!RemoveFromCell(e, positions[e])
<1> HIDE DEF key
<1>1. /\ key \in DOMAIN cells
      /\ cells[key] = {f \in DOMAIN positions : W!CellKey(positions[f]) = key}
  BY DEF IndexAgrees, key
<1>2. CASE cells[key] \subseteq {e}
  <2>1. left = [k \in DOMAIN cells \ {key} |-> cells[k]]
    BY <1>1, <1>2 DEF W!RemoveFromCell, W!Without, W!Restrict, key
  <2> HIDE DEF left
  <2>2. \A f \in DOMAIN positions \ {e} : W!CellKey(positions[f]) # key
    BY <1>1, <1>2
  <2>3. \A k \in DOMAIN left : e \notin cells[k]
    BY <2>1 DEF IndexAgrees, key
  <2> QED
    BY <2>1, <2>2, <2>3 DEF IndexAgrees, left
<1>3. CASE ~(cells[key] \subseteq {e})
  <2>1. left = [cells EXCEPT ![key] = @ \ {e}]
    BY <1>1, <1>3 DEF W!RemoveFromCell, key
  <2> HIDE DEF left
  <2>2. \A k \in DOMAIN cells \ {key} : e \notin cells[k]
    BY DEF IndexAgrees, key
  <2> QED
    BY <1>1, <1>3, <2>1, <2>2 DEF IndexAgrees, left
<1> QED
  BY <1>2, <1>3

\* Taking an entity out of the index leaves it in agreement with itself.
LEMMA RemoveAgrees ==
    ASSUME NEW e, IndexAgrees, W!Remove(e)
    PROVE  IndexAgrees'
<1>1. positions' = [f \in DOMAIN positions \ {e} |-> positions[f]]
  BY DEF W!Remove, W!Without, W!Restrict
<1>2. \A f \in DOMAIN positions \ {e} : W!CellKey(positions'[f]) = W!CellKey(positions[f])
  BY <1>1 DEF W!CellKey
<1>3. CASE W!Spawned(e)
  <2>1. cells' = W!RemoveFromCell(e, positions[e])
    BY <1>3 DEF W!Remove
  <2> QED
    BY <1>1, <1>2, <1>3, <2>1, RemovalAgrees DEF IndexAgrees, W!Spawned, W!CellKey
<1>4. CASE ~W!Spawned(e)
  <2>1. cells' = cells /\ DOMAIN positions \ {e} = DOMAIN positions
    BY <1>4 DEF W!Remove, W!Spawned
  <2> QED
    BY <1>1, <1>2, <2>1 DEF IndexAgrees, W!CellKey
<1> QED
  BY <1>3, <1>4

\* So does putting one in, whether or not it was there already.
LEMMA InsertAgrees ==
    ASSUME NEW e, NEW p, IndexAgrees, W!Insert(e, p)
    PROVE  IndexAgrees'
<1> DEFINE left == IF W!Spawned(e) THEN W!RemoveFromCell(e, positions[e]) ELSE cells
           key == W!CellKey(p)
<1> HIDE DEF key
<1>1. /\ \A k \in DOMAIN left :
            left[k] = {f \in DOMAIN positions \ {e} : W!CellKey(positions[f]) = k} /\ left[k] # {}
      /\ \A f \in DOMAIN positions \ {e} : W!CellKey(positions[f]) \in DOMAIN left
  BY RemovalAgrees DEF IndexAgrees, W!Spawned
<1> HIDE DEF left
<1>2. cells' = [k \in DOMAIN left \cup {key} |->
                   IF k = key THEN W!Bucket(key, left) \cup {e} ELSE left[k]]
  BY DEF W!Insert, W!Put, left, key
<1>3. positions' = [f \in DOMAIN positions \cup {e} |-> IF f = e THEN p ELSE positions[f]]
  BY DEF W!Insert, W!Put
<1>4. W!Bucket(key, left) = {f \in DOMAIN positions \ {e} : W!CellKey(positions[f]) = key}
  BY <1>1 DEF W!Bucket
<1>5. /\ W!CellKey(positions'[e]) = key
      /\ \A f \in DOMAIN positions \ {e} : W!CellKey(positions'[f]) = W!CellKey(positions[f])
  BY <1>3 DEF W!CellKey, key
<1>6. DOMAIN positions' = DOMAIN positions \cup {e}
  BY <1>3
<1>7. ASSUME NEW k \in DOMAIN cells'
      PROVE  cells'[k] = {f \in DOMAIN positions' : W!CellKey(positions'[f]) = k} /\ cells'[k] # {}
  <2>1. CASE k = key
    <3>1. cells'[k] = {f \in DOMAIN positions \ {e} : W!CellKey(positions[f]) = key} \cup {e}
      BY <1>2, <1>4, <2>1
    <3> QED
      BY <1>5, <1>6, <2>1, <3>1
  <2>2. CASE k # key
    <3>1. k \in DOMAIN left /\ cells'[k] = left[k]
      BY <1>2, <1>7, <2>2
    <3> QED
      BY <1>1, <1>5, <1>6, <2>2, <3>1
  <2> QED
    BY <2>1, <2>2
<1>8. ASSUME NEW f \in DOMAIN positions'
      PROVE  W!CellKey(positions'[f]) \in DOMAIN cells'
  BY <1>1, <1>2, <1>5, <1>6
<1> QED
  BY <1>7, <1>8 DEF IndexAgrees, W!CellKey

\* What a partial function is once x has the value v.
LEMMA PutTypes ==
    ASSUME NEW f, NEW S, NEW V, f \in [DOMAIN f -> V], DOMAIN f \subseteq S,
           NEW x \in S, NEW v \in V
    PROVE  /\ W!Put(f, x, v) \in [DOMAIN W!Put(f, x, v) -> V]
           /\ DOMAIN W!Put(f, x, v) = DOMAIN f \cup {x}
           /\ DOMAIN W!Put(f, x, v) \subseteq S
           /\ W!Put(f, x, v)[x] = v
           /\ \A y \in DOMAIN f \ {x} : W!Put(f, x, v)[y] = f[y]
BY DEF W!Put

\* A sequence keeps its type when an element of that type joins.
LEMMA AppendTypes ==
    ASSUME NEW S, NEW q \in Seq(S), NEW x \in S
    PROVE  Append(q, x) \in Seq(S)
OBVIOUS

\* The entity at p is there now, with its kind; the others are as they were.
LEMMA InsertTypes ==
    ASSUME Types, NEW e \in W!Inhabitant, NEW p \in W!Point, W!Insert(e, p)
    PROVE  /\ DOMAIN positions' = DOMAIN positions \cup {e}
           /\ DOMAIN positions' \subseteq W!Inhabitant
           /\ positions' \in [DOMAIN positions' -> W!Point]
<1>1. positions' = W!Put(positions, e, p)
  BY DEF W!Insert
<1>2. positions \in [DOMAIN positions -> W!Point] /\ DOMAIN positions \subseteq W!Inhabitant
  BY DEF Types
<1> HIDE DEF Types, W!Inhabitant, W!Point
<1> QED
  BY ONLY <1>1, <1>2, PutTypes, e \in W!Inhabitant, p \in W!Point

\* The empty zone has the types.
LEMMA TypesInit == W!Init => Types
BY DEF W!Init, Types

\* What an entity that leaves takes with it.
LEMMA GoneTypes ==
    ASSUME Types, NEW e, W!Gone(e)
    PROVE  /\ DOMAIN positions' \subseteq W!Inhabitant
           /\ positions' \in [DOMAIN positions' -> W!Point]
           /\ entities' = [f \in DOMAIN positions' |-> IF f \in Walkers THEN "player" ELSE "npc"]
           /\ owed' \in [Walkers -> SUBSET Nat]
BY DEF Types, W!Gone, W!Remove, W!Without, W!Restrict

\* The request in hand is one that was queued.
LEMMA DecidingTypes ==
    ASSUME NEW S, batch \in Seq(S), NEW r, W!Deciding(r)
    PROVE  r \in S /\ batch' \in Seq(S)
BY DEF W!Deciding

\* Every step keeps the types.
LEMMA TypesNext == Types /\ [W!Next]_W!vars => Types'
<1> SUFFICES ASSUME Types, [W!Next]_W!vars PROVE Types'
  OBVIOUS
<1>a. /\ Walkers \cap Npcs = {}
      /\ Targets \in [Walkers \cup Npcs -> SUBSET W!Point] /\ SpawnPoints \subseteq W!Point
      /\ \A t \in DOMAIN Tables : Tables[t].point \in Int \X Int
  BY WorldIsDeclared DEF W!WorldAssumption, W!Inhabitant
<1>1. ASSUME NEW e \in Walkers, NEW p \in SpawnPoints, W!Spawn(e, p) PROVE Types'
  <2>1. /\ DOMAIN positions' = DOMAIN positions \cup {e}
        /\ DOMAIN positions' \subseteq W!Inhabitant
        /\ positions' \in [DOMAIN positions' -> W!Point]
    BY <1>1, <1>a, InsertTypes DEF W!Spawn, W!Inhabitant
  <2>2. entities' = [f \in DOMAIN positions' |-> IF f \in Walkers THEN "player" ELSE "npc"]
    BY <1>1, <2>1 DEF W!Spawn, W!Put, Types
  <2> QED
    BY <1>1, <2>1, <2>2 DEF W!Spawn, Types, W!queues, W!tick, W!client
<1>2. ASSUME NEW e \in Npcs, NEW t \in DOMAIN Tables, W!SpawnNpc(e, t) PROVE Types'
  <2>1. /\ DOMAIN positions' = DOMAIN positions \cup {e}
        /\ DOMAIN positions' \subseteq W!Inhabitant
        /\ positions' \in [DOMAIN positions' -> W!Point]
    <3>1. /\ e \in W!Inhabitant
          /\ <<Tables[t].point[1], Tables[t].point[2], 0>> \in W!Point
          /\ W!Insert(e, <<Tables[t].point[1], Tables[t].point[2], 0>>)
      BY <1>2, <1>a DEF W!SpawnNpc, W!Inhabitant, W!Point
    <3> QED
      BY <3>1, InsertTypes
  <2>2. entities' = [f \in DOMAIN positions' |-> IF f \in Walkers THEN "player" ELSE "npc"]
    BY <1>2, <1>a, <2>1 DEF W!SpawnNpc, W!Put, Types
  <2> QED
    BY <1>2, <2>1, <2>2 DEF W!SpawnNpc, Types, W!queues, W!tick, W!client
<1>3. ASSUME NEW e \in Walkers, W!Despawn(e) PROVE Types'
  BY <1>3, GoneTypes DEF W!Despawn, Types, W!queues, W!tick
<1>4. ASSUME NEW e \in Walkers, NEW to \in Targets[e], W!RequestMove(e, to) PROVE Types'
  <2>1. [entity |-> e, to |-> to, seq |-> asked[e] + 1] \in Request
    BY <1>a DEF Request, W!Inhabitant, Types
  <2>2. requests' \in Seq(Request)
    BY <1>4, <2>1, AppendTypes DEF W!RequestMove, Types
  <2>3. owed' \in [Walkers -> SUBSET Nat] /\ asked' \in [Walkers -> Nat]
    BY <1>4 DEF W!RequestMove, Types
  <2> QED
    BY <1>4, <2>2, <2>3 DEF W!RequestMove, Types, W!index, W!roster, W!tick
<1>5. ASSUME NEW e \in Npcs, NEW to \in Targets[e], W!PluginMove(e, to) PROVE Types'
  <2>1. [entity |-> e, to |-> to, seq |-> 0] \in Request
    BY <1>a DEF Request, W!Inhabitant
  <2>2. requests' \in Seq(Request)
    BY <1>5, <2>1, AppendTypes DEF W!PluginMove, Types
  <2> QED
    BY <1>5, <2>2 DEF W!PluginMove, Types, W!index, W!roster, W!tick, W!client
<1>6. ASSUME NEW e \in Npcs, NEW to \in SpawnPoints, W!RequestTeleport(e, to) PROVE Types'
  <2>1. [entity |-> e, to |-> to] \in Placement
    BY <1>a DEF Placement, W!Inhabitant
  <2>2. teleports' \in Seq(Placement)
    BY <1>6, <2>1, AppendTypes DEF W!RequestTeleport, Types
  <2> QED
    BY <1>6, <2>2 DEF W!RequestTeleport, Types, W!index, W!roster, W!tick, W!client
<1>7. CASE W!BeginTick
  BY <1>7 DEF W!BeginTick, Types, W!index, W!roster, W!client
<1>8. ASSUME NEW r, W!DropMove(r) PROVE Types'
  BY <1>8, DecidingTypes DEF W!DropMove, Types, W!index, W!roster, W!queues, W!client
<1>9. ASSUME NEW r, W!Cross(r) PROVE Types'
  BY <1>9, DecidingTypes, GoneTypes DEF W!Cross, Types, W!queues
<1>10. ASSUME NEW r, Types, W!AnswerTo(r), r \in Request
       PROVE  owed' \in [Walkers -> SUBSET Nat] /\ answered' \in [Walkers -> Nat]
  <2>1. CASE r.seq = 0
    BY <1>10, <2>1 DEF Types, W!AnswerTo
  <2>2. CASE r.seq # 0
    <3>1. /\ owed' = [owed EXCEPT ![r.entity] = owed[r.entity] \ {r.seq}]
          /\ answered' = [answered EXCEPT ![r.entity] = r.seq]
          /\ r.seq \in Nat
      BY <1>10, <2>2 DEF W!AnswerTo, Request
    <3> QED
      BY <3>1 DEF Types
  <2> QED
    BY <2>1, <2>2
<1>11. ASSUME NEW r, W!Accept(r) PROVE Types'
  <2>1. r \in Request /\ batch' \in Seq(Request)
    BY <1>11, DecidingTypes DEF W!Accept, Types
  <2>2. r.entity \in DOMAIN positions /\ r.to \in W!Point
    BY <1>11, <2>1 DEF W!Accept, W!Spawned, Request
  <2>3. /\ DOMAIN positions' = DOMAIN positions
        /\ positions' \in [DOMAIN positions' -> W!Point]
    <3>1. r.entity \in W!Inhabitant /\ W!Insert(r.entity, r.to)
      BY <1>11, <2>2 DEF W!Accept, Types
    <3> QED
      BY <2>2, <3>1, InsertTypes
  <2>4. owed' \in [Walkers -> SUBSET Nat] /\ answered' \in [Walkers -> Nat]
    BY <1>10, <1>11, <2>1 DEF W!Accept
  <2> QED
    BY <1>11, <2>1, <2>3, <2>4 DEF W!Accept, Types, W!roster, W!queues
<1>12. ASSUME NEW r, W!Reject(r) PROVE Types'
  <2>1. r \in Request /\ batch' \in Seq(Request)
    BY <1>12, DecidingTypes DEF W!Reject, Types
  <2>2. owed' \in [Walkers -> SUBSET Nat] /\ answered' \in [Walkers -> Nat]
    BY <1>10, <1>12, <2>1 DEF W!Reject
  <2> QED
    BY <1>12, <2>1, <2>2 DEF W!Reject, Types, W!index, W!roster, W!queues
<1>13. CASE W!BeginTeleports
  BY <1>13 DEF W!BeginTeleports, Types, W!index, W!roster, W!client
<1>14. ASSUME NEW r, W!Teleport(r) PROVE Types'
  <2>1. r \in Placement /\ batch' \in Seq(Placement)
    BY <1>14, DecidingTypes DEF W!Teleport, Types
  <2>2. /\ DOMAIN positions' = DOMAIN positions
        /\ positions' \in [DOMAIN positions' -> W!Point]
    <3>1. CASE W!Spawned(r.entity)
      <4>1. r.entity \in DOMAIN positions /\ r.to \in W!Point
        BY <2>1, <3>1 DEF Placement, W!Spawned
      <4> QED
        <5>1. r.entity \in W!Inhabitant /\ W!Insert(r.entity, r.to)
          BY <1>14, <3>1, <4>1 DEF W!Teleport, Types
        <5> QED
          BY <4>1, <5>1, InsertTypes
    <3>2. CASE ~W!Spawned(r.entity)
      BY <1>14, <3>2 DEF W!Teleport, Types, W!index
    <3> QED
      BY <3>1, <3>2
  <2> QED
    BY <1>14, <2>1, <2>2 DEF W!Teleport, Types, W!roster, W!queues, W!client
<1>15. CASE W!EndTick
  BY <1>15 DEF W!EndTick, Types, W!index, W!roster, W!queues, W!client
<1>16. CASE UNCHANGED W!vars
  BY <1>16 DEF W!vars, W!index, W!roster, W!queues, W!tick, W!client, Types
<1> QED
  BY <1>1, <1>2, <1>3, <1>4, <1>5, <1>6, <1>7, <1>8, <1>9, <1>11, <1>12, <1>13,
     <1>14, <1>15, <1>16 DEF W!Next, W!Decide

-----------------------------------------------------------------------------
\* The empty maps agree.
LEMMA MapsAgreeInit == W!Init => W!MapsAgree
BY DEF W!Init, W!MapsAgree

\* An entity leaves all the maps together.
LEMMA GoneAgrees ==
    ASSUME W!MapsAgree, NEW e, W!Gone(e)
    PROVE  W!MapsAgree'
<1>1. IndexAgrees'
  BY RemoveAgrees DEF W!Gone, W!MapsAgree, IndexAgrees
<1>2. /\ DOMAIN positions' = DOMAIN positions \ {e}
      /\ entities' = [f \in DOMAIN entities \ {e} |-> entities[f]]
      /\ DOMAIN npc_routes' = DOMAIN npc_routes \ {e}
      /\ DOMAIN entity_types' = DOMAIN entity_types \ {e}
  BY DEF W!Gone, W!Remove, W!Without, W!Restrict
<1> QED
  BY <1>1, <1>2 DEF W!MapsAgree, IndexAgrees

\* An entity of the zone may be put elsewhere: the roster stays.
LEMMA InsertAlone ==
    ASSUME W!MapsAgree, UNCHANGED W!roster, NEW e \in DOMAIN positions, NEW p, W!Insert(e, p)
    PROVE  W!MapsAgree'
<1>1. IndexAgrees'
  BY InsertAgrees DEF W!MapsAgree, IndexAgrees
<1>2. DOMAIN positions' = DOMAIN positions
  BY DEF W!Insert, W!Put
<1> QED
  BY <1>1, <1>2 DEF W!MapsAgree, IndexAgrees, W!roster

\* What touches neither index nor roster leaves them in agreement.
LEMMA StillAgree ==
    ASSUME W!MapsAgree, UNCHANGED <<W!index, W!roster>> PROVE W!MapsAgree'
BY DEF W!MapsAgree, W!index, W!roster, W!CellKey

\* Every step keeps the maps in agreement.
LEMMA MapsAgreeNext == Types /\ W!MapsAgree /\ [W!Next]_W!vars => W!MapsAgree'
<1> SUFFICES ASSUME Types, W!MapsAgree, [W!Next]_W!vars PROVE W!MapsAgree'
  OBVIOUS
<1>1. ASSUME NEW e \in Walkers, NEW p \in SpawnPoints, W!Spawn(e, p) PROVE W!MapsAgree'
  <2>1. IndexAgrees'
    BY <1>1, InsertAgrees DEF W!Spawn, W!MapsAgree, IndexAgrees
  <2>2. /\ DOMAIN positions' = DOMAIN positions \cup {e}
        /\ entities' = [f \in DOMAIN entities \cup {e} |->
                            IF f = e THEN "player" ELSE entities[f]]
        /\ npc_routes' = npc_routes /\ entity_types' = entity_types
    BY <1>1 DEF W!Spawn, W!Insert, W!Put
  <2>3. e \in DOMAIN entities => entities[e] # "npc"
    BY DEF Types
  <2> QED
    BY <2>1, <2>2, <2>3 DEF W!MapsAgree, IndexAgrees
<1>2. ASSUME NEW e \in Npcs, NEW t \in DOMAIN Tables, W!SpawnNpc(e, t) PROVE W!MapsAgree'
  <2>1. IndexAgrees'
    BY <1>2, InsertAgrees DEF W!SpawnNpc, W!MapsAgree, IndexAgrees
  <2>2. /\ DOMAIN positions' = DOMAIN positions \cup {e}
        /\ entities' = [f \in DOMAIN entities \cup {e} |->
                            IF f = e THEN "npc" ELSE entities[f]]
        /\ DOMAIN npc_routes' \subseteq DOMAIN npc_routes \cup {e}
        /\ DOMAIN entity_types' = DOMAIN entity_types \cup {e}
    BY <1>2 DEF W!SpawnNpc, W!Insert, W!Put
  <2> QED
    BY <2>1, <2>2 DEF W!MapsAgree, IndexAgrees
<1>3. ASSUME NEW e, W!Despawn(e) PROVE W!MapsAgree'
  BY <1>3, GoneAgrees DEF W!Despawn
<1>4. ASSUME NEW r, W!Cross(r) PROVE W!MapsAgree'
  BY <1>4, GoneAgrees DEF W!Cross
<1>5. ASSUME NEW r, W!Accept(r) PROVE W!MapsAgree'
  BY <1>5, InsertAlone DEF W!Accept, W!Spawned
<1>6. ASSUME NEW r, W!Teleport(r) PROVE W!MapsAgree'
  BY <1>6, InsertAlone, StillAgree DEF W!Teleport, W!Spawned
<1>7. ASSUME NEW e, NEW to, W!RequestMove(e, to) \/ W!PluginMove(e, to) \/ W!RequestTeleport(e, to)
      PROVE  W!MapsAgree'
  BY <1>7, StillAgree DEF W!RequestMove, W!PluginMove, W!RequestTeleport
<1>8. ASSUME NEW r, W!DropMove(r) \/ W!Reject(r) PROVE W!MapsAgree'
  BY <1>8, StillAgree DEF W!DropMove, W!Reject
<1>9. ASSUME W!BeginTick \/ W!BeginTeleports \/ W!EndTick \/ UNCHANGED W!vars PROVE W!MapsAgree'
  BY <1>9, StillAgree DEF W!BeginTick, W!BeginTeleports, W!EndTick, W!vars
<1> QED
  BY <1>1, <1>2, <1>3, <1>4, <1>5, <1>6, <1>7, <1>8, <1>9 DEF W!Next, W!Decide

-----------------------------------------------------------------------------
\* Distances are symmetric and no less than their parts.
LEMMA DistanceTypes ==
    ASSUME NEW a \in W!Point, NEW b \in W!Point
    PROVE  /\ a[1] \in Int /\ a[2] \in Int /\ a[3] \in Int
           /\ W!DistanceSq(a, b) = W!DistanceSq(b, a)
           /\ W!DistanceSq(a, b) \in Nat
           /\ (a[1] - b[1]) * (a[1] - b[1]) <= W!DistanceSq(a, b)
           /\ (a[2] - b[2]) * (a[2] - b[2]) <= W!DistanceSq(a, b)
<1> DEFINE x == a[1] - b[1]
           y == a[2] - b[2]
           z == a[3] - b[3]
<1>1. /\ a[1] \in Int /\ a[2] \in Int /\ a[3] \in Int
      /\ b[1] \in Int /\ b[2] \in Int /\ b[3] \in Int
  BY DEF W!Point
<1>2. x \in Int /\ y \in Int /\ z \in Int
  BY <1>1
<1>3. W!DistanceSq(a, b) = x * x + y * y + z * z
  BY DEF W!DistanceSq
<1>4. b[1] - a[1] = -x /\ b[2] - a[2] = -y /\ b[3] - a[3] = -z
  BY <1>1
<1>5. W!DistanceSq(b, a) = (-x) * (-x) + (-y) * (-y) + (-z) * (-z)
  BY <1>4 DEF W!DistanceSq
<1> HIDE DEF x, y, z
<1>6. x * x \in Nat /\ y * y \in Nat /\ z * z \in Nat
  BY <1>2, SquarePositive
<1>7. (-x) * (-x) = x * x /\ (-y) * (-y) = y * y /\ (-z) * (-z) = z * z
  BY <1>2
<1>8. x * x <= W!DistanceSq(a, b) /\ y * y <= W!DistanceSq(a, b) /\ W!DistanceSq(a, b) \in Nat
  BY <1>2, <1>3, <1>6
<1> QED
  BY <1>1, <1>3, <1>5, <1>7, <1>8 DEF x, y

\* Whoever is within the radius of a point is found by a query around it: the
\* cell of its position is one of those the radius reaches.
LEMMA QueryFinds ==
    ASSUME Types, W!MapsAgree, NEW center \in W!Point, NEW radius \in Nat,
           NEW f \in DOMAIN positions,
           W!DistanceSq(center, positions[f]) <= radius * radius
    PROVE  f \in W!QueryRadius(center, radius)
<1> DEFINE p == positions[f]
<1>1. p \in W!Point /\ CellSize \in Nat \ {0}
  BY WorldIsDeclared DEF Types, W!WorldAssumption
<1> HIDE DEF p
<1>2. ASSUME NEW c \in Int, NEW q \in Int, (c - q) * (c - q) <= radius * radius
      PROVE  /\ (c - radius) \div CellSize <= q \div CellSize
             /\ q \div CellSize <= (c + radius) \div CellSize
  <2>1. c - radius <= q /\ q <= c + radius
    <3>1. c - q \in Int
      OBVIOUS
    <3>2. -radius <= c - q /\ c - q <= radius
      BY <1>2, <3>1, SquareBounds
    <3> QED
      BY <3>2
  <2>2. c - radius \in Int /\ c + radius \in Int
    OBVIOUS
  <2> QED
    BY <1>1, <2>1, <2>2, DivideMonotone
<1>3. /\ center[1] \in Int /\ center[2] \in Int /\ p[1] \in Int /\ p[2] \in Int
      /\ (center[1] - p[1]) * (center[1] - p[1]) <= radius * radius
      /\ (center[2] - p[2]) * (center[2] - p[2]) <= radius * radius
  <2>1. W!DistanceSq(center, p) <= radius * radius
    BY DEF p
  <2>2. /\ center[1] \in Int /\ center[2] \in Int /\ p[1] \in Int /\ p[2] \in Int
        /\ W!DistanceSq(center, p) \in Nat
        /\ (center[1] - p[1]) * (center[1] - p[1]) <= W!DistanceSq(center, p)
        /\ (center[2] - p[2]) * (center[2] - p[2]) <= W!DistanceSq(center, p)
    BY <1>1, DistanceTypes
  <2>3. /\ radius * radius \in Int
        /\ (center[1] - p[1]) * (center[1] - p[1]) \in Int
        /\ (center[2] - p[2]) * (center[2] - p[2]) \in Int
    BY <2>2
  <2> QED
    BY <2>1, <2>2, <2>3
<1> DEFINE low == W!CellKey(<<center[1] - radius, center[2] - radius>>)
           high == W!CellKey(<<center[1] + radius, center[2] + radius>>)
           key == W!CellKey(p)
<1>4. /\ low[1] <= key[1] /\ key[1] <= high[1]
      /\ low[2] <= key[2] /\ key[2] <= high[2]
  BY <1>2, <1>3 DEF W!CellKey
<1>5. /\ low[1] \in Int /\ high[1] \in Int /\ low[2] \in Int /\ high[2] \in Int
      /\ key = <<key[1], key[2]>> /\ key[1] \in Int /\ key[2] \in Int
  BY <1>1, <1>3 DEF W!CellKey
<1>6. key \in DOMAIN cells /\ f \in cells[key]
  BY DEF W!MapsAgree, p
<1> HIDE DEF low, high, key
<1>7. key \in (low[1]..high[1]) \X (low[2]..high[2])
  BY <1>4, <1>5
<1>8. f \in UNION {W!Bucket(k, cells) : k \in (low[1]..high[1]) \X (low[2]..high[2])}
  BY <1>6, <1>7 DEF W!Bucket
<1> QED
  BY <1>8 DEF W!QueryRadius, low, high

\* A decided move leaves no two entities newly within the collision radius.
LEMMA MovesKeepApart ==
    ASSUME Types, W!MapsAgree, W!Next, phase = "moves",
           NEW e \in DOMAIN positions', NEW f \in DOMAIN positions', e # f,
           W!Near(positions', e, f)
    PROVE  W!Near(positions, e, f)
<1>1. CASE UNCHANGED positions
  BY <1>1 DEF W!Near
<1>2. ASSUME NEW r, W!Cross(r) PROVE W!Near(positions, e, f)
  BY <1>2 DEF W!Cross, W!Gone, W!Remove, W!Without, W!Restrict, W!Near
<1>3. ASSUME NEW r, W!Accept(r) PROVE W!Near(positions, e, f)
  <2>1. r \in Request
    BY <1>3, DecidingTypes DEF W!Accept, Types
  <2>2. /\ r.to \in W!Point /\ r.entity \in DOMAIN positions /\ CollisionRadius \in Nat
        /\ positions \in [DOMAIN positions -> W!Point]
    BY <1>3, <2>1, WorldIsDeclared DEF W!Accept, W!Spawned, Request, W!WorldAssumption, Types
  <2>3. positions' = [positions EXCEPT ![r.entity] = r.to]
    BY <1>3, <2>2 DEF W!Accept, W!Insert, W!Put
  <2>4. ASSUME NEW g \in DOMAIN positions, g # r.entity
        PROVE  /\ ~(W!DistanceSq(r.to, positions[g]) <= CollisionRadius * CollisionRadius)
               /\ ~(W!DistanceSq(positions[g], r.to) <= CollisionRadius * CollisionRadius)
    <3>1. g \notin W!QueryRadius(r.to, CollisionRadius)
      BY <1>3, <2>4 DEF W!Accept, W!ValidateMovement, W!Blocked
    <3>2. ~(W!DistanceSq(r.to, positions[g]) <= CollisionRadius * CollisionRadius)
      BY <2>2, <3>1, QueryFinds
    <3> QED
      BY <2>2, <3>2, DistanceTypes
  <2>5. e \in DOMAIN positions /\ f \in DOMAIN positions
    BY <2>3
  <2>6. CASE e = r.entity
    BY <2>2, <2>3, <2>4, <2>5, <2>6 DEF W!Near
  <2>7. CASE f = r.entity
    BY <2>2, <2>3, <2>4, <2>5, <2>7 DEF W!Near
  <2>8. CASE e # r.entity /\ f # r.entity
    BY <2>3, <2>5, <2>8 DEF W!Near
  <2> QED
    BY <2>6, <2>7, <2>8
<1>4. ASSUME NEW r, W!DropMove(r) \/ W!Reject(r) PROVE UNCHANGED positions
  BY <1>4 DEF W!DropMove, W!Reject, W!index
<1>5. CASE W!BeginTeleports
  BY <1>1, <1>5 DEF W!BeginTeleports, W!index
<1>6. /\ ~W!BeginTick /\ ~W!EndTick /\ \A r : ~W!Teleport(r)
      /\ \A g, t : ~(W!Spawn(g, t) \/ W!SpawnNpc(g, t) \/ W!RequestMove(g, t)
                     \/ W!PluginMove(g, t) \/ W!RequestTeleport(g, t) \/ W!Despawn(g))
  BY DEF W!BeginTick, W!EndTick, W!Teleport, W!Spawn, W!SpawnNpc, W!RequestMove, W!PluginMove,
         W!RequestTeleport, W!Despawn
<1> QED
  BY <1>1, <1>2, <1>3, <1>4, <1>5, <1>6 DEF W!Next, W!Decide

-----------------------------------------------------------------------------
\* A queue of requests, with the numbers each player sent, is owed and was
\* answered last.
Tidy(q, ow, an, se) ==
    /\ \A i \in DOMAIN q :
        /\ q[i].entity \in Npcs => q[i].seq = 0
        /\ q[i].entity \in Walkers =>
            an[q[i].entity] < q[i].seq /\ q[i].seq <= se[q[i].entity]
    /\ \A i, j \in DOMAIN q :
        j < i /\ q[j].entity = q[i].entity /\ q[i].entity \in Walkers =>
            q[j].seq < q[i].seq
    /\ \A e \in Walkers :
        /\ an[e] <= se[e]
        /\ \A n \in ow[e] : \E i \in DOMAIN q : q[i].entity = e /\ q[i].seq = n

Numbered ==
    /\ Tidy(W!Queue, owed, answered, asked)
    /\ \A e \in Walkers : ~W!Spawned(e) => owed[e] = {}

\* Every queued request has a number.
LEMMA RequestsHaveNumbers ==
    ASSUME NEW q \in Seq(Request) PROVE \A i \in DOMAIN q : q[i].seq \in Nat
<1>1. \A i \in DOMAIN q : q[i] \in Request
  OBVIOUS
<1> QED
  BY <1>1 DEF Request

\* The numbers being in order, every request owed is still queued.
LEMMA NumberedAnswers == Types /\ Numbered => W!Answered
<1> SUFFICES ASSUME Types, Numbered, NEW e \in Walkers
             PROVE  /\ owed[e] \subseteq {W!Queue[i].seq : i \in W!RequestsOf(e)}
                    /\ \A i \in W!RequestsOf(e) :
                        /\ W!Queue[i].seq > answered[e]
                        /\ \A j \in W!RequestsOf(e) : j < i => W!Queue[j].seq < W!Queue[i].seq
  BY DEF W!Answered
<1>1. owed[e] \subseteq {W!Queue[i].seq : i \in W!RequestsOf(e)}
  BY DEF Numbered, Tidy, W!RequestsOf
<1>2. \A i \in W!RequestsOf(e) : answered[e] < W!Queue[i].seq
  BY DEF Numbered, Tidy, W!RequestsOf
<1>3. \A i \in W!RequestsOf(e) : \A j \in W!RequestsOf(e) : j < i => W!Queue[j].seq < W!Queue[i].seq
  BY DEF Numbered, Tidy, W!RequestsOf
<1>4. W!Queue \in Seq(Request)
  BY DEF W!Queue, Types
<1>5. \A i \in W!RequestsOf(e) : W!Queue[i].seq \in Nat
  BY <1>4, RequestsHaveNumbers DEF W!RequestsOf
<1>6. answered[e] \in Nat
  BY DEF Types
<1> QED
  BY <1>1, <1>2, <1>3, <1>5, <1>6

\* The first request of a tidy queue leaves it; its number may be the last answered.
LEMMA TidyPop ==
    ASSUME NEW q \in Seq(Request), q # <<>>, NEW ow, NEW an, NEW se,
           ow \in [Walkers -> SUBSET Nat], an \in [Walkers -> Nat], se \in [Walkers -> Nat],
           Tidy(q, ow, an, se),
           NEW ow2, NEW an2,
           \A e \in Walkers :
               /\ e = Head(q).entity =>
                     an2[e] \in {an[e], Head(q).seq} /\ ow2[e] \subseteq ow[e] \ {Head(q).seq}
               /\ e # Head(q).entity => an2[e] = an[e] /\ ow2[e] \subseteq ow[e]
    PROVE  Tidy(Tail(q), ow2, an2, se)
<1> DEFINE t == Tail(q)
<1>1. /\ Head(q) = q[1] /\ Len(q) \in Nat \ {0} /\ DOMAIN q = 1..Len(q)
      /\ DOMAIN t = 1..(Len(q) - 1)
      /\ \A i \in DOMAIN t : t[i] = q[i + 1] /\ i + 1 \in DOMAIN q
  OBVIOUS
<1> HIDE DEF t
<1>2. \A i \in DOMAIN q : q[i].seq \in Nat
  BY RequestsHaveNumbers
<1>3. ASSUME NEW i \in DOMAIN t
      PROVE  /\ t[i].entity \in Npcs => t[i].seq = 0
             /\ t[i].entity \in Walkers =>
                 an2[t[i].entity] < t[i].seq /\ t[i].seq <= se[t[i].entity]
  <2>1. /\ t[i] = q[i + 1] /\ i + 1 \in DOMAIN q /\ 1 \in DOMAIN q /\ 1 < i + 1
    BY <1>1
  <2>2. CASE t[i].entity = q[1].entity
    <3>1. t[i].entity \in Walkers =>
             /\ an[t[i].entity] < t[i].seq /\ q[1].seq < t[i].seq
             /\ t[i].seq <= se[t[i].entity]
      BY <2>1, <2>2 DEF Tidy
    <3>2. t[i].entity \in Walkers => an2[t[i].entity] \in {an[t[i].entity], q[1].seq}
      BY <1>1, <2>2
    <3>3. t[i].entity \in Npcs => t[i].seq = 0
      BY <2>1 DEF Tidy
    <3> QED
      BY <3>1, <3>2, <3>3
  <2>3. CASE t[i].entity # q[1].entity
    BY <1>1, <2>1, <2>3 DEF Tidy
  <2> QED
    BY <2>2, <2>3
<1>4. ASSUME NEW i \in DOMAIN t, NEW j \in DOMAIN t, j < i,
             t[j].entity = t[i].entity, t[i].entity \in Walkers
      PROVE  t[j].seq < t[i].seq
  <2>1. j + 1 < i + 1
    BY <1>1, <1>4
  <2> QED
    BY <1>1, <1>4, <2>1 DEF Tidy
<1>5. ASSUME NEW e \in Walkers
      PROVE  /\ an2[e] <= se[e]
             /\ \A n \in ow2[e] : \E i \in DOMAIN t : t[i].entity = e /\ t[i].seq = n
  <2>1. 1 \in DOMAIN q
    BY <1>1
  <2>2. an2[e] <= se[e]
    <3>1. an[e] <= se[e] /\ (q[1].entity = e => q[1].seq <= se[e])
      BY <2>1 DEF Tidy
    <3> QED
      BY <1>1, <3>1
  <2>3. ASSUME NEW n \in ow2[e]
        PROVE  \E i \in DOMAIN t : t[i].entity = e /\ t[i].seq = n
    <3>1. n \in ow[e] /\ (e = q[1].entity => n # q[1].seq)
      BY <1>1, <2>3
    <3>2. PICK i \in DOMAIN q : q[i].entity = e /\ q[i].seq = n
      BY <3>1 DEF Tidy
    <3>3. i # 1
      BY <3>1, <3>2
    <3>4. i - 1 \in DOMAIN t /\ t[i - 1] = q[i]
      BY <1>1, <3>3
    <3> QED
      BY <3>2, <3>4
  <2> QED
    BY <2>2, <2>3
<1> QED
  BY <1>3, <1>4, <1>5 DEF Tidy, t

\* Less is owed: what remains is still queued.
LEMMA TidyFewer ==
    ASSUME NEW q, NEW ow, NEW an, NEW se, NEW ow2, Tidy(q, ow, an, se),
           \A e \in Walkers : ow2[e] \subseteq ow[e]
    PROVE  Tidy(q, ow2, an, se)
BY DEF Tidy

\* The request a tick decides is the first of those that wait.
LEMMA PopQueue ==
    ASSUME Types, phase = "moves", phase' = "moves", requests' = requests, NEW r, W!Deciding(r)
    PROVE  /\ W!Queue \in Seq(Request) /\ W!Queue # <<>>
           /\ r = Head(W!Queue) /\ W!Queue' = Tail(W!Queue)
<1>1. batch \in Seq(Request) /\ requests \in Seq(Request) /\ batch # <<>>
  BY DEF Types, W!Deciding
<1>2. W!Queue = batch \o requests /\ W!Queue' = Tail(batch) \o requests
  BY DEF W!Queue, W!Deciding
<1>3. /\ batch \o requests \in Seq(Request) /\ batch \o requests # <<>>
      /\ Head(batch \o requests) = Head(batch)
  BY <1>1
<1>4. Tail(batch \o requests) = Tail(batch) \o requests
  BY <1>1
<1> QED
  BY <1>2, <1>3, <1>4 DEF W!Deciding

\* Nothing waits in an empty zone, and nothing is owed.
LEMMA NumberedInit == W!Init => Numbered
BY DEF W!Init, Numbered, Tidy, W!Queue, W!Spawned

\* The queue, its numbers and who is owed stay; entities may come.
LEMMA NumberedStays ==
    ASSUME Numbered, W!Queue' = W!Queue, UNCHANGED W!client,
           DOMAIN positions \subseteq DOMAIN positions'
    PROVE  Numbered'
BY DEF Numbered, Tidy, W!client, W!Spawned

\* What waits is the same before and after these steps.
LEMMA QueueStays ==
    ASSUME Types, UNCHANGED requests,
           \/ UNCHANGED <<phase, batch>>
           \/ phase = "moves" /\ batch = <<>> /\ phase' # "moves"
           \/ phase # "moves" /\ phase' # "moves"
    PROVE  W!Queue' = W!Queue
<1>1. requests \in Seq(Request) /\ <<>> \o requests = requests
  BY DEF Types
<1> QED
  BY <1>1 DEF W!Queue

\* What is owed to whom has left is forgotten.
LEMMA NumberedGone ==
    ASSUME Types, NEW e, W!Gone(e), \A p \in Walkers : ~W!Spawned(p) => owed[p] = {}
    PROVE  /\ \A p \in Walkers : owed'[p] \subseteq owed[p]
           /\ \A p \in Walkers : (~W!Spawned(p))' => owed'[p] = {}
<1>1. DOMAIN positions' = DOMAIN positions \ {e}
  BY DEF W!Gone, W!Remove, W!Without, W!Restrict
<1>2. owed' = [p \in Walkers |-> IF p = e THEN {} ELSE owed[p]]
  BY DEF W!Gone
<1> QED
  BY <1>1, <1>2 DEF W!Spawned

\* The running tick decides its next request r: r leaves the queue, and either
\* nothing more is owed to its player or its number is the last one answered.
LEMMA NumberedPop ==
    ASSUME Types, Numbered, phase = "moves", UNCHANGED <<phase, requests, asked>>,
           NEW r, W!Deciding(r),
           \A e \in Walkers :
               /\ answered'[e] \in IF e = r.entity THEN {answered[e], r.seq} ELSE {answered[e]}
               /\ owed'[e] \subseteq owed[e]
               /\ e = r.entity => r.seq \notin owed'[e]
               /\ (~W!Spawned(e))' => owed'[e] = {}
    PROVE  Numbered'
<1>1. /\ W!Queue \in Seq(Request) /\ W!Queue # <<>>
      /\ r = Head(W!Queue) /\ W!Queue' = Tail(W!Queue)
  BY PopQueue
<1>2. /\ owed \in [Walkers -> SUBSET Nat] /\ answered \in [Walkers -> Nat]
      /\ asked \in [Walkers -> Nat] /\ Tidy(W!Queue, owed, answered, asked)
  BY DEF Types, Numbered
<1>3. \A e \in Walkers :
         /\ e = Head(W!Queue).entity =>
               /\ answered'[e] \in {answered[e], Head(W!Queue).seq}
               /\ owed'[e] \subseteq owed[e] \ {Head(W!Queue).seq}
         /\ e # Head(W!Queue).entity =>
               answered'[e] = answered[e] /\ owed'[e] \subseteq owed[e]
  <2> TAKE e \in Walkers
  <2>1. /\ answered'[e] \in IF e = r.entity THEN {answered[e], r.seq} ELSE {answered[e]}
        /\ owed'[e] \subseteq owed[e]
        /\ e = r.entity => r.seq \notin owed'[e]
    OBVIOUS
  <2> QED
    BY <1>1, <2>1
<1>4. Tidy(Tail(W!Queue), owed', answered', asked)
  BY ONLY <1>1, <1>2, <1>3, TidyPop
<1>5. Tidy(W!Queue', owed', answered', asked')
  BY <1>1, <1>4
<1> QED
  BY <1>5 DEF Numbered, Tidy

\* An accepted or rejected request is answered; a plugin's has nobody to tell.
LEMMA AnswerPops ==
    ASSUME Types, Numbered, phase = "moves", UNCHANGED <<phase, requests, asked>>,
           NEW r, W!Deciding(r), W!AnswerTo(r), DOMAIN positions' = DOMAIN positions
    PROVE  Numbered'
<1>1. /\ W!Queue \in Seq(Request) /\ W!Queue # <<>> /\ r = Head(W!Queue)
  BY PopQueue
<1>2. 1 \in DOMAIN W!Queue /\ W!Queue[1] = r /\ r \in Request
  BY <1>1
<1>3. CASE r.entity \in Walkers
  <2>1. answered[r.entity] \in Nat /\ answered[r.entity] < r.seq /\ r.seq \in Nat
    BY <1>2, <1>3 DEF Numbered, Tidy, Types, Request
  <2>2. /\ owed' = [owed EXCEPT ![r.entity] = owed[r.entity] \ {r.seq}]
        /\ answered' = [answered EXCEPT ![r.entity] = r.seq]
    BY <2>1 DEF W!AnswerTo
  <2>3. \A e \in Walkers :
           /\ answered'[e] \in IF e = r.entity THEN {answered[e], r.seq} ELSE {answered[e]}
           /\ owed'[e] \subseteq owed[e]
           /\ e = r.entity => r.seq \notin owed'[e]
           /\ (~W!Spawned(e))' => owed'[e] = {}
    BY <1>3, <2>2 DEF Types, Numbered, W!Spawned
  <2> QED
    BY <2>3, NumberedPop
<1>4. CASE r.entity \notin Walkers
  <2>1. r.seq = 0
    BY <1>2, <1>4 DEF Numbered, Tidy, Request, W!Inhabitant
  <2>2. UNCHANGED <<owed, answered>>
    BY <2>1 DEF W!AnswerTo
  <2>3. \A e \in Walkers :
           /\ answered'[e] \in IF e = r.entity THEN {answered[e], r.seq} ELSE {answered[e]}
           /\ owed'[e] \subseteq owed[e]
           /\ e = r.entity => r.seq \notin owed'[e]
           /\ (~W!Spawned(e))' => owed'[e] = {}
    BY <1>4, <2>2 DEF Numbered, W!Spawned
  <2> QED
    BY <2>3, NumberedPop
<1> QED
  BY <1>3, <1>4

\* A request that joins the queue with a number above all that were sent.
LEMMA TidyAppend ==
    ASSUME NEW q \in Seq(Request), NEW r \in Request, NEW ow, NEW an, NEW se,
           an \in [Walkers -> Nat], se \in [Walkers -> Nat],
           Tidy(q, ow, an, se), Walkers \cap Npcs = {},
           NEW ow2, NEW se2 \in [Walkers -> Nat],
           r.entity \in Npcs => r.seq = 0,
           r.entity \in Walkers => r.seq = se[r.entity] + 1 /\ se2[r.entity] = r.seq,
           \A e \in Walkers : e # r.entity => se2[e] = se[e] /\ ow2[e] = ow[e],
           r.entity \in Walkers => ow2[r.entity] \subseteq ow[r.entity] \cup {r.seq}
    PROVE  Tidy(Append(q, r), ow2, an, se2)
<1> DEFINE t == Append(q, r)
           n == Len(q) + 1
<1>1. /\ DOMAIN q = 1..(n - 1) /\ DOMAIN t = 1..n /\ n \in Nat \ {0} /\ t[n] = r
      /\ \A i \in DOMAIN q : i \in DOMAIN t /\ t[i] = q[i]
  OBVIOUS
<1> HIDE DEF t, n
<1>2. \A i \in DOMAIN q : q[i].seq \in Nat
  BY RequestsHaveNumbers
<1>3. r.seq \in Nat
  BY DEF Request
<1>4. \A e \in Walkers : an[e] \in Nat /\ se[e] \in Nat /\ an[e] <= se[e]
  BY DEF Tidy
<1>5. \A e \in Walkers : se[e] <= se2[e] /\ se2[e] \in Nat
  <2> TAKE e \in Walkers
  <2>1. CASE e = r.entity
    BY <1>4, <2>1
  <2>2. CASE e # r.entity
    BY <1>4, <2>2
  <2> QED
    BY <2>1, <2>2
<1>6. ASSUME NEW i \in DOMAIN t
      PROVE  /\ t[i].entity \in Npcs => t[i].seq = 0
             /\ t[i].entity \in Walkers =>
                 an[t[i].entity] < t[i].seq /\ t[i].seq <= se2[t[i].entity]
  <2>1. CASE i = n
    <3>1. t[i] = r
      BY <1>1, <2>1
    <3> QED
      BY <1>3, <1>4, <3>1
  <2>2. CASE i # n
    <3>1. i \in DOMAIN q /\ t[i] = q[i] /\ q[i].seq \in Nat
      BY <1>1, <1>2, <2>2
    <3> QED
      BY <1>4, <1>5, <3>1 DEF Tidy
  <2> QED
    BY <2>1, <2>2
<1>7. ASSUME NEW i \in DOMAIN t, NEW j \in DOMAIN t, j < i,
             t[j].entity = t[i].entity, t[i].entity \in Walkers
      PROVE  t[j].seq < t[i].seq
  <2>1. j \in DOMAIN q /\ t[j] = q[j] /\ q[j].seq \in Nat
    BY <1>1, <1>2, <1>7
  <2>2. CASE i = n
    <3>1. t[i] = r /\ q[j].seq <= se[r.entity] /\ r.seq = se[r.entity] + 1
      BY <1>1, <1>7, <2>1, <2>2 DEF Tidy
    <3>2. se[r.entity] \in Nat
      BY <1>4, <1>7, <3>1
    <3> QED
      BY <2>1, <3>1, <3>2
  <2>3. CASE i # n
    <3>1. i \in DOMAIN q /\ t[i] = q[i]
      BY <1>1, <2>3
    <3> QED
      BY <1>7, <2>1, <3>1 DEF Tidy
  <2> QED
    BY <2>2, <2>3
<1>8. ASSUME NEW e \in Walkers
      PROVE  /\ an[e] <= se2[e]
             /\ \A m \in ow2[e] : \E i \in DOMAIN t : t[i].entity = e /\ t[i].seq = m
  <2>1. an[e] <= se2[e]
    BY <1>4, <1>5
  <2>2. ASSUME NEW m \in ow2[e]
        PROVE  \E i \in DOMAIN t : t[i].entity = e /\ t[i].seq = m
    <3>1. CASE m \in ow[e]
      <4>1. PICK i \in DOMAIN q : q[i].entity = e /\ q[i].seq = m
        BY <3>1 DEF Tidy
      <4> QED
        BY <1>1, <4>1
    <3>2. CASE m \notin ow[e]
      <4>1. e = r.entity /\ m = r.seq
        BY <2>2, <3>2
      <4>2. n \in DOMAIN t /\ t[n] = r
        BY <1>1
      <4> QED
        BY <4>1, <4>2
    <3> QED
      BY <3>1, <3>2
  <2> QED
    BY <2>1, <2>2
<1> QED
  BY <1>6, <1>7, <1>8 DEF Tidy, t

\* A request made between two ticks waits behind all the others.
LEMMA AppendQueue ==
    ASSUME Types, phase = "idle", phase' = "idle", NEW r \in Request,
           requests' = Append(requests, r)
    PROVE  W!Queue \in Seq(Request) /\ W!Queue' = Append(W!Queue, r)
<1>1. requests \in Seq(Request) /\ requests' \in Seq(Request)
  BY DEF Types
<1>2. <<>> \o requests = requests /\ <<>> \o requests' = requests'
  BY <1>1
<1> QED
  BY <1>1, <1>2 DEF W!Queue

\* A player's next request has its next number.
LEMMA RequestNumbered ==
    ASSUME Types, Numbered, NEW e \in Walkers, NEW to \in Targets[e], W!RequestMove(e, to)
    PROVE  Numbered'
<1> DEFINE r == [entity |-> e, to |-> to, seq |-> asked[e] + 1]
<1>1. r \in Request /\ r.entity = e /\ r.seq = asked[e] + 1
  BY WorldIsDeclared DEF Types, Request, W!Inhabitant, W!WorldAssumption
<1>2. /\ phase = "idle" /\ phase' = "idle" /\ requests' = Append(requests, r)
      /\ asked' = [asked EXCEPT ![e] = asked[e] + 1] /\ UNCHANGED <<positions, answered>>
      /\ owed' = IF W!Spawned(e) THEN [owed EXCEPT ![e] = owed[e] \cup {asked[e] + 1}] ELSE owed
  BY DEF W!RequestMove, W!tick, W!index
<1> HIDE DEF r
<1>3. W!Queue \in Seq(Request) /\ W!Queue' = Append(W!Queue, r)
  BY <1>1, <1>2, AppendQueue
<1>4. /\ answered \in [Walkers -> Nat] /\ asked \in [Walkers -> Nat]
      /\ owed \in [Walkers -> SUBSET Nat]
      /\ Tidy(W!Queue, owed, answered, asked) /\ Walkers \cap Npcs = {}
  BY WorldIsDeclared DEF Types, Numbered, W!WorldAssumption
<1>5. /\ asked' \in [Walkers -> Nat] /\ asked'[e] = asked[e] + 1
      /\ \A f \in Walkers : f # e => asked'[f] = asked[f] /\ owed'[f] = owed[f]
      /\ owed'[e] \subseteq owed[e] \cup {asked[e] + 1}
  BY <1>2, <1>4
<1>6. Tidy(Append(W!Queue, r), owed', answered, asked')
  <2>1. r.entity \notin Npcs
    BY <1>1, <1>4
  <2>2. /\ r.entity \in Walkers => r.seq = asked[r.entity] + 1 /\ asked'[r.entity] = r.seq
        /\ \A f \in Walkers : f # r.entity => asked'[f] = asked[f] /\ owed'[f] = owed[f]
        /\ r.entity \in Walkers => owed'[r.entity] \subseteq owed[r.entity] \cup {r.seq}
    BY <1>1, <1>5
  <2> QED
    <3>1. /\ W!Queue \in Seq(Request) /\ r \in Request
          /\ answered \in [Walkers -> Nat] /\ asked \in [Walkers -> Nat]
          /\ asked' \in [Walkers -> Nat]
          /\ Tidy(W!Queue, owed, answered, asked) /\ Walkers \cap Npcs = {}
          /\ r.entity \in Npcs => r.seq = 0
      BY <1>1, <1>3, <1>4, <1>5, <2>1
    <3> QED
      BY ONLY <2>2, <3>1, TidyAppend
<1>7. Tidy(W!Queue', owed', answered', asked')
  BY <1>2, <1>3, <1>6
<1>8. \A f \in Walkers : (~W!Spawned(f))' => owed'[f] = {}
  BY <1>2, <1>4 DEF Numbered, W!Spawned
<1> QED
  BY <1>7, <1>8 DEF Numbered, Tidy

\* A plugin's move has no number, and an NPC no answer to wait for.
LEMMA PluginNumbered ==
    ASSUME Types, Numbered, NEW e \in Npcs, NEW to \in Targets[e], W!PluginMove(e, to)
    PROVE  Numbered'
<1> DEFINE r == [entity |-> e, to |-> to, seq |-> 0]
<1>1. r \in Request /\ r.entity = e /\ r.seq = 0 /\ e \notin Walkers
  BY WorldIsDeclared DEF Request, W!Inhabitant, W!WorldAssumption
<1>2. /\ phase = "idle" /\ phase' = "idle" /\ requests' = Append(requests, r)
      /\ UNCHANGED <<positions, answered, asked, owed>>
  BY DEF W!PluginMove, W!tick, W!index, W!client
<1> HIDE DEF r
<1>3. W!Queue \in Seq(Request) /\ W!Queue' = Append(W!Queue, r)
  BY <1>1, <1>2, AppendQueue
<1>4. /\ answered \in [Walkers -> Nat] /\ asked \in [Walkers -> Nat]
      /\ Tidy(W!Queue, owed, answered, asked) /\ Walkers \cap Npcs = {}
  BY WorldIsDeclared DEF Types, Numbered, W!WorldAssumption
<1>5. Tidy(Append(W!Queue, r), owed, answered, asked)
  BY <1>1, <1>3, <1>4, TidyAppend
<1> QED
  BY <1>2, <1>3, <1>5 DEF Numbered, Tidy, W!Spawned

\* Every step keeps the numbers in order.
LEMMA NumberedNext == Types /\ Numbered /\ [W!Next]_W!vars => Numbered'
<1> SUFFICES ASSUME Types, Numbered, [W!Next]_W!vars PROVE Numbered'
  OBVIOUS
<1>1. ASSUME NEW e, NEW p, W!Spawn(e, p) \/ W!SpawnNpc(e, p) PROVE Numbered'
  <2>1. /\ DOMAIN positions \subseteq DOMAIN positions' /\ UNCHANGED W!client
        /\ UNCHANGED <<phase, batch, requests>>
    BY <1>1 DEF W!Spawn, W!SpawnNpc, W!Insert, W!Put, W!queues, W!tick
  <2> QED
    BY <2>1, NumberedStays, QueueStays
<1>2. ASSUME NEW e, W!Despawn(e) PROVE Numbered'
  <2>1. UNCHANGED <<phase, batch, requests, asked, answered>>
    BY <1>2 DEF W!Despawn, W!queues, W!tick
  <2>2. W!Queue' = W!Queue
    BY <2>1, QueueStays
  <2>3. /\ \A p \in Walkers : owed'[p] \subseteq owed[p]
        /\ \A p \in Walkers : (~W!Spawned(p))' => owed'[p] = {}
    BY <1>2, NumberedGone DEF W!Despawn, Numbered
  <2>4. Tidy(W!Queue, owed', answered, asked)
    BY <2>3, TidyFewer DEF Numbered
  <2> QED
    BY <2>1, <2>2, <2>3, <2>4 DEF Numbered, Tidy
<1>3. ASSUME NEW e \in Walkers, NEW to \in Targets[e], W!RequestMove(e, to) PROVE Numbered'
  BY <1>3, RequestNumbered
<1>4. ASSUME NEW e \in Npcs, NEW to \in Targets[e], W!PluginMove(e, to) PROVE Numbered'
  BY <1>4, PluginNumbered
<1>5. ASSUME NEW e, NEW to, W!RequestTeleport(e, to) PROVE Numbered'
  BY <1>5, NumberedStays, QueueStays DEF W!RequestTeleport, W!index, W!tick
<1>6. CASE W!BeginTick
  <2>1. requests \in Seq(Request) /\ <<>> \o requests = requests /\ requests \o <<>> = requests
    BY DEF Types
  <2>2. W!Queue' = W!Queue
    BY <1>6, <2>1 DEF W!BeginTick, W!Queue
  <2> QED
    BY <1>6, <2>2, NumberedStays DEF W!BeginTick, W!index
<1>7. ASSUME NEW r, W!DropMove(r) PROVE Numbered'
  <2>1. \A e \in Walkers :
           /\ answered'[e] \in IF e = r.entity THEN {answered[e], r.seq} ELSE {answered[e]}
           /\ owed'[e] \subseteq owed[e]
           /\ e = r.entity => r.seq \notin owed'[e]
           /\ (~W!Spawned(e))' => owed'[e] = {}
    BY <1>7 DEF W!DropMove, W!client, W!index, Numbered, W!Spawned
  <2> QED
    BY <1>7, <2>1, NumberedPop DEF W!DropMove, W!queues, W!client
<1>8. ASSUME NEW r, W!Cross(r) PROVE Numbered'
  <2>1. /\ \A p \in Walkers : owed'[p] \subseteq owed[p]
        /\ \A p \in Walkers : (~W!Spawned(p))' => owed'[p] = {}
    BY <1>8, NumberedGone DEF W!Cross, Numbered
  <2>2. r.entity \in Walkers => owed'[r.entity] = {}
    BY <1>8 DEF W!Cross, W!Gone
  <2>3. \A e \in Walkers :
           /\ answered'[e] \in IF e = r.entity THEN {answered[e], r.seq} ELSE {answered[e]}
           /\ owed'[e] \subseteq owed[e]
           /\ e = r.entity => r.seq \notin owed'[e]
           /\ (~W!Spawned(e))' => owed'[e] = {}
    BY <1>8, <2>1, <2>2 DEF W!Cross
  <2> QED
    BY <1>8, <2>3, NumberedPop DEF W!Cross, W!queues
<1>9. ASSUME NEW r, W!Accept(r) PROVE Numbered'
  <2>1. DOMAIN positions' = DOMAIN positions
    BY <1>9 DEF W!Accept, W!Insert, W!Put, W!Spawned
  <2> QED
    BY <1>9, <2>1, AnswerPops DEF W!Accept, W!queues
<1>10. ASSUME NEW r, W!Reject(r) PROVE Numbered'
  BY <1>10, AnswerPops DEF W!Reject, W!index, W!queues
<1>11. CASE W!BeginTeleports
  BY <1>11, NumberedStays, QueueStays DEF W!BeginTeleports, W!index
<1>12. ASSUME NEW r, W!Teleport(r) PROVE Numbered'
  <2>1. DOMAIN positions \subseteq DOMAIN positions'
    BY <1>12 DEF W!Teleport, W!Insert, W!Put, W!index
  <2>2. UNCHANGED <<phase, requests>> /\ UNCHANGED W!client /\ phase # "moves" /\ phase' # "moves"
    BY <1>12 DEF W!Teleport, W!queues
  <2> QED
    BY <2>1, <2>2, NumberedStays, QueueStays
<1>13. CASE W!EndTick
  BY <1>13, NumberedStays, QueueStays DEF W!EndTick, W!index, W!queues
<1>14. CASE UNCHANGED W!vars
  BY <1>14, NumberedStays, QueueStays DEF W!vars, W!index, W!queues, W!tick
<1> QED
  BY <1>1, <1>2, <1>3, <1>4, <1>5, <1>6, <1>7, <1>8, <1>9, <1>10, <1>11, <1>12,
     <1>13, <1>14 DEF W!Next, W!Decide

-----------------------------------------------------------------------------
\* Products of naturals grow with their factors.
LEMMA Grows ==
    ASSUME NEW a \in Nat, NEW b \in Nat, NEW c \in Nat, NEW d \in Nat, a <= b, c <= d
    PROVE  a * c <= b * d
<1>1. a * c <= b * c
  OBVIOUS
<1>2. b * c <= b * d
  OBVIOUS
<1> QED
  BY <1>1, <1>2

\* The Cauchy-Schwarz inequality in three dimensions, by Lagrange's identity.
LEMMA CauchySchwarz ==
    ASSUME NEW x \in Int, NEW y \in Int, NEW z \in Int,
           NEW p \in Int, NEW q \in Int, NEW r \in Int
    PROVE  (x * p + y * q + z * r) * (x * p + y * q + z * r)
               <= (x * x + y * y + z * z) * (p * p + q * q + r * r)
<1> DEFINE i == x * q - y * p
           j == x * r - z * p
           k == y * r - z * q
           s == x * p + y * q + z * r
           t == (x * x + y * y + z * z) * (p * p + q * q + r * r)
<1>1. t = s * s + (i * i + j * j + k * k)
  OBVIOUS
<1>2. i \in Int /\ j \in Int /\ k \in Int /\ s \in Int
  OBVIOUS
<1> HIDE DEF i, j, k, s
<1>3. i * i \in Nat /\ j * j \in Nat /\ k * k \in Nat /\ s * s \in Nat
  BY <1>2, SquarePositive
<1> HIDE DEF t
<1>4. s * s <= t
  BY <1>1, <1>3
<1> QED
  BY <1>4 DEF s, t

\* The triangle inequality, on squares.
LEMMA Longer ==
    ASSUME NEW u \in Nat, NEW v \in Nat, NEW w \in Int, NEW a \in Nat, NEW b \in Nat,
           w * w <= u * v, u <= a * a, v <= b * b
    PROVE  u + 2 * w + v <= (a + b) * (a + b)
<1>1. a * a \in Nat /\ b * b \in Nat /\ a * b \in Nat /\ u * v \in Nat /\ w * w \in Int
  OBVIOUS
<1>2. u * v <= (a * a) * (b * b)
  BY <1>1, Grows
<1>3. (a * a) * (b * b) = (a * b) * (a * b)
  OBVIOUS
<1>4. w * w <= (a * b) * (a * b)
  BY <1>1, <1>2, <1>3
<1>5. w <= a * b
  BY <1>1, <1>4, SquareBounds
<1>6. (a + b) * (a + b) = a * a + 2 * (a * b) + b * b
  OBVIOUS
<1> QED
  BY <1>1, <1>5, <1>6

\* A step of at most b after a displacement of at most a makes at most a + b.
LEMMA StepsAddUp ==
    ASSUME NEW from \in W!Point, NEW via \in W!Point, NEW to \in W!Point,
           NEW a \in Nat, NEW b \in Nat,
           W!DistanceSq(from, via) <= a * a, W!DistanceSq(via, to) <= b * b
    PROVE  W!DistanceSq(from, to) <= (a + b) * (a + b)
<1> DEFINE x == from[1] - via[1]
           y == from[2] - via[2]
           z == from[3] - via[3]
           p == via[1] - to[1]
           q == via[2] - to[2]
           r == via[3] - to[3]
           s == x * p + y * q + z * r
<1>1. /\ from[1] \in Int /\ from[2] \in Int /\ from[3] \in Int
      /\ via[1] \in Int /\ via[2] \in Int /\ via[3] \in Int
      /\ to[1] \in Int /\ to[2] \in Int /\ to[3] \in Int
  BY DEF W!Point
<1>2. x \in Int /\ y \in Int /\ z \in Int /\ p \in Int /\ q \in Int /\ r \in Int
  BY <1>1
<1>3. from[1] - to[1] = x + p /\ from[2] - to[2] = y + q /\ from[3] - to[3] = z + r
  BY <1>1
<1>4. /\ W!DistanceSq(from, via) = x * x + y * y + z * z
      /\ W!DistanceSq(via, to) = p * p + q * q + r * r
      /\ W!DistanceSq(from, to) = (x + p) * (x + p) + (y + q) * (y + q) + (z + r) * (z + r)
  BY <1>3 DEF W!DistanceSq
<1> HIDE DEF x, y, z, p, q, r
<1>5. W!DistanceSq(from, to) = W!DistanceSq(from, via) + 2 * s + W!DistanceSq(via, to)
  BY <1>2, <1>4
<1>6. s * s <= W!DistanceSq(from, via) * W!DistanceSq(via, to)
  BY <1>2, <1>4, CauchySchwarz
<1>7. s \in Int /\ W!DistanceSq(from, via) \in Nat /\ W!DistanceSq(via, to) \in Nat
  BY <1>2, DistanceTypes
<1> HIDE DEF s
<1>8. W!DistanceSq(from, via) + 2 * s + W!DistanceSq(via, to) <= (a + b) * (a + b)
  BY <1>6, <1>7, Longer
<1> QED
  BY <1>5, <1>8

\* How far an entity is from where the tick found it, in accepted moves.
Within(e) ==
    W!DistanceSq(start[e], positions[e]) <= (steps[e] * MaxStep) * (steps[e] * MaxStep)

\* In a tick's moves everybody is within them; after, all who were not put.
Travel ==
    /\ steps \in [W!Inhabitant -> Nat]
    /\ DOMAIN placed = DOMAIN positions
    /\ phase = "idle" => steps = [e \in W!Inhabitant |-> 0]
    /\ start \in [DOMAIN start -> W!Point]
    /\ phase = "moves" => \A e \in DOMAIN start \cap DOMAIN positions : Within(e)
    /\ phase = "teleports" => \A e \in W!Inhabitant : W!Displaced(e) => Within(e)

\* What moves nobody changes no displacement.
LEMMA TravelStays ==
    ASSUME Travel, UNCHANGED <<positions, placed, start, steps, phase>>
    PROVE  Travel'
BY DEF Travel, Within, W!Displaced

\* A spawn between two ticks displaces nobody.
LEMMA TravelPlaced ==
    ASSUME Travel, NEW e, NEW p, W!Insert(e, p), placed' = W!Put(placed, e, "put"), phase = "idle",
           UNCHANGED <<start, steps, phase>>
    PROVE  Travel'
BY DEF Travel, W!Insert, W!Put

\* Nor does an entity that leaves.
LEMMA TravelGone ==
    ASSUME Travel, NEW e, W!Gone(e), UNCHANGED <<start, steps, phase>>, phase # "teleports"
    PROVE  Travel'
<1>1. /\ positions' = [f \in DOMAIN positions \ {e} |-> positions[f]]
      /\ DOMAIN placed' = DOMAIN placed \ {e}
  BY DEF W!Gone, W!Remove, W!Without, W!Restrict
<1> QED
  BY <1>1 DEF Travel, Within

\* Every step keeps displacements within the accepted moves.
LEMMA TravelNext == Types /\ Travel /\ [W!Next]_W!vars => Travel'
<1> SUFFICES ASSUME Types, Travel, [W!Next]_W!vars PROVE Travel'
  OBVIOUS
<1>a. MaxStep \in Nat /\ MaxStep * MaxStep \in Nat
  BY WorldIsDeclared DEF W!WorldAssumption
<1>1. ASSUME NEW e, NEW p, W!Spawn(e, p) \/ W!SpawnNpc(e, p) PROVE Travel'
  BY <1>1, TravelPlaced DEF W!Spawn, W!SpawnNpc, W!tick
<1>2. ASSUME NEW e, W!Despawn(e) PROVE Travel'
  BY <1>2, TravelGone DEF W!Despawn, W!tick
<1>3. ASSUME NEW e, NEW to, W!RequestMove(e, to) \/ W!PluginMove(e, to) \/ W!RequestTeleport(e, to)
      PROVE  Travel'
  BY <1>3, TravelStays DEF W!RequestMove, W!PluginMove, W!RequestTeleport, W!index, W!tick
<1>4. CASE W!BeginTick
  <2>1. /\ phase = "idle" /\ phase' = "moves" /\ start' = positions
        /\ UNCHANGED <<positions, placed, steps>>
    BY <1>4 DEF W!BeginTick, W!index
  <2>2. ASSUME NEW e \in DOMAIN positions PROVE Within(e)'
    <3>1. steps'[e] * MaxStep = 0
      BY <1>a, <2>1 DEF Travel, Types
    <3>2. W!DistanceSq(positions[e], positions[e]) = 0
      BY DEF W!DistanceSq, Types, W!Point
    <3> QED
      BY <2>1, <3>1, <3>2 DEF Within
  <2> QED
    BY <2>1, <2>2 DEF Travel, Types
<1>5. ASSUME NEW r, W!DropMove(r) \/ W!Reject(r) PROVE Travel'
  BY <1>5, TravelStays DEF W!DropMove, W!Reject, W!index
<1>6. ASSUME NEW r, W!Cross(r) PROVE Travel'
  BY <1>6, TravelGone DEF W!Cross
<1>7. ASSUME NEW r, W!Accept(r) PROVE Travel'
  <2>1. /\ phase = "moves" /\ r \in Request /\ r.entity \in DOMAIN positions
    BY <1>7, DecidingTypes DEF W!Accept, W!Spawned, Types
  <2>2. /\ positions' = [positions EXCEPT ![r.entity] = r.to]
        /\ UNCHANGED <<phase, start>> /\ DOMAIN placed' = DOMAIN placed
        /\ steps' = [steps EXCEPT ![r.entity] = steps[r.entity] + 1]
        /\ ~W!TooFast(positions[r.entity], r.to)
    BY <1>7, <2>1 DEF W!Accept, W!Insert, W!Put, W!ValidateMovement
  <2>3. r.entity \in W!Inhabitant /\ r.to \in W!Point /\ positions \in [DOMAIN positions -> W!Point]
    BY <2>1 DEF Request, Types
  <2>4. ASSUME NEW e \in DOMAIN start \cap DOMAIN positions PROVE Within(e)'
    <3>1. CASE e = r.entity
      <4> DEFINE n == steps[e]
      <4>1. n \in Nat /\ start[e] \in W!Point /\ positions[e] \in W!Point /\ Within(e)
        BY <2>1, <2>3, <3>1 DEF Travel
      <4>2. n * MaxStep \in Nat /\ (n + 1) * MaxStep = n * MaxStep + MaxStep
        BY <1>a, <4>1
      <4>3. W!DistanceSq(positions[e], r.to) <= MaxStep * MaxStep
        <5>1. W!DistanceSq(positions[e], r.to) \in Nat
          BY <2>3, <4>1, DistanceTypes
        <5> QED
          BY <1>a, <2>2, <3>1, <5>1 DEF W!TooFast
      <4>4. W!DistanceSq(start[e], positions[e]) <= (n * MaxStep) * (n * MaxStep)
        BY <4>1 DEF Within
      <4> HIDE DEF n
      <4>5. W!DistanceSq(start[e], r.to) <= (n * MaxStep + MaxStep) * (n * MaxStep + MaxStep)
        BY <1>a, <2>3, <4>1, <4>2, <4>3, <4>4, StepsAddUp
      <4>6. steps'[e] = n + 1 /\ positions'[e] = r.to /\ start'[e] = start[e]
        BY <2>1, <2>2, <2>3, <3>1 DEF Travel, n
      <4> QED
        BY <4>2, <4>5, <4>6 DEF Within
    <3>2. CASE e # r.entity
      BY <2>1, <2>2, <3>2 DEF Travel, Within
    <3> QED
      BY <3>1, <3>2
  <2>5. steps' \in [W!Inhabitant -> Nat]
    BY <2>2, <2>3 DEF Travel
  <2> QED
    BY <2>1, <2>2, <2>4, <2>5 DEF Travel
<1>8. CASE W!BeginTeleports
  BY <1>8 DEF W!BeginTeleports, Travel, W!index, Within, W!Displaced
<1>9. ASSUME NEW r, W!Teleport(r) PROVE Travel'
  <2>1. /\ phase = "teleports" /\ UNCHANGED <<phase, start, steps>>
    BY <1>9 DEF W!Teleport
  <2>2. CASE W!Spawned(r.entity)
    <3>1. /\ positions' = [positions EXCEPT ![r.entity] = r.to]
          /\ placed' = [placed EXCEPT ![r.entity] = "put"]
      BY <1>9, <2>2 DEF W!Teleport, W!Insert, W!Put, W!Spawned
    <3>2. /\ DOMAIN positions' = DOMAIN positions /\ DOMAIN placed' = DOMAIN positions'
          /\ \A e \in W!Inhabitant :
                W!Displaced(e)' => W!Displaced(e) /\ positions'[e] = positions[e]
      BY <2>1, <2>2, <3>1 DEF Travel, W!Displaced, W!Spawned
    <3>3. \A e \in W!Inhabitant : W!Displaced(e)' => Within(e)'
      BY <2>1, <3>2 DEF Travel, Within
    <3> QED
      BY <2>1, <3>2, <3>3 DEF Travel
  <2>3. CASE ~W!Spawned(r.entity)
    BY <1>9, <2>3, TravelStays DEF W!Teleport, W!index
  <2> QED
    BY <2>2, <2>3
<1>10. CASE W!EndTick
  BY <1>10 DEF W!EndTick, Travel, W!index
<1>11. CASE UNCHANGED W!vars
  BY <1>11, TravelStays DEF W!vars, W!index, W!tick
<1> QED
  BY <1>1, <1>2, <1>3, <1>4, <1>5, <1>6, <1>7, <1>8, <1>9, <1>10, <1>11 DEF W!Next, W!Decide

-----------------------------------------------------------------------------
Inv == Types /\ W!MapsAgree /\ Numbered

\* The types, the index and the numbers hold in every state of a zone.
THEOREM ZoneInvariant == W!Spec => []Inv
<1>1. W!Init => Inv
  BY TypesInit, MapsAgreeInit, NumberedInit DEF Inv
<1>2. Inv /\ [W!Next]_W!vars => Inv'
  BY TypesNext, MapsAgreeNext, NumberedNext DEF Inv
<1> QED
  BY <1>1, <1>2, PTL DEF W!Spec

\* The five maps of a zone agree (Zone's fields and GridIndex): each entity is in
\* the bucket of its position and in no other, through re-insertion and crossing.
THEOREM IndexFollowsTheRoster == W!Spec => []W!MapsAgree
BY ZoneInvariant, PTL DEF Inv

\* Each request of a player still there is answered once, in the order sent,
\* whatever comes between its queueing and its tick (Zone::tick, request_move).
THEOREM MovesAreAnswered == W!Spec => []Answered
<1>1. Inv => Answered
  BY NumberedAnswers DEF Inv, Answered
<1> QED
  BY <1>1, ZoneInvariant, PTL

\* A tick carries nobody further than its accepted moves allow (Zone::tick).
THEOREM TravelIsBounded == W!Spec => []W!TravelBounded
<1>1. W!Init => Travel
  BY DEF W!Init, Travel
<1>2. Types /\ Travel => W!TravelBounded
  BY DEF Types, Travel, W!TravelBounded, Within, W!Displaced, W!Inhabitant
<1>3. Inv => Types
  BY DEF Inv
<1> QED
  BY <1>1, <1>2, <1>3, TravelNext, ZoneInvariant, PTL DEF W!Spec

\* No move brings two entities within the collision radius (validate_movement).
THEOREM MovesKeepEntitiesApart == W!Spec => KeepsApart
<1>1. Inv /\ [W!Next]_W!vars => [phase = "moves" =>
          \A e, f \in DOMAIN positions' :
              e # f /\ W!Near(positions', e, f) => W!Near(positions, e, f)]_W!vars
  BY MovesKeepApart DEF Inv
<1> QED
  BY <1>1, ZoneInvariant, PTL DEF W!Spec, KeepsApart, W!KeepsApart
=============================================================================
