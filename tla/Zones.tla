------------------------------- MODULE Zones -------------------------------
(***************************************************************************)
(* Where players are.  Every layer of every zone is an actor with a world *)
(* (Zone.entities), an unbounded queue of commands and a Sessions map of  *)
(* the connections that get its broadcasts.  Four parties move a player:  *)
(* its session task (join, layer hop, disconnect), the zone's tick (it    *)
(* takes a player that crossed a link out), the background task that      *)
(* completes such a crossing, and ZoneChanged on its way back to the      *)
(* session.  None of them waits for the others, so the world, the Sessions*)
(* map and the session's own idea of its zone agree only in the end.      *)
(*                                                                         *)
(* Positions inside a zone, NPCs, plugins and what clients are shown are   *)
(* left out: a move is only ever one that crosses a link at legal speed.   *)
(***************************************************************************)
EXTENDS Integers, Sequences, FiniteSets

CONSTANTS
    Entity,          \* entity ids, one per connection
    Zone,
    HomeZone,        \* the zone each character's row names
    Links,           \* <<from, to>>: links declared by the manifests
    Fellows,         \* per entity: who may be in a party with it
    Threshold,       \* WZ_LAYER_POPULATION_THRESHOLD; layering switched off
                     \* (WZ_LAYER_ENABLED) is one no population reaches
    MaxLayers,       \* BOUND on the layers of a zone, see LayersEarned
    MaxUnread,       \* BOUND on the ZoneChanged in a channel, see Walk
    Walkers,         \* the clients that walk through links
    Hoppers,         \* the clients that ask for a groupmate's layer
    None

Layer == 0..MaxLayers - 1
Place == Zone \X Layer

ASSUME ConstantsAssumption ==
    /\ HomeZone \in [Entity -> Zone]
    /\ Links \subseteq Zone \X Zone
    /\ Fellows \in [Entity -> SUBSET Entity]
    /\ Threshold \in Nat \ {0}
    /\ {MaxLayers, MaxUnread} \subseteq Nat \ {0}
    /\ Walkers \cup Hoppers \subseteq Entity
    /\ None \notin Place \cup Zone

VARIABLES
    layers,      \* per zone: how many layers run
    world,       \* per place: Zone.entities
    queue,       \* per place: commands its actor has yet to take
    moves,       \* per place: Zone.pending_moves, each entity's first crossing
    sessions,    \* per place: the keys of its Sessions map
    handoffs,    \* tasks completing a crossing
    changed,     \* per connection: ZoneChanged in its outgoing channel
    pc,          \* where each connection's handle_session stands
    at,          \* its `zone` and `current_zone_id`
    dest,        \* the layer a hop is bound for
    answer       \* what position_of replied: is it in the world?

vars == <<layers, world, queue, moves, sessions, handoffs, changed, pc, at,
          dest, answer>>
connection == <<changed, pc, at, dest, answer>>
actors     == <<layers, world, moves>>

Command(op, e)  == [op |-> op, entity |-> e]
Move(e, z)      == [op |-> "move", entity |-> e, to |-> z]
Send(p, command) == queue' = [queue EXCEPT ![p] = Append(@, command)]
Queued(p, op, e) == \E i \in DOMAIN queue[p] : queue[p][i] = Command(op, e)
Goto(e, label)  == pc' = [pc EXCEPT ![e] = label]

\* It has its entry in character_entities: from the spawn to the clean-up.
Online(e) == pc[e] \notin {"new", "gone", "failed"}
----------------------------------------------------------------------------
Init ==
    /\ layers = [z \in Zone |-> 1]
    /\ world = [p \in Place |-> {}]
    /\ queue = [p \in Place |-> <<>>]
    /\ moves = [p \in Place |-> [e \in Entity |-> None]]
    /\ sessions = [p \in Place |-> {}]
    /\ handoffs = {}
    /\ changed = [e \in Entity |-> <<>>]
    /\ pc = [e \in Entity |-> "new"]
    /\ at = [e \in Entity |-> None]
    /\ dest = [e \in Entity |-> None]
    /\ answer = [e \in Entity |-> "none"]

Running(z) == {<<z, l>> : l \in 0..layers[z] - 1}

\* MUTANT: the layers of every zone are searched.
LayersHoldingAnywhere(z, e) == {p \in Place : e \in sessions[p]}

\* join_layer_of: the first layer of the zone whose Sessions holds e.
LayersHolding(z, e) == {p \in Running(z) : e \in sessions[p]}
JoinLayerOf(z, e) ==
    {p \in LayersHolding(z, e) : \A q \in LayersHolding(z, e) : p[2] <= q[2]}

\* MUTANT: a layer counts as full one session early.
HasRoomEarly(p) == Cardinality(sessions[p]) + 1 < Threshold
HasRoom(p) == Cardinality(sessions[p]) < Threshold

\* least_populated_under_threshold: the first of the emptiest layers.  Whoever is
\* still between its spawn and its sessions.insert is not counted yet.
Emptiest(z) ==
    {p \in Running(z) : \A q \in Running(z) :
        \/ Cardinality(sessions[p]) < Cardinality(sessions[q])
        \/ Cardinality(sessions[p]) = Cardinality(sessions[q]) /\ p[2] <= q[2]}

SpawnAt(e, p) ==
    /\ Send(p, Command("spawn", e))
    /\ at' = [at EXCEPT ![e] = p]
    /\ Goto(e, "hydrating")
    /\ UNCHANGED <<world, moves, sessions, handoffs, changed, dest, answer>>

\* Joining looks for a groupmate who is online in the zone first ...
JoinGroupmate(e) ==
    /\ pc[e] = "new"
    /\ \E f \in Fellows[e] :
          Online(f) /\ \E p \in JoinLayerOf(HomeZone[e], f) : SpawnAt(e, p)
    /\ UNCHANGED layers

\* ... and else, or while it is in no party yet, has a layer assigned
\* (assign_layer, under one write lock): one with room, or a new one.
JoinAssigned(e) ==
    LET z == HomeZone[e] IN
    /\ pc[e] = "new"
    /\ \E p \in Emptiest(z) :
          \/ HasRoom(p) /\ SpawnAt(e, p) /\ UNCHANGED layers
          \/ /\ ~HasRoom(p) /\ layers[z] < MaxLayers
             /\ SpawnAt(e, <<z, layers[z]>>)
             /\ layers' = [layers EXCEPT ![z] = @ + 1]

\* Once the roster has been answered, hence after the spawn was taken, the
\* connection enters the layer's Sessions and the select loop.
Register(e) ==
    /\ pc[e] = "hydrating"
    /\ ~Queued(at[e], "spawn", e)
    /\ sessions' = [sessions EXCEPT ![at[e]] = @ \cup {e}]
    /\ Goto(e, "joined")
    /\ UNCHANGED <<actors, queue, handoffs, changed, at, dest, answer>>
----------------------------------------------------------------------------
\* The client walks through a link.  BOUND: one such request at a time, and not
\* while MaxUnread ZoneChanged wait in the channel.
Walk(e) ==
    /\ pc[e] = "joined" /\ e \in Walkers
    /\ Len(changed[e]) < MaxUnread
    /\ \A p \in Place :
          /\ moves[p][e] = None
          /\ \A i \in DOMAIN queue[p] :
                ~(queue[p][i].op = "move" /\ queue[p][i].entity = e)
    /\ \E z \in Zone : <<at[e][1], z>> \in Links /\ Send(at[e], Move(e, z))
    /\ UNCHANGED <<actors, sessions, handoffs, connection>>

\* The actor takes the next command.
Take(p) ==
    LET c == Head(queue[p]) IN
    /\ queue[p] # <<>>
    /\ queue' = [queue EXCEPT ![p] = Tail(@)]
    /\ world' = [world EXCEPT ![p] =
                   CASE c.op = "spawn"   -> @ \cup {c.entity}
                     [] c.op = "despawn" -> @ \ {c.entity}
                     [] OTHER            -> @]
    /\ moves' = IF c.op = "move"
                   THEN [moves EXCEPT ![p][c.entity] = IF @ = None THEN c.to ELSE @]
                   ELSE moves
    /\ answer' = IF c.op = "position_of"
                    THEN [answer EXCEPT ![c.entity] =
                            IF c.entity \in world[p] THEN "present" ELSE "absent"]
                    ELSE answer
    /\ UNCHANGED <<layers, sessions, handoffs, changed, pc, at, dest>>

Crossing(p) == {e \in world[p] : moves[p][e] # None}
Idle(p)     == \A e \in Entity : moves[p][e] = None

\* MUTANT: the task is not started, though the session is removed.
TickForgets(p) ==
    /\ ~Idle(p)
    /\ moves' = [moves EXCEPT ![p] = [e \in Entity |-> None]]
    /\ world' = [world EXCEPT ![p] = @ \ Crossing(p)]
    /\ sessions' = [sessions EXCEPT ![p] = @ \ Crossing(p)]
    /\ UNCHANGED <<layers, queue, handoffs, connection>>

\* The tick despawns whoever crosses a link (a move of an entity that is not
\* here is skipped), and on_tick, called at once, removes it from Sessions and
\* starts the task that completes the crossing; without a session, it does not.
Tick(p) ==
    /\ ~Idle(p)
    /\ moves' = [moves EXCEPT ![p] = [e \in Entity |-> None]]
    /\ world' = [world EXCEPT ![p] = @ \ Crossing(p)]
    /\ sessions' = [sessions EXCEPT ![p] = @ \ Crossing(p)]
    /\ handoffs' = handoffs \cup
          {[entity |-> e, to |-> moves[p][e], stage |-> "leaving"] :
              e \in Crossing(p) \cap sessions[p]}
    /\ UNCHANGED <<layers, queue, connection>>

\* complete_zone_transition: spawn on layer 0 of the target and enter its
\* Sessions, whatever the connection does meanwhile ...
Arrive(h) ==
    LET p == <<h.to, 0>> IN
    /\ h.stage = "leaving"
    /\ Send(p, Command("spawn", h.entity))
    /\ sessions' = [sessions EXCEPT ![p] = @ \cup {h.entity}]
    /\ handoffs' = (handoffs \ {h}) \cup {[h EXCEPT !.stage = "arriving"]}
    /\ UNCHANGED <<actors, connection>>

\* MUTANT: the connection is never told.
AnnounceNothing(h) ==
    /\ h.stage = "arriving"
    /\ ~Queued(<<h.to, 0>>, "spawn", h.entity)
    /\ handoffs' = handoffs \ {h}
    /\ UNCHANGED <<actors, queue, sessions, connection>>

\* ... and, with the roster it gets back, tell the connection.
Announce(h) ==
    /\ h.stage = "arriving"
    /\ ~Queued(<<h.to, 0>>, "spawn", h.entity)
    /\ handoffs' = handoffs \ {h}
    /\ changed' = [changed EXCEPT ![h.entity] =
                     IF Online(h.entity) THEN Append(@, h.to) ELSE @]
    /\ UNCHANGED <<actors, queue, sessions, pc, at, dest, answer>>

\* MUTANT: the zone's name is not resolved to a layer.
FollowUnresolved(e) ==
    /\ pc[e] = "joined" /\ changed[e] # <<>>
    /\ at' = [at EXCEPT ![e] = Head(changed[e])]
    /\ changed' = [changed EXCEPT ![e] = Tail(@)]
    /\ UNCHANGED <<actors, queue, sessions, handoffs, pc, dest, answer>>

\* MUTANT: the session forwards ZoneChanged without following it.
ForwardZoneChange(e) ==
    /\ pc[e] = "joined" /\ changed[e] # <<>>
    /\ changed' = [changed EXCEPT ![e] = Tail(@)]
    /\ UNCHANGED <<actors, queue, sessions, handoffs, pc, at, dest, answer>>

\* The session takes ZoneChanged from its channel and talks to layer 0 of that
\* zone from here on.
FollowZoneChange(e) ==
    /\ pc[e] = "joined" /\ changed[e] # <<>>
    /\ at' = [at EXCEPT ![e] = <<Head(changed[e]), 0>>]
    /\ changed' = [changed EXCEPT ![e] = Tail(@)]
    /\ UNCHANGED <<actors, queue, sessions, handoffs, pc, dest, answer>>
----------------------------------------------------------------------------
\* JoinGroupLayer (or an accepted invitation): a groupmate is on another layer
\* of this zone; the own position is asked for first.
AskToHop(e) ==
    /\ pc[e] = "joined" /\ e \in Hoppers
    /\ \E f \in Fellows[e] :
          /\ Online(f)
          /\ \E p \in JoinLayerOf(at[e][1], f) \ {at[e]} :
                dest' = [dest EXCEPT ![e] = p]
    /\ Send(at[e], Command("position_of", e))
    /\ answer' = [answer EXCEPT ![e] = "none"]
    /\ Goto(e, "asking")
    /\ UNCHANGED <<actors, sessions, handoffs, changed, at>>

Abandon(e) ==
    /\ pc[e] = "asking" /\ answer[e] = "absent"
    /\ dest' = [dest EXCEPT ![e] = None]
    /\ answer' = [answer EXCEPT ![e] = "none"]
    /\ Goto(e, "joined")
    /\ UNCHANGED <<actors, queue, sessions, handoffs, changed, at>>

\* MUTANT: despawn_from_layer forgets the Sessions map.
HopKeepsSession(e) ==
    /\ pc[e] = "asking" /\ answer[e] = "present"
    /\ queue' = [p \in Place |->
                   CASE p = at[e]   -> Append(queue[p], Command("despawn", e))
                     [] p = dest[e] -> Append(queue[p], Command("spawn", e))
                     [] OTHER       -> queue[p]]
    /\ sessions' = [sessions EXCEPT ![dest[e]] = @ \cup {e}]
    /\ Goto(e, "hopping")
    /\ UNCHANGED <<actors, handoffs, changed, at, dest, answer>>

\* perform_group_layer_move: despawn_from_layer, then spawn_into_layer ...
Hop(e) ==
    /\ pc[e] = "asking" /\ answer[e] = "present"
    /\ queue' = [p \in Place |->
                   CASE p = at[e]   -> Append(queue[p], Command("despawn", e))
                     [] p = dest[e] -> Append(queue[p], Command("spawn", e))
                     [] OTHER       -> queue[p]]
    /\ sessions' = [p \in Place |->
                      CASE p = at[e]   -> sessions[p] \ {e}
                        [] p = dest[e] -> sessions[p] \cup {e}
                        [] OTHER       -> sessions[p]]
    /\ Goto(e, "hopping")
    /\ UNCHANGED <<actors, handoffs, changed, at, dest, answer>>

\* ... and after the roster's answer the session's zone is the new layer.
Settle(e) ==
    /\ pc[e] = "hopping"
    /\ ~Queued(dest[e], "spawn", e)
    /\ at' = [at EXCEPT ![e] = dest[e]]
    /\ dest' = [dest EXCEPT ![e] = None]
    /\ answer' = [answer EXCEPT ![e] = "none"]
    /\ Goto(e, "joined")
    /\ UNCHANGED <<actors, queue, sessions, handoffs, changed>>
----------------------------------------------------------------------------
\* The socket closes: the loop ends, whatever is left in the channel ...
Close(e) ==
    /\ pc[e] = "joined"
    /\ Goto(e, "closing")
    /\ UNCHANGED <<actors, queue, sessions, handoffs, changed, at, dest, answer>>

\* ... and after the leave hook the zone it knows of is cleaned up.
Depart(e) ==
    /\ pc[e] = "closing"
    /\ Send(at[e], Command("despawn", e))
    /\ sessions' = [sessions EXCEPT ![at[e]] = @ \ {e}]
    /\ changed' = [changed EXCEPT ![e] = <<>>]
    /\ Goto(e, "gone")
    /\ UNCHANGED <<actors, handoffs, at, dest, answer>>

\* A `?` returns early, without any clean-up.
Fail(e) ==
    /\ pc[e] \in {"hydrating", "joined", "hopping"}
    /\ changed' = [changed EXCEPT ![e] = <<>>]
    /\ Goto(e, "failed")
    /\ UNCHANGED <<actors, queue, sessions, handoffs, at, dest, answer>>
----------------------------------------------------------------------------
Session(e) ==
    \/ JoinGroupmate(e) \/ JoinAssigned(e) \/ Register(e)
    \/ Walk(e) \/ FollowZoneChange(e)
    \/ AskToHop(e) \/ Abandon(e) \/ Hop(e) \/ Settle(e)
    \/ Close(e) \/ Depart(e) \/ Fail(e)

Next ==
    \/ \E e \in Entity : Session(e)
    \/ \E p \in Place : Take(p) \/ Tick(p)
    \/ \E h \in handoffs : Arrive(h) \/ Announce(h)

Spec == Init /\ [][Next]_vars

\* The actors take their commands, ticks and crossing tasks are scheduled, and
\* the sessions' loops turn; select! chooses among its ready branches at random, so
\* requests cannot keep it from its channel for ever.  No client has to act.
CarryOf(e) == \E h \in handoffs : h.entity = e /\ (Arrive(h) \/ Announce(h))
LoopOf(e)  == Register(e) \/ Abandon(e) \/ Hop(e) \/ Settle(e) \/ Depart(e)

FairSpec ==
    /\ Spec
    /\ \A p \in Place : WF_vars(Take(p)) /\ WF_vars(Tick(p))
    /\ \A e \in Entity :
          WF_vars(CarryOf(e)) /\ WF_vars(LoopOf(e)) /\ SF_vars(FollowZoneChange(e))
----------------------------------------------------------------------------
Commands == [op : {"spawn", "despawn", "position_of"}, entity : Entity]
               \cup [op : {"move"}, entity : Entity, to : Zone]
Handoffs == [entity : Entity, to : Zone, stage : {"leaving", "arriving"}]

\* Every variable has its type.
TypeOK ==
    /\ layers \in [Zone -> 1..MaxLayers]
    /\ world \in [Place -> SUBSET Entity]
    /\ queue \in [Place -> Seq(Commands)]
    /\ moves \in [Place -> [Entity -> Zone \cup {None}]]
    /\ sessions \in [Place -> SUBSET Entity]
    /\ handoffs \subseteq Handoffs
    /\ changed \in [Entity -> Seq(Zone)]
    /\ pc \in [Entity -> {"new", "hydrating", "joined", "asking", "hopping",
                          "closing", "gone", "failed"}]
    /\ at \in [Entity -> Place \cup {None}]
    /\ dest \in [Entity -> Place \cup {None}]
    /\ answer \in [Entity -> {"none", "present", "absent"}]

\* A connection gets the broadcasts of one layer at most, however its task, the
\* ticks and the crossing tasks interleave (zone_registry.rs: "never every
\* connection on the process, and never another layer of the same zone").
OneLayerAtATime ==
    \A e \in Entity : \A p, q \in Place :
        e \in sessions[p] /\ e \in sessions[q] => p = q

\* The inductive invariant behind it, for clients that walk or hop but not both:
\* a player on its way through a link, or not in the loop yet, is in no Sessions
\* map; a hopper is only in that of the layer its session has, or hops to, and
\* nothing that could take it through a link is queued.
NoneWhileCrossing ==
    \A h \in handoffs : h.stage = "leaving" =>
        /\ \A p \in Place : h.entity \notin sessions[p]
        /\ \A k \in handoffs : k.stage = "leaving" /\ k.entity = h.entity => k = h

NoneWhileJoining ==
    \A e \in Entity : pc[e] \in {"new", "hydrating"} =>
        /\ \A p \in Place : e \notin sessions[p]
        /\ \A h \in handoffs : h.entity # e

HoppersStayPut ==
    \A e \in Hoppers :
        /\ changed[e] = <<>>
        /\ \A h \in handoffs : h.entity # e
        /\ \A p \in Place :
              /\ moves[p][e] = None
              /\ \A i \in DOMAIN queue[p] :
                    queue[p][i].op = "move" => queue[p][i].entity # e

HoppersWhereTheyTalk ==
    \A e \in Hoppers, p \in Place : e \in sessions[p] =>
        /\ pc[e] \in {"joined", "asking", "closing"} => p = at[e]
        /\ pc[e] = "hopping" => p = dest[e]

PresenceInv ==
    /\ OneLayerAtATime
    /\ NoneWhileCrossing
    /\ NoneWhileJoining
    /\ HoppersStayPut
    /\ HoppersWhereTheyTalk

InFlight(e) ==
    \/ \E h \in handoffs : h.entity = e
    \/ \E p \in Place : Queued(p, "spawn", e) \/ Queued(p, "despawn", e)

Settled(e) == pc[e] = "joined" /\ changed[e] = <<>> /\ ~InFlight(e)

\* Once nothing about a connected player is under way, it stands in exactly the
\* world, and in exactly the Sessions map, of the layer its session talks to.
SettledInPlace ==
    \A e \in Entity : Settled(e) =>
        /\ {p \in Place : e \in world[p]} = {at[e]}
        /\ {p \in Place : e \in sessions[p]} = {at[e]}

\* A player in the select loop is never lost to everyone's sight: some layer's
\* Sessions has it, unless the task that is to put it into one is under way.
\* Holds even where a crossing and a hop of one player interleave.
NeverLost ==
    \A e \in Entity : pc[e] \in {"joined", "asking", "hopping", "closing"} =>
        \/ \E p \in Place : e \in sessions[p]
        \/ \E h \in handoffs : h.entity = e /\ h.stage = "leaving"

\* A zone runs no more layers than its players ever called for: each layer
\* after the first was started for one more player than the full ones before
\* it held.
LayersEarned ==
    \A z \in Zone : Threshold * (layers[z] - 1) < Cardinality(Entity)

\* A player who was taken out of its zone by a crossing comes to be in place, its
\* session included, on layer 0 of the zone behind the link, or has disconnected.
CrossingsComplete ==
    \A e \in Entity, z \in Zone :
        (\E h \in handoffs : h.entity = e /\ h.to = z)
            ~> (Settled(e) /\ at[e] = <<z, 0>>) \/ pc[e] \in {"gone", "failed"}
----------------------------------------------------------------------------
Transit(z) == <<"transit", z>>

\* Presence, as far as the Sessions maps and the crossing tasks hold it.
PlaceOf(e) ==
    IF \E p \in Place : e \in sessions[p]
       THEN CHOOSE p \in Place : e \in sessions[p]
       ELSE IF \E h \in handoffs : h.entity = e /\ h.stage = "leaving"
          THEN Transit((CHOOSE h \in handoffs : h.entity = e /\ h.stage = "leaving").to)
          ELSE IF pc[e] \in {"new", "hydrating"} THEN <<"outside">> ELSE <<"gone">>

Presence == [e \in Entity |-> PlaceOf(e)]

Abstract == INSTANCE Placement WITH
    Outside <- <<"outside">>, Gone <- <<"gone">>, place <- Presence

\* Sessions, ticks and crossing tasks together implement Placement: presence
\* moves along links and between layers of one zone, and nowhere else.
ImplementsPlacement == Abstract!Spec
----------------------------------------------------------------------------
(* What the repository says of this program and the program does not do.   *)

\* A player whose connection was closed in order is in no world any more.
\* A crossing that was under way puts it back.
ClosedLeavesNothing ==
    \A e \in Entity : pc[e] = "gone" /\ ~InFlight(e) =>
        \A p \in Place : e \notin world[p] /\ e \notin sessions[p]
=============================================================================
