------------------------------ MODULE MCTicks ------------------------------
(* Three parts, each on its own: the plugins and their dispatches; a zone's  *)
(* own ticks, in a corridor of four half-metre squares under a gallery, with *)
(* a ramp up to it; and a message of each protocol on its way.               *)
EXTENDS MCPlugins, Ticks

CONSTANTS Default, Other, Malformed, SlashCommand, None

VARIABLES
    part,           \* "plugins", "world" or "wire"
    message, path, frame, damaged, outcome

walk == <<entities, positions, cells, npc_routes, entity_types, requests, teleports, batch,
          phase, start, steps, placed, asked, owed, answered>>
wire == <<message, path, frame, damaged, outcome>>

\* An L: the corridor y in 0..2 for x in 0..8, its arm y in 2..6 for x in 0..2.
MCBounds == <<<<-1, -1>>, <<9, -1>>, <<9, 3>>, <<3, 3>>, <<3, 7>>, <<-1, 7>>>>

\* The corridor's floor, a wall across it (vertical: it carries nothing), the
\* gallery above its far end, and a ramp from the floor to the gallery.
MCNavMesh ==
    << <<<<-1, -1, 0>>, <<5, -1, 0>>, <<5, 3, 0>>, <<-1, 3, 0>>>>,
       <<<<5, -1, 0>>, <<5, 3, 0>>, <<5, 3, 4>>, <<5, -1, 4>>>>,
       <<<<3, -1, 4>>, <<9, -1, 4>>, <<9, 3, 4>>, <<3, 3, 4>>>>,
       <<<<-1, 3, 0>>, <<3, 3, 0>>, <<3, 7, 4>>, <<-1, 7, 4>>>> >>

\* A door in the corridor's near end, and a later one across the same line.
MCDoors ==
    << [edge |-> <<<<-1, -1>>, <<-1, 3>>>>, target_zone |-> "west"],
       [edge |-> <<<<-1, 0>>>>, target_zone |-> "nowhere"],
       [edge |-> <<<<-3, 1>>, <<-1, 5>>>>, target_zone |-> "far"] >>

MCTables == [guard |-> [point |-> <<2, 0>>, route |-> "round", entity_type |-> "npc.guard"],
             stray |-> [point |-> <<0, 0>>, route |-> "unknown", entity_type |-> "npc.stray"]]
MCRoutes == {"round"}

MCTargets ==
    [p1 |-> {<<2, 1, 0>>, <<4, 1, 0>>, <<4, 1, 4>>, <<-2, 1, 0>>},
     p2 |-> {<<2, 4, 2>>, <<3, 1, 0>>},
     n1 |-> {<<-2, 1, 0>>, <<3, 2, 0>>, <<4, 1, 2>>}]
MCSeqCap == [p1 |-> 2, p2 |-> 1]
MCSpawnPoints == {<<0, 1, 0>>}

\* Floor by floor, and the ramp by its slope.
MCFloor ==
    {p \in (0..8) \X (0..6) \X (-1..5) :
        \/ p[1] \in 0..4 /\ p[2] \in 0..2 /\ p[3] \in -1..1
        \/ p[1] \in 3..8 /\ p[2] \in 0..2 /\ p[3] \in 3..5
        \/ p[1] \in 0..2 /\ p[2] \in 3..6 /\ p[3] - (p[2] - 3) \in -1..1}

F == INSTANCE Wire WITH PluginType <- 1000, sent <- message

\* Who comes matters to the plugins' part only.
MCInit ==
    /\ Init /\ W!Init /\ F!Init
    /\ \/ part = "plugins"
       \/ part \in {"world", "wire"} /\ left = MaxRequests[Players]
MCNext ==
    \/ part = "plugins" /\ Next /\ UNCHANGED <<part, walk, wire>>
    \/ part = "world" /\ W!Next /\ UNCHANGED <<part, vars, wire>>
    \/ part = "wire" /\ F!Next /\ UNCHANGED <<part, vars, walk>>
MCSpec == MCInit /\ [][MCNext]_<<part, vars, walk, wire>> /\ Fairness

\* What is said of the messages says nothing while another part runs.
FramesReachTheirReader ==
    part = "wire" => F!ReadsWhatWasSent /\ F!CommandsAreConsumed
=============================================================================
