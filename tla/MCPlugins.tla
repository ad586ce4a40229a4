----------------------------- MODULE MCPlugins -----------------------------
(***************************************************************************)
(* Two zones, two players of the first one, and two plugins: `quests`      *)
(* keeps per-player state and rewards, `wolves` spawns and kills.          *)
(***************************************************************************)
EXTENDS Plugins

CONSTANTS z1, z2, p1, p2

MCHome == (p1 :> z1) @@ (p2 :> z1)

\* Two players leave fewer host calls to follow than one.
MCTwo == ({p1, p2} :> 2)
MCAlone == ({p1} :> 2) @@ ({p1, p2} :> 0)

quests == [host_api_version |-> 16, chat_commands |-> <<>>,
           capabilities |-> <<"economy">>, message_types |-> <<>>,
           hooks |-> <<"on-player-leave-zone", "on-item-acquire",
                       "on-damage-calc">>]

wolves == [host_api_version |-> 16, chat_commands |-> <<"wave">>,
           capabilities |-> <<"spawning", "combat">>, message_types |-> <<1000>>,
           hooks |-> <<"on-zone-loaded", "on-entity-spawn", "on-tick",
                       "on-death", "on-character-create">>]

MCLoadOrder == <<quests, wolves>>
=============================================================================
