------------------------------ MODULE MCGuild ------------------------------
(* Three accounts, two guild ids and two ranks: the founder's, and one     *)
(* that may invite and kick as the officers of                             *)
(* config/guild.schema.example.yaml may.                                   *)
EXTENDS Guild, TLC

CONSTANTS a1, a2, a3, g1, g2, leader, fellow

MCAccount  == {a1, a2, a3}
MCGuildIds == {g1, g2}
MCRank     == {leader, fellow}
MCMay      == (leader :> {"invite", "kick", "promote", "demote"}) @@
              (fellow :> {"invite", "kick"})

MCSymmetry == Permutations(MCAccount) \cup Permutations(MCGuildIds)
=============================================================================
