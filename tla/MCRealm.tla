------------------------------ MODULE MCRealm ------------------------------
(* Two parts, each on its own: guilds, and parties of two and of three, of *)
(* three people.                                                           *)
EXTENDS MCGuild, Realm

CONSTANTS pair, trio

VARIABLE part       \* "guilds" or "parties"

parties == <<online, exists, invites, kind, member, pcall, leftTogether, cameTogether>>

MCType == {pair, trio}
MCCap  == pair :> 2 @@ trio :> 3

MCInit == Init /\ P!Init /\ part \in {"guilds", "parties"}
MCNext ==
    \/ part = "guilds" /\ Next /\ UNCHANGED <<part, parties>>
    \/ part = "parties" /\ P!Next /\ UNCHANGED <<part, vars>>
MCSpec == MCInit /\ [][MCNext]_<<part, vars, parties>>
=============================================================================
