----------------------------- MODULE MCExchange -----------------------------
(* Two parts, each on its own: trade sessions and chat channels of two      *)
(* players, with two zones and two names, one of them the zone channels'.    *)
EXTENDS Exchange, TLC

CONSTANTS c1, c2, nothing, gem, t1, t2, z1, z2, pub

VARIABLE part       \* "trade", or the name of the group channels that chat makes

chat == <<channels, members, zone, joined, forwarders, sent, call, owed, cut>>

MCEntity  == {c1, c2}
MCOffer   == {nothing, gem}
MCSession == {t1, t2}
MCZone    == {z1, z2}

\* Each connection is named as its account.
MCAccountOf == [c \in MCEntity |-> c]
MCName      == {pub, AutoKey}

ASSUME TradeAssumption

MCInit == Init /\ C!Init /\ part \in {"trade"} \cup Name
MCNext ==
    \/ part = "trade" /\ Next /\ UNCHANGED <<part, chat>>
    \/ /\ part \in Name /\ C!Next /\ UNCHANGED <<part, vars>>
       /\ \A c \in Client : call'[c].at = "creating" => call'[c].key = part
MCSpec == MCInit /\ [][MCNext]_<<part, vars, chat>>

Names == Permutations(MCEntity) \cup Permutations(MCSession) \cup Permutations(MCZone)
=============================================================================
