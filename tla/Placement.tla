----------------------------- MODULE Placement -----------------------------
(***************************************************************************)
(* What zones and layers promise about one player's presence: a session   *)
(* enters the game once, into one layer of one zone; from there it        *)
(* reaches another zone only through a link, landing on that zone's layer *)
(* 0, and another layer only within its zone; and it leaves once.         *)
(***************************************************************************)
CONSTANTS
    Entity,
    Place,            \* layers of zones, <<zone, layer>>
    Links,            \* <<zone, zone>>: the manifest's link edges
    Transit(_),       \* on the way to a zone
    Outside, Gone     \* before entering, after leaving

VARIABLE place

Init == place = [e \in Entity |-> Outside]

Become(e, p) == place' = [place EXCEPT ![e] = p]

Enter(e) == place[e] = Outside /\ \E p \in Place : Become(e, p)

\* Across a link, together with whoever else is taken out of p at once ...
Cross(p) ==
    \E group \in SUBSET {e \in Entity : place[e] = p} :
        \E way \in [group -> {link \in Links : link[1] = p[1]}] :
            place' = [e \in Entity |->
                        IF e \in group THEN Transit(way[e][2]) ELSE place[e]]

\* ... and onto layer 0 of the zone behind it.
Land(e) ==
    \E p \in Place : p[2] = 0 /\ place[e] = Transit(p[1]) /\ Become(e, p)

\* To another layer of the same zone.
Hop(e) ==
    \E p, q \in Place :
        place[e] = p /\ q[1] = p[1] /\ q[2] # p[2] /\ Become(e, q)

Leave(e) == place[e] # Gone /\ Become(e, Gone)

Next ==
    \/ \E e \in Entity : Enter(e) \/ Land(e) \/ Hop(e) \/ Leave(e)
    \/ \E p \in Place : Cross(p)

Spec == Init /\ [][Next]_place
=============================================================================
