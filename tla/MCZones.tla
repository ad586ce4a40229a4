------------------------------ MODULE MCZones ------------------------------
(* Two linked zones and a party of two, both of whom log in to the first.   *)
EXTENDS Zones

CONSTANTS e1, e2, z1, z2

MCEntity  == {e1, e2}
MCZone    == {z1, z2}
MCHome    == [e \in MCEntity |-> z1]
MCLinks   == {<<z1, z2>>, <<z2, z1>>}
MCFellows == [e \in MCEntity |-> MCEntity \ {e}]
=============================================================================
