------------------------------ MODULE Geometry ------------------------------
(***************************************************************************)
(* The geometry WorldZero decides movement by: the ray-casting test of the *)
(* zone's flat bounds, the crossing of a link, and the navmesh polygon     *)
(* that carries a point.  Pure operators; a point is a tuple of integers   *)
(* in half-metres, and every division of the code is multiplied out.       *)
(***************************************************************************)
EXTENDS Integers, Sequences, FiniteSetsExt

CONSTANT HeightTolerance    \* HEIGHT_TOLERANCE_METERS, in half-metres

Flat(p) == <<p[1], p[2]>>

Magnitude(n) == IF n < 0 THEN -n ELSE n

\* Distances are compared, never used otherwise: their squares are enough.
DistanceSq(a, b) ==
    LET d(i) == a[i] - b[i] IN d(1) * d(1) + d(2) * d(2) + d(3) * d(3)

------------------------------------------------------------------- (* links *)

Orientation(a, b, c) ==
    (b[1] - a[1]) * (c[2] - a[2]) - (b[2] - a[2]) * (c[1] - a[1])

\* A segment that only touches the other has no strict change of sign.
SegmentsIntersect(p1, p2, p3, p4) ==
    /\ (Orientation(p3, p4, p1) > 0) # (Orientation(p3, p4, p2) > 0)
    /\ (Orientation(p1, p2, p3) > 0) # (Orientation(p1, p2, p4) > 0)

\* The links the move goes through; the first declared one is taken.
CrossedLinks(links, from, to) ==
    {i \in DOMAIN links :
        /\ Len(links[i].edge) >= 2
        /\ SegmentsIntersect(Flat(from), Flat(to),
                             links[i].edge[1], links[i].edge[2])}

---------------------------------------------------------------- (* polygons *)

\* The edge from a to b crosses the ray that leaves p towards larger x.
CrossesRay(p, a, b) ==
    /\ (a[2] > p[2]) # (b[2] > p[2])
    /\ LET run  == (p[2] - b[2]) * (a[1] - b[1])
           rise == a[2] - b[2]
       IN  IF rise > 0 THEN (p[1] - b[1]) * rise < run
                       ELSE (p[1] - b[1]) * rise > run

Previous(polygon, i) == polygon[IF i = 1 THEN Len(polygon) ELSE i - 1]

PointInPolygon(p, polygon) ==
    Cardinality({i \in DOMAIN polygon :
                    CrossesRay(p, polygon[i], Previous(polygon, i))}) % 2 = 1

\* Newell's normal of a polygon, unnormalised.
Normal(polygon) ==
    LET next(i) == polygon[(i % Len(polygon)) + 1]
        sum(f(_, _)) == MapThenSumSet(LAMBDA i : f(polygon[i], next(i)), DOMAIN polygon)
    IN  << sum(LAMBDA v, w : (v[2] - w[2]) * (v[3] + w[3])),
           sum(LAMBDA v, w : (v[3] - w[3]) * (v[1] + w[1])),
           sum(LAMBDA v, w : (v[1] - w[1]) * (v[2] + w[2])) >>

\* The polygon's own plane at (x, y) is within the tolerance of z; a wall
\* has no such height.
AtItsHeight(p, polygon) ==
    LET n == Normal(polygon)
        v == polygon[1]
        off == (p[3] - v[3]) * n[3] + n[1] * (p[1] - v[1]) + n[2] * (p[2] - v[2])
    IN  /\ n[3] # 0
        /\ Magnitude(off) <= HeightTolerance * Magnitude(n[3])

PolygonContains(polygon, p) ==
    /\ PointInPolygon(Flat(p), polygon)
    /\ AtItsHeight(p, polygon)

ContainingPolygons(navmesh, p) ==
    {i \in DOMAIN navmesh : PolygonContains(navmesh[i], p)}

NavMeshContains(navmesh, p) == ContainingPolygons(navmesh, p) # {}

=============================================================================
