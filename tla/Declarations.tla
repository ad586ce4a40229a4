---------------------------- MODULE Declarations ----------------------------
(***************************************************************************)
(* What a game declares of itself - stats, archetypes, recipes, equipment, *)
(* currencies, party types, guild ranks, system channels, zones - as the   *)
(* loaders accept it, and what the running server makes of it.  A file is  *)
(* a record or a sequence of records in declared order; a parse error is   *)
(* left out: it is one more way to be refused.                             *)
(***************************************************************************)
EXTENDS Geometry, SequencesExt, Functions

CONSTANTS
    None,
    Blank,          \* a text that is empty when trimmed
    AssetRef,       \* well-formed references: sha256: and 64 hex digits
    Roll            \* probabilities, in percent, from 0 to 100

Distinct(list, Field(_)) == IsInjective([i \in DOMAIN list |-> Field(list[i])])
KeysDistinct(list) == Distinct(list, LAMBDA d : d.key)

\* The first declaration with the key; 0 for none.
Find(list, key) == SelectInSeq(list, LAMBDA d : d.key = key)

--------------------------------------------------- (* stats.schema.yaml *)

declares(stats, key) == Find(stats, key) # 0

InBounds(decl, value) ==
    /\ decl.min # None => value >= decl.min
    /\ decl.max # None => value <= decl.max

validate_write(stats, key, value) ==
    declares(stats, key) /\ InBounds(stats[Find(stats, key)], value)

clamp(decl, value) ==
    LET raised == IF decl.min # None /\ value < decl.min THEN decl.min ELSE value
    IN  IF decl.max # None /\ raised > decl.max THEN decl.max ELSE raised

------------------------- (* the item catalog, and what is declared about it *)

validate_entry(entry) ==
    /\ entry.item # Blank /\ entry.name # Blank
    /\ Blank \notin Range(entry.tags) /\ IsInjective(entry.tags)
    /\ entry.object                     \* the metadata is a JSON object

HasTag(known, item, tag) == item \in DOMAIN known /\ tag \in known[item]

\* Mutant: requires and grants may name any stat.
AcceptsRecipeOfAnyStat(recipe, stats, known) ==
    /\ recipe.inputs # <<>>
    /\ \A input \in Range(recipe.inputs) :
        input.amount > 0 /\ input.item \in DOMAIN known
    /\ recipe.output.amount > 0
    /\ HasTag(known, recipe.output.item, "craftable_output")

AcceptsRecipe(recipe, stats, known) ==
    /\ recipe.inputs # <<>>
    /\ \A input \in Range(recipe.inputs) :
        input.amount > 0 /\ input.item \in DOMAIN known
    /\ recipe.output.amount > 0
    /\ HasTag(known, recipe.output.item, "craftable_output")
    /\ \A need \in Range(recipe.requires) : declares(stats, need.stat)
    /\ \A grant \in Range(recipe.grants) :
        declares(stats, grant.stat) /\ (grant.chance # None => grant.chance \in Roll \ {0})

AcceptsRecipes(recipes, stats, known) ==
    /\ recipes # <<>> /\ KeysDistinct(recipes)
    /\ \A recipe \in Range(recipes) : AcceptsRecipe(recipe, stats, known)

AcceptsEquipment(slots, gear, stats, known) ==
    /\ slots # <<>> /\ IsInjective(slots)
    /\ Distinct(gear, LAMBDA g : g.item)
    /\ \A g \in Range(gear) :
        /\ g.slot \in Range(slots)
        /\ HasTag(known, g.item, "equippable")
        /\ \A key \in DOMAIN g.deltas : declares(stats, key)

\* craft_item reads every input it lists before it writes any.  It writes one for
\* each listed; the one that leaves nothing deletes the row, and of an item that is
\* listed twice no other then finds it.  Not enough of one and nothing is changed.
StockAfter(recipe, owned) ==
    LET listed(item) == SelectSeq(recipe.inputs, LAMBDA i : i.item = item)
        left(item) == IF listed(item) = <<>> THEN owned[item]
                      ELSE IF \E i \in Range(listed(item)) : owned[item] = i.amount THEN 0
                      ELSE owned[item] - Last(listed(item)).amount
    IN  [item \in DOMAIN owned |->
            left(item) + (IF item = recipe.output.item THEN recipe.output.amount ELSE 0)]

\* A grant: not above its ceiling, and clamped.
Granted(stats, values, grant) ==
    IF grant.below # None /\ values[grant.stat] >= grant.below THEN values
    ELSE [values EXCEPT ![grant.stat] = clamp(stats[Find(stats, grant.stat)], @ + grant.amount)]

\* What a character has after a craft, when the grants in hits came up; None where
\* it fails, which changes nothing.
craft_item(stats, recipe, owned, values, hits) ==
    IF /\ \A need \in Range(recipe.requires) :
            declares(stats, need.stat) /\ values[need.stat] >= need.min
       /\ \A input \in Range(recipe.inputs) : owned[input.item] >= input.amount
       /\ \A i \in hits : declares(stats, recipe.grants[i].stat)
    THEN [owned |-> StockAfter(recipe, owned),
          values |-> FoldLeft(LAMBDA v, i : IF i \in hits THEN Granted(stats, v, recipe.grants[i])
                                            ELSE v,
                              values, [i \in DOMAIN recipe.grants |-> i])]
    ELSE None

------------------------------------- (* archetypes, currencies, ranks, channels *)

AcceptsArchetypes(archetypes, stats) ==
    /\ archetypes # <<>> /\ KeysDistinct(archetypes)
    /\ \A a \in Range(archetypes) :
        \A key \in DOMAIN a.presets : validate_write(stats, key, a.presets[key])

AcceptsCurrencies(currencies) ==
    /\ currencies # <<>> /\ KeysDistinct(currencies)
    /\ \A c \in Range(currencies) :
        /\ KeysDistinct(c.ladder)
        /\ \A i \in DOMAIN c.ladder :
            /\ c.ladder[i].ratio > 0
            /\ i > 1 => c.ladder[i].ratio > c.ladder[i - 1].ratio

\* How many of each denomination, the largest first; what no denomination
\* divides is left over.
breakdown(ladder, balance) ==
    LET left[i \in 1..Len(ladder) + 1] ==
            IF i > Len(ladder) THEN balance ELSE left[i + 1] % ladder[i].ratio
    IN  IF ladder = <<>> THEN <<balance>>
        ELSE [i \in DOMAIN ladder |-> left[i + 1] \div ladder[i].ratio]

AcceptsParties(types) == types # <<>>
AcceptsRanks(ranks) == ranks # <<>> /\ KeysDistinct(ranks)

AcceptsChannels(channels) ==
    \A c \in Range(channels) : c.auto_join => c.scope = "zone"

----------------------------------------- (* zone.manifest.yaml, content-pack.yaml *)

polygon_signed_area(points) ==      \* twice the area
    MapThenSumSet(LAMBDA i : LET q == points[(i % Len(points)) + 1]
                             IN  points[i][1] * q[2] - q[1] * points[i][2],
                  DOMAIN points)

\* Within one metre of the segment from a to b: its squared distance is not
\* above 1, with the foot of the perpendicular clamped to the segment.
OnSegment(p, a, b) ==
    LET d == <<b[1] - a[1], b[2] - a[2]>>
        v == <<p[1] - a[1], p[2] - a[2]>>
        w == <<p[1] - b[1], p[2] - b[2]>>
        len == d[1] * d[1] + d[2] * d[2]
        along == v[1] * d[1] + v[2] * d[2]
        off == v[1] * d[2] - v[2] * d[1]
    IN  IF along <= 0 THEN v[1] * v[1] + v[2] * v[2] <= 1
        ELSE IF along >= len THEN w[1] * w[1] + w[2] * w[2] <= 1
        ELSE off * off <= len

OnBoundary(p, points) ==
    \E i \in DOMAIN points : OnSegment(p, points[i], points[(i % Len(points)) + 1])

AcceptsManifest(m) ==
    /\ m.format = "supported"   \* version, shape, units and collision format
    /\ Blank \notin {m.id, m.name}
    /\ Len(m.bounds) >= 3 /\ polygon_signed_area(m.bounds) # 0
    /\ m.asset \in AssetRef
    /\ \A link \in Range(m.links) :
        Len(link.edge) = 2 /\ \A p \in Range(link.edge) : OnBoundary(p, m.bounds)
    /\ KeysDistinct(m.routes) /\ KeysDistinct(m.tables) /\ KeysDistinct(m.triggers)
    /\ \A route \in Range(m.routes) : Len(route.waypoints) >= 2 /\ route.speed > 0
    /\ \A t \in Range(m.tables) :
        /\ t.points # <<>>
        /\ \A p \in Range(t.points) : PointInPolygon(p, m.bounds)
        /\ t.route # None => Find(m.routes, t.route) # 0
    /\ \A t \in Range(m.triggers) :
        t.shape = "circle" /\ t.radius > 0 /\ PointInPolygon(t.center, m.bounds)

\* from_asset_store: found, of the digest it is named for, and shaped.
AcceptsNavMesh(assets, m) ==
    /\ m.asset \in DOMAIN assets
    /\ assets[m.asset].digest = m.asset /\ assets[m.asset].format = "navmesh_v1"
    /\ assets[m.asset].polygons # <<>>
    /\ \A polygon \in Range(assets[m.asset].polygons) : Len(polygon) >= 3

ZoneIds(zones) == {z.manifest.id : z \in Range(zones)}

\* A pack names its zones once more and links only zones of its own; without a
\* pack there is one zone, and nobody asks where its links lead.
AcceptsZones(zones, bundled) ==
    /\ zones # <<>>
    /\ \A z \in Range(zones) :
        /\ AcceptsManifest(z.manifest)
        /\ bundled => /\ z.entry = z.manifest.id
                      /\ \A link \in Range(z.manifest.links) :
                            link.target \in ZoneIds(zones)

\* WZ_ZONE_IDS, when it is set: only the zones it names, and it may name no other.
AcceptsFilter(zones, wanted) ==
    wanted # None => wanted # {} /\ wanted \subseteq ZoneIds(zones)
apply_zone_ids_filter(zones, wanted) ==
    IF wanted = None THEN zones ELSE SelectSeq(zones, LAMBDA z : z.manifest.id \in wanted)

------------------------------------------------- (* the files, as main reads them *)

AcceptsPlaces(files) ==
    /\ AcceptsZones(files.zones, files.bundled)
    /\ AcceptsFilter(files.zones, files.wanted)
    /\ \A z \in Range(apply_zone_ids_filter(files.zones, files.wanted)) :
        AcceptsNavMesh(files.assets, z.manifest)

AcceptsSchemas(files, known) ==
    /\ AcceptsParties(files.parties) /\ AcceptsRanks(files.ranks)
    /\ AcceptsArchetypes(files.archetypes, files.stats)
    /\ AcceptsRecipes(files.recipes, files.stats, known)
    /\ AcceptsCurrencies(files.currencies)
    /\ AcceptsEquipment(files.slots, files.gear, files.stats, known)
    /\ AcceptsChannels(files.channels)

Referenced(files) ==
    {g.item : g \in Range(files.gear)}
    \cup UNION {{r.output.item} \cup {i.item : i \in Range(r.inputs)} : r \in Range(files.recipes)}

=============================================================================
