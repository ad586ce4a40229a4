------------------------------ MODULE MCGames -------------------------------
(* The games the Catalog runs start servers on: one that is in order, and    *)
(* copies of it with a single entry changed.                                 *)
EXTENDS Integers, Sequences, FiniteSets

CONSTANTS None, Blank

Entry(item, tags) == [item |-> item, name |-> item, tags |-> tags, object |-> TRUE]
Recipe(key, inputs, item, amount, requires, grants) ==
    [key |-> key, inputs |-> inputs, output |-> [item |-> item, amount |-> amount],
     requires |-> requires, grants |-> grants]
Of(item, amount) == [item |-> item, amount |-> amount]
Grant(stat, chance) == [stat |-> stat, amount |-> 1, chance |-> chance, below |-> None]
Below(stat, ceiling) == [stat |-> stat, amount |-> 5, chance |-> None, below |-> ceiling]

Square == <<<<0, 0>>, <<10, 0>>, <<10, 10>>, <<0, 10>>>>
Mesh == [digest |-> "mesh", format |-> "navmesh_v1", polygons |-> <<Square>>]
Declared(id, links, tables) ==
    [entry |-> id,
     manifest |-> [format |-> "supported", id |-> id, name |-> id, bounds |-> Square,
                   asset |-> "mesh", links |-> links, tables |-> tables,
                   routes |-> <<[key |-> "round", waypoints |-> <<<<1, 1>>, <<2, 2>>>>, speed |-> 1]>>,
                   triggers |-> <<[key |-> "bell", shape |-> "circle", center |-> <<5, 5>>,
                                   radius |-> 1]>>]]
Link(target) == [target |-> target, edge |-> <<<<10, 4>>, <<11, 6>>>>]
Table(key, points, route) == [key |-> key, points |-> points, route |-> route]

Wood == Declared("wood", <<Link("village")>>, <<Table("wolves", <<<<3, 3>>>>, "round")>>)
Village == Declared("village", <<>>, <<>>)

Game ==
    [stats |-> <<[key |-> "hp", default |-> 5, min |-> 0, max |-> 9],
                 [key |-> "xp", default |-> 0, min |-> None, max |-> None]>>,
     archetypes |-> <<[key |-> "hunter", presets |-> [hp |-> 7]],
                      [key |-> "smith", presets |-> [hp |-> 5, xp |-> 1]]>>,
     recipes |-> <<Recipe("knife", <<Of("fang", 2)>>, "knife", 1,
                          <<[stat |-> "xp", min |-> 0]>>, <<Grant("xp", 50), Grant("hp", None)>>)>>,
     slots |-> <<"hand", "head">>,
     gear |-> <<[item |-> "knife", slot |-> "hand", deltas |-> [hp |-> 1]]>>,
     currencies |-> <<[key |-> "gold", ladder |-> <<[key |-> "copper", ratio |-> 1],
                                                    [key |-> "silver", ratio |-> 4]>>],
                      [key |-> "honor", ladder |-> <<>>]>>,
     parties |-> <<[key |-> "group"]>>,
     ranks |-> <<[key |-> "chief"], [key |-> "member"]>>,
     channels |-> <<[category |-> "trade", scope |-> "global", auto_join |-> FALSE],
                    [category |-> "local", scope |-> "zone", auto_join |-> TRUE]>>,
     zones |-> <<Wood, Village>>, bundled |-> TRUE, wanted |-> None,
     assets |-> [mesh |-> Mesh]]

Recipes(r) == [Game EXCEPT !.recipes = <<r>>]
Gears(g) == [Game EXCEPT !.gear = Append(@, g)]
Ladder(ratios) ==
    [Game EXCEPT !.currencies[1].ladder =
        [i \in DOMAIN ratios |->
            [key |-> <<"copper", "silver", "gold">>[i], ratio |-> ratios[i]]]]
Tables(t) == [Game EXCEPT !.zones[1].manifest.tables = Append(@, t)]

BadItems == {
    Recipes(Recipe("knife", <<>>, "knife", 1, <<>>, <<>>)),
    Recipes(Recipe("knife", <<Of("fang", 0)>>, "knife", 1, <<>>, <<>>)),
    Recipes(Recipe("knife", <<Of("fang", -1)>>, "knife", 1, <<>>, <<>>)),
    Recipes(Recipe("knife", <<Of("tooth", 1)>>, "knife", 1, <<>>, <<>>)),
    Recipes(Recipe("knife", <<Of("fang", 1)>>, "fang", 1, <<>>, <<>>)),
    Recipes(Recipe("knife", <<Of("fang", 1)>>, "knife", 1, <<[stat |-> "mp", min |-> 0]>>, <<>>)),
    Recipes(Recipe("knife", <<Of("fang", 1)>>, "knife", 1, <<>>, <<Grant("mp", None)>>)),
    Recipes(Recipe("knife", <<Of("fang", 1)>>, "knife", 1, <<>>, <<Grant("xp", 150)>>)),
    Recipes(Recipe("knife", <<Of("fang", 1), Of("fang", 1)>>, "knife", 1, <<>>, <<>>)),
    Recipes(Recipe("knife", <<Of("fang", 2), Of("fang", 1)>>, "knife", 1, <<>>, <<>>)),
    Recipes(Recipe("knife", <<Of("knife", 1), Of("fang", 1)>>, "knife", 2, <<>>,
                   <<Below("hp", 9), Grant("hp", 50)>>)),
    Recipes(Recipe("knife", <<Of("fang", 1)>>, "knife", 1, <<[stat |-> "hp", min |-> 12]>>, <<>>)),
    Gears([item |-> "knife", slot |-> "head", deltas |-> <<>>]),
    Gears([item |-> "fang", slot |-> "head", deltas |-> <<>>]),
    Gears([item |-> "helm", slot |-> "feet", deltas |-> <<>>]),
    Gears([item |-> "helm", slot |-> "head", deltas |-> [mp |-> 1]]),
    [Game EXCEPT !.slots = <<"hand", "hand">>] }

BadRules == {
    [Game EXCEPT !.archetypes[1].presets = [hp |-> 10]],
    [Game EXCEPT !.archetypes[1].presets = [hp |-> -1]],
    [Game EXCEPT !.archetypes[1].presets = [mp |-> 0]],
    [Game EXCEPT !.stats[1].default = 20],
    [Game EXCEPT !.stats = Append(@, [key |-> "luck", default |-> 0, min |-> 3, max |-> 1]),
                 !.recipes[1].grants = <<Grant("luck", None)>>],
    Ladder(<<4, 1>>), Ladder(<<0, 4>>), Ladder(<<1, 1>>), Ladder(<<3, 5>>), Ladder(<<1, 2, 5>>),
    [Game EXCEPT !.ranks = <<[key |-> "chief"], [key |-> "member"], [key |-> "chief"]>>],
    [Game EXCEPT !.ranks = <<[key |-> "chief"]>>],
    [Game EXCEPT !.parties = <<>>],
    [Game EXCEPT !.channels[1].auto_join = TRUE] }

BadPlaces == {
    Tables(Table("boars", <<>>, None)), Tables(Table("boars", <<<<12, 3>>>>, None)),
    Tables(Table("boars", <<<<3, 3>>>>, "nowhere")), Tables(Table("boars", <<<<3, 3>>>>, None)),
    Tables(Table("wolves", <<<<3, 3>>>>, None)),
    [Game EXCEPT !.zones[1].manifest.bounds = <<<<0, 0>>, <<10, 0>>, <<20, 0>>>>],
    [Game EXCEPT !.zones[1].manifest.links[1].edge = <<<<10, 4>>, <<12, 6>>>>],
    [Game EXCEPT !.zones[1].manifest.links[1].target = "sea"],
    [Game EXCEPT !.zones[1].manifest.id = "forest"],
    [Game EXCEPT !.zones[1].manifest.name = Blank],
    [Game EXCEPT !.zones[1].manifest.asset = "lost"],
    [Game EXCEPT !.zones = <<Wood>>, !.bundled = FALSE],
    [Game EXCEPT !.wanted = {"wood"}], [Game EXCEPT !.wanted = {"wood", "sea"}],
    [Game EXCEPT !.wanted = {}], [Game EXCEPT !.assets.mesh.digest = "other"] }

MCConfigDir == {Game} \cup BadItems \cup BadRules \cup BadPlaces

MCOnLoad == << <<Entry("fang", <<>>), Entry("knife", <<"craftable_output">>)>>,
               <<Entry("knife", <<"craftable_output", "equippable">>),
                 Entry("helm", <<"equippable">>), Entry("pelt", <<"rare", "rare">>)>> >>
MCItem == {"fang", "knife", "helm", "pelt"}
MCHookEntry == {Entry("knife", <<>>), Entry("pelt", <<"rare">>), Entry("helm", <<"rare", "rare">>)}
MCCliEntry == {Entry("knife", <<"tradeable">>), Entry("fang", <<>>)}
=============================================================================
