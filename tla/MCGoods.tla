------------------------------ MODULE MCGoods ------------------------------
(* Three parts, each on its own.  The gear of a character who has two        *)
(* weapons for one hand, a helmet nobody declares any more and room for      *)
(* three stacks: with plugins that grant and take ore, and with plugins that *)
(* change the stat that both weapons change.  And calls of two characters on *)
(* the tables.                                                               *)
EXTENDS Goods, TLC

CONSTANTS blade, axe, helm, ore, hand, head, attack, speed,
          ann, ben, gem, hide, gold, p1, p2, p3

VARIABLE part       \* "items", "stats" or "tables"

tables == <<table, lock, view, call, pc, granted, current>>

MCItemType  == {blade, axe, helm, ore}
MCStat      == {attack, speed}
MCEquipSlot == {hand, head}
MCPosition  == {0, 1}
MCMinValue  == [k \in MCStat |-> 0]
MCMaxValue  == attack :> 3 @@ speed :> 1
MCInitial   == attack :> 1 @@ speed :> 1
MCCarried   == blade :> 1 @@ axe :> 1 @@ helm :> 0 @@ ore :> 0
MCWorn      == hand :> None @@ head :> helm

Equippable == (blade :> [slot |-> hand, deltas |-> attack :> 2 @@ speed :> -1])
           @@ (axe   :> [slot |-> hand, deltas |-> attack :> 1])

Requests ==
         [op : {"equip"}, item : {blade, axe, helm}]
    \cup [op : {"unequip"}, slot : {hand, head}]
    \cup [op : {"move"}, item : {axe, ore}, to : {0, 1, 2}]
    \cup [op : {"remove"}, item : {axe, ore}, n : {0, 1}]
Effects == [op : {"grant", "remove"}, item : {ore}, n : {1}]
      \cup [op : {"stat"}, stat : {attack}, by : {1, -1}]

MCWare      == {ore, gem, hide}
MCCurrency  == {gold}
MCCharacter == {ann, ben}
Cell        == MCCharacter \X (MCWare \cup MCCurrency)
Rows(amounts) == [r \in Cell |-> IF r \in DOMAIN amounts THEN amounts[r] ELSE 0]
Zero == [r \in Cell |-> 0]

AnnOre  == <<ann, ore>>
AnnGem  == <<ann, gem>>
AnnHide == <<ann, hide>>
AnnGold == <<ann, gold>>
BenOre  == <<ben, ore>>
BenGem  == <<ben, gem>>
BenGold == <<ben, gold>>

Trade(a, b, take, give) ==
    [kind |-> "trade", parties |-> <<a, b>>, take |-> Rows(take), give |-> Rows(give)]
Single(kind, c, take, give) ==
    [kind |-> kind, parties |-> <<c>>, take |-> take, give |-> give]

\* Ann's ore for Ben's gold and the other way round; ore made into a gem;
\* and the plain calls on the rows that these use.
Calls ==
    {Trade(ann, ben, AnnOre :> 1 @@ BenGold :> 1, BenOre :> 1 @@ AnnGold :> 1),
     Trade(ben, ann, AnnOre :> 2 @@ BenGold :> 1, BenOre :> 2 @@ AnnGold :> 1),
     Single("craft", ann, Rows(AnnOre :> 2), Rows(AnnGem :> 1)),
     Single("grant", ann, Zero, Rows(AnnOre :> 1)),
     Single("grant", ann, Zero, Rows(AnnHide :> 1)),
     Single("remove", ann, Rows(AnnOre :> 1), Zero),
     Single("modify", ben, Rows(BenGold :> 1), Zero)}

Start == Rows(AnnOre :> 3 @@ BenGold :> 1)

\* Two trades that each bring Ann a new stack, with room for one.
CapCalls ==
    {Trade(ann, ben, BenOre :> 1, AnnOre :> 1),
     Trade(ben, ann, BenGem :> 1, AnnGem :> 1)}

CapStart == Rows(BenOre :> 1 @@ BenGem :> 1)

\* The theorem on what is conserved is about such plugins.
ASSUME MCPluginsElsewhere == PluginsElsewhere

\* Plugins change items in one part and stats in another, beside the calls that do.
InPart ==
    LET toStat == todo[Plugin] # <<>> /\ Now(Plugin).op \in {"stat", "set"} IN
    IF part = "items" THEN ~toStat
    ELSE /\ todo[Plugin] # <<>> => toStat
         /\ asked # NotAsked => asked.call.op \in {"equip", "unequip"}

MCInit == Init /\ H!Init /\ part \in {"items", "stats", "tables"}
MCNext ==
    \/ part \in {"items", "stats"} /\ Next /\ UNCHANGED <<part, tables>> /\ InPart'
    \/ part = "tables" /\ H!Next /\ UNCHANGED <<part, vars>>

\* The database's fairness: see Holdings.
MCSpec ==
    /\ MCInit /\ [][MCNext]_<<part, vars, tables>>
    /\ WF_tables(/\ part = "tables"
                 /\ \E p \in Process : H!Statement(p) \/ H!DeadlockVictim(p))
=============================================================================
