------------------------------- MODULE Gear -------------------------------
(***************************************************************************)
(* What one character wears, carries and how it is laid out: equip_item    *)
(* and unequip_item exchange stats, items and equipped_items rows in       *)
(* separate statements, none in a transaction; move_item_to_slot runs in   *)
(* one.  The connection's handler makes one call after the other; the zone *)
(* actor applies what plugins asked for beside it.  A call is the list of  *)
(* statements still to execute: one that reads puts the statement that     *)
(* writes what it computed in its own place.                               *)
(***************************************************************************)
EXTENDS Integers, FiniteSets, SequencesExt

CONSTANTS
    ItemType, Stat,
    EquipSlot,      \* the slots equipment.schema.yaml declares
    Position,       \* 0 .. InventoryConfig::slot_count - 1
    Declared,       \* the equippable items: their slot and stat_deltas
    MinValue, MaxValue,     \* the bounds stats.schema.yaml declares
    MaxItemTypes,   \* InventoryConfig::max_distinct_item_types
    Carried, Worn, Initial, \* the rows at first
    PlayerCall,     \* what the player may ask for
    Effect,         \* what a plugin may ask for
    MaxQuantity,    \* bound: plugins grant no more of an item than this
    MaxFaults,      \* bound: statements that fail
    Player, Plugin, None

GearAssumption ==
    /\ DOMAIN Declared \subseteq ItemType /\ IsFiniteSet(EquipSlot)
    /\ \A i \in DOMAIN Declared :
          /\ Declared[i].slot \in EquipSlot
          /\ DOMAIN Declared[i].deltas \subseteq Stat
          /\ Declared[i].deltas \in [DOMAIN Declared[i].deltas -> Int]
    /\ Carried \in [ItemType -> Nat] /\ Worn \in [EquipSlot -> ItemType \cup {None}]
    /\ Initial \in [Stat -> Int]
    /\ \A k \in Stat : Initial[k] \in MinValue[k] .. MaxValue[k]
    /\ MaxItemTypes \in Nat /\ MaxQuantity \in Nat /\ MaxFaults \in Nat
    /\ Position \subseteq Nat
    /\ PlayerCall \subseteq
             [op : {"equip"}, item : ItemType] \cup [op : {"unequip"}, slot : EquipSlot]
        \cup [op : {"move"}, item : ItemType, to : Int]
        \cup [op : {"remove"}, item : ItemType, n : Int]
    /\ Effect \subseteq
             [op : {"grant", "remove"}, item : ItemType, n : Int]
        \cup [op : {"stat"}, stat : Stat, by : Int]
    /\ Player # Plugin /\ None \notin ItemType \cup Position

\* Plugins ask for no item that can be worn.
PluginsElsewhere == \A c \in Effect : c.op # "stat" => c.item \notin DOMAIN Declared

VARIABLES
    items,      \* quantity by item type; no row at 0
    position,   \* the slot_index of each row
    worn,       \* equipped_items
    stats,
    todo,       \* per actor: the statements its call still executes
    reply,      \* how the player's last call ended
    asked,      \* history: the player's call, and what it found (Asking)
    faults

vars == <<items, position, worn, stats, todo, reply, asked, faults>>

Actor == {Player, Plugin}

\* An item the schema no longer declares is taken off without deltas.
Deltas(i) == IF i \in DOMAIN Declared THEN Declared[i].deltas ELSE <<>>

\* equip_item: owned, slot cleared, deltas applied, taken from the inventory,
\* worn; unequip_item; DropItem; move_item_to_slot.
Program(c) ==
    CASE c.op = "equip" /\ c.item \in DOMAIN Declared ->
            LET s == Declared[c.item].slot IN
            << [op |-> "own", item |-> c.item],
               [op |-> "occupant", slot |-> s, must |-> FALSE],
               [op |-> "deltas", item |-> c.item, sign |-> 1,
                left |-> DOMAIN Deltas(c.item)],
               [op |-> "remove", item |-> c.item, n |-> 1],
               [op |-> "wear", slot |-> s, item |-> c.item] >>
      [] c.op = "equip" /\ c.item \notin DOMAIN Declared -> << [op |-> "undeclared"] >>
      [] c.op = "unequip" ->
            << [op |-> "occupant", slot |-> c.slot, must |-> TRUE] >>
      [] c.op = "move" ->
            IF c.to \in Position THEN << [op |-> "mover", item |-> c.item, to |-> c.to] >>
            ELSE << [op |-> "undeclared"] >>
      [] OTHER -> <<c>>

\* MUTANT: the occupant's deltas are applied again, not reversed.
UnequipAgain(s, i) ==
    << [op |-> "deltas", item |-> i, sign |-> 1, left |-> DOMAIN Deltas(i)],
       [op |-> "grant", item |-> i, n |-> 1],
       [op |-> "clear", slot |-> s] >>

unequip_inner(s, i) ==
    << [op |-> "deltas", item |-> i, sign |-> -1, left |-> DOMAIN Deltas(i)],
       [op |-> "grant", item |-> i, n |-> 1],
       [op |-> "clear", slot |-> s] >>

Now(p)  == Head(todo[p])
At(p, op) == todo[p] # <<>> /\ Now(p).op = op

\* The row a slot move of p has locked.
Locked(p) == IF At(p, "target") THEN {Now(p).item} ELSE {}
Free(p, i) == \A q \in Actor \ {p} : i \notin Locked(q)

NotAsked == [call |-> None]

Held == {i \in ItemType : items[i] > 0}
WornDelta(k) ==
    MapThenSumSet(LAMBDA s : IF worn[s] # None /\ k \in DOMAIN Deltas(worn[s])
                             THEN Deltas(worn[s])[k] ELSE 0, EquipSlot)
\* The copies of an item, and a stat without what is worn.
Copies(i) == items[i] + Cardinality({s \in EquipSlot : worn[s] = i})
Bare(k)   == stats[k] - WornDelta(k)
GearStat  == UNION {DOMAIN Declared[i].deltas : i \in DOMAIN Declared}

\* The call, the copies it found, and the bare stats it is to leave: what it found
\* and what plugins added since, but for the stats of which a write was lost since.
Asking(c, copies, bare) == [call |-> c, copies |-> copies, bare |-> bare]
----------------------------------------------------------------------------
Init ==
    /\ items = Carried
    /\ position = [i \in ItemType |-> None]
    /\ worn = Worn
    /\ stats = Initial
    /\ todo = [p \in Actor |-> <<>>]
    /\ reply = "none"
    /\ asked = NotAsked
    /\ faults = 0

rows == <<items, position, worn, stats>>

Return(p, how) ==
    /\ reply' = IF p = Player THEN how ELSE reply
    /\ asked' = IF p = Player THEN NotAsked ELSE asked

\* The call goes on with these statements, or has executed its last; what is
\* known of the player's call is now this.
GoOn(p, ss, known) ==
    /\ todo' = [todo EXCEPT ![p] = ss \o Tail(@)]
    /\ IF p = Player /\ todo'[p] = <<>> THEN Return(p, "accepted")
       ELSE asked' = known /\ reply' = reply
    /\ UNCHANGED faults
Continue(p, ss) == GoOn(p, ss, asked)

\* The call returns the error: what it did stays done.
Reject(p) ==
    /\ todo' = [todo EXCEPT ![p] = <<>>]
    /\ Return(p, "rejected")
    /\ UNCHANGED <<rows, faults>>

Ask(p, c) ==
    /\ todo[p] = <<>>
    /\ todo' = [todo EXCEPT ![p] = Program(c)]
    /\ asked' = IF p = Plugin THEN asked
                ELSE Asking(c, [i \in DOMAIN Declared |-> Copies(i)],
                            [k \in GearStat |-> Bare(k)])
    /\ UNCHANGED <<rows, reply, faults>>

\* The session handles one request after the other.
PlayerAsks == \E c \in PlayerCall : Ask(Player, c)
PluginAsks == \E c \in Effect :
    /\ c.op = "grant" => items[c.item] < MaxQuantity
    /\ Ask(Plugin, c)

Undeclared(p) == At(p, "undeclared") /\ Reject(p)

Own(p) ==
    /\ At(p, "own")
    /\ IF items[Now(p).item] < 1 THEN Reject(p)
       ELSE Continue(p, <<>>) /\ UNCHANGED rows

\* MUTANT: the occupant is written over.
OccupantStays(p) ==
    LET o == Now(p) IN
    /\ At(p, "occupant")
    /\ IF worn[o.slot] = None /\ o.must THEN Reject(p)
       ELSE /\ Continue(p, IF ~o.must THEN <<>> ELSE unequip_inner(o.slot, worn[o.slot]))
            /\ UNCHANGED rows

\* equipped_in_slot: what is worn there is taken off.
Occupant(p) ==
    LET o == Now(p) IN
    /\ At(p, "occupant")
    /\ IF worn[o.slot] = None /\ o.must THEN Reject(p)
       ELSE /\ Continue(p, IF worn[o.slot] = None THEN <<>>
                           ELSE unequip_inner(o.slot, worn[o.slot]))
            /\ UNCHANGED rows

\* The deltas come in the order of a HashMap: any.
NextDelta(p) ==
    LET o == Now(p) IN
    /\ At(p, "deltas")
    /\ \/ /\ o.left = {}
          /\ Continue(p, <<>>)
       \/ \E k \in o.left :
             Continue(p, << [op |-> "stat", stat |-> k, by |-> o.sign * Deltas(o.item)[k]],
                            [o EXCEPT !.left = @ \ {k}] >>)
    /\ UNCHANGED rows

\* apply_stat_delta reads the stat ...
ReadStat(p) ==
    LET o == Now(p) IN
    /\ At(p, "stat")
    /\ Continue(p, << [op |-> "set", stat |-> o.stat, by |-> o.by,
                       value |-> stats[o.stat] + o.by] >>)
    /\ UNCHANGED rows

\* Somebody wrote the stat after it was read for this write.
Overtaken(o) == o.value # stats[o.stat] + o.by

Noted(p, o) ==
    IF todo[Player] = <<>> THEN asked
    ELSE Asking(asked.call, asked.copies,
                [k \in DOMAIN asked.bare \ IF Overtaken(o) THEN {o.stat} ELSE {} |->
                   asked.bare[k] + IF p = Plugin /\ k = o.stat THEN o.by ELSE 0])

\* ... and set_stat validates and writes what it computed.
SetStat(p) ==
    LET o == Now(p) IN
    /\ At(p, "set")
    /\ IF o.value \notin MinValue[o.stat] .. MaxValue[o.stat] THEN Reject(p)
       ELSE /\ stats' = [stats EXCEPT ![o.stat] = o.value]
            /\ GoOn(p, <<>>, Noted(p, o))
            /\ UNCHANGED <<items, position, worn>>

\* grant_item reads the stack and counts them all ...
ReadGrant(p) ==
    LET o == Now(p) IN
    /\ At(p, "grant")
    /\ IF o.n < 1 \/ (items[o.item] = 0 /\ Cardinality(Held) >= MaxItemTypes) THEN Reject(p)
       ELSE Continue(p, << [o EXCEPT !.op = "insert"] >>) /\ UNCHANGED rows

\* ... and adds to it, or inserts it without a position.
Insert(p) ==
    LET o == Now(p) IN
    /\ At(p, "insert")
    /\ Free(p, o.item)
    /\ items' = [items EXCEPT ![o.item] = @ + o.n]
    /\ Continue(p, <<>>)
    /\ UNCHANGED <<position, worn, stats>>

\* remove_item reads the stack ...
ReadRemove(p) ==
    LET o == Now(p) IN
    /\ At(p, "remove")
    /\ IF o.n < 1 \/ items[o.item] < o.n THEN Reject(p)
       ELSE /\ Continue(p, << [op |-> "put", item |-> o.item,
                               value |-> items[o.item] - o.n] >>)
            /\ UNCHANGED rows

\* ... and writes what remains, or deletes the row and its position with it.
Put(p) ==
    LET o == Now(p) IN
    /\ At(p, "put")
    /\ Free(p, o.item)
    /\ items' = [items EXCEPT ![o.item] = IF @ = 0 THEN 0 ELSE o.value]
    /\ position' = [position EXCEPT ![o.item] = IF items'[o.item] = 0 THEN None ELSE @]
    /\ Continue(p, <<>>)
    /\ UNCHANGED <<worn, stats>>

Wear(p) ==
    LET o == Now(p) IN
    /\ \/ At(p, "wear") /\ worn' = [worn EXCEPT ![o.slot] = o.item]
       \/ At(p, "clear") /\ worn' = [worn EXCEPT ![o.slot] = None]
    /\ Continue(p, <<>>)
    /\ UNCHANGED <<items, position, stats>>

\* move_item_to_slot locks its own row, which tells where it was ...
LockMover(p) ==
    LET o == Now(p) IN
    /\ At(p, "mover")
    /\ IF items[o.item] = 0 THEN Reject(p)
       ELSE /\ Continue(p, << [op |-> "target", item |-> o.item, to |-> o.to] >>)
            /\ UNCHANGED rows

\* MUTANT: the other row there is not moved away.
PlaceOver(p) ==
    LET o == Now(p) IN
    /\ At(p, "target")
    /\ position' = [position EXCEPT ![o.item] = o.to]
    /\ Continue(p, <<>>)
    /\ UNCHANGED <<items, worn, stats>>

\* ... and then the row that is where it goes, if any, which takes its place
\* at the commit.
Place(p) ==
    LET o == Now(p)
        there == {i \in Held \ {o.item} : position[i] = o.to} IN
    /\ At(p, "target")
    /\ position' = [i \in ItemType |->
                      CASE i = o.item -> o.to
                        [] i \in there -> position[o.item]
                        [] OTHER -> position[i]]
    /\ Continue(p, <<>>)
    /\ UNCHANGED <<items, worn, stats>>

\* A statement fails and ends the call; a slot move rolls back.
Fail(p) ==
    /\ faults < MaxFaults
    /\ todo[p] # <<>>
    /\ faults' = faults + 1
    /\ todo' = [todo EXCEPT ![p] = <<>>]
    /\ Return(p, "failed")
    /\ UNCHANGED rows

Statement(p) ==
    \/ Undeclared(p) \/ Own(p) \/ Occupant(p) \/ NextDelta(p) \/ ReadStat(p)
    \/ SetStat(p) \/ ReadGrant(p) \/ Insert(p) \/ ReadRemove(p) \/ Put(p)
    \/ Wear(p) \/ LockMover(p) \/ Place(p)

Next ==
    \/ PlayerAsks \/ PluginAsks
    \/ \E p \in Actor : Statement(p) \/ Fail(p)

Spec == Init /\ [][Next]_vars
----------------------------------------------------------------------------
\* The player's call ends in this step, in this way.
Ends(how) == todo[Player] # <<>> /\ todo'[Player] = <<>> /\ reply' = how

Dropped(i) ==
    IF asked.call.op = "remove" /\ asked.call.item = i THEN asked.call.n ELSE 0

Gap(i) == asked.copies[i] - Copies(i)'

\* Whatever the player asks for, accepted or rejected at any statement, the
\* copies of what can be worn are all still there, worn or carried, but for
\* those an accepted DropItem took; a statement of equip_item or unequip_item
\* that fails loses or doubles one copy at most.  (Plugins leave these items
\* alone: remove_item is documented not to hold against another writer.)
ItemsConserved ==
    [][\A i \in DOMAIN Declared :
          /\ Ends("accepted") => Gap(i) = Dropped(i)
          /\ Ends("rejected") => Gap(i) = 0
          /\ Ends("failed") => Gap(i) \in -1 .. 1]_vars

\* An accepted exchange moves each stat by exactly what is worn more or less
\* after it, a displaced occupant included, and plugins by what they ask for,
\* whatever happened to the character before, rejected and failed calls included.
\* Not so a stat of which, since the player asked, one of the two wrote what it
\* computed before the other's write: apply_stat_delta is "not transactional
\* against a concurrent writer" (store.rs:353), and one delta is lost.
StatsFollowGear ==
    [][Ends("accepted") => \A k \in DOMAIN asked.bare : Bare(k)' = asked.bare[k]]_vars

\* No two stacks are in one inventory slot: the table has no constraint that
\* says so, only the swap does.
SlotsDistinct ==
    \A i, j \in Held : i # j /\ position[i] # None => position[i] # position[j]

\* "Nothing changes on a rejected equip" (Networking_Spec), a displaced occupant
\* excepted: the deltas applied before a later one, or remove_item, is rejected
\* stay, and nothing worn explains them.
RejectedEquipChangesNothing ==
    [][Ends("rejected") /\ asked.call.op = "equip" =>
          \A k \in DOMAIN asked.bare : Bare(k)' = asked.bare[k]]_vars

\* The same of UnequipItem, which a full inventory rejects after the deltas: each
\* attempt reverses them once more.
RejectedUnequipChangesNothing ==
    [][Ends("rejected") /\ asked.call.op = "unequip" =>
          \A k \in DOMAIN asked.bare : Bare(k)' = asked.bare[k]]_vars
=============================================================================
