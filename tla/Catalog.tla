------------------------------ MODULE Catalog -------------------------------
(***************************************************************************)
(* A server process from start to stop, over the files of its config       *)
(* directory and the item catalog.  The catalog is a table; the process    *)
(* keeps a copy (item_catalog_cache), read once, in which plugins find and *)
(* register item types, and each plugin a queue of registrations that are  *)
(* yet to reach the table.  make items and other processes write the table *)
(* beside it.  The schemas are checked against the copy, after every       *)
(* plugin's on-load.                                                       *)
(***************************************************************************)
EXTENDS Declarations

CONSTANTS
    Item,
    ConfigDir,      \* config directories a process may be started on
    OnLoad,         \* per plugin, in load order: the entries its on-load registers
    HookEntry,      \* entries hooks register later
    CliEntry,       \* entries make items create is given
    DropSource,     \* zones' spawn tables items are linked to
    MaxQueue, MaxHooks, MaxCli, MaxStarts, MaxFails, MaxDrops   \* bounds

VARIABLES
    files,          \* the config directory
    table,          \* item_types: partial function, item -> tags
    drops,          \* item_drop_sources: <<item, source>>
    phase,          \* "down", "loading", "up" or "refused" (a panic at start)
    loaded,         \* how many plugins have run on-load
    cache,          \* item_catalog_cache
    queue,          \* per plugin: pending_item_registrations
    draining,       \* the plugin whose requests a dispatch is applying; None
    \* History: items that make items wrote since the cache was read, items of a
    \* registration that no dispatch brought to the table (none was there to apply
    \* it, or its statement failed), and how often each occurred.
    meddled, strayed, count

vars == <<files, table, drops, phase, loaded, cache, queue, draining, meddled, strayed, count>>
process == <<phase, loaded, cache, queue, draining, strayed>>

\* draining is a plugin or none.
CatalogAssumption == None \notin DOMAIN OnLoad

Plugin == DOMAIN OnLoad
Counted(what) == count' = [count EXCEPT ![what] = @ + 1]

\* ItemCatalogStore::register, of an entry that passes; a second one overwrites.
Upserted(rows, entry) ==
    [item \in DOMAIN rows \cup {entry.item} |->
        IF item = entry.item THEN Range(entry.tags) ELSE rows[item]]

\* One entry after the other: of those of an item the last one stays.
Latest(entries, item) == entries[SelectLastInSeq(entries, LAMBDA e : e.item = item)]
AllUpserted(rows, entries) ==
    LET registered == {e.item : e \in Range(entries)}
    IN  [item \in DOMAIN rows \cup registered |->
            IF item \in registered THEN Range(Latest(entries, item).tags) ELSE rows[item]]
Valid(entries) == SelectSeq(entries, validate_entry)

InitWith(dirs) ==
    /\ files \in dirs
    /\ table = <<>> /\ drops = {}
    /\ phase = "down" /\ loaded = 0 /\ cache = <<>>
    /\ queue = [p \in Plugin |-> <<>>] /\ draining = None
    /\ meddled = {} /\ strayed = {}
    /\ count = [what \in {"start", "hook", "cli", "fail"} |-> 0]

Init == InitWith(ConfigDir)

------------------------------------------------------------ (* make items *)

Cli(item) ==
    /\ count["cli"] < MaxCli
    /\ Counted("cli")
    /\ meddled' = meddled \cup {item}
    /\ UNCHANGED <<files, process>>

Create(entry) ==
    /\ validate_entry(entry)
    /\ table' = Upserted(table, entry)
    /\ Cli(entry.item)
    /\ UNCHANGED drops

\* The rows of item_drop_sources that name the item go with it.
Delete(item) ==
    /\ item \in DOMAIN table
    /\ table' = Restrict(table, DOMAIN table \ {item})
    /\ drops' = {d \in drops : d[1] # item}
    /\ Cli(item)

\* The foreign key refuses an item that is not in the catalog.
LinkDropSource(item, source) ==
    /\ item \in DOMAIN table
    /\ <<item, source>> \notin drops /\ Cardinality(drops) < MaxDrops
    /\ drops' = drops \cup {<<item, source>>}
    /\ UNCHANGED <<files, table, process, meddled, count>>

UnlinkDropSource(item, source) ==
    /\ <<item, source>> \in drops
    /\ drops' = drops \ {<<item, source>>}
    /\ UNCHANGED <<files, table, process, meddled, count>>

------------------------------------------------------------------ (* start *)

\* Zones and navmeshes first, then the catalog is read.
Start ==
    /\ phase \in {"down", "refused"} /\ count["start"] < MaxStarts
    /\ Counted("start")
    /\ IF AcceptsPlaces(files)
       THEN phase' = "loading" /\ cache' = table /\ meddled' = {}
       ELSE phase' = "refused" /\ UNCHANGED <<cache, meddled>>
    /\ loaded' = 0 /\ strayed' = {}
    /\ UNCHANGED <<files, table, drops, queue, draining>>

\* Mutant: what on-load registers stays in memory.
LoadPluginUnsaved ==
    /\ phase = "loading" /\ loaded < Len(OnLoad)
    /\ loaded' = loaded + 1
    /\ cache' = AllUpserted(cache, Valid(OnLoad[loaded + 1]))
    /\ UNCHANGED <<files, table, drops, phase, queue, draining, meddled, strayed, count>>

\* register-item-type refuses an invalid entry before it reaches the copy, so
\* the store accepts all that is taken over to it.
LoadPlugin ==
    /\ phase = "loading" /\ loaded < Len(OnLoad)
    /\ loaded' = loaded + 1
    /\ LET entries == Valid(OnLoad[loaded + 1])
       IN  cache' = AllUpserted(cache, entries) /\ table' = AllUpserted(table, entries)
    /\ UNCHANGED <<files, drops, phase, queue, draining, meddled, strayed, count>>

\* A statement fails, and the process panics with those before it committed.
LoadPluginFails ==
    /\ phase = "loading" /\ loaded < Len(OnLoad)
    /\ count["fail"] < MaxFails /\ Counted("fail")
    /\ LET entries == Valid(OnLoad[loaded + 1])
       IN  \E n \in 1..Len(entries) : table' = AllUpserted(table, SubSeq(entries, 1, n - 1))
    /\ phase' = "refused"
    /\ UNCHANGED <<files, drops, loaded, cache, queue, draining, meddled, strayed>>

LoadSchemas ==
    /\ phase = "loading" /\ loaded = Len(OnLoad)
    /\ phase' = IF AcceptsSchemas(files, cache) THEN "up" ELSE "refused"
    /\ UNCHANGED <<files, table, drops, loaded, cache, queue, draining, meddled, strayed, count>>

\* Nothing is drained on the way down: what is queued is lost.
Stop ==
    /\ phase \in {"loading", "up"}
    /\ phase' = "down" /\ draining' = None
    /\ cache' = <<>> /\ queue' = [p \in Plugin |-> <<>>] /\ strayed' = {}
    /\ UNCHANGED <<files, table, drops, loaded, meddled, count>>

------------------------------------------------------------------ (* hooks *)

\* One hook call at a time holds the plugins.  It ends with the requests being
\* applied, except on-character-create, on-craft-complete and on-zone-loaded,
\* which leave them in the queue.
Hook(p, entry, applied) ==
    /\ phase = "up" /\ draining = None
    /\ count["hook"] < MaxHooks /\ Len(queue[p]) < MaxQueue
    /\ Counted("hook")
    /\ IF validate_entry(entry)
       THEN cache' = Upserted(cache, entry) /\ queue' = [queue EXCEPT ![p] = Append(@, entry)]
       ELSE UNCHANGED <<cache, queue>>
    /\ draining' = IF applied THEN p ELSE None
    /\ strayed' = IF applied \/ ~validate_entry(entry) THEN strayed
                  ELSE strayed \cup {entry.item}
    /\ UNCHANGED <<files, table, drops, phase, loaded, meddled>>

\* A plugin's queue reaches the table in its order, one statement at a time.
Drain ==
    /\ draining # None
    /\ LET q == queue[draining]
       IN  IF q = <<>> THEN draining' = None /\ UNCHANGED <<table, queue>>
           ELSE /\ table' = Upserted(table, Head(q))
                /\ queue' = [queue EXCEPT ![draining] = Tail(q)]
                /\ UNCHANGED draining
    /\ UNCHANGED <<files, drops, phase, loaded, cache, meddled, strayed, count>>

\* A statement that fails is logged, and the request dropped: the copy keeps it.
DrainFails ==
    /\ draining # None /\ queue[draining] # <<>>
    /\ count["fail"] < MaxFails /\ Counted("fail")
    /\ queue' = [queue EXCEPT ![draining] = Tail(@)]
    /\ strayed' = strayed \cup {Head(queue[draining]).item}
    /\ UNCHANGED <<files, table, drops, phase, loaded, cache, draining, meddled>>

Next ==
    \/ \E entry \in CliEntry : Create(entry)
    \/ \E item \in Item :
        \/ Delete(item)
        \/ \E source \in DropSource :
            LinkDropSource(item, source) \/ UnlinkDropSource(item, source)
    \/ Start \/ LoadPlugin \/ LoadPluginFails \/ LoadSchemas \/ Stop
    \/ \E p \in Plugin, entry \in HookEntry, applied \in BOOLEAN : Hook(p, entry, applied)
    \/ Drain \/ DrainFails

Spec == Init /\ [][Next]_vars

------------------------------------------------------------- (* properties *)

\* While a server runs, its copy of the catalog is the table, for every item
\* that nobody else writes and whose registrations were all brought to the table
\* (not so one of a hook without a dispatch, or whose statement failed); every
\* item its recipes and equipment name can be dropped and granted, since it is
\* in the table whichever plugin declared it; and every drop source is of a
\* known item.
SameRow(item) ==
    /\ item \in DOMAIN cache <=> item \in DOMAIN table
    /\ item \in DOMAIN cache => cache[item] = table[item]
CatalogHolds ==
    /\ \A d \in drops : d[1] \in DOMAIN table
    /\ phase = "up" =>
        /\ Referenced(files) \subseteq DOMAIN table \cup meddled
        /\ draining = None =>
            \A item \in Item \ (meddled \cup strayed) : SameRow(item)

\* What the comment on the last loop of drain_and_apply_plugin_effects says:
\* a registration made in any hook reaches the table.  Those of the hooks a session
\* runs wait for the plugin's next dispatch, and are lost if the process stops
\* before, so it does not hold.
RegistrationsReachTheTable ==
    draining = None => \A p \in Plugin : queue[p] = <<>>

\* A server only comes up on recipes and currencies that it can serve.  Two faults
\* that no loader looks for are excepted: of an input that is listed twice less is
\* taken than the recipe says, and a grant of a stat whose least value is above its
\* greatest writes a value that is below the least.  (A requirement that no value of
\* its stat meets is not refused either: nobody crafts that recipe.)
Crossed(decl) == decl.min # None /\ decl.max # None /\ decl.min > decl.max
Probe(decl) == {value \in {0, 8, 9} : InBounds(decl, value)} \cup {decl.default}
Values(stats) == {v \in [{decl.key : decl \in Range(stats)} -> UNION {Probe(d) : d \in Range(stats)}] :
                    \A decl \in Range(stats) : v[decl.key] \in Probe(decl)}
Stocks(r) == [{r.output.item} \cup {i.item : i \in Range(r.inputs)} -> 0..3]
Rolls(r) == {hits \in SUBSET DOMAIN r.grants :
                \A i \in DOMAIN r.grants : r.grants[i].chance = None => i \in hits}
Listed(r, item) == {i \in DOMAIN r.inputs : r.inputs[i].item = item}

\* Each stack gives what the recipe lists of it and nothing is owed; what a grant
\* writes is a value the stat can have.
FairlyCrafted(stats, r, owned, values, after) ==
    /\ \A item \in DOMAIN owned :
        /\ after.owned[item] >= 0
        /\ Cardinality(Listed(r, item)) <= 1 =>
            after.owned[item] = owned[item]
                - MapThenSumSet(LAMBDA i : r.inputs[i].amount, Listed(r, item))
                + (IF item = r.output.item THEN r.output.amount ELSE 0)
    /\ \A key \in DOMAIN values :
        after.values[key] # values[key] /\ ~Crossed(stats[Find(stats, key)])
            => validate_write(stats, key, after.values[key])

\* A recipe is crafted fairly, and whoever has its inputs and meets what it requires
\* can craft it, however its grants are rolled.
Crafts(stats, r) ==
    \A owned \in Stocks(r), values \in Values(stats), hits \in Rolls(r) :
        LET after == craft_item(stats, r, owned, values, hits)
        IN  IF after # None THEN FairlyCrafted(stats, r, owned, values, after)
            ELSE \/ \E i \in Range(r.inputs) : owned[i.item] < i.amount
                 \/ \E need \in Range(r.requires) :
                        need.stat \in DOMAIN values /\ values[need.stat] < need.min

\* breakdown gives a balance back, in as few coins as there are.
Pays(c) ==
    \A balance \in 0..12 :
        LET coins == breakdown(c.ladder, balance)
            worth(i) == IF c.ladder = <<>> THEN coins[i] ELSE coins[i] * c.ladder[i].ratio
        IN  /\ balance - MapThenSumSet(worth, DOMAIN coins)
                    \in 0..(IF c.ladder = <<>> THEN 0 ELSE c.ladder[1].ratio - 1)
            /\ \A i \in DOMAIN c.ladder :
                i < Len(c.ladder) => worth(i) < c.ladder[i + 1].ratio

WhatLoadsWorks ==
    [][phase # "up" /\ phase' = "up" =>
          /\ \A r \in Range(files.recipes) : Crafts(files.stats, r)
          /\ \A c \in Range(files.currencies) : Pays(c)]_vars

=============================================================================
