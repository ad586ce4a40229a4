# WorldZero in TLA+

A verification development kept beside WorldZero, the self-hostable game server
under `src/` (Rust: tokio, sqlx/Postgres, Redis, wasmtime). It models the parts
of the server where several sessions, ticks, background tasks, transactions or
processes meet; TLC checks the models on small instances, and TLAPS proves the
main invariants for instances of every size.

1. [The system](#the-system)
2. [Modules](#modules)
3. [Runs, bounds and what they show](#runs-bounds-and-what-they-show)
4. [Where the code and its documents part](#where-the-code-and-its-documents-part)
5. [Fairness](#fairness)
6. [Proofs](#proofs)
7. [What is not modelled](#what-is-not-modelled)
8. [Plan](#plan)
9. [Running it](#running-it)

Paths below are relative to `src/crates/` unless they begin with `docs/`.

## The system

One *combined server* process (`server/src/main.rs`) serves one realm: it opens
the Postgres pool, starts one actor per zone layer (`server/src/world_actor.rs`)
and accepts connections; each connection is a task that runs
`handle_session` (`server/src/session.rs`). Several processes may serve the same
realm (`WZ_ZONE_IDS` divides the zones), and several realms share the database.

| component | state | operations | meets |
|---|---|---|---|
| sessions, leases (`server/src/session.rs`, `login_policy.rs`, `character/src/session_lease.rs`, `bound_liveness.rs`) | tables `characters`, `character_sessions`, `character_bound_liveness`; per process `entity_characters`, `character_entities`; where each handler stands | select, authorize, join, heartbeat, disconnect, delete | realm transfer (row lock), zones (spawn, despawn), all that looks characters up |
| realm transfer (`transfer/src/`) | `characters.realm_id`, `realms`, gates, tickets, audit | `transfer` and its statements; gates set, realms changed | sessions, through row lock and liveness; everybody, through the pool |
| trade (`server/src/session.rs`, `character/src/trade.rs`) | `trade_requests`, `active_trades`, a `TradeSession` per trade | request, accept, offer, confirm, cancel, disconnect | the holdings, by `execute_trade` |
| holdings (`character/src/inventory.rs`, `currency.rs`, `crafting.rs`, `trade.rs`, `equipment.rs`, `slots.rs`) | `character_items`, `character_currencies`, equipment, slots | grant, remove, modify, craft, trade, equip | each other, by the rows |
| parties (`character/src/party.rs`) | `parties`, `party_members`; a map of invitations | invite, accept, leave | zones (hop to a party mate's layer) |
| guilds (`guild/src/store.rs`) | `guilds`, `guild_members`; ranks and permissions from a schema | create, invite, kick, change rank, leave, disband | chat (a channel that follows the roster) |
| zones and layers (`server/src/world_actor.rs`, `zone_registry.rs`, `main.rs`, `world/src/`) | per layer a world, a command queue, a `Sessions` map; per connection a `ZoneChanged` channel | spawn, despawn, move, tick, crossing, hop, join | sessions, and everything that broadcasts |
| chat (`chat/src/`) | channels, members, log; bus subscriptions | create, join, leave, send, fan-out | guilds, zones |
| registry and population (`service-registry/`, `realm-directory/`) | Redis records with a TTL, pub/sub events; a presence set | register, heartbeat, deregister, watch, count, expire | process start, joins and leaves |
| auth (`auth/`) and the connection (`server/src/session.rs`, `session_protocol.rs`) | accounts, roles, session tokens with a TTL; the maps of a process by entity, character, account and token | register, login, resume, create, join, leave | every component that looks a player up |
| gateway (`gateway/`) | envelopes; UDP tokens and addresses | framing, sequence numbers, `BindUdp` | sessions |
| world (`world/src/`, `content/src/navmesh.rs`) | entities, positions, a grid index, queued moves and teleports, patrol routes | spawn, despawn, request, tick | zones, through the actor |
| plugin host (`plugin-host/`, `server/src/plugin_startup.rs`, `plugin_state.rs`) | WASM instances, queues of host calls, cached per-player state | load, dispatch, drain, hydrate, write back | world actors, sessions, all behind one mutex |
| content and start-up (`content/src/`, `server/src/main.rs`, the `*_schema.rs` files) | the declared game; the item table and the process's copy of it | load, check, register, save | plugins (`on-load`), crafting, equipment |
| common, tools, migrations | stateless, or external | | |

### What is hard about it

Nothing in the server holds one lock over one operation. A handler awaits between
reading and writing; the maps of a process are locked one at a time; database
calls are single statements on a pool, except where a store opens a transaction
(trades, crafts, transfers, slots, parties, guilds, chat channels), and those run
at READ COMMITTED. What follows from that:

* **Who is playing a character** is recorded four times (the lease row, the
  liveness row, two maps of the process), by steps that other sessions, other
  processes, the TTL and crashes come between. *Correct* is: one session at a
  time, across processes; the lease is that session's while it plays; what looks
  a character up finds the entity that is driven; a crash bars it for a TTL and
  not for ever.
* **Where a player is** is recorded three times (the world of a layer, its
  `Sessions` map, the session's own idea), by four parties none of which waits
  for another. *Correct* is: never in two layers' broadcasts, never in none
  without a task that will put it into one, and all three in agreement once
  nothing is under way; crossings end.
* **A trade** reads flags under one lock and offers under the next. *Correct* is:
  a confirmation is of the offers as they are; what is executed was confirmed; no
  confirmed trade is left hanging, and no key leads to an executed one. (It can be
  executed once more all the same: by a confirmation of the other side that had looked
  it up before the keys were removed, and finds both flags still set.)
* **Items** are moved by transactions that lock row by row beside plain callers
  that read and then write. *Correct* is: what a transaction checked still
  holds when it uses it, it changes exactly what the exchange says, and no two of
  them wait for each other for ever.
* **Parties and guilds** decide upon counts and ranks read in one statement and
  act in the next. *Correct* is: no party of one, none over its cap, no guild
  without a founder, no member row without its guild, a chat channel
  with exactly the members.
* **Chat** keeps who is in a channel in three places (rows, the map of each
  connection, a task per entry). *Correct* is: the players of a zone share its one
  channel, unless a client leaves it by its key or puts a group channel there; what
  was joined is heard until it is left, and nothing runs on that no entry can stop.
* **Transfers** test liveness once and commit later, and ask the pool for more
  connections while they hold one. *Correct* is: nothing comes between the read
  and the commit; a character is where its recorded moves lead, each ticket paid
  for one of them; a lost answer, a crash or a starved pool leaves no half of it.
* **A connection** is in six maps of its process, entered and left by key. *Correct*
  is: who plays is found, and heard on its address, unless somebody else shares
  the key; who left is nowhere.
* **Gear** is exchanged by single statements, with plugins beside them that move the
  same stacks and the same stats. *Correct* is: an item is worn or carried, stats follow
  what is worn and what plugins add unless one write of them overtakes the other, two
  stacks never share a slot.
* **A tick** decides moves one after the other. *Correct* is: nobody leaves the
  floor, moves into somebody else, or is answered twice.
* **Plugins** ask for things in queues that later dispatches drain. *Correct* is:
  what they ask for a player finds it, in the order asked, and nobody waits for
  ever on the mutex.
* **The item table** has a copy in each process. *Correct* is: they agree where
  nobody else writes, through hooks, tools, restarts and failed statements, but for
  registrations that did not reach the table; and from what the loaders accept the
  server can craft and pay out as the files say, but for two faults no loader looks for.

The hazards that follow, each with the line where it bites and the properties
that would catch it, are the `hazards` of `PROJECT.json`: 40 of them, from the
release that deletes a lease by character id whoever holds it
(`character/src/session_lease.rs:142`) to a member's chat join that arrives after
its kick's chat leave (`server/src/session.rs:1357`). Some hazards have no
property yet; each says why.

## Modules

Names of variables and actions are the code's where it has one (`active_trades`,
`entity_characters`, `SelectCharacter`, `AcquireLease`); `PROJECT.json`, `map`,
gives the lines of every definition. In all modules an action is what the code does
between two awaits (or locks) at which somebody else could see or change
something; an error path (`?`, an early return, a failing statement, a killed
process) is an action of its own. Definitions marked `MUTANT` are wrong variants
of their neighbour, one for each property, which the property must refuse.

| module | models | abstract specification | checked by | proved in |
|---|---|---|---|---|
| `CharacterSession` | sessions, leases, liveness, deletion, transfer as it meets them | `ExclusiveLogin` | `MCSessions` | `SessionsProofs` |
| `Transfer` | an attempt statement by statement, gates, tickets, the pool, the audit log | | `MCSessions` | `SessionsProofs` |
| `Trade` | requests, negotiation, execution, disconnects | | `MCExchange` | `ExchangeProofs` |
| `Gear` | equipment, slots, stats, plugin grants | | `MCGoods` | `GoodsProofs` |
| `Channels` | chat channels, members, forwarder tasks, publications | | `MCExchange` | `ExchangeProofs` |
| `Holdings` | rows of items and currency under transactions and plain writers | | `MCGoods` | `GoodsProofs` |
| `Zones` | layers, worlds, queues, `Sessions`, crossings, hops | `Placement` | `MCZones` | `ZonesProofs` |
| `Guild` | guild rows, ranks and the chat channel that follows | | `MCRealm` (`MCGuild`) | `RealmProofs` |
| `Party` | invitations and the rows of parties | | `MCRealm` | `RealmProofs` |
| `Connection` | handshake, tokens, creation, the maps, UDP addresses, presence | | `MCService` | `ServiceProofs` |
| `Registry` | service instances, their lapsing keys, a watcher | | `MCService` | `ServiceProofs` |
| `Declarations` | a game's files: what the loaders accept, and what is made of it | | `MCService`, by `Catalog` | |
| `Catalog` | a process from start to stop; the item table and its copy | | `MCService` (`MCGames`) | `ServiceProofs` |
| `Manifests` | what a plugin declares, and the checks before it is loaded | | `MCTicks`, by `Plugins` | |
| `Plugins` | dispatches, queues of host calls, hydration, joins and leaves | | `MCTicks` (`MCPlugins`) | `PluginsProofs` |
| `Geometry` | bounds, links and the navmesh, as pure operators | | `MCTicks`, by `World` | |
| `World` | one zone's entities, grid, queues and tick | | `MCTicks` | `WorldProofs` |
| `Wire` | the messages of five protocols, and who reads which frame | | `MCTicks` | |

`MCSessions`, `MCExchange`, `MCGoods`, `MCRealm`, `MCService` and `MCTicks` put several
instances side by side: a variable `part` says which of them runs, the others keep their
initial state, and they never meet. It saves runs and nothing else: each part has
exactly its own states, and each property speaks of one part. `Sessions`
(`CharacterSession` and `Transfer`), `Exchange` (`Trade` and `Channels`), `Goods` (`Gear` and
`Holdings`), `Realm` (`Guild` and `Party`) and `Service` (`Connection`, `Registry` and
`Catalog`) only put two or three modules under one roof, and `Ticks` renames what `World` shares with `Plugins`: an
`MC` module and a module of proofs extend the same one, so that the theorems are of the
very properties that the runs check.

The modules meet at the calls the components make to each other, where each side
has the other's whole range of answers: a trade's exchange succeeds or fails in
`Trade`, and `Holdings` has what it does to the rows; an accepted party invitation
makes a player ask for its mate's layer, which `Zones` allows at any time to
`Hoppers`; `CharacterSession` spawns and despawns, and `Zones` has what becomes of
the entity in between.

### CharacterSession

`pc[c]` is where the connection's `handle_session` stands, `sel[c]` the
character and realm it read; `lease` and `live` are the rows of
`character_sessions` and `character_bound_liveness`, whose times are kept as
what is left: above 0 is `expires_at > now()`, below is `expires_at < now()`, and
at 0 the code's two comparisons are both false. `entity_characters` and
`character_entities` are the two maps, of every process. Login is
`SelectCharacter`, `AuthorizeBound` or `AcquireLease`/`RefuseLease`,
`JoinLiveness`, `Spawn`; then `RenewLease`, `RefreshLiveness`; the disconnect path is
`Despawn`, `ReleaseLease`, `LeaveLiveness`, `SavePosition`, in the code's order.
`Fail` is an early return, `Crash` the end of a process. `BeginTransfer` takes
the row lock and reads, `CommitTransfer` writes. `ExclusiveLogin` knows of a
character only that it is free, orphaned (its session is gone, its lease is not)
or somebody's.

The premise `Punctual` is that a heartbeat (at a third of the TTL,
`server/src/session.rs`) and the clean-up of an ended session come before the TTL
has passed. Without it the code promises nothing: `renew` does not test the expiry
and its failure is logged, so a connection whose heartbeats stall for a TTL plays
on after its character was taken over.

### Trade

One handler per player, whose `pc` goes through the locks of each message; keys of
`active_trades` lead to shared sessions, and nothing keeps the keys of the two
sides in step: an accept overwrites whatever was there. A flag is kept with the
offers it was set on, which makes "this flag is of these offers" a statement about
states. An offer is a member of a small set: what the properties tell
apart is only whether it changed.

### Holdings

A process is at one statement of one call. `view` is what it read of each row,
under the row lock for an exchange, without one for `grant_item`, `remove_item`,
`modify_currency`. Locks are waited for, and a ring of waiting transactions loses
a member (`DeadlockVictim`) as Postgres has it. The order of the locks is the
code's: the parties in order, items before currency, items in any order (the
offers are `HashMap`s).

### Zones

`Take` is the actor with the next command, `Tick` its tick with the call to
`on_tick`, `Arrive` and `Announce` the two halves of the task that
`complete_zone_transition` runs in, `FollowZoneChange` the session's `select!`
branch. A connection's way in is `SpawnAt` (with the layer chosen by
`JoinGroupmate` or `JoinAssigned`), `Register`; out, `Close`, `Depart`. A hop is
`AskToHop`, the actor's answer, `Abandon` or `Hop`, `Settle`. `Placement` knows of a
player only the place whose broadcasts it gets, or the link it is on.

### Party

`FindParty`, then `AddInviter` and `Found`, or `Join`, are the statements of
`accept_invite`; `Leave`, `CountRest`, `CommitLeave` or `Dissolve` those of `leave`, at
READ COMMITTED with the row locks that deletes take and the unique rows that inserts
wait for (`RowFree`). Two transactions can wait for each other: two leavers that both
dissolve the party, two that accept each other's invitation. Postgres then fails one of
them, which is `Abort`, as any failure is. `leftTogether` and `cameTogether` are history:
which parties have been through the two races that the properties except.

### Guild

A call reads (`Kick`), writes (`RemoveRow`) and updates the chat (`Part`); up to
`MaxCalls` calls of different accounts overlap anywhere. `Accept` stands for an
invitation and its acceptance: an invitation has no state but the inviter and
the guild, and the inviter's permission is not looked at again. An account may have two
sessions (leases are per character); here its calls come one after the other. `disturbed`
and `joinedLate` are history: accounts whose chat changes overlapped or failed, and
guilds that somebody joined while a last founder was leaving, which are the races that
`ChatFollowsRoster` and `DissolvesAlone` except.

### Channels

A connection's handler is in one call at a time; `call` is where it stands between
two awaits. Entering a zone is `Enter` or `ChangeZone` (which leaves the old zone's
channel in the same step), then `Ensure`, `Insert` if the zone has no channel yet,
and `Subscribe`. A client's own join is `Join`, `Create` if the name is new,
`JoinRow`, `Subscribe`; its leave is `Leave` (the entry and its task) and `PartRow`.
Nothing keeps the key of a zone's channel from a client ("reserved, not blocked at parse
time", `server/src/chat_session.rs:197`): `Leave` and `Join` may be by `AutoKey`, and then
the entry under it is none, or a group channel's; `OfZone` says whether it is the zone's.
`Send` has the check, `Publish` the delivery to the subscriptions that stand.
`Forward` is a forwarder's turn, `Cut` a subscription that Redis ends, which the
entry outlives, `Fail` any call that errs half-way. `owed` and `cut` are history.
`NothingMissed` leaves cut subscriptions out.

### Transfer

`at[a]` is the statement an attempt will execute next, in the order of
`transfer/src/execute.rs`; `spare` counts the connections of the process's pool that
are free. An attempt holds one, and the row lock on its character, while it asks
for two more: the realms, then the gate. What it writes is seen when it commits. `Fail`
is any statement that errs, a `COMMIT` included whose answer is lost although it
took place (`unsure`); the record of a failure is written after the rollback on
its own; `TimeOut` ends a wait for a connection (`acquire_timeout`); `Crash` ends the
process with all its attempts. `Meddle` is what others do to the same rows: sessions
come and go, tickets are granted, characters and realms deleted, gates set.
`granted` and `wrote` are history.

### Gear

A call is the list of the statements still to execute (`todo`), for the player's
handler and for the plugins' effects that the zone actor applies beside it. A
statement that reads puts the one that writes what it computed in its own place,
so a stale value is in the list and not in the table. `equip_item` and `unequip_item`
are statements one after the other with no transaction around them, `place_over`
locks. A plugin's effect grants an item, takes one, or adds to a stat (`apply-stat-delta`:
`ReadStat`, then `SetStat`, as `equip_item` itself does). `Bare` (the value of a stat less what
is worn) is what the properties compare; `asked` is history: the call, the copies it
found, and the bare stats it is to leave, which grow by what a plugin adds meanwhile.
Of a stat that one of the two wrote over the other's write (`Overtaken`) nothing is
asked until the next call.

### Connection

`phase[c]` goes from the handshake to the end of the task. The maps are those of
`SessionDeps` and of the UDP loop, each a function. Maps that are entered or left
with no await between them are one step where no task reads both. `binding` is the one
task that binds addresses (`BindOutbound`, `BindInbound` are its two halves).
`met` (who was in the maps together with whom), `spoke` and `raced` are history:
the exceptions of the properties.

### Registry

An instance registers in two statements, `SET EX` and `PUBLISH` (its `instance` tells
between which it is), and so do its deregistrations; a key lapses by itself or its
process crashes. The watcher subscribes, scans, fetches what it scanned and then
follows the events. `lapsed` is history.

### Declarations, MCGames, Catalog

`Declarations` has an `Accepts…` for every loader, and what the running server makes of
the accepted files (`clamp`, `breakdown`, `spawn_npc_from_table`, …). `Catalog` starts a
process on a config directory, loads its plugins, whose `on-load` registers items in
the table and then in the process's copy, checks the schemas against the copy, serves
hooks that queue registrations, drains them, and stops, in any order with the
command-line tool that writes the table beside it. Its statements fail, too: one of
`on-load` ends the process with those before it done (`LoadPluginFails`), one of a drain is
logged and its request dropped (`DrainFails`). `strayed` is history: items with a registration
that no dispatch brought to the table. `craft_item` is what a craft leaves of a character's
stacks and stats. `MCGames` has a game in order and 47 copies of it with one entry changed.

### Manifests, Plugins

`Manifests` is what is checked of a `plugin.toml`, and which capability each host
function asks for. In `Plugins`, `work` is the dispatch that holds the mutex: the hook,
the plugins still to call (in load order), the requests being applied. `pending[p]` is what
plugin `p` has asked for and nobody drained; a request has the number of its host call, so
sets of requests stand for the code's queues, and `Before` says which of those drained is
applied first. `log` is what became of each. `session[e]` is where a player's connection
stands between its spawn and the end of its disconnect; `cache` and `stored` are the
versions of its plugin state. Commands to a zone actor wait in `mail`. Which queues a
dispatch drains depends on its hook (`Stages`), as in `plugin_startup.rs`.

### Geometry, World

`Geometry` is the three algorithms (ray casting, segment crossing, the polygon of the
navmesh that carries a point) on integers in half-metres, with every division
multiplied out. `World` is one zone: `Spawn`, `Despawn`, `RequestMove` and
`RequestTeleport` between ticks, then a tick that takes both queues (`BeginTick`) and
decides one request at a time (`Accept`, `Reject`, `Cross`, `DropMove`, `Teleport`) in
order. `cells` is the grid index. The floor that walkers must stand on (`Floor`) is
written down by hand in `MCTicks`, room by room, and not computed by the operators of
`Geometry`.

### Wire

Each protocol has a table of its messages with their fields, and the two conversions
of each direction; fields at proto3's default are not written, and a payload opens as
anything whose tag and fields fit. `OnTcp`, `OnUdp`, `OnForwarded`, `OnClient` are the
readers, by the phase of the connection. `Damage` is a frame cut short or garbled.

## Runs, bounds and what they show

`tlc -config X.cfg MCmodule` from this directory. Each run that passes goes through all
reachable states of its instance, and each of its properties has a mutant in
`PROJECT.json` that it refuses.

| run | instance | shows |
|---|---|---|
| `sessions` (`Sessions_all`) | *open*: one character of an open realm; the realm on two processes, a bound realm on a third; four connections (two of one process); TTL of 2 | `OneSession`, `LeaseCoversSession`, `LookupFindsSession`, and that all of it implements `ExclusiveLogin` |
| | *lapse*: a character of each kind of realm, two connections, fair | the same; a lease without a session and a liveness row without one do not last (`NothingBarsForEver`); no position save lands between a transfer's read and its commit (`TransferIsolated`) |
| | *transfer*: one character, two realms, two attempts on a pool of two, a ticket gate at first, one ticket, one thing that others do beside them | `TransfersAreWhole`: the character is where its recorded moves lead, each ticket paid for one, stats as written, answers true; every attempt returns, though both hold the pool's connections and wait for more |
| `exchange` (`Exchange_all`) | *trade*: two players, two offers, two `TradeSession`s | `ExecutorGivesWhatItConfirmed`, `ConfirmedTradeIsHandled`, `TradedSessionsClose`, with mutual requests, requests over an open trade, failing executions, disconnects |
| | *chat*: two connections, two zones, two channels alike, one message, one name that clients make channels of: an ordinary one in one part, the zone channels' key in another | `ZoneMatesTogether`, `NothingMissed` |
| `goods` (`Goods_all`) | *tables*: two characters, three goods, one currency, three processes, seven calls | `CheckedRowsHold`, `CommitsExactly`, and that every call returns, deadlocks included |
| | *gear*: two weapons for one hand, a worn helmet that is no longer declared, room for three stacks, two positions, one failing statement, requests for none of an item; plugins that grant and take ore in one part, that add to and take from the stat of both weapons in another | `SlotsDistinct`, `ItemsConserved`, `StatsFollowGear` |
| `zones` (`Zones_all`) | two linked zones, layers of one player, one that walks and one that hops | `SettledInPlace`, `OneLayerAtATime`, the refinement of `Placement`, and that crossings complete |
| `zones_mixed` | one client that walks and hops at once, beside one that does neither | `NeverLost` where crossings and hops of one player interleave, with hops given up because a tick came first (`Abandon`) |
| `realm` (`Realm_all`) | *guilds*: three accounts, two guilds, two ranks, two calls at a time | `Led`, `DissolvesAlone`, `ChatFollowsRoster` |
| | *parties*: three characters, parties for two and for three | `PartiesHaveTwo` |
| `service` (`Service_all`) | *connections*: two connections, two accounts, two addresses, one fault | `MapsHoldWhoPlays`, `HeardUnlessShared`, `CapUnlessRacing` |
| | *registry*: two instances, three unread events | `WatcherMissesNobody` |
| | *catalog*: two plugins, two starts, any of 48 games, two hooks, one command of the tool, one statement that fails, one drop source linked | `CatalogHolds`, `WhatLoadsWorks` |
| `plugins` (`Plugins_all`) | *plugins*: two plugins, two zones, one player and two requests, or two players | `HookEffectsLand`, `CallOrder`, `LeavesAnswered` |
| | *world*: a corridor with a wall, a gallery over it and a ramp up; two players, one NPC | `WalkersOnFloor`, `KeepsApart`, `Answered` |
| | *wire*: every message of the five protocols and of a plugin, one field at a time away from its default, on every path | `FramesReachTheirReader` |
| `trade_scam`, `zones_closed`, `guild_unled`, `plugins_hydration` | | end in a counterexample: next section |

Why the bounds are enough for what they are for:

* *Four connections* give a session, its successor on the same process, one on
  another process, and a fourth on the bound realm; a TTL of 2 has a lease at
  every stage (fresh, due, neither active nor reclaimable, reclaimable).
* *Two attempts on a pool of two* is the smallest pool that two transfers can starve;
  one ticket is one too few for both; two realms let one transfer undo the other.
* *Two* `TradeSession`s give every way in which two keys can disagree; a third player
  adds keys, not an interleaving on a session, which has two sides.
* *Two weapons for one hand* displace each other; room for three stacks is full once ore
  is granted beside two of them; one position is always contended.
* *Three processes* make a ring of two with somebody beside it. The calls
  include two trades of the same rows in opposite roles, a craft that feeds on
  them, and all three plain calls.
* *Layers of one player* make each further player start a layer. `MaxLayers` is 4 in
  `zones`, more than its two players ever start, so that the bound decides nothing there
  (the other zone runs have 2). `MaxUnread` keeps a client from walking on
  before it has heard where it is; two unread crossings are enough for a session to
  follow an old one while a newer is on its way.
* *Three characters* give a party that is joined and left at the same time;
  `MaxWaiting` bounds open invitations. *Two calls at a time* are what every race of
  `guild/src/store.rs` needs; three accounts leave somebody to be acted upon.
* *Two channels alike* let two calls that both found no channel of a zone or name make
  one each; *one message* can be published at every point of the other
  connection's joins and leaves. Two zones, for a connection that leaves
  one while its neighbour's call for it is still under way.
* *Two connections* share an account, a token, a character or an address, or none;
  `MaxTokens` of 2 gives each one of its own. A character cap of 1 is passed by the second
  creation; two connections of one account that race may leave two rows, and `MaxRows` of 3
  has room for the third, which they may not. `MaxFaults` counts tasks that end without
  a leave.
* *Two starts* are a restart on the table that the first one left, and on other files,
  after a stop or after a start that was refused; one failing statement can leave a
  plugin's registrations half in the table for the second start, or drop one of a hook's.
* *Two moves queued in a zone* (`QueueCap`), of two requests by one player and one by the
  other (`SeqCap`), beside those of plugins and routes, let a player's own moves add up in
  a batch, and cross another's. `MaxStep` is 4 half-metres, a bit less than the corridor.
* *Two requests* of one hook call are enough for one to be drained later than the other
  was asked; with two players at once no request is followed (`MaxRequests`), the states
  would be too many.

`CHECK_DEADLOCK FALSE` stands where nobody has to act and everybody may be
gone or done: players who have left, calls that have returned, guild ids that are
used up, servers that have been started as often as they may. `Transfer` says so itself
(`AtRest`). Symmetry is used for safety only.

Some properties are defined and no run is spent on them, as another that one runs says
more. Proved: `MapsAgree` and `TravelBounded` of `World`, `LayersEarned` of `Zones`,
`ConfirmationIsCurrent` of `Trade`,
`PartiesWithinCap` and `RowsHaveParties` of `Party`, `ForwardersHeld` and
`JoinedMeansMember` of `Channels`, `RowsHaveGuilds` of `Guild`, and the type invariants of
the modules with proofs. Only seen to hold in these instances: the other type invariants.

## Where the code and its documents part

Found while modelling; each has a counterexample that TLC finds. The first four are
runs, those with a `.cfg` configurations kept beside them; for the others the property
named is put in the place of those of a run's configuration.

| configuration | the program | the document |
|---|---|---|
| `trade_scam` | `TradeConfirm` tests both flags under one lock and reads the offers under another; an offer changed in between is executed | `docs/specs/Networking_Spec.md`: neither side can silently change its offer afterwards |
| `zones_closed` | a player that disconnects while it crosses is put into the target zone and stays | `server/src/main.rs:1183`, "nothing to hand off" |
| `guild_unled` | a founder moves itself to a lower rank, nobody is left to lead | `guild/src/schema.rs:13`: every guild always has someone able to |
| `plugins_hydration` | a joining player is spawned before its plugin state is read, and can be attacked: the hook finds an empty cache, and what it writes is overwritten | `server/src/session.rs:926`, hydrated "before this entity can possibly receive a `plugin-state-get` call" |
| `ChatEndsWithGuild` in `Realm_all.cfg` | the guild is deleted before its channel is looked up through it, so its members stay in the channel | `docs/specs/Chat_Spec.md`: disbanding propagates |
| `TransferSparesConnected` in `Sessions_all.cfg` | the liveness join refreshes a lapsed row in place, which a transfer's lock on `characters` does not stop: the transfer commits under a session in play | `docs/specs/Realm_Character_Policy_Spec.md`: a transfer never races a live session |
| `NeverInTwoWorlds` in `Sessions_all.cfg` | an early return after the spawn leaves the entity in the world: the character is on two processes | `Realm_Character_Policy_Spec.md` |
| `StateReadUnderLease` in `Sessions_all.cfg` | the record used for the spawn was read before the lease was granted | the same: "read fresh" |
| `SameNameSameChannel` in `Exchange_all.cfg` | two that join a new name at once both find no channel and each make one | `chat/src/demo_support.rs:43`: everyone naming the same channel lands in the same place |
| `Goods_cap.cfg` | two trades check the cap on distinct items side by side | `docs/specs/Data_Model_Spec.md` |
| `NoPartyOfOne` in `Realm_all.cfg` | two of three members leave at once, and each counts the other | `character/src/party.rs`: no party of one |
| `OneLayerAtATime` in `Zones_mixed.cfg` | a client that walks and hops at once gets the broadcasts of two layers | `server/src/zone_registry.rs` |
| `RejectedUnequipChangesNothing` in `Goods_all.cfg` | a full inventory rejects an unequip after the stats were changed, each attempt once more | `docs/specs/Networking_Spec.md`: nothing changes when rejected |
| `World_speed.cfg` | each move of a tick's batch is held to `max_speed * dt` on its own | `world/src/zone.rs`, `MovementRejection::TooFast` |

For the client of `Zones_mixed.cfg` that walks and hops at once `NeverLost` still holds,
which the run checks. `SettledInPlace` needs links between different zones, as those of
the example zones are (`src/config/example-zones`): the loaders accept a link from a zone into itself
(`content/src/content_pack.rs` asks only that both ends exist), and a crossing
of one meets its own `despawn`.

Four more properties state a comment of the code and are violated in the instance of a run:
in `Service_all.cfg`, `EndedIsRemoved` (a task that ends by an error stays in
`SessionDeps::global_sessions`, "removed once at final disconnect"), `BoundIsHeard` (of two
bindings of an address the later does not always win, against the comment on `UdpBound`) and
`RegistrationsReachTheTable` (registrations made in a hook that a session runs wait for the
plugin's next dispatch, against `server/src/world_actor.rs:732`); in `Plugins_hydration.cfg`,
`NothingLeftBehind` (nothing drains what a confirmation hook asked for). Two comments are out
of date: `content/src/items.rs:36` (crafting checks the tag of a recipe's output by now) and
`server/src/main.rs:412` (the schemas are checked against the process's copy, not the table).

## Fairness

Safety is checked of every behaviour. Liveness is checked under what the code's
own scheduling gives, and nobody outside (a client, a failure, a deletion) is ever
required to act:

* `CharacterSession!FairSpec`: time passes (`WF Tick`); the handler's heartbeat
  timer fires (`WF Heartbeat`); a join that has been authorized, and the clean-up of
  an ended session, go on, since nothing in them waits for a client
  (`WF (JoinLiveness \/ Spawn)`, `WF CleanUp`). Crashes remain possible at any
  moment, and after one only the TTL frees the rows.
* `Holdings!FairSpec`: the database executes some statement as long as there is one
  it can execute, and ends deadlocks. One condition for all processes and
  not one for each: nothing in the code makes Postgres fair among them.
* `Zones!FairSpec`: actors take their commands and tick (weak fairness per layer),
  spawned tasks are scheduled (per player), a session's loop turns (per player). The
  branch that receives `ZoneChanged` has *strong* fairness, because `tokio::select!`
  picks among its ready branches at random: a client that keeps sending requests
  cannot keep its session from the channel for ever.

* `Transfer!FairSpec`: an attempt's next statement is executed when it can be
  (`WF Proceed(a)`): Postgres passes a row lock on when its holder ends, and sqlx's
  `acquire_timeout` ends the wait for a connection. Without `TimeOut`,
  `EveryAttemptReturns` is violated: two attempts hold the pool and wait for a third.
* `Plugins!Fairness`: what a dispatch does goes on (`WF Dispatching`, plugin calls
  are assumed to return, which nothing in the host enforces), start-up ends, a
  disconnect that got its answer clears the maps; the actor of a zone gets its command, and
  the mutex for it, again and again contended (`SF Serve(z)`, `SF Begin(z)`): tokio's mutex is
  a FIFO queue.

`MCSessions`, `MCGoods` and `MCTicks` state these conditions for the parts that need them.

## Proofs

`tlapm` checks all proof modules from nothing, for any value of the constants that
their named assumptions allow.

**`SessionsProofs`**, of sessions. `TypeCorrect` for any constants. `SessionsInvariant` for a
`Punctual` server: `SessionInv` is inductive together with `TypeOK`. `OneSession` by
itself is not inductive: a second login is refused because of the lease, so
`LeaseCoversSession` is needed. A release deletes the row of its character whoever holds
it, but only while its connection still counts as in play, so by `OneSession` nobody
else is. A lease passes to another holder by acquisition of a reclaimable row only
(below zero, which a covered one, above zero, is not), and never names a connection that
has yet to acquire it (`HoldersAcquired`). Bound realms release leases as well, which is
harmless only as they refuse characters whose home is an open realm
(`BoundRealmsRefuse`), and those homes stay open, for a transfer out of an open realm is
refused (`HomesStayOpen`). A deleted row's lease goes with it (`LeasesOfExisting`). From
it follow `SessionsExclusive`, `LeasesCoverSessions`, `LookupsFindSessions` (only the
connection in play writes the map's entry) and `SessionsImplement`: every step is one of
`ExclusiveLogin` or none. `TransfersIsolated` needs no punctuality: the row lock keeps
position saves out, and other transfers, which the invariant must say too
(`OneTransfer`).

Of transfers. `MovesAreWhole` is `TransfersAreWhole`: a character is where its
recorded moves lead, each ticket paid for one of them, stats as written, answers true.
The property is about commits, its truth is decided before them: an attempt that has the
lock of a row has it alone (`HoldsAlone`), what it read under it is still there
(`ReadIsCurrent`), and it has no record and no answer yet, unless the answer to its
commit was lost (`NoRecordYet`). Counting records is arithmetic on finite sets; that the
log has only one more after a commit is why nothing else may write it.

**`ExchangeProofs`**, of trades. `TradeInvariant` gives `FlagsCurrent`,
`ExecutorsGiveWhatTheyConfirmed`, `ConfirmedTradesAreHandled` and
`ExecutedSessionsClose`. A key may lead to another session than its handler is busy
with, so the invariant says whose sides everybody is on (`PlayersAreSides`); a handler
takes one message at a time, so while it executes its own offer stays (`OwnOfferStays`),
which is all it may rely on: `trade_scam` shows that the other side's does not. Once its
executor is done, no key leads to an executed session (`TradedSessionsClose`), since one
that is about to be entered under a key has not been confirmed by the side that enters
(`OpeningUnconfirmed`).

Of chat. `ChannelsInvariant` is `ChatInv`; from it `ZoneMatesMeet`, `NothingIsMissed`
and `EntriesRule` (`ForwardersHeld` and `JoinedMeansMember`), for any names, the zone
channels' key among them or not: what is under that key is a channel of the zone or the group
channel of that name (`MayHold`). Being in one channel is
decided when a call finds or makes it, long before there is an entry, so what a call
under way has found is of its key's scope (`CallsMeant`), and `ChangeZone`, which would
falsify that, comes only when no call is (`Free`). `NothingMissed` needs that an entry
has a task at the moment of a publication (`EntriesServed`), and a leave that takes a
task away takes no other's messages, as each entry has just one (`TasksHeld`). Rows may
go under an entry when another connection of the account leaves: `RowsKept` is of those
that have their account alone.

**`GoodsProofs`**, of gear: `GearTypes`, `SlotsStayDistinct`, `StatsAreFollowed`,
`CopiesAreConserved`, for any schemas. `SlotsDistinct` needs that
the row a move has locked is still there when it is placed, beside another actor's removal
of the same stack (`MoversHeld`), and that a deleted row left no place behind (`PlacedHeld`). The other two
are about whole calls. A call is known by the statements it still executes: `Phase` lists
the possible rests of a call, and by which deltas the stats are off at each, `StatInv` says
that they are off by that and no more (of stats that no write overtook; what a plugin adds
meanwhile is added to what is asked), and `ItemInv` which copy is owed to the inventory,
or there before it has left the body (`Owed`). One lemma per statement says where it leads
(`Lands...`) and what it leaves of the copies (`Settles...`). That what is worn adds up to
the stats, whichever slot is summed first, is an induction over sets of slots: of the sets
for which it fails take a smallest (`SmallestSet`, `WornDeltaSums`, `WornChange`).
`CopiesAreConserved` is for plugins that leave wearable items alone (`PluginsElsewhere`,
which `MCGoods` assumes): `remove_item` may find the copy gone that an unequip is about to
return. `GearAssumption` asks for what the schemas' loaders check: slots of declared items
exist, limits are ordered, a character starts within them.

Of the tables: `HoldingsInvariant` has `TypeOK` (no stack is negative) and, of
each process, what it knows (`Knows`): before it consumes, its view of a row it has
locked is the row, and enough; afterwards, the row less what it takes and with what it
has given already. It speaks of one process and of rows it has locked, so the steps of
the others, plain callers included, which wait for locks only when they write, cannot
disturb it (`StepOf`). `ChecksStayTrue` is `CheckedRowsHold`, `CommitsAreExact` is
`CommitsExactly`.

**`ZonesProofs`.** `TypeCorrect`; `PresenceInvariant`, that `PresenceInv` is inductive,
for any zones, links, layers and parties, if no client both walks and hops; `OneLayer`
from it. `OneLayerAtATime` alone is not inductive: a crossing inserts the player without
looking whether it is anywhere else, so it must be in no `Sessions` map while a crossing
of it is under way, which there is only one of (`NoneWhileCrossing`), nor before it has
registered (`NoneWhileJoining`); and a hop moves it from the layer its session knows to
the one it is bound for, so a hopper must be where its session thinks it is
(`HoppersWhereTheyTalk`), which holds because nothing that could carry it off is queued
(`HoppersStayPut`). The premise is needed: `OneLayerAtATime` in `Zones_mixed.cfg`.

`NobodyIsLost` is `NeverLost` for all clients, those that walk and hop included.
`SettledPlayersInPlace` is `SettledInPlace`, under the same premise and without links of
a zone to itself. It speaks of a player when nothing about it is under way; the
invariant must speak of all that is. `Final` is what a queue will have made of a player
once it is taken, and there is one place for which it is true, the one the player is
bound for, whichever of a queue, a crossing, an announcement or a hop will bring it
there (`IsAt`, `Fine`). `ZonesImplement`: every step is one of `Placement` or none; a
tick that lets several players cross at once is one step of both.

`LayersAreEarned` is `LayersEarned`, under the first premise and for finitely many players,
at least one. When a layer is started, each one before it has `Threshold` sessions, none of
them of the player who joins, and no player has two (`OneLayerAtATime`); that they are as
many together as they should be is one injection of pairs of a layer and a number into the
players (`DisjointSets`). Without the premise a player counts on two layers.

**`RealmProofs`**, of guilds. `TypeCorrect`; `RowsAlwaysHaveGuilds`; `AlwaysLed`, while nobody is
moved out of the founder rank (the premise is needed: `guild_unled`). The inductive
invariant keeps, for every guild that stands, one founder that is *secure*: no call
under way was begun to take that one out of its rank (`SecurelyLed`). A kick, a leave of
others or a rank change is begun only for a target that is no founder, but a target may
be promoted before the call writes, so that a guild has a founder does not by itself
survive the write. With it go `CallsNameGuilds` and `IdsAreFresh` (no call is about an
id that is not given out, and a guild being founded is known to its founder only).
`ChannelsFollowRosters` is `ChatFollowsRoster`: a channel differs from the roster only
by a change that is pending, and what is pending the roster has already (`ChatOf`), for
as long as no second change of the same account overlaps it, which is what `disturbed`
remembers. `FoundersLeaveAlone` is `DissolvesAlone`.

Of parties, for finitely many characters. `NoLonelyParties` is `PartiesHaveTwo`,
`CapsAreKept` is `PartiesWithinCap`. Counts are read in one statement and used in a
later one, so each needs that what was counted still is: of a party not in
`leftTogether` only one is leaving (`OneLeaves`), so the two that it counted besides
itself are there when it commits (`TwoStay`); likewise `OneComes`, `RoomStays`. Callers
are online, so nobody's rows are deleted under its call (`CallersAreOnline`).

**`ServiceProofs`**, of connections. `ConnectionsInvariant`, and from it
`PlayersAreFound` (`MapsHoldWhoPlays`) and `PlayersAreHeard` (`HeardUnlessShared`). Maps
are left by key, so an entry is taken away by whoever shares it; that this is somebody
the connection has *met* follows from `MetEachOther` (all who are in the maps at one
time) and `KeysAreOwn` (an entry is under its connection's own key, and only where it
may be). An address is heard unless a later binding went elsewhere, and bindings are
half done for a while (`HalfBound`); a leave that raced one may leave an entry behind
(`raced`, `Forgotten`). `CapPassedByRacesOnly` is `CapUnlessRacing`, for finitely many
connections: a creation that has counted has room for itself and for each other
connection of its account but one (`CapKept`).

Of the registry. `WatchersMissNobody` is `WatcherMissesNobody`: the property is of a
watcher with no events left to read; the invariant (`RegistryInv`) says what the last
unread event of each instance will make of its view (`Last`, `Silent`), and that between
key and publication the event is still to come.

Of a process and its catalog. `CopyIsTheTable` is `CatalogHolds`, for any game, plugins and
hooks. It is of states in which no dispatch applies requests; while one does, the copy may
have a row that the table lacks, but one at most that should be there: that of the hook
which began it, the last in its plugin's queue (`OnlyTheLastIsNew`). The requests before it
are of hooks that nothing applied, and what they write is excepted, as is what a failed
statement did not; the last statement, if it does not fail, brings the table what the copy
has (`Owed`, `CopyFollows`). The copy the schemas are checked
against is the table but for what the tool deleted, so what they name is in it
(`NamesAreKnown`, `AcceptedIsKnown`).

**`PluginsProofs`.** `PluginTypes`; `RequestsTakeEffectInOrder` is `CallOrder`,
`HookRequestsFindTheirCharacter` is `HookEffectsLand`, for any plugins, zones and players.
Host calls are numbered, so the order is one of numbers: of one plugin and function, what
was handled is older than what is being applied, and that is older than what is queued
(`Ordered`), which holds because only the plugin in hand is drained and a drain takes all
there is of a function. For the second, the requests in question
(`Due`) are queued only while their plugin is the one in hand and the pass over the
effects is among its stages to come, so a dispatch does not return before they are handled;
and a player leaves its maps only after its leave hook's dispatch has returned, which needs
the mutex (`Expected`). `on-zone-loaded` drains less than that, but no player has been heard
of before start-up is over (`Quiet`). What a confirmation asks for may be left over, and
applied when the player is gone; the property excepts it.

**`WorldProofs`**, of a zone with any geometry, entities, cell size and radius.
`IndexFollowsTheRoster` is `MapsAgree`, inductive by itself once kinds follow ids (`Types`).
`MovesKeepEntitiesApart` is `KeepsApart`: a move is tested against the cells that the
collision radius reaches, so it must be shown that whoever is within the radius is in one
of them (`QueryFinds`), from `MapsAgree`, the bounds of a square (`SquareBounds`) and
division keeping the order (`DivideMonotone`). `MovesAreAnswered` is `Answered`: of the
requests that wait, those in the tick's batch and then those queued since, the numbers of
one player increase, from the last one answered to the last one sent, what is owed is among
them, and who left is owed nothing (`Numbered`, by `Tidy`). `TravelIsBounded` is
`TravelBounded`, what is left of the promise that `World_speed.cfg` refutes: accepted moves
add up, by the triangle inequality on squares (`CauchySchwarz`, `Longer`, `StepsAddUp`).

Assumed by the proofs: the `ASSUME`s of the modules (TLC evaluates them in every run),
and the premises above, which are hypotheses of the theorems. `PluginsAssumption` asks that
the plugins passed the checks of start-up, that players' messages fire none of the hooks of
start-up, creation and crafting, and that plugins call what the host offers;
`WorldAssumption`, that steps, cells and ids are what the manifest's loader and the spawns
make them; `CatalogAssumption`, that no plugin is `None`. The theorems are of the modules
by themselves, `Spec` of each, and of the properties that the runs check.

**Only model-checked**: everything about liveness (`NothingBarsForEver`,
`EveryAttemptReturns`, `EveryCallReturns`, `CrossingsComplete`, `LeavesAnswered`);
`WhatLoadsWorks`, whose truth lies in a game's data and what is folded over it;
`WalkersOnFloor`, which compares the algorithms of `Geometry` with a floor that is
data itself; and `FramesReachTheirReader`, which folds over the fields of each message.

## What is not modelled

* *What clients are shown*: rosters, entity broadcasts, pushed party and guild rosters,
  listing of characters, realms and transfer histories. Renaming.
* *Chat's direct channels* (nothing in the server opens one), *global ones, the durable log*,
  which is written and not read back, and chat being disabled (`session.rs:1800`).
* *The stat grants of a craft* among its statements: `Holdings` has its stacks only.
  `Declarations` has what they come to (`craft_item`), in one step.
* *Guild names, tags, messages of the day; guilds without a channel*: no decision
  depends on them.
* *Rows that operators write*: realm records, role grants.
* *Configuration, logging, metrics, health endpoints, the game manifest, TLS and DTLS, the accept
  loop, password hashes, parsing of files and frames, tools, demos*: plumbing around libraries,
  or translation without a state. The constraints the migrations declare (keys, cascades,
  uniqueness) are part of the modules for their tables.
* *Plugins are arbitrary WASM*: `Plugins` lets them ask for anything their capabilities
  allow, `Holdings` has the statements behind those on items and currency, `Gear` those on
  items and stats. `ItemsConserved` is of plugins that leave wearable items alone, as
  `remove_item` is documented not to hold against another writer, and `StatsFollowGear` of
  stats of which no write was lost, for `apply_stat_delta` is documented so, too
  (`character/src/store.rs:353`). Hooks that other sessions run on the same character are
  writers of the same kind.
* *Field-by-field conversions*: the server's functions that turn each message into a frame
  and back are written by hand, one per message. `Wire` has them as one generic pair over
  the table of fields, so two fields swapped in one of them would not show; that a frame
  reaches the reader of its kind, with what is absent or damaged, does.

Two faults that the loaders accept are in the instances, and `WhatLoadsWorks` excepts them
by name, for it is violated without either exception: a recipe that names an input twice
consumes it once (`character/src/crafting.rs:148`), though the documentation of
`craft_item` says that it consumes every declared input; and a grant of a stat whose bounds
are crossed (minimum above maximum) writes its maximum, which is below its minimum. A
requirement that no value of its stat meets is not refused either; nobody crafts that recipe.

What the instances leave out, and the code has: packs that declare a zone id twice; links
of a process with `WZ_ZONE_IDS`, or of a single manifest, to zones that it does not run. A transfer's destination schema is the process's own, in the code
as in `Transfer`. The history of transfers is listed by `created_at`, the start of the
transaction, and so not always most recent first (`transfer/src/audit.rs:107`); no
property reads it.

## Plan

Done: sessions, transfer, trade, gear, holdings, parties, guilds, zones, chat, connections,
registry, catalog, plugins, world, wire. What is left, in this order:

1. **Proofs** of what of `WhatLoadsWorks` is no fold over a game's data.
2. **Roster**: what each client is shown, against its layer's `Sessions`: read
   before the insert, broadcasts after.
3. **Records**: the listing and population of realms, and the stat grants of a craft
   among its statements.
4. **Repeated executions**: what a second `execute_trade` of the same offers, by a late
   confirmation, leaves of the two inventories.

## Running it

    tlc -workers 2 -config Sessions_all.cfg MCSessions
    tlapm SessionsProofs.tla

Every run ends within a few minutes; `PROJECT.json` has the list, with the
mutants (a definition, and the wrong one to put in its place) that each property
refuses.
