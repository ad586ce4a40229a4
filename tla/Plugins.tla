------------------------------ MODULE Plugins ------------------------------
(***************************************************************************)
(* How the server runs its plugins (server/src/world_actor.rs,             *)
(* plugin_startup.rs, the join and disconnect of session.rs, and           *)
(* plugin-host/src/runtime.rs).  All plugins live behind one mutex that    *)
(* every zone actor, and the sessions that create characters or craft,     *)
(* lock for the whole of a dispatch.  A hook runs inside the sandbox and   *)
(* changes nothing itself: what it asks for is recorded in queues of its   *)
(* plugin, one for each host function, and the dispatcher drains some of   *)
(* them after the call, applies the requests one by one (each may await    *)
(* the database), and calls the plugin back about some of them.  Which     *)
(* queues are drained depends on the hook.                                 *)
(*                                                                         *)
(* A request names an entity; `session` is where the connection of that    *)
(* entity stands between its spawn and the clearing of its maps.  A player *)
(* entity stands for its character: one connection of each is followed.    *)
(***************************************************************************)
EXTENDS Manifests

CONSTANTS Zones,
          Players,
          Home,         \* the zone each player joins
          LoadOrder,    \* the manifests of the loaded plugins
          Type,         \* the plugin message type clients send
          Calls,        \* the host functions plugins use
          Acts,         \* the hooks players' own messages fire
          Coming,       \* the sets of players that may come
          MaxRequests,  \* bound: host calls made, by who comes
          MaxSent,      \* bound: messages players send
          Nowhere       \* no zone: start-up and session dispatches

\* The server started with these plugins; a player's own messages fire hooks
\* of the zone, and plugins call what the host offers.
ASSUME PluginsAssumption ==
    /\ LoadOrder \in Seq(Range(LoadOrder)) /\ discover_plugins(LoadOrder)
    /\ IsFiniteSet(Zones) /\ Nowhere \notin Zones \cup Players
    /\ Home \in [Players -> Zones]
    /\ Coming \subseteq SUBSET Players /\ MaxRequests \in [Coming -> Nat]
    /\ Acts \subseteq KNOWN_HOOKS \ {"on-load", "on-zone-loaded",
                                    "on-character-create", "on-craft-complete"}
    /\ Calls \subseteq DOMAIN required_capability \cup {"plugin-state-set"}
    /\ "acquired" \notin Calls    \* the name below of an item that was granted

VARIABLES
    session,   \* how far each player's connection is
    known,     \* the entities its client has been shown
    world,     \* the players spawned in each zone
    mail,      \* the command queue of each zone actor
    boot,      \* the dispatches of start-up still to make
    work,      \* the dispatch that holds the plugins' mutex
    pending,   \* the requests of each plugin, numbered in call order
    cache,     \* plugin_state_cache: one character-scope key, 0 = absent
    read,      \* the value a joining session has read for the cache
    stored,    \* plugin_character_state
    heard,     \* the entities hooks have named
    log,       \* history: each request handled, where, and whether it took
    made,      \* the host calls made so far
    left,      \* and those still to make
    sent       \* the messages players sent so far

vars == <<session, known, world, mail, boot, work, pending, cache, read,
          stored, heard, log, made, left, sent>>

-----------------------------------------------------------------------------
Plugins == DOMAIN LoadOrder

\* A tick calls on-npc-tick and then on-tick, and drains after both.
Declares(p, hook) ==
    LET names == IF hook = "tick" THEN {"on-npc-tick", "on-tick"} ELSE {hook}
    IN  names \cap Range(LoadOrder[p].hooks) # {}

Economic(p) == "economy" \in Range(LoadOrder[p].capabilities)

\* The plugins a dispatch calls; a message goes to its owner.
Interested(hook) ==
    {p \in Plugins : IF hook = "on-message"
                       THEN p = OwnerOf(LoadOrder, Type)
                       ELSE /\ Declares(p, hook)
                            /\ hook = "on-craft-complete" => Economic(p)}

\* The host functions whose requests are applied in one pass, in its order.
Effects == <<"move-entity", "teleport-entity", "apply-stat-delta",
             "grant-item", "remove-item", "modify-currency",
             "plugin-state-set">>

Applied == <<Effects, <<"on-item-acquire">>, <<"report-death">>,
             <<"report-respawn">>, <<"register-item-type">>>>

Seeded == <<<<"spawn-npc">>>>

\* What the dispatcher of a hook drains after the call.
Stages(hook) ==
    CASE hook = "on-load"         -> <<<<"spawn-npc">>, <<"register-item-type">>>>
      [] hook = "on-zone-loaded"  -> Seeded
      [] hook \in {"on-message", "on-chat-command"} -> Seeded \o Applied
      [] hook \in {"on-character-create", "on-craft-complete"}
            -> <<<<"apply-stat-delta-for-character">>>>
      [] OTHER -> Applied

Fresh(z, hook, about, todo) ==
    [at |-> z, hook |-> hook, about |-> about, todo |-> todo, called |-> FALSE,
     stages |-> <<>>, batch |-> {}, acquired |-> {}]

Idle == Fresh(Nowhere, "none", {}, {})

Dispatch(z, hook, about) == Fresh(z, hook, about, Interested(hook))

Free == work = Idle
Booted == boot = <<>>

\* entity_characters: from the join's insert to the disconnect's removal.
Mapped(e) == session[e] \in {"mapped", "read", "hydrated", "joined",
                             "leaving", "left"}

Init ==
    /\ \E coming \in Coming :
           /\ session = [e \in Players |->
                            IF e \in coming THEN "out" ELSE "cleared"]
           /\ left = MaxRequests[coming]
    /\ known = [e \in Players |-> {}]
    /\ world = [z \in Zones |-> {}]
    /\ mail = [z \in Zones |-> <<>>]
    /\ boot = <<Dispatch(Nowhere, "on-load", {})>>
              \o SetToSeq({Dispatch(z, "on-zone-loaded", {}) : z \in Zones})
    /\ work = Idle
    /\ pending = [p \in Plugins |-> {}]
    /\ cache = [e \in Players |-> 0]
    /\ read = [e \in Players |-> 0]
    /\ stored = [e \in Players |-> 0]
    /\ heard = {}
    /\ log = <<>>
    /\ made = 0
    /\ sent = 0

-----------------------------------------------------------------------------
(***************************************************************************)
(* Sessions.                                                               *)
(***************************************************************************)
Post(z, command) == mail' = [mail EXCEPT ![z] = Append(@, command)]

Command(op, about) == [op |-> op, about |-> about]

Stage(e, from, to) ==
    /\ session[e] = from
    /\ session' = [session EXCEPT ![e] = to]

Spawn(e) ==
    /\ Booted
    /\ Stage(e, "out", "spawned")
    /\ Post(Home[e], Command("spawn", {e}))
    /\ UNCHANGED <<known, world, boot, work, pending, cache, read, stored,
                   heard, log, made, left, sent>>

Map(e) ==
    /\ Stage(e, "spawned", "mapped")
    /\ UNCHANGED <<known, world, mail, boot, work, pending, cache, read,
                   stored, heard, log, made, left, sent>>

ReadState(e) ==
    /\ Stage(e, "mapped", "read")
    /\ read' = [read EXCEPT ![e] = stored[e]]
    /\ UNCHANGED <<known, world, mail, boot, work, pending, cache, stored,
                   heard, log, made, left, sent>>

Hydrate(e) ==
    /\ Stage(e, "read", "hydrated")
    /\ cache' = IF read[e] = 0 THEN cache ELSE [cache EXCEPT ![e] = read[e]]
    /\ Post(Home[e], Command("snapshot", {e}))
    /\ UNCHANGED <<known, world, boot, work, pending, read, stored, heard,
                   log, made, left, sent>>

Joined(e) == session[e] \in {"joined", "leaving"}

\* The roster has come: the client gets it, the others of the zone are told.
Join(e) ==
    /\ e \in known[e]
    /\ Stage(e, "hydrated", "joined")
    /\ known' = [f \in Players |->
                    IF Joined(f) /\ Home[f] = Home[e]
                      THEN known[f] \cup {e} ELSE known[f]]
    /\ Post(Home[e], Command("on-player-join-zone", {e}))
    /\ UNCHANGED <<world, boot, work, pending, cache, read, stored, heard,
                   log, made, left, sent>>

\* A plugin message, a chat command, an item used or dropped, an attack.
Act(e) ==
    /\ session[e] = "joined"
    /\ sent < MaxSent
    /\ sent' = sent + 1
    /\ \/ \E hook \in Acts : Post(Home[e], Command(hook, {e}))
       \/ \E target \in known[e] \ {e} :
              Post(Home[e], Command("on-damage-calc", {e, target}))
    /\ UNCHANGED <<session, known, world, boot, work, pending, cache, read,
                   stored, heard, log, made, left>>

Leave(e) ==
    /\ Stage(e, "joined", "leaving")
    /\ Post(Home[e], Command("on-player-leave-zone", {e}))
    /\ UNCHANGED <<known, world, boot, work, pending, cache, read, stored,
                   heard, log, made, left, sent>>

\* The mutant that does not wait for on-player-leave-zone.
ClearAtOnce(e) ==
    /\ session[e] \in {"leaving", "left"}
    /\ session' = [session EXCEPT ![e] = "cleared"]
    /\ cache' = [cache EXCEPT ![e] = 0]
    /\ Post(Home[e], Command("despawn", {e}))
    /\ UNCHANGED <<known, world, boot, work, pending, read, stored, heard,
                   log, made, left, sent>>

Clear(e) ==
    /\ Stage(e, "left", "cleared")
    /\ cache' = [cache EXCEPT ![e] = 0]
    /\ Post(Home[e], Command("despawn", {e}))
    /\ UNCHANGED <<known, world, boot, work, pending, read, stored, heard,
                   log, made, left, sent>>

-----------------------------------------------------------------------------
(***************************************************************************)
(* Zone actors: commands that call no plugin, and the start of a dispatch. *)
(* An actor that waits for the mutex takes nothing else from its queue.    *)
(***************************************************************************)
Inbox(z) == mail[z] # <<>>
First(z) == Head(mail[z])
Taken(z) == mail' = [mail EXCEPT ![z] = Tail(@)]
Hooked(c) == c.op \notin {"spawn", "despawn", "snapshot"}

Serve(z) ==
    /\ Inbox(z)
    /\ work.at # z
    /\ ~Hooked(First(z))
    /\ Taken(z)
    /\ world' = CASE First(z).op = "spawn"   -> [world EXCEPT ![z] = @ \cup First(z).about]
                  [] First(z).op = "despawn" -> [world EXCEPT ![z] = @ \ First(z).about]
                  [] OTHER                   -> world
    /\ known' = [f \in Players |->
                    IF First(z) = Command("snapshot", {f})
                      THEN known[f] \cup world[z] ELSE known[f]]
    /\ UNCHANGED <<session, boot, work, pending, cache, read, stored, heard,
                   log, made, left, sent>>

\* An attack on what is not in the zone is dropped before the mutex is taken.
Gone(z, c) == c.op = "on-damage-calc" /\ ~(c.about \subseteq world[z])

Begin(z) ==
    /\ Inbox(z) /\ Hooked(First(z)) /\ Free
    /\ Taken(z)
    /\ IF Gone(z, First(z))
         THEN UNCHANGED <<work, heard>>
         ELSE /\ work' = Dispatch(z, First(z).op, First(z).about)
              /\ heard' = heard \cup First(z).about
    /\ UNCHANGED <<session, known, world, boot, pending, cache, read, stored,
                   log, made, left, sent>>

Alone(hook, z) ==
    /\ Booted /\ Free
    /\ Interested(hook) # {}
    /\ work' = Dispatch(z, hook, {})
    /\ UNCHANGED <<session, known, world, mail, boot, pending, cache, read,
                   stored, heard, log, made, left, sent>>

Tick(z) == Alone("tick", z)

\* A session's own dispatch: a character created in the lobby, or a craft.
SessionHook == \E hook \in {"on-character-create", "on-craft-complete"} :
                   Alone(hook, Nowhere)

Boot ==
    /\ boot # <<>> /\ Free
    /\ work' = Head(boot)
    /\ boot' = Tail(boot)
    /\ UNCHANGED <<session, known, world, mail, pending, cache, read, stored,
                   heard, log, made, left, sent>>

-----------------------------------------------------------------------------
(***************************************************************************)
(* The dispatch in hand.                                                   *)
(***************************************************************************)
\* The plugins are called in load order.
Current == Min(work.todo)

\* The host functions a plugin's capabilities let through.
Allowed(p) == {f \in Calls : MayCall(LoadOrder[p], f)}

\* The entities a function can be called with; two functions take none.
Named(f) == IF f \in {"spawn-npc", "register-item-type"} THEN {Nowhere} ELSE heard

(***************************************************************************)
(* A host call.  `sure` remembers whether the server knew the entity's     *)
(* character then, and would until a leave hook yet to come.               *)
(***************************************************************************)
Request(p, f, e, during) ==
    [id |-> made + 1, fn |-> f, of |-> e, by |-> p, at |-> work.at,
     during |-> during,
     sure |-> e \in Players /\ Mapped(e) /\ session[e] # "left"]

Record(r) == pending' = [pending EXCEPT ![r.by] = @ \cup {r}]

CacheState(r) == cache' = IF r.fn = "plugin-state-set"
                            THEN [cache EXCEPT ![r.of] = r.id] ELSE cache

(***************************************************************************)
(* A call into plugin p, which may make one host call, about any entity it *)
(* has heard of.                                                           *)
(***************************************************************************)
Call(p, during) ==
    \/ UNCHANGED <<pending, cache, made, left>>
    \/ /\ left > 0
       /\ made' = made + 1 /\ left' = left - 1
       /\ \E f \in Allowed(p) : \E e \in Named(f) :
              LET r == Request(p, f, e, during) IN Record(r) /\ CacheState(r)

CallHook ==
    /\ work.todo # {} /\ ~work.called
    /\ Call(Current, "hook")
    /\ work' = [work EXCEPT !.called = TRUE, !.stages = Stages(work.hook)]
    /\ UNCHANGED <<session, known, world, mail, boot, read, stored, heard, log,
                   sent>>

\* What a stage drains.
Drained(stage) ==
    IF stage = <<"on-item-acquire">>
      THEN work.acquired
      ELSE {r \in pending[Current] : r.fn \in Range(stage)}

\* The next stage with something to do; those before it drain nothing.
NextStage == SelectInSeq(work.stages, LAMBDA stage : Drained(stage) # {})

Drain ==
    /\ work.called /\ work.batch = {} /\ NextStage # 0
    /\ LET stage == work.stages[NextStage]
       IN  /\ work' = [work EXCEPT
                  !.batch = Drained(stage),
                  !.stages = SubSeq(@, NextStage + 1, Len(@)),
                  !.acquired = IF stage = <<"on-item-acquire">> THEN {} ELSE @]
           /\ pending' = [pending EXCEPT ![Current] =
                  {r \in @ : r.fn \notin Range(stage)}]
    /\ UNCHANGED <<session, known, world, mail, boot, cache, read, stored,
                   heard, log, made, left, sent>>

EarlierEffect(f, g) ==
    \E i, j \in DOMAIN Effects : i < j /\ Effects[i] = f /\ Effects[j] = g

\* The mutant that takes a queue from its end.
NewestFirst(r, s) ==
    IF r.fn = s.fn THEN r.id > s.id ELSE EarlierEffect(r.fn, s.fn)

\* What is drained is handled one function after the other, and of one function
\* in the order of the calls.
Before(r, s) ==
    IF r.fn = s.fn THEN r.id < s.id ELSE EarlierEffect(r.fn, s.fn)

Foremost(r) == \A s \in work.batch \ {r} : Before(r, s)

Logged(r, ok) == log' = Append(log, [req |-> r, in |-> work.at, ok |-> ok])

\* Whether the request finds what it is about.
Resolves(r) ==
    CASE r.fn = "apply-stat-delta" -> Mapped(r.of) /\ r.of \in world[work.at]
      [] r.fn \in {"grant-item", "remove-item", "modify-currency",
                   "plugin-state-set"} -> Mapped(r.of)
      [] r.fn = "spawn-npc"        -> work.at # Nowhere
      [] OTHER                     -> TRUE

\* The hook a handled request is followed by, if the plugin declares it.
Confirmation ==
    [f \in {"spawn-npc"} |-> "on-entity-spawn"]
    @@ [f \in {"report-death"} |-> "on-death"]
    @@ [f \in {"report-respawn"} |-> "on-respawn"]

Confirms(r) ==
    /\ r.fn \in DOMAIN Confirmation /\ Resolves(r)
    /\ Declares(Current, Confirmation[r.fn])

\* set_character_state: the newest value written wins.
Persist(r) == stored' = IF r.fn = "plugin-state-set" /\ Resolves(r)
                          THEN [stored EXCEPT ![r.of] = r.id] ELSE stored

Handled(r) == [work EXCEPT !.batch = @ \ {r}]

Apply ==
    /\ \E r \in work.batch :
           /\ Foremost(r)
           /\ r.fn # "acquired" /\ ~Confirms(r)
           /\ Logged(r, Resolves(r))
           /\ Persist(r)
           /\ \/ work' = Handled(r)
              \/ /\ r.fn = "grant-item" /\ Resolves(r)
                 /\ Declares(Current, "on-item-acquire")
                 /\ work' = [Handled(r) EXCEPT
                                !.acquired = @ \cup {[r EXCEPT !.fn = "acquired"]}]
    /\ UNCHANGED <<session, known, world, mail, boot, pending, cache, read,
                   heard, made, left, sent>>

\* on-item-acquire, on-entity-spawn, on-death and on-respawn.
Confirm ==
    /\ \E r \in work.batch :
           /\ Foremost(r)
           /\ r.fn = "acquired" \/ Confirms(r)
           /\ IF r.fn = "acquired" THEN UNCHANGED log ELSE Logged(r, TRUE)
           /\ Call(Current, "confirmation")
           /\ work' = Handled(r)
    /\ UNCHANGED <<session, known, world, mail, boot, read, stored, heard,
                   sent>>

\* One plugin is done with: the next, or the mutex is released.
NextPlugin ==
    /\ work.called /\ work.batch = {} /\ NextStage = 0
    /\ work' = [work EXCEPT !.called = FALSE, !.todo = @ \ {Current}, !.stages = <<>>,
                            !.acquired = {}]
    /\ UNCHANGED <<session, known, world, mail, boot, pending, cache, read,
                   stored, heard, log, made, left, sent>>

\* The mutant that answers a leave only when nothing is queued any more.
ReleaseWhenDry ==
    /\ ~Free /\ work.todo = {}
    /\ session' = [e \in Players |->
                      IF /\ work.hook = "on-player-leave-zone"
                         /\ e \in work.about /\ session[e] = "leaving"
                         /\ \A p \in Plugins : pending[p] = {}
                        THEN "left" ELSE session[e]]
    /\ work' = Idle
    /\ UNCHANGED <<known, world, mail, boot, pending, cache, read, stored,
                   heard, log, made, left, sent>>

Release ==
    /\ ~Free /\ work.todo = {}
    /\ session' = [e \in Players |->
                      IF /\ work.hook = "on-player-leave-zone"
                         /\ e \in work.about /\ session[e] = "leaving"
                        THEN "left" ELSE session[e]]
    /\ work' = Idle
    /\ UNCHANGED <<known, world, mail, boot, pending, cache, read, stored,
                   heard, log, made, left, sent>>

Dispatching == CallHook \/ Drain \/ Apply \/ Confirm \/ NextPlugin \/ Release

Connection(e) == \/ Spawn(e) \/ Map(e) \/ ReadState(e) \/ Hydrate(e)
                 \/ Join(e) \/ Act(e) \/ Leave(e) \/ Clear(e)

Next == \/ \E e \in Players : Connection(e)
        \/ \E z \in Zones : Serve(z) \/ Begin(z) \/ Tick(z)
        \/ SessionHook \/ Boot \/ Dispatching

(***************************************************************************)
(* A hook call returns and what it asked for is applied; the mutex is a    *)
(* FIFO queue and the actor's select is fair, so a command that waits for  *)
(* it gets it; a session goes on with its join and its disconnect.         *)
(***************************************************************************)
Fairness ==
    /\ WF_vars(Dispatching) /\ WF_vars(Boot)
    /\ \A z \in Zones : SF_vars(Begin(z)) /\ SF_vars(Serve(z))
    /\ \A e \in Players : WF_vars(Clear(e))

Spec == Init /\ [][Next]_vars /\ Fairness

-----------------------------------------------------------------------------
(***************************************************************************)
(* Properties.                                                             *)
(***************************************************************************)
\* Every variable stays in its set, and only what a plugin's capabilities
\* allow is queued for it.
TypeOK ==
    /\ session \in [Players -> {"out", "spawned", "mapped", "read", "hydrated",
                                "joined", "leaving", "left", "cleared"}]
    /\ world \in [Zones -> SUBSET Players]
    /\ known \in [Players -> SUBSET Players]
    /\ cache \in [Players -> 0..made]
    /\ stored \in [Players -> 0..made]
    /\ heard \subseteq Players
    /\ \A p \in Plugins : \A r \in pending[p] :
           /\ r.fn \in Calls
           /\ r.fn # "plugin-state-set" =>
                  required_capability[r.fn] \in Range(LoadOrder[p].capabilities)
    /\ work.at \in Zones \cup {Nowhere} /\ work.todo \subseteq Plugins

\* What a hook itself asks for a joined player, whatever zone the hook runs
\* in, finds the player's character when it is applied: the disconnect waits
\* for the leave hook, and so for every dispatch before it, and clears the
\* maps after (the reply of PlayerLeave).
HookEffectsLand ==
    \A i \in DOMAIN log :
        ~log[i].ok /\ log[i].req.sure /\ log[i].req.during = "hook"
        /\ log[i].req.at # Nowhere
            => log[i].req.fn \in {"apply-stat-delta", "spawn-npc"}

\* A plugin's requests of one host function take effect in the order of its
\* calls, those left over from an earlier dispatch first.
CallOrder ==
    \A i, j \in DOMAIN log :
        i < j /\ log[i].req.by = log[j].req.by /\ log[i].req.fn = log[j].req.fn
            => log[i].req.id < log[j].req.id

\* A disconnect always gets through: the leave it waits for is answered,
\* whether or not a plugin cares, whatever the other zones dispatch.
LeavesAnswered ==
    \A e \in Players : session[e] = "leaving" ~> session[e] = "cleared"

\* What session.rs says of the hydration of character-scope state: it comes
\* before the entity can receive any plugin call.  False: the entity is in
\* the zone, and so in rosters, before its state is read.
HydratedFirst ==
    work.called => \A e \in work.about :
        session[e] \notin {"spawned", "mapped", "read"}

\* What world_actor.rs says of host-function calls: they take effect
\* whichever hook made them.  False: nothing drains what a confirmation
\* asked for, nor spawn-npc after most hooks.
NothingLeftBehind == Free => \A p \in Plugins : pending[p] = {}
=============================================================================
