--------------------------- MODULE PluginsProofs ---------------------------
(***************************************************************************)
(* What is proved of the plugins' dispatches, for any plugins, zones and   *)
(* players: the types, that requests take effect in call order, and that   *)
(* what a hook asks for a joined player finds its character.               *)
(*                                                                         *)
(* Requests are numbered, so the order is one of numbers: what is logged   *)
(* is older than what is in the batch, and that is older than what is      *)
(* queued (Ordered).  For the second, a hook of a zone drains every        *)
(* request about a character before its plugin is done with (Due), and no  *)
(* leave hook returns in between, because the mutex is held.               *)
(***************************************************************************)
EXTENDS Plugins, FiniteSetTheorems, SequenceTheorems, TLAPS

SessionStage == {"out", "spawned", "mapped", "read", "hydrated", "joined", "leaving", "left",
                 "cleared"}
LifecycleHook == {"on-load", "on-zone-loaded", "on-character-create", "on-craft-complete"}
Hook == KNOWN_HOOKS \cup {"tick", "none"}
Drains == {"move-entity", "teleport-entity", "apply-stat-delta", "grant-item", "remove-item",
           "modify-currency", "plugin-state-set", "on-item-acquire", "report-death",
           "report-respawn", "register-item-type", "spawn-npc",
           "apply-stat-delta-for-character"}
Place == Zones \cup {Nowhere}

Asked == [id : Nat, fn : Calls \cup {"acquired"}, of : Players \cup {Nowhere}, by : Plugins,
          at : Place, during : {"hook", "confirmation"}, sure : BOOLEAN]
Dispatched == [at : Place, hook : Hook, about : SUBSET Players, todo : SUBSET Plugins,
               called : BOOLEAN, stages : Seq(Seq(Drains)), batch : SUBSET Asked,
               acquired : SUBSET Asked]

\* What a zone's queue may hold, and the dispatches of start-up.
Commands == [op : (Hook \cup {"spawn", "despawn", "snapshot"}) \ LifecycleHook, about : SUBSET Players]
Starting == {d \in Dispatched : /\ d.hook \in {"on-load", "on-zone-loaded"} /\ ~d.called
                                /\ d.at # Nowhere => d.hook = "on-zone-loaded"
                                /\ d.batch = {} /\ d.acquired = {}}

Types ==
    /\ session \in [Players -> SessionStage]
    /\ known \in [Players -> SUBSET Players]
    /\ world \in [Zones -> SUBSET Players]
    /\ mail \in [Zones -> Seq(Commands)]
    /\ boot \in Seq(Starting)
    /\ work \in Dispatched
    /\ pending \in [Plugins -> SUBSET Asked]
    /\ cache \in [Players -> 0..made]
    /\ read \in [Players -> 0..made]
    /\ stored \in [Players -> 0..made]
    /\ heard \subseteq Players
    /\ log \in Seq([req : Asked, in : Place, ok : BOOLEAN])
    /\ made \in Nat /\ left \in Nat /\ sent \in Nat

\* What each plugin has queued is its own, made already, and allowed it.
Queued ==
    \A p \in Plugins : \A r \in pending[p] :
        r.by = p /\ r.id <= made /\ r.fn \in Calls /\ MayCall(LoadOrder[p], r.fn)

\* Where a dispatch stands.
InHand ==
    /\ ~work.called => work.batch = {} /\ work.acquired = {}
    /\ work.called => work.todo # {}
    /\ \A r \in work.batch \cup work.acquired : r.id <= made
    /\ \A r \in work.batch : r.fn = "acquired" \/ r.by = Current
    /\ \A r \in work.acquired : r.fn = "acquired"
    /\ work.at # Nowhere => work.hook \notin LifecycleHook \ {"on-zone-loaded"}

\* Until the last dispatch of start-up no player has been heard of.
Quiet ==
    /\ boot # <<>> => /\ heard = {} /\ \A z \in Zones : mail[z] = <<>>
                      /\ \A e \in Players : session[e] \in {"out", "cleared"}
    /\ work.hook = "on-zone-loaded" => heard = {}

Base == Types /\ Queued /\ InHand /\ Quiet

Later(r, s) == r.by = s.by /\ r.fn = s.fn => r.id < s.id

Ordered ==
    /\ \A i \in DOMAIN log : log[i].req.fn \in Calls /\ log[i].req.id <= made
    /\ \A i \in DOMAIN log : \A r \in work.batch : Later(log[i].req, r)
    /\ \A i \in DOMAIN log : \A p \in Plugins : \A s \in pending[p] : Later(log[i].req, s)
    /\ \A r \in work.batch : \A p \in Plugins : \A s \in pending[p] : Later(r, s)

\* A request that needs its character, which the server knew when a zone's hook asked.
Due(r) == /\ r.sure /\ r.during = "hook" /\ r.at # Nowhere
          /\ r.fn \in {"grant-item", "remove-item", "modify-currency", "plugin-state-set"}

Present(e) == e \in Players /\ session[e] \in {"mapped", "read", "hydrated", "joined", "leaving"}

Expected ==
    /\ \A p \in Plugins : \A r \in pending[p] : Due(r) =>
           /\ work.called /\ p = Current /\ Present(r.of)
           /\ \E i \in DOMAIN work.stages : work.stages[i] = Effects
    /\ \A r \in work.batch : Due(r) => Present(r.of)

-----------------------------------------------------------------------------
(* Helpers.                                                                 *)

LEMMA LeastOf ==
    ASSUME NEW B, B \subseteq Nat, B # {}
    PROVE  Min(B) \in B /\ \A n \in B : Min(B) <= n
<1>1. \E m \in B : \A n \in B : <<n, m>> \notin OpToRel(<, Nat)
  BY NatLessThanWellFounded, WFMin
<1>2. \A n, m \in Nat : n < m => <<n, m>> \in OpToRel(<, Nat)
  BY DEF OpToRel
<1>3. \A n, m \in Nat : ~ (n < m) => m <= n
  OBVIOUS
<1>4. \E m \in B : \A n \in B : m <= n
  BY <1>1, <1>2, <1>3
<1> QED
  BY <1>4 DEF Min

LEMMA PluginsNumbered == Plugins \subseteq Nat
BY PluginsAssumption DEF Plugins

LEMMA CurrentCalled ==
    ASSUME Types, work.todo # {}
    PROVE  Current \in work.todo /\ Current \in Plugins
<1>1. work.todo \subseteq Plugins
  BY DEF Types, Dispatched
<1> QED
  BY <1>1, PluginsNumbered, LeastOf DEF Current

LEMMA AfterOne ==
    ASSUME NEW S, NEW s \in Seq(S), NEW t \in Seq(S), Len(s) = 1, Len(t) = 5
    PROVE  s \o t \in Seq(S) /\ Len(s \o t) = 6 /\ (s \o t)[2] = t[1]
<1>1. /\ s \o t \in Seq(S) /\ Len(s \o t) = Len(s) + Len(t)
      /\ \A i \in 1 .. Len(s) + Len(t) :
             (s \o t)[i] = IF i <= Len(s) THEN s[i] ELSE t[i - Len(s)]
  BY ConcatProperties, Zenon
<1>2. PICK st : st = s \o t
  OBVIOUS
<1>3. st \in Seq(S) /\ Len(st) = 6 /\ st[2] = t[1]
  BY <1>1, <1>2
<1> QED
  BY <1>2, <1>3, Zenon

\* The hooks of a zone drain the effects on characters.
LEMMA StagesTyped ==
    ASSUME NEW hook \in Hook
    PROVE  /\ Stages(hook) \in Seq(Seq(Drains))
           /\ hook \notin LifecycleHook =>
                  \E i \in DOMAIN Stages(hook) : Stages(hook)[i] = Effects
<1>1. Effects \in Seq(Drains)
  BY DEF Effects, Drains
<1>2. Applied \in Seq(Seq(Drains)) /\ Len(Applied) = 5 /\ Applied[1] = Effects
  BY <1>1 DEF Applied, Drains
<1>3. Seeded \in Seq(Seq(Drains)) /\ Len(Seeded) = 1
  BY DEF Seeded, Drains
<1>4. /\ Seeded \o Applied \in Seq(Seq(Drains)) /\ Len(Seeded \o Applied) = 6
      /\ (Seeded \o Applied)[2] = Effects
  BY <1>2, <1>3, AfterOne
<1>5. CASE hook = "on-load"
  BY <1>5 DEF Stages, LifecycleHook, Drains
<1>6. CASE hook = "on-zone-loaded"
  BY <1>3, <1>6 DEF Stages, LifecycleHook, Drains
<1>7. CASE hook \in {"on-message", "on-chat-command"}
  <2>1. Stages(hook) = Seeded \o Applied
    BY <1>7 DEF Stages
  <2>2. 2 \in DOMAIN Stages(hook) /\ Stages(hook)[2] = Effects
    BY <1>4, <2>1
  <2> QED
    BY <1>4, <2>1, <2>2
<1>8. CASE hook \in {"on-character-create", "on-craft-complete"}
  BY <1>8 DEF Stages, LifecycleHook, Drains
<1>9. CASE hook \notin LifecycleHook \cup {"on-message", "on-chat-command"}
  <2>1. Stages(hook) = Applied
    BY <1>9 DEF Stages, LifecycleHook, Drains
  <2> QED
    BY <1>2, <2>1
<1> QED
  BY <1>5, <1>6, <1>7, <1>8, <1>9 DEF LifecycleHook

LEMMA InterestedPlugins == \A hook : Interested(hook) \subseteq Plugins
BY DEF Interested

LEMMA FreshTyped ==
    ASSUME NEW z \in Place, NEW hook \in Hook, NEW about \in SUBSET Players,
           NEW todo \in SUBSET Plugins
    PROVE  /\ Fresh(z, hook, about, todo) \in Dispatched
           /\ Fresh(z, hook, about, todo).at = z
           /\ Fresh(z, hook, about, todo).hook = hook
           /\ Fresh(z, hook, about, todo).todo = todo
           /\ ~Fresh(z, hook, about, todo).called
           /\ Fresh(z, hook, about, todo).batch = {}
           /\ Fresh(z, hook, about, todo).acquired = {}
BY DEF Fresh, Dispatched

LEMMA StartingSet == \A S : IsFiniteSet(S) => SetToSeq(S) \in Seq(S)
<1> SUFFICES ASSUME NEW S, IsFiniteSet(S) PROVE SetToSeq(S) \in Seq(S)
  OBVIOUS
<1>1. Cardinality(S) \in Nat /\ ExistsBijection(1..Cardinality(S), S)
  BY FS_CardinalityType
<1>2. \E f \in [1..Cardinality(S) -> S] : IsInjective(f)
  BY <1>1 DEF ExistsBijection, Bijection, Injection, IsInjective
<1> QED
  BY <1>1, <1>2 DEF SetToSeq

LEMMA NextStageTyped ==
    ASSUME work.stages \in Seq(Seq(Drains))
    PROVE  /\ NextStage = 0 => \A i \in DOMAIN work.stages : Drained(work.stages[i]) = {}
           /\ NextStage # 0 =>
                /\ NextStage \in DOMAIN work.stages
                /\ \A i \in DOMAIN work.stages :
                       i < NextStage => Drained(work.stages[i]) = {}
<1> DEFINE I == {i \in 1..Len(work.stages) : Drained(work.stages[i]) # {}}
<1>1. NextStage = IF I # {} THEN Min(I) ELSE 0
  BY DEF NextStage, SelectInSeq
<1>2. I \subseteq Nat /\ I \subseteq DOMAIN work.stages /\ 0 \notin I
  OBVIOUS
<1>3. I # {} => Min(I) \in I /\ \A n \in I : Min(I) <= n
  BY <1>2, LeastOf
<1>4. \A i \in DOMAIN work.stages : i \in I \/ Drained(work.stages[i]) = {}
  OBVIOUS
<1>5. I \cap {0} = {}
  OBVIOUS
<1> HIDE DEF I
<1>6. CASE I = {}
  BY <1>1, <1>4, <1>6
<1>7. CASE I # {}
  <2>1. NextStage \in I /\ NextStage \in DOMAIN work.stages /\ NextStage # 0
    BY <1>1, <1>2, <1>3, <1>7
  <2>2. ASSUME NEW i \in DOMAIN work.stages, i < NextStage, i \in I
        PROVE  FALSE
    BY <1>1, <1>2, <1>3, <1>7, <2>1, <2>2
  <2> QED
    BY <1>4, <2>1, <2>2
<1> QED
  BY <1>6, <1>7

LEMMA IdleFacts ==
    /\ Idle \in Dispatched /\ Idle.at = Nowhere /\ Idle.todo = {} /\ ~Idle.called
    /\ Idle.batch = {} /\ Idle.acquired = {} /\ Idle.hook = "none"
<1>1. Nowhere \in Place /\ "none" \in Hook /\ {} \in SUBSET Players /\ {} \in SUBSET Plugins
  BY DEF Place, Hook
<1> QED
  BY <1>1 DEF Idle, Fresh, Dispatched

LEMMA DispatchFacts ==
    ASSUME NEW z \in Place, NEW hook \in Hook, NEW about \in SUBSET Players
    PROVE  LET d == Dispatch(z, hook, about)
           IN  /\ d \in Dispatched /\ d.at = z /\ d.hook = hook
               /\ ~d.called /\ d.batch = {} /\ d.acquired = {}
<1>1. PICK todo : todo = Interested(hook) /\ todo \in SUBSET Plugins
  BY InterestedPlugins
<1>2. Dispatch(z, hook, about) = Fresh(z, hook, about, todo)
  BY <1>1 DEF Dispatch
<1>3. todo \in SUBSET Plugins
  BY <1>1
<1>4. /\ Fresh(z, hook, about, todo) \in Dispatched
      /\ Fresh(z, hook, about, todo).at = z
      /\ Fresh(z, hook, about, todo).hook = hook
      /\ ~Fresh(z, hook, about, todo).called
      /\ Fresh(z, hook, about, todo).batch = {}
      /\ Fresh(z, hook, about, todo).acquired = {}
  BY <1>3 DEF Fresh, Dispatched
<1> QED
  BY <1>2, <1>4, Zenon

LEMMA PresentKnown == \A e : Present(e) => Mapped(e)
BY DEF Present, Mapped

-----------------------------------------------------------------------------
(* Sessions change nothing of the dispatch in hand, and take nobody who is  *)
(* present away.                                                            *)

LEMMA Posted ==
    ASSUME Types, NEW z \in Zones, NEW op, NEW about \in SUBSET Players, Post(z, Command(op, about)),
           op \in (Hook \cup {"spawn", "despawn", "snapshot"}) \ LifecycleHook
    PROVE  mail' \in [Zones -> Seq(Commands)]
<1>1. Command(op, about) \in Commands
  BY DEF Command, Commands
<1> QED
  BY <1>1 DEF Post, Types

LEMMA Connecting ==
    ASSUME Types, Quiet, NEW e \in Players, Connection(e)
    PROVE  /\ Types' /\ boot = <<>>
           /\ UNCHANGED <<boot, work, pending, heard, log, made>>
           /\ \A f : Present(f) => Present(f)'
<1>h. Home[e] \in Zones /\ {e} \in SUBSET Players
  BY PluginsAssumption
<1>o. {"on-player-join-zone", "on-player-leave-zone", "on-damage-calc", "spawn", "despawn",
       "snapshot"} \cup Acts \subseteq (Hook \cup {"spawn", "despawn", "snapshot"}) \ LifecycleHook
  BY PluginsAssumption DEF Hook, KNOWN_HOOKS, LifecycleHook
<1>b. boot = <<>>
  BY DEF Quiet, Connection, Spawn, Booted, Map, ReadState, Hydrate, Join, Act, Leave, Clear, Stage
<1>1. CASE Spawn(e)
  <2>1. mail' \in [Zones -> Seq(Commands)]
    BY <1>1, <1>h, <1>o, Posted DEF Spawn
  <2> QED
    BY <1>b, <1>1, <2>1 DEF Spawn, Stage, Types, SessionStage, Present
<1>2. CASE Map(e)
  BY <1>b, <1>2 DEF Map, Stage, Types, SessionStage, Present
<1>3. CASE ReadState(e)
  BY <1>b, <1>3 DEF ReadState, Stage, Types, SessionStage, Present
<1>4. CASE Hydrate(e)
  <2>1. mail' \in [Zones -> Seq(Commands)]
    BY <1>4, <1>h, <1>o, Posted DEF Hydrate
  <2>2. cache' \in [Players -> 0..made]
    BY <1>b, <1>4 DEF Hydrate, Types
  <2> QED
    BY <1>b, <1>4, <2>1, <2>2 DEF Hydrate, Stage, Types, SessionStage, Present
<1>5. CASE Join(e)
  <2>1. mail' \in [Zones -> Seq(Commands)]
    BY <1>5, <1>h, <1>o, Posted DEF Join
  <2>2. known' \in [Players -> SUBSET Players]
    BY <1>b, <1>5 DEF Join, Types
  <2> QED
    BY <1>b, <1>5, <2>1, <2>2 DEF Join, Stage, Types, SessionStage, Present
<1>6. CASE Act(e)
  <2>1. CASE \E hook \in Acts : Post(Home[e], Command(hook, {e}))
    <3>1. mail' \in [Zones -> Seq(Commands)]
      BY <2>1, <1>h, <1>o, Posted
    <3> QED
      BY <1>b, <1>6, <3>1 DEF Act, Types, Present
  <2>2. CASE \E target \in known[e] \ {e} : Post(Home[e], Command("on-damage-calc", {e, target}))
    <3>1. \A target \in known[e] : {e, target} \in SUBSET Players
      BY DEF Types
    <3>2. mail' \in [Zones -> Seq(Commands)]
      BY <2>2, <3>1, <1>h, <1>o, Posted
    <3> QED
      BY <1>b, <1>6, <3>2 DEF Act, Types, Present
  <2> QED
    BY <1>6, <2>1, <2>2 DEF Act
<1>7. CASE Leave(e)
  <2>1. mail' \in [Zones -> Seq(Commands)]
    BY <1>7, <1>h, <1>o, Posted DEF Leave
  <2> QED
    BY <1>b, <1>7, <2>1 DEF Leave, Stage, Types, SessionStage, Present
<1>8. CASE Clear(e)
  <2>1. mail' \in [Zones -> Seq(Commands)]
    BY <1>8, <1>h, <1>o, Posted DEF Clear
  <2>2. cache' \in [Players -> 0..made]
    BY <1>b, <1>8 DEF Clear, Types
  <2> QED
    BY <1>b, <1>8, <2>1, <2>2 DEF Clear, Stage, Types, SessionStage, Present
<1> QED
  BY <1>b, <1>1, <1>2, <1>3, <1>4, <1>5, <1>6, <1>7, <1>8 DEF Connection

-----------------------------------------------------------------------------
(* A dispatch begins only when there is none, and with nothing called.      *)

Beginning ==
    /\ UNCHANGED <<session, pending, log, made>>
    /\ Quiet'
    /\ \/ work' = work
       \/ /\ work = Idle /\ ~work'.called /\ work'.batch = {} /\ work'.acquired = {}
          /\ work'.at # Nowhere => work'.hook \notin LifecycleHook \ {"on-zone-loaded"}

LEMMA Serving ==
    ASSUME Types, Quiet, NEW z \in Zones, Serve(z)
    PROVE  Types' /\ Beginning
<1>1. mail[z] \in Seq(Commands) /\ mail[z] # <<>>
  BY DEF Types, Serve, Inbox
<1>2. First(z) \in Commands /\ Tail(mail[z]) \in Seq(Commands)
  BY <1>1, HeadTailProperties DEF First
<1>3. mail' \in [Zones -> Seq(Commands)]
  BY <1>2 DEF Serve, Taken, Types
<1>4. First(z).about \subseteq Players
  BY <1>2 DEF Commands
<1>5. world' \in [Zones -> SUBSET Players]
  <2>1. CASE First(z).op = "spawn"
    BY <1>4, <2>1 DEF Serve, Types
  <2>2. CASE First(z).op = "despawn"
    BY <1>4, <2>2 DEF Serve, Types
  <2>3. CASE First(z).op \notin {"spawn", "despawn"}
    BY <2>3 DEF Serve, Types
  <2> QED
    BY <2>1, <2>2, <2>3
<1>6. known' \in [Players -> SUBSET Players]
  BY DEF Serve, Types
<1> QED
  BY <1>1, <1>3, <1>5, <1>6 DEF Serve, Types, Beginning, Quiet

LEMMA BeginsOne ==
    ASSUME Types, Quiet, NEW z \in Zones, Begin(z)
    PROVE  Types' /\ Beginning
<1>1. mail[z] \in Seq(Commands) /\ mail[z] # <<>>
  BY DEF Types, Begin, Inbox
<1>2. First(z) \in Commands /\ Tail(mail[z]) \in Seq(Commands)
  BY <1>1, HeadTailProperties DEF First
<1>3. mail' \in [Zones -> Seq(Commands)]
  BY <1>2 DEF Begin, Taken, Types
<1>4. First(z).about \in SUBSET Players /\ First(z).op \in Hook /\ First(z).op \notin LifecycleHook
  BY <1>2 DEF Commands, Begin, Hooked
<1>5. CASE Gone(z, First(z))
  BY <1>1, <1>3, <1>5 DEF Begin, Types, Beginning, Quiet
<1>6. CASE ~Gone(z, First(z))
  <2>1. z \in Place
    BY DEF Place
  <2>2. work' = Dispatch(z, First(z).op, First(z).about) /\ work = Idle
        /\ heard' = heard \cup First(z).about
    BY <1>6 DEF Begin, Free
  <2>3. /\ work' \in Dispatched /\ work'.at = z /\ work'.hook = First(z).op
        /\ ~work'.called /\ work'.batch = {} /\ work'.acquired = {}
    BY <1>4, <2>1, <2>2, DispatchFacts
  <2> QED
    BY <1>1, <1>3, <1>4, <2>2, <2>3 DEF Begin, Types, Beginning, Quiet, LifecycleHook
<1> QED
  BY <1>5, <1>6

LEMMA BeginsAlone ==
    ASSUME Types, Quiet, NEW z \in Place, NEW hook \in Hook, Alone(hook, z),
           hook # "on-zone-loaded", z # Nowhere => hook \notin LifecycleHook
    PROVE  Types' /\ Beginning
<1>1. {} \in SUBSET Players
  OBVIOUS
<1>2. work' = Dispatch(z, hook, {}) /\ work = Idle
  BY DEF Alone, Free
<1>3. /\ work' \in Dispatched /\ work'.at = z /\ work'.hook = hook
      /\ ~work'.called /\ work'.batch = {} /\ work'.acquired = {}
  BY <1>1, <1>2, DispatchFacts
<1> QED
  BY <1>2, <1>3 DEF Alone, Booted, Types, Beginning, Quiet

LEMMA Booting ==
    ASSUME Types, Quiet, Boot
    PROVE  Types' /\ Beginning
<1>1. boot \in Seq(Starting) /\ boot # <<>>
  BY DEF Types, Boot
<1>2. Head(boot) \in Starting /\ Tail(boot) \in Seq(Starting)
  BY <1>1, HeadTailProperties
<1>3. work' = Head(boot) /\ boot' = Tail(boot) /\ work = Idle
  BY DEF Boot, Free
<1>4. /\ work' \in Dispatched /\ ~work'.called /\ work'.batch = {} /\ work'.acquired = {}
      /\ work'.at # Nowhere => work'.hook = "on-zone-loaded"
  BY <1>2, <1>3 DEF Starting
<1>5. boot' \in Seq(Starting)
  BY <1>2, <1>3
<1>6. work' \in Dispatched
  BY <1>4
<1>7. Types'
  BY <1>5, <1>6 DEF Boot, Types
<1>8. Quiet'
  BY <1>1, <1>3 DEF Boot, Quiet
<1> QED
  BY <1>3, <1>4, <1>7, <1>8 DEF Boot, Beginning

-----------------------------------------------------------------------------
(* A call into a plugin records at most one request, newer than any other.  *)

NewRequest(p, during) ==
    \E r \in Asked :
        /\ r.id = made + 1 /\ made' = made + 1
        /\ r.by = p /\ r.fn \in Calls /\ MayCall(LoadOrder[p], r.fn)
        /\ r.at = work.at /\ r.during = during
        /\ Due(r) => heard # {}
        /\ Due(r) => Present(r.of)
        /\ pending' = [pending EXCEPT ![p] = @ \cup {r}]

CallDone(p, during) ==
    /\ pending' \in [Plugins -> SUBSET Asked]
    /\ made' \in Nat /\ made <= made' /\ left' \in Nat
    /\ cache' \in [Players -> 0..made']
    /\ \/ pending' = pending /\ made' = made
       \/ NewRequest(p, during)

LEMMA Calling ==
    ASSUME Types, NEW p \in Plugins, NEW during \in {"hook", "confirmation"}, Call(p, during)
    PROVE  CallDone(p, during)
<1>1. CASE UNCHANGED <<pending, cache, made, left>>
  BY <1>1 DEF Types, CallDone
<1>2. CASE /\ left > 0
           /\ made' = made + 1 /\ left' = left - 1
           /\ \E f \in Allowed(p) : \E e \in Named(f) :
                  LET r == Request(p, f, e, during) IN Record(r) /\ CacheState(r)
  <2>1. PICK f \in Allowed(p) : \E e \in Named(f) :
            Record(Request(p, f, e, during)) /\ CacheState(Request(p, f, e, during))
    BY <1>2
  <2>2. PICK e \in Named(f) :
            Record(Request(p, f, e, during)) /\ CacheState(Request(p, f, e, during))
    BY <2>1
  <2>3. f \in Calls /\ MayCall(LoadOrder[p], f)
    BY DEF Allowed
  <2>4. e \in Players \cup {Nowhere}
    BY DEF Named, Types
  <2>5. PICK sure \in BOOLEAN : sure = (e \in Players /\ Mapped(e) /\ session[e] # "left")
    OBVIOUS
  <2>6. PICK r : r = [id |-> made + 1, fn |-> f, of |-> e, by |-> p, at |-> work.at,
                      during |-> during, sure |-> sure]
    OBVIOUS
  <2>7. Request(p, f, e, during) = r
    BY <2>5, <2>6 DEF Request
  <2>8. /\ r \in Asked /\ r.id = made + 1 /\ r.by = p /\ r.fn = f /\ r.at = work.at
        /\ r.during = during /\ r.of = e /\ r.sure = sure
    BY <2>3, <2>4, <2>6 DEF Asked, Types, Dispatched
  <2>9. Due(r) => Present(r.of)
    BY <2>5, <2>8 DEF Due, Present, Mapped
  <2>10. Due(r) => heard # {}
    BY <2>8 DEF Due, Named
  <2>11. pending' = [pending EXCEPT ![p] = @ \cup {r}]
    BY <2>2, <2>7, <2>8 DEF Record
  <2>12. pending' \in [Plugins -> SUBSET Asked]
    BY <2>8, <2>11 DEF Types
  <2>13. cache' \in [Players -> 0..made']
    <3>1. cache' = IF r.fn = "plugin-state-set" THEN [cache EXCEPT ![r.of] = r.id] ELSE cache
      BY <2>2, <2>7 DEF CacheState
    <3>2. cache \in [Players -> 0..made + 1] /\ r.id \in 0..made + 1
      BY <2>8 DEF Types
    <3> QED
      BY <1>2, <3>1, <3>2
  <2>14. NewRequest(p, during)
    BY <1>2, <2>3, <2>8, <2>9, <2>11, <2>10 DEF NewRequest
  <2>15. made' \in Nat /\ made <= made' /\ left' \in Nat
    BY <1>2 DEF Types
  <2> QED
    BY <2>12, <2>13, <2>14, <2>15 DEF CallDone
<1> QED
  BY <1>1, <1>2 DEF Call

-----------------------------------------------------------------------------
(* The types, what is queued, and where the dispatch stands.                *)

\* The log and the numbers only grow, and a request called or confirmed is new.
LEMMA QueuedAfterCall ==
    ASSUME Types, Queued, NEW p \in Plugins, NEW during, CallDone(p, during)
    PROVE  Queued'
<1>1. CASE pending' = pending /\ made' = made
  BY <1>1 DEF Queued
<1>2. CASE NewRequest(p, during)
  <2>1. PICK r \in Asked :
          /\ r.id = made + 1 /\ made' = made + 1
          /\ r.by = p /\ r.fn \in Calls /\ MayCall(LoadOrder[p], r.fn)
          /\ pending' = [pending EXCEPT ![p] = @ \cup {r}]
    BY <1>2 DEF NewRequest
  <2>2. \A q \in Plugins : \A s \in pending'[q] : s \in pending[q] \/ (s = r /\ q = p)
    BY <2>1 DEF Types
  <2>3. \A q \in Plugins : \A s \in pending[q] : s.id \in Nat /\ made \in Nat
    BY DEF Types, Asked
  <2>4. ASSUME NEW q \in Plugins, NEW s \in pending'[q]
        PROVE  s.by = q /\ s.id <= made + 1 /\ s.fn \in Calls /\ MayCall(LoadOrder[q], s.fn)
    <3>1. CASE s \in pending[q]
      BY <2>3, <3>1 DEF Queued
    <3>2. CASE s = r /\ q = p
      BY <2>1, <3>2 DEF Types
    <3> QED
      BY <2>2, <2>4, <3>1, <3>2
  <2> QED
    BY <2>1, <2>4 DEF Queued
<1> QED
  BY <1>1, <1>2 DEF CallDone

LEMMA Hooking ==
    ASSUME Base, CallHook
    PROVE  /\ Base' /\ CallDone(Current, "hook") /\ Current' = Current
           /\ ~work.called /\ work'.called /\ UNCHANGED <<session, log>>
           /\ work'.batch = work.batch /\ work'.at = work.at
           /\ work.at # Nowhere /\ heard # {} =>
                  \E i \in DOMAIN work'.stages : work'.stages[i] = Effects
<1>1. Current \in Plugins
  BY CurrentCalled DEF Base, CallHook
<1>2. CallDone(Current, "hook")
  BY <1>1, Calling DEF Base, CallHook
<1>3. work.hook \in Hook /\ work \in Dispatched
  BY DEF Base, Types, Dispatched
<1>4. PICK stages \in Seq(Seq(Drains)) :
         /\ stages = Stages(work.hook)
         /\ work.at # Nowhere /\ heard # {} => \E i \in DOMAIN stages : stages[i] = Effects
  BY <1>3, StagesTyped DEF Base, InHand, Quiet
<1>5. work' = [work EXCEPT !.called = TRUE, !.stages = stages]
  BY <1>4 DEF CallHook
<1>6. /\ work' \in Dispatched /\ work'.called /\ work'.stages = stages
      /\ work'.todo = work.todo /\ work'.batch = work.batch /\ work'.acquired = work.acquired
      /\ work'.at = work.at /\ work'.hook = work.hook
  BY <1>3, <1>5 DEF Dispatched
<1>7. Types'
  <2>1. /\ made' \in Nat /\ made <= made' /\ left' \in Nat
        /\ cache' \in [Players -> 0..made'] /\ pending' \in [Plugins -> SUBSET Asked]
    BY <1>2 DEF CallDone
  <2>2. read \in [Players -> 0..made'] /\ stored \in [Players -> 0..made']
    BY <2>1 DEF Base, Types
  <2> QED
    BY <1>6, <2>1, <2>2 DEF Base, Types, CallHook
<1>8. Queued'
  BY <1>1, <1>2, QueuedAfterCall DEF Base
<1>9. Current' = Current
  BY <1>6 DEF Current
<1>10. InHand'
  BY <1>2, <1>6, <1>9 DEF InHand, Base, CallDone, CallHook, Types, Dispatched, Asked
<1>11. Quiet'
  BY <1>6 DEF Base, Quiet, CallHook
<1> QED
  BY <1>2, <1>4, <1>6, <1>7, <1>8, <1>9, <1>10, <1>11 DEF Base, CallHook

\* What a drain moves from the queue, or from the granted items, into the batch.
LEMMA Draining ==
    ASSUME Base, Drain
    PROVE  /\ Base' /\ Current \in Plugins /\ Current' = Current
           /\ work.called /\ work'.called /\ work.batch = {}
           /\ UNCHANGED <<session, log, made>>
           /\ \A p \in Plugins : pending'[p] \subseteq pending[p]
           /\ \A r \in work'.batch : r.fn = "acquired" \/ r \in pending[Current]
           /\ \A r \in work'.batch : \A s \in pending'[Current] : r.fn # s.fn
           /\ \A r \in pending'[Current] :
                 (\E i \in DOMAIN work.stages : work.stages[i] = Effects) =>
                     \/ r.fn \notin Range(Effects)
                     \/ \E i \in DOMAIN work'.stages : work'.stages[i] = Effects
<1> USE DEF Base
<1>1. /\ work \in Dispatched /\ work.stages \in Seq(Seq(Drains)) /\ work.called
      /\ work.batch = {} /\ work.todo # {} /\ NextStage # 0
  BY DEF Drain, Types, Dispatched, InHand
<1>2. Current \in Plugins
  BY <1>1, CurrentCalled
<1>3. /\ NextStage \in DOMAIN work.stages
      /\ \A i \in DOMAIN work.stages : i < NextStage => Drained(work.stages[i]) = {}
  BY <1>1, NextStageTyped
<1>4. PICK n \in DOMAIN work.stages, stage \in Seq(Drains) :
          n = NextStage /\ stage = work.stages[n]
  BY <1>1, <1>3
<1>5. PICK batch, stages, acquired :
          /\ batch = Drained(stage) /\ stages = SubSeq(work.stages, n + 1, Len(work.stages))
          /\ acquired = IF stage = <<"on-item-acquire">> THEN {} ELSE work.acquired
  OBVIOUS
<1>6. /\ work' = [work EXCEPT !.batch = batch, !.stages = stages, !.acquired = acquired]
      /\ pending' = [pending EXCEPT ![Current] = {r \in @ : r.fn \notin Range(stage)}]
      /\ UNCHANGED <<session, known, world, mail, boot, cache, read, stored, heard, log, made,
                     left, sent>>
  BY <1>4, <1>5 DEF Drain
<1>7. /\ stages \in Seq(Seq(Drains)) /\ Len(stages) = Len(work.stages) - n
      /\ \A i \in 1..Len(stages) : stages[i] = work.stages[n + i]
  <2>1. \A i \in n + 1 .. Len(work.stages) : work.stages[i] \in Seq(Drains)
    BY <1>1, <1>4
  <2>2. n \in 1..Len(work.stages) /\ Len(work.stages) \in Nat
    BY <1>1, <1>4
  <2>3. PICK s, m, l, S : /\ s = work.stages /\ m = n + 1 /\ l = Len(work.stages)
                          /\ S = Seq(Drains)
    OBVIOUS
  <2>4. m \in Int /\ l \in Int /\ \A i \in m..l : s[i] \in S
    BY <2>1, <2>2, <2>3
  <2>5. /\ SubSeq(s, m, l) \in Seq(S)
        /\ Len(SubSeq(s, m, l)) = IF m <= l THEN l - m + 1 ELSE 0
        /\ \A i \in 1 .. l - m + 1 : SubSeq(s, m, l)[i] = s[m + i - 1]
    BY <2>4, SubSeqProperties
  <2>6. stages = SubSeq(s, m, l)
    BY <1>5, <2>3
  <2>7. Len(stages) = l - m + 1 /\ \A i \in 1 .. l - m + 1 : stages[i] = s[m + i - 1]
    BY <2>2, <2>3, <2>5, <2>6
  <2>8. n \in Int /\ l \in Int /\ m = n + 1
    BY <2>2, <2>3
  <2>9. l - m + 1 = l - n /\ \A i \in 1..l - n : m + i - 1 = n + i
    BY <2>8
  <2>10. Len(stages) = l - n /\ \A i \in 1 .. l - n : stages[i] = work.stages[n + i]
    BY <2>3, <2>7, <2>9
  <2> QED
    BY <2>3, <2>5, <2>6, <2>10
<1>8. batch = IF stage = <<"on-item-acquire">> THEN work.acquired
                ELSE {r \in pending[Current] : r.fn \in Range(stage)}
  BY <1>5 DEF Drained
<1>9. batch \in SUBSET Asked /\ acquired \in SUBSET Asked /\ acquired \subseteq work.acquired
  BY <1>1, <1>2, <1>5, <1>8 DEF Types, Dispatched
<1>10. /\ work' \in Dispatched /\ work'.batch = batch /\ work'.stages = stages
       /\ work'.acquired = acquired /\ work'.todo = work.todo /\ work'.called
       /\ work'.at = work.at /\ work'.hook = work.hook
  BY <1>1, <1>6, <1>7, <1>9 DEF Dispatched
<1>11. Current' = Current
  BY <1>10 DEF Current
<1>12. pending' \in [Plugins -> SUBSET Asked] /\ \A p \in Plugins : pending'[p] \subseteq pending[p]
  BY <1>2, <1>6 DEF Types
<1>13. Types'
  BY <1>6, <1>10, <1>12 DEF Types
<1>14. Queued'
  BY <1>6, <1>12 DEF Queued
<1>15. \A r \in batch : (r.fn = "acquired" \/ (r \in pending[Current] /\ r.by = Current)) /\ r.id <= made
  BY <1>2, <1>8 DEF Queued, InHand
<1>16. InHand'
  BY <1>1, <1>6, <1>9, <1>10, <1>11, <1>15 DEF InHand
<1>17. \A r \in batch : \A s \in pending'[Current] : r.fn # s.fn
  BY <1>2, <1>6, <1>8, PluginsAssumption DEF Queued, InHand, Types
<1>18. ASSUME NEW r \in pending'[Current], r.fn \in Range(Effects),
              NEW i \in DOMAIN work.stages, work.stages[i] = Effects
       PROVE  \E j \in DOMAIN stages : stages[j] = Effects
  <2>1. Effects # <<"on-item-acquire">>
    BY DEF Effects
  <2>2. r \in pending[Current] /\ r.fn \notin Range(stage)
    BY <1>2, <1>6, <1>18 DEF Types
  <2>3. Drained(Effects) # {}
    BY <1>18, <2>1, <2>2 DEF Drained
  <2>4. ~(i < n) /\ i # n
    BY <1>3, <1>4, <1>18, <2>2, <2>3
  <2>5. i \in 1..Len(work.stages) /\ n \in 1..Len(work.stages)
    BY <1>1, <1>4
  <2>6. i - n \in 1..Len(stages) /\ n + (i - n) = i
    <3>1. Len(stages) = Len(work.stages) - n
      BY <1>7
    <3>2. n < i /\ i \in Nat /\ n \in Nat /\ Len(work.stages) \in Nat /\ i <= Len(work.stages)
      BY <1>1, <2>4, <2>5
    <3> QED
      BY <3>1, <3>2
  <2>7. stages[i - n] = Effects
    BY <1>7, <1>18, <2>6
  <2> QED
    BY <1>7, <2>6, <2>7
<1>19. Quiet'
  BY <1>6, <1>10 DEF Quiet
<1> QED
  BY <1>1, <1>2, <1>6, <1>10, <1>11, <1>12, <1>13, <1>14, <1>15, <1>16, <1>17, <1>18, <1>19

\* The only requests that may fail though their character is there.
LEMMA ResolvesOrNot ==
    ASSUME NEW r
    PROVE  /\ Resolves(r) \in BOOLEAN
           /\ Resolves(r) \/ r.fn \in {"apply-stat-delta", "spawn-npc"}
                \/ /\ r.fn \in {"grant-item", "remove-item", "modify-currency",
                               "plugin-state-set"}
                   /\ ~Mapped(r.of)
<1>1. CASE r.fn = "apply-stat-delta"
  BY <1>1 DEF Resolves, Mapped
<1>2. CASE r.fn \in {"grant-item", "remove-item", "modify-currency", "plugin-state-set"}
  <2>1. Resolves(r) = Mapped(r.of)
    BY <1>2 DEF Resolves
  <2>2. Mapped(r.of) \in BOOLEAN
    BY DEF Mapped
  <2> QED
    BY <1>2, <2>1, <2>2, Zenon
<1>3. CASE r.fn = "spawn-npc"
  BY <1>3 DEF Resolves, Mapped
<1>4. CASE r.fn \notin {"apply-stat-delta", "grant-item", "remove-item", "modify-currency",
                      "plugin-state-set", "spawn-npc"}
  BY <1>4 DEF Resolves, Mapped
<1> QED
  BY <1>1, <1>2, <1>3, <1>4

LEMMA Applying ==
    ASSUME Base, Apply
    PROVE  /\ Base' /\ Current \in Plugins /\ Current' = Current
           /\ work.called /\ work'.called /\ UNCHANGED <<session, pending, made>>
           /\ work'.stages = work.stages
           /\ \E r \in work.batch :
                 /\ r \in Asked /\ r.by = Current /\ r.fn \in Calls /\ r.id <= made
                 /\ work'.batch = work.batch \ {r}
                 /\ \A s \in work'.batch : Before(r, s)
                 /\ log' = Append(log, [req |-> r, in |-> work.at, ok |-> Resolves(r)])
<1> USE DEF Base
<1>1. PICK r \in work.batch :
           /\ Foremost(r)
           /\ r.fn # "acquired" /\ ~Confirms(r)
           /\ Logged(r, Resolves(r))
           /\ Persist(r)
           /\ \/ work' = Handled(r)
              \/ /\ r.fn = "grant-item" /\ Resolves(r)
                 /\ Declares(Current, "on-item-acquire")
                 /\ work' = [Handled(r) EXCEPT
                                !.acquired = @ \cup {[r EXCEPT !.fn = "acquired"]}]
  BY DEF Apply
<1>2. work \in Dispatched /\ work.batch # {} /\ work.called /\ work.todo # {}
  BY DEF Types, InHand
<1>3. Current \in Plugins
  BY <1>2, CurrentCalled
<1>4. r \in Asked /\ r.by = Current /\ r.fn \in Calls /\ r.id <= made
  BY <1>1, <1>2 DEF Dispatched, InHand, Asked
<1>5. PICK g : g = [r EXCEPT !.fn = "acquired"]
  OBVIOUS
<1>6. g \in Asked /\ g.fn = "acquired" /\ g.id = r.id
  BY <1>4, <1>5 DEF Asked
<1>7. PICK batch \in SUBSET Asked, acquired \in SUBSET Asked :
          /\ batch = work.batch \ {r} /\ acquired \in {work.acquired, work.acquired \cup {g}}
          /\ work' = [work EXCEPT !.batch = batch, !.acquired = acquired]
  <2>1. work.batch \ {r} \in SUBSET Asked /\ work.acquired \in SUBSET Asked
        /\ work.acquired \cup {g} \in SUBSET Asked
    BY <1>2, <1>6 DEF Dispatched
  <2>2. CASE work' = Handled(r)
    <3>1. work' = [work EXCEPT !.batch = work.batch \ {r}, !.acquired = work.acquired]
      BY <1>2, <2>2 DEF Handled, Dispatched
    <3> QED
      BY <2>1, <3>1
  <2>3. CASE work' = [Handled(r) EXCEPT !.acquired = @ \cup {[r EXCEPT !.fn = "acquired"]}]
    <3>1. work' = [work EXCEPT !.batch = work.batch \ {r}, !.acquired = work.acquired \cup {g}]
      BY <1>2, <1>5, <2>3 DEF Handled, Dispatched
    <3> QED
      BY <2>1, <3>1
  <2> QED
    BY <1>1, <2>2, <2>3
<1>8. /\ work' \in Dispatched /\ work'.batch = batch /\ work'.acquired = acquired
      /\ work'.stages = work.stages /\ work'.todo = work.todo /\ work'.called
      /\ work'.at = work.at /\ work'.hook = work.hook
  BY <1>2, <1>7 DEF Dispatched
<1>9. Current' = Current
  BY <1>8 DEF Current
<1>10. Resolves(r) \in BOOLEAN
  BY <1>4, ResolvesOrNot
<1>11. log' = Append(log, [req |-> r, in |-> work.at, ok |-> Resolves(r)])
  BY <1>1 DEF Logged
<1>12. log' \in Seq([req : Asked, in : Place, ok : BOOLEAN])
  <2>1. work.at \in Place
    BY <1>2 DEF Dispatched
  <2>2. [req |-> r, in |-> work.at, ok |-> Resolves(r)] \in [req : Asked, in : Place, ok : BOOLEAN]
    BY <1>4, <1>10, <2>1
  <2> QED
    BY <1>11, <2>2, AppendProperties DEF Types
<1>13. stored' \in [Players -> 0..made]
  <2>1. r.id \in 0..made
    BY <1>4 DEF Asked, Types
  <2> QED
    BY <1>1, <2>1 DEF Persist, Types
<1>14. Types'
  BY <1>8, <1>12, <1>13 DEF Apply, Types
<1>15. Queued'
  BY DEF Apply, Queued
<1>16. InHand'
  BY <1>2, <1>4, <1>6, <1>7, <1>8, <1>9 DEF Apply, InHand
<1>17. \A s \in batch : Before(r, s)
  BY <1>1, <1>7 DEF Foremost
<1>18. Quiet'
  BY <1>8 DEF Quiet, Apply
<1> QED
  BY <1>2, <1>3, <1>4, <1>7, <1>8, <1>9, <1>11, <1>14, <1>15, <1>16, <1>17, <1>18 DEF Apply

LEMMA Confirming ==
    ASSUME Base, Confirm
    PROVE  /\ Base' /\ Current \in Plugins /\ Current' = Current
           /\ CallDone(Current, "confirmation")
           /\ work.called /\ work'.called /\ UNCHANGED session
           /\ work'.stages = work.stages
           /\ \E r \in work.batch :
                 /\ work'.batch = work.batch \ {r}
                 /\ \/ log' = log
                    \/ /\ r \in Asked /\ r.by = Current /\ r.fn \in Calls /\ r.id <= made
                       /\ \A s \in work'.batch : Before(r, s)
                       /\ log' = Append(log, [req |-> r, in |-> work.at, ok |-> TRUE])
<1> USE DEF Base
<1>1. PICK r \in work.batch :
           /\ Foremost(r)
           /\ r.fn = "acquired" \/ Confirms(r)
           /\ IF r.fn = "acquired" THEN UNCHANGED log ELSE Logged(r, TRUE)
           /\ Call(Current, "confirmation")
           /\ work' = Handled(r)
  BY DEF Confirm
<1>2. work \in Dispatched /\ work.batch # {} /\ work.called /\ work.todo # {}
  BY DEF Types, InHand
<1>3. Current \in Plugins
  BY <1>2, CurrentCalled
<1>4. r \in Asked /\ (r.fn # "acquired" => r.by = Current /\ r.fn \in Calls) /\ r.id <= made
  BY <1>1, <1>2 DEF Dispatched, InHand, Asked
<1>5. CallDone(Current, "confirmation")
  BY <1>1, <1>3, Calling
<1>6. PICK batch \in SUBSET Asked :
          batch = work.batch \ {r} /\ work' = [work EXCEPT !.batch = batch]
  BY <1>1, <1>2 DEF Handled, Dispatched
<1>7. /\ work' \in Dispatched /\ work'.batch = batch /\ work'.acquired = work.acquired
      /\ work'.stages = work.stages /\ work'.todo = work.todo /\ work'.called
      /\ work'.at = work.at /\ work'.hook = work.hook
  BY <1>2, <1>6 DEF Dispatched
<1>8. Current' = Current
  BY <1>7 DEF Current
<1>9. \/ log' = log
      \/ /\ r.fn # "acquired"
         /\ log' = Append(log, [req |-> r, in |-> work.at, ok |-> TRUE])
  BY <1>1 DEF Logged
<1>10. log' \in Seq([req : Asked, in : Place, ok : BOOLEAN])
  <2>1. work.at \in Place
    BY <1>2 DEF Dispatched
  <2>2. [req |-> r, in |-> work.at, ok |-> TRUE] \in [req : Asked, in : Place, ok : BOOLEAN]
    BY <1>4, <2>1
  <2> QED
    <3>1. CASE log' = log
      BY <3>1 DEF Types
    <3>2. CASE log' = Append(log, [req |-> r, in |-> work.at, ok |-> TRUE])
      BY <2>2, <3>2, AppendProperties DEF Types
    <3> QED
      BY <1>9, <3>1, <3>2
<1>11. Types'
  <2>1. /\ made' \in Nat /\ made <= made' /\ left' \in Nat
        /\ cache' \in [Players -> 0..made'] /\ pending' \in [Plugins -> SUBSET Asked]
    BY <1>5 DEF CallDone
  <2>2. read \in [Players -> 0..made'] /\ stored \in [Players -> 0..made']
    BY <2>1 DEF Types
  <2> QED
    BY <1>7, <1>10, <2>1, <2>2 DEF Types, Confirm
<1>12. Queued'
  BY <1>3, <1>5, QueuedAfterCall
<1>13. InHand'
  <2>1. made \in Nat /\ made' \in Nat /\ made <= made'
    BY <1>5 DEF CallDone, Types
  <2>2. \A s \in work.batch \cup work.acquired : s.id \in Nat /\ s.id <= made
    BY <1>2 DEF InHand, Dispatched, Asked
  <2>3. \A s \in work'.batch \cup work'.acquired : s.id <= made'
    BY <1>6, <1>7, <2>1, <2>2
  <2> QED
    BY <1>2, <1>6, <1>7, <1>8, <2>3 DEF InHand
<1>14. \A s \in batch : Before(r, s)
  BY <1>1, <1>6 DEF Foremost
<1>15. Quiet'
  BY <1>7 DEF Quiet, Confirm
<1> QED
  BY <1>2, <1>3, <1>4, <1>5, <1>6, <1>7, <1>8, <1>9, <1>11, <1>12, <1>13, <1>14, <1>15
     DEF Confirm

\* A plugin is done with when its stages drain nothing more.
LEMMA DoneWith ==
    ASSUME Base, NextPlugin
    PROVE  /\ Base' /\ UNCHANGED <<session, pending, log, made>>
           /\ work'.batch = {} /\ Current \in Plugins
           /\ \A i \in DOMAIN work.stages : Drained(work.stages[i]) = {}
<1> USE DEF Base
<1>1. work \in Dispatched /\ work.batch = {} /\ work.called /\ work.todo # {}
  BY DEF Types, InHand, NextPlugin
<1>2. Current \in Plugins /\ \A i \in DOMAIN work.stages : Drained(work.stages[i]) = {}
  BY <1>1, CurrentCalled, NextStageTyped DEF NextPlugin, Dispatched
<1>3. PICK todo \in SUBSET Plugins :
          work' = [work EXCEPT !.called = FALSE, !.todo = todo, !.stages = <<>>, !.acquired = {}]
  BY <1>1 DEF NextPlugin, Dispatched
<1>4. <<>> \in Seq(Seq(Drains)) /\ {} \in SUBSET Asked
  OBVIOUS
<1>5. /\ work' \in Dispatched /\ work'.batch = {} /\ work'.acquired = {} /\ ~work'.called
      /\ work'.at = work.at /\ work'.hook = work.hook
  BY <1>1, <1>3, <1>4 DEF Dispatched
<1>6. Types'
  BY <1>5 DEF Types, NextPlugin
<1>7. Queued'
  BY DEF Queued, NextPlugin
<1>8. InHand'
  BY <1>5 DEF InHand
<1>9. Quiet'
  BY <1>5 DEF Quiet, NextPlugin
<1> QED
  BY <1>2, <1>5, <1>6, <1>7, <1>8, <1>9 DEF NextPlugin

LEMMA Releasing ==
    ASSUME Base, Release
    PROVE  /\ Base' /\ UNCHANGED <<pending, log, made>>
           /\ ~work.called /\ ~work'.called /\ work.batch = {} /\ work'.batch = {}
<1> USE DEF Base
<1>1. work' = Idle /\ work.todo = {}
  BY DEF Release
<1>2. ~work.called /\ work.batch = {}
  BY <1>1 DEF InHand, Types, Dispatched
<1>3. session' \in [Players -> SessionStage]
  BY DEF Release, Types, SessionStage
<1>4. Types'
  BY <1>1, <1>3, IdleFacts DEF Release, Types
<1>5. Queued'
  BY DEF Queued, Release
<1>6. InHand'
  BY <1>1, IdleFacts DEF InHand
<1>7. Quiet'
  BY <1>1, IdleFacts DEF Quiet, Release
<1> QED
  BY <1>1, <1>2, <1>4, <1>5, <1>6, <1>7, IdleFacts DEF Release

-----------------------------------------------------------------------------
(* The order.                                                               *)

\* A call adds one request, newer than all that is logged or in hand.
LEMMA CallsAreNewer ==
    ASSUME Base, NEW p \in Plugins, NEW during, CallDone(p, during), NEW R \in SUBSET Asked,
           \A r \in R : r.id <= made,
           \A r \in R : \A q \in Plugins : \A s \in pending[q] : Later(r, s)
    PROVE  \A r \in R : \A q \in Plugins : \A s \in pending'[q] : Later(r, s)
<1>1. CASE pending' = pending
  BY <1>1
<1>2. CASE NewRequest(p, during)
  <2>1. PICK n \in Asked : n.id = made + 1 /\ pending' = [pending EXCEPT ![p] = @ \cup {n}]
    BY <1>2 DEF NewRequest
  <2>2. \A q \in Plugins : \A s \in pending'[q] : s \in pending[q] \/ s = n
    BY <2>1 DEF Base, Types
  <2>3. \A r \in R : r.id < n.id
    BY <2>1 DEF Asked, Base, Types
  <2> QED
    BY <2>2, <2>3 DEF Later
<1> QED
  BY <1>1, <1>2 DEF CallDone

\* The requests that were logged.
Done == {log[i].req : i \in DOMAIN log}

LEMMA OrderedByDone ==
    Ordered <=>
        /\ \A l \in Done : l.fn \in Calls /\ l.id <= made
        /\ \A l \in Done : \A r \in work.batch : Later(l, r)
        /\ \A l \in Done : \A p \in Plugins : \A s \in pending[p] : Later(l, s)
        /\ \A r \in work.batch : \A p \in Plugins : \A s \in pending[p] : Later(r, s)
BY DEF Ordered, Done

LEMMA OrderedAfter ==
    ASSUME \A l \in Done' : l.fn \in Calls /\ l.id <= made',
           \A l \in Done' : \A r \in work'.batch : Later(l, r),
           \A l \in Done' : \A p \in Plugins : \A s \in pending'[p] : Later(l, s),
           \A r \in work'.batch : \A p \in Plugins : \A s \in pending'[p] : Later(r, s)
    PROVE  Ordered'
BY DEF Ordered, Done, Later

LEMMA DoneAsked ==
    ASSUME Types
    PROVE  Done \in SUBSET Asked
<1>1. /\ log \in Seq([req : Asked, in : Place, ok : BOOLEAN])
      /\ \A e \in [req : Asked, in : Place, ok : BOOLEAN] : e.req \in Asked
  BY DEF Types
<1>2. PICK S : log \in Seq(S) /\ \A e \in S : e.req \in Asked
  BY <1>1, Zenon
<1>3. \A i \in DOMAIN log : log[i] \in S
  BY <1>2
<1>4. \A e \in S : e.req \in Asked
  BY <1>2
<1> QED
  BY <1>3, <1>4 DEF Done

\* What one step adds to the log is the foremost of the batch.
LEMMA Appending ==
    ASSUME Types, Ordered, CallOrder, NEW r \in work.batch, r \in Asked, NEW e, e.req = r,
           log' = Append(log, e)
    PROVE  CallOrder' /\ Done' = Done \cup {r}
<1>1. PICK n \in Nat : n = Len(log) /\ DOMAIN log = 1..n
  BY DEF Types
<1>2. /\ DOMAIN log' = 1..n + 1 /\ log'[n + 1] = e
      /\ \A i \in 1..n : log'[i] = log[i]
  BY <1>1, AppendProperties DEF Types
<1>3. \A i \in 1..n : Later(log[i].req, r)
  BY <1>1 DEF Ordered
<1>4. CallOrder'
  <2> SUFFICES ASSUME NEW i \in 1..n + 1, NEW j \in 1..n + 1, i < j,
                      log'[i].req.by = log'[j].req.by, log'[i].req.fn = log'[j].req.fn
               PROVE  log'[i].req.id < log'[j].req.id
    BY <1>2 DEF CallOrder
  <2>1. CASE j = n + 1
    BY <1>2, <1>3, <2>1 DEF Later
  <2>2. CASE j # n + 1
    BY <1>1, <1>2, <2>2 DEF CallOrder
  <2> QED
    BY <2>1, <2>2
<1>5. Done' = Done \cup {r}
  BY <1>1, <1>2 DEF Done
<1> QED
  BY <1>4, <1>5

LEMMA OrderStep ==
    ASSUME Base, Ordered, CallOrder, Dispatching
    PROVE  Ordered' /\ CallOrder'
<1>d. Done \in SUBSET Asked
  BY DoneAsked DEF Base
<1>1. CASE CallHook
  <2>1. /\ CallDone(Current, "hook") /\ log' = log /\ work'.batch = work.batch
        /\ Current \in Plugins /\ made <= made'
    BY <1>1, Hooking, CurrentCalled DEF CallHook, Base, CallDone
  <2>2. Done' = Done
    BY <2>1 DEF Done
  <2>3. work.batch \in SUBSET Asked /\ \A r \in work.batch : r.id <= made
    BY DEF Base, Types, Dispatched, InHand
  <2>4. \A l \in Done : l.id <= made'
    BY <1>d, <2>1, OrderedByDone DEF Asked, CallDone, Base, Types
  <2>5. \A l \in Done : \A q \in Plugins : \A s \in pending'[q] : Later(l, s)
    BY <1>d, <2>1, OrderedByDone, CallsAreNewer
  <2>6. \A l \in work.batch : \A q \in Plugins : \A s \in pending'[q] : Later(l, s)
    BY <2>1, <2>3, OrderedByDone, CallsAreNewer
  <2> QED
    <3>1. Ordered'
      BY <2>1, <2>2, <2>4, <2>5, <2>6, OrderedByDone, OrderedAfter
    <3>2. CallOrder'
      BY <2>1 DEF CallOrder
    <3> QED
      BY <3>1, <3>2
<1>2. CASE Drain
  <2>1. /\ Base' /\ Current \in Plugins /\ UNCHANGED <<log, made>>
        /\ \A p \in Plugins : pending'[p] \subseteq pending[p]
        /\ \A r \in work'.batch : r.fn = "acquired" \/ r \in pending[Current]
        /\ \A r \in work'.batch : \A s \in pending'[Current] : r.fn # s.fn
    BY <1>2, Draining
  <2>2. Done' = Done
    BY <2>1 DEF Done
  <2>3. ASSUME NEW l \in Done, NEW r \in work'.batch
        PROVE  Later(l, r)
    <3>1. l.fn # "acquired"
      BY OrderedByDone, PluginsAssumption
    <3> QED
      BY <2>1, <3>1, OrderedByDone DEF Later
  <2>4. ASSUME NEW r \in work'.batch, NEW p \in Plugins, NEW s \in pending'[p]
        PROVE  Later(r, s)
    <3>1. s \in pending[p] /\ s.by = p /\ s.fn # "acquired"
      BY <2>1, PluginsAssumption DEF Base, Queued
    <3>2. CASE r.fn = "acquired"
      BY <3>1, <3>2 DEF Later
    <3>3. CASE r \in pending[Current]
      BY <2>1, <3>1, <3>3 DEF Later, Base, Queued
    <3> QED
      BY <2>1, <3>2, <3>3
  <2> QED
    <3>1. Ordered'
      BY <2>1, <2>2, <2>3, <2>4, OrderedByDone, OrderedAfter
    <3>2. CallOrder'
      BY <2>1 DEF CallOrder
    <3> QED
      BY <3>1, <3>2
<1>3. CASE Apply
  <2>1. /\ UNCHANGED <<pending, made>>
        /\ \E r \in work.batch :
                 /\ r \in Asked /\ r.by = Current /\ r.fn \in Calls /\ r.id <= made
                 /\ work'.batch = work.batch \ {r}
                 /\ \A s \in work'.batch : Before(r, s)
                 /\ log' = Append(log, [req |-> r, in |-> work.at, ok |-> Resolves(r)])
    BY <1>3, Applying
  <2>2. PICK r \in work.batch :
           /\ r \in Asked /\ r.by = Current /\ r.fn \in Calls /\ r.id <= made
           /\ work'.batch = work.batch \ {r}
           /\ \A s \in work'.batch : Before(r, s)
           /\ log' = Append(log, [req |-> r, in |-> work.at, ok |-> Resolves(r)])
    BY <2>1
  <2>3. CallOrder' /\ Done' = Done \cup {r}
    BY <2>2, Appending DEF Base
  <2>4. \A s \in work'.batch : Later(r, s)
    BY <2>2 DEF Before, Later
  <2> QED
    BY <2>1, <2>2, <2>3, <2>4, OrderedByDone, OrderedAfter
<1>4. CASE Confirm
  <2>1. /\ CallDone(Current, "confirmation") /\ Current \in Plugins
        /\ \E r \in work.batch :
                 /\ work'.batch = work.batch \ {r}
                 /\ \/ log' = log
                    \/ /\ r \in Asked /\ r.by = Current /\ r.fn \in Calls /\ r.id <= made
                       /\ \A s \in work'.batch : Before(r, s)
                       /\ log' = Append(log, [req |-> r, in |-> work.at, ok |-> TRUE])
    BY <1>4, Confirming
  <2>2. PICK r \in work.batch :
           /\ work'.batch = work.batch \ {r}
           /\ \/ log' = log
              \/ /\ r \in Asked /\ r.by = Current /\ r.fn \in Calls /\ r.id <= made
                 /\ \A s \in work'.batch : Before(r, s)
                 /\ log' = Append(log, [req |-> r, in |-> work.at, ok |-> TRUE])
    BY <2>1
  <2>3. /\ work.batch \in SUBSET Asked /\ \A l \in work.batch : l.id <= made
        /\ made <= made' /\ made \in Nat /\ made' \in Nat
    BY <2>1 DEF Base, Types, Dispatched, InHand, CallDone
  <2>4. \A l \in Done : \A q \in Plugins : \A s \in pending'[q] : Later(l, s)
    BY <1>d, <2>1, OrderedByDone, CallsAreNewer
  <2>5. \A l \in work.batch : \A q \in Plugins : \A s \in pending'[q] : Later(l, s)
    BY <2>1, <2>3, OrderedByDone, CallsAreNewer
  <2>6. \A l \in Done \cup work.batch : l.id <= made'
    BY <1>d, <2>3, OrderedByDone DEF Asked
  <2>7. CASE log' = log
    <3>1. Done' = Done
      BY <2>7 DEF Done
    <3> QED
      <4>1. Ordered'
        BY <2>2, <2>4, <2>5, <2>6, <3>1, OrderedByDone, OrderedAfter
      <4>2. CallOrder'
        BY <2>7 DEF CallOrder
      <4> QED
        BY <4>1, <4>2
  <2>8. CASE /\ r \in Asked /\ r.by = Current /\ r.fn \in Calls /\ r.id <= made
             /\ \A s \in work'.batch : Before(r, s)
             /\ log' = Append(log, [req |-> r, in |-> work.at, ok |-> TRUE])
    <3>1. CallOrder' /\ Done' = Done \cup {r}
      BY <2>8, Appending DEF Base
    <3>2. \A s \in work'.batch : Later(r, s)
      BY <2>8 DEF Before, Later
    <3> QED
      BY <2>2, <2>4, <2>5, <2>6, <2>8, <3>1, <3>2, OrderedByDone, OrderedAfter
  <2> QED
    BY <2>2, <2>7, <2>8
<1>5. CASE NextPlugin
  BY <1>5, DoneWith DEF Ordered, CallOrder
<1>6. CASE Release
  BY <1>6, Releasing DEF Ordered, CallOrder
<1> QED
  BY <1>1, <1>2, <1>3, <1>4, <1>5, <1>6 DEF Dispatching

-----------------------------------------------------------------------------
(* What a hook asks for finds its character.                                *)

LEMMA ExpectedStep ==
    ASSUME Base, Expected, HookEffectsLand, Dispatching
    PROVE  Expected' /\ HookEffectsLand'
<1>1. CASE CallHook
  <2>1. /\ CallDone(Current, "hook") /\ UNCHANGED <<session, log>> /\ work'.batch = work.batch
        /\ Current \in Plugins /\ Current' = Current /\ ~work.called /\ work'.called
        /\ work'.at = work.at
        /\ work.at # Nowhere /\ heard # {} =>
               \E i \in DOMAIN work'.stages : work'.stages[i] = Effects
    BY <1>1, Hooking, CurrentCalled DEF CallHook, Base
  <2>2. \A p \in Plugins : \A r \in pending[p] : ~Due(r)
    BY <2>1 DEF Expected
  <2>3. CASE pending' = pending
    BY <2>1, <2>2, <2>3 DEF Expected, HookEffectsLand, Due, Present
  <2>4. CASE NewRequest(Current, "hook")
    <3>1. PICK n \in Asked : /\ n.at = work.at
                             /\ Due(n) => heard # {}
                             /\ Due(n) => Present(n.of)
                             /\ pending' = [pending EXCEPT ![Current] = @ \cup {n}]
      BY <2>4 DEF NewRequest
    <3>2. \A q \in Plugins : \A s \in pending'[q] :
              Due(s) => s = n /\ q = Current
      BY <2>2, <3>1 DEF Base, Types
    <3>3. Due(n) => work.at # Nowhere
      BY <3>1 DEF Due
    <3>4. ASSUME NEW q \in Plugins, NEW s \in pending'[q], Due(s)
          PROVE  /\ work'.called /\ q = Current' /\ Present(s.of)
                 /\ \E i \in DOMAIN work'.stages : work'.stages[i] = Effects
      BY <2>1, <3>1, <3>2, <3>3, <3>4
    <3>5. Expected'
      BY <2>1, <3>4 DEF Expected, Due, Present
    <3> QED
      BY <2>1, <3>5 DEF HookEffectsLand
  <2> QED
    BY <2>1, <2>3, <2>4 DEF CallDone
<1>2. CASE Drain
  <2>1. /\ Current \in Plugins /\ Current' = Current /\ work.called /\ work'.called
        /\ UNCHANGED <<session, log>>
        /\ \A p \in Plugins : pending'[p] \subseteq pending[p]
        /\ \A r \in work'.batch : r.fn = "acquired" \/ r \in pending[Current]
        /\ \A r \in pending'[Current] :
              (\E i \in DOMAIN work.stages : work.stages[i] = Effects) =>
                  \/ r.fn \notin Range(Effects)
                  \/ \E i \in DOMAIN work'.stages : work'.stages[i] = Effects
    BY <1>2, Draining
  <2>2. \A r : Due(r) => r.fn \in Range(Effects)
    BY DEF Due, Effects, Range
  <2>3. \A r \in work'.batch : Due(r) => Present(r.of)
    BY <2>1 DEF Expected, Due
  <2>4. ASSUME NEW p \in Plugins, NEW r \in pending'[p], Due(r)
        PROVE  /\ p = Current /\ Present(r.of)
               /\ \E i \in DOMAIN work'.stages : work'.stages[i] = Effects
    BY <2>1, <2>2, <2>4 DEF Expected
  <2> QED
    BY <2>1, <2>3, <2>4 DEF Expected, HookEffectsLand, Due, Present
<1>3. CASE Apply
  <2>1. /\ Current' = Current /\ work.called /\ work'.called /\ UNCHANGED <<session, pending>>
        /\ work'.stages = work.stages
        /\ \E r \in work.batch :
              /\ r \in Asked
              /\ work'.batch = work.batch \ {r}
              /\ log' = Append(log, [req |-> r, in |-> work.at, ok |-> Resolves(r)])
    BY <1>3, Applying
  <2>2. PICK r \in work.batch :
              /\ r \in Asked
              /\ work'.batch = work.batch \ {r}
              /\ log' = Append(log, [req |-> r, in |-> work.at, ok |-> Resolves(r)])
    BY <2>1
  <2>3. Due(r) => Mapped(r.of)
    BY <2>2, PresentKnown DEF Expected
  <2>4. PICK e : e = [req |-> r, in |-> work.at, ok |-> Resolves(r)]
    OBVIOUS
  <2>5. /\ e.req = r /\ e.ok = Resolves(r) /\ log' = Append(log, e)
    BY <2>2, <2>4
  <2>6. /\ DOMAIN log' = 1..Len(log) + 1 /\ log'[Len(log) + 1] = e
        /\ \A i \in 1..Len(log) : log'[i] = log[i]
    BY <2>5, AppendProperties DEF Base, Types
  <2>7. ~e.ok /\ e.req.sure /\ e.req.during = "hook" /\ e.req.at # Nowhere
            => e.req.fn \in {"apply-stat-delta", "spawn-npc"}
    BY <2>3, <2>5, ResolvesOrNot DEF Due
  <2>8. HookEffectsLand'
    <3>1. DOMAIN log = 1..Len(log)
      BY DEF Base, Types
    <3> QED
      BY <2>6, <2>7, <3>1 DEF HookEffectsLand
  <2>9. Expected'
    BY <2>1, <2>2 DEF Expected, Due, Present
  <2> QED
    BY <2>8, <2>9
<1>4. CASE Confirm
  <2>1. /\ CallDone(Current, "confirmation") /\ Current \in Plugins /\ Current' = Current
        /\ work.called /\ work'.called /\ UNCHANGED session /\ work'.stages = work.stages
        /\ \E r \in work.batch :
              /\ work'.batch = work.batch \ {r}
              /\ \/ log' = log
                 \/ r \in Asked /\ log' = Append(log, [req |-> r, in |-> work.at, ok |-> TRUE])
    BY <1>4, Confirming
  <2>2. PICK r \in work.batch :
              /\ work'.batch = work.batch \ {r}
              /\ \/ log' = log
                 \/ r \in Asked /\ log' = Append(log, [req |-> r, in |-> work.at, ok |-> TRUE])
    BY <2>1
  <2>3. \A q \in Plugins : \A s \in pending'[q] : Due(s) => s \in pending[q]
    <3>1. CASE pending' = pending
      BY <3>1
    <3>2. CASE NewRequest(Current, "confirmation")
      <4>1. PICK n \in Asked : /\ n.during = "confirmation"
                               /\ pending' = [pending EXCEPT ![Current] = @ \cup {n}]
        BY <3>2 DEF NewRequest
      <4> QED
        BY <2>1, <4>1 DEF Due, Base, Types
    <3> QED
      BY <2>1, <3>1, <3>2 DEF CallDone
  <2>4. Expected'
    BY <2>1, <2>2, <2>3 DEF Expected, Due, Present
  <2>5. CASE log' = log
    BY <2>4, <2>5 DEF HookEffectsLand
  <2>6. CASE log' = Append(log, [req |-> r, in |-> work.at, ok |-> TRUE])
    <3>1. PICK e : e = [req |-> r, in |-> work.at, ok |-> TRUE]
      OBVIOUS
    <3>2. e.ok /\ log' = Append(log, e)
      BY <2>6, <3>1
    <3>3. /\ DOMAIN log' = 1..Len(log) + 1 /\ log'[Len(log) + 1] = e
          /\ \A i \in 1..Len(log) : log'[i] = log[i]
      BY <3>2, AppendProperties DEF Base, Types
    <3>4. HookEffectsLand'
      BY <3>2, <3>3 DEF HookEffectsLand, Base, Types
    <3> QED
      BY <2>4, <3>4
  <2> QED
    BY <2>2, <2>4, <2>5, <2>6
<1>5. CASE NextPlugin
  <2>1. /\ UNCHANGED <<session, pending, log>> /\ work'.batch = {} /\ Current \in Plugins
        /\ \A i \in DOMAIN work.stages : Drained(work.stages[i]) = {}
    BY <1>5, DoneWith
  <2>2. ASSUME NEW p \in Plugins, NEW r \in pending[p], Due(r)
        PROVE  FALSE
    <3>1. p = Current /\ Drained(Effects) = {}
      BY <2>1, <2>2 DEF Expected
    <3>2. r.fn \in Range(Effects) /\ Effects # <<"on-item-acquire">>
      BY <2>2 DEF Due, Effects, Range
    <3> QED
      BY <3>1, <3>2 DEF Drained
  <2> QED
    BY <2>1, <2>2 DEF Expected, HookEffectsLand, Due
<1>6. CASE Release
  <2>1. UNCHANGED <<pending, log>> /\ ~work.called /\ work'.batch = {}
    BY <1>6, Releasing
  <2> QED
    BY <2>1 DEF Expected, HookEffectsLand, Due
<1> QED
  BY <1>1, <1>2, <1>3, <1>4, <1>5, <1>6 DEF Dispatching

-----------------------------------------------------------------------------
(* The theorems.                                                            *)

Inv == Base /\ Ordered /\ CallOrder /\ Expected /\ HookEffectsLand

LEMMA InvInit == Init => Inv
<1> SUFFICES ASSUME Init PROVE Inv
  OBVIOUS
<1>1. PICK coming \in Coming :
          /\ session = [e \in Players |-> IF e \in coming THEN "out" ELSE "cleared"]
          /\ left = MaxRequests[coming]
  BY DEF Init
<1>2. session \in [Players -> SessionStage] /\ left \in Nat
  BY <1>1, PluginsAssumption DEF SessionStage
<1>3. boot \in Seq(Starting)
  <2>1. /\ Nowhere \in Place /\ Zones \subseteq Place /\ {} \in SUBSET Players
        /\ {"on-load", "on-zone-loaded"} \subseteq Hook
    BY DEF Place, Hook, KNOWN_HOOKS
  <2>2. Dispatch(Nowhere, "on-load", {}) \in Starting
    BY <2>1, DispatchFacts DEF Starting
  <2>3. \A z \in Zones : Dispatch(z, "on-zone-loaded", {}) \in Starting
    BY <2>1, DispatchFacts DEF Starting
  <2>4. PICK S \in SUBSET Starting : S = {Dispatch(z, "on-zone-loaded", {}) : z \in Zones}
    BY <2>3
  <2>5. IsFiniteSet(S)
    <3>1. PICK f : f = [z \in Zones |-> Dispatch(z, "on-zone-loaded", {})]
      OBVIOUS
    <3>2. f \in [Zones -> S] /\ \A d \in S : \E z \in Zones : f[z] = d
      BY <2>4, <3>1
    <3>3. f \in Surjection(Zones, S)
      BY <3>2 DEF Surjection
    <3> QED
      BY <3>3, PluginsAssumption, FS_Surjection
  <2>6. SetToSeq(S) \in Seq(Starting)
    BY <2>5, StartingSet
  <2>7. PICK d \in Starting : d = Dispatch(Nowhere, "on-load", {})
    BY <2>2
  <2>8. <<d>> \o SetToSeq(S) \in Seq(Starting)
    BY <2>6, ConcatProperties
  <2> QED
    BY <2>4, <2>7, <2>8 DEF Init
<1>4. /\ work \in Dispatched /\ work.at = Nowhere /\ ~work.called /\ work.batch = {}
      /\ work.acquired = {} /\ work.hook = "none"
  BY IdleFacts DEF Init
<1>5. log = <<>> /\ DOMAIN log = {} /\ pending = [p \in Plugins |-> {}] /\ made = 0
  BY DEF Init
<1>6. Types
  BY <1>2, <1>3, <1>4, <1>5 DEF Init, Types, Commands
<1> QED
  BY <1>4, <1>5, <1>6 DEF Inv, Base, Queued, InHand, Quiet, Init, Ordered,
     CallOrder, Expected, HookEffectsLand

LEMMA InvNext ==
    ASSUME Inv, [Next]_vars
    PROVE  Inv'
<1> USE DEF Inv
<1>1. CASE \E e \in Players : Connection(e)
  <2>1. /\ Types' /\ boot = <<>> /\ UNCHANGED <<boot, work, pending, heard, log, made>>
        /\ \A f : Present(f) => Present(f)'
    BY <1>1, Connecting DEF Base
  <2>2. Current' = Current
    BY <2>1 DEF Current
  <2>3. Base'
    BY <2>1, <2>2 DEF Base, Queued, InHand, Quiet
  <2>4. Ordered' /\ CallOrder' /\ HookEffectsLand'
    BY <2>1 DEF Ordered, CallOrder, HookEffectsLand
  <2>5. Expected'
    BY <2>1, <2>2 DEF Expected
  <2> QED
    BY <2>3, <2>4, <2>5
<1>2. CASE Types' /\ Beginning
  <2>1. UNCHANGED <<session, pending, log, made>> /\ Quiet'
    BY <1>2 DEF Beginning
  <2>2. CASE work' = work
    <3>1. Current' = Current
      BY <2>2 DEF Current
    <3> QED
      BY <1>2, <2>1, <2>2, <3>1 DEF Base, Queued, InHand, Ordered, CallOrder, Expected,
         HookEffectsLand, Present
  <2>3. CASE /\ work = Idle /\ ~work'.called /\ work'.batch = {} /\ work'.acquired = {}
             /\ work'.at # Nowhere => work'.hook \notin LifecycleHook \ {"on-zone-loaded"}
    <3>1. ~work.called
      BY <2>3, IdleFacts
    <3> QED
      BY <1>2, <2>1, <2>3, <3>1 DEF Base, Queued, InHand, Ordered, CallOrder, Expected,
         HookEffectsLand
  <2> QED
    BY <1>2, <2>2, <2>3 DEF Beginning
<1>3. CASE \E z \in Zones : Serve(z) \/ Begin(z) \/ Tick(z)
  <2>1. PICK z \in Zones : Serve(z) \/ Begin(z) \/ Tick(z)
    BY <1>3
  <2>2. z \in Place /\ "tick" \in Hook /\ "tick" \notin LifecycleHook
    BY DEF Place, Hook, LifecycleHook
  <2>3. Types' /\ Beginning
    BY <2>1, <2>2, Serving, BeginsOne, BeginsAlone DEF Base, Tick
  <2> QED
    BY <1>2, <2>3
<1>4. CASE SessionHook
  <2>1. /\ Nowhere \in Place /\ {"on-character-create", "on-craft-complete"} \subseteq Hook
    BY DEF Place, Hook, KNOWN_HOOKS
  <2>2. Types' /\ Beginning
    BY <1>4, <2>1, BeginsAlone DEF Base, SessionHook
  <2> QED
    BY <1>2, <2>2
<1>5. CASE Boot
  BY <1>2, <1>5, Booting DEF Base
<1>6. CASE Dispatching
  <2>1. Base'
    BY <1>6, Hooking, Draining, Applying, Confirming, DoneWith, Releasing DEF Dispatching
  <2> QED
    BY <1>6, <2>1, OrderStep, ExpectedStep
<1>7. CASE UNCHANGED vars
  <2>1. Current' = Current
    BY <1>7 DEF vars, Current
  <2> QED
    BY <1>7, <2>1 DEF vars, Base, Types, Queued, InHand, Quiet, Ordered, CallOrder, Expected,
       HookEffectsLand, Present
<1> QED
  BY <1>1, <1>3, <1>4, <1>5, <1>6, <1>7 DEF Next

LEMMA Invariance == Spec => []Inv
BY InvInit, InvNext, PTL DEF Spec

\* Every variable stays in its set, and only what a plugin's capabilities allow is
\* queued for it (CapabilityGatedCallbacks::check).
THEOREM PluginTypes == Spec => []TypeOK
<1>1. Inv => TypeOK
  <2> SUFFICES ASSUME Inv PROVE TypeOK
    OBVIOUS
  <2>1. Types /\ Queued
    BY DEF Inv, Base
  <2>2. ASSUME NEW p \in Plugins, NEW r \in pending[p]
        PROVE  /\ r.fn \in Calls
               /\ r.fn # "plugin-state-set" =>
                      required_capability[r.fn] \in Range(LoadOrder[p].capabilities)
    <3>1. r.fn \in Calls /\ MayCall(LoadOrder[p], r.fn)
      BY <2>1 DEF Queued
    <3>2. r.fn # "plugin-state-set" => r.fn \in DOMAIN required_capability
      BY <3>1, PluginsAssumption
    <3> QED
      BY <3>1, <3>2 DEF MayCall
  <2>3. work.at \in Zones \cup {Nowhere} /\ work.todo \subseteq Plugins
    BY <2>1 DEF Types, Dispatched, Place
  <2> QED
    BY <2>1, <2>2, <2>3 DEF TypeOK, Types, SessionStage
<1> QED
  BY <1>1, Invariance, PTL

\* A plugin's requests of one host function take effect in the order of its calls,
\* whichever hooks drain them and whatever is left over between two dispatches
\* (drain_and_apply_plugin_effects).
THEOREM RequestsTakeEffectInOrder == Spec => []CallOrder
<1>1. Inv => CallOrder
  BY DEF Inv
<1> QED
  BY <1>1, Invariance, PTL

\* What a zone's hook asks for a character the server knew finds it when it is
\* applied: the disconnect clears its maps after the reply of PlayerLeave only.
THEOREM HookRequestsFindTheirCharacter == Spec => []HookEffectsLand
<1>1. Inv => HookEffectsLand
  BY DEF Inv
<1> QED
  BY <1>1, Invariance, PTL
=============================================================================
