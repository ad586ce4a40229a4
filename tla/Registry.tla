------------------------------ MODULE Registry ------------------------------
(***************************************************************************)
(* The service registry: instances of one service that register, beat and  *)
(* deregister, keys in Redis that lapse by themselves, and a watcher that  *)
(* subscribes to the events, queries once and then follows the events.     *)
(***************************************************************************)
EXTENDS FiniteSets, Naturals, Sequences

CONSTANTS Instance,
          MaxEvents,    \* bound: events the watcher has not read yet
          None

VARIABLES
    instance,   \* what each instance's process is doing
    keys,       \* the registered instances' keys, each with its TTL
    lapsed,     \* history: whose key lapsed, or who crashed, since it registered
    watcher,    \* "off", "subscribed", "fetching" or "following"
    scanned,    \* the keys KEYS returned
    view,       \* the instances the watcher knows
    events      \* published and not read by the watcher yet

vars == <<instance, keys, lapsed, watcher, scanned, view, events>>

Init ==
    /\ instance = [i \in Instance |-> "out"]
    /\ keys = {} /\ lapsed = {}
    /\ watcher = "off" /\ scanned = {} /\ view = {} /\ events = <<>>

\* Who has not subscribed does not get the event.
publish_event(kind, i) ==
    events' = IF watcher = "off" THEN events
              ELSE Append(events, [kind |-> kind, instance |-> i])

\* MUTANT: the event is published first and the key set afterwards.
RegisterLate(i) ==
    \/ /\ instance[i] \in {"out", "in"} /\ i \notin keys
       /\ Len(events) < MaxEvents
       /\ publish_event("Registered", i)
       /\ instance' = [instance EXCEPT ![i] = "registering"]
       /\ UNCHANGED <<keys, lapsed, watcher, scanned, view>>
    \/ /\ instance[i] = "registering"
       /\ keys' = keys \cup {i} /\ lapsed' = lapsed \ {i}
       /\ instance' = [instance EXCEPT ![i] = "in"]
       /\ UNCHANGED <<watcher, scanned, view, events>>

\* register: the key, then the event; again by an instance whose heartbeat found
\* that its key had lapsed.
Register(i) ==
    \/ /\ instance[i] \in {"out", "in"} /\ i \notin keys
       /\ keys' = keys \cup {i} /\ lapsed' = lapsed \ {i}
       /\ instance' = [instance EXCEPT ![i] = "registering"]
       /\ UNCHANGED <<watcher, scanned, view, events>>
    \/ /\ instance[i] = "registering"
       /\ Len(events) < MaxEvents
       /\ publish_event("Registered", i)
       /\ instance' = [instance EXCEPT ![i] = "in"]
       /\ UNCHANGED <<keys, lapsed, watcher, scanned, view>>

Deregister(i) ==
    \/ /\ instance[i] = "in"
       /\ keys' = keys \ {i}
       /\ instance' = [instance EXCEPT ![i] = "deregistering"]
       /\ UNCHANGED <<lapsed, watcher, scanned, view, events>>
    \/ /\ instance[i] = "deregistering"
       /\ Len(events) < MaxEvents
       /\ publish_event("Deregistered", i)
       /\ lapsed' = lapsed \ {i}
       /\ instance' = [instance EXCEPT ![i] = "out"]
       /\ UNCHANGED <<keys, watcher, scanned, view>>

\* The heartbeats stop, or come late: the key lapses and nobody is told.
Lapse(i) ==
    /\ i \in keys
    /\ keys' = keys \ {i} /\ lapsed' = lapsed \cup {i}
    /\ UNCHANGED <<instance, watcher, scanned, view, events>>

\* A crash, after the key lapsed or before.
Crash(i) ==
    /\ instance[i] # "out"
    /\ instance' = [instance EXCEPT ![i] = "out"]
    /\ lapsed' = lapsed \cup {i}
    /\ UNCHANGED <<keys, watcher, scanned, view, events>>

Subscribe ==
    /\ watcher = "off"
    /\ watcher' = "subscribed"
    /\ UNCHANGED <<instance, keys, lapsed, scanned, view, events>>

\* query: KEYS ...
Scan ==
    /\ watcher = "subscribed"
    /\ scanned' = keys /\ watcher' = "fetching"
    /\ UNCHANGED <<instance, keys, lapsed, view, events>>

\* ... and MGET, without those that lapsed in between.
Fetch ==
    /\ watcher = "fetching"
    /\ view' = scanned \cap keys /\ scanned' = {} /\ watcher' = "following"
    /\ UNCHANGED <<instance, keys, lapsed, events>>

Follow ==
    /\ watcher = "following" /\ events # <<>>
    /\ LET e == Head(events) IN
       view' = IF e.kind = "Registered" THEN view \cup {e.instance}
               ELSE view \ {e.instance}
    /\ events' = Tail(events)
    /\ UNCHANGED <<instance, keys, lapsed, watcher, scanned>>

Next ==
    \/ \E i \in Instance : Register(i) \/ Deregister(i) \/ Lapse(i) \/ Crash(i)
    \/ Subscribe \/ Scan \/ Fetch \/ Follow

Spec == Init /\ [][Next]_vars
-----------------------------------------------------------------------------
\* A watcher that subscribes before it queries misses nobody, whatever registers
\* and deregisters meanwhile: once it has read the events, and no event is about
\* to be published, it knows every registered instance; what it knows beyond them
\* is an instance that crashed or whose key lapsed, which no event tells.
WatcherMissesNobody ==
    watcher = "following" /\ events = <<>>
    /\ (\A i \in Instance : instance[i] \in {"in", "out"}) =>
        keys \subseteq view \cup lapsed /\ view \subseteq keys \cup lapsed
=============================================================================
