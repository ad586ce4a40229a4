------------------------------ MODULE Channels ------------------------------
(***************************************************************************)
(* Chat: the channels (group channels joined by name, and one of each zone *)
(* that players are put into as they enter it), the rows of their members, *)
(* the JoinedChannels map of each connection with a forwarder task per     *)
(* entry, and the publications on Redis.  A connection's handler is in one *)
(* call at a time and the calls of all connections overlap at every await. *)
(*                                                                         *)
(* Redis gives a message to whoever is subscribed when it is published, in *)
(* order, for as long as the subscriber's connection lasts.  What a        *)
(* forwarder has in hand when it is aborted counts as forwarded before.    *)
(*                                                                         *)
(* The entry of a zone channel is under a key that nothing keeps for it: a *)
(* client may leave it, and join a group channel, by that very name        *)
(* ("reserved, not blocked at parse time", chat_session.rs:197).  Name may *)
(* hold AutoKey, and then such calls are among those of the model.         *)
(*                                                                         *)
(* Left out: direct channels, which nothing in the server opens; the       *)
(* channels of guilds (Guild); global ones; the durable log.               *)
(***************************************************************************)
EXTENDS Integers, Sequences, FiniteSets, Functions

CONSTANTS
    Client,        \* connections that are in the world
    AccountOf,     \* the account that each logged in with
    Zone,
    Name,          \* names of group channels that clients ask for
    AutoKey,       \* the key of the zone channel (one auto_join category)
    MaxAlike,      \* BOUND: channels of one name
    MaxMessages,   \* BOUND: messages published
    None, Gone

Key     == Name \cup {AutoKey}
Account == {AccountOf[c] : c \in Client}
\* A channel's id: whose it is, and which of those that are alike.
Id      == (Zone \cup Name) \X (1..MaxAlike)
NoId    == <<None, 0>>

ChannelsAssumption ==
    /\ Zone \cap Key = {} /\ {None, Gone} \cap (Zone \cup Key) = {}
    /\ MaxAlike \in Nat \ {0} /\ MaxMessages \in Nat

VARIABLES
    channels,    \* chat_channels: the ids of the rows
    members,     \* chat_channel_members: <<channel, account>>
    zone,        \* current_zone_id of each connection, None before, Gone after
    joined,      \* JoinedChannels: key -> channel id, or NoId
    forwarders,  \* the tasks: whose, of which entry and channel, and what has
                 \* come in on its subscription
    sent,        \* how many messages were published
    call,        \* the call each handler is in
    \* History, for the properties only:
    owed,        \* messages published while a client was joined, still to come
    cut          \* <<client, key>> whose subscription Redis ended

history == <<owed, cut>>
vars    == <<channels, members, zone, joined, forwarders, sent, call, history>>

Idle == [at |-> "idle"]
Goto(c, record) == call' = [call EXCEPT ![c] = record]
Doing(at, key, channel) == [at |-> at, key |-> key, channel |-> channel]

Online(c) == zone[c] \in Zone
Free(c)   == Online(c) /\ call[c] = Idle

ChannelsOf(scope) == {i \in channels : i[1] = scope}
NewId(scope)      == <<scope, Cardinality(ChannelsOf(scope)) + 1>>
Tasks(c, key)     == {f \in forwarders : f.client = c /\ f.key = key}
\* What is owed to c when its tasks of a key are no more.
Forgive(c, key)   == [owed EXCEPT ![c] = @ \ UNION {Range(f.inbox) : f \in Tasks(c, key)}]
----------------------------------------------------------------------------
Init ==
    /\ channels = {}
    /\ members = {}
    /\ zone = [c \in Client |-> None]
    /\ joined = [c \in Client |-> [k \in Key |-> NoId]]
    /\ forwarders = {}
    /\ sent = 0
    /\ call = [c \in Client |-> Idle]
    /\ owed = [c \in Client |-> {}]
    /\ cut = {}

\* auto_join_zone_channels, unless a plugin blocks the category.
AutoJoin(c) == Goto(c, Doing("ensuring", AutoKey, NoId)) \/ Goto(c, Idle)

\* A connection enters its first zone.
Enter(c, z) ==
    /\ zone[c] = None
    /\ zone' = [zone EXCEPT ![c] = z]
    /\ AutoJoin(c)
    /\ UNCHANGED <<channels, members, joined, forwarders, sent, history>>

\* ZoneChanged: auto_leave_zone_channels, then auto-join in the new zone.
ChangeZone(c, z) ==
    /\ Free(c) /\ z # zone[c]
    /\ zone' = [zone EXCEPT ![c] = z]
    /\ joined' = [joined EXCEPT ![c][AutoKey] = NoId]
    /\ forwarders' = forwarders \ Tasks(c, AutoKey)
    /\ owed' = Forgive(c, AutoKey)
    /\ cut' = cut \ {<<c, AutoKey>>}
    /\ AutoJoin(c)
    /\ UNCHANGED <<channels, members, sent>>

\* MUTANT: the zone's name is taken for the channel's id.
EnsureByName(c) ==
    /\ call[c].at = "ensuring"
    /\ Goto(c, Doing("subscribing", AutoKey, zone[c]))
    /\ UNCHANGED <<channels, members, zone, joined, forwarders, sent, history>>

\* ensure_zone_channel looks the channel up ...
Ensure(c) ==
    /\ call[c].at = "ensuring"
    /\ IF ChannelsOf(zone[c]) = {}
          THEN Goto(c, Doing("inserting", AutoKey, NoId))
          ELSE \E i \in ChannelsOf(zone[c]) : Goto(c, Doing("subscribing", AutoKey, i))
    /\ UNCHANGED <<channels, members, zone, joined, forwarders, sent, history>>

\* MUTANT: without ON CONFLICT and its index.
InsertAnyway(c) ==
    LET i == NewId(zone[c]) IN
    /\ call[c].at = "inserting" /\ i \in Id
    /\ channels' = channels \cup {i}
    /\ Goto(c, Doing("subscribing", AutoKey, i))
    /\ UNCHANGED <<members, zone, joined, forwarders, sent, history>>

\* ... and inserts it, ON CONFLICT DO NOTHING; who lost the race looks again.
Insert(c) ==
    /\ call[c].at = "inserting"
    /\ channels' = IF ChannelsOf(zone[c]) = {} THEN channels \cup {NewId(zone[c])} ELSE channels
    /\ \E i \in channels' :
          i[1] = zone[c] /\ Goto(c, Doing("subscribing", AutoKey, i))
    /\ UNCHANGED <<members, zone, joined, forwarders, sent, history>>

----------------------------------------------------------------------------
\* Join: find_or_create_named_channel takes any group channel of that name ...
Join(c, n) ==
    /\ Free(c) /\ joined[c][n] = NoId
    /\ IF ChannelsOf(n) = {}
          THEN Goto(c, Doing("creating", n, NoId))
          ELSE \E i \in ChannelsOf(n) : Goto(c, Doing("joining", n, i))
    /\ UNCHANGED <<channels, members, zone, joined, forwarders, sent, history>>

\* ... or makes one, with its creator as a member; names are not unique.
Create(c) ==
    LET i == NewId(call[c].key) IN
    /\ call[c].at = "creating" /\ i \in Id
    /\ channels' = channels \cup {i}
    /\ members' = members \cup {<<i, AccountOf[c]>>}
    /\ Goto(c, Doing("joining", call[c].key, i))
    /\ UNCHANGED <<zone, joined, forwarders, sent, history>>

\* MUTANT: no row for whoever finds the channel there.
JoinRowForgotten(c) ==
    /\ call[c].at = "joining"
    /\ Goto(c, [call[c] EXCEPT !.at = "subscribing"])
    /\ UNCHANGED <<channels, members, zone, joined, forwarders, sent, history>>

JoinRow(c) ==
    LET row == <<call[c].channel, AccountOf[c]>> IN
    /\ call[c].at = "joining"
    /\ members' = members \cup {row}
    /\ Goto(c, [call[c] EXCEPT !.at = "subscribing"])
    /\ UNCHANGED <<channels, zone, joined, forwarders, sent, history>>

Admit(c) ==
    /\ call[c].at = "subscribing"
    /\ joined' = [joined EXCEPT ![c][call[c].key] = call[c].channel]
    /\ Goto(c, Idle)

\* MUTANT: a subscription that fails is taken for one that stands.
SubscribeUnheard(c) ==
    /\ Admit(c)
    /\ UNCHANGED <<channels, members, zone, forwarders, sent, history>>

\* spawn_forwarder, and the entry that holds its handle; the reply is Joined.
Subscribe(c) ==
    /\ Admit(c)
    /\ forwarders' = forwarders \cup
          {[client |-> c, key |-> call[c].key, channel |-> call[c].channel,
            inbox |-> <<>>]}
    /\ UNCHANGED <<channels, members, zone, sent, history>>

\* MUTANT: the handle is dropped, which detaches the task.
LeaveDetaches(c, n) ==
    /\ Free(c) /\ joined[c][n] # NoId
    /\ joined' = [joined EXCEPT ![c][n] = NoId]
    /\ owed' = Forgive(c, n)
    /\ cut' = cut \ {<<c, n>>}
    /\ Goto(c, Doing("parting", n, joined[c][n]))
    /\ UNCHANGED <<channels, members, zone, forwarders, sent>>

\* Leave takes the entry out and aborts its task before the row goes.
Leave(c, n) ==
    /\ Free(c) /\ joined[c][n] # NoId
    /\ joined' = [joined EXCEPT ![c][n] = NoId]
    /\ forwarders' = forwarders \ Tasks(c, n)
    /\ owed' = Forgive(c, n)
    /\ cut' = cut \ {<<c, n>>}
    /\ Goto(c, Doing("parting", n, joined[c][n]))
    /\ UNCHANGED <<channels, members, zone, sent>>

\* The row is the account's, whatever other connections of it have joined.
PartRow(c) ==
    LET row == <<call[c].channel, AccountOf[c]>> IN
    /\ call[c].at = "parting"
    /\ members' = members \ {row}
    /\ Goto(c, Idle)
    /\ UNCHANGED <<channels, zone, joined, forwarders, sent, history>>
----------------------------------------------------------------------------
\* Send to any channel whose id the client knows; publish checks the row, but
\* for zone channels, which have none.
Send(c, i) ==
    /\ Free(c) /\ sent < MaxMessages
    /\ i[1] \in Zone \/ <<i, AccountOf[c]>> \in members
    /\ Goto(c, Doing("publishing", None, i))
    /\ UNCHANGED <<channels, members, zone, joined, forwarders, sent, history>>

Publish(c) ==
    LET i == call[c].channel
        m == sent + 1
    IN
    /\ call[c].at = "publishing" /\ m <= MaxMessages
    /\ sent' = m
    /\ forwarders' = {IF f.channel = i THEN [f EXCEPT !.inbox = Append(@, m)] ELSE f :
                        f \in forwarders}
    /\ owed' = [d \in Client |->
                  IF AccountOf[d] # AccountOf[c] /\ \E k \in Key : joined[d][k] = i /\ <<d, k>> \notin cut
                     THEN owed[d] \cup {m} ELSE owed[d]]
    /\ Goto(c, Idle)
    /\ UNCHANGED <<channels, members, zone, joined, cut>>

\* A forwarder passes its next message on, or passes over one of its own account.
Forward(f) ==
    LET m == Head(f.inbox) IN
    /\ f.inbox # <<>>
    /\ forwarders' = (forwarders \ {f}) \cup
                     {[f EXCEPT !.inbox = Tail(@)]}
    /\ owed' = [owed EXCEPT ![f.client] = @ \ {m}]
    /\ UNCHANGED <<channels, members, zone, joined, sent, call, cut>>

\* A call fails: the client gets an error.  A row that Leave was to delete stays.
Fail(c) ==
    /\ call[c] # Idle
    /\ Goto(c, Idle)
    /\ UNCHANGED <<channels, members, zone, joined, forwarders, sent, history>>

\* Redis ends a subscription: its task ends, and the entry stays.
Cut(f) ==
    /\ forwarders' = forwarders \ {f}
    /\ owed' = [owed EXCEPT ![f.client] = @ \ Range(f.inbox)]
    /\ cut' = cut \cup {<<f.client, f.key>>}
    /\ UNCHANGED <<channels, members, zone, joined, sent, call>>

\* A connection ends: abort_all.  The tasks that an early return does not abort
\* have nobody to forward to and end with the next message.
Close(c) ==
    /\ Online(c) /\ call[c] = Idle
    /\ zone' = [zone EXCEPT ![c] = Gone]
    /\ joined' = [joined EXCEPT ![c] = [k \in Key |-> NoId]]
    /\ forwarders' = {f \in forwarders : f.client # c}
    /\ owed' = [owed EXCEPT ![c] = {}]
    /\ cut' = {e \in cut : e[1] # c}
    /\ UNCHANGED <<channels, members, sent, call>>

Next ==
    \/ \E c \in Client :
         \/ \E z \in Zone : Enter(c, z) \/ ChangeZone(c, z)
         \/ Ensure(c) \/ Insert(c)
         \/ \E n \in Name : Join(c, n) \/ Leave(c, n)
         \/ Create(c) \/ JoinRow(c) \/ Subscribe(c) \/ PartRow(c)
         \/ (\E i \in channels : Send(c, i)) \/ Publish(c)
         \/ Fail(c) \/ Close(c)
    \/ \E f \in forwarders : Forward(f) \/ Cut(f)

Spec == Init /\ [][Next]_vars
----------------------------------------------------------------------------
Calls == {Idle} \cup
    [at : {"ensuring", "inserting", "creating", "joining", "subscribing", "parting",
           "publishing"},
     key : Key \cup {None}, channel : Id \cup {NoId}]

Tasked == [client : Client, key : Key, channel : Id, inbox : Seq(1..MaxMessages)]

\* Every variable has its type.
TypeOK ==
    /\ channels \subseteq Id
    /\ members \subseteq Id \X Account
    /\ zone \in [Client -> Zone \cup {None, Gone}]
    /\ joined \in [Client -> [Key -> Id \cup {NoId}]]
    /\ forwarders \subseteq Tasked
    /\ sent \in 0..MaxMessages
    /\ call \in [Client -> Calls]
    /\ owed \in [Client -> SUBSET (1..MaxMessages)]
    /\ cut \subseteq Client \X Key

\* What is under the zone's key is a zone channel, not a group channel that the
\* client itself joined by that name.
OfZone(c) == joined[c][AutoKey][1] \in Zone

\* A client is in no channel of a zone but the one it is in, and players of one
\* zone who are in a zone channel are in the same, however their calls that look
\* it up, make it and leave that of another zone overlap with those that leave
\* it, or join a group channel, by its key.
ZoneMatesTogether ==
    \A c \in Client : OfZone(c) =>
        /\ joined[c][AutoKey][1] = zone[c]
        /\ \A d \in Client : zone[d] = zone[c] /\ OfZone(d) =>
              joined[d][AutoKey] = joined[c][AutoKey]

\* No task forwards to a client what it has not, or not any more, joined: each is
\* the one that an entry of JoinedChannels holds, and can be aborted through it.
ForwardersHeld ==
    \A f \in forwarders : Online(f.client) =>
        /\ joined[f.client][f.key] = f.channel
        /\ Tasks(f.client, f.key) = {f}

\* A client gets everything that others publish between its Joined and its Left,
\* as long as Redis keeps the subscription.
NothingMissed ==
    \A c \in Client : \A m \in owed[c] :
        \E f \in forwarders : f.client = c /\ m \in Range(f.inbox)

\* Whoever has joined a group channel may send to it, if the account has no other
\* connection, which could leave it.
JoinedMeansMember ==
    \A c \in Client, n \in Name :
        joined[c][n][1] = n /\ (\A d \in Client \ {c} : AccountOf[d] # AccountOf[c])
            => <<joined[c][n], AccountOf[c]>> \in members
----------------------------------------------------------------------------
(* What the repository says of this program and the program does not do.   *)

\* Whoever joins by one name meets in one channel (demo_support.rs: "lands everyone
\* naming the same channel in the same place").  Two that find none both make one.
SameNameSameChannel ==
    \A c, d \in Client, n \in Name :
        joined[c][n][1] = n /\ joined[d][n][1] = n => joined[c][n] = joined[d][n]
=============================================================================
