-------------------------------- MODULE Wire --------------------------------
(***************************************************************************)
(* The five protocols a connection speaks, and where the server takes each *)
(* frame.  A frame is a message_type and a payload; a payload is a oneof   *)
(* tag and, by tag, the fields that are not at proto3's default.  One      *)
(* message travels: over TCP in one phase of a connection, as a datagram,  *)
(* or from the server to its client.                                       *)
(***************************************************************************)
EXTENDS Integers, SequencesExt

CONSTANTS
    Default,        \* 0, "" or false: a field proto3 does not write
    Other,          \* any other value; a well-formed id, where one is asked
    Malformed,      \* text that is no id
    SlashCommand,        \* a chat body that starts with / and a declared command
    PluginType,     \* a message_type a plugin declares
    None

VARIABLES
    sent,       \* the message: its protocol, direction and content
    path,       \* "tcp", "udp" or "client", and what stands at the far end
    frame,      \* what the wire carries; None before and after
    damaged,    \* what no encoder of ours wrote: "bytes", "id" or "nothing"
    outcome     \* which handler took the frame, and what it read

vars == <<sent, path, frame, damaged, outcome>>

Plain(names) == [i \in DOMAIN names |-> [name |-> names[i], type |-> "plain"]]
Id(name)     == <<[name |-> name, type |-> "id"]>>
Opt(name)    == <<[name |-> name, type |-> "optional"]>>
Many(name)   == <<[name |-> name, type |-> "list"]>>
Msg(kind, fields) == [kind |-> kind, fields |-> fields]
Empty(kind)  == Msg(kind, <<>>)
Target       == Plain(<<"target_entity_id">>)
----------------------------------------------------------------------------
(* The messages in the order of their tags, with their fields in theirs.   *)

AUTH_MESSAGE_TYPE      == 1
REALM_MESSAGE_TYPE     == 2
CHARACTER_MESSAGE_TYPE == 3
CHAT_MESSAGE_TYPE      == 100
WORLD_MESSAGE_TYPE     == 200

AuthClient == <<
    Msg("Register", Plain(<<"username", "password">>)),
    Msg("Login", Plain(<<"username", "password">>)),
    Msg("Resume", Plain(<<"session_token">>)) >>
AuthServer == <<
    Msg("Authenticated", Id("account_id") \o Plain(<<"username", "session_token">>)
                         \o Many("roles")),
    Msg("Error", Plain(<<"message">>)) >>

RealmClient == << Empty("ListRealms"), Msg("SelectRealm", Plain(<<"realm_id">>)) >>
RealmServer == <<
    Msg("RealmList", Many("realms")),
    Msg("RealmSelected", Plain(<<"realm_id">>)),
    Msg("Error", Plain(<<"message">>)) >>

CharacterClient == <<
    Empty("ListCharacters"),
    Msg("CreateCharacter", Plain(<<"name", "archetype_key">>)),
    Msg("SelectCharacter", Plain(<<"character_id">>)),
    Empty("ListCharacterOptions"),
    Msg("RequestTransfer", Plain(<<"character_id", "destination_realm_id">>)),
    Msg("DeleteCharacter", Plain(<<"character_id">>)) >>
CharacterServer == <<
    Msg("CharacterList", Many("characters")),
    Msg("CharacterCreated", Plain(<<"character_id">>)),
    Msg("CharacterSelected", Plain(<<"character_id">>)),
    Msg("Error", Plain(<<"message">>)),
    Msg("CharacterOptions", Many("archetypes")),
    Msg("TransferComplete", Plain(<<"character_id", "realm_id">>)),
    Msg("CharacterDeleted", Plain(<<"character_id">>)) >>

ChatClient == <<
    Msg("Join", Plain(<<"channel">>)),
    Msg("Leave", Plain(<<"channel">>)),
    Msg("Send", Id("channel_id") \o Plain(<<"body">>)) >>
ChatServer == <<
    Msg("Joined", Id("channel_id") \o Plain(<<"channel">>)),
    Msg("Left", Plain(<<"channel">>)),
    Msg("Chat", Id("channel_id") \o Plain(<<"channel", "sender", "body">>)),
    Msg("Error", Plain(<<"message">>)) >>

WorldClientSocial == <<
    Msg("Move", Plain(<<"x", "y", "seq", "z">>)),
    Msg("Attack", Target \o Plain(<<"stat_key">>)),
    Msg("UseItem", Plain(<<"item_type">>)),
    Msg("InteractNpc", Plain(<<"npc_entity_id">>)),
    Msg("Ping", Plain(<<"client_sent_at">>)),
    Msg("JoinGroupLayer", Plain(<<"other_entity_id">>)),
    Msg("PartyInvite", Target \o Plain(<<"party_type">>)),
    Msg("PartyInviteResponse", Plain(<<"accept">>)), Empty("PartyLeave"),
    Msg("GuildCreate", Plain(<<"name">>)),
    Msg("GuildInvite", Target),
    Msg("GuildInviteResponse", Plain(<<"accept">>)),
    Empty("GuildLeave"), Empty("GuildDisband"),
    Msg("GuildKick", Target),
    Msg("GuildPromote", Target \o Plain(<<"rank_key">>)),
    Msg("GuildDemote", Target \o Plain(<<"rank_key">>)) >>
WorldClientGoods == <<
    Msg("GuildSetMotd", Plain(<<"motd">>)), Msg("GuildSetTag", Plain(<<"tag">>)),
    Msg("CraftItem", Plain(<<"recipe_key">>)),
    Msg("DropItem", Plain(<<"item_type", "quantity">>)),
    Msg("MoveItemToSlot", Plain(<<"item_type", "slot_index">>)),
    Msg("EquipItem", Plain(<<"item_type">>)), Msg("UnequipItem", Plain(<<"slot">>)),
    Msg("TradeRequest", Target), Msg("TradeRequestResponse", Plain(<<"accept">>)),
    Msg("TradeOfferItem", Plain(<<"item_type", "quantity">>)),
    Msg("TradeOfferCurrency", Plain(<<"currency_key", "amount">>)),
    Empty("TradeConfirm"), Empty("TradeCancel"),
    Msg("BindUdp", Plain(<<"session_token">>)) >>
WorldClient == WorldClientSocial \o WorldClientGoods

WorldServerPresence == <<
    Msg("Joined", Plain(<<"entity_id", "x", "y">>) \o Many("roster")
                  \o Plain(<<"tick", "z", "zone_id">>)),
    Msg("EntitySpawned", Plain(<<"entity_id", "entity_type", "x", "y", "z">>)),
    Msg("EntityDespawned", Plain(<<"entity_id">>)),
    Msg("ZoneChanged", Plain(<<"zone_id", "entity_id", "x", "y">>) \o Many("roster")
                       \o Plain(<<"tick", "z">>)),
    Msg("Moved", Plain(<<"entity_id", "x", "y", "seq", "tick", "z">>)),
    Msg("Rejected", Plain(<<"reason", "seq", "tick">>)),
    Msg("Error", Plain(<<"message">>)), Msg("PluginMessage", Plain(<<"body">>)),
    Msg("Pong", Plain(<<"client_sent_at", "server_time">>)) >>
WorldServerSocial == <<
    Msg("PartyInviteReceived", Plain(<<"from_entity_id">>)),
    Msg("PartyInviteDeclined", Plain(<<"by_entity_id">>)),
    Msg("PartyUpdate", Many("members")),
    Msg("GuildInviteReceived", Plain(<<"from_entity_id">>)),
    Msg("GuildInviteDeclined", Plain(<<"by_entity_id">>)),
    Msg("GuildUpdate", Plain(<<"guild_id", "name", "motd", "tag">>) \o Many("members")),
    Empty("GuildDisbanded") >>
WorldServerGoods == <<
    Msg("StatChanged", Plain(<<"stat_key", "value">>)),
    Msg("ItemChanged", Plain(<<"item_type", "quantity">>)),
    Msg("CurrencyChanged", Plain(<<"currency_key", "balance">>)),
    Msg("ItemMoved", Plain(<<"item_type">>) \o Opt("slot_index")),
    Msg("EquipmentChanged", Plain(<<"slot", "item_type">>)),
    Msg("TradeRequestReceived", Plain(<<"from_entity_id">>)),
    Msg("TradeRequestDeclined", Plain(<<"by_entity_id">>)),
    Msg("TradeStateChanged", Plain(<<"other_entity_id">>) \o Many("your_items")
        \o Many("your_currency") \o Plain(<<"your_confirmed">>) \o Many("their_items")
        \o Many("their_currency") \o Plain(<<"their_confirmed">>)),
    Msg("TradeCancelled", Plain(<<"by_entity_id">>)),
    Empty("TradeCompleted"), Empty("UdpBound") >>
WorldServer == WorldServerPresence \o WorldServerSocial \o WorldServerGoods
----------------------------------------------------------------------------
(* Messages into payloads and back.                                        *)

Absent(field) ==
    CASE field.type = "list" -> <<>>
      [] field.type = "optional" -> None
      [] OTHER -> Default

\* MUTANT: an optional field is written like the others.
ImplicitPayload(table, m) ==
    LET tag == CHOOSE t \in DOMAIN table : table[t].kind = m.kind
        fields == table[tag].fields
        Value(i) == m.fields[fields[i].name]
    IN  [tag |-> tag,
         fields |-> [i \in {j \in DOMAIN fields : Value(j) \notin {Absent(fields[j]), Default}}
                        |-> Value(i)]]

Payload(table, m) ==
    LET tag == CHOOSE t \in DOMAIN table : table[t].kind = m.kind
        fields == table[tag].fields
        Value(i) == m.fields[fields[i].name]
    IN  [tag |-> tag,
         fields |-> [i \in {j \in DOMAIN fields : Value(j) # Absent(fields[j])} |-> Value(i)]]

\* The message of a payload.  Refused: bytes that are no protobuf, a tag this
\* side does not know, an id that does not parse.
Message(table, p) ==
    IF p.tag \notin DOMAIN table THEN None
    ELSE LET fields == table[p.tag].fields
             Value(i) == IF i \in DOMAIN p.fields THEN p.fields[i] ELSE Absent(fields[i])
             Field(n) == CHOOSE i \in DOMAIN fields : fields[i].name = n
         IN  IF \E i \in DOMAIN fields : fields[i].type = "id" /\ Value(i) # Other
             THEN None
             ELSE Msg(table[p.tag].kind,
                      [n \in {fields[i].name : i \in DOMAIN fields} |-> Value(Field(n))])

AuthClientInto(m) == Payload(AuthClient, m)
AuthClientFrom(p) == Message(AuthClient, p)
AuthServerInto(m) == Payload(AuthServer, m)
AuthServerFrom(p) == Message(AuthServer, p)
RealmClientInto(m) == Payload(RealmClient, m)
RealmClientFrom(p) == Message(RealmClient, p)
RealmServerInto(m) == Payload(RealmServer, m)
RealmServerFrom(p) == Message(RealmServer, p)
CharacterClientInto(m) == Payload(CharacterClient, m)
CharacterClientFrom(p) == Message(CharacterClient, p)
CharacterServerInto(m) == Payload(CharacterServer, m)
CharacterServerFrom(p) == Message(CharacterServer, p)
ChatClientInto(m) == Payload(ChatClient, m)
ChatClientFrom(p) == Message(ChatClient, p)
ChatServerInto(m) == Payload(ChatServer, m)
ChatServerFrom(p) == Message(ChatServer, p)
WorldClientInto(m) == Payload(WorldClient, m)
WorldClientFrom(p) == Message(WorldClient, p)
WorldServerInto(m) == Payload(WorldServer, m)
WorldServerFrom(p) == Message(WorldServer, p)

EncodeAuth(p)      == [type |-> AUTH_MESSAGE_TYPE, payload |-> p]
EncodeRealm(p)     == [type |-> REALM_MESSAGE_TYPE, payload |-> p]
EncodeCharacter(p) == [type |-> CHARACTER_MESSAGE_TYPE, payload |-> p]
EncodeChat(p)      == [type |-> CHAT_MESSAGE_TYPE, payload |-> p]
EncodeWorld(p)     == [type |-> WORLD_MESSAGE_TYPE, payload |-> p]

\* MUTANT: the message_type is not looked at.
OpensAnything(f, type) == TRUE

\* decode: the type must be this protocol's.
Opens(f, type) == f.type = type

Read(f, type, From(_)) == IF Opens(f, type) THEN From(f.payload) ELSE None

Encode(s) ==
    LET m == [kind |-> s.kind, fields |-> s.fields]
        client == s.from = "client"
    IN  CASE s.protocol = "auth" ->
               EncodeAuth(IF client THEN AuthClientInto(m) ELSE AuthServerInto(m))
          [] s.protocol = "realm" ->
               EncodeRealm(IF client THEN RealmClientInto(m) ELSE RealmServerInto(m))
          [] s.protocol = "character" ->
               EncodeCharacter(IF client THEN CharacterClientInto(m)
                               ELSE CharacterServerInto(m))
          [] s.protocol = "chat" ->
               EncodeChat(IF client THEN ChatClientInto(m) ELSE ChatServerInto(m))
          [] s.protocol = "world" ->
               EncodeWorld(IF client THEN WorldClientInto(m) ELSE WorldServerInto(m))
          [] s.protocol = "plugin" -> [type |-> PluginType, payload |-> m.fields]

Garbage == [tag |-> 0, fields |-> <<>>]
Short   == [type |-> None, payload |-> Garbage]     \* less than a message_type
----------------------------------------------------------------------------
(* Where a frame goes.                                                     *)

Took(handler, m) == [by |-> handler, read |-> m]
Taken(handler, m) == IF m = None THEN Took("error", None) ELSE Took(handler, m)

\* MUTANT: the message is decoded whole before its body is looked at.
PeekWhole(f) ==
    LET m == Read(f, CHAT_MESSAGE_TYPE, ChatClientFrom) IN
    IF m # None /\ m.kind = "Send" THEN m.fields["body"] ELSE None

\* peek_send_body: the body of a Send whatever its channel_id.
Peek(f) ==
    IF ~Opens(f, CHAT_MESSAGE_TYPE) \/ f.payload.tag # 3 THEN None
    ELSE IF 2 \in DOMAIN f.payload.fields THEN f.payload.fields[2] ELSE Default

OnWorldFrame(f) ==
    LET m == Read(f, WORLD_MESSAGE_TYPE, WorldClientFrom) IN
    IF m # None /\ m.kind = "BindUdp" THEN Took("ignored", m) ELSE Taken("world", m)

OnChatFrame(f) ==
    IF Peek(f) = SlashCommand THEN Took("command", Msg("Send", [body |-> SlashCommand]))
    ELSE Taken("chat", Read(f, CHAT_MESSAGE_TYPE, ChatClientFrom))

OnOtherFrame(f) ==
    IF f.type = PluginType THEN Took("plugin", f.payload) ELSE Took("error", None)

\* The handshake reads one protocol in each phase and closes on an error; a
\* character in the world reads by message_type.
OnTcp(phase, f) ==
    CASE f = Short -> Took("closed", None)
      [] f # Short /\ phase = "auth" ->
            Taken("auth", Read(f, AUTH_MESSAGE_TYPE, AuthClientFrom))
      [] f # Short /\ phase = "realm" ->
            Taken("realm", Read(f, REALM_MESSAGE_TYPE, RealmClientFrom))
      [] f # Short /\ phase = "character" ->
            Taken("character", Read(f, CHARACTER_MESSAGE_TYPE, CharacterClientFrom))
      [] f # Short /\ phase = "world" ->
            CASE f.type = WORLD_MESSAGE_TYPE -> OnWorldFrame(f)
              [] f.type = CHAT_MESSAGE_TYPE -> OnChatFrame(f)
              [] OTHER -> OnOtherFrame(f)

\* A session serves Move and Ping that come as datagrams.
OnForwarded(m) ==
    IF m # None /\ m.kind \in {"Move", "Ping"} THEN Took("world", m)
    ELSE Took("ignored", m)

\* Datagrams: world messages only, and until BindUdp nothing else.
OnUdp(bound, f) ==
    LET m == Read(f, WORLD_MESSAGE_TYPE, WorldClientFrom) IN
    CASE f = Short \/ f.type # WORLD_MESSAGE_TYPE -> Took("ignored", None)
      [] f # Short /\ f.type = WORLD_MESSAGE_TYPE ->
            IF m # None /\ m.kind = "BindUdp" THEN Took("bind", m)
            ELSE IF bound THEN OnForwarded(m) ELSE Took("ignored", None)

OnClient(protocol, f) ==
    CASE f = Short -> Took("closed", None)
      [] f # Short /\ protocol = "auth" ->
            Taken("client", Read(f, AUTH_MESSAGE_TYPE, AuthServerFrom))
      [] f # Short /\ protocol = "realm" ->
            Taken("client", Read(f, REALM_MESSAGE_TYPE, RealmServerFrom))
      [] f # Short /\ protocol = "character" ->
            Taken("client", Read(f, CHARACTER_MESSAGE_TYPE, CharacterServerFrom))
      [] f # Short /\ protocol = "chat" ->
            Taken("client", Read(f, CHAT_MESSAGE_TYPE, ChatServerFrom))
      [] f # Short /\ protocol = "world" ->
            Taken("client", Read(f, WORLD_MESSAGE_TYPE, WorldServerFrom))
\* The session reads what it is about to send: a ZoneChanged moves it too.
OnOutgoing(f) ==
    LET m == Read(f, WORLD_MESSAGE_TYPE, WorldServerFrom) IN
    IF m # None /\ m.kind = "ZoneChanged" THEN Took("zone", m) ELSE Took("client", m)
----------------------------------------------------------------------------
\* What a field may hold in memory, and the messages of a table.
Values(field) ==
    CASE field.type = "id" -> {Other}
      [] field.type = "list" -> {<<>>, <<Default>>, <<Default, Other>>}
      [] field.type = "optional" -> {None, Default, Other}
      [] field.name = "body" -> {Default, Other, SlashCommand}
      [] OTHER -> {Default, Other}
Fill(fields) ==
    FoldLeft(LAMBDA fs, field : {[n \in DOMAIN f \cup {field.name} |->
                                     IF n = field.name THEN v ELSE f[n]] :
                                  f \in fs, v \in Values(field)},
             {<<>>}, fields)
Sent(protocol, from, table) ==
    UNION {[protocol : {protocol}, from : {from}, kind : {table[t].kind},
            fields : Fill(table[t].fields)] : t \in DOMAIN table}

ClientMessages ==
    Sent("auth", "client", AuthClient) \cup Sent("realm", "client", RealmClient)
    \cup Sent("character", "client", CharacterClient)
    \cup Sent("chat", "client", ChatClient) \cup Sent("world", "client", WorldClient)
    \cup Sent("plugin", "client", <<Msg("bytes", Plain(<<"body">>))>>)
ServerMessages ==
    Sent("auth", "server", AuthServer) \cup Sent("realm", "server", RealmServer)
    \cup Sent("character", "server", CharacterServer)
    \cup Sent("chat", "server", ChatServer) \cup Sent("world", "server", WorldServer)

Ways(s) ==
    IF s.from = "server"
    THEN [by : {"client"}, at : {"auth", "realm", "character", "chat", "world"}]
         \cup [by : {"outgoing"}, at : {"world"}]
    ELSE [by : {"tcp"}, at : {"auth", "realm", "character", "world"}]
         \cup [by : {"udp"}, at : {"bound", "unbound"}]

Init == /\ sent = None /\ path = None /\ frame = None
        /\ damaged = "nothing" /\ outcome = None

Send ==
    /\ sent = None
    /\ \E s \in ClientMessages \cup ServerMessages : \E w \in Ways(s) :
          sent' = s /\ path' = w /\ frame' = Encode(s)
    /\ UNCHANGED <<damaged, outcome>>

\* A client that is not ours: bytes that decode to nothing, less than a type,
\* an id that does not parse.
Damage ==
    /\ frame # None /\ damaged = "nothing"
    /\ sent.from = "client" /\ sent.protocol # "plugin"
    /\ \/ frame' \in {Short, [frame EXCEPT !.payload = Garbage]} /\ damaged' = "bytes"
       \/ /\ sent.kind = "Send"
          /\ frame' = [frame EXCEPT !.payload.fields[1] = Malformed]
          /\ damaged' = "id"
    /\ UNCHANGED <<sent, path, outcome>>

Receive ==
    /\ frame # None
    /\ outcome' = CASE path.by = "tcp" -> OnTcp(path.at, frame)
                    [] path.by = "udp" -> OnUdp(path.at = "bound", frame)
                    [] path.by = "outgoing" -> OnOutgoing(frame)
                    [] path.by = "client" -> OnClient(path.at, frame)
    /\ frame' = None
    /\ UNCHANGED <<sent, path, damaged>>

Next == Send \/ Damage \/ Receive

Spec == Init /\ [][Next]_vars
----------------------------------------------------------------------------
\* The protocols somebody at the far end reads.
Expected ==
    CASE path.by = "tcp" /\ path.at = "world" -> {"world", "chat", "plugin"}
      [] path.by = "udp" -> {"world"}
      [] OTHER -> {path.at}

Content == IF sent.protocol = "plugin" THEN sent.fields ELSE Msg(sent.kind, sent.fields)
IsCommand == sent.protocol = "chat" /\ sent.from = "client" /\ sent.kind = "Send"
             /\ sent.fields["body"] = SlashCommand

\* What is read is what was sent, field by field (an unsorted stack's slot_index
\* and slot 0 included), whoever reads it in whatever phase; everybody who expects
\* the protocol can read every message of it; and nobody reads a frame of another
\* protocol, though its tag and fields would fit a message of theirs.
ReadsWhatWasSent ==
    outcome # None /\ ~(IsCommand /\ outcome.by = "command") =>
        /\ outcome.read \in {None, Content}
        /\ outcome.read # None => sent.protocol \in Expected
        /\ damaged = "nothing" /\ sent.protocol \in Expected /\ path.at # "unbound"
              => outcome.read = Content

\* A Send whose body is a declared command goes to the plugin whatever its
\* channel_id, malformed included, and is never published as a chat message;
\* nothing else goes there.
CommandsAreConsumed ==
    outcome # None /\ path = [by |-> "tcp", at |-> "world"] =>
        (outcome.by = "command" <=> IsCommand /\ damaged # "bytes")
=============================================================================
