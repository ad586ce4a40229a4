----------------------------- MODULE Connection -----------------------------
(***************************************************************************)
(* A connection from its first frame to the end of its task: handshake,    *)
(* realm, character list and creation, the maps a player enters on joining *)
(* and leaves again, and the one task that binds UDP addresses to players. *)
(* A connection's entity id is the connection.  Updates of several maps    *)
(* with no await between them are one step where no task reads both.       *)
(* Leases that lapse, deletion and transfers are in CharacterSession.      *)
(***************************************************************************)
EXTENDS Naturals, FiniteSets, Functions

CONSTANTS
    Conn, Account, Remote,
    MaxCharacters,  \* WZ_CHARACTER_MAX_PER_ACCOUNT
    MaxTokens,      \* bound: session tokens issued
    MaxRows,        \* bound: characters created
    MaxFaults,      \* bound: calls and writes that fail
    None

ASSUME ConstantsAssumption ==
    /\ MaxCharacters \in Nat
    /\ None \notin Conn \cup Account
    /\ None \notin [from : Remote, to : Conn, at : {"outbound", "inbound"}]

VARIABLES
    open,           \* the realm's characters take a lease to play
    phase,
    account, token, character,      \* of each connection, None before
    accounts,       \* registered
    sessionKeys,    \* Redis: the account of each session token
    characters,     \* rows: owner, and whether the archetype's stats are set
    lease,          \* the connection that holds each character
    presence,       \* realm presence: the members of the sorted set
    entities,       \* entity_characters, entity_accounts, entity_roles
    character_entities, account_entities,
    sessions,       \* global_sessions, and the zone's
    token_to_entity, inbound_routes, remote_by_entity, entity_by_remote,
    binding,        \* the UDP task: None, or the BindUdp it is at
    met,            \* history: who was in the maps with whom
    spoke,          \* history: per remote, the connections it bound, and the last
    raced,          \* history: connections that left during their own binding
    issued, faults

identity == <<account, token, character>>
stored   == <<open, accounts, sessionKeys, characters, lease, presence, issued>>
maps     == <<entities, character_entities, account_entities, sessions>>
udp      == <<token_to_entity, inbound_routes, remote_by_entity, entity_by_remote, binding>>
history  == <<met, spoke, raced>>
vars     == <<phase, identity, stored, maps, udp, history, faults>>

Without(f, k) == [x \in DOMAIN f \ {k} |-> f[x]]
With(f, k, v) == [x \in DOMAIN f \cup {k} |-> IF x = k THEN v ELSE f[x]]

Goes(c, p) == phase' = [phase EXCEPT ![c] = p]
CharactersOf(a) == {ch \in DOMAIN characters : characters[ch].owner = a}
----------------------------------------------------------------------------
Init ==
    /\ open \in BOOLEAN
    /\ phase = [c \in Conn |-> "new"]
    /\ account = [c \in Conn |-> None]
    /\ token = [c \in Conn |-> None]
    /\ character = [c \in Conn |-> None]
    /\ accounts = {} /\ sessionKeys = <<>> /\ characters = <<>> /\ lease = <<>>
    /\ presence = {} /\ issued = 0 /\ faults = 0
    /\ entities = {} /\ character_entities = <<>> /\ account_entities = <<>>
    /\ sessions = {}
    /\ token_to_entity = <<>> /\ inbound_routes = {}
    /\ remote_by_entity = <<>> /\ entity_by_remote = <<>> /\ binding = None
    /\ met = [c \in Conn |-> {}] /\ raced = {}
    /\ spoke = [r \in Remote |-> [all |-> {}, last |-> None]]

Authenticated(c, a, t) ==
    /\ phase[c] = "new"
    /\ account' = [account EXCEPT ![c] = a]
    /\ token' = [token EXCEPT ![c] = t]
    /\ Goes(c, "realm")
    /\ UNCHANGED <<open, character, characters, lease, presence, maps, udp, history, faults>>

\* issue_session: a fresh token, with a TTL.
issue(c, a) ==
    /\ issued < MaxTokens
    /\ issued' = issued + 1
    /\ sessionKeys' = With(sessionKeys, issued', a)
    /\ Authenticated(c, a, issued')

register(c) == \E a \in Account \ accounts : accounts' = accounts \cup {a} /\ issue(c, a)

verify_credentials(c) == \E a \in accounts : issue(c, a) /\ UNCHANGED accounts

\* The token presented goes on living; several connections may present it.
resume(c) ==
    \E t \in DOMAIN sessionKeys :
        /\ Authenticated(c, sessionKeys[t], t)
        /\ UNCHANGED <<accounts, sessionKeys, issued>>

ExpireToken ==
    /\ \E t \in DOMAIN sessionKeys : sessionKeys' = Without(sessionKeys, t)
    /\ UNCHANGED <<open, phase, identity, accounts, characters, lease, presence, issued,
                   maps, udp, history, faults>>

\* An undecodable frame, refused credentials, another realm, or an end of the
\* stream: nothing has been entered anywhere yet.
HangUp(c) ==
    /\ phase[c] \in {"new", "realm", "lobby"}
    /\ Goes(c, "gone")
    /\ UNCHANGED <<identity, stored, maps, udp, history, faults>>

\* A Redis or Postgres call, or a write to a client that is gone, returns an
\* error, and ? ends the task there: nothing after the loop is executed.
Fail(c) ==
    /\ faults < MaxFaults
    /\ phase[c] \in {"seeding", "presence", "roles", "playing"}
    /\ faults' = faults + 1
    /\ Goes(c, "failed")
    /\ UNCHANGED <<identity, stored, maps, udp, history>>

SelectRealm(c) ==
    /\ phase[c] = "realm"
    /\ Goes(c, "lobby")
    /\ UNCHANGED <<identity, stored, maps, udp, history, faults>>

\* MUTANT: the count is not compared.
CountNothing(c) ==
    /\ phase[c] = "lobby"
    /\ Goes(c, "creating")
    /\ UNCHANGED <<identity, stored, maps, udp, history, faults>>

\* CreateCharacter counts the account's characters ...
CountExisting(c) ==
    /\ phase[c] = "lobby"
    /\ Cardinality(CharactersOf(account[c])) < MaxCharacters
    /\ Goes(c, "creating")
    /\ UNCHANGED <<identity, stored, maps, udp, history, faults>>

\* ... inserts the row ...
InsertCharacter(c) ==
    /\ phase[c] = "creating"
    /\ LET ch == Cardinality(DOMAIN characters) + 1 IN
       /\ ch <= MaxRows
       /\ characters' = With(characters, ch, [owner |-> account[c], seeded |-> FALSE])
       /\ character' = [character EXCEPT ![c] = ch]
    /\ Goes(c, "seeding")
    /\ UNCHANGED <<open, account, token, accounts, sessionKeys, lease, presence, issued,
                   maps, udp, history, faults>>

\* ... and writes the archetype's stats before it answers.
SeedStats(c) ==
    /\ phase[c] = "seeding"
    /\ characters' = [characters EXCEPT ![character[c]].seeded = TRUE]
    /\ character' = [character EXCEPT ![c] = None]
    /\ Goes(c, "lobby")
    /\ UNCHANGED <<open, account, token, accounts, sessionKeys, lease, presence, issued,
                   maps, udp, history, faults>>

\* get_for_account and authorize_login; in an open realm the lease must be free.
SelectCharacter(c) ==
    /\ phase[c] = "lobby"
    /\ \E ch \in CharactersOf(account[c]) :
          /\ open => ch \notin DOMAIN lease
          /\ lease' = IF open THEN With(lease, ch, c) ELSE lease
          /\ character' = [character EXCEPT ![c] = ch]
    /\ Goes(c, "presence")
    /\ UNCHANGED <<open, account, token, accounts, sessionKeys, characters, presence, issued,
                   maps, udp, history, faults>>

connect(c) ==
    /\ phase[c] = "presence"
    /\ presence' = presence \cup {c}
    /\ Goes(c, "maps")
    /\ UNCHANGED <<open, identity, accounts, sessionKeys, characters, lease, issued, maps, udp,
                   history, faults>>

\* The connections whose leave still has these maps to clear.
InMaps == {d \in Conn : phase[d] \in {"roles", "announce", "playing", "leaveUdp",
                                      "leaveRemote", "leaveMaps"}}

\* MUTANT: who is found under the character or the account stays.
EnterIfFree(c) ==
    /\ phase[c] = "maps"
    /\ entities' = entities \cup {c}
    /\ character_entities' = IF character[c] \in DOMAIN character_entities THEN character_entities
                             ELSE With(character_entities, character[c], c)
    /\ account_entities' = IF account[c] \in DOMAIN account_entities THEN account_entities
                           ELSE With(account_entities, account[c], c)
    /\ met' = [d \in Conn |-> IF d = c THEN InMaps
                              ELSE IF d \in InMaps THEN met[d] \cup {c} ELSE met[d]]
    /\ Goes(c, "roles")
    /\ UNCHANGED <<identity, stored, sessions, udp, spoke, raced, faults>>

EnterMaps(c) ==
    /\ phase[c] = "maps"
    /\ entities' = entities \cup {c}
    /\ character_entities' = With(character_entities, character[c], c)
    /\ account_entities' = With(account_entities, account[c], c)
    /\ met' = [d \in Conn |-> IF d = c THEN InMaps
                              ELSE IF d \in InMaps THEN met[d] \cup {c} ELSE met[d]]
    /\ Goes(c, "roles")
    /\ UNCHANGED <<identity, stored, sessions, udp, spoke, raced, faults>>

\* roles_for and the plugin state come from Postgres.
ReadRoles(c) ==
    /\ phase[c] = "roles"
    /\ Goes(c, "announce")
    /\ UNCHANGED <<identity, stored, maps, udp, history, faults>>

Announce(c) ==
    /\ phase[c] = "announce"
    /\ sessions' = sessions \cup {c}
    /\ token_to_entity' = With(token_to_entity, token[c], c)
    /\ inbound_routes' = inbound_routes \cup {c}
    /\ Goes(c, "playing")
    /\ UNCHANGED <<identity, stored, entities, character_entities, account_entities,
                   remote_by_entity, entity_by_remote, binding, history, faults>>

\* The stream ends.
Disconnect(c) ==
    /\ phase[c] = "playing"
    /\ Goes(c, "leaveUdp")
    /\ UNCHANGED <<identity, stored, maps, udp, history, faults>>

\* The token's entry goes whoever entered it last.
LeaveSessions(c) ==
    /\ phase[c] = "leaveUdp"
    /\ sessions' = sessions \ {c}
    /\ token_to_entity' = Without(token_to_entity, token[c])
    /\ inbound_routes' = inbound_routes \ {c}
    /\ Goes(c, "leaveRemote")
    /\ UNCHANGED <<identity, stored, entities, character_entities, account_entities,
                   remote_by_entity, entity_by_remote, binding, history, faults>>

LeaveRemote(c) ==
    /\ phase[c] = "leaveRemote"
    /\ remote_by_entity' = Without(remote_by_entity, c)
    /\ entity_by_remote' = IF c \notin DOMAIN remote_by_entity THEN entity_by_remote
                           ELSE Without(entity_by_remote, remote_by_entity[c])
    /\ raced' = IF binding # None /\ binding.to = c THEN raced \cup {c} ELSE raced
    /\ Goes(c, "leaveMaps")
    /\ UNCHANGED <<identity, stored, maps, token_to_entity, inbound_routes, binding,
                   met, spoke, faults>>

\* So do the entries of the character and the account.
LeaveMaps(c) ==
    /\ phase[c] = "leaveMaps"
    /\ entities' = entities \ {c}
    /\ character_entities' = Without(character_entities, character[c])
    /\ account_entities' = Without(account_entities, account[c])
    /\ Goes(c, "leaveLease")
    /\ UNCHANGED <<identity, stored, sessions, udp, history, faults>>

release(c) ==
    /\ phase[c] = "leaveLease"
    /\ lease' = Without(lease, character[c])
    /\ Goes(c, "leavePresence")
    /\ UNCHANGED <<open, identity, accounts, sessionKeys, characters, presence, issued, maps, udp,
                   history, faults>>

disconnect(c) ==
    /\ phase[c] = "leavePresence"
    /\ presence' = presence \ {c}
    /\ Goes(c, "left")
    /\ UNCHANGED <<open, identity, accounts, sessionKeys, characters, lease, issued, maps, udp,
                   history, faults>>

\* ListRealms counts who is present, after pruning whose heartbeat has stopped
\* for a TTL.
ListRealms(c) ==
    /\ phase[c] = "realm"
    /\ \E d \in presence : phase[d] = "failed" /\ presence' = presence \ {d}
    /\ UNCHANGED <<open, phase, identity, accounts, sessionKeys, characters, lease, issued, maps,
                   udp, history, faults>>
----------------------------------------------------------------------------
(* The UDP task, one datagram after the other.                             *)

\* BindUdp: the token is resolved ...
BindUdp ==
    /\ binding = None
    /\ \E r \in Remote : \E t \in DOMAIN token_to_entity :
          binding' = [from |-> r, to |-> token_to_entity[t], at |-> "outbound"]
    /\ UNCHANGED <<phase, identity, stored, maps, token_to_entity, inbound_routes,
                   remote_by_entity, entity_by_remote, history, faults>>

\* ... the player's pushes go to this address from here on ...
BindOutbound ==
    /\ binding # None /\ binding.at = "outbound"
    /\ remote_by_entity' = With(remote_by_entity, binding.to, binding.from)
    /\ binding' = [binding EXCEPT !.at = "inbound"]
    /\ UNCHANGED <<phase, identity, stored, maps, token_to_entity, inbound_routes,
                   entity_by_remote, history, faults>>

\* MUTANT: the first player of an address stays.
BindFirst ==
    /\ binding # None /\ binding.at = "inbound"
    /\ entity_by_remote' = IF binding.from \in DOMAIN entity_by_remote THEN entity_by_remote
                           ELSE With(entity_by_remote, binding.from, binding.to)
    /\ spoke' = [spoke EXCEPT ![binding.from] =
                    [all |-> @.all \cup {binding.to}, last |-> binding.to]]
    /\ binding' = None
    /\ UNCHANGED <<phase, identity, stored, maps, token_to_entity, inbound_routes,
                   remote_by_entity, met, raced, faults>>

\* ... and its datagrams to the player; UdpBound.
BindInbound ==
    /\ binding # None /\ binding.at = "inbound"
    /\ entity_by_remote' = With(entity_by_remote, binding.from, binding.to)
    /\ spoke' = [spoke EXCEPT ![binding.from] =
                    [all |-> @.all \cup {binding.to}, last |-> binding.to]]
    /\ binding' = None
    /\ UNCHANGED <<phase, identity, stored, maps, token_to_entity, inbound_routes,
                   remote_by_entity, met, raced, faults>>

Session(c) ==
    \/ register(c) \/ verify_credentials(c) \/ resume(c) \/ HangUp(c) \/ Fail(c)
    \/ ListRealms(c) \/ SelectRealm(c)
    \/ CountExisting(c) \/ InsertCharacter(c) \/ SeedStats(c) \/ SelectCharacter(c)
    \/ connect(c) \/ EnterMaps(c) \/ ReadRoles(c) \/ Announce(c) \/ Disconnect(c)
    \/ LeaveSessions(c) \/ LeaveRemote(c) \/ LeaveMaps(c) \/ release(c) \/ disconnect(c)

Next ==
    \/ \E c \in Conn : Session(c)
    \/ ExpireToken \/ BindUdp \/ BindOutbound \/ BindInbound

Spec == Init /\ [][Next]_vars
----------------------------------------------------------------------------
Failed == {c \in Conn : phase[c] = "failed"}
Playing == {c \in Conn : phase[c] = "playing"}
Apart(c, of) == \A d \in met[c] : of[d] # of[c]
Maps(f, k, c) == k \in DOMAIN f /\ f[k] = c
BoundFrom(c) == {r \in Remote : c \in spoke[r].all}

\* Whoever plays is found: by character for parties, by account for guilds, by
\* token for BindUdp.  The entries are removed by key, not by entity, so another
\* connection can take them away; only one that was in the maps at the same time
\* with the same account, token or (in a bound realm, which has no lease to keep
\* them apart) character.
FoundUnlessShared ==
    \A c \in Playing :
        /\ Apart(c, account) => Maps(account_entities, account[c], c)
        /\ Apart(c, token) => Maps(token_to_entity, token[c], c)
        /\ open \/ Apart(c, character) => Maps(character_entities, character[c], c)

\* A player whose pushes go to an address is heard from it, whatever earlier
\* players of the address have left there, unless one of them was still (or a
\* later one is already) in the maps together with this one, or its task ended
\* without a leave, which leaves its token good for a BindUdp.
HeardUnlessShared ==
    \A c \in Playing \cap DOMAIN remote_by_entity :
        LET r == remote_by_entity[c] IN
        binding = None /\ (met[c] \cup Failed) \cap spoke[r].all = {}
            => Maps(entity_by_remote, r, c)

\* A connection that went through the whole of its leave is in no map, holds no
\* lease and is not counted; in the UDP maps only if its binding was under way
\* meanwhile, or it had moved to a second address.
LeftNothingBehind ==
    \A c \in Conn : phase[c] = "left" =>
        /\ c \notin entities \cup sessions \cup inbound_routes \cup presence
        /\ c \notin Range(character_entities) \cup Range(account_entities)
                    \cup Range(token_to_entity) \cup Range(lease)
        /\ c \notin raced =>
              /\ c \notin DOMAIN remote_by_entity
              /\ \A r \in Remote : BoundFrom(c) = {r} => c \notin Range(entity_by_remote)

\* The maps of the process hold who plays, and nobody who has left.
MapsHoldWhoPlays == FoundUnlessShared /\ LeftNothingBehind

\* The cap counts and inserts in two statements: an account passes it by at most
\* its other connections that create at the same time.
CapUnlessRacing ==
    \A a \in accounts :
        Cardinality(CharactersOf(a)) <=
            MaxCharacters + Cardinality({c \in Conn : account[c] = a}) - 1

\* "An entry here is added once at initial join and removed once at final
\* disconnect" (SessionDeps::global_sessions): no ended task is in it.
EndedIsRemoved == \A c \in sessions : phase[c] \notin {"failed", "left"}

\* "From this point on this connection's WORLD_MESSAGE_TYPE traffic (both
\* directions) travels over UDP" (UdpBound): the player an address was bound to
\* last is heard from it as long as the connection lasts.
BoundIsHeard ==
    \A r \in Remote : binding = None /\ spoke[r].all # {} =>
        LET c == spoke[r].last IN
        c \in Playing /\ Maps(remote_by_entity, c, r) => Maps(entity_by_remote, r, c)
=============================================================================
