---------------------------- MODULE ServiceProofs ----------------------------
(***************************************************************************)
(* What is proved of connections, for any number of connections, accounts  *)
(* and addresses: who plays is found and heard unless it shares a key, who *)
(* left is nowhere, and the cap on characters is passed by racing creations *)
(* only.                                                                   *)
(*                                                                         *)
(* The maps are entered and left by key, so all of it rests on who was in  *)
(* the maps together with whom: an entry can only have been taken by a     *)
(* connection that this one has met (MetEachOther, KeysAreOwn).            *)
(*                                                                         *)
(* And of the registry, for any number of instances: a watcher that has    *)
(* read its events misses no instance.  Whoever is registered is known     *)
(* already, or an event that is still to be read, or to be published, will *)
(* say so last (RegistryInv).                                              *)
(*                                                                         *)
(* And of a process and its item catalog, for any game and any plugins:    *)
(* the copy is the table where nobody else writes and no statement of a    *)
(* registration failed, and whatever recipes and equipment name is in it.  *)
(* A dispatch has at most one request whose row the table lacks and should *)
(* have, and applies it last (CatalogInv).                                 *)
(***************************************************************************)
EXTENDS Service, FiniteSetTheorems, SequenceTheorems, TLAPS

\* Where the identity of a connection can still change.
Early == {"new", "realm", "lobby", "creating", "seeding"}

\* From where to where a connection holds what its leave gives back.
HasRoutes   == {"playing", "leaveUdp"}
HasMaps     == {"roles", "announce", "playing", "leaveUdp", "leaveRemote", "leaveMaps"}
HasPresence == {"maps", "leaveLease", "leavePresence"} \cup HasMaps
HasLease    == {"presence", "maps", "leaveLease"} \cup HasMaps

\* Where pushes may have an address, and where they have none any more.
Reachable == {"playing", "leaveUdp", "leaveRemote", "failed"}
Parted    == {"leaveMaps", "leaveLease", "leavePresence", "left"}

Phases == Early \cup HasLease \cup {"leavePresence", "left", "gone", "failed"}

Shapes ==
    /\ phase \in [Conn -> Phases]
    /\ DOMAIN account = Conn /\ DOMAIN token = Conn /\ DOMAIN character = Conn
    /\ met \in [Conn -> SUBSET Conn]
    /\ spoke \in [Remote -> [all : SUBSET Conn, last : Conn \cup {None}]]
    /\ DOMAIN remote_by_entity \subseteq Conn
    /\ \A c \in DOMAIN remote_by_entity : remote_by_entity[c] \in Remote
    /\ binding \in {None} \cup [from : Remote, to : Conn, at : {"outbound", "inbound"}]

\* Whoever is in the maps together has met, and who was met is itself no more
\* in doubt.
MetEachOther ==
    /\ \A c, d \in Conn : phase[c] \in HasMaps /\ phase[d] \in HasMaps /\ c # d => d \in met[c]
    /\ \A c \in Conn : \A d \in met[c] : phase[d] \notin Early \cup {"presence", "maps"}

\* An entry is under its connection's own key, and only while it has to be there
\* or after the task has failed.
Under(f, of, held) ==
    \A k \in DOMAIN f : f[k] \in Conn /\ of[f[k]] = k /\ phase[f[k]] \in held \cup {"failed"}
In(S, held) == \A c \in S : c \in Conn /\ phase[c] \in held \cup {"failed"}

KeysAreOwn ==
    /\ Under(account_entities, account, HasMaps) /\ Under(character_entities, character, HasMaps)
    /\ Under(token_to_entity, token, HasRoutes) /\ Under(lease, character, HasLease)
    /\ In(entities, HasMaps) /\ In(presence, HasPresence)
    /\ In(sessions, HasRoutes) /\ In(inbound_routes, HasRoutes)

\* The other way round: an entry stays, unless whoever shares the key has met its
\* connection.  A lease is shared with nobody.
LeasesHeld ==
    IF open THEN \A c \in Conn : phase[c] \in HasLease => Maps(lease, character[c], c)
            ELSE DOMAIN lease = {}

FoundAll ==
    \A c \in Conn :
        /\ phase[c] \in HasMaps =>
              /\ (Apart(c, account) => Maps(account_entities, account[c], c))
              /\ (open \/ Apart(c, character) => Maps(character_entities, character[c], c))
        /\ phase[c] \in HasRoutes =>
              (Apart(c, token) => Maps(token_to_entity, token[c], c))

\* The UDP task has a binding of c half done.
HalfBound(c, r) == binding # None /\ binding.at = "inbound" /\ binding.to = c /\ binding.from = r

\* Addresses are of players, known to the end of their leave from the bindings,
\* and then forgotten unless a binding was under way.
Addressed ==
    /\ binding # None => phase[binding.to] \in Reachable \cup Parted
    /\ \A c \in DOMAIN remote_by_entity : phase[c] \in Reachable \cup Parted
    /\ \A r \in Remote, c \in Conn : c \in spoke[r].all => phase[c] \in Reachable \cup Parted
    /\ \A r \in DOMAIN entity_by_remote : r \in Remote /\ entity_by_remote[r] \in spoke[r].all

Spoken ==
    \A c \in Conn : phase[c] \in Reachable =>
        /\ c \in DOMAIN remote_by_entity =>
              c \in spoke[remote_by_entity[c]].all \/ HalfBound(c, remote_by_entity[c])
        /\ \A r \in Remote : c \in spoke[r].all => c \in DOMAIN remote_by_entity
        /\ \A r \in Remote : HalfBound(c, r) => Maps(remote_by_entity, c, r)

Forgotten ==
    \A c \in Conn : phase[c] \in Parted /\ c \notin raced =>
        /\ binding # None => binding.to # c
        /\ c \notin DOMAIN remote_by_entity
        /\ \A r \in Remote : BoundFrom(c) = {r} => c \notin Range(entity_by_remote)

\* Whoever else an address may lead to, it has been met, or has failed.
HeardOr(c, r) ==
    \/ Maps(entity_by_remote, r, c) \/ HalfBound(c, r)
    \/ \E d \in met[c] \cup Failed : d \in spoke[r].all \/ HalfBound(d, r)

Heard ==
    \A c \in Playing \cap DOMAIN remote_by_entity :
        /\ binding # None => binding.to \in {c} \cup met[c] \cup Failed
        /\ HeardOr(c, remote_by_entity[c])

Rows == [owner : accounts \cup {None}, seeded : BOOLEAN]

Named ==
    /\ accounts \subseteq Account
    /\ \A c \in Conn :
          account[c] \in accounts \cup {None} /\ (phase[c] = "new" => account[c] = None)
    /\ \A t \in DOMAIN sessionKeys : sessionKeys[t] \in accounts
    /\ \E n \in Nat : characters \in [1 .. n -> Rows]

\* A creation that has counted has room for its own row, and for that of every
\* other connection of its account but one.
ConnsOf(a)  == {c \in Conn : account[c] = a}
Creating(a) == {c \in ConnsOf(a) : phase[c] = "creating"}

CapKept ==
    \A a \in accounts :
        Cardinality(CharactersOf(a)) + Cardinality(Creating(a)) + 1
            <= MaxCharacters + Cardinality(ConnsOf(a))

Found == Shapes /\ MetEachOther /\ KeysAreOwn /\ LeasesHeld /\ FoundAll
Spoke == Addressed /\ Spoken /\ Forgotten /\ Heard
----------------------------------------------------------------------------
(* A step is one of these kinds.                                           *)

Others(c) ==
    /\ DOMAIN account' = Conn /\ DOMAIN token' = Conn /\ DOMAIN character' = Conn
    /\ \A d \in Conn \ {c} :
          /\ phase'[d] = phase[d] /\ account'[d] = account[d]
          /\ token'[d] = token[d] /\ character'[d] = character[d]

SameSelf(c) ==
    account'[c] = account[c] /\ token'[c] = token[c] /\ character'[c] = character[c]

\* Nothing moves in the maps; c goes on, or fails.
Quiet(c) ==
    /\ UNCHANGED <<open, lease, presence, maps, udp, history>>
    /\ phase' \in [Conn -> Phases]
    /\ Others(c)
    /\ \/ phase[c] \in Early /\ phase'[c] \in Early \cup {"gone", "failed"}
       \/ SameSelf(c) /\ <<phase[c], phase'[c]>> \in
             {<<"presence", "failed">>, <<"roles", "failed">>, <<"playing", "failed">>,
              <<"roles", "announce">>, <<"playing", "leaveUdp">>}

\* Nobody moves: tokens expire, failed ones are no longer counted.
Still ==
    /\ UNCHANGED <<open, phase, identity, lease, maps, udp, history>>
    /\ presence' \subseteq presence

Changes(c) ==
    \/ SelectCharacter(c) \/ connect(c) \/ EnterMaps(c) \/ Announce(c)
    \/ LeaveSessions(c) \/ LeaveRemote(c) \/ LeaveMaps(c) \/ release(c) \/ disconnect(c)

LEMMA QuietSteps ==
  ASSUME Shapes, NEW c \in Conn,
         \/ register(c) \/ verify_credentials(c) \/ resume(c) \/ HangUp(c) \/ Fail(c)
         \/ SelectRealm(c) \/ CountExisting(c) \/ InsertCharacter(c) \/ SeedStats(c)
         \/ ReadRoles(c) \/ Disconnect(c)
  PROVE  Quiet(c)
<1> USE DEF Quiet, Others, SameSelf, Shapes, Phases, Early, HasMaps, HasLease, Goes,
            identity, stored, maps, udp, history
<1>1. CASE register(c)
  BY <1>1 DEF register, issue, Authenticated
<1>2. CASE verify_credentials(c)
  BY <1>2 DEF verify_credentials, issue, Authenticated
<1>3. CASE resume(c)
  BY <1>3 DEF resume, Authenticated
<1>4. CASE HangUp(c)
  BY <1>4 DEF HangUp
<1>5. CASE Fail(c)
  BY <1>5 DEF Fail
<1>6. CASE SelectRealm(c)
  BY <1>6 DEF SelectRealm
<1>7. CASE CountExisting(c)
  BY <1>7 DEF CountExisting
<1>8. CASE InsertCharacter(c)
  BY <1>8 DEF InsertCharacter
<1>9. CASE SeedStats(c)
  BY <1>9 DEF SeedStats
<1>10. CASE ReadRoles(c)
  BY <1>10 DEF ReadRoles
<1>11. CASE Disconnect(c)
  BY <1>11 DEF Disconnect
<1> QED
  BY <1>1, <1>2, <1>3, <1>4, <1>5, <1>6, <1>7, <1>8, <1>9, <1>10, <1>11

LEMMA Kinds ==
  ASSUME Shapes, [Next]_vars
  PROVE  \/ Still
         \/ \E c \in Conn : Quiet(c) \/ Changes(c)
         \/ BindUdp \/ BindOutbound \/ BindInbound
<1>1. CASE UNCHANGED vars \/ ExpireToken
  BY <1>1 DEF Still, ExpireToken, vars, identity, stored, maps, udp, history
<1>2. ASSUME NEW c \in Conn, ListRealms(c)
      PROVE  Still
  BY <1>2 DEF Still, ListRealms, identity, maps, udp, history
<1> QED
  BY <1>1, <1>2, QuietSteps DEF Next, Session, Changes

LEMMA ShapesStep ==
  ASSUME Shapes, KeysAreOwn, [Next]_vars
  PROVE  Shapes'
<1> USE DEF Shapes, Goes
<1>1. CASE Still
  BY <1>1 DEF Still, identity, udp, history
<1>2. ASSUME NEW c \in Conn, Quiet(c)
      PROVE  Shapes'
  BY <1>2 DEF Quiet, Others, udp, history
<1>3. ASSUME NEW c \in Conn, Changes(c)
      PROVE  Shapes'
  <2> USE <1>3 DEF identity, stored, maps, udp, history, Phases, Early, HasMaps, HasLease
  <2>1. CASE SelectCharacter(c)
    BY <2>1 DEF SelectCharacter
  <2>2. CASE connect(c)
    BY <2>2 DEF connect
  <2>3. CASE EnterMaps(c)
    BY <2>3 DEF EnterMaps, InMaps
  <2>4. CASE Announce(c)
    BY <2>4 DEF Announce
  <2>5. CASE LeaveSessions(c)
    BY <2>5 DEF LeaveSessions
  <2>6. CASE LeaveRemote(c)
    BY <2>6 DEF LeaveRemote, Without
  <2>7. CASE LeaveMaps(c)
    BY <2>7 DEF LeaveMaps
  <2>8. CASE release(c)
    BY <2>8 DEF release
  <2>9. CASE disconnect(c)
    BY <2>9 DEF disconnect
  <2> QED
    BY <2>1, <2>2, <2>3, <2>4, <2>5, <2>6, <2>7, <2>8, <2>9 DEF Changes
<1> USE DEF identity, udp, history
<1>4. CASE BindUdp
  BY <1>4 DEF BindUdp, KeysAreOwn, Under
<1>5. CASE BindOutbound
  BY <1>5 DEF BindOutbound, With
<1>6. CASE BindInbound
  BY <1>6 DEF BindInbound, With
<1> QED
  BY <1>1, <1>2, <1>3, <1>4, <1>5, <1>6, Kinds
----------------------------------------------------------------------------
(* Who has met whom.                                                       *)

LEMMA MetStep ==
  ASSUME Shapes, MetEachOther, [Next]_vars
  PROVE  MetEachOther'
<1> USE DEF MetEachOther
<1>1. CASE Still \/ BindUdp \/ BindOutbound \/ BindInbound
  BY <1>1 DEF Still, BindUdp, BindOutbound, BindInbound, history
<1>2. ASSUME NEW c \in Conn, Quiet(c)
      PROVE  MetEachOther'
  <2>1. /\ met' = met
        /\ \A d \in Conn \ {c} : phase'[d] = phase[d]
        /\ phase[c] \notin HasMaps => phase'[c] \notin HasMaps
        /\ phase[c] \notin Early \cup {"presence", "maps"} =>
              phase'[c] \notin Early \cup {"presence", "maps"}
    BY <1>2 DEF Quiet, Others, history, HasMaps, Early
  <2> QED
    BY <2>1 DEF HasMaps, Shapes
<1>3. ASSUME NEW c \in Conn, EnterMaps(c)
      PROVE  MetEachOther'
  BY <1>3 DEF EnterMaps, Goes, InMaps, HasMaps, Early, Shapes
<1>4. ASSUME NEW c \in Conn, Changes(c), ~EnterMaps(c)
      PROVE  MetEachOther'
  <2>1. /\ met' = met
        /\ phase[c] # phase'[c]
        /\ \A d \in Conn \ {c} : phase'[d] = phase[d]
        /\ phase[c] \notin HasMaps => phase'[c] \notin HasMaps
        /\ phase[c] \notin Early \cup {"presence", "maps"} =>
              phase'[c] \notin Early \cup {"presence", "maps"}
    <3> USE DEF Shapes, Goes, history, HasMaps, Early
    <3>1. CASE SelectCharacter(c) \/ connect(c)
      BY <3>1 DEF SelectCharacter, connect
    <3>2. CASE Announce(c) \/ LeaveSessions(c) \/ LeaveRemote(c) \/ LeaveMaps(c)
      BY <3>2 DEF Announce, LeaveSessions, LeaveRemote, LeaveMaps
    <3>3. CASE release(c) \/ disconnect(c)
      BY <3>3 DEF release, disconnect
    <3> QED
      BY <1>4, <3>1, <3>2, <3>3 DEF Changes
  <2> QED
    BY <2>1 DEF HasMaps, Shapes
<1> QED
  BY <1>1, <1>2, <1>3, <1>4, Kinds

\* Who was met is past its selection, and so are those who are in the maps.
LEMMA MetStay ==
  ASSUME Shapes, MetEachOther, [Next]_vars, NEW c \in Conn, phase[c] \notin Early
  PROVE  /\ SameSelf(c)
         /\ \A d \in met[c] : SameSelf(d)
         /\ phase[c] \in HasMaps => met[c] \subseteq met'[c]
<1> USE DEF Shapes, MetEachOther, SameSelf
<1>1. CASE Still \/ BindUdp \/ BindOutbound \/ BindInbound
  BY <1>1 DEF Still, BindUdp, BindOutbound, BindInbound, identity, history
<1>2. ASSUME NEW d \in Conn, Quiet(d)
      PROVE  \A e \in Conn : phase[e] \notin Early => SameSelf(e) /\ met'[e] = met[e]
  BY <1>2 DEF Quiet, Others, history
<1>3. ASSUME NEW d \in Conn, Changes(d)
      PROVE  \A e \in Conn : phase[e] \notin Early =>
                SameSelf(e) /\ (phase[e] \in HasMaps => met[e] \subseteq met'[e])
  <2> USE DEF identity, history, Early
  <2>0. CASE SelectCharacter(d)
    BY <2>0 DEF SelectCharacter
  <2>1. CASE connect(d) \/ EnterMaps(d)
    BY <2>1 DEF connect, EnterMaps, HasMaps
  <2>2. CASE Announce(d) \/ LeaveSessions(d) \/ LeaveRemote(d) \/ LeaveMaps(d)
    BY <2>2 DEF Announce, LeaveSessions, LeaveRemote, LeaveMaps
  <2>3. CASE release(d) \/ disconnect(d)
    BY <2>3 DEF release, disconnect
  <2> QED
    BY <1>3, <2>0, <2>1, <2>2, <2>3 DEF Changes
<1> QED
  BY <1>1, <1>2, <1>3, Kinds
----------------------------------------------------------------------------
(* Entries are under the keys of their connections.                        *)

\* In a step that moves nobody out of where it holds something, entries stay.
LEMMA KeysStay ==
  ASSUME KeysAreOwn, UNCHANGED <<lease, maps, token_to_entity, inbound_routes>>,
         presence' \subseteq presence,
         \A d \in Conn : phase[d] \notin Early => SameSelf(d),
         \A d \in Conn : phase'[d] = phase[d] \/ phase[d] \in Early \/
                         <<phase[d], phase'[d]>> \in
             {<<"presence", "failed">>, <<"roles", "failed">>, <<"playing", "failed">>,
              <<"roles", "announce">>, <<"playing", "leaveUdp">>, <<"leaveRemote", "leaveMaps">>}
  PROVE  KeysAreOwn'
<1> USE DEF KeysAreOwn, SameSelf, maps, Early
<1>1. Under(account_entities, account, HasMaps)' /\ Under(character_entities, character, HasMaps)'
  BY DEF Under, HasMaps
<1>2. Under(token_to_entity, token, HasRoutes)'
  BY DEF Under, HasRoutes
<1>3. Under(lease, character, HasLease)'
  BY DEF Under, HasLease, HasMaps
<1>4. In(entities, HasMaps)' /\ In(presence, HasPresence)'
  BY DEF In, HasMaps, HasPresence
<1>5. In(sessions, HasRoutes)' /\ In(inbound_routes, HasRoutes)'
  BY DEF In, HasRoutes
<1> QED
  BY <1>1, <1>2, <1>3, <1>4, <1>5

LEMMA KeysStep ==
  ASSUME Shapes, MetEachOther, KeysAreOwn, [Next]_vars
  PROVE  KeysAreOwn'
<1>0. \A d \in Conn : phase[d] \notin Early => SameSelf(d)
  BY MetStay
<1>1. CASE Still
  BY <1>0, <1>1, KeysStay DEF Still, udp
<1>2. CASE BindUdp \/ BindOutbound \/ BindInbound
  <2>1. UNCHANGED <<phase, lease, maps, token_to_entity, inbound_routes, presence>>
    BY <1>2 DEF BindUdp, BindOutbound, BindInbound, stored
  <2> QED
    BY <1>0, <2>1, KeysStay
<1>3. ASSUME NEW c \in Conn, Quiet(c)
      PROVE  KeysAreOwn'
  BY <1>0, <1>3, KeysStay DEF Quiet, Others, udp
<1>4. ASSUME NEW c \in Conn, Changes(c)
      PROVE  KeysAreOwn'
  <2> USE <1>0 DEF KeysAreOwn, SameSelf, Shapes, Goes, Early
  <2>0. phase[c] \notin Early => SameSelf(c)
    OBVIOUS
  <2>1. CASE SelectCharacter(c)
    <3>1. /\ UNCHANGED <<account, token, presence, maps, udp>>
          /\ phase[c] = "lobby" /\ phase' = [phase EXCEPT ![c] = "presence"]
      BY <2>1 DEF SelectCharacter
    <3>2. PICK ch : /\ lease' = (IF open THEN With(lease, ch, c) ELSE lease)
                    /\ character' = [character EXCEPT ![c] = ch]
      BY <2>1 DEF SelectCharacter
    <3>3. Under(lease, character, HasLease)'
      BY <3>1, <3>2 DEF Under, HasLease, HasMaps, With
    <3> QED
      BY <3>1, <3>2, <3>3 DEF Under, In, HasMaps, HasRoutes, HasPresence, maps, udp
  <2>2. CASE connect(c)
    BY <2>2 DEF connect, Under, In, HasMaps, HasRoutes, HasPresence, HasLease, maps, udp, identity
  <2>3. CASE EnterMaps(c)
    <3>1. /\ UNCHANGED <<identity, lease, presence, sessions, udp>>
          /\ phase[c] = "maps" /\ phase' = [phase EXCEPT ![c] = "roles"]
      BY <2>3 DEF EnterMaps, stored
    <3>2. Under(account_entities, account, HasMaps)'
      BY <2>3, <3>1 DEF EnterMaps, Under, HasMaps, With, identity
    <3>3. Under(character_entities, character, HasMaps)'
      BY <2>3, <3>1 DEF EnterMaps, Under, HasMaps, With, identity
    <3>4. In(entities, HasMaps)'
      BY <2>3, <3>1 DEF EnterMaps, In, HasMaps
    <3> QED
      BY <3>1, <3>2, <3>3, <3>4
         DEF Under, In, HasMaps, HasRoutes, HasPresence, HasLease, udp, identity
  <2>4. CASE Announce(c)
    <3>1. /\ UNCHANGED <<identity, lease, presence, entities, character_entities, account_entities>>
          /\ phase[c] = "announce" /\ phase' = [phase EXCEPT ![c] = "playing"]
      BY <2>4 DEF Announce, stored
    <3>2. Under(token_to_entity, token, HasRoutes)'
      BY <2>4, <3>1 DEF Announce, Under, HasRoutes, With, identity
    <3>3. In(sessions, HasRoutes)' /\ In(inbound_routes, HasRoutes)'
      BY <2>4, <3>1 DEF Announce, In, HasRoutes
    <3> QED
      BY <3>1, <3>2, <3>3 DEF Under, In, HasMaps, HasPresence, HasLease, identity
  <2>5. CASE LeaveSessions(c)
    <3>1. /\ UNCHANGED <<identity, lease, presence, entities, character_entities, account_entities>>
          /\ phase[c] = "leaveUdp" /\ phase' = [phase EXCEPT ![c] = "leaveRemote"]
      BY <2>5 DEF LeaveSessions, stored
    <3>2. Under(token_to_entity, token, HasRoutes)'
      BY <2>5, <3>1 DEF LeaveSessions, Under, HasRoutes, Without, identity
    <3>3. In(sessions, HasRoutes)' /\ In(inbound_routes, HasRoutes)'
      BY <2>5, <3>1 DEF LeaveSessions, In, HasRoutes
    <3> QED
      BY <3>1, <3>2, <3>3 DEF Under, In, HasMaps, HasPresence, HasLease, identity
  <2>6. CASE LeaveRemote(c)
    <3>1. /\ UNCHANGED <<lease, maps, token_to_entity, inbound_routes, presence>>
          /\ phase[c] = "leaveRemote" /\ phase' = [phase EXCEPT ![c] = "leaveMaps"]
      BY <2>6 DEF LeaveRemote, stored
    <3> QED
      BY <3>1, KeysStay
  <2>7. CASE LeaveMaps(c)
    <3>1. /\ UNCHANGED <<identity, lease, presence, sessions, udp>>
          /\ phase[c] = "leaveMaps" /\ phase' = [phase EXCEPT ![c] = "leaveLease"]
      BY <2>7 DEF LeaveMaps, stored
    <3>2. Under(account_entities, account, HasMaps)'
      BY <2>7, <3>1 DEF LeaveMaps, Under, HasMaps, Without, identity
    <3>3. Under(character_entities, character, HasMaps)'
      BY <2>7, <3>1 DEF LeaveMaps, Under, HasMaps, Without, identity
    <3>4. In(entities, HasMaps)'
      BY <2>7, <3>1 DEF LeaveMaps, In, HasMaps
    <3> QED
      BY <3>1, <3>2, <3>3, <3>4
         DEF Under, In, HasMaps, HasRoutes, HasPresence, HasLease, udp, identity
  <2>8. CASE release(c)
    <3>1. /\ UNCHANGED <<identity, presence, maps, udp>>
          /\ phase[c] = "leaveLease" /\ phase' = [phase EXCEPT ![c] = "leavePresence"]
          /\ lease' = Without(lease, character[c])
      BY <2>8 DEF release
    <3>2. Under(lease, character, HasLease)'
      BY <3>1 DEF Under, HasLease, HasMaps, Without, identity
    <3> QED
      BY <3>1, <3>2 DEF Under, In, HasMaps, HasRoutes, HasPresence, maps, udp, identity
  <2>9. CASE disconnect(c)
    <3>1. /\ UNCHANGED <<identity, lease, maps, udp>>
          /\ phase[c] = "leavePresence" /\ phase' = [phase EXCEPT ![c] = "left"]
          /\ presence' = presence \ {c}
      BY <2>9 DEF disconnect
    <3> QED
      BY <3>1 DEF Under, In, HasMaps, HasRoutes, HasPresence, HasLease, maps, udp, identity
  <2> QED
    BY <1>4, <2>1, <2>2, <2>3, <2>4, <2>5, <2>6, <2>7, <2>8, <2>9 DEF Changes
<1> QED
  BY <1>1, <1>2, <1>3, <1>4, Kinds
----------------------------------------------------------------------------
(* Who plays is found.                                                     *)

LEMMA LeasesStep ==
  ASSUME Shapes, MetEachOther, LeasesHeld, [Next]_vars
  PROVE  LeasesHeld'
<1> USE DEF LeasesHeld, Maps
<1>0. \A d \in Conn : phase[d] \notin Early => SameSelf(d)
  BY MetStay
<1>1. CASE /\ UNCHANGED <<open, lease>>
           /\ \A d \in Conn : phase'[d] \in HasLease => phase[d] \in HasLease
  BY <1>0, <1>1 DEF SameSelf, HasLease, HasMaps, Early
<1>2. CASE Still \/ BindUdp \/ BindOutbound \/ BindInbound
  BY <1>1, <1>2 DEF Still, BindUdp, BindOutbound, BindInbound, stored
<1>3. ASSUME NEW c \in Conn, Quiet(c)
      PROVE  LeasesHeld'
  BY <1>1, <1>3 DEF Quiet, Others, HasLease, HasMaps, Early
<1>4. ASSUME NEW c \in Conn, Changes(c)
      PROVE  LeasesHeld'
  <2> USE DEF Shapes, Goes, stored, identity
  <2>1. CASE SelectCharacter(c)
    <3>1. /\ open' = open
          /\ phase[c] = "lobby" /\ phase' = [phase EXCEPT ![c] = "presence"]
      BY <2>1 DEF SelectCharacter
    <3>2. PICK ch : /\ open => ch \notin DOMAIN lease
                    /\ lease' = (IF open THEN With(lease, ch, c) ELSE lease)
                    /\ character' = [character EXCEPT ![c] = ch]
      BY <2>1 DEF SelectCharacter
    <3> QED
      BY <3>1, <3>2 DEF HasLease, HasMaps, With
  <2>2. CASE connect(c) \/ EnterMaps(c) \/ Announce(c)
    BY <1>1, <2>2 DEF connect, EnterMaps, Announce, HasLease, HasMaps
  <2>3. CASE LeaveSessions(c) \/ LeaveRemote(c) \/ LeaveMaps(c) \/ disconnect(c)
    BY <1>1, <2>3 DEF LeaveSessions, LeaveRemote, LeaveMaps, disconnect, HasLease, HasMaps
  <2>4. CASE release(c)
    <3>1. /\ UNCHANGED <<open, character>>
          /\ phase[c] = "leaveLease" /\ phase' = [phase EXCEPT ![c] = "leavePresence"]
          /\ lease' = Without(lease, character[c])
      BY <2>4 DEF release
    <3> QED
      BY <3>1 DEF HasLease, HasMaps, Without
  <2> QED
    BY <1>4, <2>1, <2>2, <2>3, <2>4 DEF Changes
<1> QED
  BY <1>2, <1>3, <1>4, Kinds

\* Two in the maps at a time have met; in an open realm their characters differ.
LEMMA Neighbours ==
  ASSUME Shapes, MetEachOther, LeasesHeld,
         NEW c \in Conn, NEW d \in Conn, c # d, phase[c] \in HasMaps, phase[d] \in HasMaps
  PROVE  /\ d \in met[c] /\ c \in met[d]
         /\ Apart(c, account) => account[d] # account[c]
         /\ Apart(c, token) => token[d] # token[c]
         /\ open \/ Apart(c, character) => character[d] # character[c]
<1>1. d \in met[c] /\ c \in met[d]
  BY DEF MetEachOther
<1>2. open => character[d] # character[c]
  BY DEF LeasesHeld, Maps, HasLease
<1> QED
  BY <1>1, <1>2 DEF Apart

LEMMA ApartStays ==
  ASSUME Shapes, MetEachOther, [Next]_vars, NEW c \in Conn, phase[c] \in HasMaps
  PROVE  /\ Apart(c, account)' => Apart(c, account)
         /\ Apart(c, token)' => Apart(c, token)
         /\ Apart(c, character)' => Apart(c, character)
<1>1. /\ SameSelf(c) /\ met[c] \subseteq met'[c]
      /\ \A d \in met[c] : SameSelf(d)
  BY MetStay DEF HasMaps, Early
<1> QED
  BY <1>1 DEF Apart, SameSelf

LEMMA FoundStep ==
  ASSUME Shapes, MetEachOther, LeasesHeld, FoundAll, [Next]_vars,
         MetEachOther', LeasesHeld'
  PROVE  FoundAll'
<1>0. \A d \in Conn : phase[d] \notin Early => SameSelf(d)
  BY MetStay
<1>a. ASSUME UNCHANGED <<open, account_entities, character_entities>>,
             NEW c \in Conn, phase[c] \in HasMaps
      PROVE  /\ Apart(c, account)' => Maps(account_entities, account[c], c)'
             /\ open' \/ Apart(c, character)' => Maps(character_entities, character[c], c)'
  BY <1>0, <1>a, ApartStays DEF FoundAll, Maps, SameSelf, HasMaps, Early
<1>b. ASSUME UNCHANGED token_to_entity, NEW c \in Conn, phase[c] \in HasRoutes
      PROVE  Apart(c, token)' => Maps(token_to_entity, token[c], c)'
  BY <1>0, <1>b, ApartStays DEF FoundAll, Maps, SameSelf, HasMaps, HasRoutes, Early
<1>1. CASE /\ UNCHANGED <<open, account_entities, character_entities, token_to_entity>>
           /\ \A c \in Conn : phase'[c] \in HasMaps => phase[c] \in HasMaps
           /\ \A c \in Conn : phase'[c] \in HasRoutes => phase[c] \in HasRoutes
  BY <1>1, <1>a, <1>b DEF FoundAll
<1>2. CASE Still \/ BindUdp \/ BindOutbound \/ BindInbound
  BY <1>1, <1>2 DEF Still, BindUdp, BindOutbound, BindInbound, stored, maps, udp
<1>3. ASSUME NEW c \in Conn, Quiet(c)
      PROVE  FoundAll'
  BY <1>1, <1>3 DEF Quiet, Others, maps, udp, HasMaps, HasRoutes, Early
<1>4. ASSUME NEW c \in Conn, Changes(c)
      PROVE  FoundAll'
  <2> USE DEF Shapes, Goes
  <2>1. CASE SelectCharacter(c) \/ connect(c)
    BY <1>1, <2>1 DEF SelectCharacter, connect, maps, udp, HasMaps, HasRoutes
  <2>2. CASE EnterMaps(c)
    <3>1. /\ UNCHANGED <<identity, open, token_to_entity>>
          /\ phase[c] = "maps" /\ phase' = [phase EXCEPT ![c] = "roles"]
          /\ account_entities' = With(account_entities, account[c], c)
          /\ character_entities' = With(character_entities, character[c], c)
      BY <2>2 DEF EnterMaps, stored, udp
    <3>2. ASSUME NEW d \in Conn, d # c, phase[d] \in HasMaps
          PROVE  /\ Apart(d, account)' => account[c] # account[d]
                 /\ open' \/ Apart(d, character)' => character[c] # character[d]
      <4>1. phase'[c] \in HasMaps /\ phase'[d] \in HasMaps
        BY <3>1, <3>2 DEF HasMaps
      <4>2. c \in met'[d]
        BY <3>2, <4>1 DEF MetEachOther
      <4>3. open' => character[c] # character[d]
        BY <3>1, <3>2, <4>1 DEF LeasesHeld, Maps, HasLease, identity
      <4> QED
        BY <3>1, <4>2, <4>3 DEF Apart, identity
    <3>3. ASSUME NEW d \in Conn, phase'[d] \in HasMaps
          PROVE  /\ Apart(d, account)' => Maps(account_entities, account[d], d)'
                 /\ open' \/ Apart(d, character)' => Maps(character_entities, character[d], d)'
      <4>1. CASE d = c
        BY <3>1, <4>1 DEF Maps, With, identity
      <4>2. CASE d # c
        <5>1. phase[d] \in HasMaps
          BY <3>1, <3>3, <4>2
        <5>2. /\ Apart(d, account)' => Maps(account_entities, account[d], d)
              /\ open' \/ Apart(d, character)' => Maps(character_entities, character[d], d)
          BY <3>1, <5>1, ApartStays DEF FoundAll
        <5> QED
          BY <3>1, <3>2, <4>2, <5>1, <5>2 DEF Maps, With, identity
      <4> QED
        BY <4>1, <4>2
    <3>4. \A d \in Conn : phase'[d] \in HasRoutes => phase[d] \in HasRoutes
      BY <3>1 DEF HasRoutes
    <3> QED
      BY <3>1, <3>3, <3>4, <1>b DEF FoundAll
  <2>3. CASE Announce(c)
    <3>1. /\ UNCHANGED <<identity, open, character_entities, account_entities>>
          /\ phase[c] = "announce" /\ phase' = [phase EXCEPT ![c] = "playing"]
          /\ token_to_entity' = With(token_to_entity, token[c], c)
      BY <2>3 DEF Announce, stored
    <3>2. ASSUME NEW d \in Conn, phase'[d] \in HasRoutes
          PROVE  Apart(d, token)' => Maps(token_to_entity, token[d], d)'
      <4>1. CASE d = c
        BY <3>1, <4>1 DEF Maps, With, identity
      <4>2. CASE d # c
        <5>1. phase[d] \in HasRoutes /\ phase[d] \in HasMaps /\ phase[c] \in HasMaps
          BY <3>1, <3>2, <4>2 DEF HasRoutes, HasMaps
        <5>2. Apart(d, token)' => Maps(token_to_entity, token[d], d) /\ token[c] # token[d]
          BY <5>1, <4>2, ApartStays, Neighbours DEF FoundAll
        <5> QED
          BY <3>1, <5>2 DEF Maps, With, identity
      <4> QED
        BY <4>1, <4>2
    <3>3. \A d \in Conn : phase'[d] \in HasMaps => phase[d] \in HasMaps
      BY <3>1 DEF HasMaps
    <3> QED
      BY <3>1, <3>2, <3>3, <1>a DEF FoundAll
  <2>4. CASE LeaveSessions(c)
    <3>1. /\ UNCHANGED <<identity, open, character_entities, account_entities>>
          /\ phase[c] = "leaveUdp" /\ phase' = [phase EXCEPT ![c] = "leaveRemote"]
          /\ token_to_entity' = Without(token_to_entity, token[c])
      BY <2>4 DEF LeaveSessions, stored
    <3>2. ASSUME NEW d \in Conn, phase'[d] \in HasRoutes
          PROVE  Apart(d, token)' => Maps(token_to_entity, token[d], d)'
      <4>1. phase[d] \in HasRoutes /\ phase[d] \in HasMaps /\ phase[c] \in HasMaps /\ d # c
        BY <3>1, <3>2 DEF HasRoutes, HasMaps
      <4>2. Apart(d, token)' => Maps(token_to_entity, token[d], d) /\ token[c] # token[d]
        BY <4>1, ApartStays, Neighbours DEF FoundAll
      <4> QED
        BY <3>1, <4>2 DEF Maps, Without, identity
    <3>3. \A d \in Conn : phase'[d] \in HasMaps => phase[d] \in HasMaps
      BY <3>1 DEF HasMaps
    <3> QED
      BY <3>1, <3>2, <3>3, <1>a DEF FoundAll
  <2>5. CASE LeaveRemote(c) \/ release(c) \/ disconnect(c)
    BY <1>1, <2>5 DEF LeaveRemote, release, disconnect, stored, maps, udp, HasMaps, HasRoutes
  <2>6. CASE LeaveMaps(c)
    <3>1. /\ UNCHANGED <<identity, open, token_to_entity>>
          /\ phase[c] = "leaveMaps" /\ phase' = [phase EXCEPT ![c] = "leaveLease"]
          /\ account_entities' = Without(account_entities, account[c])
          /\ character_entities' = Without(character_entities, character[c])
      BY <2>6 DEF LeaveMaps, stored, udp
    <3>2. ASSUME NEW d \in Conn, phase'[d] \in HasMaps
          PROVE  /\ Apart(d, account)' => Maps(account_entities, account[d], d)'
                 /\ open' \/ Apart(d, character)' => Maps(character_entities, character[d], d)'
      <4>1. phase[d] \in HasMaps /\ phase[c] \in HasMaps /\ d # c
        BY <3>1, <3>2 DEF HasMaps
      <4>2. /\ Apart(d, account)' => /\ Maps(account_entities, account[d], d)
                                     /\ account[c] # account[d]
            /\ open' \/ Apart(d, character)' => /\ Maps(character_entities, character[d], d)
                                                /\ character[c] # character[d]
        BY <3>1, <4>1, ApartStays, Neighbours DEF FoundAll
      <4> QED
        BY <3>1, <4>2 DEF Maps, Without, identity
    <3>3. \A d \in Conn : phase'[d] \in HasRoutes => phase[d] \in HasRoutes
      BY <3>1 DEF HasRoutes
    <3> QED
      BY <3>1, <3>2, <3>3, <1>b DEF FoundAll
  <2> QED
    BY <1>4, <2>1, <2>2, <2>3, <2>4, <2>5, <2>6 DEF Changes
<1> QED
  BY <1>2, <1>3, <1>4, Kinds
----------------------------------------------------------------------------
(* Who is heard.                                                           *)

\* A step that leaves the UDP maps alone, and takes nobody back from where it has
\* played, or out of its leave.
LEMMA UdpStays ==
  ASSUME Shapes, Addressed, Spoken, Forgotten,
         UNCHANGED <<remote_by_entity, entity_by_remote, binding, spoke, raced>>,
         \A c \in Conn : /\ phase[c] \in Reachable => phase'[c] \in Reachable
                         /\ phase'[c] \in Parted <=> phase[c] \in Parted
  PROVE  Addressed' /\ Spoken' /\ Forgotten'
<1>1. Addressed'
  BY DEF Addressed, Shapes
<1>2. ASSUME NEW c \in Conn, phase'[c] \in Reachable, phase[c] \notin Reachable
      PROVE  /\ c \notin DOMAIN remote_by_entity
             /\ \A r \in Remote : c \notin spoke[r].all /\ ~HalfBound(c, r)
  BY <1>2 DEF Addressed, Shapes, HalfBound, Reachable, Parted
<1>3. Spoken'
  BY <1>2 DEF Spoken, HalfBound, Maps
<1>4. Forgotten'
  BY DEF Forgotten, BoundFrom, Range
<1> QED
  BY <1>1, <1>3, <1>4

LEMMA AddressesStep ==
  ASSUME Shapes, Shapes', KeysAreOwn, Addressed, Spoken, Forgotten, [Next]_vars
  PROVE  Addressed' /\ Spoken' /\ Forgotten'
<1> USE DEF Shapes
<1>1. CASE Still
  BY <1>1, UdpStays DEF Still, udp, history
<1>2. ASSUME NEW c \in Conn, Quiet(c)
      PROVE  Addressed' /\ Spoken' /\ Forgotten'
  BY <1>2, UdpStays DEF Quiet, Others, udp, history, Reachable, Parted, Early
<1>3. ASSUME NEW c \in Conn, Changes(c), ~LeaveRemote(c)
      PROVE  Addressed' /\ Spoken' /\ Forgotten'
  <2> USE DEF Goes, udp, history, Reachable, Parted
  <2>1. CASE SelectCharacter(c) \/ connect(c) \/ EnterMaps(c)
    BY <2>1, UdpStays DEF SelectCharacter, connect, EnterMaps
  <2>2. CASE Announce(c) \/ LeaveSessions(c) \/ LeaveMaps(c)
    BY <2>2, UdpStays DEF Announce, LeaveSessions, LeaveMaps
  <2>3. CASE release(c) \/ disconnect(c)
    BY <2>3, UdpStays DEF release, disconnect
  <2> QED
    BY <1>3, <2>1, <2>2, <2>3 DEF Changes
<1>4. ASSUME NEW c \in Conn, LeaveRemote(c)
      PROVE  Addressed' /\ Spoken' /\ Forgotten'
  <2>1. /\ phase[c] = "leaveRemote" /\ phase' = [phase EXCEPT ![c] = "leaveMaps"]
        /\ remote_by_entity' = Without(remote_by_entity, c)
        /\ entity_by_remote' = IF c \notin DOMAIN remote_by_entity THEN entity_by_remote
                               ELSE Without(entity_by_remote, remote_by_entity[c])
        /\ raced' = IF binding # None /\ binding.to = c THEN raced \cup {c} ELSE raced
        /\ UNCHANGED <<binding, spoke>>
    BY <1>4 DEF LeaveRemote, Goes
  <2>2. /\ \A d \in Conn :
              phase[d] \in Reachable \cup Parted <=> phase'[d] \in Reachable \cup Parted
        /\ \A d \in Conn : phase'[d] \in Reachable => phase[d] \in Reachable /\ d # c
        /\ \A d \in Conn : phase'[d] \in Parted => phase[d] \in Parted \/ d = c
    BY <2>1 DEF Reachable, Parted
  <2>3. /\ \A r \in DOMAIN entity_by_remote' : r \in DOMAIN entity_by_remote
        /\ \A r \in DOMAIN entity_by_remote' : entity_by_remote'[r] = entity_by_remote[r]
        /\ DOMAIN remote_by_entity' = DOMAIN remote_by_entity \ {c}
        /\ \A d \in DOMAIN remote_by_entity' : remote_by_entity'[d] = remote_by_entity[d]
    BY <2>1 DEF Without
  <2>4. Addressed'
    BY <2>1, <2>2, <2>3 DEF Addressed
  <2>5. Spoken'
    BY <2>1, <2>2, <2>3 DEF Spoken, HalfBound, Maps
  <2>6. ASSUME NEW d \in Conn, phase'[d] \in Parted, d \notin raced', d # c
        PROVE  /\ binding' # None => binding'.to # d
               /\ d \notin DOMAIN remote_by_entity'
               /\ \A r \in Remote : BoundFrom(d)' = {r} => d \notin Range(entity_by_remote)'
    <3>1. BoundFrom(d)' = BoundFrom(d) /\ d \notin raced /\ phase[d] \in Parted
      BY <2>1, <2>2, <2>6 DEF BoundFrom
    <3>2. Range(entity_by_remote)' \subseteq Range(entity_by_remote)
      BY <2>3 DEF Range
    <3> QED
      BY <2>1, <2>3, <3>1, <3>2 DEF Forgotten
  <2>7. ASSUME c \notin raced'
        PROVE  /\ binding' # None => binding'.to # c
               /\ c \notin DOMAIN remote_by_entity'
               /\ \A r \in Remote : BoundFrom(c)' = {r} => c \notin Range(entity_by_remote)'
    <3>1. binding # None => binding.to # c
      BY <2>1, <2>7
    <3>2. ASSUME NEW r \in Remote, BoundFrom(c) = {r}, NEW s \in DOMAIN entity_by_remote',
                 entity_by_remote'[s] = c
          PROVE  FALSE
      <4>1. s \in Remote /\ c \in spoke[s].all
        BY <2>3, <3>2 DEF Addressed
      <4>2. s = r
        BY <3>2, <4>1 DEF BoundFrom
      <4>3. phase[c] \in Reachable
        BY <2>1 DEF Reachable
      <4>4. c \in DOMAIN remote_by_entity /\ c \in spoke[remote_by_entity[c]].all
        BY <3>1, <4>1, <4>3 DEF Spoken, HalfBound
      <4>5. remote_by_entity[c] = r
        BY <3>2, <4>4 DEF BoundFrom
      <4> QED
        BY <2>1, <3>2, <4>2, <4>4, <4>5 DEF Without
    <3>3. BoundFrom(c)' = BoundFrom(c)
      BY <2>1 DEF BoundFrom
    <3> QED
      BY <2>1, <2>3, <3>1, <3>2, <3>3 DEF Range
  <2>8. Forgotten'
    BY <2>6, <2>7 DEF Forgotten
  <2> QED
    BY <2>4, <2>5, <2>8
<1>5. CASE BindUdp
  <2>1. PICK r \in Remote, t \in DOMAIN token_to_entity :
               binding' = [from |-> r, to |-> token_to_entity[t], at |-> "outbound"]
    BY <1>5 DEF BindUdp
  <2>2. /\ binding = None
        /\ UNCHANGED <<phase, remote_by_entity, entity_by_remote, spoke, raced>>
    BY <1>5 DEF BindUdp, history
  <2>3. token_to_entity[t] \in Conn /\ phase[token_to_entity[t]] \in Reachable \ Parted
    BY DEF KeysAreOwn, Under, HasRoutes, Reachable, Parted
  <2>4. binding' # None /\ binding'.to = token_to_entity[t] /\ binding'.at = "outbound"
    BY <2>1, ConstantsAssumption, <2>3
  <2>5. Addressed'
    BY <2>2, <2>3, <2>4 DEF Addressed
  <2>6. Spoken'
    BY <2>2, <2>4 DEF Spoken, HalfBound, Maps
  <2>7. Forgotten'
    BY <2>2, <2>3, <2>4 DEF Forgotten, BoundFrom, Range
  <2> QED
    BY <2>5, <2>6, <2>7
<1>6. CASE BindOutbound
  <2> DEFINE c == binding.to
             r == binding.from
  <2>1. /\ binding # None /\ binding.at = "outbound" /\ c \in Conn /\ r \in Remote
        /\ remote_by_entity' = With(remote_by_entity, c, r)
        /\ binding' = [binding EXCEPT !.at = "inbound"]
        /\ UNCHANGED <<phase, entity_by_remote, spoke, raced>>
    BY <1>6 DEF BindOutbound, history
  <2>2. /\ binding' # None /\ binding'.at = "inbound" /\ binding'.to = c /\ binding'.from = r
    BY <2>1, ConstantsAssumption
  <2>3. /\ DOMAIN remote_by_entity' = DOMAIN remote_by_entity \cup {c}
        /\ remote_by_entity'[c] = r
        /\ \A d \in DOMAIN remote_by_entity \ {c} : remote_by_entity'[d] = remote_by_entity[d]
    BY <2>1 DEF With
  <2> HIDE DEF c, r
  <2>4. phase[c] \in Reachable \cup Parted
    BY <2>1 DEF Addressed, c
  <2>5. Addressed'
    BY <2>1, <2>2, <2>3, <2>4 DEF Addressed
  <2>6. Spoken'
    BY <2>1, <2>2, <2>3 DEF Spoken, HalfBound, Maps
  <2>7. phase[c] \in Parted => c \in raced
    BY <2>1 DEF Forgotten, c
  <2>8. Forgotten'
    BY <2>1, <2>2, <2>3, <2>7 DEF Forgotten, BoundFrom, Range
  <2> QED
    BY <2>5, <2>6, <2>8
<1>7. CASE BindInbound
  <2> DEFINE c == binding.to
             r == binding.from
  <2>1. /\ binding # None /\ HalfBound(c, r) /\ c \in Conn /\ r \in Remote
        /\ entity_by_remote' = With(entity_by_remote, r, c)
        /\ spoke' = [spoke EXCEPT ![r] = [all |-> @.all \cup {c}, last |-> c]]
        /\ binding' = None
        /\ UNCHANGED <<phase, remote_by_entity, raced>>
    BY <1>7 DEF BindInbound, HalfBound, history
  <2>2. /\ DOMAIN entity_by_remote' = DOMAIN entity_by_remote \cup {r}
        /\ entity_by_remote'[r] = c
        /\ \A s \in DOMAIN entity_by_remote \ {r} : entity_by_remote'[s] = entity_by_remote[s]
    BY <2>1 DEF With
  <2>3. /\ spoke'[r].all = spoke[r].all \cup {c}
        /\ \A s \in Remote \ {r} : spoke'[s] = spoke[s]
    BY <2>1
  <2>4. phase[c] \in Reachable \cup Parted /\ (phase[c] \in Parted => c \in raced)
    BY <2>1 DEF Addressed, Forgotten
  <2>5. \A d \in Conn, s \in Remote : HalfBound(d, s) => d = c /\ s = r
    BY DEF HalfBound
  <2> HIDE DEF c, r
  <2>6. Addressed'
    BY <2>1, <2>2, <2>3, <2>4 DEF Addressed
  <2>7. ASSUME NEW d \in Conn, phase[d] \in Reachable
        PROVE  /\ d \in DOMAIN remote_by_entity => d \in spoke'[remote_by_entity[d]].all
               /\ \A s \in Remote : d \in spoke'[s].all => d \in DOMAIN remote_by_entity
    <3>1. d \in DOMAIN remote_by_entity =>
             \/ d \in spoke[remote_by_entity[d]].all
             \/ d = c /\ remote_by_entity[d] = r
      BY <2>5, <2>7 DEF Spoken
    <3>2. d = c => d \in DOMAIN remote_by_entity
      BY <2>1, <2>7 DEF Spoken, Maps
    <3> QED
      BY <2>1, <2>3, <2>7, <3>1, <3>2 DEF Spoken
  <2>8. Spoken'
    BY <2>1, <2>7 DEF Spoken, HalfBound
  <2>9. ASSUME NEW d \in Conn, phase[d] \in Parted, d \notin raced
        PROVE  \A s \in Remote : BoundFrom(d)' = {s} => d \notin Range(entity_by_remote)'
    <3>1. d # c /\ BoundFrom(d)' = BoundFrom(d)
      BY <2>3, <2>4, <2>9 DEF BoundFrom
    <3>2. ASSUME NEW s \in DOMAIN entity_by_remote', entity_by_remote'[s] = d
          PROVE  s \in DOMAIN entity_by_remote /\ entity_by_remote[s] = d
      BY <2>2, <3>1, <3>2
    <3>3. \A s \in Remote : BoundFrom(d) = {s} => d \notin Range(entity_by_remote)
      BY <2>9 DEF Forgotten
    <3>4. d \in Range(entity_by_remote)' => d \in Range(entity_by_remote)
      BY <3>2 DEF Range
    <3> QED
      BY <3>1, <3>3, <3>4
  <2>10. Forgotten'
    BY <2>1, <2>9 DEF Forgotten
  <2> QED
    BY <2>6, <2>8, <2>10
<1> QED
  BY <1>1, <1>2, <1>3, <1>4, <1>5, <1>6, <1>7, Kinds

\* A step that leaves the UDP maps alone, and brings nobody who has an address
\* into play.
LEMMA HeardStays ==
  ASSUME Shapes, Heard, UNCHANGED <<remote_by_entity, entity_by_remote, binding, spoke>>,
         Failed \subseteq Failed',
         \A c \in Conn : phase'[c] = "playing" /\ c \in DOMAIN remote_by_entity =>
            phase[c] = "playing" /\ met[c] \subseteq met'[c]
  PROVE  Heard'
<1> SUFFICES ASSUME NEW c \in Conn, phase'[c] = "playing", c \in DOMAIN remote_by_entity
             PROVE  /\ binding # None => binding.to \in {c} \cup met'[c] \cup Failed'
                    /\ HeardOr(c, remote_by_entity[c])'
  BY DEF Heard, Playing
<1>1. c \in Playing /\ met[c] \subseteq met'[c]
  BY DEF Playing
<1>2. HeardOr(c, remote_by_entity[c])
  BY <1>1 DEF Heard
<1>3. HeardOr(c, remote_by_entity[c])'
  BY <1>1, <1>2 DEF HeardOr, HalfBound, Maps
<1> QED
  BY <1>1, <1>3 DEF Heard

LEMMA HeardStep ==
  ASSUME Shapes, MetEachOther, KeysAreOwn, Addressed, Spoken, Heard, [Next]_vars
  PROVE  Heard'
<1> USE DEF Shapes
<1>1. CASE Still
  BY <1>1, HeardStays DEF Still, udp, history, Failed
<1>2. ASSUME NEW c \in Conn, Quiet(c)
      PROVE  Heard'
  BY <1>2, HeardStays DEF Quiet, Others, udp, history, Early, Failed
<1>3. ASSUME NEW c \in Conn, Changes(c), ~LeaveRemote(c)
      PROVE  Heard'
  <2> USE DEF Goes, udp, history, Failed
  <2>1. CASE SelectCharacter(c) \/ connect(c)
    BY <2>1, HeardStays DEF SelectCharacter, connect
  <2>2. CASE EnterMaps(c)
    BY <2>2, HeardStays DEF EnterMaps, InMaps
  <2>3. CASE Announce(c)
    BY <2>3, HeardStays DEF Announce, Addressed, Reachable, Parted
  <2>4. CASE LeaveSessions(c) \/ LeaveMaps(c)
    BY <2>4, HeardStays DEF LeaveSessions, LeaveMaps
  <2>5. CASE release(c) \/ disconnect(c)
    BY <2>5, HeardStays DEF release, disconnect
  <2> QED
    BY <1>3, <2>1, <2>2, <2>3, <2>4, <2>5 DEF Changes
<1>4. ASSUME NEW c \in Conn, LeaveRemote(c)
      PROVE  Heard'
  <2>1. /\ phase[c] = "leaveRemote" /\ phase' = [phase EXCEPT ![c] = "leaveMaps"]
        /\ remote_by_entity' = Without(remote_by_entity, c)
        /\ entity_by_remote' = IF c \notin DOMAIN remote_by_entity THEN entity_by_remote
                               ELSE Without(entity_by_remote, remote_by_entity[c])
        /\ UNCHANGED <<binding, spoke, met>>
    BY <1>4 DEF LeaveRemote, Goes
  <2>2. SUFFICES ASSUME NEW d \in Conn, phase'[d] = "playing", d \in DOMAIN remote_by_entity'
                 PROVE  /\ binding # None => binding.to \in {d} \cup met[d] \cup Failed'
                        /\ HeardOr(d, remote_by_entity[d])'
    BY <2>1 DEF Heard, Playing
  <2>3. /\ d # c /\ d \in Playing \cap DOMAIN remote_by_entity
        /\ remote_by_entity'[d] = remote_by_entity[d]
        /\ Failed' = Failed
    BY <2>1, <2>2 DEF Playing, Failed, Without
  <2>4. c \in met[d]
    BY <2>1, <2>3 DEF MetEachOther, HasMaps, Playing
  <2>r. PICK r \in Remote : r = remote_by_entity[d]
    BY <2>3
  <2>5. ASSUME c \in DOMAIN remote_by_entity, remote_by_entity[c] = r
        PROVE  c \in spoke[r].all \/ HalfBound(c, r)
    BY <2>1, <2>5 DEF Spoken, Reachable
  <2>6. ASSUME Maps(entity_by_remote, r, d), ~Maps(entity_by_remote, r, d)'
        PROVE  c \in DOMAIN remote_by_entity /\ remote_by_entity[c] = r
    BY <2>1, <2>6 DEF Maps, Without
  <2>7. HeardOr(d, r)
    BY <2>3, <2>r DEF Heard
  <2>8. HeardOr(d, r)'
    <3>1. CASE Maps(entity_by_remote, r, d) /\ ~Maps(entity_by_remote, r, d)'
      BY <2>1, <2>4, <2>5, <2>6, <3>1 DEF HeardOr, HalfBound
    <3>2. CASE Maps(entity_by_remote, r, d)'
      BY <3>2 DEF HeardOr
    <3>3. CASE ~Maps(entity_by_remote, r, d)
      BY <2>1, <2>3, <2>7, <3>3 DEF HeardOr, HalfBound
    <3> QED
      BY <3>1, <3>2, <3>3
  <2> QED
    BY <2>1, <2>3, <2>r, <2>8 DEF Heard
<1>5. CASE BindUdp
  <2>1. PICK r \in Remote, t \in DOMAIN token_to_entity :
               binding' = [from |-> r, to |-> token_to_entity[t], at |-> "outbound"]
    BY <1>5 DEF BindUdp
  <2>2. /\ binding = None
        /\ UNCHANGED <<phase, remote_by_entity, entity_by_remote, spoke, met>>
    BY <1>5 DEF BindUdp, history
  <2>3. ASSUME NEW c \in Playing
        PROVE  token_to_entity[t] \in {c} \cup met[c] \cup Failed
    BY DEF KeysAreOwn, Under, HasRoutes, HasMaps, MetEachOther, Playing, Failed
  <2> QED
    BY <2>1, <2>2, <2>3 DEF Heard, HeardOr, HalfBound, Maps, Playing, Failed
<1>6. CASE BindOutbound
  <2>0. PICK e \in Conn, s \in Remote : binding # None /\ e = binding.to /\ s = binding.from
    BY <1>6 DEF BindOutbound
  <2>1. /\ binding # None /\ binding.at = "outbound"
        /\ remote_by_entity' = With(remote_by_entity, e, s)
        /\ binding' = [binding EXCEPT !.at = "inbound"]
        /\ UNCHANGED <<phase, entity_by_remote, spoke, met>>
    BY <2>0, <1>6 DEF BindOutbound, history
  <2>2. /\ binding' # None /\ binding'.at = "inbound" /\ binding'.to = e /\ binding'.from = s
    BY <2>0, <2>1, ConstantsAssumption
  <2>3. /\ DOMAIN remote_by_entity' = DOMAIN remote_by_entity \cup {e}
        /\ remote_by_entity'[e] = s
        /\ \A d \in DOMAIN remote_by_entity \ {e} : remote_by_entity'[d] = remote_by_entity[d]
    BY <2>1 DEF With
  <2>4. \A d \in Conn, r \in Remote : ~HalfBound(d, r)
    BY <2>1 DEF HalfBound
  <2>5. \A d \in Playing \cap DOMAIN remote_by_entity : e \in {d} \cup met[d] \cup Failed
    BY <2>0 DEF Heard
  <2>6. HalfBound(e, s)'
    BY <2>2 DEF HalfBound
  <2>7. ASSUME NEW d \in Playing \cap DOMAIN remote_by_entity, d # e
        PROVE  HeardOr(d, remote_by_entity[d])'
    <3>1. HeardOr(d, remote_by_entity[d]) /\ remote_by_entity[d] \in Remote
      BY DEF Heard
    <3>2. remote_by_entity'[d] = remote_by_entity[d]
      BY <2>3, <2>7
    <3>3. PICK r \in Remote : r = remote_by_entity[d]
      BY <3>1
    <3>4. HeardOr(d, r)'
      <4>1. HeardOr(d, r)
        BY <3>1, <3>3
      <4>2. met[d] \cup Failed \subseteq Conn
        BY DEF Failed, Playing
      <4> QED
        BY <2>1, <2>4, <4>1, <4>2 DEF HeardOr, Maps, Failed
    <3> QED
      BY <3>2, <3>3, <3>4
  <2> QED
    BY <2>1, <2>2, <2>3, <2>5, <2>6, <2>7 DEF Heard, HeardOr, Playing, Failed
<1>7. CASE BindInbound
  <2>0. PICK e \in Conn, s \in Remote : binding # None /\ e = binding.to /\ s = binding.from
    BY <1>7 DEF BindInbound
  <2>1. /\ HalfBound(e, s)
        /\ entity_by_remote' = With(entity_by_remote, s, e)
        /\ spoke' = [spoke EXCEPT ![s] = [all |-> @.all \cup {e}, last |-> e]]
        /\ binding' = None
        /\ UNCHANGED <<phase, remote_by_entity, met>>
    BY <2>0, <1>7 DEF BindInbound, HalfBound, history
  <2>2. /\ s \in DOMAIN entity_by_remote' /\ entity_by_remote'[s] = e
        /\ \A r \in DOMAIN entity_by_remote \ {s} :
              r \in DOMAIN entity_by_remote' /\ entity_by_remote'[r] = entity_by_remote[r]
    BY <2>1 DEF With
  <2>3. /\ e \in spoke'[s].all
        /\ \A r \in Remote : spoke[r].all \subseteq spoke'[r].all
    BY <2>1
  <2>4. \A d \in Conn, r \in Remote : HalfBound(d, r) => d = e /\ r = s
    BY <2>0 DEF HalfBound
  <2>5. \A d \in Playing \cap DOMAIN remote_by_entity : e \in {d} \cup met[d] \cup Failed
    BY <2>0 DEF Heard
  <2>6. ASSUME NEW d \in Playing \cap DOMAIN remote_by_entity
        PROVE  HeardOr(d, remote_by_entity[d])'
    <3>1. HeardOr(d, remote_by_entity[d]) /\ remote_by_entity[d] \in Remote
      BY DEF Heard
    <3>2. PICK r \in Remote : r = remote_by_entity[d]
      BY <3>1
    <3> SUFFICES HeardOr(d, r)'
      BY <2>1, <3>2
    <3>0. Failed' = Failed /\ met' = met
      BY <2>1 DEF Failed
    <3>3. d \in Conn /\ phase[d] \in Reachable /\ met[d] \cup Failed \subseteq Conn
      BY DEF Playing, Failed, Reachable
    <3>4. CASE d = e
      <4>1. r = s
        BY <2>1, <3>2, <3>3, <3>4 DEF Spoken, Maps
      <4> QED
        BY <2>2, <3>4, <4>1 DEF HeardOr, Maps
    <3>5. CASE d # e
      <4>1. e \in met[d] \cup Failed
        BY <2>5, <3>5
      <4>2. HeardOr(d, r)
        BY <3>1, <3>2
      <4>3. CASE r = s
        <5>1. e \in spoke'[r].all
          BY <2>3, <4>3
        <5> QED
          BY <3>0, <4>1, <5>1 DEF HeardOr
      <4>4. CASE r # s
        <5>1. Maps(entity_by_remote, r, d) => Maps(entity_by_remote, r, d)'
          BY <2>2, <4>4 DEF Maps
        <5>2. \A x \in Conn : ~HalfBound(x, r)
          BY <2>4, <4>4
        <5> QED
          BY <2>3, <3>0, <3>3, <4>2, <5>1, <5>2 DEF HeardOr
      <4> QED
        BY <4>3, <4>4
    <3> QED
      BY <3>4, <3>5
  <2> QED
    BY <2>1, <2>6 DEF Heard, Playing
<1> QED
  BY <1>1, <1>2, <1>3, <1>4, <1>5, <1>6, <1>7, Kinds
----------------------------------------------------------------------------
(* The cap on characters.                                                  *)

\* Steps that name nobody and create nothing.
Nameless ==
    /\ UNCHANGED <<account, accounts, characters>>
    /\ \A t \in DOMAIN sessionKeys' : t \in DOMAIN sessionKeys /\ sessionKeys'[t] = sessionKeys[t]
    /\ \A d \in Conn : phase'[d] \in {"new", "creating"} => phase'[d] = phase[d]

\* Those that log a connection in, with an account that is there already or not.
LogsIn(c, a) ==
    /\ phase[c] = "new" /\ phase' = [phase EXCEPT ![c] = "realm"]
    /\ account' = [account EXCEPT ![c] = a] /\ a \in Account
    /\ accounts' = accounts \cup {a}
    /\ \A t \in DOMAIN sessionKeys' : sessionKeys'[t] \in accounts'
    /\ UNCHANGED characters

Creates(c) == CountExisting(c) \/ InsertCharacter(c) \/ SeedStats(c)

LEMMA Naming ==
  ASSUME Shapes, Named, [Next]_vars
  PROVE  \/ Nameless
         \/ \E c \in Conn : Creates(c) \/ \E a \in Account : LogsIn(c, a)
<1> USE DEF Shapes
<1>1. CASE UNCHANGED vars \/ ExpireToken \/ BindUdp \/ BindOutbound \/ BindInbound
  BY <1>1 DEF Nameless, vars, identity, stored, ExpireToken, BindUdp, BindOutbound, BindInbound,
              Without
<1>2. ASSUME NEW c \in Conn, register(c)
      PROVE  \E a \in Account : LogsIn(c, a)
  <2>1. PICK a \in Account \ accounts : accounts' = accounts \cup {a} /\ issue(c, a)
    BY <1>2 DEF register
  <2>2. LogsIn(c, a)
    BY <2>1 DEF issue, Authenticated, LogsIn, Goes, With, Named
  <2> QED
    BY <2>2
<1>3. ASSUME NEW c \in Conn, verify_credentials(c)
      PROVE  \E a \in Account : LogsIn(c, a)
  <2>1. PICK a \in accounts : issue(c, a) /\ UNCHANGED accounts
    BY <1>3 DEF verify_credentials
  <2>2. accounts \cup {a} = accounts /\ a \in Account
    BY DEF Named
  <2> QED
    BY <2>1, <2>2 DEF issue, Authenticated, LogsIn, Goes, With, Named
<1>4. ASSUME NEW c \in Conn, resume(c)
      PROVE  \E a \in Account : LogsIn(c, a)
  <2>1. PICK t \in DOMAIN sessionKeys :
               Authenticated(c, sessionKeys[t], t) /\ UNCHANGED <<accounts, sessionKeys, issued>>
    BY <1>4 DEF resume
  <2>2. accounts \cup {sessionKeys[t]} = accounts /\ sessionKeys[t] \in Account
    BY DEF Named
  <2> QED
    BY <2>1, <2>2 DEF Authenticated, LogsIn, Goes, Named
<1>5. ASSUME NEW c \in Conn, HangUp(c) \/ Fail(c) \/ ListRealms(c) \/ SelectRealm(c)
      PROVE  Nameless
  BY <1>5 DEF HangUp, Fail, ListRealms, SelectRealm, Nameless, Goes, identity, stored
<1>6. ASSUME NEW c \in Conn, SelectCharacter(c) \/ connect(c) \/ EnterMaps(c) \/ ReadRoles(c)
      PROVE  Nameless
  BY <1>6 DEF SelectCharacter, connect, EnterMaps, ReadRoles, Nameless, Goes, identity, stored
<1>7. ASSUME NEW c \in Conn, Announce(c) \/ Disconnect(c) \/ LeaveSessions(c) \/ LeaveRemote(c)
      PROVE  Nameless
  BY <1>7 DEF Announce, Disconnect, LeaveSessions, LeaveRemote, Nameless, Goes, identity, stored
<1>8. ASSUME NEW c \in Conn, LeaveMaps(c) \/ release(c) \/ disconnect(c)
      PROVE  Nameless
  BY <1>8 DEF LeaveMaps, release, disconnect, Nameless, Goes, identity, stored
<1> QED
  BY <1>1, <1>2, <1>3, <1>4, <1>5, <1>6, <1>7, <1>8 DEF Next, Session, Creates

\* A creation gives the account of its connection one row, in one of its steps.
LEMMA CreatesRow ==
  ASSUME Shapes, Named, NEW c \in Conn, Creates(c)
  PROVE  /\ Named'
         /\ UNCHANGED <<account, accounts, sessionKeys>>
         /\ \A d \in Conn \ {c} : phase'[d] = phase[d]
         /\ \/ CountExisting(c) /\ UNCHANGED characters
            \/ /\ SeedStats(c) /\ phase'[c] = "lobby"
               /\ \A a \in accounts : CharactersOf(a)' = CharactersOf(a)
            \/ /\ phase[c] = "creating" /\ phase'[c] = "seeding"
               /\ \E ch \in Nat :
                     /\ ch \notin DOMAIN characters
                     /\ \A a \in accounts : CharactersOf(a)' =
                           IF a = account[c] THEN CharactersOf(a) \cup {ch} ELSE CharactersOf(a)
<1> USE DEF Shapes, Goes
<1>1. PICK n \in Nat : characters \in [1 .. n -> Rows]
  BY DEF Named
<1>2. CASE CountExisting(c)
  BY <1>1, <1>2 DEF CountExisting, Named, Rows, identity, stored
<1>3. CASE SeedStats(c)
  <2>1. /\ phase[c] = "seeding" /\ phase' = [phase EXCEPT ![c] = "lobby"]
        /\ characters' = [characters EXCEPT ![character[c]].seeded = TRUE]
        /\ UNCHANGED <<account, accounts, sessionKeys>>
    BY <1>3 DEF SeedStats
  <2>2. /\ characters' \in [1 .. n -> Rows]
        /\ \A ch \in 1 .. n : characters'[ch].owner = characters[ch].owner
    <3>1. \A ch \in 1 .. n : /\ [characters[ch] EXCEPT !.seeded = TRUE] \in Rows
                            /\ [characters[ch] EXCEPT !.seeded = TRUE].owner = characters[ch].owner
      BY <1>1 DEF Rows
    <3>2. \A ch \in 1 .. n : characters'[ch] \in
              {characters[ch], [characters[ch] EXCEPT !.seeded = TRUE]}
      BY <1>1, <2>1
    <3>3. characters' = [ch \in 1 .. n |-> characters'[ch]]
      BY <1>1, <2>1
    <3>4. \A ch \in 1 .. n : /\ characters'[ch] \in Rows
                            /\ characters'[ch].owner = characters[ch].owner
      <4> HIDE <2>1
      <4> QED
        BY <1>1, <3>1, <3>2
    <3> QED
      BY <3>3, <3>4
  <2>3. Named'
    BY <1>1, <2>1, <2>2 DEF Named, Rows
  <2>4. \A a \in accounts : CharactersOf(a)' = CharactersOf(a)
    BY <1>1, <2>2 DEF CharactersOf
  <2> QED
    BY <1>3, <2>1, <2>3, <2>4
<1>4. CASE InsertCharacter(c)
  <2> DEFINE ch == n + 1
  <2>1. Cardinality(DOMAIN characters) = n
    BY <1>1, FS_Interval
  <2>2. /\ phase[c] = "creating" /\ phase' = [phase EXCEPT ![c] = "seeding"]
        /\ characters' = With(characters, ch, [owner |-> account[c], seeded |-> FALSE])
        /\ UNCHANGED <<account, accounts, sessionKeys>>
    BY <1>4, <2>1 DEF InsertCharacter
  <2>3. DOMAIN characters' = 1 .. n + 1 /\ ch \notin DOMAIN characters
    BY <1>1, <2>2 DEF With
  <2>4. /\ characters'[ch] = [owner |-> account[c], seeded |-> FALSE]
        /\ \A k \in 1 .. n : characters'[k] = characters[k]
    BY <1>1, <2>2 DEF With
  <2>5. [owner |-> account[c], seeded |-> FALSE] \in Rows
    BY DEF Rows, Named
  <2>6. characters' \in [1 .. n + 1 -> Rows]
    BY <1>1, <2>2, <2>3, <2>4, <2>5 DEF With
  <2>7. Named'
    <3>1. \E m \in Nat : characters' \in [1 .. m -> Rows']
      <4>1. Rows' = Rows /\ n + 1 \in Nat
        BY <2>2 DEF Rows
      <4> QED
        BY <2>6, <4>1
    <3> QED
      BY <2>2, <3>1 DEF Named
  <2>8. \A a \in accounts : CharactersOf(a)' =
           IF a = account[c] THEN CharactersOf(a) \cup {ch} ELSE CharactersOf(a)
    BY <1>1, <2>3, <2>4 DEF CharactersOf
  <2> QED
    BY <2>2, <2>3, <2>7, <2>8
<1> QED
  BY <1>2, <1>3, <1>4 DEF Creates

LEMMA NamedStep ==
  ASSUME Shapes, Named, [Next]_vars
  PROVE  Named'
<1>1. CASE Nameless
  BY <1>1 DEF Nameless, Named, Rows
<1>2. ASSUME NEW c \in Conn, NEW a \in Account, LogsIn(c, a)
      PROVE  Named'
  <2>1. \E n \in Nat : characters' \in [1 .. n -> Rows']
    BY <1>2 DEF LogsIn, Named, Rows
  <2> QED
    BY <1>2, <2>1 DEF LogsIn, Named, Shapes
<1> QED
  BY <1>1, <1>2, CreatesRow, Naming

LEMMA CapFinite ==
  ASSUME IsFiniteSet(Conn), Named, NEW a
  PROVE  /\ IsFiniteSet(CharactersOf(a)) /\ Cardinality(CharactersOf(a)) \in Nat
         /\ IsFiniteSet(ConnsOf(a)) /\ Cardinality(ConnsOf(a)) \in Nat
         /\ IsFiniteSet(Creating(a)) /\ Cardinality(Creating(a)) \in Nat
         /\ Cardinality(Creating(a)) <= Cardinality(ConnsOf(a))
<1>1. IsFiniteSet(DOMAIN characters)
  <2>1. PICK n \in Nat : DOMAIN characters = 1 .. n
    BY DEF Named
  <2>2. IsFiniteSet(1 .. n)
    <3> HIDE <2>1
    <3> QED
      BY FS_Interval, n \in Nat, 1 \in Int, n \in Int
  <2> QED
    BY <2>1, <2>2
<1>2. IsFiniteSet(CharactersOf(a))
  BY <1>1, FS_Subset DEF CharactersOf
<1>3. IsFiniteSet(ConnsOf(a))
  BY FS_Subset DEF ConnsOf
<1>4. Creating(a) \subseteq ConnsOf(a)
  BY DEF Creating
<1>5. IsFiniteSet(Creating(a)) /\ Cardinality(Creating(a)) <= Cardinality(ConnsOf(a))
  BY <1>3, <1>4, FS_Subset
<1> QED
  BY <1>2, <1>3, <1>5, FS_CardinalityType

LEMMA CapStep ==
  ASSUME IsFiniteSet(Conn), Shapes, Named, Named', CapKept, [Next]_vars
  PROVE  CapKept'
<1> USE DEF Shapes
<1>1. ASSUME NEW a \in accounts, CharactersOf(a)' = CharactersOf(a),
             ConnsOf(a) \subseteq ConnsOf(a)', Creating(a)' \subseteq Creating(a)
      PROVE  Cardinality(CharactersOf(a)') + Cardinality(Creating(a)') + 1
                <= MaxCharacters + Cardinality(ConnsOf(a)')
  <2>1. IsFiniteSet(ConnsOf(a)')
    BY FS_Subset DEF ConnsOf
  <2>2. Cardinality(ConnsOf(a)) <= Cardinality(ConnsOf(a)') /\ Cardinality(ConnsOf(a)') \in Nat
    BY <1>1, <2>1, FS_Subset, FS_CardinalityType
  <2>3. Cardinality(Creating(a)') <= Cardinality(Creating(a)) /\ Cardinality(Creating(a)') \in Nat
    BY <1>1, CapFinite, FS_Subset, FS_CardinalityType
  <2> QED
    BY <1>1, <2>2, <2>3, CapFinite, ConstantsAssumption DEF CapKept
<1>2. CASE Nameless
  BY <1>1, <1>2 DEF Nameless, CapKept, CharactersOf, ConnsOf, Creating
<1>3. ASSUME NEW c \in Conn, NEW a \in Account, LogsIn(c, a)
      PROVE  CapKept'
  <2>1. /\ phase[c] = "new" /\ account[c] = None /\ None # a /\ None \notin accounts
        /\ phase' = [phase EXCEPT ![c] = "realm"] /\ account' = [account EXCEPT ![c] = a]
        /\ accounts' = accounts \cup {a} /\ characters' = characters
    BY <1>3, ConstantsAssumption DEF LogsIn, Named
  <2>2. \A b \in accounts :
           /\ CharactersOf(b)' = CharactersOf(b) /\ ConnsOf(b) \subseteq ConnsOf(b)'
           /\ Creating(b)' \subseteq Creating(b)
    BY <2>1 DEF CharactersOf, ConnsOf, Creating
  <2>3. ASSUME a \notin accounts
        PROVE  Cardinality(CharactersOf(a)') + Cardinality(Creating(a)') + 1
                  <= MaxCharacters + Cardinality(ConnsOf(a)')
    <3>1. CharactersOf(a)' = {}
      BY <2>1, <2>3 DEF CharactersOf, Named, Rows
    <3>2. ConnsOf(a)' = {c}
      BY <2>1, <2>3 DEF ConnsOf, Named
    <3>3. Creating(a)' = {}
      BY <2>1, <2>3 DEF Creating, ConnsOf, Named
    <3>4. Cardinality(CharactersOf(a)') = 0 /\ Cardinality(Creating(a)') = 0
      BY <3>1, <3>3, FS_EmptySet
    <3>5. Cardinality(ConnsOf(a)') = 1
      BY <3>2, FS_Singleton
    <3> QED
      BY <3>4, <3>5, ConstantsAssumption
  <2> QED
    BY <1>1, <2>1, <2>2, <2>3 DEF CapKept
<1>4. ASSUME NEW c \in Conn, Creates(c)
      PROVE  CapKept'
  <2> SUFFICES ASSUME NEW a \in accounts
               PROVE  Cardinality(CharactersOf(a)') + Cardinality(Creating(a)') + 1
                         <= MaxCharacters + Cardinality(ConnsOf(a)')
    BY <1>4, CreatesRow DEF CapKept
  <2>1. ConnsOf(a)' = ConnsOf(a) /\ \A d \in Conn \ {c} : phase'[d] = phase[d]
    BY <1>4, CreatesRow DEF ConnsOf
  <2>2. CASE account[c] # a
    <3>1. CharactersOf(a)' = CharactersOf(a) /\ Creating(a)' = Creating(a)
      BY <1>4, <2>1, <2>2, CreatesRow DEF Creating, ConnsOf, CharactersOf
    <3> QED
      BY <1>1, <2>1, <3>1
  <2>3. CASE CountExisting(c) /\ UNCHANGED characters /\ account[c] = a
    <3>1. CharactersOf(a)' = CharactersOf(a) /\ Cardinality(CharactersOf(a)) < MaxCharacters
      BY <2>3 DEF CountExisting, CharactersOf
    <3>2. Creating(a)' \subseteq ConnsOf(a)
      BY <2>1 DEF Creating
    <3>3. Cardinality(Creating(a)') <= Cardinality(ConnsOf(a)) /\ Cardinality(Creating(a)') \in Nat
      BY <3>2, CapFinite, FS_Subset, FS_CardinalityType
    <3> QED
      BY <2>1, <3>1, <3>3, CapFinite, ConstantsAssumption
  <2>4. CASE SeedStats(c) /\ phase'[c] = "lobby" /\ CharactersOf(a)' = CharactersOf(a)
    <3>1. Creating(a)' \subseteq Creating(a)
      BY <2>1, <2>4 DEF Creating, ConnsOf
    <3> QED
      BY <1>1, <2>1, <2>4, <3>1
  <2>5. ASSUME account[c] = a, phase[c] = "creating", phase'[c] = "seeding",
               NEW ch \in Nat, ch \notin DOMAIN characters,
               CharactersOf(a)' = CharactersOf(a) \cup {ch}
        PROVE  Cardinality(CharactersOf(a)') + Cardinality(Creating(a)') + 1
                  <= MaxCharacters + Cardinality(ConnsOf(a)')
    <3>1. c \in Creating(a) /\ Creating(a)' = Creating(a) \ {c}
      BY <2>1, <2>5 DEF Creating, ConnsOf
    <3>2. Cardinality(Creating(a)') = Cardinality(Creating(a)) - 1
      BY <3>1, CapFinite, FS_RemoveElement
    <3>3. ch \notin CharactersOf(a)
      BY <2>5 DEF CharactersOf
    <3>4. Cardinality(CharactersOf(a)') = Cardinality(CharactersOf(a)) + 1
      <4>1. IsFiniteSet(CharactersOf(a))
        BY CapFinite
      <4>2. Cardinality(CharactersOf(a) \cup {ch}) = Cardinality(CharactersOf(a)) + 1
        BY <3>3, <4>1, FS_AddElement
      <4> QED
        BY <2>5, <4>2
    <3> QED
      BY <2>1, <3>2, <3>4, CapFinite, ConstantsAssumption DEF CapKept
  <2> QED
    BY <1>4, <2>2, <2>3, <2>4, <2>5, CreatesRow
<1> QED
  BY <1>2, <1>3, <1>4, Naming
----------------------------------------------------------------------------
(* The theorems.                                                           *)

LEMMA InitFound ==
  ASSUME Init
  PROVE  Found /\ Spoke
<1> USE DEF Init
<1>1. Shapes
  BY DEF Shapes, Phases, Early
<1>2. MetEachOther /\ KeysAreOwn /\ LeasesHeld /\ FoundAll
  BY DEF MetEachOther, KeysAreOwn, Under, In, LeasesHeld, FoundAll, HasMaps, HasRoutes, HasLease
<1>3. Spoke
  BY DEF Spoke, Addressed, Spoken, Forgotten, Heard, HeardOr, Playing, Reachable, Parted, HalfBound
<1> QED
  BY <1>1, <1>2, <1>3 DEF Found

LEMMA InitCap ==
  ASSUME Init
  PROVE  Named /\ CapKept
<1>1. characters \in [1 .. 0 -> Rows]
  BY DEF Init
<1> QED
  BY <1>1 DEF Init, Named, CapKept

LEMMA FoundSpokeStep ==
  ASSUME Found, Spoke, [Next]_vars
  PROVE  Found' /\ Spoke'
<1>1. Shapes'
  BY ShapesStep DEF Found
<1>2. MetEachOther' /\ KeysAreOwn' /\ LeasesHeld'
  BY MetStep, KeysStep, LeasesStep DEF Found
<1>3. FoundAll'
  BY <1>2, FoundStep DEF Found
<1>4. Addressed' /\ Spoken' /\ Forgotten'
  BY <1>1, AddressesStep DEF Found, Spoke
<1>5. Heard'
  BY HeardStep DEF Found, Spoke
<1> QED
  BY <1>1, <1>2, <1>3, <1>4, <1>5 DEF Found, Spoke

\* The maps of the process and the addresses of the UDP task agree, at every
\* step, with where each connection is in handle_session.
THEOREM ConnectionsInvariant == Spec => [](Found /\ Spoke)
<1>1. Init => Found /\ Spoke
  BY InitFound
<1>2. Found /\ Spoke /\ [Next]_vars => (Found /\ Spoke)'
  BY FoundSpokeStep
<1> QED
  BY <1>1, <1>2, PTL DEF Spec

\* A player is found by account, token and character unless somebody it shared
\* the maps with has the same one; the whole leave of handle_session takes a
\* connection out of every map, lease and count.
THEOREM PlayersAreFound == Spec => []MapsHoldWhoPlays
<1>1. ASSUME Found, Spoke
      PROVE  MapsHoldWhoPlays
  <2>1. FoundUnlessShared
    BY <1>1 DEF Found, FoundAll, FoundUnlessShared, Playing, HasMaps, HasRoutes
  <2>2. ASSUME NEW c \in Conn, phase[c] = "left"
        PROVE  /\ c \notin entities \cup sessions \cup inbound_routes \cup presence
               /\ c \notin Range(character_entities) \cup Range(account_entities)
                           \cup Range(token_to_entity) \cup Range(lease)
    BY <1>1, <2>2 DEF Found, KeysAreOwn, Under, In, Range, HasMaps, HasRoutes, HasPresence, HasLease
  <2>3. LeftNothingBehind
    BY <1>1, <2>2 DEF LeftNothingBehind, Spoke, Forgotten, Parted
  <2> QED
    BY <2>1, <2>3 DEF MapsHoldWhoPlays
<1> QED
  BY <1>1, ConnectionsInvariant, PTL

\* A player the UDP task pushes to is heard from that address, unless somebody
\* it has met, or whose task has failed, was bound there too (handle_udp_datagrams).
THEOREM PlayersAreHeard == Spec => []HeardUnlessShared
<1>1. ASSUME Found, Spoke
      PROVE  HeardUnlessShared
  <2> SUFFICES ASSUME NEW c \in Playing \cap DOMAIN remote_by_entity, binding = None,
                      (met[c] \cup Failed) \cap spoke[remote_by_entity[c]].all = {}
               PROVE  Maps(entity_by_remote, remote_by_entity[c], c)
    BY DEF HeardUnlessShared
  <2>1. HeardOr(c, remote_by_entity[c])
    BY <1>1 DEF Spoke, Heard
  <2> QED
    BY <2>1 DEF HeardOr, HalfBound
<1> QED
  BY <1>1, ConnectionsInvariant, PTL

\* CreateCharacter counts, then inserts: an account with n connections passes
\* the cap of WZ_CHARACTER_MAX_PER_ACCOUNT by n - 1 rows at most.
THEOREM CapPassedByRacesOnly ==
  ASSUME IsFiniteSet(Conn)
  PROVE  Spec => []CapUnlessRacing
<1>1. Init => Named /\ CapKept
  BY InitCap
<1>2. Shapes /\ Named /\ CapKept /\ [Next]_vars => Named' /\ CapKept'
  BY NamedStep, CapStep
<1>3. Named /\ CapKept => CapUnlessRacing
  <2> SUFFICES ASSUME Named, CapKept, NEW a \in accounts
               PROVE  Cardinality(CharactersOf(a)) <= MaxCharacters + Cardinality(ConnsOf(a)) - 1
    BY DEF CapUnlessRacing, ConnsOf
  <2>1. Cardinality(CharactersOf(a)) + Cardinality(Creating(a)) + 1
           <= MaxCharacters + Cardinality(ConnsOf(a))
    BY DEF CapKept
  <2> QED
    BY <2>1, CapFinite, ConstantsAssumption
<1>4. Found => Shapes
  BY DEF Found
<1> QED
  BY <1>1, <1>2, <1>3, <1>4, ConnectionsInvariant, PTL DEF Spec

----------------------------------------------------------------------------
(* The registry and its watcher.                                           *)

\* What the events that are still to be read say of an instance: nothing, or
\* what the last of them says.
Silent(q, i) == \A k \in DOMAIN q : q[k].instance # i
Last(q, kind, i) ==
    \E k \in DOMAIN q : /\ q[k] = [kind |-> kind, instance |-> i]
                        /\ \A l \in DOMAIN q : l > k => q[l].instance # i

LEMMA EventAppended ==
  ASSUME NEW E, NEW q \in Seq(E), NEW e \in E, NEW i, NEW kind
  PROVE  /\ Append(q, e) \in Seq(E)
         /\ e.instance # i => /\ Silent(q, i) => Silent(Append(q, e), i)
                              /\ Last(q, kind, i) => Last(Append(q, e), kind, i)
         /\ e = [kind |-> kind, instance |-> i] => Last(Append(q, e), kind, i)
<1>1. /\ Append(q, e) \in Seq(E) /\ DOMAIN q = 1 .. Len(q) /\ Len(q) \in Nat
      /\ DOMAIN Append(q, e) = 1 .. Len(q) + 1
      /\ Append(q, e)[Len(q) + 1] = e
      /\ \A k \in 1 .. Len(q) : Append(q, e)[k] = q[k]
  OBVIOUS
<1>2. ASSUME e.instance # i, Silent(q, i)
      PROVE  Silent(Append(q, e), i)
  BY <1>1, <1>2 DEF Silent
<1>3. ASSUME e.instance # i, Last(q, kind, i)
      PROVE  Last(Append(q, e), kind, i)
  BY <1>1, <1>3 DEF Last
<1>4. ASSUME e = [kind |-> kind, instance |-> i]
      PROVE  Last(Append(q, e), kind, i)
  BY <1>1, <1>4 DEF Last
<1> QED
  BY <1>1, <1>2, <1>3, <1>4

LEMMA EventRead ==
  ASSUME NEW E, NEW q \in Seq(E), q # <<>>, NEW i, NEW kind
  PROVE  /\ Tail(q) \in Seq(E) /\ Head(q) \in E
         /\ Silent(q, i) => Silent(Tail(q), i) /\ Head(q).instance # i
         /\ Last(q, kind, i) => \/ Last(Tail(q), kind, i)
                                \/ Silent(Tail(q), i) /\ Head(q) = [kind |-> kind, instance |-> i]
<1>1. /\ Tail(q) \in Seq(E) /\ Len(q) \in Nat \ {0} /\ DOMAIN q = 1 .. Len(q)
      /\ DOMAIN Tail(q) = 1 .. Len(q) - 1
      /\ \A k \in 1 .. Len(q) - 1 : Tail(q)[k] = q[k + 1]
      /\ Head(q) = q[1] /\ q[1] \in E
  OBVIOUS
<1>2. ASSUME Silent(q, i)
      PROVE  Silent(Tail(q), i) /\ Head(q).instance # i
  BY <1>1, <1>2 DEF Silent
<1>3. ASSUME Last(q, kind, i)
      PROVE  \/ Last(Tail(q), kind, i)
             \/ Silent(Tail(q), i) /\ Head(q) = [kind |-> kind, instance |-> i]
  <2>1. PICK k \in DOMAIN q : /\ q[k] = [kind |-> kind, instance |-> i]
                              /\ \A l \in DOMAIN q : l > k => q[l].instance # i
    BY <1>3 DEF Last
  <2>2. CASE k = 1
    BY <1>1, <2>1, <2>2 DEF Silent
  <2>3. CASE k # 1
    <3>1. k - 1 \in DOMAIN Tail(q) /\ Tail(q)[k - 1] = q[k]
      BY <1>1, <2>3
    <3>2. \A l \in DOMAIN Tail(q) : l > k - 1 => Tail(q)[l].instance # i
      BY <1>1, <2>1, <2>3
    <3> QED
      BY <2>1, <3>1, <3>2 DEF Last
  <2> QED
    BY <2>2, <2>3
<1> QED
  BY <1>1, <1>2, <1>3

Events == [kind : {"Registered", "Deregistered"}, instance : Instance]

RegistryShapes ==
    /\ instance \in [Instance -> {"out", "in", "registering", "deregistering"}]
    /\ keys \subseteq Instance /\ scanned \subseteq Instance /\ view \subseteq Instance
    /\ watcher \in {"off", "subscribed", "fetching", "following"}
    /\ events \in Seq(Events) /\ (watcher = "off" => events = <<>>)

\* Who the watcher will have, as far as it depends on what it has read so far.
WillHave(i) ==
    CASE watcher = "fetching"  -> i \in scanned
      [] watcher = "following" -> i \in view
      [] OTHER                 -> i \in keys
WillNotHave(i) ==
    CASE watcher = "fetching"  -> i \notin scanned \cap keys
      [] watcher = "following" -> i \notin view
      [] OTHER                 -> i \notin keys

\* Unless it has lapsed or crashed, who is registered is in the watcher's view
\* when the events are read, or is about to publish that it is; and conversely.
WillBeKnown(i) ==
    \/ instance[i] = "registering"
    \/ Last(events, "Registered", i)
    \/ Silent(events, i) /\ WillHave(i)

WillBeForgotten(i) ==
    \/ instance[i] = "deregistering"
    \/ Last(events, "Deregistered", i)
    \/ Silent(events, i) /\ WillNotHave(i)

Told(i) ==
    /\ instance[i] = "deregistering" => i \notin keys
    /\ instance[i] = "registering" => i \in keys \cup lapsed
    /\ i \in keys \ lapsed => WillBeKnown(i)
    /\ i \notin keys \cup lapsed => WillBeForgotten(i)

RegistryInv ==
    /\ RegistryShapes
    /\ \A i \in Instance : Told(i)

LEMMA InitRegistry == R!Init => RegistryInv
  BY DEF R!Init, RegistryInv, RegistryShapes, Told, WillBeForgotten, Silent, WillNotHave

\* A step about i tells nothing of the others.
LEMMA OthersTold ==
  ASSUME RegistryInv, NEW i \in Instance, NEW j \in Instance \ {i},
         instance'[j] = instance[j], UNCHANGED <<watcher, scanned, view>>,
         j \in keys' <=> j \in keys, j \in lapsed' <=> j \in lapsed,
         \/ events' = events
         \/ \E e \in Events : e.instance = i /\ events' = Append(events, e)
  PROVE  Told(j)'
<1>1. ASSUME Silent(events, j)
      PROVE  Silent(events', j)
  <2>1. ASSUME NEW e \in Events, e.instance = i, events' = Append(events, e)
        PROVE  Silent(events', j)
    <3>1. events \in Seq(Events) /\ e.instance # j
      BY <2>1 DEF RegistryInv, RegistryShapes
    <3> QED
      BY <1>1, <2>1, <3>1, EventAppended
  <2> QED
    BY <1>1, <2>1
<1>2. ASSUME NEW kind \in {"Registered", "Deregistered"}, Last(events, kind, j)
      PROVE  Last(events', kind, j)
  <2>1. ASSUME NEW e \in Events, e.instance = i, events' = Append(events, e)
        PROVE  Last(events', kind, j)
    <3>1. events \in Seq(Events) /\ e.instance # j
      BY <2>1 DEF RegistryInv, RegistryShapes
    <3> QED
      BY <1>2, <2>1, <3>1, EventAppended
  <2> QED
    BY <1>2, <2>1
<1> QED
  BY <1>1, <1>2 DEF RegistryInv, RegistryShapes, Told, WillBeKnown, WillBeForgotten,
                    WillHave, WillNotHave

\* An event about i tells of i, if anybody listens.
LEMMA Published ==
  ASSUME RegistryInv, NEW i \in Instance, NEW kind \in {"Registered", "Deregistered"},
         R!publish_event(kind, i)
  PROVE  /\ events' \in Seq(Events) /\ (watcher = "off" => events' = <<>>)
         /\ watcher # "off" => Last(events', kind, i)
         /\ \/ events' = events
            \/ \E e \in Events : e.instance = i /\ events' = Append(events, e)
<1> DEFINE e == [kind |-> kind, instance |-> i]
<1>1. e \in Events /\ e.instance = i
  BY DEF Events
<1>2. CASE watcher = "off"
  BY <1>2 DEF RegistryInv, RegistryShapes, R!publish_event
<1>3. CASE watcher # "off"
  <2>1. events' = Append(events, e)
    BY <1>3 DEF R!publish_event
  <2> QED
    BY <1>1, <1>3, <2>1, EventAppended DEF RegistryInv, RegistryShapes
<1> QED
  BY <1>2, <1>3

LEMMA RegistryStep ==
  ASSUME RegistryInv, [R!Next]_R!vars
  PROVE  RegistryInv'
<1> USE DEF RegistryShapes
<1>1. ASSUME NEW i \in Instance, R!Register(i)
      PROVE  RegistryInv'
  <2>1. CASE /\ instance[i] \in {"out", "in"} /\ i \notin keys
             /\ keys' = keys \cup {i} /\ lapsed' = lapsed \ {i}
             /\ instance' = [instance EXCEPT ![i] = "registering"]
             /\ UNCHANGED <<watcher, scanned, view, events>>
    <3>1. Told(i)'
      BY <2>1 DEF RegistryInv, Told, WillBeKnown
    <3>2. \A j \in Instance \ {i} : Told(j)'
      BY <2>1, OthersTold DEF RegistryInv
    <3> QED
      BY <2>1, <3>1, <3>2 DEF RegistryInv
  <2>2. CASE /\ instance[i] = "registering" /\ R!publish_event("Registered", i)
             /\ instance' = [instance EXCEPT ![i] = "in"]
             /\ UNCHANGED <<keys, lapsed, watcher, scanned, view>>
    <3>1. Told(i)'
      BY <2>2, Published DEF RegistryInv, Told, WillBeKnown, WillBeForgotten, WillHave, Silent
    <3>2. \A j \in Instance \ {i} : Told(j)'
      BY <2>2, OthersTold, Published DEF RegistryInv
    <3> QED
      BY <2>2, <3>1, <3>2, Published DEF RegistryInv
  <2> QED
    BY <1>1, <2>1, <2>2 DEF R!Register
<1>2. ASSUME NEW i \in Instance, R!Deregister(i)
      PROVE  RegistryInv'
  <2>1. CASE /\ instance[i] = "in" /\ keys' = keys \ {i}
             /\ instance' = [instance EXCEPT ![i] = "deregistering"]
             /\ UNCHANGED <<lapsed, watcher, scanned, view, events>>
    <3>1. Told(i)'
      BY <2>1 DEF RegistryInv, Told, WillBeForgotten
    <3>2. \A j \in Instance \ {i} : Told(j)'
      BY <2>1, OthersTold DEF RegistryInv
    <3> QED
      BY <2>1, <3>1, <3>2 DEF RegistryInv
  <2>2. CASE /\ instance[i] = "deregistering" /\ R!publish_event("Deregistered", i)
             /\ lapsed' = lapsed \ {i}
             /\ instance' = [instance EXCEPT ![i] = "out"]
             /\ UNCHANGED <<keys, watcher, scanned, view>>
    <3>1. Told(i)'
      BY <2>2, Published DEF RegistryInv, Told, WillBeForgotten, WillNotHave, Silent
    <3>2. \A j \in Instance \ {i} : Told(j)'
      BY <2>2, OthersTold, Published DEF RegistryInv
    <3> QED
      BY <2>2, <3>1, <3>2, Published DEF RegistryInv
  <2> QED
    BY <1>2, <2>1, <2>2 DEF R!Deregister
<1>3. ASSUME NEW i \in Instance, R!Lapse(i) \/ R!Crash(i)
      PROVE  RegistryInv'
  <2>1. /\ \/ keys' = keys \ {i} /\ instance' = instance
           \/ keys' = keys /\ instance' = [instance EXCEPT ![i] = "out"]
        /\ lapsed' = lapsed \cup {i}
        /\ UNCHANGED <<watcher, scanned, view, events>>
    BY <1>3 DEF R!Lapse, R!Crash
  <2>2. Told(i)'
    BY <2>1 DEF RegistryInv, Told
  <2>3. \A j \in Instance \ {i} : Told(j)'
    BY <2>1, OthersTold DEF RegistryInv
  <2> QED
    BY <2>1, <2>2, <2>3 DEF RegistryInv
<1> USE DEF RegistryInv, Told, WillBeKnown, WillBeForgotten, WillHave, WillNotHave
<1>4. CASE UNCHANGED R!vars
  BY <1>4 DEF R!vars
<1>5. CASE R!Subscribe
  BY <1>5 DEF R!Subscribe
<1>6. CASE R!Scan
  BY <1>6 DEF R!Scan
<1>7. CASE R!Fetch
  BY <1>7 DEF R!Fetch
<1>8. CASE R!Follow
  <2>1. /\ watcher = "following" /\ events # <<>> /\ events' = Tail(events)
        /\ view' = IF Head(events).kind = "Registered" THEN view \cup {Head(events).instance}
                   ELSE view \ {Head(events).instance}
        /\ UNCHANGED <<instance, keys, lapsed, watcher, scanned>>
    BY <1>8 DEF R!Follow
  <2>2. Head(events) \in Events /\ events' \in Seq(Events)
    BY <2>1, EventRead
  <2>3. ASSUME NEW i \in Instance
        PROVE  /\ WillBeKnown(i) => WillBeKnown(i)'
               /\ WillBeForgotten(i) => WillBeForgotten(i)'
    <3>1. /\ Silent(events, i) => Silent(events', i) /\ Head(events).instance # i
          /\ \A kind \in {"Registered", "Deregistered"} :
                Last(events, kind, i) => \/ Last(events', kind, i)
                                         \/ /\ Silent(events', i)
                                            /\ Head(events) = [kind |-> kind, instance |-> i]
      BY <2>1, EventRead
    <3> QED
      BY <2>1, <3>1
  <2> QED
    BY <2>1, <2>2, <2>3 DEF Events
<1> QED
  BY <1>1, <1>2, <1>3, <1>4, <1>5, <1>6, <1>7, <1>8 DEF R!Next

\* A watcher that subscribes, queries and then follows the events (registry.rs)
\* knows, once it has read them, exactly who is registered, but for instances
\* that crashed or whose key lapsed.
THEOREM WatchersMissNobody == R!Spec => []WatcherMissesNobody
<1>1. RegistryInv => WatcherMissesNobody
  BY DEF RegistryInv, RegistryShapes, Told, WillBeKnown, WillBeForgotten, WillHave, WillNotHave,
         Last, WatcherMissesNobody, R!WatcherMissesNobody
<1>2. RegistryInv /\ [R!Next]_R!vars => RegistryInv'
  BY RegistryStep
<1> QED
  BY <1>1, <1>2, InitRegistry, PTL DEF R!Spec

------------------------------------------------- (* the item catalog *)

\* Registrations are queued by hooks only, and a stop loses them.
QueuesAreOfARun ==
    /\ stage \in {"down", "loading", "up", "refused"}
    /\ queue \in [K!Plugin -> Seq(HookEntry)]
    /\ draining \in K!Plugin \cup {None}
    /\ stage # "up" =>
        draining = None /\ strayed = {} /\ \A p \in K!Plugin : queue[p] = <<>>

\* The copy has the item's row already, and the dispatch will bring it to the
\* table last.
Owed(item) ==
    /\ draining # None /\ queue[draining] # <<>>
    /\ LET entry == queue[draining][Len(queue[draining])]
       IN  /\ entry.item = item
           /\ item \in DOMAIN cache /\ cache[item] = K!Range(entry.tags)

\* What a dispatch applies is the request that began it, behind those that
\* strayed before.
OnlyTheLastIsNew ==
    \A p \in K!Plugin : \A i \in DOMAIN queue[p] :
        \/ queue[p][i].item \in strayed
        \/ draining = p /\ i = Len(queue[p]) /\ Owed(queue[p][i].item)

CopyFollows ==
    stage \in {"loading", "up"} =>
        \A item \in (DOMAIN cache \cup DOMAIN table) \ (meddled \cup strayed) :
            K!SameRow(item) \/ Owed(item)

NamesAreKnown ==
    /\ \A d \in drops : d[1] \in DOMAIN table
    /\ stage = "up" => K!Referenced(files) \subseteq DOMAIN table \cup meddled

CatalogInv == QueuesAreOfARun /\ OnlyTheLastIsNew /\ CopyFollows /\ NamesAreKnown

LEMMA InitCatalog == K!Init => CatalogInv
  BY CatalogIsDeclared DEF K!CatalogAssumption, K!Init, K!InitWith, CatalogInv, QueuesAreOfARun,
     OnlyTheLastIsNew, CopyFollows, NamesAreKnown, K!Plugin

\* What is written of one item leaves the rows of the others.
LEMMA RowsKept ==
  ASSUME NEW rows, NEW entry
  PROVE  /\ DOMAIN K!Upserted(rows, entry) = DOMAIN rows \cup {entry.item}
         /\ K!Upserted(rows, entry)[entry.item] = K!Range(entry.tags)
         /\ \A item \in DOMAIN rows :
              item # entry.item => K!Upserted(rows, entry)[item] = rows[item]
  BY DEF K!Upserted

\* The same entries leave the copy and the table alike where they were alike.
LEMMA LoadedAlike ==
  ASSUME NEW entries, NEW item,
         item \in DOMAIN cache <=> item \in DOMAIN table,
         item \in DOMAIN cache => cache[item] = table[item]
  PROVE  LET c == K!AllUpserted(cache, entries)
             t == K!AllUpserted(table, entries)
         IN  /\ item \in DOMAIN c <=> item \in DOMAIN t
             /\ item \in DOMAIN c => c[item] = t[item]
  BY DEF K!AllUpserted

LEMMA LoadingAdds ==
  ASSUME NEW rows, NEW entries
  PROVE  DOMAIN rows \subseteq DOMAIN K!AllUpserted(rows, entries)
  BY DEF K!AllUpserted

\* Nobody is registering: the table and the copy differ by what others wrote.
LEMMA TableOnly ==
  ASSUME CatalogInv, NEW item,
         \A i \in (DOMAIN table \cup DOMAIN table') \ {item} :
            /\ i \in DOMAIN table <=> i \in DOMAIN table'
            /\ i \in DOMAIN table => table'[i] = table[i],
         meddled' = meddled \cup {item},
         \A d \in drops' : d[1] \in DOMAIN table',
         UNCHANGED <<files, stage, loaded, cache, queue, draining, strayed>>
  PROVE  CatalogInv'
<1>1. QueuesAreOfARun' /\ OnlyTheLastIsNew'
  BY DEF CatalogInv, QueuesAreOfARun, OnlyTheLastIsNew, Owed
<1>2. CopyFollows'
  BY DEF CatalogInv, CopyFollows, Owed, K!SameRow
<1>3. NamesAreKnown'
  BY DEF CatalogInv, NamesAreKnown
<1> QED
  BY <1>1, <1>2, <1>3 DEF CatalogInv

\* Whatever the recipes and the equipment name was in the copy they were checked
\* against.
LEMMA AcceptedIsKnown ==
  ASSUME NEW known, K!AcceptsSchemas(files, known)
  PROVE  K!Referenced(files) \subseteq DOMAIN known
<1>1. \A g \in K!Range(files.gear) : g.item \in DOMAIN known
  BY DEF K!AcceptsSchemas, K!AcceptsEquipment, K!HasTag
<1>2. \A r \in K!Range(files.recipes) :
        /\ r.output.item \in DOMAIN known
        /\ \A i \in K!Range(r.inputs) : i.item \in DOMAIN known
  BY DEF K!AcceptsSchemas, K!AcceptsRecipes, K!AcceptsRecipe, K!HasTag
<1> QED
  BY <1>1, <1>2 DEF K!Referenced

\* A hook that is applied at its end leaves one request that has not strayed: its
\* own, the last of its plugin's queue, with the row the copy got.
LEMMA HookKeeps ==
  ASSUME CatalogInv, NEW p \in K!Plugin, NEW entry \in HookEntry, NEW applied \in BOOLEAN,
         K!Hook(p, entry, applied)
  PROVE  CatalogInv'
<1> DEFINE valid == K!validate_entry(entry)
<1>1. /\ stage = "up" /\ draining = None
      /\ draining' = IF applied THEN p ELSE None
      /\ valid => /\ cache' = K!Upserted(cache, entry)
                  /\ queue' = [queue EXCEPT ![p] = Append(@, entry)]
                  /\ applied => strayed' = strayed
                  /\ ~applied => strayed' = strayed \cup {entry.item}
      /\ ~valid => UNCHANGED <<cache, queue, strayed>>
      /\ UNCHANGED <<files, table, drops, stage, meddled>>
  BY DEF K!Hook
<1> HIDE DEF valid
<1>2. \A q \in K!Plugin : \A i \in DOMAIN queue[q] : queue[q][i].item \in strayed
  BY <1>1, CatalogIsDeclared DEF K!CatalogAssumption, K!Plugin, CatalogInv, OnlyTheLastIsNew
<1>3. ASSUME NEW item, item \in DOMAIN cache \cup DOMAIN table, item \notin meddled \cup strayed
      PROVE  K!SameRow(item)
  BY <1>1, <1>3 DEF CatalogInv, CopyFollows, Owed
<1>4. NamesAreKnown'
  BY <1>1 DEF CatalogInv, NamesAreKnown
<1>5. CASE valid
  <2> DEFINE longer == Append(queue[p], entry)
  <2>0. /\ queue[p] \in Seq(HookEntry) /\ longer \in Seq(HookEntry)
        /\ queue \in [K!Plugin -> Seq(HookEntry)]
        /\ queue' = [queue EXCEPT ![p] = longer] /\ cache' = K!Upserted(cache, entry)
    BY <1>1, <1>5, AppendProperties DEF CatalogInv, QueuesAreOfARun
  <2> HIDE DEF longer
  <2>1. /\ queue'[p] = longer
        /\ \A q \in K!Plugin : q # p => queue'[q] = queue[q]
        /\ queue' \in [K!Plugin -> Seq(HookEntry)]
    BY <2>0
  <2>2. /\ Len(queue'[p]) = Len(queue[p]) + 1 /\ DOMAIN queue'[p] = 1..Len(queue[p]) + 1
        /\ \A i \in DOMAIN queue[p] : queue'[p][i] = queue[p][i]
        /\ queue'[p][Len(queue[p]) + 1] = entry /\ queue'[p] # <<>>
        /\ DOMAIN queue[p] = 1..Len(queue[p]) /\ Len(queue[p]) \in Nat
    BY <2>0, <2>1, AppendProperties DEF longer
  <2>3. QueuesAreOfARun'
    BY <1>1, <1>5, <2>1 DEF CatalogInv, QueuesAreOfARun
  <2>4. /\ DOMAIN cache' = DOMAIN cache \cup {entry.item}
        /\ cache'[entry.item] = K!Range(entry.tags)
        /\ \A i \in DOMAIN cache : i # entry.item => cache'[i] = cache[i]
    BY <2>0, RowsKept
  <2>5. applied => draining' = p /\ draining' # None /\ Owed(entry.item)'
    BY <1>1, <2>2, <2>4, CatalogIsDeclared DEF K!CatalogAssumption, K!Plugin, Owed
  <2>6. OnlyTheLastIsNew'
    BY <1>1, <1>2, <1>5, <2>1, <2>2, <2>5 DEF OnlyTheLastIsNew
  <2>7. CopyFollows'
    <3> SUFFICES ASSUME NEW item, item \in DOMAIN cache' \cup DOMAIN table,
                        item \notin meddled \cup strayed'
                 PROVE  K!SameRow(item)' \/ Owed(item)'
      BY <1>1 DEF CopyFollows
    <3>2. CASE item # entry.item
      BY <1>1, <1>3, <1>5, <2>4, <3>2 DEF K!SameRow
    <3>3. CASE item = entry.item
      BY <1>1, <1>5, <2>5, <3>3
    <3> QED
      BY <3>2, <3>3
  <2> QED
    BY <1>4, <2>3, <2>6, <2>7 DEF CatalogInv
<1>6. CASE ~valid
  <2>1. QueuesAreOfARun'
    BY <1>1, <1>6 DEF CatalogInv, QueuesAreOfARun
  <2>2. OnlyTheLastIsNew'
    BY <1>1, <1>2, <1>6 DEF OnlyTheLastIsNew
  <2>3. CopyFollows'
    BY <1>1, <1>3, <1>6 DEF CopyFollows, K!SameRow
  <2> QED
    BY <1>4, <2>1, <2>2, <2>3 DEF CatalogInv
<1> QED
  BY <1>5, <1>6

\* A queue without its head.
LEMMA Dropped ==
  ASSUME NEW S, NEW q \in Seq(S), q # <<>>
  PROVE  /\ Len(q) \in Nat \ {0} /\ DOMAIN q = 1..Len(q) /\ Head(q) = q[1] /\ Head(q) \in S
         /\ Tail(q) \in Seq(S) /\ Len(Tail(q)) = Len(q) - 1
         /\ DOMAIN Tail(q) = 1..Len(q) - 1
         /\ \A i \in 1..Len(q) - 1 : Tail(q)[i] = q[i + 1]
         /\ Len(q) = 1 => Tail(q) = <<>>
         /\ Len(q) # 1 => Tail(q) # <<>> /\ Tail(q)[Len(Tail(q))] = q[Len(q)]
<1>1. Len(q) \in Nat \ {0} /\ Head(q) = q[1] /\ Head(q) \in S
  BY HeadTailProperties
<1>2. /\ Tail(q) \in Seq(S) /\ Len(Tail(q)) = Len(q) - 1 /\ DOMAIN Tail(q) = 1..Len(q) - 1
      /\ \A i \in 1..Len(q) - 1 : Tail(q)[i] = q[i + 1]
  BY HeadTailProperties
<1>3. Len(q) = 1 => Tail(q) = <<>>
  BY <1>2, EmptySeq
<1>4. ASSUME Len(q) # 1 PROVE Tail(q) # <<>> /\ Tail(q)[Len(Tail(q))] = q[Len(q)]
  <2>1. \A n \in Nat \ {0} : n # 1 => n - 1 \in 1..n - 1 /\ n - 1 + 1 = n /\ n - 1 # 0
    OBVIOUS
  <2>2. Len(q) - 1 \in 1..Len(q) - 1 /\ Len(q) - 1 + 1 = Len(q) /\ Len(q) - 1 # 0
    BY <1>1, <1>4, <2>1
  <2>3. Tail(q)[Len(q) - 1] = q[Len(q)]
    BY <1>2, <2>2
  <2> QED
    BY <1>2, <2>2, <2>3, EmptySeq
<1> QED
  BY <1>1, <1>2, <1>3, <1>4

\* A statement of the dispatch writes a row of an item that has strayed, or it is
\* the last one and brings the table what the copy has.
LEMMA DrainKeeps ==
  ASSUME CatalogInv, K!Drain
  PROVE  CatalogInv'
<1> DEFINE q == queue[draining]
<1>1. /\ draining \in K!Plugin /\ draining # None /\ stage = "up"
      /\ UNCHANGED <<files, drops, stage, cache, meddled, strayed>>
      /\ q = <<>> => draining' = None /\ UNCHANGED <<table, queue>>
      /\ q # <<>> => /\ table' = K!Upserted(table, Head(q)) /\ draining' = draining
                     /\ queue' = [queue EXCEPT ![draining] = Tail(q)]
  BY DEF K!Drain, CatalogInv, QueuesAreOfARun
<1>2. q \in Seq(HookEntry)
  BY <1>1 DEF CatalogInv, QueuesAreOfARun
<1>3. CASE q = <<>>
  <2>1. QueuesAreOfARun' /\ NamesAreKnown'
    BY <1>1, <1>3 DEF CatalogInv, QueuesAreOfARun, NamesAreKnown
  <2>2. OnlyTheLastIsNew'
    BY <1>1, <1>3 DEF CatalogInv, OnlyTheLastIsNew
  <2>3. CopyFollows'
    BY <1>1, <1>3 DEF CatalogInv, CopyFollows, Owed, K!SameRow
  <2> QED
    BY <2>1, <2>2, <2>3 DEF CatalogInv
<1>4. CASE q # <<>>
  <2> DEFINE entry == Head(q)
             last == q[Len(q)]
  <2>1. /\ Len(q) \in Nat \ {0} /\ DOMAIN q = 1..Len(q) /\ entry = q[1] /\ entry \in HookEntry
        /\ Tail(q) \in Seq(HookEntry) /\ Len(Tail(q)) = Len(q) - 1
        /\ DOMAIN Tail(q) = 1..Len(q) - 1
        /\ \A i \in 1..Len(q) - 1 : Tail(q)[i] = q[i + 1]
        /\ Len(q) = 1 => Tail(q) = <<>>
        /\ Len(q) # 1 => Tail(q) # <<>> /\ Tail(q)[Len(Tail(q))] = q[Len(q)]
    BY <1>2, <1>4, Dropped
  <2>2. /\ queue' \in [K!Plugin -> Seq(HookEntry)] /\ queue'[draining] = Tail(q)
        /\ \A p \in K!Plugin : p # draining => queue'[p] = queue[p]
    BY <1>1, <1>4, <2>1 DEF CatalogInv, QueuesAreOfARun
  <2>3. /\ DOMAIN table' = DOMAIN table \cup {entry.item}
        /\ table'[entry.item] = K!Range(entry.tags)
        /\ \A item \in DOMAIN table : item # entry.item => table'[item] = table[item]
    <3>1. table' = K!Upserted(table, entry)
      BY <1>1, <1>4
    <3> QED
      BY <3>1, RowsKept
  <2>4. entry.item \in strayed \/ (Len(q) = 1 /\ Owed(entry.item))
    <3>1. 1 \in DOMAIN q /\ q[1].item = entry.item
      BY <2>1
    <3> QED
      BY <1>1, <3>1 DEF CatalogInv, OnlyTheLastIsNew
  <2> HIDE DEF entry, last
  <2>5. QueuesAreOfARun' /\ NamesAreKnown'
    BY <1>1, <1>4, <2>2, <2>3 DEF CatalogInv, QueuesAreOfARun, NamesAreKnown
  <2>6. OnlyTheLastIsNew'
    <3> SUFFICES ASSUME NEW p \in K!Plugin, NEW i \in DOMAIN queue'[p],
                        NEW item, item = queue'[p][i].item
                 PROVE  item \in strayed \/ (draining = p /\ i = Len(queue'[p]) /\ Owed(item)')
      BY <1>1, <1>4 DEF OnlyTheLastIsNew
    <3>1. CASE p = draining
      <4>1. i \in 1..Len(q) - 1 /\ queue'[p][i] = q[i + 1] /\ i + 1 \in DOMAIN q
        BY <2>1, <2>2, <3>1
      <4>2. \/ q[i + 1].item \in strayed
            \/ i + 1 = Len(q) /\ Owed(q[i + 1].item)
        BY <1>1, <4>1 DEF CatalogInv, OnlyTheLastIsNew
      <4>3. CASE i + 1 = Len(q) /\ Owed(q[i + 1].item)
        <5>1. queue'[draining] # <<>> /\ Len(queue'[draining]) = i
              /\ queue'[draining][i] = q[Len(q)]
          BY <2>1, <2>2, <4>1, <4>3
        <5> QED
          BY <1>1, <1>4, <3>1, <4>1, <4>3, <5>1 DEF Owed
      <4> QED
        BY <4>1, <4>2, <4>3
    <3> QED
      BY <1>1, <2>2, <3>1 DEF CatalogInv, OnlyTheLastIsNew
  <2>7. CopyFollows'
    <3> SUFFICES ASSUME NEW item, item \in DOMAIN cache \cup DOMAIN table',
                        item \notin meddled \cup strayed
                 PROVE  K!SameRow(item)' \/ Owed(item)'
      BY <1>1 DEF CopyFollows
    <3>1. CASE Len(q) = 1
      <4>1. last = entry /\ queue'[draining] = <<>>
        BY <2>1, <2>2, <3>1 DEF last
      <4>2. item \in DOMAIN cache \cup DOMAIN table => K!SameRow(item) \/ Owed(item)
        BY <1>1 DEF CatalogInv, CopyFollows
      <4>3. item # entry.item => K!SameRow(item)'
        BY <1>1, <2>3, <4>1, <4>2 DEF Owed, K!SameRow, last
      <4>4. item = entry.item => Owed(entry.item)
        BY <2>4
      <4> QED
        BY <1>1, <2>3, <4>1, <4>3, <4>4 DEF Owed, K!SameRow, last
    <3>2. CASE Len(q) # 1
      <4>1. item # entry.item /\ item \in DOMAIN cache \cup DOMAIN table
        BY <2>3, <2>4, <3>2
      <4>2. K!SameRow(item) \/ Owed(item)
        BY <1>1, <4>1 DEF CatalogInv, CopyFollows
      <4>3. /\ queue'[draining] # <<>> /\ Len(queue'[draining]) = Len(q) - 1
            /\ queue'[draining][Len(queue'[draining])] = last
        BY <2>1, <2>2, <3>2 DEF last
      <4> QED
        BY <1>1, <1>4, <2>3, <4>1, <4>2, <4>3 DEF Owed, K!SameRow, last
    <3> QED
      BY <3>1, <3>2
  <2> QED
    BY <2>5, <2>6, <2>7 DEF CatalogInv
<1> QED
  BY <1>3, <1>4

\* A statement that fails leaves one that has strayed less in the queue, or makes
\* the last one stray.
LEMMA DrainFailsKeeps ==
  ASSUME CatalogInv, K!DrainFails
  PROVE  CatalogInv'
<1> DEFINE q == queue[draining]
<1>1. /\ draining \in K!Plugin /\ draining # None /\ stage = "up" /\ q # <<>>
      /\ queue' = [queue EXCEPT ![draining] = Tail(q)]
      /\ strayed' = strayed \cup {Head(q).item}
      /\ UNCHANGED <<files, table, drops, stage, cache, draining, meddled>>
  BY DEF K!DrainFails, CatalogInv, QueuesAreOfARun
<1>2. q \in Seq(HookEntry)
  BY <1>1 DEF CatalogInv, QueuesAreOfARun
<1>3. /\ Len(q) \in Nat \ {0} /\ DOMAIN q = 1..Len(q) /\ Head(q) = q[1]
      /\ Tail(q) \in Seq(HookEntry) /\ Len(Tail(q)) = Len(q) - 1
      /\ DOMAIN Tail(q) = 1..Len(q) - 1
      /\ \A i \in 1..Len(q) - 1 : Tail(q)[i] = q[i + 1]
      /\ Len(q) # 1 => Tail(q) # <<>> /\ Tail(q)[Len(Tail(q))] = q[Len(q)]
  BY <1>1, <1>2, Dropped
<1>4. /\ queue' \in [K!Plugin -> Seq(HookEntry)] /\ queue'[draining] = Tail(q)
      /\ \A p \in K!Plugin : p # draining => queue'[p] = queue[p]
  BY <1>1, <1>3 DEF CatalogInv, QueuesAreOfARun
<1>5. QueuesAreOfARun' /\ NamesAreKnown'
  BY <1>1, <1>4 DEF CatalogInv, QueuesAreOfARun, NamesAreKnown
<1>6. ASSUME NEW item, Owed(item), item \notin strayed'  PROVE Owed(item)'
  <2>1. Len(q) # 1
    BY <1>1, <1>3, <1>6 DEF Owed
  <2>2. q[Len(q)].item = item /\ item \in DOMAIN cache
        /\ cache[item] = K!Range(q[Len(q)].tags)
    BY <1>6 DEF Owed
  <2>3. queue'[draining] # <<>> /\ queue'[draining][Len(queue'[draining])] = q[Len(q)]
    BY <1>3, <1>4, <2>1
  <2> QED
    BY <1>1, <2>2, <2>3 DEF Owed
<1>7. OnlyTheLastIsNew'
  <2> SUFFICES ASSUME NEW p \in K!Plugin, NEW i \in DOMAIN queue'[p],
                      NEW item, item = queue'[p][i].item
               PROVE  item \in strayed' \/ (draining = p /\ i = Len(queue'[p]) /\ Owed(item)')
    BY <1>1 DEF OnlyTheLastIsNew
  <2>1. CASE p = draining
    <3>1. i \in 1..Len(q) - 1 /\ queue'[p][i] = q[i + 1] /\ i + 1 \in DOMAIN q
      BY <1>3, <1>4, <2>1
    <3>2. item \in strayed \/ (i + 1 = Len(q) /\ Owed(item))
      BY <1>1, <3>1 DEF CatalogInv, OnlyTheLastIsNew
    <3>3. i + 1 = Len(q) => i = Len(queue'[p])
      BY <1>3, <1>4, <2>1, <3>1
    <3> QED
      BY <1>1, <1>6, <2>1, <3>2, <3>3
  <2>2. CASE p # draining
    BY <1>1, <1>4, <2>2 DEF CatalogInv, OnlyTheLastIsNew
  <2> QED
    BY <2>1, <2>2
<1>8. CopyFollows'
  <2> SUFFICES ASSUME NEW item, item \in DOMAIN cache \cup DOMAIN table,
                      item \notin meddled \cup strayed'
               PROVE  K!SameRow(item)' \/ Owed(item)'
    BY <1>1 DEF CopyFollows
  <2>1. K!SameRow(item) \/ Owed(item)
    BY <1>1 DEF CatalogInv, CopyFollows
  <2> QED
    BY <1>1, <1>6, <2>1 DEF K!SameRow
<1> QED
  BY <1>5, <1>7, <1>8 DEF CatalogInv

LEMMA CatalogStep == CatalogInv /\ [K!Next]_K!vars => CatalogInv'
<1> SUFFICES ASSUME CatalogInv, [K!Next]_K!vars PROVE CatalogInv'
  OBVIOUS
<1>1. ASSUME NEW entry \in CliEntry, K!Create(entry) PROVE CatalogInv'
  <2>1. /\ table' = K!Upserted(table, entry) /\ drops' = drops
        /\ meddled' = meddled \cup {entry.item}
        /\ UNCHANGED <<files, stage, loaded, cache, queue, draining, strayed>>
    BY <1>1 DEF K!Create, K!Cli, K!process
  <2>2. /\ DOMAIN table' = DOMAIN table \cup {entry.item}
        /\ \A i \in DOMAIN table : i # entry.item => table'[i] = table[i]
    BY <2>1, RowsKept
  <2> QED
    BY <2>1, <2>2, TableOnly DEF CatalogInv, NamesAreKnown
<1>2. ASSUME NEW item \in Item, K!Delete(item) PROVE CatalogInv'
  <2>1. /\ table' = [i \in DOMAIN table \ {item} |-> table[i]]
        /\ drops' = {d \in drops : d[1] # item} /\ meddled' = meddled \cup {item}
        /\ UNCHANGED <<files, stage, loaded, cache, queue, draining, strayed>>
    BY <1>2 DEF K!Delete, K!Cli, K!process, K!Restrict
  <2> QED
    BY <2>1, TableOnly DEF CatalogInv, NamesAreKnown
<1>3. ASSUME NEW item \in Item, NEW source \in DropSource,
             K!LinkDropSource(item, source) \/ K!UnlinkDropSource(item, source)
      PROVE  CatalogInv'
  <2>1. /\ UNCHANGED <<files, table, stage, loaded, cache, queue, draining, strayed, meddled>>
        /\ \A d \in drops' : d[1] \in DOMAIN table
    BY <1>3 DEF K!LinkDropSource, K!UnlinkDropSource, K!process, CatalogInv, NamesAreKnown
  <2> QED
    BY <2>1 DEF CatalogInv, QueuesAreOfARun, OnlyTheLastIsNew, CopyFollows, Owed, K!SameRow,
       NamesAreKnown
<1>4. CASE K!Start
  BY <1>4 DEF K!Start, CatalogInv, QueuesAreOfARun, OnlyTheLastIsNew, CopyFollows, K!SameRow,
     NamesAreKnown
<1>5. CASE K!LoadPlugin
  <2> DEFINE entries == K!Valid(OnLoad[loaded + 1])
  <2>1. /\ stage = "loading" /\ cache' = K!AllUpserted(cache, entries)
        /\ table' = K!AllUpserted(table, entries)
        /\ UNCHANGED <<files, drops, stage, queue, draining, meddled, strayed>>
    BY <1>5 DEF K!LoadPlugin
  <2> HIDE DEF entries
  <2>2. QueuesAreOfARun' /\ OnlyTheLastIsNew' /\ draining = None
    BY <2>1 DEF CatalogInv, QueuesAreOfARun, OnlyTheLastIsNew
  <2>3. CopyFollows'
    <3> SUFFICES ASSUME NEW item, item \notin meddled \cup strayed PROVE K!SameRow(item)'
      BY <2>1 DEF CopyFollows
    <3>1. /\ item \in DOMAIN cache <=> item \in DOMAIN table
          /\ item \in DOMAIN cache => cache[item] = table[item]
      BY <2>1, <2>2 DEF CatalogInv, CopyFollows, Owed, K!SameRow
    <3> QED
      BY <2>1, <3>1, LoadedAlike DEF K!SameRow
  <2>4. DOMAIN table \subseteq DOMAIN table'
    BY <2>1, LoadingAdds
  <2>5. NamesAreKnown'
    BY <2>1, <2>4 DEF CatalogInv, NamesAreKnown
  <2> QED
    BY <2>2, <2>3, <2>5 DEF CatalogInv
<1>6. CASE K!LoadSchemas
  <2>1. /\ stage = "loading" /\ stage' \in {"up", "refused"}
        /\ stage' = "up" => K!AcceptsSchemas(files, cache)
        /\ UNCHANGED <<files, table, drops, cache, queue, draining, meddled, strayed>>
    BY <1>6 DEF K!LoadSchemas
  <2>2. draining = None /\ strayed = {} /\ DOMAIN cache \subseteq DOMAIN table \cup meddled
    BY <2>1 DEF CatalogInv, QueuesAreOfARun, CopyFollows, Owed, K!SameRow
  <2>3. stage' = "up" => K!Referenced(files) \subseteq DOMAIN cache
    BY <2>1, AcceptedIsKnown
  <2> QED
    BY <2>1, <2>2, <2>3 DEF CatalogInv, QueuesAreOfARun, OnlyTheLastIsNew, CopyFollows, Owed,
       K!SameRow, NamesAreKnown
<1>7. CASE K!Stop
  BY <1>7 DEF K!Stop, CatalogInv, QueuesAreOfARun, OnlyTheLastIsNew, CopyFollows, NamesAreKnown
<1>8. ASSUME NEW p \in K!Plugin, NEW entry \in HookEntry, NEW applied \in BOOLEAN,
             K!Hook(p, entry, applied)
      PROVE  CatalogInv'
  BY <1>8, HookKeeps
<1>9. CASE K!Drain
  BY <1>9, DrainKeeps
<1>11. CASE K!DrainFails
  BY <1>11, DrainFailsKeeps
<1>12. CASE K!LoadPluginFails
  <2> DEFINE entries == K!Valid(OnLoad[loaded + 1])
  <2>1. PICK n \in 1..Len(entries) : table' = K!AllUpserted(table, SubSeq(entries, 1, n - 1))
    BY <1>12 DEF K!LoadPluginFails
  <2>2. /\ stage = "loading" /\ stage' = "refused"
        /\ UNCHANGED <<files, drops, cache, queue, draining, meddled, strayed>>
    BY <1>12 DEF K!LoadPluginFails
  <2>3. DOMAIN table \subseteq DOMAIN table'
    BY <2>1, LoadingAdds
  <2> QED
    BY <2>2, <2>3 DEF CatalogInv, QueuesAreOfARun, OnlyTheLastIsNew, CopyFollows, NamesAreKnown
<1>10. CASE UNCHANGED K!vars
  BY <1>10 DEF K!vars, CatalogInv, QueuesAreOfARun, OnlyTheLastIsNew, CopyFollows, Owed,
     K!SameRow, NamesAreKnown
<1> QED
  BY <1>1, <1>2, <1>3, <1>4, <1>5, <1>6, <1>7, <1>8, <1>9, <1>10, <1>11, <1>12
  DEF K!Next

\* While a server runs (main.rs, plugin_startup.rs, drain_and_apply_plugin_effects),
\* its copy of the item catalog is the table for every item that make items has not
\* written and of which no registration failed or was left without a dispatch; what recipes and equipment name is in
\* the table; and every drop source is of an item in it.
THEOREM CopyIsTheTable == K!Spec => []CatalogHolds
<1>1. CatalogInv => CatalogHolds
  BY DEF CatalogInv, QueuesAreOfARun, CopyFollows, Owed, NamesAreKnown, CatalogHolds, K!CatalogHolds,
     K!SameRow
<1> QED
  BY <1>1, InitCatalog, CatalogStep, PTL DEF K!Spec
==============================================================================
