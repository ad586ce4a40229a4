------------------------- MODULE CharacterSession -------------------------
(***************************************************************************)
(* The life of a character's session: handle_session's character loop,    *)
(* join, heartbeat and disconnect paths, over the two tables that record  *)
(* who is playing a character (character_sessions, the open-realm lease,  *)
(* and character_bound_liveness), with the two lobby requests that must   *)
(* not touch a character in play, DeleteCharacter and RequestTransfer.    *)
(*                                                                         *)
(* A connection is named by its EntityId, generated afresh per connection *)
(* and used as the lease holder's name.  A realm may be served by several *)
(* processes (WZ_ZONE_IDS), each with worlds and maps of its own.  Every  *)
(* await of the handler that touches shared state is a step of its own.   *)
(*                                                                         *)
(* Database time is kept as what is left of a row: left > 0 is            *)
(* "expires_at > now()", left < 0 is "expires_at < now()", and at 0 the   *)
(* row is neither active nor reclaimable.                                 *)
(***************************************************************************)
EXTENDS Integers

CONSTANTS
    Character,    \* the account's characters (character ids are never reused)
    Realm,
    OpenRealm,    \* the realms whose open_or_bound is Open
    Server,       \* combined server processes
    RealmOf,      \* the realm each of them serves
    Connection,   \* entity ids
    ServerOf,     \* the process a connection is made to
    FirstHome,    \* characters.realm_id when the behaviour starts
    Ttl,          \* lease_ttl, in ticks
    Punctual,     \* TRUE: heartbeats and clean-ups beat the TTL
    None          \* no connection, no character, no realm

ASSUME ConstantsAssumption ==
    /\ OpenRealm \subseteq Realm
    /\ RealmOf \in [Server -> Realm]
    /\ ServerOf \in [Connection -> Server]
    /\ FirstHome \in [Character -> Realm]
    /\ Ttl \in Nat \ {0}
    /\ Punctual \in BOOLEAN
    /\ None \notin Connection \cup Character \cup Realm
    /\ {"free", "orphaned"} \cap Connection = {}

VARIABLES
    exists,               \* characters that have a row in `characters`
    home,                 \* characters.realm_id
    lease,                \* character_sessions: holder and time left
    live,                 \* character_bound_liveness: row present, time left
    entity_characters,    \* the entities in a process's world, and of whom
    character_entities,   \* per process: character id -> entity id
    pc,                   \* where each connection's handle_session stands
    sel                   \* what it read: character, realm, still current?

tables  == <<exists, home, lease, live>>
worlds  == <<entity_characters, character_entities>>
vars    == <<exists, home, lease, live, entity_characters,
             character_entities, pc, sel>>

NoLease     == [holder |-> None, left |-> 0]
NoLive      == [row |-> FALSE, left |-> 0]
NoSelection == [char |-> None, realm |-> None, fresh |-> FALSE]

RealmHere(c)    == RealmOf[ServerOf[c]]
Open(c)         == RealmHere(c) \in OpenRealm
Leased(ch)      == lease[ch].holder # None
IsActive(ch)    == Leased(ch) /\ lease[ch].left > 0          \* is_active
IsLive(ch)      == live[ch].row /\ live[ch].left > 0         \* is_live
ReclaimableAlways(ch) == Leased(ch)    \* MUTANT: no expiry in acquire's WHERE
ReclaimableNever(ch)  == FALSE         \* MUTANT: no expired lease is taken over
Reclaimable(ch) == Leased(ch) /\ lease[ch].left < 0

\* SELECT ... FOR UPDATE of the characters row, held by a transfer.
Locked(ch)  == \E c \in Connection : pc[c] = "transferring" /\ sel[c].char = ch

\* From a granted authorize_login on an open realm to its lease's release.
Holding(c, ch) ==
    /\ Open(c)
    /\ sel[c].char = ch
    /\ pc[c] \in {"spawning", "joined", "releasing"}

\* The connection's entity stands in its process's world and is driven by it.
Playing(c, ch) == pc[c] = "joined" /\ sel[c].char = ch

\* A write of ch's row: what any connection read of it is no longer current.
Stale(ch) == [c \in Connection |->
                IF sel[c].char = ch THEN [sel[c] EXCEPT !.fresh = FALSE]
                                    ELSE sel[c]]
----------------------------------------------------------------------------
Init ==
    /\ exists = Character
    /\ home = FirstHome
    /\ lease = [ch \in Character |-> NoLease]
    /\ live = [ch \in Character |-> NoLive]
    /\ entity_characters = [c \in Connection |-> None]
    /\ character_entities = [s \in Server |-> [ch \in Character |-> None]]
    /\ pc = [c \in Connection |-> "gone"]
    /\ sel = [c \in Connection |-> NoSelection]

Goto(c, place)  == pc' = [pc EXCEPT ![c] = place]
Forget(c)       == sel' = [sel EXCEPT ![c] = NoSelection]

\* A new connection.  A finite set of names stands for fresh ids, so a name
\* is used again only when no row, world or map still mentions it.
Connect(c) ==
    /\ pc[c] = "gone"
    /\ entity_characters[c] = None
    /\ \A ch \in Character :
          lease[ch].holder # c /\ \A s \in Server : character_entities[s][ch] # c
    /\ Goto(c, "lobby")
    /\ UNCHANGED <<tables, worlds, sel>>

\* SelectCharacter reads the record (get_for_account) ...
SelectCharacter(c, ch) ==
    /\ pc[c] = "lobby"
    /\ ch \in exists
    /\ sel' = [sel EXCEPT ![c] = [char |-> ch, realm |-> home[ch], fresh |-> TRUE]]
    /\ Goto(c, "authorizing")
    /\ UNCHANGED <<tables, worlds>>

\* ... and authorizes the login with it afterwards.  A bound realm compares
\* the record's realm with its own.
AuthorizeBound(c) ==
    /\ pc[c] = "authorizing" /\ ~Open(c)
    /\ IF sel[c].realm = RealmHere(c)
          THEN Goto(c, "entering") /\ UNCHANGED sel
          ELSE Goto(c, "lobby") /\ Forget(c)
    /\ UNCHANGED <<tables, worlds>>

\* An open realm acquires the lease.  A first lease is an INSERT, whose
\* foreign key needs the characters row (and waits for a transfer's lock on
\* it); a lapsed one is taken over in place.
\* MUTANT: the TTL in whole seconds is zero.
AcquireLeaseNoTtl(c) ==
    LET ch == sel[c].char IN
    /\ pc[c] = "authorizing" /\ Open(c)
    /\ (~Leased(ch) /\ ch \in exists /\ ~Locked(ch)) \/ Reclaimable(ch)
    /\ lease' = [lease EXCEPT ![ch] = [holder |-> c, left |-> 0]]
    /\ Goto(c, "spawning")
    /\ UNCHANGED <<exists, home, live, worlds, sel>>

AcquireLease(c) ==
    LET ch == sel[c].char IN
    /\ pc[c] = "authorizing" /\ Open(c)
    /\ \/ ~Leased(ch) /\ ch \in exists /\ ~Locked(ch)
       \/ Reclaimable(ch) \/ lease[ch].holder = c
    /\ lease' = [lease EXCEPT ![ch] = [holder |-> c, left |-> Ttl]]
    /\ Goto(c, "spawning")
    /\ UNCHANGED <<exists, home, live, worlds, sel>>

\* MUTANT: AlreadyActive is not treated as a refusal.
RefuseLeaseIgnored(c) ==
    /\ pc[c] = "authorizing" /\ Open(c)
    /\ Leased(sel[c].char) /\ lease[sel[c].char].holder # c
    /\ Goto(c, "spawning")
    /\ UNCHANGED <<tables, worlds, sel>>

\* AlreadyActive, or the foreign key's error: back to the lobby.
RefuseLease(c) ==
    LET ch == sel[c].char IN
    /\ pc[c] = "authorizing" /\ Open(c)
    /\ \/ Leased(ch) /\ ~Reclaimable(ch) /\ lease[ch].holder # c
       \/ ~Leased(ch) /\ ch \notin exists
    /\ Goto(c, "lobby") /\ Forget(c)
    /\ UNCHANGED <<tables, worlds>>

\* bound_liveness.join: an INSERT (foreign key, row lock) or, over a row that
\* is already there, an unconditional refresh.
Join(ch) ==
    /\ live[ch].row \/ (ch \in exists /\ ~Locked(ch))
    /\ live' = [live EXCEPT ![ch] = [row |-> TRUE, left |-> Ttl]]

JoinLiveness(c) ==
    /\ pc[c] = "entering"
    /\ Join(sel[c].char)
    /\ Goto(c, "spawning")
    /\ UNCHANGED <<exists, home, lease, worlds, sel>>

\* MUTANT: the map keeps an entry that is already there.
SpawnKeepOld(c) ==
    LET ch == sel[c].char  s == ServerOf[c] IN
    /\ pc[c] = "spawning"
    /\ entity_characters' = [entity_characters EXCEPT ![c] = ch]
    /\ character_entities' =
          [character_entities EXCEPT ![s][ch] = IF @ = None THEN c ELSE @]
    /\ Goto(c, "joined")
    /\ UNCHANGED <<tables, sel>>

\* world.spawn and the two maps, from the record read at SelectCharacter.
Spawn(c) ==
    /\ pc[c] = "spawning"
    /\ entity_characters' = [entity_characters EXCEPT ![c] = sel[c].char]
    /\ character_entities' =
          [character_entities EXCEPT ![ServerOf[c]][sel[c].char] = c]
    /\ Goto(c, "joined")
    /\ UNCHANGED <<tables, sel>>

\* MUTANT: the renewal adds the TTL to what is left.
RenewLeaseExtends(c) ==
    LET ch == sel[c].char IN
    /\ pc[c] = "joined" /\ Open(c)
    /\ lease[ch].holder = c
    /\ lease' = [lease EXCEPT ![ch].left = @ + Ttl]
    /\ UNCHANGED <<exists, home, live, worlds, pc, sel>>

\* renew on an open realm: no test of the expiry, and its failure (no row of
\* this holder) is only logged.
RenewLease(c) ==
    LET ch == sel[c].char IN
    /\ pc[c] = "joined" /\ Open(c)
    /\ lease[ch].holder = c
    /\ lease' = [lease EXCEPT ![ch].left = Ttl]
    /\ UNCHANGED <<exists, home, live, worlds, pc, sel>>

\* The bound realm's heartbeat is the same join again.
RefreshLiveness(c) ==
    /\ pc[c] = "joined" /\ ~Open(c)
    /\ Join(sel[c].char)
    /\ UNCHANGED <<exists, home, lease, worlds, pc, sel>>

\* The socket closes: the entity leaves the world and the maps.  The entry of
\* character_entities goes whichever entity it names.
Despawn(c) ==
    /\ pc[c] = "joined"
    /\ entity_characters' = [entity_characters EXCEPT ![c] = None]
    /\ character_entities' =
          [character_entities EXCEPT ![ServerOf[c]][sel[c].char] = None]
    /\ Goto(c, "releasing")
    /\ UNCHANGED <<tables, sel>>

\* release: DELETE by character id, whoever the holder is; run on bound realms
\* as well.  A database error is only logged, and the lease stays.
ReleaseLease(c) ==
    /\ pc[c] = "releasing"
    /\ \/ lease' = [lease EXCEPT ![sel[c].char] = NoLease]
       \/ UNCHANGED lease
    /\ Goto(c, "leaving")
    /\ UNCHANGED <<exists, home, live, worlds, sel>>

LeaveLiveness(c) ==
    /\ pc[c] = "leaving"
    /\ \/ live' = [live EXCEPT ![sel[c].char] = NoLive]
       \/ UNCHANGED live
    /\ Goto(c, "saving")
    /\ UNCHANGED <<exists, home, lease, worlds, sel>>

\* MUTANT: the save does not wait for the row's lock.
SavePositionUnlocked(c) ==
    /\ pc[c] = "saving"
    /\ sel' = [Stale(sel[c].char) EXCEPT ![c] = NoSelection]
    /\ Goto(c, "gone")
    /\ UNCHANGED <<tables, worlds>>

\* The very last statement writes the position and zone back (of no row, when
\* the character was deleted meanwhile).
SavePosition(c) ==
    LET ch == sel[c].char IN
    /\ pc[c] = "saving"
    /\ ~Locked(ch)
    /\ sel' = [Stale(ch) EXCEPT ![c] = NoSelection]
    /\ Goto(c, "gone")
    /\ UNCHANGED <<tables, worlds>>
----------------------------------------------------------------------------
\* DeleteCharacter reads the row and the lease, then the liveness row, then
\* deletes: three statements, no transaction.
RequestDelete(c, ch) ==
    /\ pc[c] = "lobby"
    /\ ch \in exists
    /\ ~IsActive(ch)
    /\ sel' = [sel EXCEPT ![c] = [char |-> ch, realm |-> None, fresh |-> TRUE]]
    /\ Goto(c, "checking")
    /\ UNCHANGED <<tables, worlds>>

CheckLive(c) ==
    /\ pc[c] = "checking"
    /\ IF IsLive(sel[c].char)
          THEN Goto(c, "lobby") /\ Forget(c)
          ELSE Goto(c, "deleting") /\ UNCHANGED sel
    /\ UNCHANGED <<tables, worlds>>

\* DELETE FROM characters cascades to both session tables.
DeleteCharacter(c) ==
    LET ch == sel[c].char IN
    /\ pc[c] = "deleting"
    /\ ~Locked(ch)
    /\ exists' = exists \ {ch}
    /\ lease' = [lease EXCEPT ![ch] = NoLease]
    /\ live' = [live EXCEPT ![ch] = NoLive]
    /\ sel' = [Stale(ch) EXCEPT ![c] = NoSelection]
    /\ Goto(c, "lobby")
    /\ UNCHANGED <<home, worlds>>

\* RequestTransfer: inside one transaction the row is locked, both realms are
\* required to be bound and the liveness row is required to be absent or
\* lapsed (transfer/src/execute.rs) ...
BeginTransfer(c, ch, dest) ==
    /\ pc[c] = "lobby"
    /\ ch \in exists /\ ~Locked(ch)
    /\ home[ch] \notin OpenRealm /\ dest \notin OpenRealm
    /\ ~IsLive(ch)
    /\ sel' = [sel EXCEPT ![c] = [char |-> ch, realm |-> dest, fresh |-> TRUE]]
    /\ Goto(c, "transferring")
    /\ UNCHANGED <<tables, worlds>>

\* ... and the new realm commits later, or a gate refuses and it rolls back.
CommitTransfer(c) ==
    LET ch == sel[c].char IN
    /\ pc[c] = "transferring"
    /\ home' = [home EXCEPT ![ch] = sel[c].realm]
    /\ sel' = [Stale(ch) EXCEPT ![c] = NoSelection]
    /\ Goto(c, "lobby")
    /\ UNCHANGED <<exists, lease, live, worlds>>

AbortTransfer(c) ==
    /\ pc[c] = "transferring"
    /\ Goto(c, "lobby") /\ Forget(c)
    /\ UNCHANGED <<tables, worlds>>
----------------------------------------------------------------------------
\* handle_session returns early, by `?` or at the end of the stream, without
\* any of the clean-up: what it put in the world, the maps and the tables
\* stays.  Past the socket's close only the last write can fail so.
Fail(c) ==
    /\ pc[c] \notin {"gone", "releasing", "leaving"}
    /\ Goto(c, "gone") /\ Forget(c)
    /\ UNCHANGED <<tables, worlds>>

\* The process dies: its worlds and maps are memory, the tables are not, and
\* its open transactions roll back.
Crash(s) ==
    LET lost == {c \in Connection : ServerOf[c] = s} IN
    /\ \E c \in lost : pc[c] # "gone" \/ entity_characters[c] # None
    /\ pc' = [c \in Connection |-> IF c \in lost THEN "gone" ELSE pc[c]]
    /\ sel' = [c \in Connection |-> IF c \in lost THEN NoSelection ELSE sel[c]]
    /\ entity_characters' =
          [c \in Connection |-> IF c \in lost THEN None ELSE entity_characters[c]]
    /\ character_entities' =
          [character_entities EXCEPT ![s] = [ch \in Character |-> None]]
    /\ UNCHANGED tables

Earlier(left) == IF left > -1 THEN left - 1 ELSE left

\* A row whose connection still has it to renew or to delete would lapse now.
Due(c) ==
    LET ch == sel[c].char IN
    \/ /\ pc[c] \in {"spawning", "joined", "releasing"}
       /\ Open(c) /\ lease[ch].holder = c /\ lease[ch].left <= 1
    \/ /\ pc[c] \in {"spawning", "joined", "releasing", "leaving"}
       /\ ~Open(c) /\ live[ch].row /\ live[ch].left <= 1

\* Time passes for every row.  Punctual is the premise of the heartbeat's
\* interval, a third of the TTL: the connections that are alive keep ahead.
Tick ==
    /\ Punctual => \A c \in Connection : ~Due(c)
    /\ \E ch \in Character : \/ Leased(ch) /\ lease[ch].left > -1
                             \/ live[ch].row /\ live[ch].left > -1
    /\ lease' = [ch \in Character |->
                   IF Leased(ch) THEN [lease[ch] EXCEPT !.left = Earlier(@)]
                                 ELSE lease[ch]]
    /\ live' = [ch \in Character |->
                  IF live[ch].row THEN [live[ch] EXCEPT !.left = Earlier(@)]
                                  ELSE live[ch]]
    /\ UNCHANGED <<exists, home, worlds, pc, sel>>
----------------------------------------------------------------------------
Login(c) ==
    \/ \E ch \in Character : SelectCharacter(c, ch)
    \/ AuthorizeBound(c) \/ AcquireLease(c) \/ RefuseLease(c)
    \/ JoinLiveness(c) \/ Spawn(c)

Heartbeat(c) == RenewLease(c) \/ RefreshLiveness(c)

CleanUp(c) == ReleaseLease(c) \/ LeaveLiveness(c) \/ SavePosition(c)

Manage(c) ==
    \/ \E ch \in Character : RequestDelete(c, ch)
    \/ CheckLive(c) \/ DeleteCharacter(c)
    \/ \E ch \in Character, dest \in Realm : BeginTransfer(c, ch, dest)
    \/ CommitTransfer(c) \/ AbortTransfer(c)

Session(c) ==
    \/ Connect(c) \/ Login(c) \/ Heartbeat(c) \/ Despawn(c)
    \/ CleanUp(c) \/ Manage(c) \/ Fail(c)

Next ==
    \/ \E c \in Connection : Session(c)
    \/ \E s \in Server : Crash(s)
    \/ Tick

Spec == Init /\ [][Next]_vars
----------------------------------------------------------------------------
\* What fairness the code justifies: the handler's own tasks run on (its
\* heartbeat timer, its joins and its clean-up), and time passes.  Nobody has
\* to connect, to leave or to fail.
Fairness ==
    /\ WF_vars(Tick)
    /\ \A c \in Connection :
          /\ WF_vars(Heartbeat(c))
          /\ WF_vars(JoinLiveness(c) \/ Spawn(c))
          /\ WF_vars(CleanUp(c))

FairSpec == Spec /\ Fairness
----------------------------------------------------------------------------
Selection == [char : Character \cup {None}, realm : Realm \cup {None},
              fresh : BOOLEAN]
LeaseRow  == [holder : Connection \cup {None}, left : -1..Ttl]
LiveRow   == [row : BOOLEAN, left : -1..Ttl]

\* Every variable has its type.
TypeOK ==
    /\ exists \subseteq Character
    /\ home \in [Character -> Realm]
    /\ lease \in [Character -> LeaseRow]
    /\ live \in [Character -> LiveRow]
    /\ entity_characters \in [Connection -> Character \cup {None}]
    /\ character_entities \in
          [Server -> [Character -> Connection \cup {None}]]
    /\ pc \in [Connection ->
                {"gone", "lobby", "authorizing", "entering", "spawning", "joined",
                 "releasing", "leaving", "saving", "checking", "deleting",
                 "transferring"}]
    /\ sel \in [Connection -> Selection]

InPlay(c, ch) == sel[c].char = ch /\ pc[c] \in {"spawning", "joined", "releasing"}

OpenCharacter == {ch \in Character : FirstHome[ch] \in OpenRealm}

\* A character of an open realm is in play through one connection at a time,
\* over all processes: what authorize_login's lease, its renewal and its
\* release are there for.
OneSession ==
    \A ch \in OpenCharacter : \A c, d \in Connection :
        InPlay(c, ch) /\ InPlay(d, ch) => c = d

\* For as long as the connection is in play, the character's row, unless it was
\* deleted, has an unexpired lease in that connection's name: no other
\* connection's release or acquire has taken it.
LeaseCoversSession ==
    \A ch \in OpenCharacter : \A c \in Connection :
        InPlay(c, ch) /\ ch \in exists => lease[ch].holder = c /\ lease[ch].left > 0

\* The process's character_entities leads from a character in play to the
\* entity that is driven now, never to an older entity of the character, and
\* no other connection's clean-up has removed the entry.
LookupFindsSession ==
    \A ch \in OpenCharacter : \A c \in Connection :
        Playing(c, ch) => character_entities[ServerOf[c]][ch] = c

\* The inductive invariant behind the three: characters that began on an open
\* realm stay there and are refused by bound realms, a deleted character has no
\* lease, and a lease is never in the name of a connection yet to acquire it.
HomesStayOpen == \A ch \in OpenCharacter : home[ch] \in OpenRealm

BoundRealmsRefuse ==
    \A c \in Connection : sel[c].char \in OpenCharacter =>
        /\ pc[c] = "authorizing" => sel[c].realm \in OpenRealm
        /\ pc[c] \notin {"entering", "transferring"}
        /\ pc[c] \in {"spawning", "joined", "releasing"} => Open(c)

LeasesOfExisting == \A ch \in Character : Leased(ch) => ch \in exists

HoldersAcquired ==
    \A c \in Connection, ch \in Character : lease[ch].holder = c =>
        pc[c] \in {"gone", "spawning", "joined", "releasing", "leaving", "saving"}

SessionInv ==
    /\ HomesStayOpen
    /\ BoundRealmsRefuse
    /\ LeasesOfExisting
    /\ HoldersAcquired
    /\ LeaseCoversSession
    /\ OneSession

\* What a transfer read under its row lock holds until it commits: no position
\* save, deletion or other transfer of the character comes in between.
TransferIsolated ==
    \A c \in Connection :
        pc[c] = "transferring" => sel[c].fresh /\ sel[c].char \in exists

\* A liveness row that no session stands behind stops counting as live, so a
\* crash does not bar a character from deletion and transfer for ever.
LivenessLapses ==
    \A ch \in Character :
        IsLive(ch) /\ (\A c \in Connection : sel[c].char # ch)
            ~> ~IsLive(ch) \/ \E c \in Connection : sel[c].char = ch
----------------------------------------------------------------------------
\* Who has an open realm's character: the connection in play, nobody while a
\* lease without one still blocks it, or nobody at all.
Status(ch) ==
    IF \E c \in Connection : InPlay(c, ch)
       THEN CHOOSE c \in Connection : InPlay(c, ch)
       ELSE IF Leased(ch) /\ ~Reclaimable(ch) THEN "orphaned" ELSE "free"

Abstract == INSTANCE ExclusiveLogin WITH
    Character <- OpenCharacter, Free <- "free", Orphaned <- "orphaned",
    status <- [ch \in OpenCharacter |-> Status(ch)]

\* Sessions and leases implement the exclusive login the policy promises.
ImplementsExclusiveLogin == Abstract!Spec

\* ... and, given fair timers and clean-ups, no ended session blocks its
\* character for ever.
OrphansAreReleased == Abstract!Released
----------------------------------------------------------------------------
(* What the repository says of this program and the program does not do.   *)
(* Each is checked in a run of its own, which ends in a counterexample.    *)

\* Two processes never have the same character in their worlds
\* (Realm_Character_Policy_Spec: "must never simulate the same character
\* concurrently").  An early return leaves its entity behind in the world.
NeverInTwoWorlds ==
    \A c, d \in Connection :
        /\ entity_characters[c] \in OpenCharacter
        /\ entity_characters[c] = entity_characters[d]
        => ServerOf[c] = ServerOf[d]

\* When the lease is granted, the state in use was read under it (same spec:
\* "on success, character state is read fresh").  It is read before.
StateReadUnderLease ==
    \A c \in Connection :
        pc[c] = "spawning" /\ Open(c) /\ sel[c].char \in exists => sel[c].fresh

\* A transfer never changes the realm of a character that a bound realm has in
\* play (spec, step 1: "a transfer never races a live session").
TransferSparesConnected ==
    [][\A ch \in Character : home'[ch] # home[ch] =>
          \A c \in Connection : Playing(c, ch) => Open(c)]_vars
=============================================================================
