--------------------------- MODULE SessionsProofs ---------------------------
(***************************************************************************)
(* What is proved of sessions, for any characters, realms and connections  *)
(* and any TTL: who plays a character plays it alone and is found, the     *)
(* whole implements ExclusiveLogin, and what a transfer read is so when it *)
(* commits.                                                                *)
(*                                                                         *)
(* And of transfers statement by statement, for any characters, realms,    *)
(* attempts, gates and stats, any size of the pool and any number of       *)
(* things that happen beside them: every move is recorded and paid for     *)
(* once, and no client is told what is not so.  This rests on the lock of  *)
(* the character's row: what an attempt has read under it is still there   *)
(* when it commits, and the records of an attempt are written by its last  *)
(* two statements only.                                                    *)
(***************************************************************************)
EXTENDS Sessions, FiniteSetTheorems, SequenceTheorems, TLAPS

\* Places of handle_session where a character has been selected.
WithCharacter ==
    {"authorizing", "entering", "spawning", "joined", "releasing", "leaving",
     "saving", "checking", "deleting", "transferring"}

\* A selection that is in use names a character, and a transfer's a realm.
SelectionNamed ==
    \A c \in Connection :
        /\ pc[c] \in WithCharacter => sel[c].char \in Character
        /\ pc[c] = "transferring" => sel[c].realm \in Realm

TypeInv == TypeOK /\ SelectionNamed

LEMMA InitTypeInv == Init => TypeInv
  BY ConstantsAssumption DEF Init, TypeInv, TypeOK, SelectionNamed, WithCharacter, NoLease, NoLive,
         NoSelection, LeaseRow, LiveRow, Selection

\* Stale only resets the freshness marks.
LEMMA StaleType ==
  ASSUME TypeOK, NEW ch \in Character
  PROVE  /\ Stale(ch) \in [Connection -> Selection]
         /\ \A c \in Connection : Stale(ch)[c].char = sel[c].char
                               /\ Stale(ch)[c].realm = sel[c].realm
<1>1. ASSUME NEW s \in Selection
      PROVE  LET t == [s EXCEPT !.fresh = FALSE] IN
             t \in Selection /\ t.char = s.char /\ t.realm = s.realm
  BY DEF Selection
<1>2. ASSUME NEW c \in Connection
      PROVE  Stale(ch)[c] = IF sel[c].char = ch THEN [sel[c] EXCEPT !.fresh = FALSE]
                                               ELSE sel[c]
  BY DEF Stale
<1>3. ASSUME NEW c \in Connection
      PROVE  /\ Stale(ch)[c] \in Selection
             /\ Stale(ch)[c].char = sel[c].char
             /\ Stale(ch)[c].realm = sel[c].realm
  <2>1. sel[c] \in Selection
    BY DEF TypeOK
  <2>2. CASE sel[c].char = ch
    BY <1>1, <1>2, <2>1, <2>2
  <2>3. CASE sel[c].char # ch
    BY <1>2, <2>1, <2>3
  <2>4. QED
    BY <2>2, <2>3
<1>4. Stale(ch) \in [Connection -> Selection]
  BY <1>3 DEF Stale
<1>5. QED
  BY <1>3, <1>4

\* Rows keep their type as time passes.
LEMMA TickType ==
  ASSUME TypeOK, Tick
  PROVE  TypeOK'
<1>1. \A x \in -1..Ttl : Earlier(x) \in -1..Ttl
  BY ConstantsAssumption DEF Earlier
<1>2. ASSUME NEW r \in LeaseRow
      PROVE  [r EXCEPT !.left = Earlier(@)] \in LeaseRow
  BY <1>1 DEF LeaseRow
<1>3. ASSUME NEW r \in LiveRow
      PROVE  [r EXCEPT !.left = Earlier(@)] \in LiveRow
  BY <1>1 DEF LiveRow
<1>4. lease' \in [Character -> LeaseRow]
  BY <1>2 DEF Tick, TypeOK
<1>5. live' \in [Character -> LiveRow]
  BY <1>3 DEF Tick, TypeOK
<1>6. QED
  BY <1>4, <1>5 DEF Tick, TypeOK, worlds

\* A deletion of a row at the connection's character keeps the tables typed.
LEMMA RowTypes ==
  /\ NoLease \in LeaseRow /\ NoLive \in LiveRow /\ NoSelection \in Selection
  /\ \A c \in Connection : [holder |-> c, left |-> Ttl] \in LeaseRow
  /\ [row |-> TRUE, left |-> Ttl] \in LiveRow
  BY ConstantsAssumption DEF NoLease, NoLive, NoSelection, LeaseRow, LiveRow, Selection

THEOREM TypeStep == TypeInv /\ [Next]_vars => TypeInv'
<1> SUFFICES ASSUME TypeInv, [Next]_vars
             PROVE  TypeInv'
  OBVIOUS
<1> USE DEF TypeInv, SelectionNamed, WithCharacter, Goto, Forget, tables, worlds
<1> USE RowTypes
<1>1. ASSUME NEW c \in Connection, Connect(c)
      PROVE  TypeInv'
  BY <1>1 DEF Connect, TypeOK
<1>2. ASSUME NEW c \in Connection, Login(c)
      PROVE  TypeInv'
  <2>1. ASSUME NEW ch \in Character, SelectCharacter(c, ch)
        PROVE  TypeInv'
    BY <2>1 DEF SelectCharacter, TypeOK, Selection
  <2>2. CASE AuthorizeBound(c)
    <3>1. CASE sel[c].realm = RealmHere(c)
      BY <2>2, <3>1 DEF AuthorizeBound, TypeOK
    <3>2. CASE sel[c].realm # RealmHere(c)
      <4>1. pc' = [pc EXCEPT ![c] = "lobby"] /\ sel' = [sel EXCEPT ![c] = NoSelection]
        BY <2>2, <3>2 DEF AuthorizeBound
      <4>2. QED
        BY <2>2, <4>1 DEF AuthorizeBound, TypeOK
    <3>3. QED
      BY <3>1, <3>2
  <2>3. CASE AcquireLease(c)
    BY <2>3 DEF AcquireLease, TypeOK
  <2>4. CASE RefuseLease(c)
    BY <2>4 DEF RefuseLease, TypeOK
  <2>5. CASE JoinLiveness(c)
    BY <2>5 DEF JoinLiveness, Join, TypeOK
  <2>6. CASE Spawn(c)
    BY <2>6 DEF Spawn, TypeOK
  <2>7. QED
    BY <1>2, <2>1, <2>2, <2>3, <2>4, <2>5, <2>6 DEF Login
<1>3. ASSUME NEW c \in Connection, Heartbeat(c)
      PROVE  TypeInv'
  <2>1. CASE RenewLease(c)
    <3>1. ASSUME NEW r \in LeaseRow
          PROVE  [r EXCEPT !.left = Ttl] \in LeaseRow
      BY DEF LeaseRow
    <3>2. QED
      BY <2>1, <3>1 DEF RenewLease, TypeOK
  <2>2. CASE RefreshLiveness(c)
    BY <2>2 DEF RefreshLiveness, Join, TypeOK
  <2>3. QED
    BY <1>3, <2>1, <2>2 DEF Heartbeat
<1>4. ASSUME NEW c \in Connection, Despawn(c)
      PROVE  TypeInv'
  BY <1>4 DEF Despawn, TypeOK
<1>5. ASSUME NEW c \in Connection, CleanUp(c)
      PROVE  TypeInv'
  <2>1. CASE ReleaseLease(c)
    <3>1. lease' \in [Character -> LeaseRow]
      BY <2>1 DEF ReleaseLease, TypeOK
    <3>2. QED
      BY <2>1, <3>1 DEF ReleaseLease, TypeOK
  <2>2. CASE LeaveLiveness(c)
    <3>1. live' \in [Character -> LiveRow]
      BY <2>2 DEF LeaveLiveness, TypeOK
    <3>2. QED
      BY <2>2, <3>1 DEF LeaveLiveness, TypeOK
  <2>3. CASE SavePosition(c)
    <3>1. sel[c].char \in Character
      BY <2>3 DEF SavePosition
    <3>2. /\ sel' \in [Connection -> Selection]
          /\ \A d \in Connection \ {c} : /\ sel'[d].char = sel[d].char
                                       /\ sel'[d].realm = sel[d].realm
      BY <2>3, <3>1, StaleType DEF SavePosition, TypeOK
    <3>3. QED
      BY <2>3, <3>1, <3>2 DEF SavePosition, TypeOK
  <2>4. QED
    BY <1>5, <2>1, <2>2, <2>3 DEF CleanUp
<1>6. ASSUME NEW c \in Connection, Manage(c)
      PROVE  TypeInv'
  <2>1. ASSUME NEW ch \in Character, RequestDelete(c, ch)
        PROVE  TypeInv'
    BY <2>1 DEF RequestDelete, TypeOK, Selection
  <2>2. CASE CheckLive(c)
    <3>1. CASE IsLive(sel[c].char)
      <4>1. pc' = [pc EXCEPT ![c] = "lobby"] /\ sel' = [sel EXCEPT ![c] = NoSelection]
        BY <2>2, <3>1 DEF CheckLive
      <4>2. QED
        BY <2>2, <4>1 DEF CheckLive, TypeOK
    <3>2. CASE ~IsLive(sel[c].char)
      BY <2>2, <3>2 DEF CheckLive, TypeOK
    <3>3. QED
      BY <3>1, <3>2
  <2>3. CASE DeleteCharacter(c)
    <3>1. sel[c].char \in Character
      BY <2>3 DEF DeleteCharacter
    <3>2. /\ sel' \in [Connection -> Selection]
          /\ \A d \in Connection \ {c} : /\ sel'[d].char = sel[d].char
                                       /\ sel'[d].realm = sel[d].realm
      BY <2>3, <3>1, StaleType DEF DeleteCharacter, TypeOK
    <3>3. QED
      BY <2>3, <3>1, <3>2 DEF DeleteCharacter, TypeOK
  <2>4. ASSUME NEW ch \in Character, NEW dest \in Realm, BeginTransfer(c, ch, dest)
        PROVE  TypeInv'
    BY <2>4 DEF BeginTransfer, TypeOK, Selection
  <2>5. CASE CommitTransfer(c)
    <3>1. home' \in [Character -> Realm]
      BY <2>5 DEF CommitTransfer, TypeOK
    <3>2. /\ sel[c].char \in Character /\ UNCHANGED <<exists, lease, live, worlds>>
          /\ sel' = [Stale(sel[c].char) EXCEPT ![c] = NoSelection]
          /\ pc' = [pc EXCEPT ![c] = "lobby"]
      BY <2>5 DEF CommitTransfer
    <3>3. /\ sel' \in [Connection -> Selection]
          /\ \A d \in Connection \ {c} : /\ sel'[d].char = sel[d].char
                                       /\ sel'[d].realm = sel[d].realm
      BY <3>2, StaleType DEF TypeOK
    <3>4. QED
      BY <3>1, <3>2, <3>3 DEF TypeOK
  <2>6. CASE AbortTransfer(c)
    BY <2>6 DEF AbortTransfer, TypeOK
  <2>7. QED
    BY <1>6, <2>1, <2>2, <2>3, <2>4, <2>5, <2>6 DEF Manage
<1>7. ASSUME NEW c \in Connection, Fail(c)
      PROVE  TypeInv'
  BY <1>7 DEF Fail, TypeOK
<1>8. ASSUME NEW s \in Server, Crash(s)
      PROVE  TypeInv'
  BY <1>8 DEF Crash, TypeOK
<1>9. CASE Tick
  BY <1>9, TickType DEF Tick
<1>10. CASE UNCHANGED vars
  BY <1>10 DEF vars, TypeOK
<1>11. QED
  BY <1>1, <1>2, <1>3, <1>4, <1>5, <1>6, <1>7, <1>8, <1>9, <1>10 DEF Next, Session

\* Every variable keeps its type (TypeOK), and a selection in use names a
\* character.
THEOREM TypeCorrect == Spec => []TypeOK
<1>1. Spec => []TypeInv
  BY InitTypeInv, TypeStep, PTL DEF Spec
<1>2. TypeInv => TypeOK
  BY DEF TypeInv
<1>3. QED
  BY <1>1, <1>2, PTL

----------------------------------------------------------------------------
LEMMA InitSessionInv == Init => SessionInv
  BY DEF Init, SessionInv, HomesStayOpen, BoundRealmsRefuse, LeasesOfExisting,
         HoldersAcquired, LeaseCoversSession, OneSession, OpenCharacter, InPlay,
         Leased, NoLease, NoSelection

\* A step that brings no open realm's character into play.
NoNewPlay ==
    \A d \in Connection, k \in OpenCharacter : InPlay(d, k)' => InPlay(d, k)

\* A step of one connection that takes no lease, deletes no row and moves no
\* home keeps SessionInv, if it does not bring the connection into play.
LEMMA Frame ==
  ASSUME TypeInv, SessionInv, NEW c \in Connection,
         UNCHANGED <<exists, home, lease>>,
         \A d \in Connection \ {c} :
            pc'[d] = pc[d] /\ sel'[d].char = sel[d].char /\ sel'[d].realm = sel[d].realm,
         \A ch \in OpenCharacter : InPlay(c, ch)' => InPlay(c, ch),
         \A ch \in Character : lease[ch].holder = c =>
            pc'[c] \in {"gone", "spawning", "joined", "releasing", "leaving", "saving"},
         sel'[c].char \in OpenCharacter =>
            /\ pc'[c] = "authorizing" => sel'[c].realm \in OpenRealm
            /\ pc'[c] \notin {"entering", "transferring"}
            /\ pc'[c] \in {"spawning", "joined", "releasing"} => Open(c)
  PROVE  SessionInv' /\ NoNewPlay
<1>1. \A d \in Connection, ch \in OpenCharacter : InPlay(d, ch)' => InPlay(d, ch)
  BY DEF InPlay
<1>2. OpenCharacter \subseteq Character
  BY DEF OpenCharacter
<1>3. HomesStayOpen' /\ LeasesOfExisting'
  BY DEF SessionInv, HomesStayOpen, LeasesOfExisting, Leased, OpenCharacter
<1>4. BoundRealmsRefuse'
  BY DEF SessionInv, BoundRealmsRefuse, OpenCharacter, Open
<1>5. HoldersAcquired'
  BY DEF SessionInv, HoldersAcquired
<1>6. LeaseCoversSession' /\ OneSession'
  BY <1>1, <1>2 DEF SessionInv, LeaseCoversSession, OneSession, OpenCharacter
<1>7. QED
  BY <1>1, <1>3, <1>4, <1>5, <1>6 DEF SessionInv, NoNewPlay

\* The steps that touch neither the leases nor the characters' rows.
LEMMA QuietSteps ==
  ASSUME TypeInv, SessionInv, NEW c \in Connection,
         \/ Connect(c) \/ AuthorizeBound(c) \/ RefuseLease(c) \/ JoinLiveness(c)
         \/ Spawn(c) \/ RefreshLiveness(c) \/ Despawn(c) \/ LeaveLiveness(c)
         \/ SavePosition(c) \/ CheckLive(c) \/ AbortTransfer(c) \/ Fail(c)
         \/ \E ch \in Character : SelectCharacter(c, ch) \/ RequestDelete(c, ch)
         \/ \E ch \in Character, dest \in Realm : BeginTransfer(c, ch, dest)
  PROVE  SessionInv' /\ NoNewPlay /\ UNCHANGED lease
<1> USE DEF SessionInv, BoundRealmsRefuse, HomesStayOpen, HoldersAcquired, InPlay,
            Goto, Forget, NoSelection, tables, worlds
<1>t. /\ pc \in [Connection -> WithCharacter \cup {"gone", "lobby"}]
      /\ sel \in [Connection -> Selection]
  BY DEF TypeInv, TypeOK, WithCharacter
<1>n. None \notin OpenCharacter /\ OpenCharacter \subseteq Character
  BY ConstantsAssumption DEF OpenCharacter
<1>1. CASE Connect(c)
  BY <1>1, <1>t, <1>n, Frame DEF Connect
<1>2. ASSUME NEW ch \in Character, SelectCharacter(c, ch)
      PROVE  SessionInv' /\ NoNewPlay /\ UNCHANGED lease
  BY <1>2, <1>t, <1>n, Frame DEF SelectCharacter
<1>3. CASE AuthorizeBound(c)
  BY <1>3, <1>t, <1>n, Frame DEF AuthorizeBound, Open
<1>4. CASE RefuseLease(c)
  BY <1>4, <1>t, <1>n, Frame DEF RefuseLease
<1>5. CASE JoinLiveness(c)
  BY <1>5, <1>t, <1>n, Frame DEF JoinLiveness
<1>6. CASE Spawn(c)
  BY <1>6, <1>t, <1>n, Frame DEF Spawn
<1>7. CASE RefreshLiveness(c)
  BY <1>7, <1>t, <1>n, Frame DEF RefreshLiveness
<1>8. CASE Despawn(c)
  BY <1>8, <1>t, <1>n, Frame DEF Despawn
<1>9. CASE LeaveLiveness(c)
  BY <1>9, <1>t, <1>n, Frame DEF LeaveLiveness
<1>10. CASE SavePosition(c)
  <2>1. sel[c].char \in Character
    BY <1>10 DEF SavePosition, TypeInv, SelectionNamed, WithCharacter
  <2>2. \A d \in Connection \ {c} : sel'[d].char = sel[d].char /\ sel'[d].realm = sel[d].realm
    BY <1>10, <2>1, StaleType DEF SavePosition, TypeInv
  <2>3. sel'[c] = NoSelection
    BY <1>10, <1>t, <2>1, StaleType DEF SavePosition, TypeInv
  <2>4. QED
    BY <1>10, <1>t, <1>n, <2>2, <2>3, Frame DEF SavePosition
<1>11. ASSUME NEW ch \in Character, RequestDelete(c, ch)
      PROVE  SessionInv' /\ NoNewPlay /\ UNCHANGED lease
  BY <1>11, <1>t, <1>n, Frame DEF RequestDelete
<1>12. CASE CheckLive(c)
  BY <1>12, <1>t, <1>n, Frame DEF CheckLive
<1>13. ASSUME NEW ch \in Character, NEW dest \in Realm, BeginTransfer(c, ch, dest)
      PROVE  SessionInv' /\ NoNewPlay /\ UNCHANGED lease
  BY <1>13, <1>t, <1>n, Frame DEF BeginTransfer
<1>14. CASE AbortTransfer(c)
  BY <1>14, <1>t, <1>n, Frame DEF AbortTransfer
<1>15. CASE Fail(c)
  BY <1>15, <1>t, <1>n, Frame DEF Fail
<1>16. QED
  BY <1>1, <1>2, <1>3, <1>4, <1>5, <1>6, <1>7, <1>8, <1>9, <1>10, <1>11, <1>12, <1>13, <1>14, <1>15

\* The lease is granted only when nobody has the character in play: the row of
\* one who had would be unexpired and in its name.
LEMMA AcquireStep ==
  ASSUME TypeInv, SessionInv, NEW c \in Connection, AcquireLease(c)
  PROVE  /\ SessionInv'
         /\ \A d \in Connection : ~InPlay(d, sel[c].char)
                               \/ sel[c].char \notin OpenCharacter
<1> DEFINE ch == sel[c].char
<1>0. /\ ch \in Character /\ pc[c] = "authorizing" /\ Open(c)
      /\ lease[ch].holder # c
      /\ lease' = [lease EXCEPT ![ch] = [holder |-> c, left |-> Ttl]]
      /\ pc' = [pc EXCEPT ![c] = "spawning"]
      /\ UNCHANGED <<exists, home, sel>>
  BY DEF AcquireLease, TypeInv, SelectionNamed, WithCharacter, Goto, SessionInv,
         HoldersAcquired
<1>1. (~Leased(ch) \/ lease[ch].left < 0) /\ ch \in exists
  BY <1>0 DEF AcquireLease, Reclaimable, SessionInv, LeasesOfExisting
<1>2. ASSUME ch \in OpenCharacter, NEW d \in Connection, InPlay(d, ch)
      PROVE  FALSE
  <2>1. lease[ch].holder = d /\ lease[ch].left > 0
    BY <1>1, <1>2 DEF SessionInv, LeaseCoversSession
  <2>2. lease[ch].left \in Int /\ d # None
    BY <1>0, ConstantsAssumption DEF TypeInv, TypeOK, LeaseRow
  <2>3. QED
    BY <1>1, <2>1, <2>2 DEF Leased
<1>3. /\ pc \in [Connection -> WithCharacter \cup {"gone", "lobby"}]
      /\ lease \in [Character -> LeaseRow] /\ OpenCharacter \subseteq Character
      /\ lease'[ch].holder = c /\ lease'[ch].left = Ttl /\ Ttl > 0
  BY <1>0, ConstantsAssumption DEF TypeInv, TypeOK, WithCharacter, OpenCharacter
<1>4. HomesStayOpen' /\ LeasesOfExisting'
  BY <1>0, <1>1, <1>3 DEF SessionInv, HomesStayOpen, LeasesOfExisting, Leased
<1>5. BoundRealmsRefuse'
  BY <1>0, <1>3 DEF SessionInv, BoundRealmsRefuse, Open
<1>6. HoldersAcquired'
  BY <1>0, <1>3 DEF SessionInv, HoldersAcquired
<1>7. \A d \in Connection, k \in Character :
         InPlay(d, k)' => InPlay(d, k) \/ (d = c /\ k = ch)
  BY <1>0, <1>3 DEF InPlay
<1>8. LeaseCoversSession' /\ OneSession'
  BY <1>0, <1>2, <1>3, <1>7 DEF SessionInv, LeaseCoversSession, OneSession
<1>9. QED
  BY <1>2, <1>4, <1>5, <1>6, <1>8 DEF SessionInv

LEMMA RenewStep ==
  ASSUME TypeInv, SessionInv, NEW c \in Connection, RenewLease(c)
  PROVE  SessionInv' /\ NoNewPlay
<1> DEFINE ch == sel[c].char
<1>0. /\ ch \in Character /\ pc[c] = "joined" /\ lease[ch].holder = c
      /\ UNCHANGED <<exists, home, pc, sel>>
      /\ lease' = [lease EXCEPT ![ch].left = Ttl]
  BY DEF RenewLease, TypeInv, SelectionNamed, WithCharacter
<1>1. lease \in [Character -> LeaseRow] /\ Ttl > 0
  BY ConstantsAssumption DEF TypeInv, TypeOK
<1>2. ASSUME NEW r \in LeaseRow
      PROVE  LET t == [r EXCEPT !.left = Ttl] IN t.holder = r.holder /\ t.left = Ttl
  BY DEF LeaseRow
<1>3. \A k \in Character : /\ lease'[k].holder = lease[k].holder
                          /\ lease'[k].left \in {lease[k].left, Ttl}
  BY <1>0, <1>1, <1>2
<1>4. QED
  BY <1>0, <1>1, <1>3 DEF SessionInv, HomesStayOpen, BoundRealmsRefuse,
     LeasesOfExisting, HoldersAcquired, LeaseCoversSession, OneSession, Leased,
     InPlay, OpenCharacter, Open, NoNewPlay

\* The unconditional DELETE of a release finds the connection's own lease, or
\* none, when the character is an open realm's.
LEMMA ReleaseStep ==
  ASSUME TypeInv, SessionInv, NEW c \in Connection, ReleaseLease(c)
  PROVE  SessionInv' /\ NoNewPlay
<1> DEFINE ch == sel[c].char
<1>0. /\ ch \in Character /\ pc[c] = "releasing" /\ UNCHANGED <<exists, home, sel>>
      /\ pc' = [pc EXCEPT ![c] = "leaving"]
      /\ \A k \in Character \ {ch} : lease'[k] = lease[k]
      /\ lease'[ch] = lease[ch] \/ lease'[ch] = NoLease
  BY DEF ReleaseLease, TypeInv, TypeOK, SelectionNamed, WithCharacter, Goto
<1>1. pc \in [Connection -> WithCharacter \cup {"gone", "lobby"}]
  BY DEF TypeInv, TypeOK, WithCharacter
<1>2. \A d \in Connection, k \in Character :
         InPlay(d, k)' => InPlay(d, k) /\ d # c
  BY <1>0, <1>1 DEF InPlay
<1>3. ASSUME ch \in OpenCharacter, NEW d \in Connection, InPlay(d, ch)
      PROVE  d = c
  BY <1>0, <1>3 DEF SessionInv, OneSession, InPlay
<1>4. NoLease.holder \notin Connection /\ NoLease.holder = None
  BY ConstantsAssumption DEF NoLease
<1>5. HomesStayOpen' /\ BoundRealmsRefuse' /\ LeasesOfExisting' /\ HoldersAcquired'
  BY <1>0, <1>1, <1>4 DEF SessionInv, HomesStayOpen, BoundRealmsRefuse,
     LeasesOfExisting, HoldersAcquired, Leased, Open
<1>6. LeaseCoversSession' /\ OneSession'
  BY <1>0, <1>2, <1>3 DEF SessionInv, LeaseCoversSession, OneSession, OpenCharacter
<1>7. QED
  BY <1>2, <1>5, <1>6 DEF SessionInv, NoNewPlay, OpenCharacter

LEMMA DeleteStep ==
  ASSUME TypeInv, SessionInv, NEW c \in Connection, DeleteCharacter(c)
  PROVE  SessionInv'
<1> DEFINE ch == sel[c].char
<1>0. /\ ch \in Character /\ exists' = exists \ {ch} /\ UNCHANGED home
      /\ lease' = [lease EXCEPT ![ch] = NoLease]
      /\ pc' = [pc EXCEPT ![c] = "lobby"]
      /\ sel' = [Stale(ch) EXCEPT ![c] = NoSelection]
  BY DEF DeleteCharacter, TypeInv, SelectionNamed, WithCharacter, Goto
<1>1. /\ pc \in [Connection -> WithCharacter \cup {"gone", "lobby"}]
      /\ lease \in [Character -> LeaseRow]
  BY DEF TypeInv, TypeOK, WithCharacter
<1>2. /\ \A d \in Connection \ {c} : sel'[d].char = sel[d].char /\ sel'[d].realm = sel[d].realm
      /\ sel'[c].char \notin Character
  BY <1>0, StaleType, ConstantsAssumption DEF TypeInv, NoSelection
<1>3. \A d \in Connection, k \in Character : InPlay(d, k)' => InPlay(d, k) /\ d # c
  BY <1>0, <1>1, <1>2 DEF InPlay
<1>4. \A k \in Character : lease'[k] = IF k = ch THEN NoLease ELSE lease[k]
  BY <1>0, <1>1
<1>5. NoLease.holder \notin Connection /\ NoLease.holder = None
  BY ConstantsAssumption DEF NoLease
<1>6. OpenCharacter \subseteq Character
  BY DEF OpenCharacter
<1>7. HomesStayOpen' /\ LeasesOfExisting'
  BY <1>0, <1>4, <1>5 DEF SessionInv, HomesStayOpen, LeasesOfExisting, Leased
<1>8. BoundRealmsRefuse'
  BY <1>0, <1>1, <1>2, <1>6 DEF SessionInv, BoundRealmsRefuse, Open
<1>9. HoldersAcquired'
  <2>1. \A k \in Character : lease[k].holder # c
    BY DEF DeleteCharacter, SessionInv, HoldersAcquired
  <2>2. QED
    BY <1>0, <1>1, <1>4, <1>5, <2>1 DEF SessionInv, HoldersAcquired
<1>10. LeaseCoversSession' /\ OneSession'
  BY <1>0, <1>3, <1>4, <1>6 DEF SessionInv, LeaseCoversSession, OneSession
<1>11. QED
  BY <1>7, <1>8, <1>9, <1>10 DEF SessionInv

LEMMA TransferStep ==
  ASSUME TypeInv, SessionInv, NEW c \in Connection, CommitTransfer(c)
  PROVE  SessionInv' /\ NoNewPlay
<1> DEFINE ch == sel[c].char
<1>0. /\ ch \in Character /\ UNCHANGED <<exists, lease>>
      /\ home' = [home EXCEPT ![ch] = sel[c].realm]
      /\ pc' = [pc EXCEPT ![c] = "lobby"]
      /\ sel' = [Stale(ch) EXCEPT ![c] = NoSelection]
  BY DEF CommitTransfer, TypeInv, SelectionNamed, WithCharacter, Goto
<1>1. /\ pc \in [Connection -> WithCharacter \cup {"gone", "lobby"}]
      /\ home \in [Character -> Realm] /\ OpenCharacter \subseteq Character
  BY DEF TypeInv, TypeOK, WithCharacter, OpenCharacter
<1>2. /\ \A d \in Connection \ {c} : sel'[d].char = sel[d].char /\ sel'[d].realm = sel[d].realm
      /\ sel'[c].char \notin Character
  BY <1>0, StaleType, ConstantsAssumption DEF TypeInv, NoSelection
<1>3. \A d \in Connection, k \in Character : InPlay(d, k)' => InPlay(d, k) /\ d # c
  BY <1>0, <1>1, <1>2 DEF InPlay
<1>4. ch \notin OpenCharacter
  BY DEF CommitTransfer, SessionInv, BoundRealmsRefuse
<1>5. HomesStayOpen' /\ LeasesOfExisting'
  BY <1>0, <1>1, <1>4 DEF SessionInv, HomesStayOpen, LeasesOfExisting, Leased
<1>6. BoundRealmsRefuse'
  BY <1>0, <1>1, <1>2 DEF SessionInv, BoundRealmsRefuse, Open
<1>7. HoldersAcquired'
  <2>1. \A k \in Character : lease[k].holder # c
    BY DEF CommitTransfer, SessionInv, HoldersAcquired
  <2>2. QED
    BY <1>0, <1>1, <2>1 DEF SessionInv, HoldersAcquired
<1>8. LeaseCoversSession' /\ OneSession'
  BY <1>0, <1>1, <1>3 DEF SessionInv, LeaseCoversSession, OneSession
<1>9. QED
  BY <1>1, <1>3, <1>5, <1>6, <1>7, <1>8 DEF SessionInv, NoNewPlay

LEMMA CrashStep ==
  ASSUME TypeInv, SessionInv, NEW s \in Server, Crash(s)
  PROVE  SessionInv' /\ NoNewPlay
<1>1. /\ UNCHANGED <<exists, home, lease>> /\ OpenCharacter \subseteq Character
      /\ \A d \in Connection : \/ pc'[d] = "gone" /\ sel'[d] = NoSelection
                               \/ pc'[d] = pc[d] /\ sel'[d] = sel[d]
  BY DEF Crash, tables, OpenCharacter
<1>2. \A d \in Connection, k \in Character : InPlay(d, k)' => InPlay(d, k)
  BY <1>1 DEF InPlay
<1>3. QED
  BY <1>1, <1>2 DEF SessionInv, HomesStayOpen, BoundRealmsRefuse, LeasesOfExisting,
     HoldersAcquired, LeaseCoversSession, OneSession, Leased, Open, NoSelection, NoNewPlay

\* Time does not run out under a session in play: that is what Punctual says.
LEMMA TickStep ==
  ASSUME TypeInv, SessionInv, Punctual, Tick
  PROVE  SessionInv'
<1>1. /\ UNCHANGED <<exists, home, pc, sel>> /\ OpenCharacter \subseteq Character
      /\ lease \in [Character -> LeaseRow]
  BY DEF Tick, OpenCharacter, TypeInv, TypeOK
<1>2. ASSUME NEW row \in LeaseRow
      PROVE  LET t == [row EXCEPT !.left = Earlier(@)] IN
             t.holder = row.holder /\ t.left = Earlier(row.left)
  BY DEF LeaseRow
<1>3. \A k \in Character : /\ lease'[k].holder = lease[k].holder
                          /\ \/ lease'[k].left = lease[k].left
                             \/ lease'[k].left = Earlier(lease[k].left)
  BY <1>1, <1>2 DEF Tick
<1>4. ASSUME NEW k \in OpenCharacter, NEW d \in Connection, InPlay(d, k), k \in exists
      PROVE  lease'[k].left > 0
  <2>1. lease[k].holder = d /\ lease[k].left > 0 /\ lease[k].left \in Int
    BY <1>1, <1>4 DEF SessionInv, LeaseCoversSession, LeaseRow
  <2>2. ~Due(d)
    BY DEF Tick
  <2>3. lease[k].left > 1
    BY <1>4, <2>1, <2>2 DEF Due, InPlay, SessionInv, BoundRealmsRefuse
  <2>4. QED
    BY <1>1, <1>3, <2>3 DEF Earlier, LeaseRow
<1>5. QED
  BY <1>1, <1>3, <1>4 DEF SessionInv, HomesStayOpen, BoundRealmsRefuse,
     LeasesOfExisting, HoldersAcquired, LeaseCoversSession, OneSession, Leased,
     Open, InPlay

THEOREM SessionStep == Punctual /\ TypeInv /\ SessionInv /\ [Next]_vars => SessionInv'
<1> SUFFICES ASSUME Punctual, TypeInv, SessionInv, [Next]_vars
             PROVE  SessionInv'
  OBVIOUS
<1>1. ASSUME NEW c \in Connection, Session(c)
      PROVE  SessionInv'
  BY <1>1, QuietSteps, AcquireStep, RenewStep, ReleaseStep, DeleteStep, TransferStep
     DEF Session, Login, Heartbeat, CleanUp, Manage
<1>2. ASSUME NEW s \in Server, Crash(s)
      PROVE  SessionInv'
  BY <1>2, CrashStep
<1>3. CASE Tick
  BY <1>3, TickStep
<1>4. CASE UNCHANGED vars
  BY <1>4 DEF vars, SessionInv, HomesStayOpen, BoundRealmsRefuse, LeasesOfExisting,
     HoldersAcquired, LeaseCoversSession, OneSession, Leased, Open, InPlay
<1>5. QED
  BY <1>1, <1>2, <1>3, <1>4 DEF Next

\* While heartbeats and clean-ups are punctual, the inductive invariant holds ...
THEOREM SessionsInvariant == Punctual => (Spec => []SessionInv)
<1> SUFFICES ASSUME Punctual
             PROVE  Spec => []SessionInv
  OBVIOUS
<1>1. Init => TypeInv /\ SessionInv
  BY InitTypeInv, InitSessionInv
<1>2. TypeInv /\ SessionInv /\ [Next]_vars => TypeInv' /\ SessionInv'
  BY TypeStep, SessionStep
<1>3. QED
  BY <1>1, <1>2, PTL DEF Spec

\* ... and an open realm's character is in play through one connection at a
\* time, over all processes (OneSession).
THEOREM SessionsExclusive == Punctual => (Spec => []OneSession)
<1> SUFFICES ASSUME Punctual
             PROVE  Spec => []OneSession
  OBVIOUS
<1>1. SessionInv => OneSession
  BY DEF SessionInv
<1>2. QED
  BY <1>1, SessionsInvariant, PTL

\* Nobody else's release or acquire takes the lease under a session in play
\* (LeaseCoversSession).
THEOREM LeasesCoverSessions == Punctual => (Spec => []LeaseCoversSession)
<1> SUFFICES ASSUME Punctual
             PROVE  Spec => []LeaseCoversSession
  OBVIOUS
<1>1. SessionInv => LeaseCoversSession
  BY DEF SessionInv
<1>2. QED
  BY <1>1, SessionsInvariant, PTL

----------------------------------------------------------------------------
\* The maps follow the sessions.
LEMMA LookupStep ==
  ASSUME TypeInv, SessionInv, LookupFindsSession, [Next]_vars
  PROVE  LookupFindsSession'
<1> USE DEF LookupFindsSession, Playing, Goto, Forget, tables, worlds
<1>t. /\ pc \in [Connection -> WithCharacter \cup {"gone", "lobby"}]
      /\ character_entities \in [Server -> [Character -> Connection \cup {None}]]
      /\ sel \in [Connection -> Selection] /\ ServerOf \in [Connection -> Server]
      /\ OpenCharacter \subseteq Character
  BY ConstantsAssumption DEF TypeInv, TypeOK, WithCharacter, OpenCharacter
<1>s. \A c \in Connection : pc[c] \in WithCharacter => sel[c].char \in Character
  BY DEF TypeInv, SelectionNamed
<1>w. pc' = pc /\ (\A d \in Connection : sel'[d].char = sel[d].char)
        /\ UNCHANGED worlds => LookupFindsSession'
  OBVIOUS
<1>f. ASSUME NEW c \in Connection, UNCHANGED worlds,
             \A d \in Connection \ {c} : pc'[d] = pc[d] /\ sel'[d].char = sel[d].char,
             pc'[c] # "joined"
      PROVE  LookupFindsSession'
  BY <1>f
<1>o. \A c, d \in Connection : /\ sel[c].char = sel[d].char
                               /\ sel[c].char \in OpenCharacter
                               /\ pc[c] \in {"spawning", "joined"} /\ pc[d] = "joined"
                               => c = d
  BY DEF SessionInv, OneSession, InPlay
<1>1. ASSUME NEW c \in Connection, Spawn(c)
      PROVE  LookupFindsSession'
  <2>1. /\ pc' = [pc EXCEPT ![c] = "joined"] /\ pc[c] = "spawning" /\ sel' = sel
        /\ character_entities' =
             [character_entities EXCEPT ![ServerOf[c]][sel[c].char] = c]
        /\ ServerOf[c] \in Server /\ sel[c].char \in Character
    BY <1>1, <1>t, <1>s DEF Spawn, WithCharacter
  <2>2. character_entities'[ServerOf[c]][sel[c].char] = c
    BY <2>1, <1>t
  <2>3. \A s \in Server, k \in Character \ {sel[c].char} :
           character_entities'[s][k] = character_entities[s][k]
    BY <2>1, <1>t
  <2>4. QED
    BY <2>1, <2>2, <2>3, <1>t, <1>o
<1>2. ASSUME NEW c \in Connection, Despawn(c)
      PROVE  LookupFindsSession'
  <2>1. /\ pc' = [pc EXCEPT ![c] = "releasing"] /\ pc[c] = "joined" /\ sel' = sel
        /\ character_entities' =
             [character_entities EXCEPT ![ServerOf[c]][sel[c].char] = None]
        /\ ServerOf[c] \in Server /\ sel[c].char \in Character
    BY <1>2, <1>t, <1>s DEF Despawn, WithCharacter
  <2>2. \A s \in Server, k \in Character \ {sel[c].char} :
           character_entities'[s][k] = character_entities[s][k]
    BY <2>1, <1>t
  <2>3. QED
    BY <2>1, <2>2, <1>t, <1>o
<1>3. ASSUME NEW c \in Connection,
             Connect(c) \/ (\E ch \in Character : SelectCharacter(c, ch) \/ RequestDelete(c, ch))
             \/ AuthorizeBound(c) \/ AcquireLease(c) \/ RefuseLease(c) \/ JoinLiveness(c)
             \/ ReleaseLease(c) \/ LeaveLiveness(c) \/ CheckLive(c)
             \/ (\E ch \in Character, dest \in Realm : BeginTransfer(c, ch, dest))
             \/ AbortTransfer(c) \/ Fail(c)
      PROVE  LookupFindsSession'
  <2>1. /\ UNCHANGED worlds
        /\ \A d \in Connection \ {c} : pc'[d] = pc[d] /\ sel'[d].char = sel[d].char
        /\ pc'[c] # "joined"
    BY <1>3, <1>t DEF Connect, SelectCharacter, RequestDelete, AuthorizeBound,
       AcquireLease, RefuseLease, JoinLiveness, ReleaseLease, LeaveLiveness, CheckLive,
       BeginTransfer, AbortTransfer, Fail
  <2>2. QED
    BY <1>f, <2>1
<1>4. ASSUME NEW c \in Connection, SavePosition(c) \/ DeleteCharacter(c) \/ CommitTransfer(c)
      PROVE  LookupFindsSession'
  <2>1. sel[c].char \in Character
    BY <1>4, <1>s DEF SavePosition, DeleteCharacter, CommitTransfer, WithCharacter
  <2>2. /\ UNCHANGED worlds /\ sel' = [Stale(sel[c].char) EXCEPT ![c] = NoSelection]
        /\ \A d \in Connection \ {c} : pc'[d] = pc[d]
        /\ pc'[c] # "joined"
    BY <1>4, <1>t DEF SavePosition, DeleteCharacter, CommitTransfer
  <2>3. \A d \in Connection \ {c} : sel'[d].char = sel[d].char
    BY <2>1, <2>2, StaleType DEF TypeInv
  <2>4. QED
    BY <1>f, <2>2, <2>3
<1>5. ASSUME NEW c \in Connection, Heartbeat(c)
      PROVE  LookupFindsSession'
  BY <1>5 DEF Heartbeat, RenewLease, RefreshLiveness
<1>6. ASSUME NEW s \in Server, Crash(s)
      PROVE  LookupFindsSession'
  BY <1>6, <1>t DEF Crash
<1>7. CASE Tick
  BY <1>7 DEF Tick
<1>8. CASE UNCHANGED vars
  BY <1>8 DEF vars
<1>9. QED
  BY <1>1, <1>2, <1>3, <1>4, <1>5, <1>6, <1>7, <1>8
     DEF Next, Session, Login, CleanUp, Manage

\* character_entities leads to the entity that is driven now, for characters of
\* open realms (LookupFindsSession).
THEOREM LookupsFindSessions == Punctual => (Spec => []LookupFindsSession)
<1> SUFFICES ASSUME Punctual
             PROVE  Spec => []LookupFindsSession
  OBVIOUS
<1>1. Init => TypeInv /\ SessionInv /\ LookupFindsSession
  <2>1. Init => LookupFindsSession
    BY DEF Init, LookupFindsSession, Playing
  <2>2. QED
    BY <2>1, InitTypeInv, InitSessionInv
<1>2. TypeInv /\ SessionInv /\ LookupFindsSession /\ [Next]_vars
        => TypeInv' /\ SessionInv' /\ LookupFindsSession'
  BY TypeStep, SessionStep, LookupStep
<1>3. QED
  BY <1>1, <1>2, PTL DEF Spec

----------------------------------------------------------------------------
(* The sessions implement ExclusiveLogin.                                   *)

Blocked(ch) == Leased(ch) /\ ~Reclaimable(ch)

\* The mapped status is the one connection in play, or what the lease says.
StatusFits ==
  \A ch \in OpenCharacter :
     /\ \A c \in Connection : InPlay(c, ch) => Status(ch) = c
     /\ (\A c \in Connection : ~InPlay(c, ch)) =>
           Status(ch) = IF Blocked(ch) THEN "orphaned" ELSE "free"

LEMMA StatusCases == SessionInv => StatusFits
<1> SUFFICES ASSUME SessionInv, NEW ch \in OpenCharacter
             PROVE  /\ \A c \in Connection : InPlay(c, ch) => Status(ch) = c
                    /\ (\A c \in Connection : ~InPlay(c, ch)) =>
                          Status(ch) = IF Blocked(ch) THEN "orphaned" ELSE "free"
  BY DEF StatusFits
<1>1. ASSUME NEW c \in Connection, InPlay(c, ch)
      PROVE  Status(ch) = c
  <2>1. \A d \in Connection : InPlay(d, ch) => d = c
    BY <1>1 DEF SessionInv, OneSession
  <2>2. (CHOOSE d \in Connection : InPlay(d, ch)) = c
    BY <1>1, <2>1
  <2>3. QED
    BY <1>1, <2>2 DEF Status
<1>2. ASSUME \A c \in Connection : ~InPlay(c, ch)
      PROVE  Status(ch) = IF Blocked(ch) THEN "orphaned" ELSE "free"
  BY <1>2 DEF Status, Blocked
<1>3. QED
  BY <1>1, <1>2

StatusOf == [ch \in OpenCharacter |-> Status(ch)]

\* A step that ends sessions, or none, and touches no other character's lease.
LEMMA EndStep ==
  ASSUME SessionInv, SessionInv', NoNewPlay,
         \A ch \in OpenCharacter :
            \/ lease'[ch] = lease[ch]
            \/ \E c \in Connection : InPlay(c, ch)
  PROVE  Abstract!End
<1>1. ASSUME NEW ch \in OpenCharacter
      PROVE  /\ Status(ch)' \in Connection \cup {"free", "orphaned"}
             /\ \/ Status(ch)' = Status(ch)
                \/ Status(ch) \in Connection /\ Status(ch)' \in {"free", "orphaned"}
  <2>1. /\ \A c \in Connection : InPlay(c, ch) => Status(ch) = c
        /\ (\A c \in Connection : ~InPlay(c, ch)) =>
              Status(ch) = IF Blocked(ch) THEN "orphaned" ELSE "free"
    BY StatusCases DEF StatusFits
  <2>2. /\ \A c \in Connection : InPlay(c, ch)' => Status(ch)' = c
        /\ (\A c \in Connection : ~InPlay(c, ch)') =>
              Status(ch)' = IF Blocked(ch)' THEN "orphaned" ELSE "free"
    <3>1. SessionInv' => StatusFits'
      BY StatusCases, PTL
    <3>2. QED
      BY <3>1 DEF StatusFits, OpenCharacter
  <2>3. CASE \E c \in Connection : InPlay(c, ch)'
    BY <2>1, <2>2, <2>3 DEF NoNewPlay
  <2>4. CASE \E c \in Connection : InPlay(c, ch) /\ ~(\E d \in Connection : InPlay(d, ch)')
    BY <2>1, <2>2, <2>4
  <2>5. CASE ~(\E c \in Connection : InPlay(c, ch)) /\ ~(\E d \in Connection : InPlay(d, ch)')
    <3>1. Blocked(ch)' <=> Blocked(ch)
      BY <2>5 DEF Blocked, Leased, Reclaimable
    <3>2. QED
      BY <2>1, <2>2, <2>5, <3>1
  <2>6. QED
    BY <2>3, <2>4, <2>5
<1>2. OpenCharacter' = OpenCharacter
  BY DEF OpenCharacter
<1>3. QED
  BY <1>1, <1>2 DEF Abstract!End

\* The same facts about the status, before and after a step.
LEMMA StatusBoth ==
  ASSUME SessionInv, SessionInv', NEW ch \in OpenCharacter
  PROVE  /\ \A c \in Connection : InPlay(c, ch) => Status(ch) = c
         /\ (\A c \in Connection : ~InPlay(c, ch)) =>
               Status(ch) = IF Blocked(ch) THEN "orphaned" ELSE "free"
         /\ \A c \in Connection : InPlay(c, ch)' => Status(ch)' = c
         /\ (\A c \in Connection : ~InPlay(c, ch)') =>
               Status(ch)' = IF Blocked(ch)' THEN "orphaned" ELSE "free"
         /\ Status(ch)' \in Connection \cup {"free", "orphaned"}
<1>1. StatusFits /\ StatusFits'
  <2>1. SessionInv' => StatusFits'
    BY StatusCases, PTL
  <2>2. QED
    BY <2>1, StatusCases
<1>2. QED
  BY <1>1 DEF StatusFits, OpenCharacter

\* A step that changes nobody's play and blocks no character anew.
LEMMA ExpireStep ==
  ASSUME SessionInv, SessionInv',
         \A ch \in OpenCharacter : \A c \in Connection : InPlay(c, ch)' <=> InPlay(c, ch),
         \A ch \in OpenCharacter : Blocked(ch)' => Blocked(ch)
  PROVE  Abstract!Expire
<1>1. ASSUME NEW ch \in OpenCharacter
      PROVE  /\ Status(ch)' \in Connection \cup {"free", "orphaned"}
             /\ \/ Status(ch)' = Status(ch)
                \/ Status(ch) = "orphaned" /\ Status(ch)' = "free"
  BY StatusBoth
<1>2. OpenCharacter' = OpenCharacter
  BY DEF OpenCharacter
<1>3. QED
  BY <1>1, <1>2 DEF Abstract!Expire

\* An acquired lease takes a free character.
LEMMA TakeStep ==
  ASSUME TypeInv, SessionInv, SessionInv', NEW c \in Connection, AcquireLease(c),
         NEW ch \in Character, sel[c].char = ch
  PROVE  Abstract!Next \/ UNCHANGED StatusOf
<1>0. /\ pc[c] = "authorizing" /\ UNCHANGED sel
      /\ lease[ch].holder # c
      /\ lease' = [lease EXCEPT ![ch] = [holder |-> c, left |-> Ttl]]
      /\ pc' = [pc EXCEPT ![c] = "spawning"]
  BY DEF AcquireLease, TypeInv, SelectionNamed, WithCharacter, Goto, SessionInv,
         HoldersAcquired
<1>1. /\ pc \in [Connection -> WithCharacter \cup {"gone", "lobby"}]
      /\ lease \in [Character -> LeaseRow] /\ OpenCharacter \subseteq Character
      /\ OpenCharacter' = OpenCharacter
  BY DEF TypeInv, TypeOK, WithCharacter, OpenCharacter
<1>2. ASSUME NEW k \in OpenCharacter, k # ch
      PROVE  Status(k)' = Status(k)
  <2>1. \A d \in Connection : InPlay(d, k)' <=> InPlay(d, k)
    BY <1>0, <1>1, <1>2 DEF InPlay
  <2>2. lease'[k] = lease[k]
    BY <1>0, <1>1, <1>2
  <2>3. Blocked(k)' <=> Blocked(k)
    BY <2>2 DEF Blocked, Leased, Reclaimable
  <2>4. QED
    BY <2>1, <2>3, StatusBoth
<1>3. CASE ch \notin OpenCharacter
  BY <1>1, <1>2, <1>3 DEF StatusOf
<1>4. CASE ch \in OpenCharacter
  <2>1. Status(ch) = "free"
    <3>1. ~Blocked(ch)
      BY <1>0 DEF AcquireLease, Blocked
    <3>2. \A d \in Connection : ~InPlay(d, ch)
      BY <1>4, AcquireStep
    <3>3. QED
      BY <1>4, <3>1, <3>2, StatusBoth
  <2>2. Status(ch)' = c
    <3>1. InPlay(c, ch)'
      BY <1>0, <1>1 DEF InPlay
    <3>2. QED
      BY <1>0, <1>4, <3>1, StatusBoth
  <2>3. Abstract!Take(c, ch)
    <3>1. \A k \in OpenCharacter : Status(k)' = IF k = ch THEN c ELSE Status(k)
      BY <1>2, <2>2
    <3>2. StatusOf' = [StatusOf EXCEPT ![ch] = c]
      BY <1>1, <1>4, <3>1 DEF StatusOf
    <3>3. StatusOf[ch] = "free"
      BY <1>4, <2>1 DEF StatusOf
    <3>4. QED
      BY <3>2, <3>3 DEF Abstract!Take, StatusOf
  <2>4. QED
    BY <1>4, <2>3 DEF Abstract!Next
<1>5. QED
  BY <1>3, <1>4

\* Deletion and time change nobody's play; they unblock characters or leave
\* them as they are.
LEMMA UnblockStep ==
  ASSUME TypeInv, SessionInv, SessionInv',
         Tick \/ \E c \in Connection : DeleteCharacter(c)
  PROVE  Abstract!Expire
<1>t. /\ pc \in [Connection -> WithCharacter \cup {"gone", "lobby"}]
      /\ lease \in [Character -> LeaseRow] /\ OpenCharacter \subseteq Character
  BY DEF TypeInv, TypeOK, WithCharacter, OpenCharacter
<1>1. CASE Tick
  <2>1. ASSUME NEW row \in LeaseRow
        PROVE  LET t == [row EXCEPT !.left = Earlier(@)] IN
               t.holder = row.holder /\ t.left = Earlier(row.left)
    BY DEF LeaseRow
  <2>2. \A k \in Character : /\ lease'[k].holder = lease[k].holder
                            /\ \/ lease'[k].left = lease[k].left
                               \/ lease'[k].left = Earlier(lease[k].left)
    BY <1>1, <1>t, <2>1 DEF Tick
  <2>3. \A k \in Character : lease[k].left \in -1..Ttl
    BY <1>t DEF LeaseRow
  <2>4. \A k \in Character : Blocked(k)' => Blocked(k)
    BY <2>2, <2>3, ConstantsAssumption DEF Blocked, Leased, Reclaimable, Earlier
  <2>5. \A k \in OpenCharacter : \A c \in Connection : InPlay(c, k)' <=> InPlay(c, k)
    BY <1>1 DEF Tick, InPlay
  <2>6. QED
    BY <1>t, <2>4, <2>5, ExpireStep
<1>2. ASSUME NEW c \in Connection, DeleteCharacter(c)
      PROVE  Abstract!Expire
  <2>1. sel[c].char \in Character
    BY <1>2 DEF DeleteCharacter, TypeInv, SelectionNamed, WithCharacter
  <2>2. /\ lease' = [lease EXCEPT ![sel[c].char] = NoLease]
        /\ pc' = [pc EXCEPT ![c] = "lobby"] /\ pc[c] = "deleting"
        /\ sel' = [Stale(sel[c].char) EXCEPT ![c] = NoSelection]
    BY <1>2 DEF DeleteCharacter, Goto
  <2>3. \A d \in Connection \ {c} : sel'[d].char = sel[d].char
    BY <2>1, <2>2, StaleType DEF TypeInv
  <2>4. \A k \in OpenCharacter : \A d \in Connection : InPlay(d, k)' <=> InPlay(d, k)
    BY <1>t, <2>2, <2>3 DEF InPlay
  <2>5. \A k \in OpenCharacter : lease'[k] = lease[k] \/ lease'[k] = NoLease
    BY <1>t, <2>2
  <2>6. \A k \in OpenCharacter : Blocked(k)' => Blocked(k)
    BY <2>5 DEF Blocked, Leased, Reclaimable, NoLease
  <2>7. QED
    BY <2>4, <2>6, ExpireStep
<1>3. QED
  BY <1>1, <1>2

THEOREM RefinementStep ==
  ASSUME Punctual, TypeInv, SessionInv, [Next]_vars
  PROVE  Abstract!Next \/ UNCHANGED StatusOf
<1>0. SessionInv'
  BY SessionStep
<1>1. Abstract!End => Abstract!Next
  BY DEF Abstract!Next
<1>2. Abstract!Expire => Abstract!Next
  BY DEF Abstract!Next
<1>3. ASSUME NEW c \in Connection, Session(c)
      PROVE  Abstract!Next \/ UNCHANGED StatusOf
  <2>1. CASE AcquireLease(c)
    <3>1. sel[c].char \in Character
      BY <2>1 DEF AcquireLease, TypeInv, SelectionNamed, WithCharacter
    <3>2. QED
      BY <1>0, <2>1, <3>1, TakeStep
  <2>2. CASE RenewLease(c) \/ ReleaseLease(c)
    <3>1. NoNewPlay
      BY <2>2, RenewStep, ReleaseStep
    <3>2. \A k \in Character \ {sel[c].char} : lease'[k] = lease[k]
      BY <2>2 DEF RenewLease, ReleaseLease, TypeInv, TypeOK
    <3>3. InPlay(c, sel[c].char)
      BY <2>2 DEF RenewLease, ReleaseLease, InPlay
    <3>4. OpenCharacter \subseteq Character
      BY DEF OpenCharacter
    <3>5. QED
      BY <1>0, <1>1, <3>1, <3>2, <3>3, <3>4, EndStep
  <2>3. CASE DeleteCharacter(c)
    BY <1>0, <1>2, <2>3, UnblockStep
  <2>4. CASE CommitTransfer(c)
    <3>1. NoNewPlay /\ UNCHANGED lease
      BY <2>4, TransferStep DEF CommitTransfer
    <3>2. QED
      BY <1>0, <1>1, <3>1, EndStep
  <2>5. ASSUME ~(\/ AcquireLease(c) \/ RenewLease(c) \/ ReleaseLease(c)
                 \/ DeleteCharacter(c) \/ CommitTransfer(c))
        PROVE  NoNewPlay /\ UNCHANGED lease
    BY <1>3, <2>5, QuietSteps DEF Session, Login, Heartbeat, CleanUp, Manage
  <2>6. QED
    BY <1>0, <1>1, <2>1, <2>2, <2>3, <2>4, <2>5, EndStep
<1>4. ASSUME NEW s \in Server, Crash(s)
      PROVE  Abstract!Next
  BY <1>0, <1>1, <1>4, CrashStep, EndStep DEF Crash, tables
<1>5. CASE Tick
  BY <1>0, <1>2, <1>5, UnblockStep
<1>6. CASE UNCHANGED vars
  <2>1. NoNewPlay /\ UNCHANGED lease
    BY <1>6 DEF vars, NoNewPlay, InPlay, OpenCharacter
  <2>2. QED
    BY <1>0, <1>1, <2>1, EndStep
<1>7. QED
  BY <1>3, <1>4, <1>5, <1>6 DEF Next

\* Sessions and leases implement the exclusive login that the policy promises,
\* while heartbeats and clean-ups are punctual (ImplementsExclusiveLogin).
THEOREM SessionsImplement == Punctual => (Spec => ImplementsExclusiveLogin)
<1> SUFFICES ASSUME Punctual
             PROVE  Spec => ImplementsExclusiveLogin
  OBVIOUS
<1>1. Init => Abstract!Init
  <2>1. ASSUME Init, NEW ch \in OpenCharacter
        PROVE  Status(ch) = "free"
    BY <2>1 DEF Init, Status, InPlay, Leased, NoLease, OpenCharacter
  <2>2. QED
    BY <2>1 DEF Abstract!Init
<1>2. Init => TypeInv /\ SessionInv
  BY InitTypeInv, InitSessionInv
<1>3. TypeInv /\ SessionInv /\ [Next]_vars => TypeInv' /\ SessionInv'
  BY TypeStep, SessionStep
<1>4. TypeInv /\ SessionInv /\ [Next]_vars => [Abstract!Next]_StatusOf
  BY RefinementStep
<1>5. QED
  BY <1>1, <1>2, <1>3, <1>4, PTL DEF Spec, ImplementsExclusiveLogin, Abstract!Spec, StatusOf
----------------------------------------------------------------------------
\* The row lock keeps other transfers of the character out as well.
OneTransfer ==
    \A c, d \in Connection :
        pc[c] = "transferring" /\ pc[d] = "transferring" /\ sel[c].char = sel[d].char
        => c = d

TransferInv == TransferIsolated /\ OneTransfer

\* A step that begins no transfer, and writes no row that one has locked.
LEMMA TransfersKept ==
  ASSUME TransferInv,
         \A d \in Connection : pc'[d] = "transferring" =>
            /\ pc[d] = "transferring" /\ sel'[d] = sel[d]
            /\ sel[d].char \in exists => sel[d].char \in exists'
  PROVE  TransferInv'
  BY DEF TransferInv, TransferIsolated, OneTransfer

\* A write of a row leaves alone what was read of other rows.
LEMMA StaleKeeps ==
  ASSUME NEW ch, NEW c \in Connection, sel[c].char # ch
  PROVE  Stale(ch)[c] = sel[c]
  BY DEF Stale

LEMMA TransferInvStep == TypeInv /\ TransferInv /\ [Next]_vars => TransferInv'
<1> SUFFICES ASSUME TypeInv, TransferInv, [Next]_vars
             PROVE  TransferInv'
  OBVIOUS
<1>t. /\ pc \in [Connection -> WithCharacter \cup {"gone", "lobby"}]
      /\ sel \in [Connection -> Selection]
  BY DEF TypeInv, TypeOK, WithCharacter
<1> USE DEF Goto, Forget, tables, worlds
<1>1. ASSUME NEW c \in Connection, NEW ch \in Character, NEW dest \in Realm,
             BeginTransfer(c, ch, dest)
      PROVE  TransferInv'
  <2>1. \A d \in Connection : pc[d] = "transferring" => sel[d].char # ch
    BY <1>1 DEF BeginTransfer, Locked
  <2>2. /\ sel'[c] = [char |-> ch, realm |-> dest, fresh |-> TRUE]
        /\ ch \in exists /\ exists' = exists
        /\ \A d \in Connection \ {c} : sel'[d] = sel[d] /\ pc'[d] = pc[d]
    BY <1>1, <1>t DEF BeginTransfer
  <2> QED
    BY <2>1, <2>2 DEF TransferInv, TransferIsolated, OneTransfer
<1>2. ASSUME NEW c \in Connection, CommitTransfer(c)
      PROVE  TransferInv'
  <2>1. \A d \in Connection \ {c} :
           pc[d] = "transferring" => sel[d].char # sel[c].char
    BY <1>2 DEF CommitTransfer, TransferInv, OneTransfer
  <2>2. /\ pc' = [pc EXCEPT ![c] = "lobby"] /\ exists' = exists
        /\ sel' = [Stale(sel[c].char) EXCEPT ![c] = NoSelection]
    BY <1>2 DEF CommitTransfer
  <2>3. \A d \in Connection \ {c} : sel'[d] = Stale(sel[c].char)[d] /\ pc'[d] = pc[d]
    BY <1>t, <2>2 DEF Stale
  <2> QED
    BY <1>t, <2>1, <2>2, <2>3, StaleKeeps, TransfersKept
<1>3. ASSUME NEW c \in Connection, SavePosition(c) \/ DeleteCharacter(c)
      PROVE  TransferInv'
  <2>1. \A d \in Connection : pc[d] = "transferring" => sel[d].char # sel[c].char
    BY <1>3 DEF SavePosition, DeleteCharacter, Locked
  <2>2. /\ \/ pc' = [pc EXCEPT ![c] = "gone"]
           \/ pc' = [pc EXCEPT ![c] = "lobby"]
        /\ exists' \in {exists, exists \ {sel[c].char}}
        /\ sel' = [Stale(sel[c].char) EXCEPT ![c] = NoSelection]
    BY <1>3 DEF SavePosition, DeleteCharacter
  <2>3. \A d \in Connection \ {c} : sel'[d] = Stale(sel[c].char)[d] /\ pc'[d] = pc[d]
    BY <1>t, <2>2 DEF Stale
  <2>4. pc'[c] # "transferring"
    BY <1>t, <2>2
  <2> QED
    BY <1>t, <2>1, <2>2, <2>3, <2>4, StaleKeeps, TransfersKept
<1>4. ASSUME NEW c \in Connection,
             \/ Connect(c) \/ AuthorizeBound(c) \/ AcquireLease(c) \/ RefuseLease(c)
             \/ JoinLiveness(c) \/ Spawn(c) \/ Despawn(c) \/ ReleaseLease(c)
             \/ LeaveLiveness(c) \/ CheckLive(c) \/ AbortTransfer(c) \/ Fail(c)
             \/ \E ch \in Character : SelectCharacter(c, ch) \/ RequestDelete(c, ch)
      PROVE  TransferInv'
  <2>1. /\ exists' = exists
        /\ pc'[c] # "transferring"
        /\ \A d \in Connection \ {c} : sel'[d] = sel[d] /\ pc'[d] = pc[d]
    BY <1>t, <1>4 DEF Connect, AuthorizeBound, AcquireLease, RefuseLease, JoinLiveness, Spawn,
                      Despawn, ReleaseLease, LeaveLiveness, CheckLive, AbortTransfer, Fail,
                      SelectCharacter, RequestDelete
  <2> QED
    BY <2>1, TransfersKept
<1>5. ASSUME NEW c \in Connection, Heartbeat(c)
      PROVE  TransferInv'
  BY <1>5, TransfersKept DEF Heartbeat, RenewLease, RefreshLiveness
<1>6. ASSUME NEW s \in Server, Crash(s)
      PROVE  TransferInv'
  BY <1>6, TransfersKept DEF Crash
<1>7. CASE Tick \/ UNCHANGED vars
  BY <1>7, TransfersKept DEF Tick, vars
<1>8. ASSUME NEW c \in Connection, Session(c)
      PROVE  TransferInv'
  BY <1>1, <1>2, <1>3, <1>4, <1>5, <1>8 DEF Session, Login, CleanUp, Manage
<1> QED
  BY <1>6, <1>7, <1>8 DEF Next

\* RequestTransfer reads the character under its row lock, and until it commits
\* no position save, deletion or other transfer of the character comes in
\* between, whether or not heartbeats are punctual.
THEOREM TransfersIsolated == Spec => []TransferIsolated
<1>1. Init => TypeInv /\ TransferInv
  BY InitTypeInv DEF Init, TransferInv, TransferIsolated, OneTransfer
<1>2. TypeInv /\ TransferInv /\ [Next]_vars => TypeInv' /\ TransferInv'
  BY TypeStep, TransferInvStep
<1>3. TransferInv => TransferIsolated
  BY DEF TransferInv
<1> QED
  BY <1>1, <1>2, <1>3, PTL DEF Spec
-----------------------------------------------------------------------------
(* Transfers.                                                                *)

\* The module of transfers counts as this one does.
LEMMA SameCount == \A S : T!Cardinality(S) = Cardinality(S)
  BY DEF T!Cardinality, Cardinality

Statements == {"idle", "begin", "load", "source", "destination", "liveness", "gate",
               "ticket", "purchase", "write", "commit", "failing", "done"}
Gates == {"open", "ticket", "purchase", None}
Records == [by : Attempt, of : Traveller, from : Place \cup {None}, to : Place,
            gate : Gates, outcome : {"success", "failed"}]

\* What is needed of the types; stats and requests carry any values.
Shapes ==
    /\ realm_id \in [Traveller -> Place \cup {None}]
    /\ DOMAIN stats = Traveller
    /\ tickets \in [Traveller -> Nat] /\ granted \in [Traveller -> Nat]
    /\ DOMAIN wrote = Traveller
    /\ \A ch \in Traveller : DOMAIN wrote[ch] \subseteq Declared
    /\ \A pair \in DOMAIN transfer_gates : transfer_gates[pair] \in {"ticket", "purchase"}
    /\ transfer_log \in Seq(Records)
    /\ at \in [Attempt -> Statements]
    /\ DOMAIN request = Attempt
    /\ \A a \in Attempt : /\ DOMAIN request[a] = DOMAIN T!Nothing
                          /\ request[a].from \in Place \cup {None}
                          /\ request[a].gate \in Gates
    /\ DOMAIN reply = Attempt

\* Who has begun has asked for something; who holds the row of a character holds
\* it alone, and has read what is in it.
Asked ==
    \A a \in Attempt : at[a] # "idle" => T!Of(a) \in Traveller /\ request[a].to \in Place

HoldsAlone ==
    \A a, b \in Attempt : T!HasRow(a) /\ T!HasRow(b) /\ T!Of(a) = T!Of(b) => a = b

ReadIsCurrent ==
    \A a \in Attempt :
        /\ T!HasRow(a) => /\ realm_id[T!Of(a)] # None
                        /\ request[a].from = realm_id[T!Of(a)]
                        /\ request[a].stats = stats[T!Of(a)]
        /\ T!HasTicket(a) => tickets[T!Of(a)] >= 1
        /\ at[a] = "purchase" => request[a].gate = "purchase"

\* Who is not done has no answer and no record, but for a commit whose answer
\* was lost.
NoRecordYet ==
    \A a \in Attempt : at[a] # "done" =>
        /\ reply[a] = None
        /\ T!RecordsOf(a, "failed") = {}
        /\ at[a] # "failing" \/ a \notin unsure => T!RecordsOf(a, "success") = {}

RowsInv == Shapes /\ Asked /\ HoldsAlone /\ ReadIsCurrent

MovesInv == RowsInv /\ NoRecordYet /\ T!AnswersAreTrue /\ T!MovesArePaidFor
----------------------------------------------------------------------------
(* A step is one of these kinds.                                           *)

\* The tables and what the attempts have are as before.
Untouched == UNCHANGED <<realm_id, stats, tickets, transfer_log, request, reply,
                         granted, wrote, unsure>>

\* The next statement of an attempt that has written nothing.
Advances(a, s) ==
    \/ s = "failing" /\ at[a] \notin {"idle", "failing", "done"}
    \/ s = "load" /\ at[a] = "begin"
    \/ s \in {"destination", "liveness", "gate"} /\ at[a] \in {"source", "destination", "liveness"}
    \/ s = "write" /\ at[a] = "ticket" /\ ~(tickets[T!Of(a)] < 1)
    \/ s = "write" /\ at[a] = "purchase"
    \/ s = "commit" /\ at[a] = "write"

Advance(a) ==
    /\ Untouched /\ transfer_gates' = transfer_gates
    /\ \E s \in Statements : Advances(a, s) /\ at' = [at EXCEPT ![a] = s]

LoadRow(a) ==
    /\ at[a] = "load" /\ T!Unlocked(T!Of(a)) /\ realm_id[T!Of(a)] # None
    /\ request' = [request EXCEPT ![a].from = realm_id[T!Of(a)], ![a].stats = stats[T!Of(a)]]
    /\ at' = [at EXCEPT ![a] = "source"]
    /\ UNCHANGED <<realm_id, stats, tickets, transfer_log, transfer_gates, reply,
                   granted, wrote, unsure>>

\* What else happens to the tables, the attempts standing still.
Beside(ch) ==
    /\ UNCHANGED <<transfer_log, at, request, reply, unsure>>
    /\ \/ Untouched /\ transfer_gates' = transfer_gates
       \/ \E k \in Declared, v \in Value : T!set_stat(ch, k, v)
       \/ T!GrantTicket(ch)
       \/ T!DeleteCharacter(ch)

Gating ==
    /\ Untouched /\ at' = at
    /\ \A pair \in DOMAIN transfer_gates' :
          \/ transfer_gates'[pair] \in {"ticket", "purchase"}
          \/ pair \in DOMAIN transfer_gates /\ transfer_gates'[pair] = transfer_gates[pair]

LEMMA Kinds ==
  ASSUME T!Next
  PROVE  \/ \E a \in Attempt :
              \/ \E ch \in Traveller, to \in Place : T!RequestTransfer(a, ch, to)
              \/ Advance(a) \/ LoadRow(a) \/ T!ReadGate(a) \/ T!Commit(a) \/ T!RecordFailure(a)
         \/ T!Crash
         \/ \E ch \in Traveller : Beside(ch)
         \/ Gating
         \/ UNCHANGED T!vars
<1> USE DEF T!tables, T!realms, T!history, T!attempts
<1>1. CASE \E a \in Attempt : \E ch \in Traveller, to \in Place : T!RequestTransfer(a, ch, to)
  BY <1>1
<1>2. ASSUME NEW a \in Attempt, T!Proceed(a)
      PROVE  Advance(a) \/ LoadRow(a) \/ T!ReadGate(a) \/ T!Commit(a) \/ T!RecordFailure(a)
  <2> USE DEF Advance, Advances, Untouched, T!Rejects, T!Continues, T!Goes, Statements
  <2>1. CASE T!Begin(a)
    BY <2>1 DEF T!Begin
  <2>2. CASE T!Load(a)
    BY <2>2 DEF T!Load, LoadRow
  <2>3. CASE T!ReadSource(a)
    BY <2>3 DEF T!ReadSource
  <2>4. CASE T!ReadDestination(a)
    BY <2>4 DEF T!ReadDestination
  <2>5. CASE T!CheckLive(a)
    BY <2>5 DEF T!CheckLive
  <2>6. CASE T!TakeTicket(a)
    BY <2>6 DEF T!TakeTicket
  <2>7. CASE T!VerifyPurchase(a)
    BY <2>7 DEF T!VerifyPurchase
  <2>8. CASE T!Write(a)
    BY <2>8 DEF T!Write
  <2>9. CASE T!TimeOut(a)
    BY <2>9 DEF T!TimeOut
  <2>. QED
    BY <1>2, <2>1, <2>2, <2>3, <2>4, <2>5, <2>6, <2>7, <2>8, <2>9 DEF T!Proceed
<1>3. ASSUME NEW a \in Attempt, T!Fail(a)
      PROVE  Advance(a)
  BY <1>3 DEF T!Fail, T!HasConnection, T!HasRow, Advance, Advances, Untouched, T!Rejects, T!Continues,
     T!Goes, Statements
<1>4. ASSUME T!Meddle
      PROVE  (\E ch \in Traveller : Beside(ch)) \/ Gating
  <2>1. ASSUME NEW ch \in Traveller, T!Connect(ch) \/ T!Disconnect(ch)
        PROVE  Beside(ch)
    BY <2>1 DEF T!Connect, T!Disconnect, Beside, Untouched
  <2>2. ASSUME NEW ch \in Traveller, T!GrantTicket(ch) \/ T!DeleteCharacter(ch)
        PROVE  Beside(ch)
    BY <2>2 DEF T!GrantTicket, T!DeleteCharacter, Beside
  <2>3. ASSUME NEW ch \in Traveller, NEW k \in Declared, NEW v \in Value, T!set_stat(ch, k, v)
        PROVE  Beside(ch)
    BY <2>3 DEF T!set_stat, Beside
  <2>4. ASSUME NEW pair \in Gated, NEW gate \in {"open", "ticket", "purchase"},
               T!SetGate(pair, gate)
        PROVE  Gating
    BY <2>4 DEF T!SetGate, Gating, Untouched, T!Restrict
  <2>5. ASSUME NEW r \in Place,
               (\E mode \in {"open", "bound"} : T!UpdateRealm(r, mode)) \/ T!DeleteRealm(r)
        PROVE  Gating
    BY <2>5 DEF T!UpdateRealm, T!DeleteRealm, Gating, Untouched, T!Restrict
  <2>. QED
    BY <1>4, <2>1, <2>2, <2>3, <2>4, <2>5 DEF T!Meddle
<1>. QED
  BY <1>1, <1>2, <1>3, <1>4 DEF T!Next, T!AtRest
----------------------------------------------------------------------------
(* Types, and what an attempt asks for.                                    *)

LEMMA ShapesStep ==
  ASSUME T!TransferAssumption, Shapes, Asked, ReadIsCurrent, T!Next
  PROVE  Shapes' /\ Asked'
<1> USE DEF Shapes, Asked, T!Of
<1>1. ASSUME NEW a \in Attempt, NEW ch \in Traveller, NEW to \in Place,
             T!RequestTransfer(a, ch, to)
      PROVE  Shapes' /\ Asked'
  <2>1. PICK q : /\ q = [T!Nothing EXCEPT !.of = ch, !.to = to]
                 /\ request' = [request EXCEPT ![a] = q]
                 /\ at' = [at EXCEPT ![a] = "begin"]
    BY <1>1 DEF T!RequestTransfer, T!Goes
  <2>q. /\ DOMAIN q = DOMAIN T!Nothing
        /\ q.of = ch /\ q.to = to /\ q.from = None /\ q.gate = None
    BY <2>1 DEF T!Nothing
  <2>2. UNCHANGED <<realm_id, stats, tickets, transfer_log, transfer_gates, reply, granted, wrote>>
    BY <1>1 DEF T!RequestTransfer, T!tables, T!realms, T!history
  <2>3. at' \in [Attempt -> Statements]
    BY <2>1 DEF Statements
  <2>4. \A b \in Attempt : /\ DOMAIN request'[b] = DOMAIN T!Nothing
                           /\ request'[b].from \in Place \cup {None}
                           /\ request'[b].gate \in Gates
    BY <2>1, <2>q DEF Gates
  <2>5. Asked'
    BY <2>1, <2>q
  <2>. QED
    BY <2>1, <2>2, <2>3, <2>4, <2>5
<1>2. ASSUME NEW a \in Attempt, Advance(a)
      PROVE  Shapes' /\ Asked'
  BY <1>2 DEF Advance, Advances, Untouched
<1>3. ASSUME NEW a \in Attempt, LoadRow(a)
      PROVE  Shapes' /\ Asked'
  <2>1. at' \in [Attempt -> Statements]
    BY <1>3 DEF LoadRow, Statements
  <2>2. realm_id[T!Of(a)] \in Place \cup {None}
    BY <1>3 DEF LoadRow
  <2>3. \A b \in Attempt : /\ DOMAIN request'[b] = DOMAIN T!Nothing
                           /\ request'[b].from \in Place \cup {None}
                           /\ request'[b].gate \in Gates
                           /\ request'[b].of = request[b].of /\ request'[b].to = request[b].to
    BY <1>3, <2>2 DEF LoadRow, T!Nothing
  <2>. QED
    BY <1>3, <2>1, <2>3 DEF LoadRow
<1>4. ASSUME NEW a \in Attempt, T!ReadGate(a)
      PROVE  Shapes' /\ Asked'
  <2>1. PICK gate \in {"open", "ticket", "purchase"} :
           /\ request' = [request EXCEPT ![a].gate = gate]
           /\ at' = [at EXCEPT ![a] = IF gate = "open" THEN "write" ELSE gate]
    BY <1>4 DEF T!ReadGate, T!GateOf, T!Goes
  <2>2. /\ at[a] = "gate"
        /\ UNCHANGED <<realm_id, stats, tickets, transfer_log, transfer_gates, reply, granted,
                       wrote>>
    BY <1>4 DEF T!ReadGate, T!tables, T!realms, T!history
  <2>3. at' \in [Attempt -> Statements]
    BY <2>1 DEF Statements
  <2>4. \A b \in Attempt : /\ DOMAIN request'[b] = DOMAIN T!Nothing
                           /\ request'[b].from \in Place \cup {None}
                           /\ request'[b].gate \in Gates
                           /\ request'[b].of = request[b].of /\ request'[b].to = request[b].to
    BY <2>1 DEF T!Nothing, Gates
  <2>. QED
    BY <2>1, <2>2, <2>3, <2>4
<1>5. ASSUME NEW a \in Attempt, NEW outcome \in {"success", "failed"}, at[a] # "idle",
             T!Recorded(a, outcome)
      PROVE  transfer_log' \in Seq(Records)
  BY <1>5 DEF T!Recorded, Records
<1>6. ASSUME NEW a \in Attempt, T!Commit(a)
      PROVE  Shapes' /\ Asked'
  <2>1. at[a] = "commit" /\ T!Takes(a)
        /\ UNCHANGED <<request, transfer_gates, granted, wrote>>
    BY <1>6 DEF T!Commit, T!realms
  <2>2. transfer_log' \in Seq(Records)
    BY <1>5, <2>1 DEF T!Takes
  <2>3. at' \in [Attempt -> Statements] /\ at'[a] # "idle"
        /\ \A b \in Attempt \ {a} : at'[b] = at[b]
    BY <1>6 DEF T!Commit, T!Goes, Statements
  <2>4. DOMAIN reply' = Attempt
    BY <1>6 DEF T!Commit
  <2>5. realm_id' \in [Traveller -> Place \cup {None}] /\ DOMAIN stats' = Traveller
    BY <2>1 DEF T!Takes
  <2>6. tickets' \in [Traveller -> Nat]
    BY <1>6, <2>1 DEF T!Takes, ReadIsCurrent
  <2>. QED
    BY <2>1, <2>2, <2>3, <2>4, <2>5, <2>6
<1>7. ASSUME NEW a \in Attempt, T!RecordFailure(a)
      PROVE  Shapes' /\ Asked'
  <2>1. at[a] = "failing" /\ at' = [at EXCEPT ![a] = "done"] /\ DOMAIN reply' = Attempt
        /\ UNCHANGED <<request, transfer_gates, granted, wrote, realm_id, stats, tickets>>
    BY <1>7 DEF T!RecordFailure, T!realms, T!history, T!Goes
  <2>2. transfer_log' \in Seq(Records)
    BY <1>7, <1>5 DEF T!RecordFailure
  <2>. QED
    BY <2>1, <2>2 DEF Statements
<1>8. ASSUME T!Crash
      PROVE  Shapes' /\ Asked'
  <2>1. /\ at' = [a \in Attempt |-> IF at[a] = "idle" THEN "idle" ELSE "done"]
        /\ UNCHANGED <<request, transfer_log, transfer_gates, granted, wrote, realm_id, stats,
                       tickets, reply>>
    BY <1>8 DEF T!Crash, T!tables, T!realms, T!history
  <2>. QED
    BY <2>1 DEF Statements
<1>9. ASSUME NEW ch \in Traveller, Beside(ch)
      PROVE  Shapes' /\ Asked'
  <2>1. UNCHANGED <<transfer_log, at, request, reply>>
    BY <1>9 DEF Beside
  <2>2. CASE Untouched /\ transfer_gates' = transfer_gates
    BY <2>1, <2>2 DEF Untouched
  <2>3. ASSUME NEW k \in Declared, NEW v \in Value, T!set_stat(ch, k, v)
        PROVE  Shapes' /\ Asked'
    <3>1. DOMAIN stats' = Traveller /\ DOMAIN wrote' = Traveller
          /\ \A d \in Traveller : DOMAIN wrote'[d] \subseteq Declared
      BY <2>3 DEF T!set_stat
    <3>. QED
      BY <2>1, <2>3, <3>1 DEF T!set_stat, T!realms
  <2>4. CASE T!GrantTicket(ch)
    BY <2>1, <2>4 DEF T!GrantTicket, T!realms
  <2>5. CASE T!DeleteCharacter(ch)
    BY <2>1, <2>5 DEF T!DeleteCharacter, T!realms, T!history
  <2>. QED
    BY <1>9, <2>2, <2>3, <2>4, <2>5 DEF Beside
<1>10. ASSUME Gating
       PROVE  Shapes' /\ Asked'
  BY <1>10 DEF Gating, Untouched
<1>11. ASSUME UNCHANGED T!vars
       PROVE  Shapes' /\ Asked'
  BY <1>11 DEF T!vars, T!tables, T!realms, T!attempts, T!history
<1>. QED
  BY <1>1, <1>2, <1>3, <1>4, <1>6, <1>7, <1>8, <1>9, <1>10, <1>11, Kinds
----------------------------------------------------------------------------
(* Who holds a character's row holds it alone, and what it read is so.     *)

LEMMA RowsStep ==
  ASSUME T!TransferAssumption, RowsInv, T!Next
  PROVE  HoldsAlone' /\ ReadIsCurrent'
<1> USE DEF RowsInv, Shapes
<1>1. ASSUME NEW a \in Attempt, NEW ch \in Traveller, NEW to \in Place,
             T!RequestTransfer(a, ch, to)
      PROVE  HoldsAlone' /\ ReadIsCurrent'
  <2>1. /\ \A b \in Attempt \ {a} : at'[b] = at[b] /\ request'[b] = request[b]
        /\ at'[a] = "begin"
        /\ UNCHANGED <<realm_id, stats, tickets>>
    BY <1>1 DEF T!RequestTransfer, T!Goes, T!tables
  <2>a. \A b \in Attempt : T!HasRow(b)' => b # a /\ T!HasRow(b) /\ T!Of(b)' = T!Of(b)
    BY <2>1 DEF T!HasRow, T!Of
  <2>2. HoldsAlone'
    BY <2>a DEF HoldsAlone
  <2>3. ReadIsCurrent'
    BY <2>1 DEF ReadIsCurrent, T!HasRow, T!HasTicket, T!Of
  <2>. QED
    BY <2>2, <2>3
<1>2. ASSUME NEW a \in Attempt, Advance(a)
      PROVE  HoldsAlone' /\ ReadIsCurrent'
  <2>1. PICK s \in Statements : Advances(a, s) /\ at' = [at EXCEPT ![a] = s]
    BY <1>2 DEF Advance
  <2>2. UNCHANGED <<realm_id, stats, tickets, request>>
    BY <1>2 DEF Advance, Untouched
  <2>3. \A b \in Attempt : T!HasRow(b)' => T!HasRow(b)
    BY <2>1 DEF Advances, T!HasRow
  <2>4. \A b \in Attempt : T!Of(b)' = T!Of(b)
    BY <2>2 DEF T!Of
  <2>5. T!HasTicket(a)' => tickets[T!Of(a)] >= 1
    <3>1. at[a] \in {"ticket", "purchase", "write"} => T!Of(a) \in Traveller
      BY DEF Asked
    <3>. QED
      BY <2>1, <2>2, <3>1 DEF Advances, T!HasTicket, ReadIsCurrent
  <2>6. at'[a] # "purchase"
    BY <2>1 DEF Advances
  <2>7. \A b \in Attempt \ {a} : at'[b] = at[b]
    BY <2>1
  <2>8. HoldsAlone'
    BY <2>3, <2>4 DEF HoldsAlone
  <2>9. ReadIsCurrent'
    BY <2>2, <2>3, <2>4, <2>5, <2>6, <2>7 DEF ReadIsCurrent, T!HasTicket
  <2>. QED
    BY <2>8, <2>9
<1>3. ASSUME NEW a \in Attempt, LoadRow(a)
      PROVE  HoldsAlone' /\ ReadIsCurrent'
  <2>1. /\ \A b \in Attempt \ {a} : at'[b] = at[b] /\ request'[b] = request[b]
        /\ \A b \in Attempt \ {a} : T!HasRow(b) => T!Of(b) # T!Of(a)
        /\ at'[a] = "source"
        /\ request'[a].from = realm_id[T!Of(a)] /\ request'[a].stats = stats[T!Of(a)]
        /\ request'[a].of = request[a].of
        /\ realm_id[T!Of(a)] # None
        /\ UNCHANGED <<realm_id, stats, tickets>>
    BY <1>3 DEF LoadRow, T!Unlocked, T!Nothing
  <2>2. HoldsAlone'
    BY <2>1 DEF HoldsAlone, T!HasRow, T!Of
  <2>3. ReadIsCurrent'
    BY <2>1 DEF ReadIsCurrent, T!HasRow, T!HasTicket, T!Of
  <2>. QED
    BY <2>2, <2>3
<1>4. ASSUME NEW a \in Attempt, T!ReadGate(a)
      PROVE  HoldsAlone' /\ ReadIsCurrent'
  <2>1. PICK gate \in {"open", "ticket", "purchase"} :
           /\ request' = [request EXCEPT ![a].gate = gate]
           /\ at' = [at EXCEPT ![a] = IF gate = "open" THEN "write" ELSE gate]
    BY <1>4 DEF T!ReadGate, T!GateOf, T!Goes
  <2>2. at[a] = "gate" /\ UNCHANGED <<realm_id, stats, tickets>>
    BY <1>4 DEF T!ReadGate, T!tables
  <2>3. /\ \A b \in Attempt \ {a} : at'[b] = at[b] /\ request'[b] = request[b]
        /\ request'[a].of = request[a].of /\ request'[a].from = request[a].from
        /\ request'[a].stats = request[a].stats /\ request'[a].gate = gate
        /\ T!HasRow(a)
    BY <2>1, <2>2 DEF T!HasRow, T!Nothing
  <2>4. HoldsAlone'
    BY <2>1, <2>2, <2>3 DEF HoldsAlone, T!HasRow, T!Of
  <2>5. ReadIsCurrent'
    BY <2>1, <2>2, <2>3 DEF ReadIsCurrent, T!HasRow, T!HasTicket, T!Of
  <2>. QED
    BY <2>4, <2>5
<1>6. ASSUME NEW a \in Attempt, T!Commit(a)
      PROVE  HoldsAlone' /\ ReadIsCurrent'
  <2>1. /\ at[a] = "commit" /\ at'[a] \in {"done", "failing"} /\ request' = request
        /\ \A b \in Attempt \ {a} : at'[b] = at[b]
    BY <1>6 DEF T!Commit, T!Goes
  <2>2. \A d \in Traveller \ {T!Of(a)} :
          realm_id'[d] = realm_id[d] /\ stats'[d] = stats[d] /\ tickets'[d] = tickets[d]
    BY <1>6 DEF T!Commit, T!Takes
  <2>3. \A b \in Attempt \ {a} : T!HasRow(b) => T!Of(b) \in Traveller \ {T!Of(a)}
    BY <2>1 DEF HoldsAlone, Asked, T!HasRow
  <2>4. HoldsAlone'
    BY <2>1 DEF HoldsAlone, T!HasRow, T!Of
  <2>5. ReadIsCurrent'
    BY <2>1, <2>2, <2>3 DEF ReadIsCurrent, T!HasRow, T!HasTicket, T!Of
  <2>. QED
    BY <2>4, <2>5
<1>7. ASSUME NEW a \in Attempt, T!RecordFailure(a)
      PROVE  HoldsAlone' /\ ReadIsCurrent'
  <2>1. /\ at'[a] = "done" /\ \A b \in Attempt \ {a} : at'[b] = at[b]
        /\ UNCHANGED <<request, realm_id, stats, tickets>>
    BY <1>7 DEF T!RecordFailure, T!Goes
  <2>2. HoldsAlone'
    BY <2>1 DEF HoldsAlone, T!HasRow, T!Of
  <2>3. ReadIsCurrent'
    BY <2>1 DEF ReadIsCurrent, T!HasRow, T!HasTicket, T!Of
  <2>. QED
    BY <2>2, <2>3
<1>8. ASSUME T!Crash
      PROVE  HoldsAlone' /\ ReadIsCurrent'
  <2>1. \A b \in Attempt : at'[b] \in {"idle", "done"}
    BY <1>8 DEF T!Crash
  <2>. QED
    BY <2>1 DEF HoldsAlone, ReadIsCurrent, T!HasRow, T!HasTicket
<1>9. ASSUME NEW ch \in Traveller, Beside(ch)
      PROVE  HoldsAlone' /\ ReadIsCurrent'
  <2>1. UNCHANGED <<transfer_log, at, request, reply>>
    BY <1>9 DEF Beside
  <2>a. \A b \in Attempt : /\ T!HasRow(b)' <=> T!HasRow(b)
                           /\ T!HasTicket(b)' <=> T!HasTicket(b)
                           /\ T!Of(b)' = T!Of(b)
    BY <2>1 DEF T!HasRow, T!HasTicket, T!Of
  <2>2. HoldsAlone'
    BY <2>a DEF HoldsAlone
  <2>3. CASE Untouched
    BY <2>a, <2>1, <2>2, <2>3 DEF Untouched, ReadIsCurrent
  <2>4. ASSUME NEW k \in Declared, NEW v \in Value, T!set_stat(ch, k, v)
        PROVE  ReadIsCurrent'
    <3>1. /\ \A b \in Attempt : T!HasRow(b) => T!Of(b) # ch
          /\ \A d \in Traveller \ {ch} : stats'[d] = stats[d]
          /\ UNCHANGED <<realm_id, tickets>>
      BY <2>4 DEF T!set_stat, T!Unlocked
    <3>3. \A b \in Attempt : T!HasRow(b) \/ T!HasTicket(b) => T!HasRow(b) /\ T!Of(b) \in Traveller
      BY DEF T!HasRow, T!HasTicket, Asked
    <3>. QED
      BY <2>a, <2>1, <2>2, <3>1, <3>3 DEF ReadIsCurrent
  <2>5. CASE T!GrantTicket(ch)
    <3>1. /\ UNCHANGED <<realm_id, stats>>
          /\ tickets' = [tickets EXCEPT ![ch] = @ + 1]
      BY <2>5 DEF T!GrantTicket
    <3>2. \A b \in Attempt : T!HasTicket(b) => tickets'[T!Of(b)] >= 1
      BY <3>1 DEF ReadIsCurrent, T!HasTicket, Asked
    <3>. QED
      BY <2>a, <2>1, <2>2, <3>1, <3>2 DEF ReadIsCurrent
  <2>6. CASE T!DeleteCharacter(ch)
    <3>1. /\ \A b \in Attempt : T!HasRow(b) => T!Of(b) # ch
          /\ \A d \in Traveller \ {ch} : realm_id'[d] = realm_id[d] /\ tickets'[d] = tickets[d]
          /\ stats' = stats
      BY <2>6 DEF T!DeleteCharacter, T!Unlocked
    <3>3. \A b \in Attempt : T!HasRow(b) \/ T!HasTicket(b) => T!HasRow(b) /\ T!Of(b) \in Traveller
      BY DEF T!HasRow, T!HasTicket, Asked
    <3>. QED
      BY <2>a, <2>1, <2>2, <3>1, <3>3 DEF ReadIsCurrent
  <2>. QED
    BY <1>9, <2>2, <2>3, <2>4, <2>5, <2>6 DEF Beside
<1>10. ASSUME Gating \/ UNCHANGED T!vars
       PROVE  HoldsAlone' /\ ReadIsCurrent'
  <2>1. UNCHANGED <<at, request, realm_id, stats, tickets>>
    BY <1>10 DEF Gating, Untouched, T!vars, T!tables, T!attempts
  <2>. QED
    BY <2>1 DEF HoldsAlone, ReadIsCurrent, T!HasRow, T!HasTicket, T!Of
<1>. QED
  BY <1>1, <1>2, <1>3, <1>4, <1>6, <1>7, <1>8, <1>9, <1>10, Kinds
----------------------------------------------------------------------------
(* Records and answers.                                                    *)

\* A record is added at the end.
LEMMA LogGrows ==
  ASSUME Shapes, NEW a \in Attempt, NEW outcome, T!Recorded(a, outcome)
  PROVE  /\ Len(transfer_log) \in Nat /\ Len(transfer_log') = Len(transfer_log) + 1
         /\ DOMAIN transfer_log = 1..Len(transfer_log)
         /\ DOMAIN transfer_log' = DOMAIN transfer_log \cup {Len(transfer_log) + 1}
         /\ \A i \in DOMAIN transfer_log : transfer_log'[i] = transfer_log[i]
         /\ LET r == transfer_log'[Len(transfer_log) + 1]
            IN  /\ r.by = a /\ r.of = T!Of(a) /\ r.from = request[a].from
                /\ r.to = request[a].to /\ r.gate = request[a].gate /\ r.outcome = outcome
<1>1. transfer_log \in Seq(Records)
  BY DEF Shapes
<1>2. PICK r : /\ r = [by |-> a, of |-> T!Of(a), from |-> request[a].from, to |-> request[a].to,
                       gate |-> request[a].gate, outcome |-> outcome]
               /\ transfer_log' = Append(transfer_log, r)
  BY DEF T!Recorded
<1>3. /\ r.by = a /\ r.of = T!Of(a) /\ r.from = request[a].from
      /\ r.to = request[a].to /\ r.gate = request[a].gate /\ r.outcome = outcome
  BY <1>2
<1>4. transfer_log'[Len(transfer_log) + 1] = r
  BY <1>1, <1>2
<1>. QED
  BY <1>1, <1>2, <1>3, <1>4

LEMMA RecordsGrow ==
  ASSUME Shapes, NEW a \in Attempt, NEW outcome, T!Recorded(a, outcome), NEW b, NEW o
  PROVE  T!RecordsOf(b, o)' = IF b = a /\ o = outcome
                               THEN T!RecordsOf(b, o) \cup {Len(transfer_log) + 1}
                               ELSE T!RecordsOf(b, o)
<1>a. /\ Len(transfer_log) \in Nat
      /\ DOMAIN transfer_log = 1..Len(transfer_log)
      /\ DOMAIN transfer_log' = DOMAIN transfer_log \cup {Len(transfer_log) + 1}
      /\ \A i \in DOMAIN transfer_log : transfer_log'[i] = transfer_log[i]
  BY LogGrows
<1>b. /\ transfer_log'[Len(transfer_log) + 1].by = a
      /\ transfer_log'[Len(transfer_log) + 1].outcome = outcome
  BY LogGrows
<1>1. PICK n : n = Len(transfer_log) + 1
  OBVIOUS
<1>2. /\ n \notin DOMAIN transfer_log
      /\ DOMAIN transfer_log' = DOMAIN transfer_log \cup {n}
      /\ \A i \in DOMAIN transfer_log : transfer_log'[i] = transfer_log[i]
  BY <1>1, <1>a
<1>3. transfer_log'[n].by = a /\ transfer_log'[n].outcome = outcome
  BY <1>1, <1>b
<1>4. T!RecordsOf(b, o)' = {i \in DOMAIN transfer_log \cup {n} :
                            transfer_log'[i].by = b /\ transfer_log'[i].outcome = o}
  BY <1>2 DEF T!RecordsOf
<1>5. T!RecordsOf(b, o) = {i \in DOMAIN transfer_log :
                            transfer_log'[i].by = b /\ transfer_log'[i].outcome = o}
  BY <1>2 DEF T!RecordsOf
<1>. QED
  BY <1>1, <1>2, <1>3, <1>4, <1>5

LEMMA RecordsStay ==
  ASSUME transfer_log' = transfer_log
  PROVE  \A b, o : T!RecordsOf(b, o)' = T!RecordsOf(b, o)
  BY DEF T!RecordsOf

LEMMA AnswersStep ==
  ASSUME T!TransferAssumption, Shapes, NoRecordYet, T!AnswersAreTrue, T!Next
  PROVE  NoRecordYet' /\ T!AnswersAreTrue'
<1> USE DEF Shapes
\* No answer is given and nothing is recorded.
<1>s. ASSUME transfer_log' = transfer_log, reply' = reply, unsure' = unsure,
             \A a \in Attempt : /\ at[a] = "done" => at'[a] = "done"
                                /\ at[a] = "failing" => at'[a] \in {"failing", "done"}
      PROVE  NoRecordYet' /\ T!AnswersAreTrue'
  <2>1. \A a \in Attempt : at'[a] # "done" =>
          /\ reply'[a] = None /\ T!RecordsOf(a, "failed")' = {}
          /\ at'[a] # "failing" \/ a \notin unsure' => T!RecordsOf(a, "success")' = {}
    BY <1>s, RecordsStay DEF NoRecordYet
  <2>2. T!AnswersAreTrue'
    BY <1>s, RecordsStay, SameCount DEF T!AnswersAreTrue
  <2>. QED
    BY <2>1, <2>2 DEF NoRecordYet
<1>1. ASSUME NEW a \in Attempt, NEW ch \in Traveller, NEW to \in Place,
             T!RequestTransfer(a, ch, to)
      PROVE  NoRecordYet' /\ T!AnswersAreTrue'
  BY <1>1, <1>s DEF T!RequestTransfer, T!Goes, T!tables, T!history
<1>2. ASSUME NEW a \in Attempt, Advance(a)
      PROVE  NoRecordYet' /\ T!AnswersAreTrue'
  <2>1. UNCHANGED <<transfer_log, reply, unsure>>
    BY <1>2 DEF Advance, Untouched
  <2>2. at[a] \notin {"failing", "done"} /\ \A b \in Attempt \ {a} : at'[b] = at[b]
    BY <1>2 DEF Advance, Advances
  <2>. QED
    BY <1>s, <2>1, <2>2
<1>3. ASSUME NEW a \in Attempt, LoadRow(a)
      PROVE  NoRecordYet' /\ T!AnswersAreTrue'
  BY <1>3, <1>s DEF LoadRow
<1>4. ASSUME NEW a \in Attempt, T!ReadGate(a)
      PROVE  NoRecordYet' /\ T!AnswersAreTrue'
  <2>1. UNCHANGED <<transfer_log, reply, unsure>>
    BY <1>4 DEF T!ReadGate, T!tables, T!history
  <2>2. at[a] \notin {"failing", "done"} /\ \A b \in Attempt \ {a} : at'[b] = at[b]
    BY <1>4 DEF T!ReadGate, T!Goes
  <2>. QED
    BY <1>s, <2>1, <2>2
<1>5. ASSUME NEW a \in Attempt, T!Commit(a)
      PROVE  NoRecordYet' /\ T!AnswersAreTrue'
  <2>1. at[a] = "commit" /\ T!Recorded(a, "success")
    BY <1>5 DEF T!Commit, T!Takes
  <2>2. /\ \A b \in Attempt \ {a} :
             /\ at'[b] = at[b] /\ reply'[b] = reply[b] /\ (b \in unsure' <=> b \in unsure)
             /\ T!RecordsOf(b, "failed")' = T!RecordsOf(b, "failed")
             /\ T!RecordsOf(b, "success")' = T!RecordsOf(b, "success")
    BY <1>5, <2>1, RecordsGrow DEF T!Commit, T!Goes
  <2>3. /\ reply[a] = None /\ T!RecordsOf(a, "failed") = {} /\ T!RecordsOf(a, "success") = {}
    BY <2>1 DEF NoRecordYet
  <2>4. /\ T!RecordsOf(a, "failed")' = {}
        /\ T!RecordsOf(a, "success")' = {Len(transfer_log) + 1}
    <3>1. T!RecordsOf(a, "failed")' = T!RecordsOf(a, "failed")
      BY <2>1, RecordsGrow
    <3>2. T!RecordsOf(a, "success")' = T!RecordsOf(a, "success") \cup {Len(transfer_log) + 1}
      BY <2>1, RecordsGrow
    <3> QED
      BY <2>3, <3>1, <3>2
  <2>5. Cardinality(T!RecordsOf(a, "success")') = 1
    BY <2>4, FS_Singleton
  <2>6. \/ at'[a] = "done" /\ reply'[a] = "complete"
        \/ at'[a] = "failing" /\ reply'[a] = reply[a] /\ a \in unsure'
    BY <1>5 DEF T!Commit, T!Goes
  <2>7. NoRecordYet'
    BY <2>2, <2>3, <2>4, <2>6 DEF NoRecordYet
  <2>8. ASSUME NEW b \in Attempt
        PROVE  /\ reply'[b] = "complete" =>
                    /\ Cardinality(T!RecordsOf(b, "success")') = 1
                    /\ T!RecordsOf(b, "failed")' = {}
               /\ reply'[b] = "error" /\ b \notin unsure' => T!RecordsOf(b, "success")' = {}
    <3>1. CASE b = a
      BY <2>3, <2>4, <2>5, <2>6, <3>1 DEF T!TransferAssumption
    <3>2. CASE b # a
      BY <2>2, <3>2, SameCount DEF T!AnswersAreTrue
    <3>. QED
      BY <3>1, <3>2
  <2>9. T!AnswersAreTrue'
    BY <2>8, SameCount DEF T!AnswersAreTrue
  <2>. QED
    BY <2>7, <2>9
<1>6. ASSUME NEW a \in Attempt, T!RecordFailure(a)
      PROVE  NoRecordYet' /\ T!AnswersAreTrue'
  <2>1. /\ at[a] = "failing" /\ at' = [at EXCEPT ![a] = "done"]
        /\ reply' = [reply EXCEPT ![a] = "error"] /\ unsure' = unsure
        /\ transfer_log' = transfer_log \/ T!Recorded(a, "failed")
    BY <1>6 DEF T!RecordFailure, T!Goes, T!history
  <2>2. \A b \in Attempt : T!RecordsOf(b, "success")' = T!RecordsOf(b, "success")
    BY <2>1, RecordsGrow, RecordsStay
  <2>3. \A b \in Attempt \ {a} : T!RecordsOf(b, "failed")' = T!RecordsOf(b, "failed")
    BY <2>1, RecordsGrow, RecordsStay
  <2>4. NoRecordYet'
    BY <2>1, <2>2, <2>3 DEF NoRecordYet
  <2>5. ASSUME NEW b \in Attempt
        PROVE  /\ reply'[b] = "complete" =>
                    /\ Cardinality(T!RecordsOf(b, "success")') = 1
                    /\ T!RecordsOf(b, "failed")' = {}
               /\ reply'[b] = "error" /\ b \notin unsure' => T!RecordsOf(b, "success")' = {}
    <3>1. CASE b = a
      BY <2>1, <2>2, <3>1 DEF NoRecordYet
    <3>2. CASE b # a
      BY <2>1, <2>2, <2>3, <3>2, SameCount DEF T!AnswersAreTrue
    <3>. QED
      BY <3>1, <3>2
  <2>6. T!AnswersAreTrue'
    BY <2>5, SameCount DEF T!AnswersAreTrue
  <2>. QED
    BY <2>4, <2>6
<1>7. ASSUME T!Crash
      PROVE  NoRecordYet' /\ T!AnswersAreTrue'
  BY <1>7, <1>s DEF T!Crash, T!tables, T!history
<1>8. ASSUME NEW ch \in Traveller, Beside(ch)
      PROVE  NoRecordYet' /\ T!AnswersAreTrue'
  BY <1>8, <1>s DEF Beside
<1>9. ASSUME Gating \/ UNCHANGED T!vars
      PROVE  NoRecordYet' /\ T!AnswersAreTrue'
  BY <1>9, <1>s DEF Gating, Untouched, T!vars, T!tables, T!attempts, T!history
<1>. QED
  BY <1>1, <1>2, <1>3, <1>4, <1>5, <1>6, <1>7, <1>8, <1>9, Kinds
----------------------------------------------------------------------------
(* T!Moves.                                                                  *)

\* Nothing is recorded: characters are where they were.
LEMMA LogStays ==
  ASSUME transfer_log' = transfer_log
  PROVE  /\ \A ch : T!Moves(ch)' = T!Moves(ch) /\ T!Paid(ch)' = T!Paid(ch)
         /\ \A ch, n, r : T!LeadsTo(ch, n, r)' <=> T!LeadsTo(ch, n, r)
  BY DEF T!Moves, T!Paid, T!LeadsTo

LEMMA MovesAreRecords ==
  ASSUME Shapes, NEW ch
  PROVE  /\ IsFiniteSet(T!Paid(ch)) /\ Cardinality(T!Paid(ch)) \in Nat
         /\ T!Moves(ch) \subseteq DOMAIN transfer_log
         /\ \A i \in T!Moves(ch) : i \in Nat /\ i <= Len(transfer_log)
         /\ T!Paid(ch) \subseteq T!Moves(ch)
         /\ Len(transfer_log) \in Nat
<1>1. transfer_log \in Seq(Records)
  BY DEF Shapes
<1>2. DOMAIN transfer_log = 1..Len(transfer_log) /\ Len(transfer_log) \in Nat
  BY <1>1
<1>3. IsFiniteSet(1..Len(transfer_log))
  BY <1>2, FS_Interval
<1>4. T!Paid(ch) \subseteq 1..Len(transfer_log)
  BY <1>2 DEF T!Paid, T!Moves
<1>5. IsFiniteSet(T!Paid(ch)) /\ Cardinality(T!Paid(ch)) \in Nat
  BY <1>3, <1>4, FS_Subset, FS_CardinalityType
<1>. QED
  BY <1>2, <1>5 DEF T!Paid, T!Moves

\* What is recorded later does not change where the earlier records lead.
LEMMA EarlierStays ==
  ASSUME Shapes, NEW a \in Attempt, NEW outcome, T!Recorded(a, outcome),
         NEW ch, NEW n, n \in Int, n <= Len(transfer_log), NEW r
  PROVE  T!LeadsTo(ch, n, r)' <=> T!LeadsTo(ch, n, r)
<1>1. \A i \in DOMAIN transfer_log : i \in T!Moves(ch)' <=> i \in T!Moves(ch)
  BY LogGrows DEF T!Moves
<1>2. \A i \in T!Moves(ch)' : i \in DOMAIN transfer_log \/ i = Len(transfer_log) + 1
  <2>1. T!Moves(ch)' \subseteq DOMAIN transfer_log'
    BY DEF T!Moves
  <2>2. DOMAIN transfer_log' = DOMAIN transfer_log \cup {Len(transfer_log) + 1}
    BY LogGrows
  <2>. QED
    BY <2>1, <2>2
<1>3. \A i \in T!Moves(ch) : /\ i \in DOMAIN transfer_log /\ i \in Nat /\ i <= Len(transfer_log)
                           /\ transfer_log'[i] = transfer_log[i]
  BY LogGrows, MovesAreRecords DEF T!Moves
<1>4. Len(transfer_log) \in Nat
  BY LogGrows
<1>. QED
  BY <1>1, <1>2, <1>3, <1>4 DEF T!LeadsTo

\* Another's move, or a failure, is no move of ch.
LEMMA NoMove ==
  ASSUME Shapes, NEW a \in Attempt, NEW outcome, T!Recorded(a, outcome),
         NEW ch, outcome # "success" \/ T!Of(a) # ch
  PROVE  /\ T!Moves(ch)' = T!Moves(ch) /\ T!Paid(ch)' = T!Paid(ch)
         /\ \A i \in T!Moves(ch) : transfer_log'[i] = transfer_log[i]
         /\ \A r : T!LeadsTo(ch, Len(transfer_log), r)' <=> T!LeadsTo(ch, Len(transfer_log), r)
<1>1. PICK n : n = Len(transfer_log) + 1
  OBVIOUS
<1>a. /\ Len(transfer_log) \in Nat
      /\ DOMAIN transfer_log = 1..Len(transfer_log)
      /\ DOMAIN transfer_log' = DOMAIN transfer_log \cup {Len(transfer_log) + 1}
      /\ \A i \in DOMAIN transfer_log : transfer_log'[i] = transfer_log[i]
  BY LogGrows
<1>2. /\ n \notin DOMAIN transfer_log /\ n \in Nat /\ Len(transfer_log) = n - 1
      /\ DOMAIN transfer_log' = DOMAIN transfer_log \cup {n}
      /\ \A i \in DOMAIN transfer_log : transfer_log'[i] = transfer_log[i]
  BY <1>1, <1>a
<1>3. transfer_log'[n].of = T!Of(a) /\ transfer_log'[n].outcome = outcome
  BY <1>1, LogGrows
<1>4. T!Moves(ch)' = T!Moves(ch)
  BY <1>2, <1>3 DEF T!Moves
<1>5. \A i \in T!Moves(ch) : transfer_log'[i] = transfer_log[i] /\ i \in Nat /\ i <= n - 1
  BY <1>2, MovesAreRecords DEF T!Moves
<1>6. T!Paid(ch)' = T!Paid(ch)
  BY <1>4, <1>5 DEF T!Paid
<1>7. Len(transfer_log') = n
  BY <1>1, LogGrows
<1>8. \A r : T!LeadsTo(ch, Len(transfer_log), r)' <=> T!LeadsTo(ch, Len(transfer_log), r)
  BY <1>2, <1>4, <1>5, <1>7 DEF T!LeadsTo
<1>. QED
  BY <1>4, <1>5, <1>6, <1>8

\* A move is the last.
LEMMA OneMove ==
  ASSUME Shapes, NEW a \in Attempt, T!Recorded(a, "success"), NEW ch, ch = T!Of(a),
         NEW n, n = Len(transfer_log) + 1
  PROVE  /\ T!Moves(ch)' = T!Moves(ch) \cup {n}
         /\ T!Paid(ch)' = IF request[a].gate = "ticket" THEN T!Paid(ch) \cup {n} ELSE T!Paid(ch)
         /\ \A i \in T!Moves(ch) : transfer_log'[i] = transfer_log[i]
         /\ \A to : to = request[a].to => T!LeadsTo(ch, Len(transfer_log), to)'
<1>1. /\ Len(transfer_log) \in Nat /\ Len(transfer_log') = Len(transfer_log) + 1
      /\ DOMAIN transfer_log = 1..Len(transfer_log)
      /\ DOMAIN transfer_log' = DOMAIN transfer_log \cup {Len(transfer_log) + 1}
      /\ \A i \in DOMAIN transfer_log : transfer_log'[i] = transfer_log[i]
  BY LogGrows
<1>2. /\ n \notin DOMAIN transfer_log /\ n \in Nat /\ Len(transfer_log) = n - 1
      /\ DOMAIN transfer_log' = DOMAIN transfer_log \cup {n}
      /\ \A i \in DOMAIN transfer_log : transfer_log'[i] = transfer_log[i]
      /\ Len(transfer_log') = n
  BY <1>1
<1>3. /\ transfer_log'[n].of = ch /\ transfer_log'[n].outcome = "success"
      /\ transfer_log'[n].to = request[a].to /\ transfer_log'[n].gate = request[a].gate
  BY LogGrows
<1>4. T!Moves(ch)' = T!Moves(ch) \cup {n}
  BY <1>2, <1>3 DEF T!Moves
<1>5. \A i \in T!Moves(ch) : transfer_log'[i] = transfer_log[i] /\ i \in Nat /\ i <= n - 1
  BY <1>2, MovesAreRecords DEF T!Moves
<1>6. T!Paid(ch)' = IF request[a].gate = "ticket" THEN T!Paid(ch) \cup {n} ELSE T!Paid(ch)
  BY <1>3, <1>4, <1>5 DEF T!Paid
<1>7. \A to : to = request[a].to => T!LeadsTo(ch, Len(transfer_log), to)'
  BY <1>2, <1>3, <1>4, <1>5 DEF T!LeadsTo
<1>. QED
  BY <1>4, <1>5, <1>6, <1>7

\* What is claimed of one character.
WellMoved(ch) ==
    realm_id[ch] # None =>
        /\ \A i \in T!Moves(ch) : T!LeadsTo(ch, i - 1, transfer_log[i].from)
        /\ T!LeadsTo(ch, Len(transfer_log), realm_id[ch])
        /\ granted[ch] - tickets[ch] = Cardinality(T!Paid(ch))
        /\ \A k \in DOMAIN wrote[ch] :
            k \in DOMAIN stats[ch] /\ stats[ch][k] = wrote[ch][k]
        /\ T!Moves(ch) # {} => DOMAIN stats[ch] = Declared

\* A character whose rows stay, and of whom no move is recorded.
LEMMA StaysPut ==
  ASSUME NEW ch, WellMoved(ch),
         realm_id'[ch] = realm_id[ch], stats'[ch] = stats[ch],
         tickets'[ch] = tickets[ch], granted'[ch] = granted[ch], wrote'[ch] = wrote[ch],
         T!Moves(ch)' = T!Moves(ch), T!Paid(ch)' = T!Paid(ch),
         \A i \in T!Moves(ch) : transfer_log'[i] = transfer_log[i],
         \A i \in T!Moves(ch) : \A r : T!LeadsTo(ch, i - 1, r)' <=> T!LeadsTo(ch, i - 1, r),
         \A r : T!LeadsTo(ch, Len(transfer_log), r)' <=> T!LeadsTo(ch, Len(transfer_log), r)
  PROVE  WellMoved(ch)'
<1>1. SUFFICES ASSUME realm_id[ch] # None
               PROVE  WellMoved(ch)'
  BY DEF WellMoved
<1>2. T!LeadsTo(ch, Len(transfer_log), realm_id[ch])'
  <2>1. PICK r : r = realm_id[ch]
    OBVIOUS
  <2>2. T!LeadsTo(ch, Len(transfer_log), r)'
    BY <1>1, <2>1 DEF WellMoved
  <2>. QED
    BY <2>1, <2>2
<1>3. ASSUME NEW i \in T!Moves(ch)
      PROVE  T!LeadsTo(ch, i - 1, transfer_log[i].from)'
  <2>1. PICK r : r = transfer_log[i].from
    OBVIOUS
  <2>2. T!LeadsTo(ch, i - 1, r)'
    BY <1>1, <1>3, <2>1 DEF WellMoved
  <2>3. transfer_log'[i].from = r
    BY <1>3, <2>1
  <2>. QED
    BY <2>2, <2>3
<1>. QED
  BY <1>1, <1>2, <1>3 DEF WellMoved

LEMMA MovesStep ==
  ASSUME T!TransferAssumption, RowsInv, T!MovesArePaidFor, T!Next
  PROVE  T!MovesArePaidFor'
<1> USE DEF RowsInv, Shapes
<1>w. \A ch \in Traveller : WellMoved(ch)
  BY SameCount DEF T!MovesArePaidFor, WellMoved
<1>v. SUFFICES \A ch \in Traveller : WellMoved(ch)'
  BY SameCount DEF T!MovesArePaidFor, WellMoved
<1>s. ASSUME NEW ch \in Traveller, transfer_log' = transfer_log,
             realm_id'[ch] = realm_id[ch], stats'[ch] = stats[ch],
             tickets'[ch] = tickets[ch], granted'[ch] = granted[ch], wrote'[ch] = wrote[ch]
      PROVE  WellMoved(ch)'
  BY <1>w, <1>s, LogStays, StaysPut
<1>f. ASSUME NEW a \in Attempt, NEW outcome, T!Recorded(a, outcome),
             NEW ch \in Traveller, outcome # "success" \/ T!Of(a) # ch,
             realm_id'[ch] = realm_id[ch], stats'[ch] = stats[ch],
             tickets'[ch] = tickets[ch], granted'[ch] = granted[ch], wrote'[ch] = wrote[ch]
      PROVE  WellMoved(ch)'
  <2>1. \A i \in T!Moves(ch) : \A r : T!LeadsTo(ch, i - 1, r)' <=> T!LeadsTo(ch, i - 1, r)
    <3>1. ASSUME NEW i \in T!Moves(ch), NEW r
          PROVE  T!LeadsTo(ch, i - 1, r)' <=> T!LeadsTo(ch, i - 1, r)
      <4>1. PICK n : n = i - 1
        OBVIOUS
      <4>2. n \in Int /\ n <= Len(transfer_log)
        BY <4>1, MovesAreRecords
      <4>3. T!LeadsTo(ch, n, r)' <=> T!LeadsTo(ch, n, r)
        BY <1>f, <4>2, EarlierStays
      <4>. QED
        BY <4>1, <4>3
    <3>. QED
      BY <3>1
  <2>. QED
    BY <1>w, <1>f, <2>1, NoMove, StaysPut
<1>1. ASSUME NEW a \in Attempt,
             (\E ch \in Traveller, to \in Place : T!RequestTransfer(a, ch, to))
               \/ Advance(a) \/ LoadRow(a) \/ T!ReadGate(a)
      PROVE  \A ch \in Traveller : WellMoved(ch)'
  BY <1>1, <1>s DEF T!RequestTransfer, Advance, Untouched, LoadRow, T!ReadGate, T!tables, T!history
<1>2. ASSUME NEW a \in Attempt, T!RecordFailure(a)
      PROVE  \A ch \in Traveller : WellMoved(ch)'
  <2>1. UNCHANGED <<realm_id, stats, tickets, granted, wrote>>
        /\ (transfer_log' = transfer_log \/ T!Recorded(a, "failed"))
    BY <1>2 DEF T!RecordFailure, T!history
  <2>. QED
    BY <2>1, <1>s, <1>f
<1>3. ASSUME NEW a \in Attempt, T!Commit(a), NEW ch \in Traveller
      PROVE  WellMoved(ch)'
  <2>1. /\ T!Recorded(a, "success") /\ UNCHANGED <<request, granted, wrote>>
        /\ at[a] = "commit"
        /\ realm_id' = [realm_id EXCEPT ![T!Of(a)] = request[a].to]
        /\ stats' = [stats EXCEPT ![T!Of(a)] = T!migrate_stats(request[a].stats)]
        /\ tickets' = [tickets EXCEPT ![T!Of(a)] = IF T!HasTicket(a) THEN @ - 1 ELSE @]
    BY <1>3 DEF T!Commit, T!Takes
  <2>2. CASE ch # T!Of(a)
    BY <2>1, <2>2, <1>f
  <2>3. CASE ch = T!Of(a)
    <3>1. PICK n : n = Len(transfer_log) + 1
      OBVIOUS
    <3>2. /\ T!Moves(ch)' = T!Moves(ch) \cup {n}
          /\ T!Paid(ch)' = IF request[a].gate = "ticket" THEN T!Paid(ch) \cup {n} ELSE T!Paid(ch)
          /\ \A i \in T!Moves(ch) : transfer_log'[i] = transfer_log[i]
          /\ \A to : to = request[a].to => T!LeadsTo(ch, Len(transfer_log), to)'
      <4>1. T!Recorded(a, "success") /\ ch = T!Of(a) /\ n = Len(transfer_log) + 1
        BY <2>1, <2>3, <3>1
      <4>. QED
        BY <4>1, OneMove
    <3>3. /\ realm_id[ch] # None /\ request[a].from = realm_id[ch]
          /\ request[a].stats = stats[ch]
          /\ T!HasTicket(a) <=> request[a].gate = "ticket"
      BY <2>1, <2>3 DEF ReadIsCurrent, T!HasRow, T!HasTicket
    <3>4. T!LeadsTo(ch, Len(transfer_log), realm_id[ch])'
      BY <2>1, <2>3, <3>2
    <3>5. granted'[ch] - tickets'[ch] = Cardinality(T!Paid(ch)')
      <4>1. granted[ch] - tickets[ch] = Cardinality(T!Paid(ch))
        BY <1>w, <3>3 DEF WellMoved
      <4>2. IsFiniteSet(T!Paid(ch)) /\ Cardinality(T!Paid(ch)) \in Nat /\ n \notin T!Paid(ch)
        BY <3>1, MovesAreRecords
      <4>3. Cardinality(T!Paid(ch) \cup {n}) = Cardinality(T!Paid(ch)) + 1
        BY <4>2, FS_AddElement
      <4>4. tickets'[ch] = IF request[a].gate = "ticket" THEN tickets[ch] - 1 ELSE tickets[ch]
        BY <2>1, <2>3, <3>3
      <4>5. granted'[ch] = granted[ch] /\ granted[ch] \in Nat /\ tickets[ch] \in Nat
        BY <2>1
      <4>. QED
        BY <3>2, <4>1, <4>2, <4>3, <4>4, <4>5
    <3>6. \A k \in DOMAIN wrote'[ch] : k \in DOMAIN stats'[ch] /\ stats'[ch][k] = wrote'[ch][k]
      <4>1. \A k \in DOMAIN wrote[ch] :
               k \in Declared /\ k \in DOMAIN stats[ch] /\ stats[ch][k] = wrote[ch][k]
        BY <1>w, <3>3 DEF WellMoved
      <4>2. wrote'[ch] = wrote[ch] /\ stats'[ch] = T!migrate_stats(stats[ch])
        BY <2>1, <2>3, <3>3
      <4>. QED
        BY <4>1, <4>2 DEF T!migrate_stats
    <3>7. DOMAIN stats'[ch] = Declared
      BY <2>1, <2>3 DEF T!migrate_stats
    <3>8. ASSUME NEW i \in T!Moves(ch)'
          PROVE  T!LeadsTo(ch, i - 1, transfer_log[i].from)'
      <4>1. PICK r, m : r = transfer_log'[i].from /\ m = i - 1
        OBVIOUS
      <4>2. m \in Int /\ m <= Len(transfer_log) /\ T!LeadsTo(ch, m, r)
        <5>1. CASE i \in T!Moves(ch)
          BY <1>w, <3>2, <3>3, <4>1, <5>1, MovesAreRecords DEF WellMoved
        <5>2. CASE i = n
          <6>1. r = realm_id[ch] /\ m = Len(transfer_log) /\ m \in Nat
            BY <2>1, <3>1, <3>3, <4>1, <5>2, LogGrows
          <6>2. T!LeadsTo(ch, Len(transfer_log), realm_id[ch])
            BY <1>w, <3>3 DEF WellMoved
          <6>. QED
            BY <6>1, <6>2
        <5>. QED
          BY <3>2, <3>8, <5>1, <5>2
      <4>3. T!LeadsTo(ch, m, r)'
        BY <2>1, <4>2, EarlierStays
      <4>. QED
        BY <4>1, <4>3
    <3>. QED
      BY <3>4, <3>5, <3>6, <3>7, <3>8 DEF WellMoved
  <2>. QED
    BY <2>2, <2>3
<1>4. ASSUME T!Crash \/ Gating \/ UNCHANGED T!vars
      PROVE  \A ch \in Traveller : WellMoved(ch)'
  BY <1>4, <1>s DEF T!Crash, Gating, Untouched, T!vars, T!tables, T!history
<1>5. ASSUME NEW d \in Traveller, Beside(d), NEW ch \in Traveller
      PROVE  WellMoved(ch)'
  <2>1. transfer_log' = transfer_log
    BY <1>5 DEF Beside
  <2>2. CASE Untouched
    BY <2>1, <2>2, <1>s DEF Untouched
  <2>3. ASSUME NEW k \in Declared, NEW v \in Value, T!set_stat(d, k, v)
        PROVE  WellMoved(ch)'
    <3>1. /\ UNCHANGED <<realm_id, tickets, granted>>
          /\ stats' = [stats EXCEPT ![d] = [x \in DOMAIN @ \cup {k} |-> IF x = k THEN v ELSE @[x]]]
          /\ wrote' = [wrote EXCEPT ![d] = [x \in DOMAIN @ \cup {k} |-> IF x = k THEN v ELSE @[x]]]
      BY <2>3 DEF T!set_stat
    <3>2. CASE ch # d
      BY <2>1, <3>1, <3>2, <1>s
    <3>3. CASE ch = d
      <4>1. SUFFICES ASSUME realm_id[ch] # None
                     PROVE  WellMoved(ch)'
        BY <3>1 DEF WellMoved
      <4>2. /\ stats'[ch] = [x \in DOMAIN stats[ch] \cup {k} |-> IF x = k THEN v ELSE stats[ch][x]]
            /\ wrote'[ch] = [x \in DOMAIN wrote[ch] \cup {k} |-> IF x = k THEN v ELSE wrote[ch][x]]
        BY <3>1, <3>3
      <4>3. \A x \in DOMAIN wrote'[ch] : x \in DOMAIN stats'[ch] /\ stats'[ch][x] = wrote'[ch][x]
        BY <1>w, <4>1, <4>2 DEF WellMoved
      <4>4. T!Moves(ch)' # {} => DOMAIN stats'[ch] = Declared
        <5>1. T!Moves(ch)' = T!Moves(ch)
          BY <2>1, LogStays
        <5>2. T!Moves(ch) # {} => DOMAIN stats[ch] = Declared
          BY <1>w, <4>1 DEF WellMoved
        <5>. QED
          BY <4>2, <5>1, <5>2
      <4>5. T!LeadsTo(ch, Len(transfer_log), realm_id[ch])'
            /\ \A i \in T!Moves(ch)' : T!LeadsTo(ch, i - 1, transfer_log[i].from)'
        BY <1>w, <2>1, <3>1, <4>1 DEF WellMoved, T!LeadsTo, T!Moves
      <4>6. granted'[ch] - tickets'[ch] = Cardinality(T!Paid(ch)')
        BY <1>w, <2>1, <3>1, <4>1, LogStays DEF WellMoved
      <4>. QED
        BY <4>3, <4>4, <4>5, <4>6 DEF WellMoved
    <3>. QED
      BY <3>2, <3>3
  <2>4. CASE T!GrantTicket(d)
    <3>1. /\ UNCHANGED <<realm_id, stats, wrote>>
          /\ tickets' = [tickets EXCEPT ![d] = @ + 1]
          /\ granted' = [granted EXCEPT ![d] = @ + 1]
      BY <2>4 DEF T!GrantTicket
    <3>2. CASE ch # d
      BY <2>1, <3>1, <3>2, <1>s
    <3>3. CASE ch = d
      <4>1. SUFFICES ASSUME realm_id[ch] # None
                     PROVE  WellMoved(ch)'
        BY <3>1 DEF WellMoved
      <4>2. granted'[ch] - tickets'[ch] = Cardinality(T!Paid(ch)')
        BY <1>w, <2>1, <3>1, <3>3, <4>1, LogStays DEF WellMoved
      <4>3. T!LeadsTo(ch, Len(transfer_log), realm_id[ch])'
            /\ \A i \in T!Moves(ch)' : T!LeadsTo(ch, i - 1, transfer_log[i].from)'
        BY <1>w, <2>1, <3>1, <4>1 DEF WellMoved, T!LeadsTo, T!Moves
      <4>. QED
        BY <1>w, <2>1, <3>1, <4>1, <4>2, <4>3, LogStays DEF WellMoved
    <3>. QED
      BY <3>2, <3>3
  <2>5. CASE T!DeleteCharacter(d)
    <3>1. UNCHANGED <<stats, granted, wrote>>
          /\ realm_id' = [realm_id EXCEPT ![d] = None]
          /\ tickets' = [tickets EXCEPT ![d] = 0]
      BY <2>5 DEF T!DeleteCharacter, T!history
    <3>2. CASE ch # d
      BY <2>1, <3>1, <3>2, <1>s
    <3>3. CASE ch = d
      BY <3>1, <3>3 DEF WellMoved
    <3>. QED
      BY <3>2, <3>3
  <2>. QED
    BY <1>5, <2>2, <2>3, <2>4, <2>5 DEF Beside
<1>. QED
  BY <1>1, <1>2, <1>3, <1>4, <1>5, Kinds
----------------------------------------------------------------------------
(* The theorems.                                                           *)

LEMMA MovesInit ==
  ASSUME T!TransferAssumption, T!Init
  PROVE  MovesInv
<1> USE DEF T!Init, T!TransferAssumption
<1>1. Shapes
  BY DEF Shapes, Statements, Gates, T!Nothing
<1>2. Asked /\ HoldsAlone /\ ReadIsCurrent
  BY DEF Asked, HoldsAlone, ReadIsCurrent, T!HasRow, T!HasTicket
<1>3. NoRecordYet /\ T!AnswersAreTrue
  BY SameCount DEF NoRecordYet, T!AnswersAreTrue, T!RecordsOf
<1>4. T!MovesArePaidFor
  <2>1. \A ch : T!Moves(ch) = {} /\ T!Paid(ch) = {}
    BY DEF T!Moves, T!Paid
  <2>2. Cardinality({}) = 0
    BY FS_EmptySet
  <2>3. ASSUME NEW ch \in Traveller
        PROVE  /\ T!LeadsTo(ch, Len(transfer_log), realm_id[ch])
               /\ granted[ch] - tickets[ch] = 0
               /\ DOMAIN wrote[ch] = {}
    BY <2>1 DEF T!LeadsTo
  <2>. QED
    BY <2>1, <2>2, <2>3, SameCount DEF T!MovesArePaidFor
<1>. QED
  BY <1>1, <1>2, <1>3, <1>4 DEF MovesInv, RowsInv

LEMMA MovesNext ==
  ASSUME T!TransferAssumption, MovesInv, [T!Next]_T!vars
  PROVE  MovesInv'
<1>1. T!Next \/ UNCHANGED T!vars
  OBVIOUS
<1>2. CASE T!Next
  BY <1>2, ShapesStep, RowsStep, AnswersStep, MovesStep DEF MovesInv, RowsInv
<1>3. CASE UNCHANGED T!vars
  <2>2. RowsInv'
    BY <1>3 DEF MovesInv, RowsInv, T!vars, T!tables, T!realms, T!attempts, T!history,
       Shapes, Asked, HoldsAlone, ReadIsCurrent, T!HasRow, T!HasTicket, T!Of
  <2>3. NoRecordYet' /\ T!AnswersAreTrue'
    BY <1>3 DEF MovesInv, T!vars, T!tables, T!realms, T!attempts, T!history,
       NoRecordYet, T!AnswersAreTrue, T!RecordsOf
  <2>4. T!MovesArePaidFor'
    <3>1. /\ transfer_log' = transfer_log
          /\ UNCHANGED <<realm_id, stats, tickets, granted, wrote>>
      BY <1>3 DEF T!vars, T!tables, T!history
    <3>2. \A ch \in Traveller : WellMoved(ch)
      BY SameCount DEF MovesInv, T!MovesArePaidFor, WellMoved
    <3>3. \A ch \in Traveller : WellMoved(ch)'
      BY <3>1, <3>2, LogStays, StaysPut
    <3>. QED
      BY <3>3, SameCount DEF T!MovesArePaidFor, WellMoved
  <2>. QED
    BY <2>2, <2>3, <2>4 DEF MovesInv
<1>. QED
  BY <1>1, <1>2, <1>3

\* What TransferExecutor::transfer_inner reads under the lock of the character's
\* row is so until it commits: the invariant that the result below follows from.
THEOREM TransferInvariant ==
  T!Spec => []MovesInv
<1>1. T!Init => MovesInv
  BY TransfersAreDeclared, MovesInit
<1>2. MovesInv /\ [T!Next]_T!vars => MovesInv'
  BY TransfersAreDeclared, MovesNext
<1>. QED
  BY <1>1, <1>2, PTL DEF T!Spec

\* Every transfer that took effect is recorded once and has cost its ticket, a
\* character is where its records lead, its declared stats are kept, and clients
\* are told so (transfer/src/execute.rs), whatever fails, crashes or happens
\* to the rows meanwhile.
THEOREM MovesAreWhole ==
  T!Spec => []TransfersAreWhole
<1>1. MovesInv => TransfersAreWhole
  BY DEF MovesInv, T!TransfersAreWhole, TransfersAreWhole
<1>. QED
  BY <1>1, TransferInvariant, PTL
=============================================================================
