---------------------------- MODULE RealmProofs ----------------------------
(***************************************************************************)
(* What is proved of guilds and of parties, for any number of accounts,    *)
(* guilds and ranks, any finite number of characters, and any party types  *)
(* and caps.                                                               *)
(*                                                                         *)
(* Of guilds: the types, that nobody is in a guild that does not stand,    *)
(* and that a guild that stands has a founder as long as nobody is moved   *)
(* out of the founder rank.  Led alone is not inductive: a kick, a leave   *)
(* or a rank change that is under way might be about the last founder.     *)
(* Some founder is Secure: every call about it that is under way was not   *)
(* begun to take it out of the rank, since calls are begun for a member    *)
(* who is no founder, and the secure one has been a founder ever since.    *)
(* And of their channels: a channel differs from its roster only by a      *)
(* change that is pending (ChatOf), unless two changes of one account      *)
(* overlapped; and a founder that leaves dissolves no guild in which       *)
(* somebody was when it counted.                                           *)
(*                                                                         *)
(* Of parties: the types, that rows are of parties that stand, that a      *)
(* party of less than two only comes from members who left together or     *)
(* were deleted, and that a party over its cap only comes from members who *)
(* came together.  The two bounds are not inductive: what a transaction    *)
(* counted must still be true when it writes.  It is, as nobody but itself *)
(* is leaving (or coming) and the rows it counted are only taken away by   *)
(* one that leaves.                                                        *)
(***************************************************************************)
EXTENDS Realm, FiniteSetTheorems, TLAPS

\* No call that is under way takes a out of the founder rank of g.
Spared(g, a) ==
    \A b \in Account : call[b].guild = g /\ a \in call[b].whom =>
        /\ call[b].at \notin {"kicking", "leaving"}
        /\ call[b].at = "ranking" => call[b].rank = Founder

Secure(g, a) == guildOf[a] = g /\ rankOf[a] = Founder /\ Spared(g, a)

SecurelyLed == \A g \in Guild : Standing(g) => \E a \in Account : Secure(g, a)

\* No call is about an id that is not given out, nor about one that is being
\* founded but the founding.
IdsAreFresh ==
    /\ \A g \in Guild, b \in Account : status[g] = "unused" => call[b].guild # g
    /\ \A a \in Account : call[a].at = "creating" =>
         /\ call[a].guild \in Guild /\ status[call[a].guild] = "reserved"
         /\ \A b \in Account \ {a} : call[b].guild # call[a].guild

\* A call that is under way is about a guild, and a rank change about a rank.
CallsNameGuilds ==
    \A a \in Account :
        /\ call[a].at # "idle" => call[a].guild \in Guild
        /\ call[a].at = "ranking" => call[a].rank \in Rank

IInv == TypeOK /\ CallsNameGuilds /\ RowsHaveGuilds /\ IdsAreFresh /\ SecurelyLed

\* One account's part of the next-state relation.
StepOf(a) ==
    \/ Create(a) \/ Establish(a)
    \/ AddMember(a) \/ Welcome(a)
    \/ RemoveRow(a) \/ SetRank(a)
    \/ Leave(a) \/ Disband(a) \/ DeleteGuild(a)
    \/ Fail(a)
    \/ \E b \in Account :
         \/ Accept(a, b) \/ Kick(a, b) \/ Part(a, b)
         \/ \E rank \in Rank, permission \in {"promote", "demote"} :
              ChangeRank(a, b, rank, permission)
----------------------------------------------------------------------------
\* What a call holds is typed, whatever it is about.
LEMMA DoingType ==
    ASSUME NEW at \in {"idle", "creating", "adding", "welcoming", "kicking", "leaving",
                       "parting", "ranking", "dissolving", "disbanding"},
           NEW g \in Guild \cup {None}, NEW whom \in SUBSET Account, NEW r \in Rank \cup {None}
    PROVE  /\ Doing(at, g, whom, r) \in Calls
           /\ Doing(at, g, whom, r).at = at
           /\ Doing(at, g, whom, r).guild = g
           /\ Doing(at, g, whom, r).whom = whom
           /\ Doing(at, g, whom, r).rank = r
BY DEF Doing, Calls

LEMMA IdleType == Idle \in Calls /\ Idle.at = "idle" /\ Idle.guild = None /\ Idle.whom = {}
BY DEF Idle, Doing, Calls

\* Init establishes the invariant.
LEMMA InitInv == Init => IInv
<1>1. Init => TypeOK
  BY IdleType, ConstantsAssumption DEF Init, TypeOK
<1> QED
  BY <1>1, IdleType, ConstantsAssumption
     DEF Init, IInv, CallsNameGuilds, RowsHaveGuilds, IdsAreFresh, SecurelyLed, Standing

\* Every step keeps every variable in its type.
LEMMA TypeStep == TypeOK /\ CallsNameGuilds /\ [Next]_vars => TypeOK' /\ CallsNameGuilds'
<1> SUFFICES ASSUME TypeOK, CallsNameGuilds, [Next]_vars
             PROVE  TypeOK' /\ CallsNameGuilds'
  OBVIOUS
<1> USE IdleType, ConstantsAssumption
<1>1. CASE UNCHANGED vars
  BY <1>1 DEF vars, TypeOK, CallsNameGuilds
<1>2. ASSUME NEW a \in Account, StepOf(a)
      PROVE  TypeOK' /\ CallsNameGuilds'
  <2>1. CASE Create(a)
    BY <2>1 DEF Create, Goto, Doing, Calls, TypeOK, CallsNameGuilds, history
  <2>2. CASE Establish(a)
    BY <2>2 DEF Establish, Goto, Calls, TypeOK, CallsNameGuilds, history
  <2>3. CASE AddMember(a)
    <3>1. call[a].guild \in Guild
      BY <2>3 DEF AddMember, CallsNameGuilds
    <3>2. /\ status' = status /\ chat' = chat
          /\ guildOf' \in [Account -> Guild \cup {None}] /\ rankOf' \in [Account -> Rank]
      BY <2>3, <3>1 DEF AddMember, TypeOK
    <3>3. disturbed' \subseteq Account /\ joinedLate' \subseteq Guild
      BY <2>3, <3>1 DEF AddMember, TypeOK, history
    <3>4. \/ Goto(a, Idle)
          \/ Goto(a, Doing("welcoming", call[a].guild, {a}, None))
      BY <2>3 DEF AddMember
    <3>5. call' \in [Account -> Calls] /\ CallsNameGuilds'
      BY <3>1, <3>4 DEF Goto, Doing, Calls, TypeOK, CallsNameGuilds
    <3> QED
      BY <3>2, <3>3, <3>5 DEF TypeOK
  <2>4. CASE Welcome(a)
    BY <2>4 DEF Welcome, Goto, Calls, TypeOK, CallsNameGuilds, tables, history
  <2>5. CASE RemoveRow(a)
    BY <2>5 DEF RemoveRow, Goto, Doing, Calls, TypeOK, CallsNameGuilds
  <2>6. CASE SetRank(a)
    BY <2>6 DEF SetRank, Goto, Calls, TypeOK, CallsNameGuilds, history
  <2>7. CASE Leave(a)
    BY <2>7 DEF Leave, Goto, Doing, Calls, TypeOK, CallsNameGuilds, tables, history
  <2>8. CASE Disband(a)
    BY <2>8 DEF Disband, Members, Goto, Doing, Calls, TypeOK, CallsNameGuilds, tables, history
  <2>9. CASE DeleteGuild(a)
    BY <2>9 DEF DeleteGuild, Goto, Doing, Calls, TypeOK, CallsNameGuilds, history
  <2>10. CASE Fail(a)
    BY <2>10 DEF Fail, Goto, Calls, TypeOK, CallsNameGuilds, tables
  <2>11. ASSUME NEW b \in Account, Accept(a, b)
         PROVE  TypeOK' /\ CallsNameGuilds'
    BY <2>11 DEF Accept, Permitted, Goto, Doing, Calls, TypeOK, CallsNameGuilds, tables, history
  <2>12. ASSUME NEW b \in Account, Kick(a, b)
         PROVE  TypeOK' /\ CallsNameGuilds'
    BY <2>12 DEF Kick, Permitted, Goto, Doing, Calls, TypeOK, CallsNameGuilds, tables, history
  <2>13. ASSUME NEW b \in Account, Part(a, b)
         PROVE  TypeOK' /\ CallsNameGuilds'
    BY <2>13 DEF Part, Goto, Doing, Calls, TypeOK, CallsNameGuilds, tables, history
  <2>14. ASSUME NEW b \in Account, NEW r \in Rank, NEW p, ChangeRank(a, b, r, p)
         PROVE  TypeOK' /\ CallsNameGuilds'
    BY <2>14 DEF ChangeRank, Permitted, Goto, Doing, Calls, TypeOK, CallsNameGuilds, tables, history
  <2> QED
    BY <1>2, <2>1, <2>2, <2>3, <2>4, <2>5, <2>6, <2>7, <2>8, <2>9, <2>10, <2>11, <2>12,
       <2>13, <2>14 DEF StepOf
<1> QED
  BY <1>1, <1>2 DEF Next, StepOf

\* No step takes a guild away from under its members, or puts a row into a guild
\* that does not stand.
LEMMA RowsStep == TypeOK /\ CallsNameGuilds /\ IdsAreFresh /\ RowsHaveGuilds /\ [Next]_vars
                  => RowsHaveGuilds'
<1> SUFFICES ASSUME TypeOK, CallsNameGuilds, IdsAreFresh, RowsHaveGuilds, [Next]_vars
             PROVE  RowsHaveGuilds'
  OBVIOUS
<1> USE ConstantsAssumption DEF RowsHaveGuilds, Standing
<1>1. CASE UNCHANGED vars
  BY <1>1 DEF vars
<1>2. ASSUME NEW a \in Account, StepOf(a)
      PROVE  RowsHaveGuilds'
  <2>1. CASE Create(a)
    BY <2>1 DEF Create, TypeOK
  <2>2. CASE Establish(a)
    BY <2>2 DEF Establish, TypeOK, IdsAreFresh
  <2>3. CASE AddMember(a)
    BY <2>3 DEF AddMember, TypeOK
  <2>4. CASE RemoveRow(a)
    BY <2>4 DEF RemoveRow, TypeOK
  <2>5. CASE DeleteGuild(a)
    BY <2>5 DEF DeleteGuild, TypeOK
  <2>6. ASSUME UNCHANGED <<status, guildOf>>
        PROVE  RowsHaveGuilds'
    BY <2>6
  <2>7. CASE Welcome(a) \/ SetRank(a) \/ Leave(a) \/ Disband(a) \/ Fail(a)
    BY <2>6, <2>7 DEF Welcome, SetRank, Leave, Disband, Fail, tables
  <2>8. ASSUME NEW b \in Account, Accept(a, b) \/ Kick(a, b) \/ Part(a, b)
        PROVE  RowsHaveGuilds'
    BY <2>6, <2>8 DEF Accept, Kick, Part, tables
  <2>9. ASSUME NEW b \in Account, NEW r \in Rank, NEW p, ChangeRank(a, b, r, p)
        PROVE  RowsHaveGuilds'
    BY <2>6, <2>9 DEF ChangeRank, tables
  <2> QED
    BY <1>2, <2>1, <2>2, <2>3, <2>4, <2>5, <2>7, <2>8, <2>9 DEF StepOf
<1> QED
  BY <1>1, <1>2 DEF Next, StepOf

\* Ids stay fresh until they are given out, and then belong to the founding.
LEMMA FreshStep == TypeOK /\ CallsNameGuilds /\ RowsHaveGuilds /\ IdsAreFresh /\ [Next]_vars
                   => IdsAreFresh'
<1> SUFFICES ASSUME TypeOK, CallsNameGuilds, RowsHaveGuilds, IdsAreFresh, [Next]_vars
             PROVE  IdsAreFresh'
  OBVIOUS
<1> USE ConstantsAssumption
<1>1. CASE UNCHANGED vars
  BY <1>1 DEF vars, IdsAreFresh
<1>2. ASSUME NEW a \in Account, StepOf(a)
      PROVE  IdsAreFresh'
  \* A call that goes on about its guild, or ends, or begins about one that stands.
  <2>1. ASSUME UNCHANGED status,
               NEW at, NEW g, NEW whom, NEW r, Goto(a, Doing(at, g, whom, r)),
               at # "creating",
               g \in {None, call[a].guild} \/ (g \in Guild /\ Standing(g))
        PROVE  IdsAreFresh'
    <3>1. \A b \in Account : call'[b] = IF b = a THEN Doing(at, g, whom, r) ELSE call[b]
      BY <2>1 DEF Goto
    <3>2. call'[a].at # "creating" /\ call'[a].guild = g
      BY <2>1, <3>1 DEF Doing
    <3> QED
      BY <2>1, <3>1, <3>2 DEF IdsAreFresh, Standing, TypeOK
  <2>2. ASSUME UNCHANGED status, Goto(a, Idle)
        PROVE  IdsAreFresh'
    BY <2>1, <2>2 DEF Idle
  <2>3. CASE Create(a)
    <3>1. PICK g \in Guild : /\ status[g] = "unused"
                             /\ status' = [h \in Guild |-> IF h = g THEN "reserved" ELSE status[h]]
                             /\ Goto(a, Doing("creating", g, {}, None))
      BY <2>3 DEF Create
    <3>2. \A b \in Account : call'[b] = IF b = a THEN Doing("creating", g, {}, None) ELSE call[b]
      BY <3>1 DEF Goto
    <3>3. call'[a].at = "creating" /\ call'[a].guild = g
      BY <3>2 DEF Doing
    <3>4. \A b \in Account : call[b].guild # g
      BY <3>1 DEF IdsAreFresh
    <3> QED
      BY <3>1, <3>2, <3>3, <3>4 DEF IdsAreFresh, TypeOK
  <2>4. CASE Establish(a)
    <3>1. \A b \in Account : call'[b] = IF b = a THEN Idle ELSE call[b]
      BY <2>4 DEF Establish, Goto
    <3>2. \A g \in Guild : g # call[a].guild => status'[g] = status[g]
      BY <2>4 DEF Establish, TypeOK
    <3>3. status'[call[a].guild] # "unused" /\ call[a].guild \in Guild
      BY <2>4 DEF Establish, TypeOK, IdsAreFresh
    <3> QED
      BY <2>4, <3>1, <3>2, <3>3, IdleType DEF Establish, IdsAreFresh
  <2>5. CASE DeleteGuild(a)
    <3>1. /\ call[a].guild \in Guild /\ call[a].at # "idle"
          /\ status' = [h \in Guild |-> IF h = call[a].guild THEN "gone" ELSE status[h]]
      BY <2>5 DEF DeleteGuild, CallsNameGuilds
    <3>2. \A b \in Account : call'[b] = IF b = a THEN Doing("parting", call[a].guild, call[a].whom, None)
                                                 ELSE call[b]
      BY <2>5 DEF DeleteGuild, Goto
    <3>3. call'[a].at = "parting" /\ call'[a].guild = call[a].guild
      BY <3>2 DEF Doing
    <3>4. \A b \in Account : call[b].at = "creating" => call[b].guild # call[a].guild
      BY <2>5 DEF DeleteGuild, IdsAreFresh
    <3> QED
      BY <3>1, <3>2, <3>3, <3>4 DEF IdsAreFresh, TypeOK
  <2>6. CASE AddMember(a)
    BY <2>1, <2>2, <2>6 DEF AddMember
  <2>7. CASE Welcome(a) \/ SetRank(a) \/ Fail(a)
    BY <2>2, <2>7 DEF Welcome, SetRank, Fail, tables
  <2>8. CASE RemoveRow(a)
    BY <2>1, <2>8 DEF RemoveRow
  <2>9. CASE Leave(a)
    <3>1. guildOf[a] \in Guild /\ Standing(guildOf[a])
      BY <2>9 DEF Leave, RowsHaveGuilds, TypeOK
    <3>2. \/ Goto(a, Doing("dissolving", guildOf[a], {a}, None))
          \/ Goto(a, Doing("leaving", guildOf[a], {a}, None))
      BY <2>9 DEF Leave
    <3> QED
      BY <2>1, <2>9, <3>1, <3>2 DEF Leave, tables
  <2>10. CASE Disband(a)
    <3>1. guildOf[a] \in Guild /\ Standing(guildOf[a])
      BY <2>10 DEF Disband, RowsHaveGuilds, TypeOK
    <3> QED
      BY <2>1, <2>10, <3>1 DEF Disband, tables
  <2>11. ASSUME NEW b \in Account, Accept(a, b)
         PROVE  IdsAreFresh'
    <3>1. guildOf[b] \in Guild /\ Standing(guildOf[b])
      BY <2>11 DEF Accept, Permitted, RowsHaveGuilds, TypeOK
    <3> QED
      BY <2>1, <2>11, <3>1 DEF Accept, tables
  <2>12. ASSUME NEW b \in Account, Kick(a, b)
         PROVE  IdsAreFresh'
    <3>1. guildOf[a] \in Guild /\ Standing(guildOf[a])
      BY <2>12 DEF Kick, Permitted, RowsHaveGuilds, TypeOK
    <3> QED
      BY <2>1, <2>12, <3>1 DEF Kick, tables
  <2>13. ASSUME NEW b \in Account, Part(a, b)
         PROVE  IdsAreFresh'
    <3>1. \/ Goto(a, Idle)
          \/ Goto(a, Doing("parting", call[a].guild, call[a].whom \ {b}, None))
      BY <2>13 DEF Part
    <3> QED
      BY <2>1, <2>2, <2>13, <3>1 DEF Part, tables
  <2>14. ASSUME NEW b \in Account, NEW r \in Rank, NEW p, ChangeRank(a, b, r, p)
         PROVE  IdsAreFresh'
    <3>1. guildOf[a] \in Guild /\ Standing(guildOf[a])
      BY <2>14 DEF ChangeRank, Permitted, RowsHaveGuilds, TypeOK
    <3> QED
      BY <2>1, <2>14, <3>1 DEF ChangeRank, tables
  <2> QED
    BY <1>2, <2>3, <2>4, <2>5, <2>6, <2>7, <2>8, <2>9, <2>10, <2>11, <2>12, <2>13, <2>14
       DEF StepOf
<1> QED
  BY <1>1, <1>2 DEF Next, StepOf

\* The secure founder of a standing guild stays, unless it is moved out of its
\* rank on purpose; a guild that is founded gets one.
LEMMA SecureStep == IInv /\ MoveFounders = FALSE /\ [Next]_vars => SecurelyLed'
<1> SUFFICES ASSUME TypeOK, CallsNameGuilds, IdsAreFresh, SecurelyLed, MoveFounders = FALSE,
                    [Next]_vars, NEW g \in Guild, Standing(g)'
             PROVE  \E w \in Account : Secure(g, w)'
  BY DEF IInv, SecurelyLed
<1> USE ConstantsAssumption
<1>1. CASE UNCHANGED vars
  BY <1>1 DEF vars, SecurelyLed, Secure, Spared, Standing
<1>2. ASSUME NEW a \in Account, StepOf(a)
      PROVE  \E w \in Account : Secure(g, w)'
  \* The founding itself: no other call is about the guild.
  <2>1. CASE Establish(a) /\ ~Standing(g)
    <3>1. g = call[a].guild /\ guildOf'[a] = g /\ rankOf'[a] = Founder
      BY <2>1 DEF Establish, Standing, TypeOK
    <3>2. \A b \in Account : call'[b] = IF b = a THEN Idle ELSE call[b]
      BY <2>1 DEF Establish, Goto
    <3>3. \A b \in Account : call'[b].guild # g
      BY <2>1, <3>1, <3>2, IdleType DEF Establish, IdsAreFresh
    <3> QED
      BY <3>1, <3>3 DEF Secure, Spared
  <2>2. Establish(a) \/ Standing(g)
    BY <1>2 DEF StepOf, Standing, TypeOK, Create, AddMember, Welcome, RemoveRow, SetRank,
                Leave, Disband, DeleteGuild, Fail, Accept, Kick, Part, ChangeRank, tables
  <2>3. ASSUME Standing(g)
        PROVE  \E w \in Account : Secure(g, w)'
    <3>1. PICK w \in Account : Secure(g, w)
      BY <2>3 DEF SecurelyLed
    <3>2. /\ guildOf[w] = g /\ g # None /\ rankOf[w] = Founder /\ Spared(g, w)
      BY <3>1 DEF Secure
    \* It stays secure if its row does and the new call does not mean it harm.
    <3>3. ASSUME guildOf'[w] = g, rankOf'[w] = Founder,
                 NEW at, NEW h, NEW whom, NEW r, Goto(a, Doing(at, h, whom, r)),
                 h = g /\ w \in whom => /\ at \notin {"kicking", "leaving"}
                                        /\ at = "ranking" => r = Founder
          PROVE  Secure(g, w)'
      <4>1. \A b \in Account : call'[b] = IF b = a THEN Doing(at, h, whom, r) ELSE call[b]
        BY <3>3 DEF Goto
      <4>2. /\ call'[a].at = at /\ call'[a].guild = h
            /\ call'[a].whom = whom /\ call'[a].rank = r
        BY <4>1 DEF Doing
      <4> QED
        BY <3>2, <3>3, <4>1, <4>2 DEF Secure, Spared
    <3>4. ASSUME guildOf'[w] = g, rankOf'[w] = Founder, Goto(a, Idle)
          PROVE  Secure(g, w)'
      BY <3>3, <3>4 DEF Idle
    <3>5. CASE Create(a)
      BY <3>2, <3>3, <3>5 DEF Create, history
    <3>6. CASE Establish(a)
      <4>1. guildOf'[w] = g /\ rankOf'[w] = Founder
        BY <3>2, <3>6 DEF Establish, TypeOK
      <4> QED
        BY <3>4, <3>6, <4>1 DEF Establish
    <3>7. CASE AddMember(a)
      <4>1. guildOf'[w] = g /\ rankOf'[w] = Founder
        BY <3>2, <3>7 DEF AddMember, TypeOK
      <4>2. \/ Goto(a, Idle)
            \/ Goto(a, Doing("welcoming", call[a].guild, {a}, None))
        BY <3>7 DEF AddMember
      <4> QED
        BY <3>3, <3>4, <4>1, <4>2
    <3>8. CASE Welcome(a) \/ Fail(a)
      BY <3>2, <3>4, <3>8 DEF Welcome, Fail, tables
    <3>9. CASE RemoveRow(a)
      <4>1. ~(w \in call[a].whom /\ call[a].guild = g)
        BY <3>2, <3>9 DEF RemoveRow, Spared
      <4>2. guildOf'[w] = g
        BY <3>2, <3>9, <4>1 DEF RemoveRow
      <4>3. rankOf'[w] = Founder
        BY <3>2, <3>9, <4>2 DEF RemoveRow
      <4> QED
        BY <3>3, <3>9, <4>2, <4>3 DEF RemoveRow
    <3>10. CASE SetRank(a)
      <4>1. guildOf'[w] = g
        BY <3>2, <3>10 DEF SetRank
      <4>2. rankOf'[w] = Founder
        BY <3>2, <3>10 DEF SetRank, Spared
      <4> QED
        BY <3>4, <3>10, <4>1, <4>2 DEF SetRank
    <3>11. CASE Leave(a)
      <4>1. PICK at : /\ Goto(a, Doing(at, guildOf[a], {a}, None))
                      /\ at = IF rankOf[a] = Founder THEN "dissolving" ELSE "leaving"
        BY <3>11 DEF Leave
      <4>2. guildOf'[w] = g /\ rankOf'[w] = Founder
        BY <3>2, <3>11 DEF Leave, tables
      <4>3. w \in {a} => at = "dissolving"
        BY <3>2, <4>1
      <4>4. at # "ranking"
        BY <4>1
      <4> QED
        BY <3>3, <4>1, <4>2, <4>3, <4>4
    <3>12. CASE Disband(a)
      BY <3>2, <3>3, <3>12 DEF Disband, tables
    <3>13. CASE DeleteGuild(a)
      <4>1. call[a].guild # g
        BY <3>13 DEF DeleteGuild, Standing
      <4>2. guildOf'[w] = g
        BY <3>2, <3>13, <4>1 DEF DeleteGuild
      <4>3. rankOf'[w] = Founder
        BY <3>2, <3>13, <4>2 DEF DeleteGuild
      <4> QED
        BY <3>3, <3>13, <4>2, <4>3 DEF DeleteGuild
    <3>14. ASSUME NEW b \in Account, Accept(a, b)
           PROVE  Secure(g, w)'
      BY <3>2, <3>3, <3>14 DEF Accept, tables
    <3>15. ASSUME NEW b \in Account, Kick(a, b)
           PROVE  Secure(g, w)'
      BY <3>2, <3>3, <3>15 DEF Kick, tables
    <3>16. ASSUME NEW b \in Account, Part(a, b)
           PROVE  Secure(g, w)'
      <4>1. \/ Goto(a, Idle)
            \/ Goto(a, Doing("parting", call[a].guild, call[a].whom \ {b}, None))
        BY <3>16 DEF Part
      <4> QED
        BY <3>2, <3>3, <3>4, <3>16, <4>1 DEF Part, tables
    <3>17. ASSUME NEW b \in Account, NEW r \in Rank, NEW p, ChangeRank(a, b, r, p)
           PROVE  Secure(g, w)'
      <4>1. w = b => r = Founder
        BY <3>2, <3>17 DEF ChangeRank
      <4> QED
        BY <3>2, <3>3, <3>17, <4>1 DEF ChangeRank, tables
    <3> QED
      BY <1>2, <3>5, <3>6, <3>7, <3>8, <3>9, <3>10, <3>11, <3>12, <3>13, <3>14, <3>15,
         <3>16, <3>17 DEF StepOf
  <2> QED
    BY <2>1, <2>2, <2>3
<1> QED
  BY <1>1, <1>2 DEF Next, StepOf
----------------------------------------------------------------------------
\* Every variable has its type in every reachable state, however many accounts and
\* calls there are.
THEOREM TypeCorrect == Spec => []TypeOK
<1>1. Init => TypeOK /\ CallsNameGuilds
  BY InitInv DEF IInv
<1>2. TypeOK /\ CallsNameGuilds /\ [Next]_vars => (TypeOK /\ CallsNameGuilds)'
  BY TypeStep
<1> QED
  BY <1>1, <1>2, PTL DEF Spec

\* Nobody is ever in a guild that does not stand: additions, kicks and leaves that
\* run into a guild's deletion leave no row behind.
THEOREM RowsAlwaysHaveGuilds == Spec => []RowsHaveGuilds
<1> DEFINE J == TypeOK /\ CallsNameGuilds /\ RowsHaveGuilds /\ IdsAreFresh
<1>1. Init => J
  BY InitInv DEF IInv
<1>2. J /\ [Next]_vars => J'
  BY TypeStep, RowsStep, FreshStep
<1>3. J => RowsHaveGuilds
  OBVIOUS
<1> QED
  BY <1>1, <1>2, <1>3, PTL DEF Spec

\* As long as nobody is moved out of the founder rank, a guild that stands always
\* has a founder: no interleaving of kicks, leaves, promotions and disbandings
\* takes the last one away.
THEOREM AlwaysLed ==
  ASSUME MoveFounders = FALSE
  PROVE  Spec => []Led
<1>1. IInv /\ [Next]_vars => IInv'
  BY TypeStep, RowsStep, FreshStep, SecureStep DEF IInv
<1>2. IInv => Led
  BY DEF IInv, SecurelyLed, Secure, Led, Members
<1> QED
  BY InitInv, <1>1, <1>2, PTL DEF Spec
----------------------------------------------------------------------------
\* A change of a's membership of g that has yet to reach the channel, or just
\* to find that the guild is gone.
Pending(g, a) ==
    \E b \in Account : /\ call[b].at \in {"welcoming", "parting"}
                      /\ call[b].guild = g /\ a \in call[b].whom

\* The channel of g tells of a what the roster does, unless a change is pending;
\* what is pending, the roster has already (undisturbed by a second change); and
\* a channel that waits for its guild to be founded holds the founder.
ChatOf(g, a) ==
    /\ \A b \in Account : call[b].at = "creating" /\ call[b].guild = g =>
          (a \in chat[g] <=> a = b)
    /\ Standing(g) /\ a \notin disturbed =>
          /\ ~Pending(g, a) => (a \in chat[g] <=> guildOf[a] = g)
          /\ \A b \in Account : call[b].guild = g /\ a \in call[b].whom =>
                /\ call[b].at = "welcoming" => guildOf[a] = g
                /\ call[b].at = "parting" => guildOf[a] # g

\* Accounts are welcomed by their own sessions.
OwnWelcome == \A a \in Account : call[a].at = "welcoming" => call[a].whom = {a}

ChatInv == OwnWelcome /\ \A g \in Guild, a \in Account : ChatOf(g, a)

\* Whom a founder leaves behind has joined since it counted.
LeavesAlone ==
    \A a \in Account : LET g == call[a].guild IN
        call[a].at = "dissolving" /\ Standing(g) /\ g \notin joinedLate
        => Members(g) \subseteq {a}

Base == TypeOK /\ CallsNameGuilds /\ RowsHaveGuilds /\ IdsAreFresh

\* A step that changes nothing of b's membership of g, begins no change of it,
\* and ends none.
SameOf(g, b) ==
    /\ b \in chat'[g] <=> b \in chat[g]
    /\ Standing(g)' => Standing(g)
    /\ disturbed \subseteq disturbed'
    /\ guildOf'[b] = g <=> guildOf[b] = g
    /\ \A c \in Account : call'[c].guild = g =>
          /\ call'[c].at = "creating" => call[c].at = "creating" /\ call[c].guild = g
          /\ b \in call'[c].whom /\ call'[c].at \in {"welcoming", "parting"} =>
                call[c].at = call'[c].at /\ call[c].guild = g /\ b \in call[c].whom
    /\ b \notin disturbed' => \A c \in Account :
          call[c].at \in {"welcoming", "parting"} /\ call[c].guild = g /\ b \in call[c].whom =>
             call'[c].at = call[c].at /\ call'[c].guild = g /\ b \in call'[c].whom

LEMMA ChatKept ==
  ASSUME NEW g \in Guild, NEW b \in Account, ChatOf(g, b), SameOf(g, b)
  PROVE  ChatOf(g, b)'
<1>1. \A c \in Account : call'[c].at = "creating" /\ call'[c].guild = g =>
         (b \in chat'[g] <=> b = c)
  BY DEF ChatOf, SameOf
<1>2. ASSUME Standing(g)', b \notin disturbed'
      PROVE  /\ ~Pending(g, b)' => (b \in chat'[g] <=> guildOf'[b] = g)
             /\ \A c \in Account : call'[c].guild = g /\ b \in call'[c].whom =>
                   /\ call'[c].at = "welcoming" => guildOf'[b] = g
                   /\ call'[c].at = "parting" => guildOf'[b] # g
  <2>1. Standing(g) /\ b \notin disturbed
    BY <1>2 DEF SameOf
  <2>2. Pending(g, b) => Pending(g, b)'
    BY <1>2 DEF SameOf, Pending
  <2> QED
    BY <2>1, <2>2 DEF ChatOf, SameOf
<1> QED
  BY <1>1, <1>2 DEF ChatOf

\* What a session's call becomes.
LEMMA GotoCall ==
  ASSUME TypeOK, NEW a \in Account, NEW doing, Goto(a, doing)
  PROVE  call'[a] = doing /\ \A c \in Account \ {a} : call'[c] = call[c]
  BY DEF Goto

\* Steps that leave tables and channels alone and end no pending change.
LEMMA QuietChat ==
  ASSUME TypeOK, ChatInv, NEW a \in Account, NEW doing, Goto(a, doing),
         doing.at \notin {"creating", "welcoming", "parting"},
         call[a].at \notin {"welcoming", "parting"},
         UNCHANGED <<status, guildOf, chat, disturbed>>
  PROVE  ChatInv'
<1>1. call'[a] = doing /\ \A c \in Account \ {a} : call'[c] = call[c]
  BY GotoCall
<1>2. OwnWelcome'
  BY <1>1 DEF ChatInv, OwnWelcome
<1>3. ASSUME NEW g \in Guild, NEW b \in Account PROVE SameOf(g, b)
  BY <1>1 DEF SameOf, Standing
<1> QED
  BY <1>2, <1>3, ChatKept DEF ChatInv

LEMMA ChatStepOf ==
  ASSUME Base, ChatInv, NEW a \in Account, StepOf(a)
  PROVE  ChatInv'
<1>g. PICK g : g = call[a].guild
  OBVIOUS
<1> USE <1>g
<1>0. TypeOK /\ CallsNameGuilds /\ RowsHaveGuilds /\ IdsAreFresh
  BY DEF Base
<1>i. Idle.at = "idle" /\ Idle.whom = {}
  BY IdleType
<1>f. Free(a) => call[a].at = "idle"
  BY <1>i DEF Free
<1>1. CASE Create(a)
  <2>1. PICK h \in Guild :
           /\ status[h] = "unused"
           /\ status' = [k \in Guild |-> IF k = h THEN "reserved" ELSE status[k]]
           /\ chat' = [k \in Guild |-> IF k = h THEN {a} ELSE chat[k]]
           /\ Goto(a, Doing("creating", h, {}, None))
    BY <1>1 DEF Create
  <2>2. /\ call[a].at = "idle" /\ guildOf' = guildOf /\ disturbed' = disturbed
        /\ \A c \in Account \ {a} : call'[c] = call[c]
        /\ call'[a].at = "creating" /\ call'[a].guild = h /\ call'[a].whom = {}
    BY <1>0, <1>1, <1>f, <2>1, GotoCall DEF Create, history, Doing
  <2>3. OwnWelcome'
    BY <2>2 DEF ChatInv, OwnWelcome
  <2>4. ASSUME NEW k \in Guild, NEW b \in Account PROVE ChatOf(k, b)'
    <3>1. CASE k = h
      <4>1. ~Standing(k)' /\ chat'[k] = {a}
        BY <2>1, <3>1 DEF Standing
      <4>2. \A c \in Account : call'[c].at = "creating" /\ call'[c].guild = k => c = a
        BY <1>0, <2>1, <2>2, <3>1 DEF IdsAreFresh
      <4> QED
        BY <4>1, <4>2 DEF ChatOf
    <3>2. CASE k # h
      <4>1. SameOf(k, b)
        BY <2>1, <2>2, <3>2 DEF SameOf, Standing
      <4> QED
        BY <4>1, ChatKept DEF ChatInv
    <3> QED
      BY <3>1, <3>2
  <2> QED
    BY <2>3, <2>4 DEF ChatInv
<1>2. CASE Establish(a)
  <2>1. /\ call[a].at = "creating" /\ g \in Guild /\ status[g] = "reserved"
        /\ \A c \in Account \ {a} : call[c].guild # g
    BY <1>0, <1>2 DEF Establish, IdsAreFresh
  <2>2. /\ call'[a] = Idle /\ (\A c \in Account \ {a} : call'[c] = call[c])
        /\ chat' = chat /\ disturbed' = disturbed
    BY <1>0, <1>2, GotoCall DEF Establish, history
  <2>3. OwnWelcome'
    BY <1>i, <2>2 DEF ChatInv, OwnWelcome
  <2>4. CASE guildOf[a] # None
    <3>1. UNCHANGED <<status, guildOf>>
      BY <1>2, <2>4 DEF Establish
    <3>2. ASSUME NEW k \in Guild, NEW b \in Account PROVE SameOf(k, b)
      BY <1>i, <2>1, <2>2, <3>1 DEF SameOf, Standing
    <3> QED
      BY <2>3, <3>2, ChatKept DEF ChatInv
  <2>5. CASE guildOf[a] = None
    <3>1. /\ status' = [h \in Guild |-> IF h = g THEN "standing" ELSE status[h]]
          /\ guildOf' = [b \in Account |-> IF b = a THEN g ELSE guildOf[b]]
      BY <1>2, <2>5 DEF Establish
    <3>2. ASSUME NEW k \in Guild, NEW b \in Account PROVE ChatOf(k, b)'
      <4>1. CASE k = g
        <5>1. b \in chat'[g] <=> b = a
          BY <2>1, <2>2 DEF ChatInv, ChatOf
        <5>2. guildOf'[b] = g <=> b = a
          BY <1>0, <2>1, <3>1, ConstantsAssumption DEF RowsHaveGuilds, Standing
        <5>3. \A c \in Account : call'[c].guild = g => c = a
          BY <2>1, <2>2
        <5> QED
          BY <1>i, <2>2, <4>1, <5>1, <5>2, <5>3 DEF ChatOf
      <4>2. CASE k # g
        <5>1. SameOf(k, b)
          BY <1>i, <2>1, <2>2, <2>5, <3>1, <4>2, ConstantsAssumption DEF SameOf, Standing
        <5> QED
          BY <5>1, ChatKept DEF ChatInv
      <4> QED
        BY <4>1, <4>2
    <3> QED
      BY <2>3, <3>2 DEF ChatInv
  <2> QED
    BY <2>4, <2>5
<1>3. CASE AddMember(a)
  <2>1. call[a].at = "adding" /\ g \in Guild
    BY <1>0, <1>3 DEF AddMember, CallsNameGuilds
  <2>2. CASE Standing(g) /\ guildOf[a] = None
    <3>1. /\ UNCHANGED <<status, chat>>
          /\ guildOf' = [b \in Account |-> IF b = a THEN g ELSE guildOf[b]]
          /\ Goto(a, Doing("welcoming", g, {a}, None))
          /\ disturbed' = IF \E b \in Account : /\ call[b].at = "parting"
                                                /\ call[b].guild = g /\ a \in call[b].whom
                             THEN disturbed \cup {a} ELSE disturbed
      BY <1>3, <2>2 DEF AddMember
    <3>2. /\ \A c \in Account \ {a} : call'[c] = call[c]
          /\ call'[a].at = "welcoming" /\ call'[a].guild = g /\ call'[a].whom = {a}
      BY <1>0, <3>1, GotoCall DEF Doing
    <3>3. OwnWelcome'
      BY <3>2 DEF ChatInv, OwnWelcome
    <3>4. ASSUME NEW k \in Guild, NEW b \in Account, b # a \/ k # g PROVE SameOf(k, b)
      BY <2>1, <2>2, <3>1, <3>2, <3>4, ConstantsAssumption DEF SameOf, Standing
    <3>5. ChatOf(g, a)'
      <4>1. \A c \in Account : call'[c].at = "creating" => call'[c].guild # g
        BY <1>0, <2>1, <2>2, <3>2 DEF IdsAreFresh, Standing
      <4>2. Pending(g, a)'
        BY <3>2 DEF Pending
      <4>3. guildOf'[a] = g
        BY <3>1
      <4>4. a \notin disturbed' => \A c \in Account : call'[c].guild = g /\ a \in call'[c].whom
                                      => call'[c].at # "parting"
        BY <3>1, <3>2
      <4> QED
        BY <4>1, <4>2, <4>3, <4>4 DEF ChatOf
    <3> QED
      BY <3>3, <3>4, <3>5, ChatKept DEF ChatInv
  <2>3. CASE ~(Standing(g) /\ guildOf[a] = None)
    <3>1. Goto(a, Idle) /\ UNCHANGED <<status, guildOf, chat, disturbed>>
      BY <1>3, <2>3 DEF AddMember, history
    <3> QED
      BY <1>0, <1>i, <2>1, <3>1, QuietChat
  <2> QED
    BY <2>2, <2>3
<1>4. CASE Welcome(a)
  <2>1. /\ call[a].at = "welcoming" /\ g \in Guild /\ call[a].whom = {a}
        /\ chat' = [h \in Guild |-> IF h = g /\ Standing(g) THEN chat[h] \cup {a} ELSE chat[h]]
        /\ UNCHANGED <<status, guildOf, disturbed>>
    BY <1>0, <1>4 DEF Welcome, CallsNameGuilds, ChatInv, OwnWelcome, tables, history
  <2>2. call'[a] = Idle /\ (\A c \in Account \ {a} : call'[c] = call[c])
    BY <1>0, <1>4, GotoCall DEF Welcome
  <2>3. OwnWelcome'
    BY <1>i, <2>2 DEF ChatInv, OwnWelcome
  <2>4. ASSUME NEW k \in Guild, NEW b \in Account, b # a \/ k # g \/ ~Standing(g)
        PROVE  ChatOf(k, b)'
    <3>1. CASE b # a \/ k # g
      <4>1. SameOf(k, b)
        BY <1>i, <2>1, <2>2, <3>1 DEF SameOf, Standing
      <4> QED
        BY <4>1, ChatKept DEF ChatInv
    <3>2. CASE b = a /\ k = g /\ ~Standing(g)
      <4>1. ~Standing(g)' /\ chat'[g] = chat[g]
        BY <2>1, <3>2 DEF Standing
      <4> QED
        BY <1>i, <2>1, <2>2, <3>2, <4>1 DEF ChatInv, ChatOf
    <3> QED
      BY <2>4, <3>1, <3>2
  <2>5. ASSUME Standing(g) PROVE ChatOf(g, a)'
    <3>1. a \in chat'[g]
      BY <2>1, <2>5
    <3>2. \A c \in Account : call'[c].at = "creating" => call'[c].guild # g
      BY <1>0, <1>i, <2>1, <2>2, <2>5 DEF IdsAreFresh, Standing
    <3>3. ChatOf(g, a)
      BY <2>1 DEF ChatInv
    <3>4. a \notin disturbed => guildOf[a] = g
      BY <2>1, <2>5, <3>3 DEF ChatOf
    <3> QED
      BY <1>i, <2>1, <2>2, <2>5, <3>1, <3>2, <3>3, <3>4 DEF ChatOf
  <2> QED
    BY <2>1, <2>3, <2>4, <2>5 DEF ChatInv
<1>5. CASE RemoveRow(a)
  <2>1. /\ call[a].at \in {"kicking", "leaving"} /\ g \in Guild
        /\ guildOf' = [b \in Account |-> IF b \in call[a].whom /\ guildOf[b] = g
                                            THEN None ELSE guildOf[b]]
        /\ disturbed' = disturbed \cup
              {b \in call[a].whom : call[b].at = "welcoming" /\ call[b].guild = g}
        /\ UNCHANGED <<status, chat>>
    BY <1>0, <1>5 DEF RemoveRow, CallsNameGuilds
  <2>2. /\ \A c \in Account \ {a} : call'[c] = call[c]
        /\ call'[a].at = "parting" /\ call'[a].guild = g /\ call'[a].whom = call[a].whom
    BY <1>0, <1>5, GotoCall DEF RemoveRow, Doing
  <2>3. OwnWelcome'
    BY <2>2 DEF ChatInv, OwnWelcome
  <2>4. ASSUME NEW k \in Guild, NEW b \in Account, b \notin call[a].whom \/ k # g
        PROVE  SameOf(k, b)
    BY <2>1, <2>2, <2>4, ConstantsAssumption DEF SameOf, Standing
  <2>5. ASSUME NEW b \in Account, b \in call[a].whom PROVE ChatOf(g, b)'
    <3>1. Pending(g, b)' /\ guildOf'[b] # g
      BY <2>1, <2>2, <2>5, ConstantsAssumption DEF Pending
    <3>2. b \notin disturbed' => ~(\E c \in Account : /\ call'[c].at = "welcoming"
                                                      /\ call'[c].guild = g /\ b \in call'[c].whom)
      BY <2>1, <2>2, <2>5 DEF ChatInv, OwnWelcome
    <3>3. \A c \in Account : call'[c].at = "creating" /\ call'[c].guild = g =>
             (b \in chat'[g] <=> b = c)
      BY <2>1, <2>2 DEF ChatInv, ChatOf
    <3> QED
      BY <3>1, <3>2, <3>3 DEF ChatOf
  <2> QED
    BY <2>1, <2>3, <2>4, <2>5, ChatKept DEF ChatInv
<1>6. CASE DeleteGuild(a)
  <2>1. /\ call[a].at \in {"dissolving", "disbanding"} /\ g \in Guild
        /\ status' = [h \in Guild |-> IF h = g THEN "gone" ELSE status[h]]
        /\ guildOf' = [b \in Account |-> IF guildOf[b] = g THEN None ELSE guildOf[b]]
        /\ UNCHANGED <<chat, disturbed>>
    BY <1>0, <1>6 DEF DeleteGuild, CallsNameGuilds, history
  <2>2. /\ \A c \in Account \ {a} : call'[c] = call[c]
        /\ call'[a].at = "parting" /\ call'[a].guild = g
    BY <1>0, <1>6, GotoCall DEF DeleteGuild, Doing
  <2>3. OwnWelcome'
    BY <2>2 DEF ChatInv, OwnWelcome
  <2>4. ASSUME NEW k \in Guild, NEW b \in Account, k # g PROVE SameOf(k, b)
    BY <2>1, <2>2, <2>4, ConstantsAssumption DEF SameOf, Standing
  <2>5. ASSUME NEW b \in Account PROVE ChatOf(g, b)'
    <3>1. ~Standing(g)'
      BY <2>1 DEF Standing
    <3>2. \A c \in Account : call'[c].at = "creating" /\ call'[c].guild = g =>
             (b \in chat'[g] <=> b = c)
      BY <2>1, <2>2 DEF ChatInv, ChatOf
    <3> QED
      BY <3>1, <3>2 DEF ChatOf
  <2> QED
    BY <2>3, <2>4, <2>5, ChatKept DEF ChatInv
<1>7. ASSUME NEW t \in Account, Part(a, t) PROVE ChatInv'
  <2> DEFINE rest == call[a].whom \ {t}
  <2>1. /\ call[a].at = "parting" /\ t \in call[a].whom /\ g \in Guild
        /\ chat' = [h \in Guild |-> IF h = g /\ Standing(g) THEN chat[h] \ {t} ELSE chat[h]]
        /\ Goto(a, IF rest = {} THEN Idle ELSE Doing("parting", g, rest, None))
        /\ UNCHANGED <<status, guildOf, disturbed>>
    BY <1>0, <1>7 DEF Part, CallsNameGuilds, tables, history
  <2>2. /\ \A c \in Account \ {a} : call'[c] = call[c]
        /\ call'[a].at \in {"idle", "parting"} /\ call'[a].whom = rest
        /\ call'[a].at = "idle" => rest = {}
        /\ call'[a].at = "parting" => call'[a].guild = g
    BY <1>0, <1>i, <2>1, GotoCall DEF Doing
  <2>3. OwnWelcome'
    BY <2>2 DEF ChatInv, OwnWelcome
  <2>4. ASSUME NEW k \in Guild, NEW b \in Account, b # t \/ k # g PROVE ChatOf(k, b)'
    <3>1. SameOf(k, b)
      BY <2>1, <2>2, <2>4 DEF SameOf, Standing
    <3> QED
      BY <3>1, ChatKept DEF ChatInv
  <2>5. ChatOf(g, t)'
    <3>1. ChatOf(g, t)
      BY <2>1 DEF ChatInv
    <3>2. CASE Standing(g)
      <4>1. t \notin chat'[g] /\ (Standing(g)' <=> Standing(g))
        BY <2>1, <3>2 DEF Standing
      <4>2. t \notin disturbed => guildOf[t] # g
        BY <2>1, <3>1, <3>2 DEF ChatOf
      <4>3. \A c \in Account : call'[c].at = "creating" => call'[c].guild # g
        BY <1>0, <2>1, <2>2, <3>2 DEF IdsAreFresh, Standing
      <4>4. \A c \in Account : call'[c].guild = g /\ t \in call'[c].whom =>
               call[c].guild = g /\ t \in call[c].whom /\ call'[c].at = call[c].at
        BY <2>1, <2>2
      <4> QED
        BY <2>1, <3>1, <3>2, <4>1, <4>2, <4>3, <4>4 DEF ChatOf
    <3>3. CASE ~Standing(g)
      <4>1. ~Standing(g)' /\ chat'[g] = chat[g]
        BY <2>1, <3>3 DEF Standing
      <4>2. \A c \in Account : call'[c].at = "creating" => call'[c] = call[c]
        BY <2>2
      <4> QED
        BY <3>1, <4>1, <4>2 DEF ChatOf
    <3> QED
      BY <3>2, <3>3
  <2> QED
    BY <2>3, <2>4, <2>5 DEF ChatInv
<1>8. CASE Fail(a)
  <2>1. /\ disturbed' = IF call[a].at \in {"welcoming", "parting"}
                          THEN disturbed \cup call[a].whom ELSE disturbed
        /\ UNCHANGED <<status, guildOf, chat>>
    BY <1>8 DEF Fail, tables
  <2>2. call'[a] = Idle /\ (\A c \in Account \ {a} : call'[c] = call[c])
    BY <1>0, <1>8, GotoCall DEF Fail
  <2>3. OwnWelcome'
    BY <1>i, <2>2 DEF ChatInv, OwnWelcome
  <2>4. ASSUME NEW k \in Guild, NEW b \in Account PROVE SameOf(k, b)
    BY <1>i, <2>1, <2>2 DEF SameOf, Standing
  <2> QED
    BY <2>3, <2>4, ChatKept DEF ChatInv
<1>9. ASSUME \/ SetRank(a) \/ Leave(a) \/ Disband(a)
             \/ \E b \in Account : \/ Accept(a, b) \/ Kick(a, b)
                                   \/ \E rank \in Rank, permission \in {"promote", "demote"} :
                                        ChangeRank(a, b, rank, permission)
      PROVE  ChatInv'
  <2>1. /\ UNCHANGED <<status, guildOf, chat, disturbed>>
        /\ call[a].at \notin {"welcoming", "parting"}
    BY <1>9, <1>f DEF SetRank, Leave, Disband, Accept, Kick, ChangeRank, tables, history
  <2>2. \E at \in {"idle", "adding", "kicking", "ranking", "leaving", "dissolving", "disbanding"} :
          \E h, whom, rank : Goto(a, Doing(at, h, whom, rank))
    BY <1>9 DEF SetRank, Leave, Disband, Accept, Kick, ChangeRank, Idle
  <2>3. PICK at \in {"idle", "adding", "kicking", "ranking", "leaving", "dissolving", "disbanding"} :
             \E h, whom, rank : Goto(a, Doing(at, h, whom, rank))
    BY <2>2
  <2>h. PICK h, whom, rank : Goto(a, Doing(at, h, whom, rank))
    BY <2>3
  <2>4. Doing(at, h, whom, rank).at = at
    BY DEF Doing
  <2> QED
    BY <1>0, <2>1, <2>h, <2>4, QuietChat
<1> QED
  BY <1>1, <1>2, <1>3, <1>4, <1>5, <1>6, <1>7, <1>8, <1>9 DEF StepOf

LEMMA AloneStepOf ==
  ASSUME Base, LeavesAlone, NEW a \in Account, StepOf(a)
  PROVE  LeavesAlone'
<1>0. TypeOK /\ CallsNameGuilds /\ RowsHaveGuilds /\ IdsAreFresh
  BY DEF Base
<1>i. Idle.at = "idle"
  BY IdleType
<1>g. PICK g : g = call[a].guild
  OBVIOUS
\* A step that takes no guild up, lets nobody in and sets nobody about leaving.
<1>k. ASSUME \A h \in Guild : Standing(h)' => Standing(h),
             joinedLate \subseteq joinedLate',
             \A h \in Guild, b \in Account : guildOf'[b] = h => guildOf[b] = h,
             \A c \in Account : call'[c].at = "dissolving" => call'[c] = call[c]
      PROVE  LeavesAlone'
  <2> SUFFICES ASSUME NEW c \in Account, call'[c].at = "dissolving", Standing(call[c].guild)',
                      call'[c].guild \notin joinedLate'
               PROVE  (Members(call[c].guild) \subseteq {c})'
    BY DEF LeavesAlone
  <2>1. PICK h : h = call[c].guild
    OBVIOUS
  <2>2. call'[c].guild = h /\ h \in Guild /\ call[c].at = "dissolving"
    BY <1>0, <1>k, <2>1 DEF CallsNameGuilds
  <2>3. Standing(h)' /\ h \notin joinedLate'
    BY <2>2 DEF Standing
  <2>4. Members(h) \subseteq {c}
    BY <1>k, <2>1, <2>2, <2>3 DEF LeavesAlone
  <2> QED
    BY <1>k, <2>2, <2>4 DEF Members
<1>1. CASE Create(a)
  <2>1. PICK h \in Guild :
           /\ status' = [k \in Guild |-> IF k = h THEN "reserved" ELSE status[k]]
           /\ Goto(a, Doing("creating", h, {}, None))
    BY <1>1 DEF Create
  <2>2. /\ call'[a].at = "creating" /\ guildOf' = guildOf /\ joinedLate' = joinedLate
        /\ \A c \in Account \ {a} : call'[c] = call[c]
    BY <1>0, <1>1, <2>1, GotoCall DEF Create, history, Doing
  <2> QED
    BY <1>k, <2>1, <2>2 DEF Standing
<1>2. CASE Establish(a)
  <2>1. /\ call[a].at = "creating" /\ g \in Guild
        /\ \A c \in Account \ {a} : call[c].guild # g
    BY <1>0, <1>2, <1>g DEF Establish, IdsAreFresh
  <2>2. /\ call'[a] = Idle /\ (\A c \in Account \ {a} : call'[c] = call[c])
        /\ joinedLate' = joinedLate
    BY <1>0, <1>2, GotoCall DEF Establish, history
  <2>3. /\ \A h \in Guild \ {g} : status'[h] = status[h]
        /\ \A h \in Guild \ {g}, b \in Account : guildOf'[b] = h => guildOf[b] = h
    BY <1>0, <1>2, <1>g DEF Establish, TypeOK
  <2> SUFFICES ASSUME NEW c \in Account, call'[c].at = "dissolving", Standing(call[c].guild)',
                      call'[c].guild \notin joinedLate'
               PROVE  (Members(call[c].guild) \subseteq {c})'
    BY DEF LeavesAlone
  <2>4. PICK h : h = call[c].guild
    OBVIOUS
  <2>5. c # a /\ call'[c].guild = h /\ h \in Guild \ {g} /\ call[c].at = "dissolving"
    BY <1>0, <1>i, <2>1, <2>2, <2>4 DEF CallsNameGuilds
  <2>6. Standing(h) /\ h \notin joinedLate
    BY <2>2, <2>3, <2>5 DEF Standing
  <2>7. Members(h) \subseteq {c}
    BY <2>4, <2>5, <2>6 DEF LeavesAlone
  <2> QED
    BY <2>3, <2>5, <2>7 DEF Members
<1>3. CASE AddMember(a)
  <2>1. call[a].at = "adding" /\ g \in Guild
    BY <1>0, <1>3, <1>g DEF AddMember, CallsNameGuilds
  <2>2. CASE Standing(g) /\ guildOf[a] = None
    <3>1. /\ status' = status
          /\ guildOf' = [b \in Account |-> IF b = a THEN g ELSE guildOf[b]]
          /\ Goto(a, Doing("welcoming", g, {a}, None))
          /\ joinedLate' = IF \E b \in Account : call[b].at = "dissolving" /\ call[b].guild = g
                              THEN joinedLate \cup {g} ELSE joinedLate
      BY <1>3, <1>g, <2>2 DEF AddMember
    <3>2. (\A c \in Account \ {a} : call'[c] = call[c]) /\ call'[a].at = "welcoming"
      BY <1>0, <3>1, GotoCall DEF Doing
    <3> SUFFICES ASSUME NEW c \in Account, call'[c].at = "dissolving", Standing(call[c].guild)',
                        call'[c].guild \notin joinedLate'
                 PROVE  (Members(call[c].guild) \subseteq {c})'
      BY DEF LeavesAlone
    <3>4. PICK h : h = call[c].guild
      OBVIOUS
    <3>5. call'[c].guild = h /\ h \in Guild /\ call[c].at = "dissolving"
      BY <1>0, <3>2, <3>4 DEF CallsNameGuilds
    <3>6. Standing(h) /\ h \notin joinedLate /\ h # g
      BY <3>1, <3>4, <3>5 DEF Standing
    <3>7. Members(h) \subseteq {c}
      BY <3>4, <3>5, <3>6 DEF LeavesAlone
    <3> QED
      BY <3>1, <3>5, <3>6, <3>7 DEF Members
  <2>3. CASE ~(Standing(g) /\ guildOf[a] = None)
    <3>1. Goto(a, Idle) /\ UNCHANGED <<status, guildOf, joinedLate>>
      BY <1>3, <1>g, <2>3 DEF AddMember, history
    <3>2. call'[a] = Idle /\ (\A c \in Account \ {a} : call'[c] = call[c])
      BY <1>0, <3>1, GotoCall
    <3> QED
      BY <1>i, <1>k, <3>1, <3>2 DEF Standing
  <2> QED
    BY <2>2, <2>3
<1>4. CASE Leave(a)
  <2>1. /\ g = call[a].guild /\ UNCHANGED <<status, guildOf, joinedLate>>
        /\ guildOf[a] # None /\ (rankOf[a] = Founder => Members(guildOf[a]) = {a})
        /\ Goto(a, Doing(IF rankOf[a] = Founder THEN "dissolving" ELSE "leaving",
                         guildOf[a], {a}, None))
    BY <1>4, <1>g DEF Leave, tables, history
  <2>2. /\ \A c \in Account \ {a} : call'[c] = call[c]
        /\ call'[a].at = IF rankOf[a] = Founder THEN "dissolving" ELSE "leaving"
        /\ call'[a].guild = guildOf[a]
    BY <1>0, <2>1, GotoCall DEF Doing
  <2> SUFFICES ASSUME NEW c \in Account, call'[c].at = "dissolving", Standing(call[c].guild)',
                      call'[c].guild \notin joinedLate'
               PROVE  (Members(call[c].guild) \subseteq {c})'
    BY DEF LeavesAlone
  <2>3. CASE c = a
    BY <2>1, <2>2, <2>3 DEF Members
  <2>4. CASE c # a
    BY <2>1, <2>2, <2>4 DEF LeavesAlone, Members, Standing
  <2> QED
    BY <2>3, <2>4
<1>5. CASE RemoveRow(a)
  <2>1. /\ UNCHANGED <<status, joinedLate>>
        /\ \A b \in Account : guildOf'[b] \in {None, guildOf[b]}
        /\ Goto(a, Doing("parting", g, call[a].whom, None))
    BY <1>5, <1>g DEF RemoveRow
  <2>2. (\A c \in Account \ {a} : call'[c] = call[c]) /\ call'[a].at = "parting"
    BY <1>0, <2>1, GotoCall DEF Doing
  <2> QED
    BY <1>k, <2>1, <2>2, ConstantsAssumption DEF Standing
<1>6. CASE DeleteGuild(a)
  <2>1. /\ status' = [h \in Guild |-> IF h = g THEN "gone" ELSE status[h]]
        /\ \A b \in Account : guildOf'[b] \in {None, guildOf[b]}
        /\ joinedLate' = joinedLate
        /\ Goto(a, Doing("parting", g, call[a].whom, None))
    BY <1>6, <1>g DEF DeleteGuild, history
  <2>2. (\A c \in Account \ {a} : call'[c] = call[c]) /\ call'[a].at = "parting"
    BY <1>0, <2>1, GotoCall DEF Doing
  <2>3. \A h \in Guild : Standing(h)' => Standing(h)
    BY <2>1 DEF Standing
  <2> QED
    BY <1>k, <2>1, <2>2, <2>3, ConstantsAssumption
<1>7. ASSUME \/ Welcome(a) \/ SetRank(a) \/ Disband(a) \/ Fail(a)
             \/ \E b \in Account : \/ Accept(a, b) \/ Kick(a, b) \/ Part(a, b)
                                   \/ \E rank \in Rank, permission \in {"promote", "demote"} :
                                        ChangeRank(a, b, rank, permission)
      PROVE  LeavesAlone'
  <2>1. UNCHANGED <<status, guildOf, joinedLate>>
    BY <1>7 DEF Welcome, SetRank, Disband, Fail, Accept, Kick, Part, ChangeRank, tables, history
  <2>2. \E at \in {"idle", "adding", "kicking", "ranking", "parting", "disbanding"} :
          \E h, whom, rank : Goto(a, Doing(at, h, whom, rank))
    <3>1. CASE \E b \in Account : Part(a, b)
      <4>1. Goto(a, Idle) \/ \E whom : Goto(a, Doing("parting", g, whom, None))
        BY <1>g, <3>1 DEF Part
      <4> QED
        BY <4>1 DEF Idle
    <3>2. CASE ~\E b \in Account : Part(a, b)
      BY <1>7, <3>2 DEF Welcome, SetRank, Disband, Fail, Accept, Kick, ChangeRank, Idle
    <3> QED
      BY <3>1, <3>2
  <2>3. PICK at \in {"idle", "adding", "kicking", "ranking", "parting", "disbanding"} :
             \E h, whom, rank : Goto(a, Doing(at, h, whom, rank))
    BY <2>2
  <2>h. PICK h, whom, rank : Goto(a, Doing(at, h, whom, rank))
    BY <2>3
  <2>4. Doing(at, h, whom, rank).at = at
    BY DEF Doing
  <2>5. (\A c \in Account \ {a} : call'[c] = call[c]) /\ call'[a].at # "dissolving"
    BY <1>0, <2>3, <2>h, <2>4, GotoCall
  <2> QED
    BY <1>k, <2>1, <2>5 DEF Standing
<1> QED
  BY <1>1, <1>2, <1>3, <1>4, <1>5, <1>6, <1>7 DEF StepOf
----------------------------------------------------------------------------
LEMMA BaseStep == Base /\ [Next]_vars => Base'
  BY TypeStep, RowsStep, FreshStep DEF Base

LEMMA InitBase == Init => Base /\ ChatInv /\ LeavesAlone
<1>1. Idle.at = "idle" /\ Idle.whom = {}
  BY IdleType
<1> QED
  BY <1>1, InitInv DEF Init, IInv, Base, ChatInv, OwnWelcome, ChatOf, Standing, LeavesAlone

\* Whatever calls overlap, the channel of a standing guild has exactly its members
\* once the calls about them are over, the ones marked as disturbed excepted.
THEOREM ChannelsFollowRosters == Spec => []ChatFollowsRoster
<1>1. Base /\ ChatInv => ChatFollowsRoster
  BY DEF ChatInv, ChatOf, Pending, ChatFollowsRoster
<1>2. Base /\ ChatInv /\ [Next]_vars => ChatInv'
  <2>1. CASE UNCHANGED vars
    BY <2>1 DEF vars, ChatInv, OwnWelcome, ChatOf, Pending, Standing
  <2>2. ASSUME Base, ChatInv, NEW a \in Account, StepOf(a) PROVE ChatInv'
    BY <2>2, ChatStepOf
  <2> QED
    BY <2>1, <2>2 DEF Next, StepOf
<1> QED
  BY <1>1, <1>2, InitBase, BaseStep, PTL DEF Spec

\* No founder who leaves ever takes a guild away from members it could have
\* counted, for any number of founders, leaves and invitations at once.
THEOREM FoundersLeaveAlone == Spec => DissolvesAlone
<1> DEFINE A == \A a \in Account, g \in Guild :
                  /\ call[a].at = "dissolving" /\ call[a].guild = g
                  /\ Standing(g) /\ status'[g] = "gone" /\ g \notin joinedLate
                  => Members(g) \subseteq {a} \/ \E b \in Account : call[b].at = "disbanding"
<1>1. LeavesAlone => A
  BY DEF LeavesAlone
<1>2. Base /\ LeavesAlone /\ [Next]_vars => LeavesAlone'
  <2>1. CASE UNCHANGED vars
    BY <2>1 DEF vars, LeavesAlone, Members, Standing
  <2>2. ASSUME Base, LeavesAlone, NEW a \in Account, StepOf(a) PROVE LeavesAlone'
    BY <2>2, AloneStepOf
  <2> QED
    BY <2>1, <2>2 DEF Next, StepOf
<1>3. DissolvesAlone <=> [][A]_vars
  BY DEF DissolvesAlone
<1> HIDE DEF A
<1> QED
  BY <1>1, <1>2, <1>3, InitBase, BaseStep, PTL DEF Spec
----------------------------------------------------------------------------
(* Parties.                                                                *)

\* The module of parties counts as this one does.
LEMMA SameCount == \A S : P!Cardinality(S) = Cardinality(S)
  BY DEF P!Cardinality, Cardinality

\* Nobody invites himself.
InvitedByAnother ==
    /\ \A c \in Character : invites[c] # None => invites[c].from # c
    /\ \A c \in Character : pcall[c].at \in {"invited", "founding", "founded"} =>
            pcall[c].from # c

\* Who is in a call is connected, so his character is not deleted meanwhile.
CallersAreOnline == \A c \in Character : pcall[c] # P!Idle => c \in online

Two(S) == \E c, d \in S : c # d

Leaves(c) == pcall[c].at \in {"left", "counted", "dissolving"}

\* Of a party whose members did not leave together, one leaves at a time ...
OneLeaves ==
    \A c, d \in Character :
        /\ Leaves(c) /\ Leaves(d) /\ pcall[c].party = pcall[d].party
        /\ pcall[c].party \notin leftTogether
        => c = d

\* ... the party has two, and one that was to go on has two besides who leaves.
TwoStay ==
    /\ \A p \in Party : kind[p] # None /\ p \notin leftTogether => Two(P!Members(p))
    /\ \A c \in Character : pcall[c].at = "counted" /\ pcall[c].party \notin leftTogether =>
            Two(P!Members(pcall[c].party) \ {c})

\* Into a party whose members did not come together, one comes at a time ...
OneComes ==
    \A c, d \in Character :
        /\ pcall[c].at = "joining" /\ pcall[d].at = "joining" /\ pcall[c].party = pcall[d].party
        /\ pcall[c].party \notin cameTogether
        => c = d

\* ... there is room for it, and a new party has room for two.
RoomStays ==
    /\ \A p \in Party : kind[p] # None /\ p \notin cameTogether =>
          /\ Cardinality(P!Members(p)) <= Cap[kind[p]]
          /\ (\E c \in Character : pcall[c].at = "joining" /\ pcall[c].party = p) =>
                Cardinality(P!Members(p)) < Cap[kind[p]]
    /\ \A c \in Character : pcall[c].at = "founded" => Cap[pcall[c].type] > 1

PartyBase == P!TypeOK /\ InvitedByAnother /\ CallersAreOnline /\ P!RowsHaveParties

PartyInv == PartyBase /\ OneLeaves /\ TwoStay /\ OneComes /\ RoomStays
----------------------------------------------------------------------------
(* A step, as a choice of one action of one character.                     *)

PartyStepOf(c) ==
    \/ \E target \in Character : P!Invite(c, target)
    \/ P!Decline(c) \/ P!Accept(c) \/ P!Leave(c)
    \/ P!FindParty(c) \/ P!AddInviter(c) \/ P!Found(c) \/ P!Join(c)
    \/ P!CountRest(c) \/ P!CommitLeave(c) \/ P!Dissolve(c) \/ P!Abort(c)
    \/ P!Disconnect(c) \/ P!Reconnect(c) \/ P!DeleteCharacter(c)

LEMMA OneSteps == P!Next <=> \E c \in Character : PartyStepOf(c)
  BY DEF P!Next, P!Step, PartyStepOf

LEMMA CallShapes ==
  ASSUME P!TypeOK, NEW c \in Character
  PROVE  /\ pcall[c] = P!Idle \/ pcall[c].at # "idle"
         /\ pcall[c].at \in {"idle", "invited", "founding", "founded", "joining", "left",
                            "counted", "dissolving"}
         /\ pcall[c].at \in {"invited", "founding", "founded"} =>
                pcall[c].from \in Character /\ pcall[c].type \in Type
         /\ pcall[c].at \in {"joining", "left", "counted", "dissolving"} =>
                pcall[c].party \in Party /\ "party" \in DOMAIN pcall[c]
         /\ P!Idle.at = "idle"
  BY DEF P!TypeOK, P!Calls, P!Idle

\* What AddInviter does to the call: it ends, or the inviter's row is written.
LEMMA Additions ==
  ASSUME NEW c, P!AddInviter(c)
  PROVE  \/ pcall' = [pcall EXCEPT ![c] = P!Idle]
         \/ pcall' = [pcall EXCEPT ![c] =
                       [at |-> "founded", from |-> pcall[c].from, type |-> pcall[c].type]]
  BY DEF P!AddInviter, P!Goto

LEMMA PartyTypeStep ==
  ASSUME P!ConstantsAssumption, P!TypeOK, NEW c \in Character, PartyStepOf(c)
  PROVE  P!TypeOK'
<1> USE CallShapes DEF P!TypeOK, P!history
<1>1. CASE \E target \in Character : P!Invite(c, target)
  <2>1. PICK target \in Character : P!Invite(c, target)
    BY <1>1
  <2>. QED
    BY <2>1 DEF P!Invite
<1>2. CASE P!Decline(c)
  BY <1>2 DEF P!Decline
<1>3. CASE P!Accept(c)
  <2>1. CASE invites[c].from \in online /\ member[c] = None
    <3>1. [at |-> "invited", from |-> invites[c].from, type |-> invites[c].type] \in P!Calls
      BY <1>3 DEF P!Accept, P!Calls
    <3>. QED
      BY <1>3, <2>1, <3>1 DEF P!Accept, P!Goto
  <2>2. CASE ~(invites[c].from \in online /\ member[c] = None)
    BY <1>3, <2>2 DEF P!Accept
  <2>. QED
    BY <2>1, <2>2
<1>4. CASE P!Leave(c)
  <2>1. member[c] \in Party /\ [at |-> "left", party |-> member[c]] \in P!Calls
    BY <1>4 DEF P!Leave, P!Calls
  <2>. QED
    BY <1>4, <2>1 DEF P!Leave, P!Goto
<1>5. CASE P!FindParty(c)
  <2>1. PICK from : from = pcall[c].from
    OBVIOUS
  <2>2. from \in Character /\ pcall[c].type \in Type
    BY <1>5, <2>1 DEF P!FindParty
  <2>3. [at |-> "founding", from |-> from, type |-> pcall[c].type] \in P!Calls /\ P!Idle \in P!Calls
    BY <2>2 DEF P!Calls
  <2>4. member[from] # None => /\ member[from] \in Party
                               /\ [at |-> "joining", party |-> member[from]] \in P!Calls
    BY <2>2 DEF P!Calls
  <2>5. pcall' \in [Character -> P!Calls]
    BY <1>5, <2>1, <2>3, <2>4 DEF P!FindParty, P!Goto
  <2>6. cameTogether' \subseteq Party
    BY <1>5, <2>1, <2>4 DEF P!FindParty
  <2>. QED
    BY <1>5, <2>5, <2>6 DEF P!FindParty
<1>6. CASE P!Found(c)
  <2>1. pcall' \in [Character -> P!Calls]
    BY <1>6 DEF P!Found, P!Goto, P!Calls
  <2>2. CASE /\ kind' = kind /\ member' = member
             /\ leftTogether' = leftTogether /\ cameTogether' = cameTogether
    BY <1>6, <2>1, <2>2 DEF P!Found
  <2>3. CASE ~(/\ kind' = kind /\ member' = member
               /\ leftTogether' = leftTogether /\ cameTogether' = cameTogether)
    <3>1. PICK p \in P!Unused :
             /\ kind' = [kind EXCEPT ![p] = pcall[c].type]
             /\ member' = [d \in Character |-> IF d \in {pcall[c].from, c} THEN p ELSE member[d]]
             /\ leftTogether' = leftTogether \ {p}
             /\ cameTogether' = cameTogether \ {p}
      BY <1>6, <2>3 DEF P!Found
    <3>2. p \in Party /\ pcall[c].type \in Type
      BY <1>6 DEF P!Found, P!Unused
    <3>. QED
      BY <1>6, <2>1, <3>1, <3>2 DEF P!Found
  <2>. QED
    BY <2>2, <2>3
<1>7. CASE P!Join(c)
  BY <1>7 DEF P!Join, P!Goto, P!Calls
<1>8. CASE P!CountRest(c)
  <2>1. \A w \in {"dissolving", "counted"} : [at |-> w, party |-> pcall[c].party] \in P!Calls
    BY <1>8 DEF P!CountRest, P!Calls
  <2>. QED
    BY <1>8, <2>1 DEF P!CountRest, P!Goto
<1>9. CASE P!CommitLeave(c)
  BY <1>9 DEF P!CommitLeave, P!Goto, P!Calls
<1>10. CASE P!Dissolve(c)
  BY <1>10 DEF P!Dissolve, P!Goto, P!Calls
<1>11. CASE P!Abort(c)
  BY <1>11 DEF P!Abort, P!Goto, P!Calls
<1>12. CASE P!Disconnect(c)
  BY <1>12 DEF P!Disconnect
<1>13. CASE P!Reconnect(c)
  BY <1>13 DEF P!Reconnect
<1>14. CASE P!DeleteCharacter(c)
  BY <1>14 DEF P!DeleteCharacter
<1>15. CASE P!AddInviter(c)
  <2>1. [at |-> "founded", from |-> pcall[c].from, type |-> pcall[c].type] \in P!Calls
        /\ P!Idle \in P!Calls
    BY <1>15 DEF P!AddInviter, P!Calls
  <2>. QED
    BY <1>15, <2>1 DEF P!AddInviter, P!Goto
<1>. QED
  BY <1>1, <1>2, <1>3, <1>4, <1>5, <1>6, <1>7, <1>8, <1>9, <1>10, <1>11, <1>12, <1>13,
     <1>14, <1>15 DEF PartyStepOf
----------------------------------------------------------------------------
(* Who is in a pcall: invited by another, and connected.                    *)

LEMMA CallersStep ==
  ASSUME P!ConstantsAssumption, P!TypeOK, InvitedByAnother, CallersAreOnline,
         NEW c \in Character, PartyStepOf(c)
  PROVE  InvitedByAnother' /\ CallersAreOnline'
<1> USE CallShapes DEF InvitedByAnother, CallersAreOnline, P!history
<1>t. P!TypeOK'
  BY PartyTypeStep
<1>1. CASE \E target \in Character : P!Invite(c, target)
  <2>1. PICK target \in Character : P!Invite(c, target)
    BY <1>1
  <2>2. PICK t \in Type :
          invites' = [invites EXCEPT ![target] = [from |-> c, type |-> t]]
    BY <2>1 DEF P!Invite
  <2>. QED
    BY <2>1, <2>2 DEF P!Invite, P!TypeOK
<1>2. CASE P!Decline(c)
  BY <1>2 DEF P!Decline, P!TypeOK
<1>3. CASE P!Accept(c)
  BY <1>3 DEF P!Accept, P!Goto, P!TypeOK
<1>4. CASE P!Leave(c)
  BY <1>4 DEF P!Leave, P!Goto, P!TypeOK
<1>5. CASE P!FindParty(c)
  <2>1. pcall'[c] = P!Idle \/ pcall'[c].at = "joining"
        \/ (pcall'[c].at = "founding" /\ pcall'[c].from = pcall[c].from)
    BY <1>5 DEF P!FindParty, P!Goto, P!TypeOK
  <2>2. \A d \in Character \ {c} : pcall'[d] = pcall[d]
    BY <1>5 DEF P!FindParty, P!Goto, P!TypeOK
  <2>. QED
    BY <1>5, <2>1, <2>2 DEF P!FindParty
<1>6. CASE P!Found(c)
  BY <1>6 DEF P!Found, P!Goto, P!TypeOK
<1>7. CASE P!Join(c)
  BY <1>7 DEF P!Join, P!Goto, P!TypeOK
<1>8. CASE P!CountRest(c)
  BY <1>8 DEF P!CountRest, P!Goto, P!TypeOK
<1>9. CASE P!CommitLeave(c)
  BY <1>9 DEF P!CommitLeave, P!Goto, P!TypeOK
<1>10. CASE P!Dissolve(c)
  BY <1>10 DEF P!Dissolve, P!Goto, P!TypeOK
<1>11. CASE P!Abort(c)
  BY <1>11 DEF P!Abort, P!Goto, P!TypeOK
<1>12. CASE P!Disconnect(c)
  <2>1. \A d \in Character : invites'[d] # None => invites'[d] = invites[d]
    BY <1>12 DEF P!Disconnect, P!TypeOK
  <2>. QED
    BY <1>12, <2>1 DEF P!Disconnect
<1>13. CASE P!Reconnect(c)
  BY <1>13 DEF P!Reconnect
<1>14. CASE P!DeleteCharacter(c)
  BY <1>14 DEF P!DeleteCharacter
<1>15. CASE P!AddInviter(c)
  <2>0. /\ pcall[c].at = "founding" /\ online' = online /\ exists' = exists
        /\ invites' = invites /\ kind' = kind /\ member' = member
        /\ leftTogether' = leftTogether /\ cameTogether' = cameTogether
    BY <1>15 DEF P!AddInviter
  <2>1. pcall'[c] = P!Idle \/ (pcall'[c].at = "founded" /\ pcall'[c].from = pcall[c].from)
    BY <1>15, Additions DEF P!TypeOK
  <2>2. \A d \in Character \ {c} : pcall'[d] = pcall[d]
    BY <1>15 DEF P!AddInviter, P!Goto, P!TypeOK
  <2>. QED
    BY <2>0, <2>1, <2>2
<1>. QED
  BY <1>1, <1>2, <1>3, <1>4, <1>5, <1>6, <1>7, <1>8, <1>9, <1>10, <1>11, <1>12, <1>13,
     <1>14, <1>15 DEF PartyStepOf
----------------------------------------------------------------------------
(* Rows are of parties that stand, and of who wrote them away they are the *)
(* rows that were locked.                                                  *)

\* A founding gives both their rows in a party that nothing refers to, or does
\* nothing to the parties.
LEMMA Foundings ==
  ASSUME P!ConstantsAssumption, P!TypeOK, P!RowsHaveParties, NEW c \in Character, P!Found(c)
  PROVE  \/ /\ kind' = kind /\ member' = member
            /\ leftTogether' = leftTogether /\ cameTogether' = cameTogether
         \/ \E p \in P!Unused :
              /\ kind' = [kind EXCEPT ![p] = pcall[c].type]
              /\ member' = [d \in Character |->
                              IF d = pcall[c].from \/ d = c THEN p ELSE member[d]]
              /\ leftTogether' = leftTogether \ {p}
              /\ cameTogether' = cameTogether \ {p}
              /\ member[c] = None /\ member[pcall[c].from] = None
              /\ c \in exists /\ pcall[c].from \in exists
              /\ P!RowFree(c) /\ pcall[c].from \in Character
<1>1. /\ pcall[c].from \in Character /\ pcall[c].from \in exists
      /\ member[pcall[c].from] = None
  BY CallShapes DEF P!Found, P!RowsHaveParties
<1>. QED
  BY <1>1 DEF P!Found, P!history

LEMMA PartyRowsStep ==
  ASSUME P!ConstantsAssumption, P!TypeOK, CallersAreOnline, P!RowsHaveParties,
         NEW c \in Character, PartyStepOf(c)
  PROVE  P!RowsHaveParties'
<1> USE CallShapes DEF P!RowsHaveParties, P!RowFree, P!history
<1>t. P!TypeOK'
  BY PartyTypeStep
<1>1. CASE \E target \in Character : P!Invite(c, target)
  BY <1>1 DEF P!Invite
<1>2. CASE P!Decline(c)
  BY <1>2 DEF P!Decline
<1>3. CASE P!Accept(c)
  BY <1>3 DEF P!Accept, P!Goto, P!TypeOK
<1>4. CASE P!Leave(c)
  BY <1>4 DEF P!Leave, P!Goto, P!TypeOK
<1>5. CASE P!FindParty(c)
  <2>1. pcall'[c] = P!Idle \/ pcall'[c].at \in {"joining", "founding"}
    BY <1>5 DEF P!FindParty, P!Goto, P!TypeOK
  <2>2. \A d \in Character \ {c} : pcall'[d] = pcall[d]
    BY <1>5 DEF P!FindParty, P!Goto, P!TypeOK
  <2>3. member' = member /\ kind' = kind /\ exists' = exists
    BY <1>5 DEF P!FindParty
  <2>4. \A d \in Character :
          pcall'[d].at \in {"left", "counted", "dissolving", "founded"} => d # c
    BY <2>1
  <2>. QED
    BY <2>2, <2>3, <2>4
<1>6. CASE P!Found(c)
  <2>1. pcall' = [pcall EXCEPT ![c] = P!Idle] /\ exists' = exists
    BY <1>6 DEF P!Found, P!Goto
  <2>2. CASE kind' = kind /\ member' = member
    BY <2>1, <2>2 DEF P!TypeOK
  <2>3. CASE \E p \in P!Unused :
              /\ kind' = [kind EXCEPT ![p] = pcall[c].type]
              /\ member' = [d \in Character |->
                              IF d = pcall[c].from \/ d = c THEN p ELSE member[d]]
              /\ c \in exists /\ pcall[c].from \in exists
              /\ P!RowFree(c)
    <3>1. PICK p \in P!Unused :
              /\ kind' = [kind EXCEPT ![p] = pcall[c].type]
              /\ member' = [d \in Character |->
                              IF d = pcall[c].from \/ d = c THEN p ELSE member[d]]
              /\ c \in exists /\ pcall[c].from \in exists
              /\ P!RowFree(c)
      BY <2>3
    <3>2. p \in Party /\ p # None /\ pcall[c].type \in Type /\ pcall[c].type # None
      BY <1>6 DEF P!Found, P!Unused, P!ConstantsAssumption
    <3>3. \A d \in Character : member'[d] # None => kind'[member'[d]] # None /\ d \in exists'
      BY <2>1, <3>1, <3>2 DEF P!TypeOK
    <3>4. \A d \in Character : Leaves(d)' => member'[d] = pcall'[d].party
      <4>1. ASSUME NEW d \in Character, Leaves(d)'
            PROVE  /\ d # c /\ pcall'[d] = pcall[d] /\ member[d] = pcall[d].party
                   /\ pcall[d].party \in Party
        BY <2>1, <4>1 DEF P!TypeOK, Leaves
      <4>2. member[pcall[c].from] = None /\ None \notin Party
        BY <1>6 DEF P!Found, P!ConstantsAssumption
      <4>. QED
        BY <3>1, <4>1, <4>2
    <3>5. \A d \in Character : pcall'[d].at = "founded" =>
            /\ pcall'[d] = pcall[d] /\ d # c /\ pcall[d].at = "founded"
            /\ pcall[d].from \notin {c, pcall[c].from}
      BY <1>6, <2>1, <3>1 DEF P!Found, P!TypeOK
    <3>6. \A d \in Character : pcall'[d].at = "founded" =>
            member'[pcall'[d].from] = None /\ pcall'[d].from \in exists'
      <4>1. ASSUME NEW d \in Character, pcall'[d].at = "founded"
            PROVE  /\ pcall[d].from \in Character /\ pcall[d].from \in exists
                   /\ member[pcall[d].from] = None
        BY <3>5, <4>1
      <4>. QED
        BY <2>1, <3>1, <3>5, <4>1
    <3>7. \A d, e \in Character : d # e /\ pcall'[d].at = "founded" /\ pcall'[e].at = "founded"
            => pcall'[d].from # pcall'[e].from
      BY <3>5
    <3>. QED
      BY <3>3, <3>4, <3>6, <3>7 DEF Leaves
  <2>. QED
    BY <1>6, <2>2, <2>3, Foundings
<1>7. CASE P!Join(c)
  <2>1. pcall[c].party \in Party /\ pcall[c].party # None
    BY <1>7 DEF P!Join, P!ConstantsAssumption
  <2>. QED
    BY <1>7, <2>1 DEF P!Join, P!Goto, P!TypeOK
<1>8. CASE P!CountRest(c)
  BY <1>8 DEF P!CountRest, P!Goto, P!TypeOK
<1>9. CASE P!CommitLeave(c)
  BY <1>9 DEF P!CommitLeave, P!Goto, P!TypeOK
<1>10. CASE P!Dissolve(c)
  <2>1. \A d \in Character \ {c} : Leaves(d) => pcall[d].party # pcall[c].party
    BY <1>10 DEF P!Dissolve, P!Leaving, Leaves
  <2>2. pcall' = [pcall EXCEPT ![c] = P!Idle] /\ exists' = exists
    BY <1>10 DEF P!Dissolve, P!Goto
  <2>3. \A d \in Character : Leaves(d)' => member'[d] = pcall'[d].party
    BY <1>10, <2>1, <2>2 DEF P!Dissolve, P!TypeOK, Leaves
  <2>4. \A d \in Character : member'[d] # None => kind'[member'[d]] # None /\ d \in exists'
    BY <1>10, <2>2 DEF P!Dissolve, P!TypeOK
  <2>5. \A d \in Character : pcall'[d].at = "founded" =>
          pcall'[d] = pcall[d] /\ member'[pcall[d].from] = None
    BY <1>10, <2>2 DEF P!Dissolve, P!TypeOK
  <2>. QED
    BY <2>2, <2>3, <2>4, <2>5 DEF Leaves
<1>11. CASE P!Abort(c)
  BY <1>11 DEF P!Abort, P!Goto, P!TypeOK
<1>12. CASE P!Disconnect(c)
  BY <1>12 DEF P!Disconnect
<1>13. CASE P!Reconnect(c)
  BY <1>13 DEF P!Reconnect
<1>14. CASE P!DeleteCharacter(c)
  BY <1>14 DEF P!DeleteCharacter, CallersAreOnline, P!TypeOK
<1>15. CASE P!AddInviter(c)
  <2>0. /\ pcall[c].at = "founding" /\ online' = online /\ exists' = exists
        /\ invites' = invites /\ kind' = kind /\ member' = member
        /\ leftTogether' = leftTogether /\ cameTogether' = cameTogether
    BY <1>15 DEF P!AddInviter
  <2>1. pcall'[c] = P!Idle \/ (pcall'[c].at = "founded" /\ pcall'[c].from = pcall[c].from)
    BY <1>15, Additions DEF P!TypeOK
  <2>2. \A d \in Character \ {c} : pcall'[d] = pcall[d]
    BY <1>15 DEF P!AddInviter, P!Goto, P!TypeOK
  <2>3. pcall'[c].at = "founded" =>
          /\ member[pcall[c].from] = None /\ pcall[c].from \in exists
          /\ \A d \in Character : pcall[d].at = "founded" => pcall[d].from # pcall[c].from
    BY <1>15 DEF P!AddInviter, P!Goto, P!TypeOK
  <2>4. \A d \in Character : pcall'[d].at \in {"left", "counted", "dissolving"} => d # c
    BY <2>1
  <2>. QED
    BY <2>0, <2>1, <2>2, <2>3, <2>4
<1>. QED
  BY <1>1, <1>2, <1>3, <1>4, <1>5, <1>6, <1>7, <1>8, <1>9, <1>10, <1>11, <1>12, <1>13,
     <1>14, <1>15 DEF PartyStepOf
----------------------------------------------------------------------------
(* One leaves at a time, and the party that goes on has two besides.       *)

LEMMA TwoOrMore ==
  ASSUME NEW S, IsFiniteSet(S)
  PROVE  Cardinality(S) >= 2 <=> Two(S)
<1>1. Cardinality(S) \in Nat
  BY FS_CardinalityType
<1>2. Cardinality(S) = 0 <=> S = {}
  BY FS_EmptySet
<1>3. Cardinality(S) = 1 <=> \E x : S = {x}
  BY FS_Singleton
<1>4. ASSUME ~Two(S), S # {}  PROVE \E x : S = {x}
  <2>1. PICK x : x \in S
    BY <1>4
  <2>2. S = {x}
    BY <1>4, <2>1 DEF Two
  <2>. QED
    BY <2>2
<1>5. Two(S) => S # {} /\ ~\E x : S = {x}
  BY DEF Two
<1>6. Two(S) <=> Cardinality(S) \notin {0, 1}
  BY <1>2, <1>3, <1>4, <1>5
<1>. QED
  BY <1>1, <1>6

LEMMA MembersFinite ==
  ASSUME IsFiniteSet(Character), NEW p
  PROVE  /\ IsFiniteSet(P!Members(p))
         /\ \A c : IsFiniteSet(P!Members(p) \ {c})
<1>1. P!Members(p) \subseteq Character /\ \A c : P!Members(p) \ {c} \subseteq Character
  BY DEF P!Members
<1>. QED
  BY <1>1, FS_Subset

LEMMA OneLeavesStep ==
  ASSUME P!ConstantsAssumption, P!TypeOK, P!RowsHaveParties, OneLeaves,
         NEW c \in Character, PartyStepOf(c)
  PROVE  OneLeaves'
<1> USE CallShapes DEF OneLeaves, Leaves, P!history
<1>1. CASE \E target \in Character : P!Invite(c, target)
  BY <1>1 DEF P!Invite
<1>2. CASE P!Decline(c)
  BY <1>2 DEF P!Decline
<1>3. CASE P!Accept(c)
  BY <1>3 DEF P!Accept, P!Goto, P!TypeOK
<1>4. CASE P!Leave(c)
  <2>1. /\ pcall' = [pcall EXCEPT ![c] = [at |-> "left", party |-> member[c]]]
        /\ leftTogether \subseteq leftTogether'
        /\ P!Leaving(member[c]) # {} => member[c] \in leftTogether'
    BY <1>4 DEF P!Leave, P!Goto
  <2>2. \A d \in Character : Leaves(d) /\ pcall[d].party = member[c] => d \in P!Leaving(member[c])
    BY DEF P!Leaving
  <2>. QED
    BY <2>1, <2>2 DEF P!TypeOK
<1>5. CASE P!FindParty(c)
  <2>1. pcall'[c] = P!Idle \/ pcall'[c].at \in {"joining", "founding"}
    BY <1>5 DEF P!FindParty, P!Goto, P!TypeOK
  <2>2. \A d \in Character \ {c} : pcall'[d] = pcall[d]
    BY <1>5 DEF P!FindParty, P!Goto, P!TypeOK
  <2>3. leftTogether' = leftTogether
    BY <1>5 DEF P!FindParty
  <2>4. \A d \in Character : Leaves(d)' => d # c
    BY <2>1
  <2>. QED
    BY <2>2, <2>3, <2>4
<1>6. CASE P!Found(c)
  <2>1. pcall' = [pcall EXCEPT ![c] = P!Idle]
    BY <1>6 DEF P!Found, P!Goto
  <2>2. \A d \in Character : Leaves(d)' =>
          pcall'[d] = pcall[d] /\ (pcall[d].party \in leftTogether => pcall[d].party \in leftTogether')
    <3>1. CASE leftTogether' = leftTogether
      BY <2>1, <3>1 DEF P!TypeOK
    <3>2. CASE \E p \in P!Unused : leftTogether' = leftTogether \ {p}
      BY <2>1, <3>2 DEF P!TypeOK, P!Unused
    <3>. QED
      BY <1>6, <3>1, <3>2, Foundings
  <2>. QED
    BY <2>1, <2>2 DEF P!TypeOK
<1>7. CASE P!Join(c)
  BY <1>7 DEF P!Join, P!Goto, P!TypeOK
<1>8. CASE P!CountRest(c)
  BY <1>8 DEF P!CountRest, P!Goto, P!TypeOK
<1>9. CASE P!CommitLeave(c)
  BY <1>9 DEF P!CommitLeave, P!Goto, P!TypeOK
<1>10. CASE P!Dissolve(c)
  BY <1>10 DEF P!Dissolve, P!Goto, P!TypeOK
<1>11. CASE P!Abort(c)
  BY <1>11 DEF P!Abort, P!Goto, P!TypeOK
<1>12. CASE P!Disconnect(c)
  BY <1>12 DEF P!Disconnect
<1>13. CASE P!Reconnect(c)
  BY <1>13 DEF P!Reconnect
<1>14. CASE P!DeleteCharacter(c)
  BY <1>14 DEF P!DeleteCharacter
<1>15. CASE P!AddInviter(c)
  <2>0. /\ pcall[c].at = "founding" /\ online' = online /\ exists' = exists
        /\ invites' = invites /\ kind' = kind /\ member' = member
        /\ leftTogether' = leftTogether /\ cameTogether' = cameTogether
    BY <1>15 DEF P!AddInviter
  <2>1. pcall'[c] = P!Idle \/ (pcall'[c].at = "founded" /\ pcall'[c].from = pcall[c].from)
    BY <1>15, Additions DEF P!TypeOK
  <2>2. \A d \in Character \ {c} : pcall'[d] = pcall[d]
    BY <1>15 DEF P!AddInviter, P!Goto, P!TypeOK
  <2>3. \A d \in Character : Leaves(d)' => d # c
    BY <2>1
  <2>. QED
    BY <2>0, <2>2, <2>3
<1>. QED
  BY <1>1, <1>2, <1>3, <1>4, <1>5, <1>6, <1>7, <1>8, <1>9, <1>10, <1>11, <1>12, <1>13,
     <1>14, <1>15 DEF PartyStepOf

\* The parties in Gone lose rows: what is claimed of them is void.
LEMMA RowsGoElsewhere ==
  ASSUME P!TypeOK, TwoStay, None \notin Party, NEW Gone,
         \A p \in Party \cap Gone : p \in leftTogether'
             \/ /\ kind'[p] = None
                /\ \A d \in Character : pcall'[d].at = "counted" => pcall'[d].party # p,
         \A d \in Character : member[d] \notin Gone \cup {None} => member'[d] = member[d],
         \A p \in Party : kind'[p] # None => kind[p] # None,
         leftTogether \subseteq leftTogether',
         \A d \in Character : pcall'[d].at = "counted" => pcall'[d] = pcall[d]
  PROVE  TwoStay'
<1>1. ASSUME NEW p \in Party, p \notin Gone
      PROVE  P!Members(p) \subseteq P!Members(p)'
  BY <1>1 DEF P!Members
<1>2. \A p \in Party : kind'[p] # None /\ p \notin leftTogether' => Two(P!Members(p))'
  BY <1>1 DEF TwoStay, Two
<1>3. ASSUME NEW d \in Character, pcall'[d].at = "counted", pcall'[d].party \notin leftTogether'
      PROVE  Two(P!Members(pcall[d].party) \ {d})'
  <2>0. pcall'[d] = pcall[d] /\ pcall[d].party \in Party /\ pcall[d].party \notin Gone
    BY <1>3, CallShapes
  <2>1. Two(P!Members(pcall[d].party) \ {d})
    BY <1>3, <2>0 DEF TwoStay
  <2>2. P!Members(pcall[d].party) \subseteq {e \in Character : member'[e] = pcall[d].party}
    BY <1>1, <2>0 DEF P!Members
  <2>. QED
    BY <2>0, <2>1, <2>2 DEF Two, P!Members
<1>. QED
  BY <1>2, <1>3 DEF TwoStay

LEMMA TwoStayStep ==
  ASSUME P!ConstantsAssumption, IsFiniteSet(Character), PartyBase, OneLeaves, TwoStay,
         NEW c \in Character, PartyStepOf(c)
  PROVE  TwoStay'
<1> USE DEF PartyBase, P!history
<1>n. None \notin Party /\ None \notin Type
  BY DEF P!ConstantsAssumption
<1>s. ASSUME member' = member, kind' = kind, leftTogether \subseteq leftTogether',
             \A d \in Character : pcall'[d].at = "counted" => pcall'[d] = pcall[d]
      PROVE  TwoStay'
  BY <1>n, <1>s, RowsGoElsewhere
<1>1. CASE \E target \in Character : P!Invite(c, target)
  BY <1>1, <1>s DEF P!Invite
<1>2. CASE P!Decline(c)
  BY <1>2, <1>s DEF P!Decline
<1>3. CASE P!Accept(c)
  BY <1>3, <1>s DEF P!Accept, P!Goto, P!TypeOK
<1>4. CASE P!Leave(c)
  BY <1>4, <1>s DEF P!Leave, P!Goto, P!TypeOK
<1>5. CASE P!FindParty(c)
  <2>1. pcall'[c] = P!Idle \/ pcall'[c].at \in {"joining", "founding"}
    BY <1>5 DEF P!FindParty, P!Goto, P!TypeOK
  <2>2. \A d \in Character \ {c} : pcall'[d] = pcall[d]
    BY <1>5 DEF P!FindParty, P!Goto, P!TypeOK
  <2>. QED
    BY <1>5, <2>1, <2>2, <1>s, CallShapes DEF P!FindParty
<1>6. CASE P!Found(c)
  <2>1. pcall' = [pcall EXCEPT ![c] = P!Idle]
    BY <1>6 DEF P!Found, P!Goto
  <2>2. CASE kind' = kind /\ member' = member /\ leftTogether' = leftTogether
    BY <2>1, <2>2, <1>s, CallShapes DEF P!TypeOK
  <2>3. CASE \E p \in P!Unused :
              /\ kind' = [kind EXCEPT ![p] = pcall[c].type]
              /\ member' = [d \in Character |->
                              IF d = pcall[c].from \/ d = c THEN p ELSE member[d]]
              /\ leftTogether' = leftTogether \ {p}
              /\ member[c] = None /\ member[pcall[c].from] = None
    <3>1. PICK p \in P!Unused :
              /\ kind' = [kind EXCEPT ![p] = pcall[c].type]
              /\ member' = [d \in Character |->
                              IF d = pcall[c].from \/ d = c THEN p ELSE member[d]]
              /\ leftTogether' = leftTogether \ {p}
              /\ member[c] = None /\ member[pcall[c].from] = None
      BY <2>3
    <3>2. pcall[c].from # c /\ pcall[c].from \in Character
      BY <1>6, CallShapes DEF P!Found, InvitedByAnother
    <3>3. c \in P!Members(p)' /\ pcall[c].from \in P!Members(p)'
      BY <3>1, <3>2 DEF P!Members
    <3>4. \A q \in Party \ {p} : P!Members(q) \subseteq P!Members(q)'
      BY <3>1, <1>n DEF P!Members, P!TypeOK
    <3>5. ASSUME NEW q \in Party, kind'[q] # None, q \notin leftTogether'
          PROVE  Two(P!Members(q))'
      BY <3>1, <3>2, <3>3, <3>4, <3>5 DEF Two, TwoStay, P!TypeOK
    <3>6. ASSUME NEW d \in Character, pcall'[d].at = "counted",
                 pcall'[d].party \notin leftTogether'
          PROVE  Two(P!Members(pcall[d].party) \ {d})'
      <4>1. pcall'[d] = pcall[d] /\ pcall[d].party \in Party \ {p}
        BY <2>1, <3>6, CallShapes DEF P!TypeOK, P!Unused
      <4>2. Two(P!Members(pcall[d].party) \ {d})
        BY <3>1, <3>6, <4>1 DEF TwoStay
      <4>. QED
        BY <3>4, <4>1, <4>2 DEF Two
    <3>. QED
      BY <3>5, <3>6 DEF TwoStay
  <2>. QED
    BY <1>6, <2>2, <2>3, Foundings
<1>7. CASE P!Join(c)
  <2>1. /\ pcall' = [pcall EXCEPT ![c] = P!Idle] /\ kind' = kind /\ leftTogether' = leftTogether
        /\ \A d \in Character : member[d] # None => member'[d] = member[d]
    BY <1>7 DEF P!Join, P!Goto, P!TypeOK
  <2>2. \A d \in Character : pcall'[d].at = "counted" => pcall'[d] = pcall[d]
    BY <2>1, CallShapes DEF P!TypeOK
  <2>. QED
    BY <1>n, <2>1, <2>2, RowsGoElsewhere
<1>8. CASE P!CountRest(c)
  <2>1. PICK p : p = pcall[c].party
    OBVIOUS
  <2>2. /\ pcall[c].at = "left" /\ p \in Party
        /\ member' = member /\ kind' = kind /\ leftTogether' = leftTogether
        /\ pcall' = [pcall EXCEPT ![c] =
              [at |-> IF Cardinality(P!Members(p) \ {c}) < 2 THEN "dissolving" ELSE "counted",
               party |-> p]]
    BY <1>8, <2>1, CallShapes, SameCount DEF P!CountRest, P!Goto
  <2>3. \A q : P!Members(q)' = P!Members(q)
    BY <2>2 DEF P!Members
  <2>4. CASE Cardinality(P!Members(p) \ {c}) < 2
    <3>1. \A d \in Character : pcall'[d].at = "counted" => pcall'[d] = pcall[d]
      BY <2>2, <2>4 DEF P!TypeOK
    <3>. QED
      BY <2>2, <3>1, <1>s
  <2>5. CASE ~(Cardinality(P!Members(p) \ {c}) < 2)
    <3>1. IsFiniteSet(P!Members(p) \ {c}) /\ Cardinality(P!Members(p) \ {c}) \in Nat
      BY MembersFinite, FS_CardinalityType
    <3>2. Cardinality(P!Members(p) \ {c}) >= 2
      BY <2>5, <3>1
    <3>3. Two(P!Members(p) \ {c})
      BY <3>1, <3>2, TwoOrMore
    <3>4. \A d \in Character : pcall'[d].at = "counted" =>
              (d = c /\ pcall'[d].party = p) \/ pcall'[d] = pcall[d]
      BY <2>2, <2>5 DEF P!TypeOK
    <3>. QED
      BY <2>2, <2>3, <3>3, <3>4 DEF TwoStay
  <2>. QED
    BY <2>4, <2>5
<1>9. CASE P!CommitLeave(c)
  <2>1. PICK p : p = pcall[c].party
    OBVIOUS
  <2>2. /\ pcall[c].at = "counted" /\ p \in Party
        /\ kind' = kind /\ leftTogether' = leftTogether
        /\ member' = [member EXCEPT ![c] = IF @ = p THEN None ELSE @]
        /\ pcall' = [pcall EXCEPT ![c] = P!Idle]
    BY <1>9, <2>1, CallShapes DEF P!CommitLeave, P!Goto
  <2>3. \A q \in Party \ {p} : P!Members(q)' = P!Members(q)
    BY <2>2, <1>n DEF P!Members, P!TypeOK
  <2>4. P!Members(p)' = P!Members(p) \ {c}
    BY <2>2, <1>n DEF P!Members, P!TypeOK
  <2>5. p \notin leftTogether => Two(P!Members(p))'
    BY <2>1, <2>2, <2>4 DEF TwoStay
  <2>6. ASSUME NEW d \in Character, pcall'[d].at = "counted",
               pcall'[d].party \notin leftTogether'
        PROVE  Two(P!Members(pcall[d].party) \ {d})'
    <3>1. pcall'[d] = pcall[d] /\ pcall[d].party \in Party /\ d # c
      BY <2>2, <2>6, CallShapes DEF P!TypeOK
    <3>2. pcall[d].party # p
      BY <2>1, <2>2, <2>6, <3>1 DEF OneLeaves, Leaves
    <3>. QED
      BY <2>2, <2>3, <2>6, <3>1, <3>2 DEF TwoStay
  <2>. QED
    BY <2>2, <2>3, <2>5, <2>6 DEF TwoStay
<1>10. CASE P!Dissolve(c)
  <2>1. PICK p : p = pcall[c].party
    OBVIOUS
  <2>2. /\ p \in Party /\ leftTogether' = leftTogether
        /\ P!Leaving(p) = {c}
        /\ kind' = [kind EXCEPT ![p] = None]
        /\ member' = [d \in Character |-> IF member[d] = p THEN None ELSE member[d]]
        /\ pcall' = [pcall EXCEPT ![c] = P!Idle]
    BY <1>10, <2>1, CallShapes DEF P!Dissolve, P!Goto
  <2>3. \A d \in Character : pcall'[d].at = "counted" => pcall'[d] = pcall[d] /\ pcall[d].party # p
    BY <2>2, CallShapes DEF P!TypeOK, P!Leaving
  <2>4. \A q \in Party : kind'[q] # None => kind[q] # None
    BY <2>2 DEF P!TypeOK
  <2>5. \A q \in Party \cap {p} : q \in leftTogether'
             \/ /\ kind'[q] = None
                /\ \A d \in Character : pcall'[d].at = "counted" => pcall'[d].party # q
    BY <2>2, <2>3 DEF P!TypeOK
  <2>6. \A d \in Character : member[d] \notin {p} \cup {None} => member'[d] = member[d]
    BY <2>2
  <2>. QED
    BY <1>n, <2>2, <2>3, <2>4, <2>5, <2>6, RowsGoElsewhere
<1>11. CASE P!Abort(c)
  BY <1>11, <1>s, CallShapes DEF P!Abort, P!Goto, P!TypeOK
<1>12. CASE P!Disconnect(c)
  BY <1>12, <1>s DEF P!Disconnect
<1>13. CASE P!Reconnect(c)
  BY <1>13, <1>s DEF P!Reconnect
<1>14. CASE P!DeleteCharacter(c)
  <2>1. /\ kind' = kind /\ pcall' = pcall /\ leftTogether \subseteq leftTogether'
        /\ member[c] \in Party => member[c] \in leftTogether'
        /\ \A d \in Character : member[d] \notin {member[c]} \cup {None} =>
              member'[d] = member[d]
    BY <1>14, <1>n DEF P!DeleteCharacter, P!TypeOK
  <2>. QED
    BY <1>n, <2>1, RowsGoElsewhere
<1>15. CASE P!AddInviter(c)
  <2>0. /\ pcall[c].at = "founding" /\ online' = online /\ exists' = exists
        /\ invites' = invites /\ kind' = kind /\ member' = member
        /\ leftTogether' = leftTogether /\ cameTogether' = cameTogether
    BY <1>15 DEF P!AddInviter
  <2>1. pcall'[c] = P!Idle \/ (pcall'[c].at = "founded" /\ pcall'[c].from = pcall[c].from)
    BY <1>15, Additions DEF P!TypeOK
  <2>2. \A d \in Character \ {c} : pcall'[d] = pcall[d]
    BY <1>15 DEF P!AddInviter, P!Goto, P!TypeOK
  <2>. QED
    BY <2>0, <2>1, <2>2, <1>s, CallShapes
<1>. QED
  BY <1>1, <1>2, <1>3, <1>4, <1>5, <1>6, <1>7, <1>8, <1>9, <1>10, <1>11, <1>12, <1>13,
     <1>14, <1>15 DEF PartyStepOf
----------------------------------------------------------------------------
(* One comes at a time, and there is room for who comes.                   *)

\* What FindParty does: give up, begin a founding, or find the party to join.
LEMMA Findings ==
  ASSUME P!TypeOK, NEW c \in Character, P!FindParty(c), NEW p, p = member[pcall[c].from]
  PROVE  /\ member' = member /\ kind' = kind /\ exists' = exists
         /\ \/ /\ pcall' = [pcall EXCEPT ![c] = P!Idle]
               /\ cameTogether \subseteq cameTogether' /\ cameTogether' \subseteq cameTogether \cup {p}
            \/ /\ pcall' = [pcall EXCEPT ![c] =
                             [at |-> "founding", from |-> pcall[c].from, type |-> pcall[c].type]]
               /\ cameTogether' = cameTogether
            \/ /\ p # None /\ Cardinality(P!Members(p)) < Cap[kind[p]]
               /\ pcall' = [pcall EXCEPT ![c] = [at |-> "joining", party |-> p]]
               /\ cameTogether' = IF P!Entering(p) # {} THEN cameTogether \cup {p}
                                                      ELSE cameTogether
  BY SameCount DEF P!FindParty, P!Goto, P!history

LEMMA OneComesStep ==
  ASSUME P!ConstantsAssumption, P!TypeOK, P!RowsHaveParties, OneComes,
         NEW c \in Character, PartyStepOf(c)
  PROVE  OneComes'
<1> USE CallShapes DEF P!history
<1>s. ASSUME cameTogether \subseteq cameTogether',
             \A d \in Character : pcall'[d].at = "joining" => pcall'[d] = pcall[d]
      PROVE  OneComes'
  BY <1>s DEF OneComes
<1>1. CASE \E target \in Character : P!Invite(c, target)
  BY <1>1, <1>s DEF P!Invite
<1>2. CASE P!Decline(c)
  BY <1>2, <1>s DEF P!Decline
<1>3. CASE P!Accept(c)
  BY <1>3, <1>s DEF P!Accept, P!Goto, P!TypeOK
<1>4. CASE P!Leave(c)
  BY <1>4, <1>s DEF P!Leave, P!Goto, P!TypeOK
<1>5. CASE P!FindParty(c)
  <2>1. PICK p : p = member[pcall[c].from]
    OBVIOUS
  <2>2. CASE /\ cameTogether \subseteq cameTogether'
             /\ \/ pcall' = [pcall EXCEPT ![c] = P!Idle]
                \/ pcall' = [pcall EXCEPT ![c] =
                              [at |-> "founding", from |-> pcall[c].from, type |-> pcall[c].type]]
    BY <2>2, <1>s DEF P!TypeOK
  <2>3. CASE /\ pcall' = [pcall EXCEPT ![c] = [at |-> "joining", party |-> p]]
             /\ cameTogether' = IF P!Entering(p) # {} THEN cameTogether \cup {p}
                                                    ELSE cameTogether
    BY <2>3 DEF OneComes, P!Entering, P!TypeOK
  <2>. QED
    BY <1>5, <2>1, <2>2, <2>3, Findings
<1>6. CASE P!Found(c)
  <2>1. pcall' = [pcall EXCEPT ![c] = P!Idle]
    BY <1>6 DEF P!Found, P!Goto
  <2>2. CASE cameTogether' = cameTogether
    BY <2>1, <2>2, <1>s DEF P!TypeOK
  <2>3. CASE \E p \in P!Unused : cameTogether' = cameTogether \ {p}
    BY <2>1, <2>3 DEF OneComes, P!Unused, P!TypeOK
  <2>. QED
    BY <1>6, <2>2, <2>3, Foundings
<1>7. CASE P!Join(c)
  BY <1>7, <1>s DEF P!Join, P!Goto, P!TypeOK
<1>8. CASE P!CountRest(c)
  BY <1>8, <1>s DEF P!CountRest, P!Goto, P!TypeOK
<1>9. CASE P!CommitLeave(c)
  BY <1>9, <1>s DEF P!CommitLeave, P!Goto, P!TypeOK
<1>10. CASE P!Dissolve(c)
  BY <1>10, <1>s DEF P!Dissolve, P!Goto, P!TypeOK
<1>11. CASE P!Abort(c)
  BY <1>11, <1>s DEF P!Abort, P!Goto, P!TypeOK
<1>12. CASE P!Disconnect(c)
  BY <1>12, <1>s DEF P!Disconnect
<1>13. CASE P!Reconnect(c)
  BY <1>13, <1>s DEF P!Reconnect
<1>14. CASE P!DeleteCharacter(c)
  BY <1>14, <1>s DEF P!DeleteCharacter
<1>15. CASE P!AddInviter(c)
  <2>0. /\ pcall[c].at = "founding" /\ online' = online /\ exists' = exists
        /\ invites' = invites /\ kind' = kind /\ member' = member
        /\ leftTogether' = leftTogether /\ cameTogether' = cameTogether
    BY <1>15 DEF P!AddInviter
  <2>1. pcall'[c] = P!Idle \/ (pcall'[c].at = "founded" /\ pcall'[c].from = pcall[c].from)
    BY <1>15, Additions DEF P!TypeOK
  <2>2. \A d \in Character \ {c} : pcall'[d] = pcall[d]
    BY <1>15 DEF P!AddInviter, P!Goto, P!TypeOK
  <2>. QED
    BY <2>0, <2>1, <2>2, <1>s
<1>. QED
  BY <1>1, <1>2, <1>3, <1>4, <1>5, <1>6, <1>7, <1>8, <1>9, <1>10, <1>11, <1>12, <1>13,
     <1>14, <1>15 DEF PartyStepOf

\* Members leave, parties end, and nobody comes or is about to who was not.
LEMMA RoomIsLeft ==
  ASSUME P!TypeOK, P!ConstantsAssumption, IsFiniteSet(Character), RoomStays,
         \A d \in Character : member'[d] = member[d] \/ member'[d] = None,
         \A p \in Party : kind'[p] # None => kind'[p] = kind[p],
         cameTogether \subseteq cameTogether',
         \A d \in Character : pcall'[d].at \in {"joining", "founded"} => pcall'[d] = pcall[d]
  PROVE  RoomStays'
<1>1. ASSUME NEW p \in Party
      PROVE  /\ Cardinality(P!Members(p)') \in Nat /\ Cardinality(P!Members(p)) \in Nat
             /\ Cardinality(P!Members(p)') <= Cardinality(P!Members(p))
  <2>1. P!Members(p)' \subseteq P!Members(p)
    BY DEF P!Members, P!ConstantsAssumption
  <2>. QED
    BY <2>1, MembersFinite, FS_Subset, FS_CardinalityType
<1>2. ASSUME NEW p \in Party, kind'[p] # None, p \notin cameTogether'
      PROVE  /\ Cardinality(P!Members(p)') <= Cap[kind'[p]]
             /\ (\E c \in Character : pcall'[c].at = "joining" /\ pcall'[c].party = p) =>
                   Cardinality(P!Members(p)') < Cap[kind'[p]]
  <2>1. kind'[p] = kind[p] /\ p \notin cameTogether /\ Cap[kind[p]] \in Nat
    BY <1>2 DEF P!TypeOK, P!ConstantsAssumption
  <2>2. /\ Cardinality(P!Members(p)) <= Cap[kind[p]]
        /\ (\E c \in Character : pcall[c].at = "joining" /\ pcall[c].party = p) =>
                   Cardinality(P!Members(p)) < Cap[kind[p]]
    BY <1>2, <2>1 DEF RoomStays
  <2>. QED
    BY <1>1, <2>1, <2>2
<1>3. \A c \in Character : pcall'[c].at = "founded" => Cap[pcall'[c].type] > 1
  BY DEF RoomStays
<1>. QED
  BY <1>2, <1>3 DEF RoomStays

\* The rows of the two who found a party, and a set one row larger.
LEMMA TwoAtMost ==
  ASSUME NEW x, NEW y
  PROVE  Cardinality({x} \cup {y}) \in {1, 2}
<1>1. IsFiniteSet({x}) /\ Cardinality({x}) = 1
  BY FS_Singleton
<1>2. Cardinality({x} \cup {y}) = IF y \in {x} THEN 1 ELSE 1 + 1
  BY <1>1, FS_AddElement, Zenon
<1>. QED
  BY <1>2

LEMMA OneMoreMember ==
  ASSUME NEW S, IsFiniteSet(S), NEW x, x \notin S
  PROVE  Cardinality(S \cup {x}) = Cardinality(S) + 1
BY FS_AddElement

LEMMA RoomStaysStep ==
  ASSUME P!ConstantsAssumption, IsFiniteSet(Character), PartyBase, OneComes, RoomStays,
         NEW c \in Character, PartyStepOf(c)
  PROVE  RoomStays'
<1> USE CallShapes DEF PartyBase, P!history
<1>n. /\ None \notin Party /\ None \notin Type
      /\ \A t \in Type : Cap[t] \in Nat
  BY DEF P!ConstantsAssumption
<1>m. \A p : IsFiniteSet(P!Members(p)) /\ Cardinality(P!Members(p)) \in Nat
  BY MembersFinite, FS_CardinalityType
<1>s. ASSUME \A d \in Character : member'[d] = member[d] \/ member'[d] = None,
             \A p \in Party : kind'[p] # None => kind'[p] = kind[p],
             cameTogether' = cameTogether,
             \A d \in Character : pcall'[d].at \in {"joining", "founded"} => pcall'[d] = pcall[d]
      PROVE  RoomStays'
  BY <1>s, RoomIsLeft
<1>1. CASE \E target \in Character : P!Invite(c, target)
  BY <1>1, <1>s DEF P!Invite
<1>2. CASE P!Decline(c)
  BY <1>2, <1>s DEF P!Decline
<1>3. CASE P!Accept(c)
  BY <1>3, <1>s DEF P!Accept, P!Goto, P!TypeOK
<1>4. CASE P!Leave(c)
  BY <1>4, <1>s DEF P!Leave, P!Goto, P!TypeOK
<1>5. CASE P!FindParty(c)
  <2>1. PICK p : p = member[pcall[c].from]
    OBVIOUS
  <2>2. /\ member' = member /\ kind' = kind
        /\ \A q : P!Members(q)' = P!Members(q)
    BY <1>5, <2>1, Findings DEF P!Members
  <2>3. CASE cameTogether \subseteq cameTogether' /\ pcall' = [pcall EXCEPT ![c] = P!Idle]
    BY <2>2, <2>3, RoomIsLeft DEF P!TypeOK
  <2>4. CASE /\ pcall' = [pcall EXCEPT ![c] =
                           [at |-> "founding", from |-> pcall[c].from, type |-> pcall[c].type]]
             /\ cameTogether' = cameTogether
    BY <2>2, <2>4 DEF RoomStays, P!TypeOK
  <2>5. CASE /\ p # None /\ Cardinality(P!Members(p)) < Cap[kind[p]]
             /\ pcall' = [pcall EXCEPT ![c] = [at |-> "joining", party |-> p]]
             /\ cameTogether' = IF P!Entering(p) # {} THEN cameTogether \cup {p}
                                                    ELSE cameTogether
    <3>1. \A d \in Character : \/ pcall'[d] = pcall[d]
                               \/ d = c /\ pcall'[d].at = "joining" /\ pcall'[d].party = p
      BY <2>5 DEF P!TypeOK
    <3>2. ASSUME NEW q \in Party, kind[q] # None, q \notin cameTogether'
          PROVE  /\ Cardinality(P!Members(q)) <= Cap[kind[q]]
                 /\ (\E d \in Character : pcall'[d].at = "joining" /\ pcall'[d].party = q) =>
                       Cardinality(P!Members(q)) < Cap[kind[q]]
      BY <2>5, <3>1, <3>2 DEF RoomStays
    <3>3. \A d \in Character : pcall'[d].at = "founded" => Cap[pcall'[d].type] > 1
      BY <3>1 DEF RoomStays
    <3>. QED
      BY <2>2, <3>2, <3>3 DEF RoomStays
  <2>. QED
    BY <1>5, <2>1, <2>3, <2>4, <2>5, Findings
<1>6. CASE P!Found(c)
  <2>1. pcall' = [pcall EXCEPT ![c] = P!Idle]
    BY <1>6 DEF P!Found, P!Goto
  <2>2. CASE kind' = kind /\ member' = member /\ cameTogether' = cameTogether
    BY <2>1, <2>2, <1>s DEF P!TypeOK
  <2>3. CASE \E p \in P!Unused :
              /\ kind' = [kind EXCEPT ![p] = pcall[c].type]
              /\ member' = [d \in Character |->
                              IF d = pcall[c].from \/ d = c THEN p ELSE member[d]]
              /\ cameTogether' = cameTogether \ {p}
              /\ member[c] = None /\ member[pcall[c].from] = None
    <3>1. PICK p \in P!Unused :
              /\ kind' = [kind EXCEPT ![p] = pcall[c].type]
              /\ member' = [d \in Character |->
                              IF d = pcall[c].from \/ d = c THEN p ELSE member[d]]
              /\ cameTogether' = cameTogether \ {p}
              /\ member[c] = None /\ member[pcall[c].from] = None
      BY <2>3
    <3>2. PICK from : from = pcall[c].from
      OBVIOUS
    <3>3. /\ from \in Character /\ p \in Party /\ kind[p] = None
          /\ pcall[c].type \in Type /\ Cap[pcall[c].type] > 1
      BY <1>6, <3>2 DEF P!Found, P!Unused, RoomStays
    <3>4. \A d \in Character : member[d] # p
      BY <3>3, <1>n DEF P!RowsHaveParties
    <3>5. P!Members(p)' = {from} \cup {c}
      BY <3>1, <3>2, <3>3, <3>4 DEF P!Members
    <3>6. Cardinality(P!Members(p)') \in {1, 2}
      BY <3>5, TwoAtMost
    <3>7. \A q \in Party \ {p} : P!Members(q)' = P!Members(q)
      BY <3>1, <3>2, <3>3, <1>n DEF P!Members, P!TypeOK
    <3>8. \A d \in Character : pcall'[d].at \in {"joining", "founded"} =>
              /\ pcall'[d] = pcall[d]
              /\ pcall[d].at = "joining" => pcall[d].party # p
      BY <2>1, <3>1 DEF P!TypeOK, P!Unused
    <3>9. ASSUME NEW q \in Party, kind'[q] # None, q \notin cameTogether'
          PROVE  /\ Cardinality(P!Members(q)') <= Cap[kind'[q]]
                 /\ (\E d \in Character : pcall'[d].at = "joining" /\ pcall'[d].party = q) =>
                       Cardinality(P!Members(q)') < Cap[kind'[q]]
      <4>1. CASE q = p
        <5>1. kind'[p] = pcall[c].type
          BY <3>1, <3>3 DEF P!TypeOK
        <5>2. Cap[pcall[c].type] \in Nat
          BY <3>3, <1>n
        <5>. QED
          BY <4>1, <3>3, <3>6, <3>8, <5>1, <5>2
      <4>2. CASE q # p
        <5>1. kind'[q] = kind[q] /\ P!Members(q)' = P!Members(q) /\ q \notin cameTogether
          BY <3>1, <3>7, <3>9, <4>2 DEF P!TypeOK
        <5>. QED
          BY <3>8, <3>9, <5>1 DEF RoomStays
      <4>. QED
        BY <4>1, <4>2
    <3>. QED
      BY <3>8, <3>9 DEF RoomStays
  <2>. QED
    BY <1>6, <2>2, <2>3, Foundings
<1>7. CASE P!Join(c)
  <2>1. PICK p : p = pcall[c].party
    OBVIOUS
  <2>2. /\ pcall[c].at = "joining" /\ p \in Party
        /\ kind' = kind /\ cameTogether' = cameTogether /\ pcall' = [pcall EXCEPT ![c] = P!Idle]
    BY <1>7, <2>1 DEF P!Join, P!Goto
  <2>3. CASE member' = member
    BY <2>2, <2>3, <1>s DEF P!TypeOK
  <2>4. CASE kind[p] # None /\ member[c] = None /\ member' = [member EXCEPT ![c] = p]
    <3>1. P!Members(p)' = P!Members(p) \cup {c} /\ c \notin P!Members(p)
      BY <2>2, <2>4, <1>n DEF P!Members, P!TypeOK
    <3>2. Cardinality(P!Members(p)') = Cardinality(P!Members(p)) + 1
      BY <3>1, <1>m, OneMoreMember
    <3>3. \A q \in Party \ {p} : P!Members(q)' = P!Members(q)
      BY <2>2, <2>4, <1>n DEF P!Members, P!TypeOK
    <3>4. \A d \in Character : pcall'[d].at \in {"joining", "founded"} =>
              pcall'[d] = pcall[d] /\ d # c
      BY <2>2 DEF P!TypeOK
    <3>5. ASSUME NEW q \in Party, kind[q] # None, q \notin cameTogether
          PROVE  /\ Cardinality(P!Members(q)') <= Cap[kind[q]]
                 /\ (\E d \in Character : pcall'[d].at = "joining" /\ pcall'[d].party = q) =>
                       Cardinality(P!Members(q)') < Cap[kind[q]]
      <4>1. CASE q = p
        <5>1. Cardinality(P!Members(p)) < Cap[kind[p]]
          BY <2>1, <2>2, <3>5, <4>1 DEF RoomStays
        <5>2. Cap[kind[p]] \in Nat
          BY <2>2, <2>4, <1>n DEF P!TypeOK
        <5>3. \A d \in Character : pcall'[d].at = "joining" => pcall'[d].party # p
          BY <2>1, <2>2, <3>4, <3>5, <4>1 DEF OneComes
        <5>. QED
          BY <4>1, <3>2, <1>m, <5>1, <5>2, <5>3
      <4>2. CASE q # p
        <5>1. P!Members(q)' = P!Members(q)
          BY <3>3, <4>2
        <5>. QED
          BY <3>4, <3>5, <5>1 DEF RoomStays
      <4>. QED
        BY <4>1, <4>2
    <3>. QED
      BY <2>2, <3>4, <3>5 DEF RoomStays
  <2>. QED
    BY <1>7, <2>1, <2>3, <2>4 DEF P!Join
<1>8. CASE P!CountRest(c)
  BY <1>8, <1>s DEF P!CountRest, P!Goto, P!TypeOK
<1>9. CASE P!CommitLeave(c)
  BY <1>9, <1>s DEF P!CommitLeave, P!Goto, P!TypeOK
<1>10. CASE P!Dissolve(c)
  BY <1>10, <1>s DEF P!Dissolve, P!Goto, P!TypeOK
<1>11. CASE P!Abort(c)
  BY <1>11, <1>s DEF P!Abort, P!Goto, P!TypeOK
<1>12. CASE P!Disconnect(c)
  BY <1>12, <1>s DEF P!Disconnect
<1>13. CASE P!Reconnect(c)
  BY <1>13, <1>s DEF P!Reconnect
<1>14. CASE P!DeleteCharacter(c)
  BY <1>14, <1>s DEF P!DeleteCharacter, P!TypeOK
<1>15. CASE P!AddInviter(c)
  <2>1. CASE pcall' = [pcall EXCEPT ![c] = P!Idle]
    BY <1>15, <2>1, <1>s DEF P!AddInviter, P!TypeOK
  <2>2. CASE /\ Cap[pcall[c].type] > 1
             /\ pcall' = [pcall EXCEPT ![c] =
                           [at |-> "founded", from |-> pcall[c].from, type |-> pcall[c].type]]
    BY <1>15, <2>2 DEF P!AddInviter, RoomStays, P!Members, P!TypeOK
  <2>. QED
    BY <1>15, <2>1, <2>2 DEF P!AddInviter, P!Goto
<1>. QED
  BY <1>1, <1>2, <1>3, <1>4, <1>5, <1>6, <1>7, <1>8, <1>9, <1>10, <1>11, <1>12, <1>13,
     <1>14, <1>15 DEF PartyStepOf
----------------------------------------------------------------------------
(* The theorems.                                                           *)

LEMMA PartyInit ==
  ASSUME P!ConstantsAssumption, P!Init
  PROVE  PartyInv
<1> USE DEF P!Init, P!Idle
<1>1. P!TypeOK
  BY DEF P!TypeOK, P!Calls
<1>2. InvitedByAnother /\ CallersAreOnline /\ P!RowsHaveParties
  BY DEF InvitedByAnother, CallersAreOnline, P!RowsHaveParties, P!RowFree
<1>3. OneLeaves /\ TwoStay /\ OneComes /\ RoomStays
  BY DEF OneLeaves, TwoStay, OneComes, RoomStays, Leaves
<1>. QED
  BY <1>1, <1>2, <1>3 DEF PartyInv, PartyBase

LEMMA PartyNext ==
  ASSUME P!ConstantsAssumption, IsFiniteSet(Character), PartyInv, [P!Next]_P!vars
  PROVE  PartyInv'
<1>1. CASE P!Next
  <2>1. PICK c \in Character : PartyStepOf(c)
    BY <1>1, OneSteps
  <2>2. PartyBase'
    BY <2>1, PartyTypeStep, CallersStep, PartyRowsStep DEF PartyInv, PartyBase
  <2>3. OneLeaves' /\ TwoStay'
    BY <2>1, OneLeavesStep, TwoStayStep DEF PartyInv, PartyBase
  <2>4. OneComes' /\ RoomStays'
    BY <2>1, OneComesStep, RoomStaysStep DEF PartyInv, PartyBase
  <2>. QED
    BY <2>2, <2>3, <2>4 DEF PartyInv
<1>2. CASE UNCHANGED P!vars
  <2>1. PartyBase'
    BY <1>2 DEF P!vars, PartyInv, PartyBase, P!TypeOK, InvitedByAnother, CallersAreOnline, P!RowsHaveParties
  <2>2. OneLeaves' /\ OneComes'
    BY <1>2 DEF P!vars, PartyInv, OneLeaves, OneComes, Leaves
  <2>3. TwoStay' /\ RoomStays'
    BY <1>2 DEF P!vars, PartyInv, TwoStay, RoomStays, Two, P!Members
  <2>. QED
    BY <2>1, <2>2, <2>3 DEF PartyInv
<1>. QED
  BY <1>1, <1>2

\* What a transaction of party.rs counted is still so when it writes: the invariant
\* that the results below follow from.
THEOREM PartyInvariant ==
  ASSUME IsFiniteSet(Character)
  PROVE  P!Spec => []PartyInv
<1>1. P!Init => PartyInv
  BY PartiesAreDeclared, PartyInit
<1>2. PartyInv /\ [P!Next]_P!vars => PartyInv'
  BY PartiesAreDeclared, PartyNext
<1>. QED
  BY <1>1, <1>2, PTL DEF P!Spec

\* Every variable has its type.
THEOREM PartyTypes ==
  ASSUME IsFiniteSet(Character)
  PROVE  P!Spec => []P!TypeOK
<1>1. PartyInv => P!TypeOK
  BY DEF PartyInv, PartyBase
<1>. QED
  BY <1>1, PartyInvariant, PTL

\* accept_invite and leave (party.rs) never give a character a row of a party
\* that is gone, and what a leave deletes is the row it locked.
THEOREM RowsAreOfParties ==
  ASSUME IsFiniteSet(Character)
  PROVE  P!Spec => []P!RowsHaveParties
<1>1. PartyInv => P!RowsHaveParties
  BY DEF PartyInv, PartyBase
<1>. QED
  BY <1>1, PartyInvariant, PTL

\* "There's no such thing as a one-member party" (party.rs, leave), unless its
\* members leave in overlapping calls or are deleted.
THEOREM NoLonelyParties ==
  ASSUME IsFiniteSet(Character)
  PROVE  P!Spec => []PartiesHaveTwo
<1>1. PartyInv => PartiesHaveTwo
  BY SameCount, MembersFinite, TwoOrMore DEF PartyInv, TwoStay, P!PartiesHaveTwo, PartiesHaveTwo
<1>. QED
  BY <1>1, PartyInvariant, PTL

\* max_members is kept by accept_invite, unless acceptances overlap.
THEOREM CapsAreKept ==
  ASSUME IsFiniteSet(Character)
  PROVE  P!Spec => []P!PartiesWithinCap
<1>1. PartyInv => P!PartiesWithinCap
  BY SameCount DEF PartyInv, RoomStays, P!PartiesWithinCap
<1>. QED
  BY <1>1, PartyInvariant, PTL
=============================================================================
