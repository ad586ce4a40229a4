------------------------------- MODULE Guild -------------------------------
(***************************************************************************)
(* Guilds.  A guild and its member rows are in Postgres (one row per       *)
(* account; rows go with their guild); the members of its chat channel are *)
(* kept beside them by the session that made the change, after the change  *)
(* is committed.  A call reads what it decides upon, then writes, then     *)
(* brings the chat channel up to date; calls of other accounts come in     *)
(* between.  Reads that follow each other are one step: whatever may come  *)
(* between two of them may as well come before the write.                  *)
(*                                                                         *)
(* Left out: name, message of the day and tag; the rosters that are pushed *)
(* to the members; guilds without a channel (chat is disabled, or failed), *)
(* where there is nothing to bring up to date; and that an account may play*)
(* two characters at a time: here its calls come one after the other.      *)
(***************************************************************************)
EXTENDS Integers, FiniteSets

CONSTANTS
    Account,
    Guild,         \* BOUND: the guild ids to give out
    Rank, Founder, \* the first declared rank
    Lowest,        \* the last one, where an invited account starts
    May,           \* the permissions of each rank
    MoveFounders,  \* whether members are moved out of the founder rank
    MaxCalls,      \* BOUND: calls under way at a time
    None

ASSUME ConstantsAssumption ==
    /\ Founder \in Rank /\ Lowest \in Rank
    /\ May \in [Rank -> SUBSET {"invite", "kick", "promote", "demote"}]
    /\ MoveFounders \in BOOLEAN
    /\ None \notin Guild \cup Account \cup Rank

VARIABLES
    status,       \* per guild id: "unused", "reserved", "standing", "gone"
    chat,         \* chat_channel_members of each guild's channel
    guildOf,      \* guild_members: the guild of each account
    rankOf,       \* and its rank there (Lowest where it has no row)
    call,         \* the guild call each account's session is in
    \* History, for the properties only:
    disturbed,    \* accounts with a chat change that failed or met another
    joinedLate    \* guilds joined after their last member set about leaving

vars == <<status, chat, guildOf, rankOf, call, disturbed,
          joinedLate>>
tables  == <<status, guildOf, rankOf>>
history == <<disturbed, joinedLate>>

Doing(at, g, whom, rank) == [at |-> at, guild |-> g, whom |-> whom, rank |-> rank]
Idle == Doing("idle", None, {}, None)
Goto(a, doing) == call' = [b \in Account |-> IF b = a THEN doing ELSE call[b]]

\* The session takes its next message.
Free(a) == call[a] = Idle /\ Cardinality({b \in Account : call[b] # Idle}) < MaxCalls

Standing(g) == status[g] = "standing"
Members(g) == {a \in Account : guildOf[a] = g}
Permitted(a, permission) == guildOf[a] # None /\ permission \in May[rankOf[a]]
----------------------------------------------------------------------------
Init ==
    /\ status = [g \in Guild |-> "unused"]
    /\ chat = [g \in Guild |-> {}]
    /\ guildOf = [a \in Account |-> None]
    /\ rankOf = [a \in Account |-> Lowest]
    /\ call = [a \in Account |-> Idle]
    /\ disturbed = {}
    /\ joinedLate = {}

\* GuildCreate makes the chat channel first, with the founder in it ...
Create(a) ==
    /\ Free(a)
    /\ \E g \in Guild :
         /\ status[g] = "unused"
         /\ status' = [h \in Guild |-> IF h = g THEN "reserved" ELSE status[h]]
         /\ chat' = [h \in Guild |-> IF h = g THEN {a} ELSE chat[h]]
         /\ Goto(a, Doing("creating", g, {}, None))
    /\ UNCHANGED <<guildOf, rankOf, history>>

\* ... then the guild with the founder's row, unless it is in one already.
Establish(a) ==
    LET g == call[a].guild IN
    /\ call[a].at = "creating"
    /\ IF guildOf[a] = None
          THEN /\ status' = [h \in Guild |-> IF h = g THEN "standing" ELSE status[h]]
               /\ guildOf' = [b \in Account |-> IF b = a THEN g ELSE guildOf[b]]
               /\ rankOf' = [b \in Account |-> IF b = a THEN Founder ELSE rankOf[b]]
          ELSE UNCHANGED <<status, guildOf, rankOf>>
    /\ Goto(a, Idle)
    /\ UNCHANGED <<chat, history>>

\* GuildInvite asks for no permission and may come from anyone at any time, so
\* that an invitation of anybody may be waiting.  GuildInviteResponse, accepted:
\* the inviter's guild and permission count as they are now.
Accept(a, inviter) ==
    /\ Free(a) /\ inviter # a
    /\ guildOf[a] = None /\ Permitted(inviter, "invite")
    /\ Goto(a, Doing("adding", guildOf[inviter], {a}, None))
    /\ UNCHANGED <<tables, chat, history>>

\* MUTANT: the rank an invited account starts at is looked up past the last one.
AddMemberUnranked(a) ==
    LET g == call[a].guild IN
    /\ call[a].at = "adding"
    /\ IF Standing(g) /\ guildOf[a] = None
          THEN /\ guildOf' = [b \in Account |-> IF b = a THEN g ELSE guildOf[b]]
               /\ rankOf' = [b \in Account |-> IF b = a THEN None ELSE rankOf[b]]
               /\ Goto(a, Doing("welcoming", g, {a}, None))
          ELSE Goto(a, Idle) /\ UNCHANGED <<guildOf, rankOf>>
    /\ UNCHANGED <<status, chat, history>>

\* A guild that is gone by now fails the insert.
AddMember(a) ==
    LET g == call[a].guild IN
    /\ call[a].at = "adding"
    /\ IF Standing(g) /\ guildOf[a] = None
          THEN /\ guildOf' = [b \in Account |-> IF b = a THEN g ELSE guildOf[b]]
               /\ rankOf' = [b \in Account |-> IF b = a THEN Lowest ELSE rankOf[b]]
               /\ Goto(a, Doing("welcoming", g, {a}, None))
               /\ disturbed' = IF \E b \in Account : /\ call[b].at = "parting"
                                                     /\ call[b].guild = g /\ a \in call[b].whom
                                  THEN disturbed \cup {a} ELSE disturbed
               /\ joinedLate' = IF \E b \in Account : call[b].at = "dissolving" /\ call[b].guild = g
                                   THEN joinedLate \cup {g} ELSE joinedLate
          ELSE Goto(a, Idle) /\ UNCHANGED <<guildOf, rankOf, history>>
    /\ UNCHANGED <<status, chat>>

\* The channel is found through the guild's row.
Welcome(a) ==
    LET g == call[a].guild IN
    /\ call[a].at = "welcoming"
    /\ chat' = [h \in Guild |-> IF h = g /\ Standing(g) THEN chat[h] \cup {a} ELSE chat[h]]
    /\ Goto(a, Idle)
    /\ UNCHANGED <<tables, history>>

----------------------------------------------------------------------------
\* MUTANT: the founder rank is not protected.
KickAnyone(a, target) ==
    /\ Free(a)
    /\ Permitted(a, "kick")
    /\ guildOf[target] = guildOf[a]
    /\ Goto(a, Doing("kicking", guildOf[a], {target}, None))
    /\ UNCHANGED <<tables, chat, history>>

\* GuildKick: permission, same guild, nobody of the founder rank ...
Kick(a, target) ==
    /\ Free(a)
    /\ Permitted(a, "kick")
    /\ guildOf[target] = guildOf[a] /\ rankOf[target] # Founder
    /\ Goto(a, Doing("kicking", guildOf[a], {target}, None))
    /\ UNCHANGED <<tables, chat, history>>

\* ... then the row goes, whatever its rank is by now.  GuildLeave of a member
\* likewise.
RemoveRow(a) ==
    LET g == call[a].guild IN
    /\ call[a].at \in {"kicking", "leaving"}
    /\ guildOf' = [b \in Account |-> IF b \in call[a].whom /\ guildOf[b] = g
                                        THEN None ELSE guildOf[b]]
    /\ rankOf' = [b \in Account |-> IF guildOf'[b] = None THEN Lowest ELSE rankOf[b]]
    /\ disturbed' = disturbed \cup {b \in call[a].whom : call[b].at = "welcoming" /\ call[b].guild = g}
    /\ Goto(a, Doing("parting", g, call[a].whom, None))
    /\ UNCHANGED <<status, chat, joinedLate>>

\* MUTANT: the channel is looked for in the account's present guild.
PartFromPresent(a, b) ==
    LET g    == guildOf[b]
        rest == call[a].whom \ {b}
    IN
    /\ call[a].at = "parting" /\ b \in call[a].whom
    /\ chat' = [h \in Guild |-> IF h = g /\ Standing(g) THEN chat[h] \ {b} ELSE chat[h]]
    /\ Goto(a, IF rest = {} THEN Idle ELSE Doing("parting", call[a].guild, rest, None))
    /\ UNCHANGED <<tables, history>>

\* sync_chat_leave, one account at a time; without the guild's row the channel is
\* not found, and nothing happens.
Part(a, b) ==
    LET g    == call[a].guild
        rest == call[a].whom \ {b}
    IN
    /\ call[a].at = "parting" /\ b \in call[a].whom
    /\ chat' = [h \in Guild |-> IF h = g /\ Standing(g) THEN chat[h] \ {b} ELSE chat[h]]
    /\ Goto(a, IF rest = {} THEN Idle ELSE Doing("parting", g, rest, None))
    /\ UNCHANGED <<tables, history>>

\* GuildPromote and GuildDemote differ in the permission they ask for.  Into and
\* out of the founder rank only founders move anybody.
ChangeRank(a, target, rank, permission) ==
    /\ Free(a)
    /\ Permitted(a, permission)
    /\ guildOf[target] = guildOf[a]
    /\ Founder \in {rank, rankOf[target]} => rankOf[a] = Founder
    /\ rankOf[target] = Founder /\ rank # Founder => MoveFounders
    /\ Goto(a, Doing("ranking", guildOf[a], {target}, rank))
    /\ UNCHANGED <<tables, chat, history>>

SetRank(a) ==
    /\ call[a].at = "ranking"
    /\ rankOf' = [b \in Account |-> IF b \in call[a].whom /\ guildOf[b] = call[a].guild
                                       THEN call[a].rank ELSE rankOf[b]]
    /\ Goto(a, Idle)
    /\ UNCHANGED <<status, guildOf, chat, history>>

\* MUTANT: others are not counted.
LeaveOthers(a) ==
    LET g == guildOf[a] IN
    /\ Free(a) /\ g # None
    /\ Goto(a, Doing(IF rankOf[a] = Founder THEN "dissolving" ELSE "leaving", g, {a}, None))
    /\ UNCHANGED <<tables, chat, history>>

\* GuildLeave: a founder may only leave alone, and the guild goes too.
Leave(a) ==
    LET g == guildOf[a] IN
    /\ Free(a) /\ g # None
    /\ rankOf[a] = Founder => Members(g) = {a}
    /\ Goto(a, Doing(IF rankOf[a] = Founder THEN "dissolving" ELSE "leaving", g, {a}, None))
    /\ UNCHANGED <<tables, chat, history>>

Disband(a) ==
    LET g == guildOf[a] IN
    /\ Free(a) /\ g # None /\ rankOf[a] = Founder
    /\ Goto(a, Doing("disbanding", g, Members(g), None))
    /\ UNCHANGED <<tables, chat, history>>

\* MUTANT: the rows of the others stay.
DeleteGuildAlone(a) ==
    LET g == call[a].guild IN
    /\ call[a].at \in {"dissolving", "disbanding"}
    /\ status' = [h \in Guild |-> IF h = g THEN "gone" ELSE status[h]]
    /\ guildOf' = [b \in Account |-> IF b = a THEN None ELSE guildOf[b]]
    /\ rankOf' = [b \in Account |-> IF guildOf'[b] = None THEN Lowest ELSE rankOf[b]]
    /\ Goto(a, Doing("parting", g, call[a].whom, None))
    /\ UNCHANGED <<chat, history>>

\* The guild's row is deleted, and all rows of members with it.
DeleteGuild(a) ==
    LET g == call[a].guild IN
    /\ call[a].at \in {"dissolving", "disbanding"}
    /\ status' = [h \in Guild |-> IF h = g THEN "gone" ELSE status[h]]
    /\ guildOf' = [b \in Account |-> IF guildOf[b] = g THEN None ELSE guildOf[b]]
    /\ rankOf' = [b \in Account |-> IF guildOf'[b] = None THEN Lowest ELSE rankOf[b]]
    /\ Goto(a, Doing("parting", g, call[a].whom, None))
    /\ UNCHANGED <<chat, history>>

\* A statement fails; where it was the chat's, that is only logged.
Fail(a) ==
    /\ call[a] # Idle
    /\ disturbed' = IF call[a].at \in {"welcoming", "parting"}
                       THEN disturbed \cup call[a].whom ELSE disturbed
    /\ Goto(a, Idle)
    /\ UNCHANGED <<tables, chat, joinedLate>>
----------------------------------------------------------------------------
Next == \E a \in Account :
    \/ Create(a) \/ Establish(a)
    \/ AddMember(a) \/ Welcome(a)
    \/ RemoveRow(a) \/ SetRank(a)
    \/ Leave(a) \/ Disband(a) \/ DeleteGuild(a)
    \/ Fail(a)
    \/ \E b \in Account :
         \/ Accept(a, b) \/ Kick(a, b) \/ Part(a, b)
         \/ \E rank \in Rank, permission \in {"promote", "demote"} :
              ChangeRank(a, b, rank, permission)

Spec == Init /\ [][Next]_vars
----------------------------------------------------------------------------
Calls == [at    : {"idle", "creating", "adding", "welcoming", "kicking", "leaving",
                   "parting", "ranking", "dissolving", "disbanding"},
          guild : Guild \cup {None},
          whom  : SUBSET Account,
          rank  : Rank \cup {None}]

\* Every variable has its type.
TypeOK ==
    /\ status \in [Guild -> {"unused", "reserved", "standing", "gone"}]
    /\ chat \in [Guild -> SUBSET Account]
    /\ guildOf \in [Account -> Guild \cup {None}]
    /\ rankOf \in [Account -> Rank]
    /\ call \in [Account -> Calls]
    /\ disturbed \subseteq Account
    /\ joinedLate \subseteq Guild

\* A guild that stands has a founder to manage and dissolve it, unless founders
\* are moved out of their rank: kicks, leaves and rank changes decided on what
\* was read before never remove the last one.
Led == \A g \in Guild : Standing(g) =>
         \E a \in Members(g) : rankOf[a] = Founder

\* Nobody is in a guild that does not stand, whatever was added, removed or ranked
\* while it was being deleted.
RowsHaveGuilds == \A a \in Account : guildOf[a] # None => Standing(guildOf[a])

\* A guild is only deleted under other members by a founder who disbands it; a
\* founder who leaves takes nobody's guild away but that of members who joined
\* since it counted.
DissolvesAlone ==
    [][\A a \in Account, g \in Guild :
         /\ call[a].at = "dissolving" /\ call[a].guild = g
         /\ Standing(g) /\ status'[g] = "gone" /\ g \notin joinedLate
         => Members(g) \subseteq {a} \/ \E b \in Account : call[b].at = "disbanding"]_vars

\* The members of a standing guild's channel are its members, once the calls about
\* an account are over; two changes of one account's membership that overlap, and
\* failures of the chat, are the only exceptions.
ChatFollowsRoster ==
    \A g \in Guild, a \in Account :
        /\ Standing(g)
        /\ a \notin disturbed
        /\ \A b \in Account : ~(call[b].at \in {"welcoming", "parting"} /\ a \in call[b].whom)
        => (a \in chat[g] <=> guildOf[a] = g)
----------------------------------------------------------------------------
(* What the repository says of this program and the program does not do.   *)

\* Nobody is left in the channel of a guild that is gone.
ChatEndsWithGuild ==
    \A g \in Guild : status[g] = "gone" /\ (\A a \in Account : call[a] = Idle) =>
        chat[g] \subseteq disturbed
=============================================================================
