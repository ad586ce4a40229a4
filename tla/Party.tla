------------------------------- MODULE Party -------------------------------
(***************************************************************************)
(* Parties.  Invitations wait in a map of the process; membership is rows *)
(* in Postgres (party_members, UNIQUE per character, rows of a party go   *)
(* with it).  Accepting and leaving are transactions of several statements *)
(* at READ COMMITTED without row locks taken in advance: what a statement  *)
(* read may have changed by the next.  A statement that writes and the     *)
(* COMMIT after it are one step where nobody can tell.                     *)
(*                                                                         *)
(* Left out: the rosters that are pushed to the members afterwards.  The   *)
(* layer hop that follows an acceptance is in Zones.                       *)
(***************************************************************************)
EXTENDS Integers, FiniteSets

CONSTANTS
    Character,
    Party,        \* BOUND: the party ids that can be in use at a time
    Type,         \* the declared party types
    Cap,          \* max_members of each; a type without one never fills up
    MaxWaiting,   \* BOUND: invitations that wait at a time
    None

ConstantsAssumption ==
    /\ Cap \in [Type -> Nat \ {0}]
    /\ None \notin Party \cup Character \cup Type

VARIABLES
    online,       \* characters with an entity (entity_characters)
    exists,       \* characters that have not been deleted
    invites,      \* pending_party_invites, by the invited character
    kind,         \* per party: its type, None where there is no row
    member,       \* party_members: the party of each character
    call,         \* the party call each character's session is in
    \* History, for the properties only: parties whose members ...
    leftTogether, \* ... left in overlapping calls, or were deleted
    cameTogether  \* ... came in overlapping calls

vars == <<online, exists, invites, kind, member, call, leftTogether, cameTogether>>
history == <<leftTogether, cameTogether>>

Idle == [at |-> "idle"]
Members(p) == {c \in Character : member[c] = p}
Leaving(p) == {c \in Character :
                 call[c].at \in {"left", "counted", "dissolving"} /\ call[c].party = p}
Entering(p) == {c \in Character : call[c].at = "joining" /\ call[c].party = p}
Goto(c, record) == call' = [call EXCEPT ![c] = record]
----------------------------------------------------------------------------
Init ==
    /\ online = Character
    /\ exists = Character
    /\ invites = [c \in Character |-> None]
    /\ kind = [p \in Party |-> None]
    /\ member = [c \in Character |-> None]
    /\ call = [c \in Character |-> Idle]
    /\ leftTogether = {}
    /\ cameTogether = {}

\* PartyInvite: the last invitation to a character is the one that waits.
Invite(c, target) ==
    /\ c \in online /\ call[c] = Idle
    /\ target \in online \ {c}
    /\ \E t \in Type : invites' = [invites EXCEPT ![target] = [from |-> c, type |-> t]]
    /\ Cardinality({d \in Character : invites'[d] # None}) <= MaxWaiting
    /\ UNCHANGED <<online, exists, kind, member, call, history>>

\* PartyInviteResponse takes the invitation out; declined, that was all.
Decline(c) ==
    /\ c \in online /\ call[c] = Idle /\ invites[c] # None
    /\ invites' = [invites EXCEPT ![c] = None]
    /\ UNCHANGED <<online, exists, kind, member, call, history>>

\* Accepted, accept_invite first sees that nobody is in a party already; who
\* invites must still be connected.
Accept(c) ==
    /\ c \in online /\ call[c] = Idle /\ invites[c] # None
    /\ invites' = [invites EXCEPT ![c] = None]
    /\ IF invites[c].from \in online /\ member[c] = None
          THEN Goto(c, [at |-> "invited", from |-> invites[c].from, type |-> invites[c].type])
          ELSE UNCHANGED call
    /\ UNCHANGED <<online, exists, kind, member, history>>

\* The inviter's party, and its size against the cap of its type; without one, a
\* party is to be founded.
FindParty(c) ==
    LET from == call[c].from
        p    == member[from]
    IN
    /\ call[c].at = "invited"
    /\ IF p = None
          THEN Goto(c, [at |-> "founding", from |-> from, type |-> call[c].type])
          ELSE IF Cardinality(Members(p)) < Cap[kind[p]]
                  THEN Goto(c, [at |-> "joining", party |-> p])
                  ELSE Goto(c, Idle)
    /\ cameTogether' = IF p # None /\ Entering(p) # {} THEN cameTogether \cup {p}
                                                       ELSE cameTogether
    /\ UNCHANGED <<online, exists, invites, kind, member, leftTogether>>

\* A row whose deletion or insertion is not committed yet makes an insert for the
\* same character wait.
RowFree(c) ==
    /\ call[c].at \notin {"left", "counted", "dissolving"}
    /\ \A d \in Character : call[d].at = "founded" => call[d].from # c

\* The new party and the inviter's row, which fails where he has one by now; the
\* cap of the type is then held against a party of one.
AddInviter(c) ==
    LET from == call[c].from IN
    /\ call[c].at = "founding"
    /\ RowFree(from)
    /\ IF from \in exists /\ member[from] = None /\ Cap[call[c].type] > 1
          THEN Goto(c, [at |-> "founded", from |-> from, type |-> call[c].type])
          ELSE Goto(c, Idle)
    /\ UNCHANGED <<online, exists, invites, kind, member, history>>

\* An id stands for a new party once nothing refers to the old one.
Unused == {p \in Party : kind[p] = None /\ \A c \in Character :
             "party" \in DOMAIN call[c] => call[c].party # p}

\* The invitee's row and the COMMIT, which show the party and both its rows; a row
\* of the invitee's that is there already fails it.
Found(c) ==
    /\ call[c].at = "founded"
    /\ RowFree(c)
    /\ IF Unused # {} /\ c \in exists /\ member[c] = None
          THEN \E p \in Unused :
                 /\ kind' = [kind EXCEPT ![p] = call[c].type]
                 /\ member' = [d \in Character |->
                                  IF d \in {call[c].from, c} THEN p ELSE member[d]]
                 /\ leftTogether' = leftTogether \ {p}
                 /\ cameTogether' = cameTogether \ {p}
          ELSE UNCHANGED <<kind, member, history>>
    /\ Goto(c, Idle)
    /\ UNCHANGED <<online, exists, invites>>

\* The invitee's row; a party that is gone by now fails it.
Join(c) ==
    LET p == call[c].party IN
    /\ call[c].at = "joining"
    /\ RowFree(c)
    /\ member' = IF kind[p] # None /\ member[c] = None /\ c \in exists
                    THEN [member EXCEPT ![c] = p] ELSE member
    /\ Goto(c, Idle)
    /\ UNCHANGED <<online, exists, invites, kind, history>>
----------------------------------------------------------------------------
\* PartyLeave deletes its own row ...
Leave(c) ==
    LET p == member[c] IN
    /\ c \in online /\ call[c] = Idle /\ p # None
    /\ Goto(c, [at |-> "left", party |-> p])
    /\ leftTogether' = IF Leaving(p) # {} THEN leftTogether \cup {p} ELSE leftTogether
    /\ UNCHANGED <<online, exists, invites, kind, member, cameTogether>>

\* MUTANT: a party is only dissolved when nobody remains.
CountNobody(c) ==
    LET p == call[c].party IN
    /\ call[c].at = "left"
    /\ Goto(c, [at    |-> IF Members(p) \ {c} = {} THEN "dissolving" ELSE "counted",
                party |-> p])
    /\ UNCHANGED <<online, exists, invites, kind, member, history>>

\* ... counts who remains (another's deletion does not show before it is
\* committed) ...
CountRest(c) ==
    LET p == call[c].party IN
    /\ call[c].at = "left"
    /\ Goto(c, [at    |-> IF Cardinality(Members(p) \ {c}) < 2 THEN "dissolving" ELSE "counted",
                party |-> p])
    /\ UNCHANGED <<online, exists, invites, kind, member, history>>

\* ... and commits, if two or more do.
CommitLeave(c) ==
    /\ call[c].at = "counted"
    /\ member' = [member EXCEPT ![c] = IF @ = call[c].party THEN None ELSE @]
    /\ Goto(c, Idle)
    /\ UNCHANGED <<online, exists, invites, kind, history>>

\* Else the party's row is deleted, and with it all of its members' rows: this
\* waits for the transactions that hold one of them.
Dissolve(c) ==
    LET p == call[c].party IN
    /\ call[c].at = "dissolving"
    /\ Leaving(p) = {c}
    /\ kind' = [kind EXCEPT ![p] = None]
    /\ member' = [d \in Character |-> IF member[d] = p THEN None ELSE member[d]]
    /\ Goto(c, Idle)
    /\ UNCHANGED <<online, exists, invites, history>>

\* A statement fails, or the process dies: what was not committed is undone.
\* Transactions that wait for each other (two that dissolve one party, two that
\* accept each other's invitation) end so too: Postgres fails one of them.
Abort(c) ==
    /\ call[c] # Idle
    /\ Goto(c, Idle)
    /\ UNCHANGED <<online, exists, invites, kind, member, history>>

\* The entity of a session goes with it: invitations to it and from it are
\* entries nobody finds any more.
Disconnect(c) ==
    /\ c \in online /\ call[c] = Idle
    /\ online' = online \ {c}
    /\ invites' = [d \in Character |->
                     IF d = c \/ (invites[d] # None /\ invites[d].from = c)
                        THEN None ELSE invites[d]]
    /\ UNCHANGED <<exists, kind, member, call, history>>

Reconnect(c) ==
    /\ c \in exists \ online
    /\ online' = online \cup {c}
    /\ UNCHANGED <<exists, invites, kind, member, call, history>>

\* Deleting a character takes its party_members row along (ON DELETE CASCADE); it
\* waits for a row of the character's that is not committed.
DeleteCharacter(c) ==
    /\ c \in exists \ online
    /\ RowFree(c)
    /\ exists' = exists \ {c}
    /\ member' = [member EXCEPT ![c] = None]
    /\ leftTogether' = IF member[c] # None THEN leftTogether \cup {member[c]} ELSE leftTogether
    /\ UNCHANGED <<online, invites, kind, call, cameTogether>>
----------------------------------------------------------------------------
Step(c) ==
    \/ FindParty(c) \/ AddInviter(c) \/ Found(c) \/ Join(c)
    \/ CountRest(c) \/ CommitLeave(c) \/ Dissolve(c)

Next == \E c \in Character :
    \/ \E target \in Character : Invite(c, target)
    \/ Decline(c) \/ Accept(c) \/ Leave(c)
    \/ Step(c) \/ Abort(c)
    \/ Disconnect(c) \/ Reconnect(c) \/ DeleteCharacter(c)

Spec == Init /\ [][Next]_vars
----------------------------------------------------------------------------
Calls ==
    {Idle}
      \cup [at : {"invited", "founding", "founded"}, from : Character, type : Type]
      \cup [at : {"joining", "left", "counted", "dissolving"}, party : Party]

\* Every variable has its type.
TypeOK ==
    /\ online \subseteq Character
    /\ exists \subseteq Character
    /\ invites \in [Character -> [from : Character, type : Type] \cup {None}]
    /\ kind \in [Party -> Type \cup {None}]
    /\ member \in [Character -> Party \cup {None}]
    /\ call \in [Character -> Calls]
    /\ leftTogether \subseteq Party
    /\ cameTogether \subseteq Party

\* A party of one, or of none, only comes from members who left in overlapping
\* calls, or from a character's deletion: acceptances that race a leave, a
\* dissolution or each other never leave one behind (party.rs, leave: "there's no
\* such thing as a one-member party").
PartiesHaveTwo ==
    \A p \in Party : kind[p] # None /\ p \notin leftTogether => Cardinality(Members(p)) >= 2

\* A party over its cap only comes from acceptances whose count and insert
\* overlapped.
PartiesWithinCap ==
    \A p \in Party : kind[p] # None /\ p \notin cameTogether =>
        Cardinality(Members(p)) <= Cap[kind[p]]

\* Nobody is in a party that is no more; a transaction that wrote its row away
\* still has it to write, and one that wrote its inviter's is alone to do so.
RowsHaveParties ==
    /\ \A c \in Character : member[c] # None => kind[member[c]] # None /\ c \in exists
    /\ \A c \in Character : call[c].at \in {"left", "counted", "dissolving"} =>
          member[c] = call[c].party
    /\ \A c \in Character : call[c].at = "founded" =>
          /\ member[call[c].from] = None /\ call[c].from \in exists
          /\ \A d \in Character \ {c} : call[d].at = "founded" => call[d].from # call[c].from
----------------------------------------------------------------------------
(* What the repository says of this program and the program does not do.   *)

\* There is no party of one, when nothing is under way.
NoPartyOfOne ==
    (\A c \in Character : call[c] = Idle) =>
        \A p \in Party : kind[p] # None => Cardinality(Members(p)) >= 2
=============================================================================
