----------------------------- MODULE MCSessions -----------------------------
(* Three parts, each on its own: alice's sessions in an open realm on two    *)
(* processes beside a bound one; alice's and bob's, one process for each of  *)
(* their realms, with fairness; and two transfers of one character on a pool *)
(* of two connections.                                                       *)
EXTENDS Sessions, TLC

CONSTANTS alice, bob, openRealm, boundA, boundB, s1, s2, s3, s4, c1, c2, c3, c4, c5

VARIABLE part       \* "open", "lapse" or "transfer"

MCRealmOf  == s1 :> openRealm @@ s2 :> openRealm @@ s3 :> boundB @@ s4 :> boundA
MCHome     == alice :> openRealm @@ bob :> boundA
MCServerOf == c1 :> s1 @@ c2 :> s1 @@ c3 :> s2 @@ c4 :> s3 @@ c5 :> s4

transfers == <<realm_id, stats, tickets, transfer_log, open_or_bound, transfer_gates,
               connected, at, request, spare, reply, granted, wrote, unsure, meddled>>

\* One thing happens to the rows beside the attempts, at any moment.
MCOrigin == alice :> boundA
MCMode   == boundA :> "bound" @@ boundB :> "bound"
MCGated  == {<<boundA, boundB>>}
MCStored == alice :> [k \in {"relic"} |-> 1]
Hp       == {"hp"}

\* A gate asks for a ticket to begin with, and the character has one.
MCInit ==
    /\ Init /\ T!Init
    /\ part \in {"open", "lapse", "transfer"}
    /\ tickets[alice] = 1
    /\ transfer_gates = [pair \in MCGated |-> "ticket"]

\* These connections, processes and characters have a part to themselves.
Acts(connections, servers, characters) ==
    \/ \E c \in connections : Session(c) /\ sel'[c].char \in characters \cup {None}
    \/ \E s \in servers : Crash(s)
    \/ Tick

MCNext ==
    \/ /\ part = "open" /\ Acts({c1, c2, c3, c4}, {s1, s2, s3}, {alice})
       /\ UNCHANGED <<part, transfers>>
    \/ /\ part = "lapse" /\ Acts({c1, c5}, {s1, s4}, {alice, bob})
       /\ UNCHANGED <<part, transfers>>
    \/ part = "transfer" /\ T!Next /\ UNCHANGED <<part, vars>>

\* Fairness, and that of T!FairSpec, for the parts that need it.
MCFairness ==
    /\ WF_vars(part = "lapse" /\ Tick)
    /\ \A c \in {c1, c5} :
          /\ WF_vars(part = "lapse" /\ Heartbeat(c))
          /\ WF_vars(part = "lapse" /\ (JoinLiveness(c) \/ Spawn(c)))
          /\ WF_vars(part = "lapse" /\ CleanUp(c))
    /\ \A a \in Attempt : WF_transfers(part = "transfer" /\ T!Proceed(a))

MCSpec == MCInit /\ [][MCNext]_<<part, vars, transfers>> /\ MCFairness

\* No lease without a session blocks its character for ever, no liveness row
\* without one bars it from deletion and transfer for ever, and no transfer
\* waits for ever for a connection or a row that others hold.
NothingBarsForEver ==
    /\ part = "lapse" => OrphansAreReleased /\ LivenessLapses
    /\ EveryAttemptReturns
=============================================================================
