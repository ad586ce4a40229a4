------------------------------ MODULE Transfer ------------------------------
(***************************************************************************)
(* Transfers of characters between bound realms, statement by statement    *)
(* (transfer/src).  An attempt is a transaction that locks the character's *)
(* row first.  While it holds that row and the connection it has taken     *)
(* from the process's pool, it asks for the realms and the gate on further *)
(* connections of the same pool.  What it writes is seen when it commits;  *)
(* the record of a failed attempt is written after the rollback, on its    *)
(* own.  A failed statement and a crash may come anywhere.                 *)
(***************************************************************************)
EXTENDS Integers, FiniteSets, Sequences, Functions

CONSTANTS
    Character, Realm, Attempt,
    Home, Mode,         \* the realm of each character, the mode of each realm at first
    Gated,              \* the pairs of realms operators set gates for
    Verdict,            \* what a PurchaseVerifier may answer
    Declared, Default,  \* the stats the schema declares; what is not stored reads as
    Stored,             \* the stats of each character at first
    Value,              \* values written to declared stats
    PoolSize,           \* PoolOptions::max_connections
    MaxTickets,         \* BOUND: tickets each character has at first
    MaxMeddling,        \* BOUND: what else happens to the tables meanwhile
    None

TransferAssumption ==
    /\ Home \in [Character -> Realm] /\ Mode \in [Realm -> {"open", "bound"}]
    /\ PoolSize \in Nat \ {0} /\ MaxTickets \in Nat /\ MaxMeddling \in Nat
    /\ None \notin Realm \cup Value /\ None \notin {"complete", "error"}
    /\ DOMAIN Stored = Character

VARIABLES
    realm_id,       \* characters: the realm of each row; None once it is deleted
    stats,          \* and its stats, a function of the keys that are stored
    tickets,        \* items: the stack of the ticket item
    connected,      \* characters with an unexpired liveness row
    open_or_bound,  \* realms: the mode of each row
    transfer_gates, \* what each pair of realms with a row asks for
    transfer_log,   \* the records in the order in which they became visible
    at,             \* the statement each attempt is at
    request,        \* its character and destination, and the row it read
    spare,          \* connections of the pool that nobody holds
    reply,          \* what the client was answered
    \* History: tickets ever had, the stat writes since, the attempts whose commit
    \* took effect though its answer was lost.
    granted, wrote, unsure,
    meddled

tables  == <<realm_id, stats, tickets, transfer_log>>
realms  == <<open_or_bound, transfer_gates>>
history == <<granted, wrote, unsure>>
attempts == <<at, request, spare, reply>>
vars    == <<tables, realms, connected, attempts, history, meddled>>

Nothing == [of |-> None, to |-> None, from |-> None, gate |-> None, stats |-> <<>>]

Goes(a, statement) == at' = [at EXCEPT ![a] = statement]
Of(a) == request[a].of

\* Between SELECT ... FOR UPDATE and the end of the transaction; the ticket's
\* row is locked from when it is read.
HasRow(a)    == at[a] \in {"source", "destination", "liveness", "gate", "ticket",
                           "purchase", "write", "commit"}
HasTicket(a) == at[a] \in {"write", "commit"} /\ request[a].gate = "ticket"
HasConnection(a) == HasRow(a) \/ at[a] = "load"

\* MUTANT: the row is read without FOR UPDATE, and locked by the write only.
WrittenByNobody(ch) == \A a \in Attempt : at[a] = "commit" => Of(a) # ch

\* What waits for the character's row can go on.
Unlocked(ch) == \A a \in Attempt : HasRow(a) => Of(a) # ch

----------------------------------------------------------------------------
Init ==
    /\ realm_id = Home
    /\ stats = Stored
    /\ tickets \in [Character -> 0..MaxTickets]
    /\ connected = {}
    /\ open_or_bound = Mode
    /\ \E pairs \in SUBSET Gated : transfer_gates \in [pairs -> {"ticket", "purchase"}]
    /\ transfer_log = <<>>
    /\ at = [a \in Attempt |-> "idle"]
    /\ request = [a \in Attempt |-> Nothing]
    /\ spare = PoolSize
    /\ reply = [a \in Attempt |-> None]
    /\ granted = tickets
    /\ wrote = [ch \in Character |-> <<>>]
    /\ unsure = {}
    /\ meddled = 0

\* The session finds that the character is its account's.
RequestTransfer(a, ch, to) ==
    /\ at[a] = "idle"
    /\ realm_id[ch] # None
    /\ request' = [request EXCEPT ![a] = [Nothing EXCEPT !.of = ch, !.to = to]]
    /\ Goes(a, "begin")
    /\ UNCHANGED <<tables, realms, connected, spare, reply, history, meddled>>

Begin(a) ==
    /\ at[a] = "begin" /\ spare > 0
    /\ spare' = spare - 1
    /\ Goes(a, "load")
    /\ UNCHANGED <<tables, realms, connected, request, reply, history, meddled>>

\* An Err of transfer_inner: the transaction is dropped.
Rejects(a) ==
    /\ Goes(a, "failing")
    /\ spare' = spare + 1
    /\ UNCHANGED <<tables, realms, connected, request, reply, history, meddled>>

\* The next statement, on the transaction's own connection.
Continues(a, statement) ==
    /\ Goes(a, statement)
    /\ UNCHANGED <<tables, realms, connected, request, spare, reply, history, meddled>>

Load(a) ==
    /\ at[a] = "load" /\ Unlocked(Of(a))
    /\ \/ realm_id[Of(a)] = None /\ Rejects(a)
       \/ /\ realm_id[Of(a)] # None
          /\ request' = [request EXCEPT ![a].from = realm_id[Of(a)],
                                        ![a].stats = stats[Of(a)]]
          /\ Goes(a, "source")
          /\ UNCHANGED <<tables, realms, connected, spare, reply, history, meddled>>

Bound(realm) == realm \in DOMAIN open_or_bound /\ open_or_bound[realm] = "bound"

\* RealmStore::get, twice, each on a connection of its own.
ReadSource(a) ==
    /\ at[a] = "source" /\ spare > 0
    /\ IF Bound(request[a].from) THEN Continues(a, "destination") ELSE Rejects(a)

ReadDestination(a) ==
    /\ at[a] = "destination" /\ spare > 0
    /\ IF Bound(request[a].to) THEN Continues(a, "liveness") ELSE Rejects(a)

CheckLive(a) ==
    /\ at[a] = "liveness"
    /\ IF Of(a) \in connected THEN Rejects(a) ELSE Continues(a, "gate")

\* TransferGateStore::get: a pair without a row is open.
GateOf(from, to) ==
    IF <<from, to>> \in DOMAIN transfer_gates THEN transfer_gates[<<from, to>>] ELSE "open"

ReadGate(a) ==
    /\ at[a] = "gate" /\ spare > 0
    /\ LET gate == GateOf(request[a].from, request[a].to)
       IN  /\ request' = [request EXCEPT ![a].gate = gate]
           /\ Goes(a, IF gate = "open" THEN "write" ELSE gate)
    /\ UNCHANGED <<tables, realms, connected, spare, reply, history, meddled>>

\* Locks the stack, and consumes one of it in the transaction.
TakeTicket(a) ==
    /\ at[a] = "ticket"
    /\ IF tickets[Of(a)] < 1 THEN Rejects(a) ELSE Continues(a, "write")

VerifyPurchase(a) ==
    /\ at[a] = "purchase"
    /\ \E verified \in Verdict : IF verified THEN Continues(a, "write") ELSE Rejects(a)

\* The realm, the stats and the record of the success.
Write(a) ==
    /\ at[a] = "write"
    /\ IF request[a].to \in DOMAIN open_or_bound
       THEN Continues(a, "commit") ELSE Rejects(a)      \* the foreign key

\* Every declared stat that was stored, and the default of every other; what the
\* schema does not declare is dropped.
migrate_stats(stored) ==
    [k \in Declared |-> IF k \in DOMAIN stored THEN stored[k] ELSE Default]

Recorded(a, outcome) ==
    transfer_log' = Append(transfer_log,
        [by |-> a, of |-> Of(a), from |-> request[a].from, to |-> request[a].to,
         gate |-> request[a].gate, outcome |-> outcome])

Takes(a) ==
    /\ realm_id' = [realm_id EXCEPT ![Of(a)] = request[a].to]
    /\ stats' = [stats EXCEPT ![Of(a)] = migrate_stats(request[a].stats)]
    /\ tickets' = [tickets EXCEPT ![Of(a)] = IF HasTicket(a) THEN @ - 1 ELSE @]
    /\ Recorded(a, "success")

\* TransferComplete; or the commit is done and its answer is lost, which the
\* attempt takes for a failure.
Commit(a) ==
    /\ at[a] = "commit"
    /\ Takes(a)
    /\ spare' = spare + 1
    /\ \/ Goes(a, "done") /\ reply' = [reply EXCEPT ![a] = "complete"] /\ UNCHANGED unsure
       \/ Goes(a, "failing") /\ unsure' = unsure \cup {a} /\ UNCHANGED reply
    /\ UNCHANGED <<realms, connected, request, granted, wrote, meddled>>

\* A statement fails, BEGIN and the commit included.
Fail(a) ==
    \/ HasConnection(a) /\ Rejects(a)
    \/ at[a] = "begin" /\ Continues(a, "failing")

\* acquire_timeout: no connection has become free.
TimeOut(a) ==
    /\ spare = 0
    /\ \/ at[a] \in {"source", "destination", "gate"} /\ Rejects(a)
       \/ at[a] = "begin" /\ Continues(a, "failing")

\* The standalone record, best-effort: an error of it is only logged.
RecordFailure(a) ==
    /\ at[a] = "failing"
    /\ \/ spare > 0 /\ Recorded(a, "failed")
       \/ UNCHANGED transfer_log
    /\ Goes(a, "done")
    /\ reply' = [reply EXCEPT ![a] = "error"]
    /\ UNCHANGED <<realm_id, stats, tickets, realms, connected, request, spare, history, meddled>>

\* The process ends, and the database rolls back what its connections had open.
Crash ==
    /\ \E a \in Attempt : at[a] \notin {"idle", "done"}
    /\ at' = [a \in Attempt |-> IF at[a] = "idle" THEN "idle" ELSE "done"]
    /\ spare' = PoolSize
    /\ UNCHANGED <<tables, realms, connected, request, reply, history, meddled>>

----------------------------------------------------------------------------
(* What goes on beside it.                                                 *)

\* A lapsed row of character_bound_liveness is refreshed in place: its
\* statement need not wait for the character's row.
Connect(ch) ==
    /\ realm_id[ch] # None /\ ch \notin connected
    /\ connected' = connected \cup {ch}
    /\ UNCHANGED <<tables, realms, attempts, history>>

Disconnect(ch) ==
    /\ ch \in connected
    /\ connected' = connected \ {ch}
    /\ UNCHANGED <<tables, realms, attempts, history>>

\* set_stat, a single statement that waits for the row.
set_stat(ch, k, v) ==
    /\ realm_id[ch] # None /\ Unlocked(ch)
    /\ stats' = [stats EXCEPT ![ch] = [x \in DOMAIN @ \cup {k} |-> IF x = k THEN v ELSE @[x]]]
    /\ wrote' = [wrote EXCEPT ![ch] = [x \in DOMAIN @ \cup {k} |-> IF x = k THEN v ELSE @[x]]]
    /\ UNCHANGED <<realm_id, tickets, transfer_log, realms, connected, attempts, granted, unsure>>

\* grant_item: an insert waits for the character's row, an update for the stack's.
GrantTicket(ch) ==
    /\ realm_id[ch] # None
    /\ IF tickets[ch] = 0 THEN Unlocked(ch)
       ELSE \A a \in Attempt : HasTicket(a) => Of(a) # ch
    /\ tickets' = [tickets EXCEPT ![ch] = @ + 1]
    /\ granted' = [granted EXCEPT ![ch] = @ + 1]
    /\ UNCHANGED <<realm_id, stats, transfer_log, realms, connected, attempts, wrote, unsure>>

\* Its items and liveness go with it.
DeleteCharacter(ch) ==
    /\ realm_id[ch] # None /\ Unlocked(ch)
    /\ realm_id' = [realm_id EXCEPT ![ch] = None]
    /\ tickets' = [tickets EXCEPT ![ch] = 0]
    /\ connected' = connected \ {ch}
    /\ UNCHANGED <<stats, transfer_log, realms, attempts, history>>

\* TransferGateStore::set; an open gate is the absence of a row.
SetGate(pair, gate) ==
    /\ GateOf(pair[1], pair[2]) # gate
    /\ transfer_gates' =
        IF gate = "open" THEN Restrict(transfer_gates, DOMAIN transfer_gates \ {pair})
        ELSE [p \in DOMAIN transfer_gates \cup {pair} |->
                IF p = pair THEN gate ELSE transfer_gates[p]]
    /\ UNCHANGED <<tables, open_or_bound, connected, attempts, history>>

\* RealmStore::update.
UpdateRealm(r, mode) ==
    /\ r \in DOMAIN open_or_bound /\ open_or_bound[r] # mode
    /\ open_or_bound' = [open_or_bound EXCEPT ![r] = mode]
    /\ UNCHANGED <<tables, transfer_gates, connected, attempts, history>>

\* RealmStore::delete: refused while a character is there, or about to be; the
\* gates of the realm go with it.
DeleteRealm(r) ==
    /\ r \in DOMAIN open_or_bound
    /\ \A ch \in Character : realm_id[ch] # r
    /\ \A a \in Attempt : at[a] = "commit" => request[a].to # r
    /\ open_or_bound' = Restrict(open_or_bound, DOMAIN open_or_bound \ {r})
    /\ transfer_gates' =
        Restrict(transfer_gates, {p \in DOMAIN transfer_gates : r \notin {p[1], p[2]}})
    /\ UNCHANGED <<tables, connected, attempts, history>>

Meddle ==
    /\ meddled < MaxMeddling /\ meddled' = meddled + 1
    /\ \/ \E ch \in Character :
            \/ Connect(ch) \/ Disconnect(ch) \/ GrantTicket(ch) \/ DeleteCharacter(ch)
            \/ \E k \in Declared, v \in Value : set_stat(ch, k, v)
       \/ \E pair \in Gated, gate \in {"open", "ticket", "purchase"} : SetGate(pair, gate)
       \/ \E r \in Realm :
            \/ \E mode \in {"open", "bound"} : UpdateRealm(r, mode)
            \/ DeleteRealm(r)

Proceed(a) ==
    \/ Begin(a) \/ Load(a) \/ ReadSource(a) \/ ReadDestination(a) \/ CheckLive(a)
    \/ ReadGate(a) \/ TakeTicket(a) \/ VerifyPurchase(a) \/ Write(a) \/ Commit(a)
    \/ TimeOut(a) \/ RecordFailure(a)

\* Nobody has to ask for a transfer; one that is asked for does not stop.
AtRest == (\A a \in Attempt : at[a] \in {"idle", "done"}) /\ UNCHANGED vars

Next ==
    \/ \E a \in Attempt :
        \/ \E ch \in Character, to \in Realm : RequestTransfer(a, ch, to)
        \/ Proceed(a) \/ Fail(a)
    \/ Crash
    \/ Meddle
    \/ AtRest

Spec == Init /\ [][Next]_vars

\* A statement that can be executed is, a lock that is given up is passed on, and
\* nobody waits for a connection longer than acquire_timeout.
FairSpec == Spec /\ \A a \in Attempt : WF_vars(Proceed(a))

----------------------------------------------------------------------------
RecordsOf(a, outcome) ==
    {i \in DOMAIN transfer_log : transfer_log[i].by = a /\ transfer_log[i].outcome = outcome}

\* The recorded moves of a character; r is where those among the first n records
\* lead, from its home on.
Moves(ch) ==
    {i \in DOMAIN transfer_log : transfer_log[i].of = ch /\ transfer_log[i].outcome = "success"}
LeadsTo(ch, n, r) ==
    \/ r = Home[ch] /\ \A i \in Moves(ch) : i > n
    \/ \E i \in Moves(ch) :
          /\ i <= n /\ transfer_log[i].to = r
          /\ \A j \in Moves(ch) : j <= i \/ j > n
Paid(ch) == {i \in Moves(ch) : transfer_log[i].gate = "ticket"}

\* Whatever fails, is lost or goes on beside it: a character is where its recorded
\* moves lead, one after the other from its home, each record with the realm it
\* really left; it has given one ticket for each move through a ticket gate and no
\* other; and it has kept the last value written to every stat that is declared.
MovesArePaidFor ==
    \A ch \in Character : realm_id[ch] # None =>
        /\ \A i \in Moves(ch) : LeadsTo(ch, i - 1, transfer_log[i].from)
        /\ LeadsTo(ch, Len(transfer_log), realm_id[ch])
        /\ granted[ch] - tickets[ch] = Cardinality(Paid(ch))
        /\ \A k \in DOMAIN wrote[ch] :
            k \in DOMAIN stats[ch] /\ stats[ch][k] = wrote[ch][k]
        /\ Moves(ch) # {} => DOMAIN stats[ch] = Declared

\* A client that is told of a transfer has one, recorded once; one that is told
\* of an error has none, unless the answer to the commit was lost.
AnswersAreTrue ==
    \A a \in Attempt :
        /\ reply[a] = "complete" =>
            Cardinality(RecordsOf(a, "success")) = 1 /\ RecordsOf(a, "failed") = {}
        /\ reply[a] = "error" /\ a \notin unsure => RecordsOf(a, "success") = {}

\* Every move is paid for and recorded, and every answer is true.
TransfersAreWhole == MovesArePaidFor /\ AnswersAreTrue

\* Every attempt is answered or dies with its process, though attempts that hold
\* all connections of the pool each wait for one more.
EveryAttemptReturns ==
    \A a \in Attempt : at[a] = "begin" ~> at[a] = "done"
=============================================================================
