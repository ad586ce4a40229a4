----------------------------- MODULE Holdings -----------------------------
(***************************************************************************)
(* The items and character_currency tables under concurrent writers.      *)
(* execute_trade and craft_item run in one READ COMMITTED transaction and *)
(* lock the rows they are going to consume; grant_item, remove_item and   *)
(* modify_currency read first and write in a second statement, outside    *)
(* any transaction.  Every statement is a step; one that needs a row lock *)
(* another transaction holds waits for it.                                *)
(*                                                                         *)
(* A row is a character's stack of an item type (absent at 0) or its      *)
(* balance of a currency.  A trade or a craft is an exchange: what it     *)
(* takes from each row and what it gives to each.                         *)
(***************************************************************************)
EXTENDS Integers, FiniteSets

CONSTANTS
    Character,
    ItemType,
    Currency,
    MaxItemTypes,   \* InventoryConfig::max_distinct_item_types
    Operation,      \* the calls the processes may make
    Process,        \* session handlers and world actors, one call each
    Endowment,      \* the rows at first
    None

Good == ItemType \cup Currency
Row  == Character \X Good

\* A call: its kind, the characters in the order their rows are locked, and
\* what it takes and gives, row by row.
Call == [kind : {"trade", "craft", "grant", "remove", "modify"},
         parties : {<<c>> : c \in Character} \cup (Character \X Character),
         take : [Row -> Nat], give : [Row -> Nat]]

HoldingsAssumption ==
    /\ MaxItemTypes \in Nat
    /\ Operation \subseteq Call
    /\ Endowment \in [Row -> Nat]
    /\ None \notin Process \cup Row \cup Operation
    /\ ItemType \cap Currency = {}

VARIABLES
    items,      \* what is committed, row by row
    lock,       \* the transaction that holds a row's lock
    view,       \* per process: the value it read under the lock or wrote last;
                \* outside a transaction, the value its first statement read
    call, pc,   \* per process: its call and its next statement
    granted,    \* per process: the rows its transaction has given to
    current     \* per process: the row it is about to give to

vars == <<items, lock, view, call, pc, granted, current>>

NoView == [r \in Row |-> 0]
Taken(p)    == {r \in Row : call[p].take[r] > 0}
Given(p)    == {r \in Row : call[p].give[r] > 0}
Subject(p)  == CHOOSE r \in Row : r \in Taken(p) \cup Given(p)

Locked(p)   == {r \in Row : lock[r] = p}
Free(p, r)  == lock[r] \in {None, p}

\* What a statement of p's transaction sees of a row.
Visible(p, r) == IF lock[r] = p THEN view[p][r] ELSE items[r]

Full(p, c) ==
    Cardinality({x \in ItemType : Visible(p, <<c, x>>) > 0}) >= MaxItemTypes

\* The capacity check of a new stack.
NoRoom(p, r) == r[2] \in ItemType /\ Visible(p, r) = 0 /\ Full(p, r[1])

\* The offered rows, one party's after the other's and currency after items.
Rank(p, r) == <<IF r[1] = call[p].parties[1] THEN 1 ELSE 2,
                IF r[2] \in ItemType THEN 1 ELSE 2>>
Before(a, b) == a[1] < b[1] \/ (a[1] = b[1] /\ a[2] < b[2])

\* The loops over a HashMap's entries may run in any order.
Firsts(p, rows) == {r \in rows : \A s \in rows : ~Before(Rank(p, s), Rank(p, r))}

ToLock(p)  == Firsts(p, Taken(p) \ Locked(p))
----------------------------------------------------------------------------
Init ==
    /\ items = Endowment
    /\ lock = [r \in Row |-> None]
    /\ view = [p \in Process |-> NoView]
    /\ call = [p \in Process |-> None]
    /\ pc = [p \in Process |-> "idle"]
    /\ granted = [p \in Process |-> {}]
    /\ current = [p \in Process |-> None]

Goto(p, place) == pc' = [pc EXCEPT ![p] = place]

\* The call returns: its transaction, if it has one, is over.
End(p) ==
    /\ Goto(p, "done")
    /\ lock' = [r \in Row |-> IF lock[r] = p THEN None ELSE lock[r]]
    /\ view' = [view EXCEPT ![p] = NoView]
    /\ granted' = [granted EXCEPT ![p] = {}]
    /\ current' = [current EXCEPT ![p] = None]
    /\ UNCHANGED call

\* Rejected: the transaction is dropped and rolls back.
Reject(p) == End(p) /\ UNCHANGED items

Begin(p, o) ==
    /\ pc[p] = "idle"
    /\ call' = [call EXCEPT ![p] = o]
    /\ Goto(p, IF o.kind \in {"trade", "craft"} THEN "locking" ELSE "reading")
    /\ UNCHANGED <<items, lock, view, granted, current>>

\* MUTANT: the stack is read without FOR UPDATE.
LockRowUnlocked(p, r) ==
    /\ pc[p] = "locking"
    /\ r \in Taken(p) /\ view[p][r] = 0
    /\ items[r] >= call[p].take[r]
    /\ view' = [view EXCEPT ![p][r] = items[r]]
    /\ UNCHANGED <<items, lock, call, pc, granted, current>>

\* MUTANT: the quantity is not tested again.
LockRowUnchecked(p, r) ==
    /\ pc[p] = "locking"
    /\ r \in ToLock(p)
    /\ lock[r] = None
    /\ lock' = [lock EXCEPT ![r] = p]
    /\ view' = [view EXCEPT ![p][r] = items[r]]
    /\ UNCHANGED <<items, call, pc, granted, current>>

\* SELECT ... FOR UPDATE of an offered row or an input that holds enough.
LockRow(p, r) ==
    /\ pc[p] = "locking"
    /\ r \in ToLock(p)
    /\ lock[r] = None
    /\ items[r] >= call[p].take[r]
    /\ lock' = [lock EXCEPT ![r] = p]
    /\ view' = [view EXCEPT ![p][r] = items[r]]
    /\ UNCHANGED <<items, call, pc, granted, current>>

\* MUTANT: the rejection leaves the transaction open.
RejectShortOpen(p, r) ==
    /\ pc[p] = "locking"
    /\ r \in ToLock(p)
    /\ lock[r] = None \/ items[r] = 0
    /\ items[r] < call[p].take[r]
    /\ Goto(p, "done")
    /\ UNCHANGED <<items, lock, view, call, granted, current>>

\* One that does not: nothing changes.  A row that is not there is not waited
\* for.
RejectShort(p, r) ==
    /\ pc[p] = "locking"
    /\ r \in ToLock(p)
    /\ lock[r] = None \/ items[r] = 0
    /\ items[r] < call[p].take[r]
    /\ Reject(p)

\* A craft locks its output too, if it is there, or checks the capacity, all
\* before it consumes anything.
LockOutput(p, r) ==
    /\ pc[p] = "locking" /\ call[p].kind = "craft"
    /\ ToLock(p) = {}
    /\ r \in Given(p)
    /\ Free(p, r) \/ items[r] = 0
    /\ IF NoRoom(p, r) THEN Reject(p)
       ELSE /\ Goto(p, "consuming")
            /\ lock' = [lock EXCEPT ![r] = IF items[r] = 0 THEN @ ELSE p]
            /\ view' = [view EXCEPT ![p][r] = Visible(p, r)]
            /\ UNCHANGED <<items, call, granted, current>>

\* All are locked: consume them, which disturbs nobody before the commit.
Consume(p) ==
    /\ \/ pc[p] = "locking" /\ call[p].kind = "trade" /\ ToLock(p) = {}
       \/ pc[p] = "consuming"
    /\ view' = [view EXCEPT ![p] =
                  [r \in Row |-> view[p][r] - call[p].take[r]]]
    /\ Goto(p, "granting")
    /\ UNCHANGED <<items, lock, call, granted, current>>

\* The second party receives before the first.  A trade checks the capacity
\* of each new stack, after the consumption ...
Receive(p, r) ==
    /\ pc[p] = "granting"
    /\ r \in Given(p) \ granted[p]
    /\ \A s \in Given(p) \ granted[p] :
          /\ Rank(p, s)[2] >= Rank(p, r)[2]
          /\ Rank(p, s)[2] = Rank(p, r)[2] => Rank(p, s)[1] <= Rank(p, r)[1]
    /\ IF call[p].kind = "trade" /\ NoRoom(p, r) THEN Reject(p)
       ELSE /\ Goto(p, "upserting")
            /\ current' = [current EXCEPT ![p] = r]
            /\ UNCHANGED <<items, lock, view, call, granted>>

\* MUTANT: the upsert overwrites the stack with the quantity.
UpsertSets(p) ==
    LET r == current[p] IN
    /\ pc[p] = "upserting"
    /\ Free(p, r)
    /\ lock' = [lock EXCEPT ![r] = p]
    /\ view' = [view EXCEPT ![p][r] = call[p].give[r]]
    /\ granted' = [granted EXCEPT ![p] = @ \cup {r}]
    /\ Goto(p, "granting")
    /\ UNCHANGED <<items, call, current>>

\* ... and adds to the row, or inserts it: INSERT ... ON CONFLICT DO UPDATE.
Upsert(p) ==
    LET r == current[p] IN
    /\ pc[p] = "upserting"
    /\ Free(p, r)
    /\ lock' = [lock EXCEPT ![r] = p]
    /\ view' = [view EXCEPT ![p][r] = Visible(p, r) + call[p].give[r]]
    /\ granted' = [granted EXCEPT ![p] = @ \cup {r}]
    /\ Goto(p, "granting")
    /\ UNCHANGED <<items, call, current>>

Commit(p) ==
    /\ pc[p] = "granting"
    /\ Given(p) = granted[p]
    /\ items' = [r \in Row |-> Visible(p, r)]
    /\ End(p)

\* A statement fails, in a transaction perhaps as the victim of a deadlock.
Abort(p) ==
    /\ pc[p] \notin {"idle", "done"}
    /\ Reject(p)
----------------------------------------------------------------------------
\* grant_item, remove_item and modify_currency read the row (and count the
\* stacks) ...
ReadRow(p) ==
    LET r == Subject(p)  o == call[p] IN
    /\ pc[p] = "reading"
    /\ IF items[r] < o.take[r] \/ (o.kind = "grant" /\ NoRoom(p, r))
          THEN Reject(p)
          ELSE /\ view' = [view EXCEPT ![p][r] = items[r] - o.take[r] + o.give[r]]
               /\ Goto(p, "writing")
               /\ UNCHANGED <<items, lock, call, granted, current>>

\* ... and write it later.  A grant adds to what is there by then; ...
AddToStack(p) ==
    LET r == Subject(p) IN
    /\ pc[p] = "writing" /\ call[p].kind = "grant"
    /\ lock[r] = None
    /\ items' = [items EXCEPT ![r] = @ + call[p].give[r]]
    /\ End(p)

\* ... a removal writes, or deletes at 0, what it computed from the earlier
\* read, to a row that is still there; ...
WriteStack(p) ==
    LET r == Subject(p) IN
    /\ pc[p] = "writing" /\ call[p].kind = "remove"
    /\ lock[r] = None
    /\ items' = [items EXCEPT ![r] = IF @ = 0 THEN 0 ELSE view[p][r]]
    /\ End(p)

\* ... a currency change writes it in any case.
WriteBalance(p) ==
    LET r == Subject(p) IN
    /\ pc[p] = "writing" /\ call[p].kind = "modify"
    /\ lock[r] = None
    /\ items' = [items EXCEPT ![r] = view[p][r]]
    /\ End(p)
----------------------------------------------------------------------------
Statement(p) ==
    \/ \E r \in Row : \/ LockRow(p, r) \/ RejectShort(p, r) \/ LockOutput(p, r)
                      \/ Receive(p, r)
    \/ Consume(p) \/ Upsert(p) \/ Commit(p)
    \/ ReadRow(p) \/ AddToStack(p) \/ WriteStack(p) \/ WriteBalance(p)

Next ==
    \E p \in Process :
        (\E o \in Operation : Begin(p, o)) \/ Statement(p) \/ Abort(p)

Spec == Init /\ [][Next]_vars

\* The transactions whose locks p waits for.
WaitsFor(p) ==
    CASE pc[p] = "locking" /\ ToLock(p) # {} -> {lock[r] : r \in ToLock(p)}
      [] pc[p] = "locking" /\ ToLock(p) = {} -> {lock[r] : r \in Given(p)}
      [] pc[p] = "upserting" -> {lock[current[p]]}
      [] OTHER -> {None}

Deadlocked(p) ==
    \E ring \in SUBSET Process :
        p \in ring /\ \A q \in ring : WaitsFor(q) \subseteq ring \ {q}

DeadlockVictim(p) == Deadlocked(p) /\ Abort(p)

\* The database executes some statement as long as there is one it can
\* execute, and ends every deadlock.
FairSpec ==
    Spec /\ WF_vars(\E p \in Process : Statement(p) \/ DeadlockVictim(p))
----------------------------------------------------------------------------
\* Every variable has its type; no stack or balance is ever negative.
TypeOK ==
    /\ items \in [Row -> Nat]
    /\ lock \in [Row -> Process \cup {None}]
    /\ view \in [Process -> [Row -> Nat]]
    /\ call \in [Process -> Operation \cup {None}]
    /\ pc \in [Process -> {"idle", "locking", "consuming", "granting", "upserting",
                           "reading", "writing", "done"}]
    /\ granted \in [Process -> SUBSET Row]
    /\ current \in [Process -> Row \cup {None}]

\* What a transaction read of a row it is going to consume is still there when
\* it consumes it, whoever else writes, in a transaction or not: the check of
\* execute_trade and craft_item is not stale when it is used.
CheckedRowsHold ==
    \A p \in Process : pc[p] \in {"locking", "consuming"} =>
        \A r \in Row : view[p][r] > 0 => items[r] = view[p][r]

\* A trade or a craft changes exactly what it says, on every row, against what
\* is committed at that moment: nothing is lost, doubled or overwritten.
CommitsExactly ==
    [][\A p \in Process :
          pc[p] = "granting" /\ items' # items /\ pc'[p] = "done" =>
              \A r \in Row :
                  items'[r] = items[r] - call[p].take[r] + call[p].give[r]]_vars

\* Every call returns: whatever order the rows are locked in, no transaction
\* waits for ever.
EveryCallReturns ==
    \A p \in Process : pc[p] \notin {"idle", "done"} ~> pc[p] = "done"

\* "A trade is never a way to bypass the configured inventory cap"
\* (Data_Model_Spec).  Two trades check it side by side.
TradesRespectCap ==
    [][\A p \in Process :
          pc[p] = "granting" /\ items' # items /\ call[p].kind = "trade" =>
              \A c \in Character :
                  Cardinality({x \in ItemType : items'[<<c, x>>] > 0})
                     <= MaxItemTypes]_vars
=============================================================================
