-------------------------- MODULE ExclusiveLogin --------------------------
(***************************************************************************)
(* What the realm directory's login policy promises of open realms: a     *)
(* character is taken by one connection or by none.  A connection that    *)
(* ends gives it back, or, when it ends without a word, leaves it         *)
(* orphaned; an orphaned character cannot be taken, and becomes free      *)
(* after a while.                                                          *)
(***************************************************************************)
CONSTANTS Character, Connection, Free, Orphaned

VARIABLE status     \* per character: Free, Orphaned, or who has it

Init == status = [ch \in Character |-> Free]

Take(c, ch) ==
    /\ status[ch] = Free
    /\ status' = [status EXCEPT ![ch] = c]

\* Some connections end (a process may take many with it).
End ==
    /\ status' \in [Character -> Connection \cup {Free, Orphaned}]
    /\ \A ch \in Character :
          \/ status'[ch] = status[ch]
          \/ status[ch] \in Connection /\ status'[ch] \in {Free, Orphaned}

\* Orphaned characters become free.
Expire ==
    /\ status' \in [Character -> Connection \cup {Free, Orphaned}]
    /\ \A ch \in Character :
          \/ status'[ch] = status[ch]
          \/ status[ch] = Orphaned /\ status'[ch] = Free

Next ==
    \/ \E c \in Connection, ch \in Character : Take(c, ch)
    \/ End
    \/ Expire

Spec == Init /\ [][Next]_status

\* An orphaned character does not stay so.
Released == \A ch \in Character : (status[ch] = Orphaned) ~> (status[ch] # Orphaned)
=============================================================================
