------------------------------ MODULE Sessions ------------------------------
(***************************************************************************)
(* The sessions of characters, and transfers statement by statement.  The  *)
(* two share no state: CharacterSession has its own view of a transfer.    *)
(***************************************************************************)
EXTENDS CharacterSession

CONSTANTS
    \* See Transfer.  Its characters and realms are named apart.
    Traveller, Place, Attempt, Home, Mode, Gated, Verdict, Declared, Default,
    Stored, Value, PoolSize, MaxTickets, MaxMeddling

VARIABLES
    realm_id, stats, tickets, transfer_log, open_or_bound, transfer_gates, connected,
    at, request, spare, reply, granted, wrote, unsure, meddled

T == INSTANCE Transfer WITH Character <- Traveller, Realm <- Place

ASSUME TransfersAreDeclared == T!TransferAssumption

\* The properties of transfers: see Transfer.
TransfersAreWhole   == T!TransfersAreWhole
EveryAttemptReturns == T!EveryAttemptReturns
=============================================================================
