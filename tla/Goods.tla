------------------------------- MODULE Goods -------------------------------
(***************************************************************************)
(* What characters have: the gear of one, which its connection and the     *)
(* zone actor change statement by statement, and the items and currency    *)
(* tables, which trades, crafts and plain calls of several characters      *)
(* write.  The two share no state.                                         *)
(***************************************************************************)
EXTENDS Gear

CONSTANTS
    \* See Holdings.  The wares are its item types.
    Character, Ware, Currency, MaxWares, Operation, Process, Endowment

VARIABLES table, lock, view, call, pc, granted, current

H == INSTANCE Holdings
    WITH ItemType <- Ware, MaxItemTypes <- MaxWares, items <- table

ASSUME GearIsDeclared   == GearAssumption
ASSUME CallsAreDeclared == H!HoldingsAssumption

\* The properties of the tables: see Holdings.
CheckedRowsHold  == H!CheckedRowsHold
CommitsExactly   == H!CommitsExactly
EveryCallReturns == H!EveryCallReturns
TradesRespectCap == H!TradesRespectCap
=============================================================================
