------------------------------- MODULE Realm -------------------------------
(***************************************************************************)
(* The societies of a realm: its guilds, and the parties of its            *)
(* characters.  The two share no state.                                    *)
(***************************************************************************)
EXTENDS Guild

CONSTANTS
    \* See Party.
    Character, Party, Type, Cap, MaxWaiting

VARIABLES online, exists, invites, kind, member, pcall, leftTogether, cameTogether

P == INSTANCE Party WITH call <- pcall

ASSUME PartiesAreDeclared == P!ConstantsAssumption

\* The properties of the parties: see Party.
PartiesHaveTwo == P!PartiesHaveTwo
NoPartyOfOne   == P!NoPartyOfOne
=============================================================================
