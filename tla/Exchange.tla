------------------------------ MODULE Exchange ------------------------------
(***************************************************************************)
(* What players exchange: goods, in trade sessions, and messages, in chat  *)
(* channels.  The two share no state.                                      *)
(***************************************************************************)
EXTENDS Trade

CONSTANTS Client, AccountOf, Zone, Name, AutoKey,
          MaxAlike, MaxMessages,    \* bounds, see Channels
          Gone

VARIABLES channels, members, zone, joined, forwarders, sent, call, owed, cut

C == INSTANCE Channels

ASSUME ChatAssumption == C!ChannelsAssumption

\* The properties of chat: see Channels.
ZoneMatesTogether   == C!ZoneMatesTogether
NothingMissed       == C!NothingMissed
SameNameSameChannel == C!SameNameSameChannel
=============================================================================
