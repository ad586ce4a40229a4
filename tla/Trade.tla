------------------------------- MODULE Trade -------------------------------
(***************************************************************************)
(* Player-to-player trade as handle_session runs it: the requests, the    *)
(* negotiation in shared TradeSession objects, the confirmations and the  *)
(* execution.  Every connection handles its messages one at a time, but   *)
(* the connections run in parallel and each lock (of active_trades, of a  *)
(* session, of entity_characters) is taken and released by itself, so     *)
(* each is a step of its own.  The exchange itself is one transaction     *)
(* that succeeds or fails; what it does to the holdings is the subject of *)
(* Holdings.                                                               *)
(***************************************************************************)
EXTENDS Integers

CONSTANTS
    Entity,        \* connected players, each with one character
    Offer,         \* what a side may offer: its items and currency
    Nothing,       \* the empty offer
    Session,       \* names for TradeSession objects, each used once
    None

TradeAssumption ==
    /\ Nothing \in Offer
    /\ None \notin Entity \cup Session
    /\ None \notin [Entity -> Offer]

VARIABLES
    entity_characters,        \* the entities that are in the world
    pending_trade_requests,   \* invitee -> requester
    active_trades,            \* entity -> its TradeSession
    session,                  \* the TradeSession objects
    pc, mine, input,          \* each handler: place, session, offers it read
    agreed,                   \* history: the offers it found both flags set on
    executed                  \* history: the sessions that were executed

maps == <<entity_characters, pending_trade_requests, active_trades>>
vars == <<maps, session, pc, mine, input, agreed, executed>>

Offers   == [Entity -> Offer]
NoOffers == [e \in Entity |-> Nothing]

\* A side's confirmed flag is kept with the offers it was set on; None: unset.
NoFlags  == [e \in Entity |-> None]
Unused   == [a |-> None, b |-> None, offer |-> NoOffers, confirmed |-> NoFlags]

Sides(s)    == {session[s].a, session[s].b}
Other(s, e) == IF e = session[s].a THEN session[s].b ELSE session[s].a

BothConfirmed(s) ==
    session[s] # Unused /\ \A e \in Sides(s) : session[s].confirmed[e] # None

Init ==
    /\ entity_characters = Entity
    /\ pending_trade_requests = [e \in Entity |-> None]
    /\ active_trades = [e \in Entity |-> None]
    /\ session = [s \in Session |-> Unused]
    /\ pc = [e \in Entity |-> "idle"]
    /\ mine = [e \in Entity |-> None]
    /\ input = [e \in Entity |-> NoOffers]
    /\ agreed = [e \in Entity |-> NoOffers]
    /\ executed = {}

Goto(e, place) == pc' = [pc EXCEPT ![e] = place]

\* The handler is done with the message.
Return(e) ==
    /\ Goto(e, "idle")
    /\ mine' = [mine EXCEPT ![e] = None]
    /\ input' = [input EXCEPT ![e] = NoOffers]
    /\ agreed' = [agreed EXCEPT ![e] = NoOffers]
----------------------------------------------------------------------------
\* MUTANT: the requester may be the target.
TradeRequestSelf(e, target) ==
    /\ pc[e] = "idle"
    /\ target \in entity_characters
    /\ pending_trade_requests' = [pending_trade_requests EXCEPT ![target] = e]
    /\ UNCHANGED <<entity_characters, active_trades, session, pc, mine,
                   input, agreed, executed>>

\* The last request to a target replaces the one before.
TradeRequest(e, target) ==
    /\ pc[e] = "idle"
    /\ target # e /\ target \in entity_characters
    /\ pending_trade_requests' = [pending_trade_requests EXCEPT ![target] = e]
    /\ UNCHANGED <<entity_characters, active_trades, session, pc, mine,
                   input, agreed, executed>>

Decline(e) ==
    /\ pc[e] = "idle"
    /\ pending_trade_requests[e] # None
    /\ pending_trade_requests' = [pending_trade_requests EXCEPT ![e] = None]
    /\ UNCHANGED <<entity_characters, active_trades, session, pc, mine,
                   input, agreed, executed>>

\* Accepting opens a session, whatever the two may be engaged in already and
\* whether or not the requester is still there ...
Accept(e, s) ==
    LET requester == pending_trade_requests[e] IN
    /\ pc[e] = "idle"
    /\ requester # None
    /\ session[s] = Unused
    /\ pending_trade_requests' = [pending_trade_requests EXCEPT ![e] = None]
    /\ session' = [session EXCEPT ![s].a = requester, ![s].b = e]
    /\ mine' = [mine EXCEPT ![e] = s]
    /\ Goto(e, "opening")
    /\ UNCHANGED <<entity_characters, active_trades, input, agreed, executed>>

\* ... and enters it under the requester's key, then under its own.
OpenForRequester(e) ==
    /\ pc[e] = "opening"
    /\ active_trades' = [active_trades EXCEPT ![Other(mine[e], e)] = mine[e]]
    /\ Goto(e, "joining")
    /\ UNCHANGED <<entity_characters, pending_trade_requests, session,
                   mine, input, agreed, executed>>

OpenForSelf(e) ==
    /\ pc[e] = "joining"
    /\ active_trades' = [active_trades EXCEPT ![e] = mine[e]]
    /\ Return(e)
    /\ UNCHANGED <<entity_characters, pending_trade_requests, session,
                   executed>>

\* TradeOfferItem, TradeOfferCurrency and TradeConfirm look the session up ...
LookUp(e) ==
    /\ pc[e] = "idle"
    /\ active_trades[e] # None
    /\ mine' = [mine EXCEPT ![e] = active_trades[e]]
    /\ \E place \in {"offering", "confirming"} : Goto(e, place)
    /\ UNCHANGED <<maps, session, input, agreed, executed>>

\* MUTANT: a change of the offer resets its own side's flag only.
ChangeOfferKeepsOther(e, offer) ==
    /\ pc[e] = "offering"
    /\ session' = [session EXCEPT ![mine[e]].offer[e] = offer,
                                  ![mine[e]].confirmed[e] = None]
    /\ Return(e)
    /\ UNCHANGED <<maps, executed>>

\* MUTANT: the handler takes the other side's offer.
ChangeOfferOfOther(e, offer) ==
    /\ pc[e] = "offering"
    /\ session' = [session EXCEPT ![mine[e]].offer[Other(mine[e], e)] = offer,
                                  ![mine[e]].confirmed = NoFlags]
    /\ Return(e)
    /\ UNCHANGED <<maps, executed>>

\* ... and lock it.  An offer changes its own side's and resets both flags.
ChangeOffer(e, offer) ==
    /\ pc[e] = "offering"
    /\ session' = [session EXCEPT ![mine[e]].offer[e] = offer,
                                  ![mine[e]].confirmed = NoFlags]
    /\ Return(e)
    /\ UNCHANGED <<maps, executed>>

\* A confirmation sets its own flag; the one that finds both set goes on to
\* execute, with the session unlocked.
Confirm(e) ==
    LET s == mine[e]  terms == session[s].offer IN
    /\ pc[e] = "confirming"
    /\ session' = [session EXCEPT ![s].confirmed[e] = terms]
    /\ IF session[s].confirmed[Other(s, e)] # None
          THEN /\ agreed' = [agreed EXCEPT ![e] = terms]
               /\ Goto(e, "reading") /\ UNCHANGED <<mine, input>>
          ELSE Return(e)
    /\ UNCHANGED <<maps, executed>>

\* It locks the session again to read the offers, ...
ReadOffers(e) ==
    /\ pc[e] = "reading"
    /\ input' = [input EXCEPT ![e] = session[mine[e]].offer]
    /\ Goto(e, "finding")
    /\ UNCHANGED <<maps, session, mine, agreed, executed>>

ResetFlags(e) == session' = [session EXCEPT ![mine[e]].confirmed = NoFlags]

\* ... finds both characters, or resets both flags, ...
FindCharacters(e) ==
    /\ pc[e] = "finding"
    /\ IF Sides(mine[e]) \subseteq entity_characters
          THEN Goto(e, "executing") /\ UNCHANGED <<session, mine, input, agreed>>
          ELSE ResetFlags(e) /\ Return(e)
    /\ UNCHANGED <<maps, executed>>

\* ... and runs execute_trade, which succeeds ...
Execute(e) ==
    /\ pc[e] = "executing"
    /\ executed' = executed \cup {mine[e]}
    /\ Goto(e, "closing")
    /\ UNCHANGED <<maps, session, mine, input, agreed>>

\* MUTANT: a failed execution leaves the flags set.
ExecutionFailsKeeping(e) ==
    /\ pc[e] = "executing"
    /\ Return(e)
    /\ UNCHANGED <<maps, session, executed>>

\* ... or fails, for want of goods or room or by a database error; then both
\* flags are reset.
ExecutionFails(e) ==
    /\ pc[e] = "executing"
    /\ ResetFlags(e)
    /\ Return(e)
    /\ UNCHANGED <<maps, executed>>

\* MUTANT: the executor removes only the requester's key.
CloseSecondKeySkipped(e) ==
    /\ pc[e] = "closing2"
    /\ Return(e)
    /\ UNCHANGED <<maps, session, executed>>

\* After the exchange both keys are removed, whichever session they lead to by
\* then: the requester's, ...
CloseFirstKey(e) ==
    /\ pc[e] = "closing"
    /\ active_trades' = [active_trades EXCEPT ![session[mine[e]].a] = None]
    /\ Goto(e, "closing2")
    /\ UNCHANGED <<entity_characters, pending_trade_requests, session,
                   mine, input, agreed, executed>>

\* ... then the other's.
CloseSecondKey(e) ==
    /\ pc[e] = "closing2"
    /\ active_trades' = [active_trades EXCEPT ![session[mine[e]].b] = None]
    /\ Return(e)
    /\ UNCHANGED <<entity_characters, pending_trade_requests, session,
                   executed>>

\* TradeCancel removes its own key ...
TradeCancel(e) ==
    /\ pc[e] = "idle"
    /\ active_trades[e] # None
    /\ mine' = [mine EXCEPT ![e] = active_trades[e]]
    /\ active_trades' = [active_trades EXCEPT ![e] = None]
    /\ Goto(e, "cancelling")
    /\ UNCHANGED <<entity_characters, pending_trade_requests, session,
                   input, agreed, executed>>

\* ... and the other side's, whichever session that one leads to.
CancelOther(e) ==
    /\ pc[e] = "cancelling"
    /\ active_trades' = [active_trades EXCEPT ![Other(mine[e], e)] = None]
    /\ Return(e)
    /\ UNCHANGED <<entity_characters, pending_trade_requests, session,
                   executed>>

\* The socket closes: the entity and its pending request go, then its trade as
\* by TradeCancel.
Disconnect(e) ==
    /\ pc[e] = "idle"
    /\ entity_characters' = entity_characters \ {e}
    /\ pending_trade_requests' = [pending_trade_requests EXCEPT ![e] = None]
    /\ Goto(e, "departing")
    /\ UNCHANGED <<active_trades, session, mine, input, agreed, executed>>

DropTrade(e) ==
    /\ pc[e] = "departing"
    /\ active_trades' = [active_trades EXCEPT ![e] = None]
    /\ IF active_trades[e] = None
          THEN Goto(e, "gone") /\ UNCHANGED mine
          ELSE /\ mine' = [mine EXCEPT ![e] = active_trades[e]]
               /\ Goto(e, "dropping")
    /\ UNCHANGED <<entity_characters, pending_trade_requests, session,
                   input, agreed, executed>>

DropOther(e) ==
    /\ pc[e] = "dropping"
    /\ active_trades' = [active_trades EXCEPT ![Other(mine[e], e)] = None]
    /\ mine' = [mine EXCEPT ![e] = None]
    /\ Goto(e, "gone")
    /\ UNCHANGED <<entity_characters, pending_trade_requests, session,
                   input, agreed, executed>>

\* A `?` on the socket ends the handler without any of that.
Fail(e) ==
    /\ pc[e] = "idle"
    /\ Goto(e, "gone")
    /\ UNCHANGED <<maps, session, mine, input, agreed, executed>>
----------------------------------------------------------------------------
\* The rest of a message that is being handled.
Handle(e) ==
    \/ OpenForRequester(e) \/ OpenForSelf(e)
    \/ \E offer \in Offer : ChangeOffer(e, offer)
    \/ Confirm(e) \/ ReadOffers(e) \/ FindCharacters(e)
    \/ Execute(e) \/ ExecutionFails(e) \/ CloseFirstKey(e) \/ CloseSecondKey(e)
    \/ CancelOther(e) \/ DropTrade(e) \/ DropOther(e)

\* The player's messages.
Request(e) ==
    \/ \E target \in Entity : TradeRequest(e, target)
    \/ Decline(e)
    \/ \E s \in Session : Accept(e, s)
    \/ LookUp(e) \/ TradeCancel(e) \/ Disconnect(e) \/ Fail(e)

Next == \E e \in Entity : Handle(e) \/ Request(e)

Spec == Init /\ [][Next]_vars
----------------------------------------------------------------------------
TradeSession ==
    {r \in [a : Entity, b : Entity, offer : Offers,
            confirmed : [Entity -> Offers \cup {None}]] : r.a # r.b}

\* Every variable has its type; nobody trades with itself.
TypeOK ==
    /\ entity_characters \subseteq Entity
    /\ pending_trade_requests \in [Entity -> Entity \cup {None}]
    /\ active_trades \in [Entity -> Session \cup {None}]
    /\ session \in [Session -> TradeSession \cup {Unused}]
    /\ pc \in [Entity ->
         {"idle", "opening", "joining", "offering", "confirming", "reading",
          "finding", "executing", "closing", "closing2", "cancelling",
          "departing", "dropping", "gone"}]
    /\ mine \in [Entity -> Session \cup {None}]
    /\ input \in [Entity -> Offers]
    /\ agreed \in [Entity -> Offers]
    /\ executed \subseteq Session

\* A set flag stands for the offers as they are now, both of them: neither
\* side's offer changes under a confirmation (the reset in TradeOfferItem and
\* TradeOfferCurrency).
ConfirmationIsCurrent ==
    \A s \in Session, e \in Entity :
        session[s].confirmed[e] \in {None, session[s].offer}

\* Whoever executes gives what it offered itself when it confirmed: its own
\* offer cannot change while its handler is busy.
ExecutorGivesWhatItConfirmed ==
    \A e \in Entity : pc[e] \in {"finding", "executing"} =>
        input[e][e] = agreed[e][e]

\* Once the handler that executed a trade is done, neither key leads to it: no
\* later confirmation finds it.  (One of the other side that had found it before
\* the keys were removed finds both flags still set, and executes it once more.)
TradedSessionsClose ==
    \A s \in executed :
        (\A e \in Entity : mine[e] = s => pc[e] \notin {"closing", "closing2"})
            => \A e \in Entity : active_trades[e] # s

\* A session with both flags set never waits for nobody: a handler is on its
\* way to execute it or to reset the flags, unless it was executed.
ConfirmedTradeIsHandled ==
    \A s \in Session : BothConfirmed(s) =>
        \/ s \in executed
        \/ \E e \in Entity :
              mine[e] = s /\ pc[e] \in {"reading", "finding", "executing"}

\* What is executed is what both sides confirmed, last (Networking_Spec,
\* TradeOfferItem: "neither side can commit, then have the other silently
\* change their offer").  The offers are read anew after the flags were tested.
ExecutesOnlyConfirmed ==
    \A e \in Entity : pc[e] = "executing" => input[e] = agreed[e]
=============================================================================
