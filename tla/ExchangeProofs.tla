--------------------------- MODULE ExchangeProofs ---------------------------
(***************************************************************************)
(* What is proved of trades, for any players, offers and sessions: the     *)
(* types, that a set flag is of the offers as they are, that whoever       *)
(* executes gives what it confirmed, that no confirmed session is left to  *)
(* nobody, and that no key leads to a session that was executed.           *)
(*                                                                         *)
(* The last one rests on who is where: a side that is still opening a      *)
(* session has not confirmed it, so nobody executes a session that         *)
(* somebody is about to enter under a key (OpeningUnconfirmed).            *)
(*                                                                         *)
(* And of chat channels, for any number of connections, zones and names:   *)
(* zone mates are in one channel, nothing that is published for a client   *)
(* is missed, and every forwarder is the one that its entry holds.  It     *)
(* rests on what a call that is under way has found, and on each entry     *)
(* having exactly one task (ChatInv).                                      *)
(***************************************************************************)
EXTENDS Exchange, FiniteSetTheorems, SequenceTheorems, TLAPS

Opening   == {"opening", "joining"}
Engaged   == {"offering", "confirming", "reading", "finding", "executing",
              "closing", "closing2", "cancelling", "dropping"}
Executors == {"reading", "finding", "executing"}
Closers   == {"closing", "closing2"}

\* Nobody asks itself; a handler that is busy with a session is one of its
\* sides, the one that opens it is its second; a key leads to its own sessions.
PlayersAreSides ==
    /\ \A e \in Entity : pending_trade_requests[e] # e
    /\ \A e \in Entity : pc[e] \in Opening \cup Engaged =>
         mine[e] \in Session /\ e \in Sides(mine[e])
    /\ \A e \in Entity : pc[e] \in Opening => e = session[mine[e]].b
    /\ \A e \in Entity : active_trades[e] # None => e \in Sides(active_trades[e])

\* The offer of a side does not change while its handler executes.
OwnOfferStays ==
    \A e \in Entity :
        /\ pc[e] \in Executors => agreed[e][e] = session[mine[e]].offer[e]
        /\ pc[e] \in {"finding", "executing"} => input[e][e] = session[mine[e]].offer[e]

\* A session that is being opened is confirmed by the requester at most, so
\* that nobody executes it or has.
OpeningUnconfirmed ==
    \A e \in Entity : pc[e] \in Opening =>
        /\ session[mine[e]].confirmed[e] = None
        /\ mine[e] \notin executed
        /\ \A f \in Entity : mine[f] = mine[e] => pc[f] \notin Executors \cup Closers

\* Whoever closes a session has executed it, and has taken the first key off it.
ClosersExecuted ==
    /\ \A s \in executed : session[s] # Unused
    /\ \A e \in Entity : pc[e] \in Closers => mine[e] \in executed
    /\ \A e \in Entity : pc[e] = "closing2" =>
         active_trades[session[mine[e]].a] # mine[e]

IInv ==
    /\ TypeOK
    /\ PlayersAreSides
    /\ ConfirmationIsCurrent
    /\ OwnOfferStays
    /\ ConfirmedTradeIsHandled
    /\ OpeningUnconfirmed
    /\ ClosersExecuted
    /\ TradedSessionsClose
----------------------------------------------------------------------------
\* A session that has sides is between two players, and what it holds is typed.
LEMMA SidesType ==
    ASSUME TradeAssumption, TypeOK, NEW s \in Session, NEW e \in Entity, e \in Sides(s)
    PROVE  /\ session[s] \in TradeSession
           /\ session[s] # Unused
           /\ session[s].a \in Entity /\ session[s].b \in Entity
           /\ session[s].a # session[s].b
           /\ Other(s, e) \in Sides(s) /\ Other(s, e) \in Entity /\ Other(s, e) # e
           /\ session[s].offer \in Offers
           /\ session[s].confirmed \in [Entity -> Offers \cup {None}]
BY DEF TradeAssumption, TypeOK, TradeSession, Sides, Other, Unused

\* What is put into a session is typed; it stays a session between the same two.
LEMMA SetType ==
    ASSUME TradeAssumption, NEW r \in TradeSession,
           NEW o \in Offers, NEW c \in [Entity -> Offers \cup {None}]
    PROVE  [r EXCEPT !.offer = o, !.confirmed = c] \in TradeSession
BY DEF TradeSession

\* Return leaves no trace of the message.
LEMMA ReturnType ==
    ASSUME TradeAssumption, TypeOK, NEW e \in Entity, Return(e)
    PROVE  /\ pc' \in [Entity ->
                {"idle", "opening", "joining", "offering", "confirming", "reading",
                 "finding", "executing", "closing", "closing2", "cancelling",
                 "departing", "dropping", "gone"}]
           /\ mine' \in [Entity -> Session \cup {None}]
           /\ input' \in [Entity -> Offers]
           /\ agreed' \in [Entity -> Offers]
BY DEF TradeAssumption, TypeOK, Return, Goto, Offers, NoOffers

\* The offers of no session, and no flags, are typed.
LEMMA NothingType ==
    ASSUME TradeAssumption
    PROVE  NoOffers \in Offers /\ NoFlags \in [Entity -> Offers \cup {None}]
BY DEF TradeAssumption, Offers, NoOffers, NoFlags

\* With its flags reset a session is still a session.
LEMMA ResetType ==
    ASSUME TradeAssumption, TypeOK, NEW e \in Entity,
           mine[e] \in Session, e \in Sides(mine[e]), ResetFlags(e)
    PROVE  session' \in [Session -> TradeSession \cup {Unused}]
<1>1. [session[mine[e]] EXCEPT !.confirmed = NoFlags] \in TradeSession
  BY SidesType, NothingType DEF TradeSession
<1>2. session \in [Session -> TradeSession \cup {Unused}]
  BY DEF TypeOK
<1>3. session' = [session EXCEPT ![mine[e]] = [session[mine[e]] EXCEPT !.confirmed = NoFlags]]
  BY DEF ResetFlags
<1> QED
  BY <1>1, <1>2, <1>3

\* Every step keeps every variable in its type.
LEMMA TypeStep ==
    ASSUME TradeAssumption, TypeOK, PlayersAreSides, [Next]_vars
    PROVE  TypeOK'
<1> USE DEF TradeAssumption, maps, Goto
<1>1. CASE UNCHANGED vars
  BY <1>1 DEF vars, TypeOK
<1>2. ASSUME NEW e \in Entity, Handle(e) \/ Request(e)
      PROVE  TypeOK'
  <2>1. CASE OpenForRequester(e)
    <3>1. mine[e] \in Session /\ e \in Sides(mine[e])
      BY <2>1 DEF OpenForRequester, PlayersAreSides, Opening, Engaged
    <3> QED
      BY <2>1, <3>1, SidesType, ReturnType DEF OpenForRequester, TypeOK
  <2>2. CASE OpenForSelf(e)
    <3>1. mine[e] \in Session
      BY <2>2 DEF OpenForSelf, PlayersAreSides, Opening
    <3> QED
      BY <2>2, <3>1, ReturnType DEF OpenForSelf, TypeOK
  <2>3. ASSUME NEW o \in Offer, ChangeOffer(e, o)
        PROVE  TypeOK'
    <3>1. mine[e] \in Session /\ e \in Sides(mine[e])
      BY <2>3 DEF ChangeOffer, PlayersAreSides, Engaged
    <3>2. [session[mine[e]].offer EXCEPT ![e] = o] \in Offers
      BY <3>1, SidesType DEF Offers
    <3>3. session' \in [Session -> TradeSession \cup {Unused}]
      <4>1. session' = [session EXCEPT ![mine[e]] =
                [session[mine[e]] EXCEPT !.offer = [session[mine[e]].offer EXCEPT ![e] = o],
                                         !.confirmed = NoFlags]]
        BY <2>3, <3>1, SidesType DEF ChangeOffer, TypeOK, TradeSession
      <4> QED
        BY <4>1, <3>1, <3>2, SidesType, SetType, NothingType DEF TypeOK
    <3> QED
      BY <2>3, <3>3, ReturnType DEF ChangeOffer, TypeOK
  <2>4. CASE Confirm(e)
    <3>1. mine[e] \in Session /\ e \in Sides(mine[e])
      BY <2>4 DEF Confirm, PlayersAreSides, Engaged
    <3>2. [session[mine[e]].confirmed EXCEPT ![e] = session[mine[e]].offer]
            \in [Entity -> Offers \cup {None}]
      BY <3>1, SidesType
    <3>3. session' \in [Session -> TradeSession \cup {Unused}]
      <4>1. session' = [session EXCEPT ![mine[e]] =
                [session[mine[e]] EXCEPT !.offer = session[mine[e]].offer,
                   !.confirmed = [session[mine[e]].confirmed EXCEPT ![e] = session[mine[e]].offer]]]
        BY <2>4, <3>1, SidesType DEF Confirm, TypeOK, TradeSession
      <4> QED
        BY <4>1, <3>1, <3>2, SidesType, SetType DEF TypeOK
    <3>4. CASE Return(e)
      BY <2>4, <3>3, <3>4, ReturnType DEF Confirm, TypeOK
    <3>5. CASE ~Return(e)
      BY <2>4, <3>1, <3>3, <3>5, SidesType DEF Confirm, TypeOK
    <3> QED
      BY <3>4, <3>5
  <2>5. CASE ReadOffers(e)
    <3>1. mine[e] \in Session /\ e \in Sides(mine[e])
      BY <2>5 DEF ReadOffers, PlayersAreSides, Engaged
    <3> QED
      BY <2>5, <3>1, SidesType DEF ReadOffers, TypeOK
  <2>6. CASE FindCharacters(e)
    <3>1. mine[e] \in Session /\ e \in Sides(mine[e])
      BY <2>6 DEF FindCharacters, PlayersAreSides, Engaged
    <3>2. ASSUME ResetFlags(e) PROVE session' \in [Session -> TradeSession \cup {Unused}]
      BY <3>1, <3>2, ResetType
    <3> QED
      BY <2>6, <3>2, ReturnType DEF FindCharacters, TypeOK
  <2>7. CASE Execute(e)
    BY <2>7 DEF Execute, TypeOK, PlayersAreSides, Engaged
  <2>8. CASE ExecutionFails(e)
    <3>1. mine[e] \in Session /\ e \in Sides(mine[e])
      BY <2>8 DEF ExecutionFails, PlayersAreSides, Engaged
    <3>2. ASSUME ResetFlags(e) PROVE session' \in [Session -> TradeSession \cup {Unused}]
      BY <3>1, <3>2, ResetType
    <3> QED
      BY <2>8, <3>2, ReturnType DEF ExecutionFails, TypeOK
  <2>9. CASE CloseFirstKey(e)
    <3>1. mine[e] \in Session /\ e \in Sides(mine[e])
      BY <2>9 DEF CloseFirstKey, PlayersAreSides, Opening, Engaged
    <3> QED
      BY <2>9, <3>1, SidesType, ReturnType DEF CloseFirstKey, TypeOK
  <2>10. CASE CloseSecondKey(e)
    <3>1. mine[e] \in Session /\ e \in Sides(mine[e])
      BY <2>10 DEF CloseSecondKey, PlayersAreSides, Opening, Engaged
    <3> QED
      BY <2>10, <3>1, SidesType, ReturnType DEF CloseSecondKey, TypeOK
  <2>11. CASE CancelOther(e)
    <3>1. mine[e] \in Session /\ e \in Sides(mine[e])
      BY <2>11 DEF CancelOther, PlayersAreSides, Opening, Engaged
    <3> QED
      BY <2>11, <3>1, SidesType, ReturnType DEF CancelOther, TypeOK
  <2>12. CASE DropTrade(e)
    BY <2>12 DEF DropTrade, TypeOK
  <2>13. CASE DropOther(e)
    <3>1. mine[e] \in Session /\ e \in Sides(mine[e])
      BY <2>13 DEF DropOther, PlayersAreSides, Opening, Engaged
    <3> QED
      BY <2>13, <3>1, SidesType, ReturnType DEF DropOther, TypeOK
  <2>14. ASSUME NEW f \in Entity, TradeRequest(e, f)
        PROVE  TypeOK'
    BY <2>14 DEF TradeRequest, TypeOK
  <2>15. CASE Decline(e)
    BY <2>15 DEF Decline, TypeOK
  <2>16. ASSUME NEW s \in Session, Accept(e, s)
        PROVE  TypeOK'
    <3>1. /\ pending_trade_requests[e] \in Entity /\ pending_trade_requests[e] # e
          /\ session[s] = Unused
      BY <2>16 DEF Accept, TypeOK, PlayersAreSides
    <3>2. session'[s] \in TradeSession
      BY <2>16, <3>1, NothingType DEF Accept, TypeOK, Unused, TradeSession
    <3> QED
      BY <2>16, <3>2 DEF Accept, TypeOK
  <2>17. CASE LookUp(e)
    BY <2>17 DEF LookUp, TypeOK
  <2>18. CASE TradeCancel(e)
    BY <2>18 DEF TradeCancel, TypeOK
  <2>19. CASE Disconnect(e)
    BY <2>19 DEF Disconnect, TypeOK
  <2>20. CASE Fail(e)
    BY <2>20 DEF Fail, TypeOK
  <2> QED
    BY <1>2,
       <2>1, <2>2, <2>3, <2>4, <2>5, <2>6, <2>7, <2>8, <2>9, <2>10, <2>11, <2>12,
       <2>13, <2>14, <2>15, <2>16, <2>17, <2>18, <2>19, <2>20
    DEF Handle, Request
<1> QED
  BY <1>1, <1>2 DEF Next

\* A handler is done with its message, and no other is touched.
Returns(e) ==
    /\ pc'[e] = "idle" /\ mine'[e] = None
    /\ \A f \in Entity \ {e} :
         /\ pc'[f] = pc[f] /\ mine'[f] = mine[f]
         /\ input'[f] = input[f] /\ agreed'[f] = agreed[f]

\* A handler gives its session these offers and flags, and leaves all else.
Sets(e, offer, confirmed) ==
    /\ mine[e] \in Session /\ e \in Sides(mine[e])
    /\ session'[mine[e]].a = session[mine[e]].a
    /\ session'[mine[e]].b = session[mine[e]].b
    /\ session'[mine[e]] # Unused
    /\ session'[mine[e]].offer = offer
    /\ session'[mine[e]].confirmed = confirmed
    /\ \A s \in Session \ {mine[e]} : session'[s] = session[s]
    /\ UNCHANGED <<entity_characters, pending_trade_requests, active_trades, executed>>

LEMMA Returned == ASSUME TypeOK, NEW e \in Entity, Return(e) PROVE Returns(e)
BY DEF Return, Goto, TypeOK, Returns

LEMMA OfferChanged ==
    ASSUME TradeAssumption, TypeOK, PlayersAreSides,
           NEW e \in Entity, NEW o \in Offer, ChangeOffer(e, o)
    PROVE  /\ pc[e] = "offering" /\ Returns(e)
           /\ Sets(e, [session[mine[e]].offer EXCEPT ![e] = o], NoFlags)
<1>1. mine[e] \in Session /\ e \in Sides(mine[e]) /\ pc[e] = "offering"
  BY DEF ChangeOffer, PlayersAreSides, Engaged
<1>2. session[mine[e]] \in TradeSession /\ session[mine[e]].a # None
  BY <1>1, SidesType DEF TradeAssumption
<1>3. /\ session'[mine[e]].a = session[mine[e]].a
      /\ session'[mine[e]].b = session[mine[e]].b
      /\ session'[mine[e]].offer = [session[mine[e]].offer EXCEPT ![e] = o]
      /\ session'[mine[e]].confirmed = NoFlags
      /\ \A s \in Session \ {mine[e]} : session'[s] = session[s]
  BY <1>1, <1>2 DEF ChangeOffer, TypeOK, TradeSession
<1>4. session'[mine[e]] # Unused
  BY <1>2, <1>3 DEF Unused
<1> QED
  BY <1>1, <1>3, <1>4, Returned DEF ChangeOffer, maps, Sets

LEMMA Confirmed ==
    ASSUME TradeAssumption, TypeOK, PlayersAreSides, NEW e \in Entity, Confirm(e)
    PROVE  /\ pc[e] = "confirming"
           /\ Sets(e, session[mine[e]].offer,
                   [session[mine[e]].confirmed EXCEPT ![e] = session[mine[e]].offer])
           /\ \/ session[mine[e]].confirmed[Other(mine[e], e)] = None /\ Returns(e)
              \/ /\ session[mine[e]].confirmed[Other(mine[e], e)] # None
                 /\ agreed' = [agreed EXCEPT ![e] = session[mine[e]].offer]
                 /\ pc' = [pc EXCEPT ![e] = "reading"] /\ UNCHANGED <<mine, input>>
<1>1. mine[e] \in Session /\ e \in Sides(mine[e]) /\ pc[e] = "confirming"
  BY DEF Confirm, PlayersAreSides, Engaged
<1>2. session[mine[e]] \in TradeSession /\ session[mine[e]].a # None
  BY <1>1, SidesType DEF TradeAssumption
<1>3. /\ session'[mine[e]].a = session[mine[e]].a
      /\ session'[mine[e]].b = session[mine[e]].b
      /\ session'[mine[e]].offer = session[mine[e]].offer
      /\ session'[mine[e]].confirmed =
           [session[mine[e]].confirmed EXCEPT ![e] = session[mine[e]].offer]
      /\ \A s \in Session \ {mine[e]} : session'[s] = session[s]
  BY <1>1, <1>2 DEF Confirm, TypeOK, TradeSession
<1>4. session'[mine[e]] # Unused
  BY <1>2, <1>3 DEF Unused
<1> QED
  BY <1>1, <1>3, <1>4, Returned DEF Confirm, Goto, maps, Sets

LEMMA Reset ==
    ASSUME TradeAssumption, TypeOK, NEW e \in Entity,
           mine[e] \in Session, e \in Sides(mine[e]), ResetFlags(e), UNCHANGED <<maps,
                 executed>>
    PROVE  Sets(e, session[mine[e]].offer, NoFlags)
<1>1. session[mine[e]] \in TradeSession /\ session[mine[e]].a # None
  BY SidesType DEF TradeAssumption
<1>2. /\ session'[mine[e]].a = session[mine[e]].a
      /\ session'[mine[e]].b = session[mine[e]].b
      /\ session'[mine[e]].offer = session[mine[e]].offer
      /\ session'[mine[e]].confirmed = NoFlags
      /\ \A s \in Session \ {mine[e]} : session'[s] = session[s]
  BY <1>1 DEF ResetFlags, TypeOK, TradeSession
<1> QED
  BY <1>1, <1>2 DEF Unused, maps, Sets

\* A failed execution, and a FindCharacters that finds one gone, reset and return.
LEMMA Failed ==
    ASSUME TradeAssumption, TypeOK, PlayersAreSides, NEW e \in Entity, ExecutionFails(e)
    PROVE  /\ pc[e] = "executing" /\ Returns(e)
           /\ Sets(e, session[mine[e]].offer, NoFlags)
<1>1. mine[e] \in Session /\ e \in Sides(mine[e]) /\ pc[e] = "executing"
  BY DEF ExecutionFails, PlayersAreSides, Engaged
<1> QED
  BY <1>1, Reset, Returned DEF ExecutionFails

LEMMA Found ==
    ASSUME TradeAssumption, TypeOK, PlayersAreSides, NEW e \in Entity, FindCharacters(e)
    PROVE  /\ mine[e] \in Session /\ e \in Sides(mine[e]) /\ pc[e] = "finding"
           /\ \/ Returns(e) /\ Sets(e, session[mine[e]].offer, NoFlags)
              \/ /\ pc' = [pc EXCEPT ![e] = "executing"]
                 /\ UNCHANGED <<maps, session, mine, input, agreed, executed>>
<1>1. mine[e] \in Session /\ e \in Sides(mine[e]) /\ pc[e] = "finding"
  BY DEF FindCharacters, PlayersAreSides, Engaged
<1> QED
  BY <1>1, Reset, Returned DEF FindCharacters, Goto

\* An accepted request makes a session that nobody knew of.
Makes(e, s) ==
    /\ session[s] = Unused /\ session'[s] # Unused
    /\ session'[s].a \in Entity /\ session'[s].a # e /\ session'[s].b = e
    /\ session'[s].offer = NoOffers /\ session'[s].confirmed = NoFlags
    /\ \A t \in Session \ {s} : session'[t] = session[t]
    /\ \A f \in Entity : active_trades[f] # s
    /\ \A f \in Entity : pc[f] \in Opening \cup Engaged => mine[f] # s
    /\ \A f \in Entity \ {e} : pc'[f] = pc[f] /\ mine'[f] = mine[f]
    /\ pc[e] = "idle" /\ pc'[e] = "opening" /\ mine'[e] = s
    /\ UNCHANGED <<entity_characters, active_trades, input, agreed, executed>>
    /\ pending_trade_requests' = [pending_trade_requests EXCEPT ![e] = None]

LEMMA Accepted ==
    ASSUME TradeAssumption, TypeOK, PlayersAreSides,
           NEW e \in Entity, NEW s \in Session, Accept(e, s)
    PROVE  Makes(e, s)
<1> DEFINE requester == pending_trade_requests[e]
<1>1. requester \in Entity /\ requester # e /\ session[s] = Unused
  BY DEF Accept, TypeOK, PlayersAreSides
<1>2. /\ session'[s].a = requester /\ session'[s].b = e
      /\ session'[s].offer = NoOffers /\ session'[s].confirmed = NoFlags
      /\ \A t \in Session \ {s} : session'[t] = session[t]
  BY <1>1 DEF Accept, TypeOK, Unused
<1>3. session'[s] # Unused
  BY <1>1, <1>2 DEF Unused, TradeAssumption
<1>4. \A f \in Entity : f \notin Sides(s)
  BY <1>1, SidesType
<1>5. \A f \in Entity : active_trades[f] # s /\ (pc[f] \in Opening \cup Engaged => mine[f] # s)
  BY <1>4, TradeAssumption DEF TradeAssumption, PlayersAreSides
<1> QED
  BY <1>1, <1>2, <1>3, <1>5 DEF Accept, Goto, TypeOK, Makes


\* A session keeps its sides, and whoever comes to be busy with it is one of them.
LEMMA SidesStep ==
    ASSUME TradeAssumption, TypeOK, PlayersAreSides, [Next]_vars
    PROVE  PlayersAreSides'
<1> USE DEF TradeAssumption, maps, Goto
<1>1. CASE UNCHANGED vars
  BY <1>1 DEF vars, TypeOK, PlayersAreSides, Sides, Other, Opening, Engaged
<1>2. ASSUME NEW e \in Entity, Handle(e) \/ Request(e)
      PROVE  PlayersAreSides'
  <2>1. CASE OpenForRequester(e)
    BY <2>1 DEF OpenForRequester, TypeOK, PlayersAreSides, Sides, Other, Opening,
                Engaged
  <2>2. CASE OpenForSelf(e)
    BY <2>2 DEF OpenForSelf, Return, TypeOK, PlayersAreSides, Sides, Other, Opening,
                Engaged
  <2>3. ASSUME NEW o \in Offer, ChangeOffer(e, o)
        PROVE  PlayersAreSides'
    <3>1. /\ pc[e] = "offering" /\ Returns(e)
          /\ Sets(e, [session[mine[e]].offer EXCEPT ![e] = o], NoFlags)
      BY <2>3, OfferChanged
    <3> QED
      BY <3>1 DEF Returns, Sets, TypeOK, PlayersAreSides, Sides, Opening, Engaged
  <2>4. CASE Confirm(e)
    <3>1. /\ pc[e] = "confirming"
          /\ Sets(e, session[mine[e]].offer,
                  [session[mine[e]].confirmed EXCEPT ![e] = session[mine[e]].offer])
          /\ \/ session[mine[e]].confirmed[Other(mine[e], e)] = None /\ Returns(e)
             \/ /\ session[mine[e]].confirmed[Other(mine[e], e)] # None
                /\ agreed' = [agreed EXCEPT ![e] = session[mine[e]].offer]
                /\ pc' = [pc EXCEPT ![e] = "reading"] /\ UNCHANGED <<mine, input>>
      BY <2>4, Confirmed
    <3>2. /\ session[mine[e]].confirmed \in [Entity -> Offers \cup {None}]
          /\ session[mine[e]].offer # None
          /\ Other(mine[e], e) # e /\ Other(mine[e], e) \in Sides(mine[e])
      BY <3>1, SidesType DEF Sets, Offers
    <3> QED
      BY <3>1, <3>2 DEF Returns, Sets, TypeOK, PlayersAreSides, Sides, Opening, Engaged
  <2>5. CASE ReadOffers(e)
    BY <2>5 DEF ReadOffers, TypeOK, PlayersAreSides, Sides, Other, Opening, Engaged
  <2>6. CASE FindCharacters(e)
    <3>1. /\ mine[e] \in Session /\ e \in Sides(mine[e]) /\ pc[e] = "finding"
          /\ \/ Returns(e) /\ Sets(e, session[mine[e]].offer, NoFlags)
             \/ /\ pc' = [pc EXCEPT ![e] = "executing"]
                /\ UNCHANGED <<maps, session, mine, input, agreed, executed>>
      BY <2>6, Found
    <3> QED
      BY <3>1 DEF Returns, Sets, TypeOK, PlayersAreSides, Sides, Opening, Engaged
  <2>7. CASE Execute(e)
    BY <2>7 DEF Execute, TypeOK, PlayersAreSides, Sides, Other, Opening, Engaged
  <2>8. CASE ExecutionFails(e)
    <3>1. /\ pc[e] = "executing" /\ Returns(e)
          /\ Sets(e, session[mine[e]].offer, NoFlags)
      BY <2>8, Failed
    <3> QED
      BY <3>1 DEF Returns, Sets, TypeOK, PlayersAreSides, Sides, Opening, Engaged
  <2>9. CASE CloseFirstKey(e)
    BY <2>9 DEF CloseFirstKey, TypeOK, PlayersAreSides, Sides, Other, Opening, Engaged
  <2>10. CASE CloseSecondKey(e)
    BY <2>10 DEF CloseSecondKey, Return, TypeOK, PlayersAreSides, Sides, Other,
                 Opening, Engaged
  <2>11. CASE CancelOther(e)
    BY <2>11 DEF CancelOther, Return, TypeOK, PlayersAreSides, Sides, Other, Opening,
                 Engaged
  <2>12. CASE DropTrade(e)
    BY <2>12 DEF DropTrade, TypeOK, PlayersAreSides, Sides, Other, Opening, Engaged
  <2>13. CASE DropOther(e)
    BY <2>13 DEF DropOther, TypeOK, PlayersAreSides, Sides, Other, Opening, Engaged
  <2>14. ASSUME NEW f \in Entity, TradeRequest(e, f)
        PROVE  PlayersAreSides'
    BY <2>14 DEF TradeRequest, TypeOK, PlayersAreSides, Sides, Other, Opening, Engaged
  <2>15. CASE Decline(e)
    BY <2>15 DEF Decline, TypeOK, PlayersAreSides, Sides, Other, Opening, Engaged
  <2>16. ASSUME NEW s \in Session, Accept(e, s)
        PROVE  PlayersAreSides'
    <3>1. Makes(e, s)
      BY <2>16, Accepted
    <3> QED
      BY <3>1 DEF Makes, TypeOK, PlayersAreSides, Sides, Opening, Engaged
  <2>17. CASE LookUp(e)
    BY <2>17 DEF LookUp, TypeOK, PlayersAreSides, Sides, Other, Opening, Engaged
  <2>18. CASE TradeCancel(e)
    BY <2>18 DEF TradeCancel, TypeOK, PlayersAreSides, Sides, Other, Opening, Engaged
  <2>19. CASE Disconnect(e)
    BY <2>19 DEF Disconnect, TypeOK, PlayersAreSides, Sides, Other, Opening, Engaged
  <2>20. CASE Fail(e)
    BY <2>20 DEF Fail, TypeOK, PlayersAreSides, Sides, Other, Opening, Engaged
  <2> QED
    BY <1>2,
       <2>1, <2>2, <2>3, <2>4, <2>5, <2>6, <2>7, <2>8, <2>9, <2>10, <2>11, <2>12,
       <2>13, <2>14, <2>15, <2>16, <2>17, <2>18, <2>19, <2>20
    DEF Handle, Request
<1> QED
  BY <1>1, <1>2 DEF Next

\* A flag that is set, or that stays set, is of the offers as they are.
LEMMA CurrentStep ==
    ASSUME TradeAssumption, TypeOK, PlayersAreSides, ConfirmationIsCurrent, [Next]_vars
    PROVE  ConfirmationIsCurrent'
<1> USE DEF TradeAssumption, maps, Goto
<1>1. CASE UNCHANGED vars
  BY <1>1 DEF vars, TypeOK, ConfirmationIsCurrent, NoFlags
<1>2. ASSUME NEW e \in Entity, Handle(e) \/ Request(e)
      PROVE  ConfirmationIsCurrent'
  <2>1. CASE OpenForRequester(e)
    BY <2>1 DEF OpenForRequester, TypeOK, ConfirmationIsCurrent, NoFlags
  <2>2. CASE OpenForSelf(e)
    BY <2>2 DEF OpenForSelf, Return, TypeOK, ConfirmationIsCurrent, NoFlags
  <2>3. ASSUME NEW o \in Offer, ChangeOffer(e, o)
        PROVE  ConfirmationIsCurrent'
    <3>1. /\ pc[e] = "offering" /\ Returns(e)
          /\ Sets(e, [session[mine[e]].offer EXCEPT ![e] = o], NoFlags)
      BY <2>3, OfferChanged
    <3> QED
      BY <3>1 DEF Returns, Sets, TypeOK, ConfirmationIsCurrent, NoFlags
  <2>4. CASE Confirm(e)
    <3>1. /\ pc[e] = "confirming"
          /\ Sets(e, session[mine[e]].offer,
                  [session[mine[e]].confirmed EXCEPT ![e] = session[mine[e]].offer])
          /\ \/ session[mine[e]].confirmed[Other(mine[e], e)] = None /\ Returns(e)
             \/ /\ session[mine[e]].confirmed[Other(mine[e], e)] # None
                /\ agreed' = [agreed EXCEPT ![e] = session[mine[e]].offer]
                /\ pc' = [pc EXCEPT ![e] = "reading"] /\ UNCHANGED <<mine, input>>
      BY <2>4, Confirmed
    <3>2. /\ session[mine[e]].confirmed \in [Entity -> Offers \cup {None}]
          /\ session[mine[e]].offer # None
          /\ Other(mine[e], e) # e /\ Other(mine[e], e) \in Sides(mine[e])
      BY <3>1, SidesType DEF Sets, Offers
    <3> QED
      BY <3>1, <3>2 DEF Returns, Sets, TypeOK, ConfirmationIsCurrent, NoFlags
  <2>5. CASE ReadOffers(e)
    BY <2>5 DEF ReadOffers, TypeOK, ConfirmationIsCurrent, NoFlags
  <2>6. CASE FindCharacters(e)
    <3>1. /\ mine[e] \in Session /\ e \in Sides(mine[e]) /\ pc[e] = "finding"
          /\ \/ Returns(e) /\ Sets(e, session[mine[e]].offer, NoFlags)
             \/ /\ pc' = [pc EXCEPT ![e] = "executing"]
                /\ UNCHANGED <<maps, session, mine, input, agreed, executed>>
      BY <2>6, Found
    <3> QED
      BY <3>1 DEF Returns, Sets, TypeOK, ConfirmationIsCurrent, NoFlags
  <2>7. CASE Execute(e)
    BY <2>7 DEF Execute, TypeOK, ConfirmationIsCurrent, NoFlags
  <2>8. CASE ExecutionFails(e)
    <3>1. /\ pc[e] = "executing" /\ Returns(e)
          /\ Sets(e, session[mine[e]].offer, NoFlags)
      BY <2>8, Failed
    <3> QED
      BY <3>1 DEF Returns, Sets, TypeOK, ConfirmationIsCurrent, NoFlags
  <2>9. CASE CloseFirstKey(e)
    BY <2>9 DEF CloseFirstKey, TypeOK, ConfirmationIsCurrent, NoFlags
  <2>10. CASE CloseSecondKey(e)
    BY <2>10 DEF CloseSecondKey, Return, TypeOK, ConfirmationIsCurrent, NoFlags
  <2>11. CASE CancelOther(e)
    BY <2>11 DEF CancelOther, Return, TypeOK, ConfirmationIsCurrent, NoFlags
  <2>12. CASE DropTrade(e)
    BY <2>12 DEF DropTrade, TypeOK, ConfirmationIsCurrent, NoFlags
  <2>13. CASE DropOther(e)
    BY <2>13 DEF DropOther, TypeOK, ConfirmationIsCurrent, NoFlags
  <2>14. ASSUME NEW f \in Entity, TradeRequest(e, f)
        PROVE  ConfirmationIsCurrent'
    BY <2>14 DEF TradeRequest, TypeOK, ConfirmationIsCurrent, NoFlags
  <2>15. CASE Decline(e)
    BY <2>15 DEF Decline, TypeOK, ConfirmationIsCurrent, NoFlags
  <2>16. ASSUME NEW s \in Session, Accept(e, s)
        PROVE  ConfirmationIsCurrent'
    <3>1. Makes(e, s)
      BY <2>16, Accepted
    <3> QED
      BY <3>1 DEF Makes, TypeOK, ConfirmationIsCurrent, NoFlags
  <2>17. CASE LookUp(e)
    BY <2>17 DEF LookUp, TypeOK, ConfirmationIsCurrent, NoFlags
  <2>18. CASE TradeCancel(e)
    BY <2>18 DEF TradeCancel, TypeOK, ConfirmationIsCurrent, NoFlags
  <2>19. CASE Disconnect(e)
    BY <2>19 DEF Disconnect, TypeOK, ConfirmationIsCurrent, NoFlags
  <2>20. CASE Fail(e)
    BY <2>20 DEF Fail, TypeOK, ConfirmationIsCurrent, NoFlags
  <2> QED
    BY <1>2,
       <2>1, <2>2, <2>3, <2>4, <2>5, <2>6, <2>7, <2>8, <2>9, <2>10, <2>11, <2>12,
       <2>13, <2>14, <2>15, <2>16, <2>17, <2>18, <2>19, <2>20
    DEF Handle, Request
<1> QED
  BY <1>1, <1>2 DEF Next

\* Only a handler changes its side's offer, and not while it executes.
LEMMA OwnOfferStep ==
    ASSUME TradeAssumption, TypeOK, PlayersAreSides, OwnOfferStays, [Next]_vars
    PROVE  OwnOfferStays'
<1> USE DEF TradeAssumption, maps, Goto
<1>1. CASE UNCHANGED vars
  BY <1>1 DEF vars, TypeOK, OwnOfferStays, Executors
<1>2. ASSUME NEW e \in Entity, Handle(e) \/ Request(e)
      PROVE  OwnOfferStays'
  <2>1. CASE OpenForRequester(e)
    BY <2>1 DEF OpenForRequester, TypeOK, OwnOfferStays, Executors
  <2>2. CASE OpenForSelf(e)
    BY <2>2 DEF OpenForSelf, Return, TypeOK, OwnOfferStays, Executors
  <2>3. ASSUME NEW o \in Offer, ChangeOffer(e, o)
        PROVE  OwnOfferStays'
    <3>1. /\ pc[e] = "offering" /\ Returns(e)
          /\ Sets(e, [session[mine[e]].offer EXCEPT ![e] = o], NoFlags)
      BY <2>3, OfferChanged
    <3>2. \A f \in Entity \ {e} :
            [session[mine[e]].offer EXCEPT ![e] = o][f] = session[mine[e]].offer[f]
      BY <3>1, SidesType DEF Sets, Offers
    <3>3. \A f \in Entity : pc'[f] \in Executors =>
            f # e /\ pc[f] \in Executors /\ mine[f] \in Session
      BY <3>1 DEF Returns, PlayersAreSides, Executors, Engaged
    <3>4. \A f \in Entity : pc'[f] \in Executors =>
            session'[mine[f]].offer[f] = session[mine[f]].offer[f]
      <4>1. ASSUME NEW f \in Entity, pc'[f] \in Executors, mine[f] = mine[e]
            PROVE  session'[mine[f]].offer[f] = session[mine[f]].offer[f]
        <5>1. session'[mine[e]].offer = [session[mine[e]].offer EXCEPT ![e] = o]
          BY <3>1 DEF Sets
        <5>2. f \in Entity \ {e}
          BY <3>3, <4>1
        <5> QED
          BY <3>2, <4>1, <5>1, <5>2
      <4>2. ASSUME NEW f \in Entity, pc'[f] \in Executors, mine[f] # mine[e]
            PROVE  session'[mine[f]] = session[mine[f]]
        BY <3>1, <3>3, <4>2 DEF Sets
      <4> QED
        BY <4>1, <4>2
    <3> QED
      BY <3>1, <3>3, <3>4 DEF Returns, OwnOfferStays, Executors
  <2>4. CASE Confirm(e)
    <3>1. /\ pc[e] = "confirming"
          /\ Sets(e, session[mine[e]].offer,
                  [session[mine[e]].confirmed EXCEPT ![e] = session[mine[e]].offer])
          /\ \/ session[mine[e]].confirmed[Other(mine[e], e)] = None /\ Returns(e)
             \/ /\ session[mine[e]].confirmed[Other(mine[e], e)] # None
                /\ agreed' = [agreed EXCEPT ![e] = session[mine[e]].offer]
                /\ pc' = [pc EXCEPT ![e] = "reading"] /\ UNCHANGED <<mine, input>>
      BY <2>4, Confirmed
    <3>2. /\ session[mine[e]].confirmed \in [Entity -> Offers \cup {None}]
          /\ session[mine[e]].offer # None
          /\ Other(mine[e], e) # e /\ Other(mine[e], e) \in Sides(mine[e])
      BY <3>1, SidesType DEF Sets, Offers
    <3>3. CASE Returns(e)
      BY <3>1, <3>3 DEF Returns, Sets, TypeOK, OwnOfferStays, Executors,
            PlayersAreSides, Engaged
    <3>4. CASE /\ agreed' = [agreed EXCEPT ![e] = session[mine[e]].offer]
               /\ pc' = [pc EXCEPT ![e] = "reading"] /\ UNCHANGED <<mine, input>>
      <4>1. \A f \in Entity : pc'[f] \in Executors => session'[mine[f]].offer = session[mine[f]].offer
        BY <3>1, <3>4 DEF Sets, TypeOK, PlayersAreSides, Executors, Engaged
      <4>2. agreed'[e] = session[mine[e]].offer /\ pc'[e] = "reading"
        BY <3>4 DEF TypeOK
      <4>3. \A f \in Entity \ {e} : agreed'[f] = agreed[f] /\ pc'[f] = pc[f]
        BY <3>4 DEF TypeOK
      <4> QED
        BY <3>4, <4>1, <4>2, <4>3 DEF OwnOfferStays, Executors
    <3> QED
      BY <3>1, <3>3, <3>4
  <2>5. CASE ReadOffers(e)
    BY <2>5 DEF ReadOffers, TypeOK, OwnOfferStays, Executors
  <2>6. CASE FindCharacters(e)
    <3>1. /\ mine[e] \in Session /\ e \in Sides(mine[e]) /\ pc[e] = "finding"
          /\ \/ Returns(e) /\ Sets(e, session[mine[e]].offer, NoFlags)
             \/ /\ pc' = [pc EXCEPT ![e] = "executing"]
                /\ UNCHANGED <<maps, session, mine, input, agreed, executed>>
      BY <2>6, Found
    <3> QED
      BY <3>1 DEF Returns, Sets, TypeOK, OwnOfferStays, Executors, PlayersAreSides,
            Engaged
  <2>7. CASE Execute(e)
    BY <2>7 DEF Execute, TypeOK, OwnOfferStays, Executors
  <2>8. CASE ExecutionFails(e)
    <3>1. /\ pc[e] = "executing" /\ Returns(e)
          /\ Sets(e, session[mine[e]].offer, NoFlags)
      BY <2>8, Failed
    <3> QED
      BY <3>1 DEF Returns, Sets, TypeOK, OwnOfferStays, Executors, PlayersAreSides,
            Engaged
  <2>9. CASE CloseFirstKey(e)
    BY <2>9 DEF CloseFirstKey, TypeOK, OwnOfferStays, Executors
  <2>10. CASE CloseSecondKey(e)
    BY <2>10 DEF CloseSecondKey, Return, TypeOK, OwnOfferStays, Executors
  <2>11. CASE CancelOther(e)
    BY <2>11 DEF CancelOther, Return, TypeOK, OwnOfferStays, Executors
  <2>12. CASE DropTrade(e)
    BY <2>12 DEF DropTrade, TypeOK, OwnOfferStays, Executors
  <2>13. CASE DropOther(e)
    BY <2>13 DEF DropOther, TypeOK, OwnOfferStays, Executors
  <2>14. ASSUME NEW f \in Entity, TradeRequest(e, f)
        PROVE  OwnOfferStays'
    BY <2>14 DEF TradeRequest, TypeOK, OwnOfferStays, Executors
  <2>15. CASE Decline(e)
    BY <2>15 DEF Decline, TypeOK, OwnOfferStays, Executors
  <2>16. ASSUME NEW s \in Session, Accept(e, s)
        PROVE  OwnOfferStays'
    <3>1. Makes(e, s)
      BY <2>16, Accepted
    <3> QED
      BY <3>1 DEF Makes, TypeOK, OwnOfferStays, Executors, PlayersAreSides, Engaged
  <2>17. CASE LookUp(e)
    BY <2>17 DEF LookUp, TypeOK, OwnOfferStays, Executors
  <2>18. CASE TradeCancel(e)
    BY <2>18 DEF TradeCancel, TypeOK, OwnOfferStays, Executors
  <2>19. CASE Disconnect(e)
    BY <2>19 DEF Disconnect, TypeOK, OwnOfferStays, Executors
  <2>20. CASE Fail(e)
    BY <2>20 DEF Fail, TypeOK, OwnOfferStays, Executors
  <2> QED
    BY <1>2,
       <2>1, <2>2, <2>3, <2>4, <2>5, <2>6, <2>7, <2>8, <2>9, <2>10, <2>11, <2>12,
       <2>13, <2>14, <2>15, <2>16, <2>17, <2>18, <2>19, <2>20
    DEF Handle, Request
<1> QED
  BY <1>1, <1>2 DEF Next

\* Who sets the second flag goes on to execute, and leaves only once it has, or has
\* reset the flags.
LEMMA HandledStep ==
    ASSUME TradeAssumption, TypeOK, PlayersAreSides, ConfirmedTradeIsHandled,
          [Next]_vars
    PROVE  ConfirmedTradeIsHandled'
<1> USE DEF TradeAssumption, maps, Goto
<1>1. CASE UNCHANGED vars
  BY <1>1 DEF vars, TypeOK, PlayersAreSides, Sides, Engaged, Executors,
        ConfirmedTradeIsHandled, BothConfirmed
<1>2. ASSUME NEW e \in Entity, Handle(e) \/ Request(e)
      PROVE  ConfirmedTradeIsHandled'
  <2>1. CASE OpenForRequester(e)
    BY <2>1 DEF OpenForRequester, TypeOK, PlayersAreSides, Sides, Engaged, Executors,
                ConfirmedTradeIsHandled, BothConfirmed
  <2>2. CASE OpenForSelf(e)
    BY <2>2 DEF OpenForSelf, Return, TypeOK, PlayersAreSides, Sides, Engaged,
                Executors, ConfirmedTradeIsHandled, BothConfirmed
  <2>3. ASSUME NEW o \in Offer, ChangeOffer(e, o)
        PROVE  ConfirmedTradeIsHandled'
    <3>1. /\ pc[e] = "offering" /\ Returns(e)
          /\ Sets(e, [session[mine[e]].offer EXCEPT ![e] = o], NoFlags)
      BY <2>3, OfferChanged
    <3> QED
      BY <3>1 DEF Returns, Sets, TypeOK, PlayersAreSides, Sides, Engaged, Executors,
            ConfirmedTradeIsHandled, BothConfirmed, NoFlags, Other, Opening
  <2>4. CASE Confirm(e)
    <3>1. /\ pc[e] = "confirming"
          /\ Sets(e, session[mine[e]].offer,
                  [session[mine[e]].confirmed EXCEPT ![e] = session[mine[e]].offer])
          /\ \/ session[mine[e]].confirmed[Other(mine[e], e)] = None /\ Returns(e)
             \/ /\ session[mine[e]].confirmed[Other(mine[e], e)] # None
                /\ agreed' = [agreed EXCEPT ![e] = session[mine[e]].offer]
                /\ pc' = [pc EXCEPT ![e] = "reading"] /\ UNCHANGED <<mine, input>>
      BY <2>4, Confirmed
    <3>2. /\ session[mine[e]].confirmed \in [Entity -> Offers \cup {None}]
          /\ session[mine[e]].offer # None
          /\ Other(mine[e], e) # e /\ Other(mine[e], e) \in Sides(mine[e])
      BY <3>1, SidesType DEF Sets, Offers
    <3>3. ASSUME NEW t \in Session, BothConfirmed(t)'
          PROVE  \/ t \in executed'
                 \/ \E f \in Entity : mine'[f] = t /\ pc'[f] \in Executors
      <4>1. CASE t = mine[e]
        <5>1. session[t].confirmed[Other(t, e)] # None
          <6>1. session'[t].confirmed[Other(t, e)] = session[t].confirmed[Other(t, e)]
            BY <3>1, <3>2, <4>1, SidesType DEF Sets
          <6>2. session'[t].confirmed[Other(t, e)] # None
            BY <3>1, <3>2, <3>3, <4>1 DEF Sets, BothConfirmed, Sides
          <6> QED
            BY <6>1, <6>2
        <5> QED
          BY <3>1, <4>1, <5>1 DEF TypeOK, Executors
      <4>2. CASE t # mine[e]
        <5>1. BothConfirmed(t)
          BY <3>1, <3>3, <4>2 DEF Sets, BothConfirmed, Sides
        <5>2. \/ t \in executed
              \/ \E f \in Entity \ {e} : mine[f] = t /\ pc[f] \in Executors
          BY <4>2, <5>1 DEF ConfirmedTradeIsHandled, Executors
        <5> QED
          BY <3>1, <5>2 DEF Sets, Returns, TypeOK, Executors
      <4> QED
        BY <4>1, <4>2
    <3> QED
      BY <3>3 DEF ConfirmedTradeIsHandled, Executors
  <2>5. CASE ReadOffers(e)
    BY <2>5 DEF ReadOffers, TypeOK, PlayersAreSides, Sides, Engaged, Executors,
                ConfirmedTradeIsHandled, BothConfirmed
  <2>6. CASE FindCharacters(e)
    <3>1. /\ mine[e] \in Session /\ e \in Sides(mine[e]) /\ pc[e] = "finding"
          /\ \/ Returns(e) /\ Sets(e, session[mine[e]].offer, NoFlags)
             \/ /\ pc' = [pc EXCEPT ![e] = "executing"]
                /\ UNCHANGED <<maps, session, mine, input, agreed, executed>>
      BY <2>6, Found
    <3> QED
      BY <3>1 DEF Returns, Sets, TypeOK, PlayersAreSides, Sides, Engaged, Executors,
            ConfirmedTradeIsHandled, BothConfirmed, NoFlags, Other, Opening
  <2>7. CASE Execute(e)
    BY <2>7 DEF Execute, TypeOK, PlayersAreSides, Sides, Engaged, Executors,
                ConfirmedTradeIsHandled, BothConfirmed
  <2>8. CASE ExecutionFails(e)
    <3>1. /\ pc[e] = "executing" /\ Returns(e)
          /\ Sets(e, session[mine[e]].offer, NoFlags)
      BY <2>8, Failed
    <3> QED
      BY <3>1 DEF Returns, Sets, TypeOK, PlayersAreSides, Sides, Engaged, Executors,
            ConfirmedTradeIsHandled, BothConfirmed, NoFlags, Other, Opening
  <2>9. CASE CloseFirstKey(e)
    BY <2>9 DEF CloseFirstKey, TypeOK, PlayersAreSides, Sides, Engaged, Executors,
                ConfirmedTradeIsHandled, BothConfirmed
  <2>10. CASE CloseSecondKey(e)
    BY <2>10 DEF CloseSecondKey, Return, TypeOK, PlayersAreSides, Sides, Engaged,
                 Executors, ConfirmedTradeIsHandled, BothConfirmed
  <2>11. CASE CancelOther(e)
    BY <2>11 DEF CancelOther, Return, TypeOK, PlayersAreSides, Sides, Engaged,
                 Executors, ConfirmedTradeIsHandled, BothConfirmed
  <2>12. CASE DropTrade(e)
    BY <2>12 DEF DropTrade, TypeOK, PlayersAreSides, Sides, Engaged, Executors,
                 ConfirmedTradeIsHandled, BothConfirmed
  <2>13. CASE DropOther(e)
    BY <2>13 DEF DropOther, TypeOK, PlayersAreSides, Sides, Engaged, Executors,
                 ConfirmedTradeIsHandled, BothConfirmed
  <2>14. ASSUME NEW f \in Entity, TradeRequest(e, f)
        PROVE  ConfirmedTradeIsHandled'
    BY <2>14 DEF TradeRequest, TypeOK, PlayersAreSides, Sides, Engaged, Executors,
                 ConfirmedTradeIsHandled, BothConfirmed
  <2>15. CASE Decline(e)
    BY <2>15 DEF Decline, TypeOK, PlayersAreSides, Sides, Engaged, Executors,
                 ConfirmedTradeIsHandled, BothConfirmed
  <2>16. ASSUME NEW s \in Session, Accept(e, s)
        PROVE  ConfirmedTradeIsHandled'
    <3>1. Makes(e, s)
      BY <2>16, Accepted
    <3> QED
      BY <3>1 DEF Makes, TypeOK, PlayersAreSides, Sides, Engaged, Executors,
            ConfirmedTradeIsHandled, BothConfirmed, NoFlags, Other, Opening
  <2>17. CASE LookUp(e)
    BY <2>17 DEF LookUp, TypeOK, PlayersAreSides, Sides, Engaged, Executors,
                 ConfirmedTradeIsHandled, BothConfirmed
  <2>18. CASE TradeCancel(e)
    BY <2>18 DEF TradeCancel, TypeOK, PlayersAreSides, Sides, Engaged, Executors,
                 ConfirmedTradeIsHandled, BothConfirmed
  <2>19. CASE Disconnect(e)
    BY <2>19 DEF Disconnect, TypeOK, PlayersAreSides, Sides, Engaged, Executors,
                 ConfirmedTradeIsHandled, BothConfirmed
  <2>20. CASE Fail(e)
    BY <2>20 DEF Fail, TypeOK, PlayersAreSides, Sides, Engaged, Executors,
                 ConfirmedTradeIsHandled, BothConfirmed
  <2> QED
    BY <1>2,
       <2>1, <2>2, <2>3, <2>4, <2>5, <2>6, <2>7, <2>8, <2>9, <2>10, <2>11, <2>12,
       <2>13, <2>14, <2>15, <2>16, <2>17, <2>18, <2>19, <2>20
    DEF Handle, Request
<1> QED
  BY <1>1, <1>2 DEF Next

\* A side that opens a session does not confirm it, so that nobody executes it.
LEMMA OpeningStep ==
    ASSUME TradeAssumption, TypeOK, PlayersAreSides, ClosersExecuted,
          OpeningUnconfirmed, [Next]_vars
    PROVE  OpeningUnconfirmed'
<1> USE DEF TradeAssumption, maps, Goto
<1>1. CASE UNCHANGED vars
  BY <1>1 DEF vars, TypeOK, PlayersAreSides, Sides, Other, Opening, Engaged, Executors,
        Closers, OpeningUnconfirmed
<1>2. ASSUME NEW e \in Entity, Handle(e) \/ Request(e)
      PROVE  OpeningUnconfirmed'
  <2>1. CASE OpenForRequester(e)
    BY <2>1 DEF OpenForRequester, TypeOK, PlayersAreSides, Sides, Other, Opening,
                Engaged, Executors, Closers, OpeningUnconfirmed
  <2>2. CASE OpenForSelf(e)
    BY <2>2 DEF OpenForSelf, Return, TypeOK, PlayersAreSides, Sides, Other, Opening,
                Engaged, Executors, Closers, OpeningUnconfirmed
  <2>3. ASSUME NEW o \in Offer, ChangeOffer(e, o)
        PROVE  OpeningUnconfirmed'
    <3>1. /\ pc[e] = "offering" /\ Returns(e)
          /\ Sets(e, [session[mine[e]].offer EXCEPT ![e] = o], NoFlags)
      BY <2>3, OfferChanged
    <3> QED
      BY <3>1 DEF Returns, Sets, TypeOK, PlayersAreSides, Sides, Other, Opening,
            Engaged, Executors, Closers, OpeningUnconfirmed, NoFlags, ClosersExecuted
  <2>4. CASE Confirm(e)
    <3>1. /\ pc[e] = "confirming"
          /\ Sets(e, session[mine[e]].offer,
                  [session[mine[e]].confirmed EXCEPT ![e] = session[mine[e]].offer])
          /\ \/ session[mine[e]].confirmed[Other(mine[e], e)] = None /\ Returns(e)
             \/ /\ session[mine[e]].confirmed[Other(mine[e], e)] # None
                /\ agreed' = [agreed EXCEPT ![e] = session[mine[e]].offer]
                /\ pc' = [pc EXCEPT ![e] = "reading"] /\ UNCHANGED <<mine, input>>
      BY <2>4, Confirmed
    <3>2. /\ session[mine[e]].confirmed \in [Entity -> Offers \cup {None}]
          /\ session[mine[e]].offer # None
          /\ Other(mine[e], e) # e /\ Other(mine[e], e) \in Sides(mine[e])
      BY <3>1, SidesType DEF Sets, Offers
    <3> QED
      BY <3>1, <3>2 DEF Returns, Sets, TypeOK, PlayersAreSides, Sides, Other, Opening,
            Engaged, Executors, Closers, OpeningUnconfirmed, NoFlags, ClosersExecuted
  <2>5. CASE ReadOffers(e)
    BY <2>5 DEF ReadOffers, TypeOK, PlayersAreSides, Sides, Other, Opening, Engaged,
                Executors, Closers, OpeningUnconfirmed
  <2>6. CASE FindCharacters(e)
    <3>1. /\ mine[e] \in Session /\ e \in Sides(mine[e]) /\ pc[e] = "finding"
          /\ \/ Returns(e) /\ Sets(e, session[mine[e]].offer, NoFlags)
             \/ /\ pc' = [pc EXCEPT ![e] = "executing"]
                /\ UNCHANGED <<maps, session, mine, input, agreed, executed>>
      BY <2>6, Found
    <3> QED
      BY <3>1 DEF Returns, Sets, TypeOK, PlayersAreSides, Sides, Other, Opening,
            Engaged, Executors, Closers, OpeningUnconfirmed, NoFlags, ClosersExecuted
  <2>7. CASE Execute(e)
    BY <2>7 DEF Execute, TypeOK, PlayersAreSides, Sides, Other, Opening, Engaged,
                Executors, Closers, OpeningUnconfirmed
  <2>8. CASE ExecutionFails(e)
    <3>1. /\ pc[e] = "executing" /\ Returns(e)
          /\ Sets(e, session[mine[e]].offer, NoFlags)
      BY <2>8, Failed
    <3> QED
      BY <3>1 DEF Returns, Sets, TypeOK, PlayersAreSides, Sides, Other, Opening,
            Engaged, Executors, Closers, OpeningUnconfirmed, NoFlags, ClosersExecuted
  <2>9. CASE CloseFirstKey(e)
    BY <2>9 DEF CloseFirstKey, TypeOK, PlayersAreSides, Sides, Other, Opening, Engaged,
                Executors, Closers, OpeningUnconfirmed
  <2>10. CASE CloseSecondKey(e)
    BY <2>10 DEF CloseSecondKey, Return, TypeOK, PlayersAreSides, Sides, Other,
                 Opening, Engaged, Executors, Closers, OpeningUnconfirmed
  <2>11. CASE CancelOther(e)
    BY <2>11 DEF CancelOther, Return, TypeOK, PlayersAreSides, Sides, Other, Opening,
                 Engaged, Executors, Closers, OpeningUnconfirmed
  <2>12. CASE DropTrade(e)
    BY <2>12 DEF DropTrade, TypeOK, PlayersAreSides, Sides, Other, Opening, Engaged,
                 Executors, Closers, OpeningUnconfirmed
  <2>13. CASE DropOther(e)
    BY <2>13 DEF DropOther, TypeOK, PlayersAreSides, Sides, Other, Opening, Engaged,
                 Executors, Closers, OpeningUnconfirmed
  <2>14. ASSUME NEW f \in Entity, TradeRequest(e, f)
        PROVE  OpeningUnconfirmed'
    BY <2>14 DEF TradeRequest, TypeOK, PlayersAreSides, Sides, Other, Opening, Engaged,
                 Executors, Closers, OpeningUnconfirmed
  <2>15. CASE Decline(e)
    BY <2>15 DEF Decline, TypeOK, PlayersAreSides, Sides, Other, Opening, Engaged,
                 Executors, Closers, OpeningUnconfirmed
  <2>16. ASSUME NEW s \in Session, Accept(e, s)
        PROVE  OpeningUnconfirmed'
    <3>1. Makes(e, s)
      BY <2>16, Accepted
    <3> QED
      BY <3>1 DEF Makes, TypeOK, PlayersAreSides, Sides, Other, Opening, Engaged,
            Executors, Closers, OpeningUnconfirmed, NoFlags, ClosersExecuted
  <2>17. CASE LookUp(e)
    BY <2>17 DEF LookUp, TypeOK, PlayersAreSides, Sides, Other, Opening, Engaged,
                 Executors, Closers, OpeningUnconfirmed
  <2>18. CASE TradeCancel(e)
    BY <2>18 DEF TradeCancel, TypeOK, PlayersAreSides, Sides, Other, Opening, Engaged,
                 Executors, Closers, OpeningUnconfirmed
  <2>19. CASE Disconnect(e)
    BY <2>19 DEF Disconnect, TypeOK, PlayersAreSides, Sides, Other, Opening, Engaged,
                 Executors, Closers, OpeningUnconfirmed
  <2>20. CASE Fail(e)
    BY <2>20 DEF Fail, TypeOK, PlayersAreSides, Sides, Other, Opening, Engaged,
                 Executors, Closers, OpeningUnconfirmed
  <2> QED
    BY <1>2,
       <2>1, <2>2, <2>3, <2>4, <2>5, <2>6, <2>7, <2>8, <2>9, <2>10, <2>11, <2>12,
       <2>13, <2>14, <2>15, <2>16, <2>17, <2>18, <2>19, <2>20
    DEF Handle, Request
<1> QED
  BY <1>1, <1>2 DEF Next

\* Nobody puts a key on an executed session, and its executor takes both off.
LEMMA CloseStep ==
    ASSUME TradeAssumption, TypeOK, PlayersAreSides, OpeningUnconfirmed,
          ClosersExecuted, TradedSessionsClose, [Next]_vars
    PROVE  ClosersExecuted' /\ TradedSessionsClose'
<1> USE DEF TradeAssumption, maps, Goto
<1>1. CASE UNCHANGED vars
  BY <1>1 DEF vars, TypeOK, PlayersAreSides, Sides, Opening, Engaged, Executors,
        Closers, OpeningUnconfirmed, ClosersExecuted, TradedSessionsClose
<1>2. ASSUME NEW e \in Entity, Handle(e) \/ Request(e)
      PROVE  ClosersExecuted' /\ TradedSessionsClose'
  <2>1. CASE OpenForRequester(e)
    BY <2>1 DEF OpenForRequester, TypeOK, PlayersAreSides, Sides, Opening, Engaged,
                Executors, Closers, OpeningUnconfirmed, ClosersExecuted,
                TradedSessionsClose
  <2>2. CASE OpenForSelf(e)
    BY <2>2 DEF OpenForSelf, Return, TypeOK, PlayersAreSides, Sides, Opening, Engaged,
                Executors, Closers, OpeningUnconfirmed, ClosersExecuted,
                TradedSessionsClose
  <2>3. ASSUME NEW o \in Offer, ChangeOffer(e, o)
        PROVE  ClosersExecuted' /\ TradedSessionsClose'
    <3>1. /\ pc[e] = "offering" /\ Returns(e)
          /\ Sets(e, [session[mine[e]].offer EXCEPT ![e] = o], NoFlags)
      BY <2>3, OfferChanged
    <3> QED
      BY <3>1 DEF Returns, Sets, TypeOK, PlayersAreSides, Sides, Opening, Engaged,
            Executors, Closers, OpeningUnconfirmed, ClosersExecuted, TradedSessionsClose
  <2>4. CASE Confirm(e)
    <3>1. /\ pc[e] = "confirming"
          /\ Sets(e, session[mine[e]].offer,
                  [session[mine[e]].confirmed EXCEPT ![e] = session[mine[e]].offer])
          /\ \/ session[mine[e]].confirmed[Other(mine[e], e)] = None /\ Returns(e)
             \/ /\ session[mine[e]].confirmed[Other(mine[e], e)] # None
                /\ agreed' = [agreed EXCEPT ![e] = session[mine[e]].offer]
                /\ pc' = [pc EXCEPT ![e] = "reading"] /\ UNCHANGED <<mine, input>>
      BY <2>4, Confirmed
    <3>2. /\ session[mine[e]].confirmed \in [Entity -> Offers \cup {None}]
          /\ session[mine[e]].offer # None
          /\ Other(mine[e], e) # e /\ Other(mine[e], e) \in Sides(mine[e])
      BY <3>1, SidesType DEF Sets, Offers
    <3> QED
      BY <3>1, <3>2 DEF Returns, Sets, TypeOK, PlayersAreSides, Sides, Opening,
            Engaged, Executors, Closers, OpeningUnconfirmed, ClosersExecuted,
                  TradedSessionsClose
  <2>5. CASE ReadOffers(e)
    BY <2>5 DEF ReadOffers, TypeOK, PlayersAreSides, Sides, Opening, Engaged,
                Executors, Closers, OpeningUnconfirmed, ClosersExecuted,
                TradedSessionsClose
  <2>6. CASE FindCharacters(e)
    <3>1. /\ mine[e] \in Session /\ e \in Sides(mine[e]) /\ pc[e] = "finding"
          /\ \/ Returns(e) /\ Sets(e, session[mine[e]].offer, NoFlags)
             \/ /\ pc' = [pc EXCEPT ![e] = "executing"]
                /\ UNCHANGED <<maps, session, mine, input, agreed, executed>>
      BY <2>6, Found
    <3> QED
      BY <3>1 DEF Returns, Sets, TypeOK, PlayersAreSides, Sides, Opening, Engaged,
            Executors, Closers, OpeningUnconfirmed, ClosersExecuted, TradedSessionsClose
  <2>7. CASE Execute(e)
    <3>1. /\ mine[e] \in Session /\ session[mine[e]] # Unused
          /\ session[mine[e]].a \in Entity /\ session[mine[e]].b \in Entity
      BY <2>7, SidesType DEF Execute, PlayersAreSides, Engaged
    <3> QED
      BY <2>7, <3>1 DEF Execute, TypeOK, PlayersAreSides, Sides, Opening, Engaged,
            Executors, Closers, OpeningUnconfirmed, ClosersExecuted, TradedSessionsClose
  <2>8. CASE ExecutionFails(e)
    <3>1. /\ pc[e] = "executing" /\ Returns(e)
          /\ Sets(e, session[mine[e]].offer, NoFlags)
      BY <2>8, Failed
    <3> QED
      BY <3>1 DEF Returns, Sets, TypeOK, PlayersAreSides, Sides, Opening, Engaged,
            Executors, Closers, OpeningUnconfirmed, ClosersExecuted, TradedSessionsClose
  <2>9. CASE CloseFirstKey(e)
    <3>1. /\ mine[e] \in Session /\ session[mine[e]] # Unused
          /\ session[mine[e]].a \in Entity /\ session[mine[e]].b \in Entity
      BY <2>9, SidesType DEF CloseFirstKey, PlayersAreSides, Engaged
    <3> QED
      BY <2>9, <3>1 DEF CloseFirstKey, TypeOK, PlayersAreSides, Sides, Opening,
            Engaged, Executors, Closers, OpeningUnconfirmed, ClosersExecuted,
                  TradedSessionsClose
  <2>10. CASE CloseSecondKey(e)
    <3>1. /\ mine[e] \in Session /\ session[mine[e]] # Unused
          /\ session[mine[e]].a \in Entity /\ session[mine[e]].b \in Entity
      BY <2>10, SidesType DEF CloseSecondKey, PlayersAreSides, Engaged
    <3> QED
      BY <2>10, <3>1, Returned DEF CloseSecondKey, Returns, TypeOK, PlayersAreSides,
            Sides, Opening, Engaged, Executors, Closers, OpeningUnconfirmed,
                  ClosersExecuted, TradedSessionsClose
  <2>11. CASE CancelOther(e)
    BY <2>11 DEF CancelOther, Return, TypeOK, PlayersAreSides, Sides, Opening, Engaged,
                 Executors, Closers, OpeningUnconfirmed, ClosersExecuted,
                 TradedSessionsClose
  <2>12. CASE DropTrade(e)
    BY <2>12 DEF DropTrade, TypeOK, PlayersAreSides, Sides, Opening, Engaged,
                 Executors, Closers, OpeningUnconfirmed, ClosersExecuted,
                 TradedSessionsClose
  <2>13. CASE DropOther(e)
    BY <2>13 DEF DropOther, TypeOK, PlayersAreSides, Sides, Opening, Engaged,
                 Executors, Closers, OpeningUnconfirmed, ClosersExecuted,
                 TradedSessionsClose
  <2>14. ASSUME NEW f \in Entity, TradeRequest(e, f)
        PROVE  ClosersExecuted' /\ TradedSessionsClose'
    BY <2>14 DEF TradeRequest, TypeOK, PlayersAreSides, Sides, Opening, Engaged,
                 Executors, Closers, OpeningUnconfirmed, ClosersExecuted,
                 TradedSessionsClose
  <2>15. CASE Decline(e)
    BY <2>15 DEF Decline, TypeOK, PlayersAreSides, Sides, Opening, Engaged, Executors,
                 Closers, OpeningUnconfirmed, ClosersExecuted, TradedSessionsClose
  <2>16. ASSUME NEW s \in Session, Accept(e, s)
        PROVE  ClosersExecuted' /\ TradedSessionsClose'
    <3>1. Makes(e, s)
      BY <2>16, Accepted
    <3> QED
      BY <3>1 DEF Makes, TypeOK, PlayersAreSides, Sides, Opening, Engaged, Executors,
            Closers, OpeningUnconfirmed, ClosersExecuted, TradedSessionsClose
  <2>17. CASE LookUp(e)
    BY <2>17 DEF LookUp, TypeOK, PlayersAreSides, Sides, Opening, Engaged, Executors,
                 Closers, OpeningUnconfirmed, ClosersExecuted, TradedSessionsClose
  <2>18. CASE TradeCancel(e)
    BY <2>18 DEF TradeCancel, TypeOK, PlayersAreSides, Sides, Opening, Engaged,
                 Executors, Closers, OpeningUnconfirmed, ClosersExecuted,
                 TradedSessionsClose
  <2>19. CASE Disconnect(e)
    BY <2>19 DEF Disconnect, TypeOK, PlayersAreSides, Sides, Opening, Engaged,
                 Executors, Closers, OpeningUnconfirmed, ClosersExecuted,
                 TradedSessionsClose
  <2>20. CASE Fail(e)
    BY <2>20 DEF Fail, TypeOK, PlayersAreSides, Sides, Opening, Engaged, Executors,
                 Closers, OpeningUnconfirmed, ClosersExecuted, TradedSessionsClose
  <2> QED
    BY <1>2,
       <2>1, <2>2, <2>3, <2>4, <2>5, <2>6, <2>7, <2>8, <2>9, <2>10, <2>11, <2>12,
       <2>13, <2>14, <2>15, <2>16, <2>17, <2>18, <2>19, <2>20
    DEF Handle, Request
<1> QED
  BY <1>1, <1>2 DEF Next

\* Init establishes the invariant.
LEMMA InitInv == TradeAssumption => (Init => IInv)
<1> SUFFICES ASSUME TradeAssumption, Init PROVE IInv
  OBVIOUS
<1> USE DEF TradeAssumption, Init, Unused
<1>1. TypeOK
  BY NothingType DEF TypeOK, Offers
<1>2. PlayersAreSides /\ OwnOfferStays /\ OpeningUnconfirmed /\ ClosersExecuted
  BY DEF PlayersAreSides, OwnOfferStays, OpeningUnconfirmed, ClosersExecuted,
         Opening, Engaged, Executors, Closers
<1>3. ConfirmationIsCurrent /\ ConfirmedTradeIsHandled /\ TradedSessionsClose
  BY DEF ConfirmationIsCurrent, NoFlags, ConfirmedTradeIsHandled, BothConfirmed,
         TradedSessionsClose
<1> QED
  BY <1>1, <1>2, <1>3 DEF IInv

\* Every step keeps the invariant.
LEMMA StepInv == TradeAssumption => (IInv /\ [Next]_vars => IInv')
<1> SUFFICES ASSUME TradeAssumption, IInv, [Next]_vars PROVE IInv'
  OBVIOUS
<1>1. TypeOK'
  BY TypeStep DEF IInv
<1>2. PlayersAreSides'
  BY SidesStep DEF IInv
<1>3. ConfirmationIsCurrent' /\ OwnOfferStays'
  BY CurrentStep, OwnOfferStep DEF IInv
<1>4. ConfirmedTradeIsHandled'
  BY HandledStep DEF IInv
<1>5. OpeningUnconfirmed'
  BY OpeningStep DEF IInv
<1>6. ClosersExecuted' /\ TradedSessionsClose'
  BY CloseStep DEF IInv
<1> QED
  BY <1>1, <1>2, <1>3, <1>4, <1>5, <1>6 DEF IInv

\* The invariant holds throughout, for any constants that TradeAssumption allows.
THEOREM TradeInvariant ==
    ASSUME TradeAssumption
    PROVE  Spec => []IInv
BY InitInv, StepInv, PTL DEF Spec

\* Every variable has its type in every reachable state; nobody trades with itself.
THEOREM TypeCorrect ==
    ASSUME TradeAssumption
    PROVE  Spec => []TypeOK
<1>1. IInv => TypeOK
  BY DEF IInv
<1> QED
  BY <1>1, TradeInvariant, PTL

\* Every set flag is of the offers as they are (TradeOfferItem, TradeOfferCurrency).
THEOREM FlagsCurrent ==
    ASSUME TradeAssumption
    PROVE  Spec => []ConfirmationIsCurrent
<1>1. IInv => ConfirmationIsCurrent
  BY DEF IInv
<1> QED
  BY <1>1, TradeInvariant, PTL

\* A handler that executes has read its own offer as it confirmed it (TradeConfirm).
THEOREM ExecutorsGiveWhatTheyConfirmed ==
    ASSUME TradeAssumption
    PROVE  Spec => []ExecutorGivesWhatItConfirmed
<1>1. IInv => ExecutorGivesWhatItConfirmed
  BY DEF IInv, OwnOfferStays, Executors, ExecutorGivesWhatItConfirmed
<1> QED
  BY <1>1, TradeInvariant, PTL

\* A session with both flags set has somebody who executes it or resets them
\* (TradeConfirm).
THEOREM ConfirmedTradesAreHandled ==
    ASSUME TradeAssumption
    PROVE  Spec => []ConfirmedTradeIsHandled
<1>1. IInv => ConfirmedTradeIsHandled
  BY DEF IInv
<1> QED
  BY <1>1, TradeInvariant, PTL

\* No key of active_trades leads to a session that was executed and closed.
THEOREM ExecutedSessionsClose ==
    ASSUME TradeAssumption
    PROVE  Spec => []TradedSessionsClose
<1>1. IInv => TradedSessionsClose
  BY DEF IInv
<1> QED
  BY <1>1, TradeInvariant, PTL

----------------------------------------------------------------------------
(* Chat: what calls, entries and tasks have to do with one another.         *)

\* What may be under a key: the channel of that name, or for that of the zone
\* channel the zone's.
MayHold(c, k, i) == i[1] = k \/ (k = AutoKey /\ i[1] = zone[c])

\* A call that is under way has its connection in the world, is about a key that
\* has no entry, and has found a channel of the key's scope if it has found one.
CallMeant(c) ==
    /\ call[c] # C!Idle => C!Online(c)
    /\ call[c].at \in {"ensuring", "inserting"} => call[c].key = AutoKey
    /\ call[c].at \in {"creating", "joining", "parting"} => call[c].key \in Name
    /\ call[c].at = "subscribing" => call[c].key \in C!Key
    /\ call[c].at \in {"ensuring", "inserting", "creating", "joining", "subscribing",
                       "parting"} => joined[c][call[c].key] = C!NoId
    /\ call[c].at \in {"joining", "subscribing", "parting"} =>
          call[c].channel \in channels /\ MayHold(c, call[c].key, call[c].channel)
    /\ call[c].at = "joining" => call[c].channel[1] = call[c].key
    /\ call[c].at = "publishing" => call[c].channel \in channels

\* An entry is for a channel that may be under its key.
EntriesOf(c) ==
    \A k \in C!Key : joined[c][k] # C!NoId =>
        C!Online(c) /\ joined[c][k] \in channels /\ MayHold(c, k, joined[c][k])

CallsMeant   == \A c \in Client : CallMeant(c)
EntriesMeant == \A c \in Client : EntriesOf(c)

\* The index that ON CONFLICT names: one channel of a zone.
OneOfZone == \A i, j \in channels : i[1] \in Zone /\ j[1] = i[1] => j = i

\* A task is the only one of its entry, and there is one for as long as Redis
\* keeps the subscription.
TasksHeld ==
    \A f \in forwarders :
        /\ C!Online(f.client) /\ joined[f.client][f.key] = f.channel
        /\ \A g \in forwarders : g.client = f.client /\ g.key = f.key => g = f

EntriesServed ==
    \A c \in Client, k \in C!Key : joined[c][k] # C!NoId /\ <<c, k>> \notin cut =>
        \E f \in forwarders : f.client = c /\ f.key = k /\ f.channel = joined[c][k]

\* A connection that has its account to itself.
Alone(c) == \A d \in Client \ {c} : AccountOf[d] # AccountOf[c]

RowsKept ==
    \A c \in Client : Alone(c) =>
        /\ \A n \in Name : joined[c][n][1] = n => <<joined[c][n], AccountOf[c]>> \in members
        /\ call[c].at = "subscribing" /\ call[c].channel[1] \in Name =>
              <<call[c].channel, AccountOf[c]>> \in members

ChatInv ==
    /\ C!TypeOK /\ CallsMeant /\ EntriesMeant /\ OneOfZone /\ TasksHeld /\ EntriesServed
    /\ C!NothingMissed /\ RowsKept

\* There are no channels of a name before the first is made.
LEMMA NoneAlike == C!Cardinality({}) = 0
<1>1. C!Cardinality({}) = Cardinality({})
  BY DEF C!Cardinality, Cardinality
<1> QED
  BY <1>1, FS_EmptySet

\* What the next message and the others are.
LEMMA ReadOn ==
  ASSUME NEW S, NEW q \in Seq(S), q # <<>>
  PROVE  /\ Tail(q) \in Seq(S) /\ Head(q) \in S
         /\ C!Range(q) \subseteq C!Range(Tail(q)) \cup {Head(q)}
         /\ C!Range(Tail(q)) \subseteq C!Range(q)
<1>1. /\ Tail(q) \in Seq(S) /\ Len(q) \in Nat \ {0} /\ DOMAIN q = 1 .. Len(q)
      /\ DOMAIN Tail(q) = 1 .. Len(q) - 1
      /\ \A k \in 1 .. Len(q) - 1 : Tail(q)[k] = q[k + 1]
      /\ Head(q) = q[1] /\ q[1] \in S
  OBVIOUS
<1>2. ASSUME NEW m \in C!Range(q), m # Head(q)
      PROVE  m \in C!Range(Tail(q))
  <2>1. PICK k \in 1 .. Len(q) : q[k] = m
    BY <1>1 DEF C!Range
  <2>2. k - 1 \in DOMAIN Tail(q) /\ Tail(q)[k - 1] = m
    BY <1>1, <1>2, <2>1
  <2> QED
    BY <2>2 DEF C!Range
<1>3. ASSUME NEW m \in C!Range(Tail(q))
      PROVE  m \in C!Range(q)
  <2>1. PICK k \in 1 .. Len(q) - 1 : Tail(q)[k] = m
    BY <1>1 DEF C!Range
  <2>2. k + 1 \in DOMAIN q /\ q[k + 1] = m
    BY <1>1, <2>1
  <2> QED
    BY <2>2 DEF C!Range
<1> QED
  BY <1>1, <1>2, <1>3

\* What Publish makes of a task.
Heard(f, i, m) == IF f.channel = i THEN [f EXCEPT !.inbox = Append(@, m)] ELSE f

\* Each task is as it was, with the message behind what it has if it is the
\* channel's.
LEMMA HeardTask ==
  ASSUME NEW f \in C!Tasked, NEW i, NEW m \in 1..MaxMessages
  PROVE  /\ Heard(f, i, m) \in C!Tasked
         /\ Heard(f, i, m).client = f.client /\ Heard(f, i, m).key = f.key
         /\ Heard(f, i, m).channel = f.channel
         /\ C!Range(f.inbox) \subseteq C!Range(Heard(f, i, m).inbox)
         /\ f.channel = i => m \in C!Range(Heard(f, i, m).inbox)
<1>1. f.inbox \in Seq(1..MaxMessages)
  BY DEF C!Tasked
<1>2. /\ Append(f.inbox, m) \in Seq(1..MaxMessages)
      /\ DOMAIN f.inbox = 1 .. Len(f.inbox) /\ Len(f.inbox) \in Nat
      /\ DOMAIN Append(f.inbox, m) = 1 .. Len(f.inbox) + 1
      /\ Append(f.inbox, m)[Len(f.inbox) + 1] = m
      /\ \A k \in 1 .. Len(f.inbox) : Append(f.inbox, m)[k] = f.inbox[k]
  BY <1>1
<1>3. C!Range(f.inbox) \subseteq C!Range(Append(f.inbox, m)) /\ m \in C!Range(Append(f.inbox, m))
  BY <1>2 DEF C!Range
<1>4. CASE f.channel = i
  <2>1. /\ Heard(f, i, m) = [f EXCEPT !.inbox = Append(f.inbox, m)]
        /\ Heard(f, i, m).inbox = Append(f.inbox, m)
    BY <1>4 DEF Heard, C!Tasked
  <2> QED
    BY <1>2, <1>3, <1>4, <2>1 DEF C!Tasked
<1>5. CASE f.channel # i
  BY <1>5 DEF Heard
<1> QED
  BY <1>4, <1>5

LEMMA Delivered ==
  ASSUME NEW c \in Client, C!Publish(c), forwarders \subseteq C!Tasked,
         sent + 1 \in 1..MaxMessages
  PROVE  /\ forwarders' = {Heard(f, call[c].channel, sent + 1) : f \in forwarders}
         /\ forwarders' \subseteq C!Tasked
<1>1. forwarders' = {Heard(f, call[c].channel, sent + 1) : f \in forwarders}
  BY DEF C!Publish, Heard
<1> QED
  BY <1>1, HeardTask

LEMMA ChatTypes ==
  ASSUME C!ChannelsAssumption, C!TypeOK, CallsMeant, EntriesMeant, [C!Next]_C!vars
  PROVE  C!TypeOK'
<1>0. /\ C!Idle \in C!Calls
      /\ AutoKey \in C!Key /\ Name \subseteq C!Key /\ channels \subseteq C!Id
  <2>1. C!Idle \in C!Calls
    BY DEF C!Calls
  <2>2. AutoKey \in C!Key /\ Name \subseteq C!Key
    BY DEF C!Key
  <2> QED
    BY <2>1, <2>2 DEF C!TypeOK
<1>a. ASSUME NEW c \in Client, NEW r \in C!Calls
      PROVE  [call EXCEPT ![c] = r] \in [Client -> C!Calls]
  BY DEF C!TypeOK
<1>b. \A c \in Client : [call EXCEPT ![c] = C!Idle] \in [Client -> C!Calls]
  BY <1>a, <1>0
<1>c. ASSUME NEW c \in Client,
             NEW at \in {"ensuring", "inserting", "creating", "joining", "subscribing",
                         "parting", "publishing"},
             NEW k \in C!Key \cup {None}, NEW i \in C!Id \cup {C!NoId}
      PROVE  [call EXCEPT ![c] = C!Doing(at, k, i)] \in [Client -> C!Calls]
  <2>1. C!Doing(at, k, i) \in C!Calls
    BY DEF C!Calls, C!Doing
  <2> QED
    BY <2>1, <1>a
<1>d. ASSUME NEW c \in Client, C!AutoJoin(c)
      PROVE  call' \in [Client -> C!Calls]
  <2>1. CASE C!Goto(c, C!Idle)
    BY <2>1, <1>b DEF C!Goto
  <2>2. CASE C!Goto(c, C!Doing("ensuring", AutoKey, C!NoId))
    <3>1. [call EXCEPT ![c] = C!Doing("ensuring", AutoKey, C!NoId)] \in [Client -> C!Calls]
      BY <1>0, <1>c
    <3> QED
      BY <2>2, <3>1 DEF C!Goto
  <2> QED
    BY <1>d, <2>1, <2>2 DEF C!AutoJoin
<1>e. ASSUME NEW c \in Client, NEW k \in C!Key
      PROVE  C!Forgive(c, k) \in [Client -> SUBSET (1..MaxMessages)]
  BY DEF C!Forgive, C!TypeOK
<1>f. ASSUME NEW c \in Client, NEW k \in C!Key, NEW i \in C!Id \cup {C!NoId}
      PROVE  [joined EXCEPT ![c][k] = i] \in [Client -> [C!Key -> C!Id \cup {C!NoId}]]
  BY DEF C!TypeOK
<1> USE DEF C!history
<1>1. CASE UNCHANGED C!vars
  BY <1>1 DEF C!vars, C!TypeOK
<1>2. ASSUME NEW c \in Client, NEW z \in Zone, C!Enter(c, z)
      PROVE  C!TypeOK'
  BY <1>2, <1>d DEF C!Enter, C!TypeOK
<1>3. ASSUME NEW c \in Client, NEW z \in Zone, C!ChangeZone(c, z)
      PROVE  C!TypeOK'
  <2>1. call' \in [Client -> C!Calls]
    BY <1>3, <1>d DEF C!ChangeZone
  <2>2. owed' \in [Client -> SUBSET (1..MaxMessages)]
    BY <1>3, <1>0, <1>e DEF C!ChangeZone
  <2>3. joined' \in [Client -> [C!Key -> C!Id \cup {C!NoId}]]
    <3>1. C!NoId \in C!Id \cup {C!NoId} /\ joined' = [joined EXCEPT ![c][AutoKey] = C!NoId]
      BY <1>3 DEF C!ChangeZone
    <3> QED
      BY <1>0, <1>f, <3>1
  <2> QED
    BY <1>3, <2>1, <2>2, <2>3 DEF C!ChangeZone, C!TypeOK
<1>4. ASSUME NEW c \in Client, C!Ensure(c)
      PROVE  C!TypeOK'
  <2>1. call' \in [Client -> C!Calls]
    <3>1. CASE C!ChannelsOf(zone[c]) = {}
      <4>1. [call EXCEPT ![c] = C!Doing("inserting", AutoKey, C!NoId)] \in [Client -> C!Calls]
        BY <1>0, <1>c
      <4> QED
        BY <1>4, <3>1, <4>1 DEF C!Ensure, C!Goto
    <3>2. CASE C!ChannelsOf(zone[c]) # {}
      <4>1. PICK i \in channels : call' = [call EXCEPT ![c] = C!Doing("subscribing", AutoKey, i)]
        BY <1>4, <3>2 DEF C!Ensure, C!ChannelsOf, C!Goto
      <4>2. i \in C!Id
        BY <1>0
      <4> QED
        BY <1>0, <1>c, <4>1, <4>2
    <3> QED
      BY <3>1, <3>2
  <2> QED
    BY <1>4, <2>1 DEF C!Ensure, C!TypeOK
<1>5. ASSUME NEW c \in Client, C!Insert(c)
      PROVE  C!TypeOK'
  <2>1. C!ChannelsOf(zone[c]) = {} => C!NewId(zone[c]) \in C!Id
    <3>1. zone[c] \in Zone
      BY <1>5 DEF C!Insert, CallsMeant, CallMeant, C!Online, C!Idle, C!TypeOK
    <3>2. C!ChannelsOf(zone[c]) = {} => C!NewId(zone[c]) = <<zone[c], 1>>
      BY NoneAlike DEF C!NewId
    <3> QED
      BY <3>1, <3>2 DEF C!Id, C!ChannelsAssumption
  <2>2. channels' \subseteq C!Id
    BY <1>0, <1>5, <2>1 DEF C!Insert, C!Goto
  <2>3. call' \in [Client -> C!Calls]
    <3>1. \E i \in channels' : call' = [call EXCEPT ![c] = C!Doing("subscribing", AutoKey, i)]
      BY <1>5 DEF C!Insert, C!Goto
    <3>2. PICK i \in C!Id : call' = [call EXCEPT ![c] = C!Doing("subscribing", AutoKey, i)]
      BY <2>2, <3>1
    <3> QED
      BY <1>0, <1>c, <3>2
  <2> QED
    BY <1>5, <2>2, <2>3 DEF C!Insert, C!TypeOK
<1>6. ASSUME NEW c \in Client, NEW n \in Name, C!Join(c, n)
      PROVE  C!TypeOK'
  <2>1. call' \in [Client -> C!Calls]
    BY <1>6, <1>0, <1>c DEF C!Join, C!ChannelsOf, C!Goto
  <2> QED
    BY <1>6, <2>1 DEF C!Join, C!TypeOK
<1>7. ASSUME NEW c \in Client, NEW n \in Name, C!Leave(c, n)
      PROVE  C!TypeOK'
  <2>1. call' \in [Client -> C!Calls]
    <3>1. joined[c][n] \in C!Id \cup {C!NoId}
      BY <1>0 DEF C!TypeOK
    <3> QED
      BY <1>7, <1>0, <1>c, <3>1 DEF C!Leave, C!Goto
  <2> QED
    BY <1>7, <1>0, <1>e, <1>f, <2>1 DEF C!Leave, C!TypeOK
<1>8. ASSUME NEW c \in Client, C!Create(c)
      PROVE  C!TypeOK'
  <2>1. call[c].key \in C!Key /\ C!NewId(call[c].key) \in C!Id
    BY <1>8, <1>0 DEF C!Create, CallsMeant, CallMeant
  <2>2. call' \in [Client -> C!Calls]
    BY <1>8, <1>0, <1>c, <2>1 DEF C!Create, C!Goto
  <2> QED
    BY <1>8, <2>1, <2>2 DEF C!Create, C!TypeOK, C!Account
<1>9. ASSUME NEW c \in Client, C!JoinRow(c)
      PROVE  C!TypeOK'
  <2>1. call[c].channel \in C!Id /\ call[c].key \in C!Key
    BY <1>9, <1>0 DEF C!JoinRow, CallsMeant, CallMeant
  <2>2. [call[c] EXCEPT !.at = "subscribing"] \in C!Calls
    <3>1. call[c] \in C!Calls \ {C!Idle}
      BY <1>9 DEF C!JoinRow, C!TypeOK, C!Idle
    <3> QED
      BY <3>1 DEF C!Calls
  <2>3. call' \in [Client -> C!Calls]
    BY <1>9, <1>a, <2>2 DEF C!JoinRow, C!Goto
  <2> QED
    BY <1>9, <2>1, <2>3 DEF C!JoinRow, C!TypeOK, C!Account
<1>10. ASSUME NEW c \in Client, C!Subscribe(c)
       PROVE  C!TypeOK'
  <2>1. call[c].channel \in C!Id /\ call[c].key \in C!Key
    BY <1>10, <1>0 DEF C!Subscribe, C!Admit, CallsMeant, CallMeant
  <2>2. [client |-> c, key |-> call[c].key, channel |-> call[c].channel, inbox |-> <<>>]
           \in C!Tasked
    BY <2>1 DEF C!Tasked
  <2>3. joined' \in [Client -> [C!Key -> C!Id \cup {C!NoId}]]
    BY <1>10, <1>f, <2>1 DEF C!Subscribe, C!Admit
  <2>4. call' \in [Client -> C!Calls]
    BY <1>10, <1>b DEF C!Subscribe, C!Admit, C!Goto
  <2> QED
    BY <1>10, <2>2, <2>3, <2>4 DEF C!Subscribe, C!TypeOK
<1>11. ASSUME NEW c \in Client, C!PartRow(c)
       PROVE  C!TypeOK'
  BY <1>11, <1>b DEF C!PartRow, C!TypeOK, C!Goto
<1>12. ASSUME NEW c \in Client, NEW i \in channels, C!Send(c, i)
       PROVE  C!TypeOK'
  BY <1>12, <1>0, <1>c DEF C!Send, C!TypeOK, C!Goto
<1>13. ASSUME NEW c \in Client, C!Publish(c)
       PROVE  C!TypeOK'
  <2>1. sent + 1 \in 1..MaxMessages /\ sent' = sent + 1
    BY <1>13 DEF C!Publish, C!TypeOK, C!ChannelsAssumption
  <2>2. forwarders' \subseteq C!Tasked
    BY <1>13, <2>1, Delivered DEF C!TypeOK
  <2>3. owed' \in [Client -> SUBSET (1..MaxMessages)]
    <3>1. \A d \in Client : owed'[d] \in {owed[d], owed[d] \cup {sent + 1}}
      BY <1>13 DEF C!Publish
    <3>2. owed' = [d \in Client |-> owed'[d]]
      BY <1>13 DEF C!Publish
    <3>3. \A d \in Client : owed'[d] \in SUBSET (1..MaxMessages)
      BY <2>1, <3>1 DEF C!TypeOK
    <3> QED
      BY <3>2, <3>3
  <2>4. call' \in [Client -> C!Calls]
    BY <1>13, <1>b DEF C!Publish, C!Goto
  <2>5. sent' \in 0..MaxMessages /\ UNCHANGED <<channels, members, zone, joined, cut>>
    BY <1>13, <2>1 DEF C!Publish
  <2> QED
    BY <2>2, <2>3, <2>4, <2>5 DEF C!TypeOK
<1>14. ASSUME NEW c \in Client, C!Fail(c)
       PROVE  C!TypeOK'
  BY <1>14, <1>b DEF C!Fail, C!TypeOK, C!Goto
<1>15. ASSUME NEW c \in Client, C!Close(c)
       PROVE  C!TypeOK'
  BY <1>15 DEF C!Close, C!TypeOK
<1>16. ASSUME NEW f \in forwarders, C!Forward(f)
       PROVE  C!TypeOK'
  <2>1. f \in C!Tasked /\ f.inbox # <<>>
    BY <1>16 DEF C!TypeOK, C!Forward
  <2>2. [f EXCEPT !.inbox = Tail(@)] \in C!Tasked
    <3>1. f.inbox \in Seq(1..MaxMessages) /\ f.inbox # <<>>
      BY <2>1 DEF C!Tasked
    <3>2. Tail(f.inbox) \in Seq(1..MaxMessages)
      BY <3>1, ReadOn
    <3> QED
      BY <2>1, <3>2 DEF C!Tasked
  <2> QED
    BY <1>16, <2>2 DEF C!Forward, C!TypeOK
<1>17. ASSUME NEW f \in forwarders, C!Cut(f)
       PROVE  C!TypeOK'
  <2>1. f.client \in Client /\ f.key \in C!Key
    BY DEF C!TypeOK, C!Tasked
  <2> QED
    BY <1>17, <2>1 DEF C!Cut, C!TypeOK
<1> QED
  BY <1>1, <1>2, <1>3, <1>4, <1>5, <1>6, <1>7, <1>8, <1>9, <1>10, <1>11, <1>12, <1>13, <1>14,
     <1>15, <1>16, <1>17 DEF C!Next

LEMMA ChatMeant ==
  ASSUME C!ChannelsAssumption, C!TypeOK, CallsMeant, EntriesMeant, [C!Next]_C!vars
  PROVE  CallsMeant' /\ EntriesMeant'
<1> USE DEF C!history, C!Online, MayHold
<1>a. ASSUME NEW c \in Client, channels \subseteq channels',
             zone'[c] = zone[c], joined'[c] = joined[c], call'[c] = call[c]
      PROVE  CallMeant(c)' /\ EntriesOf(c)'
  BY <1>a DEF CallsMeant, EntriesMeant, CallMeant, EntriesOf
<1>b. ASSUME NEW c \in Client, channels \subseteq channels',
             zone'[c] = zone[c], joined'[c] = joined[c]
      PROVE  EntriesOf(c)'
  BY <1>b DEF EntriesMeant, EntriesOf
<1>c. ASSUME NEW c \in Client, call'[c] = C!Idle
      PROVE  CallMeant(c)'
  BY <1>c DEF CallMeant, C!Idle
<1>d. ASSUME NEW c \in Client, NEW r, C!Goto(c, r)
      PROVE  call'[c] = r /\ \A d \in Client \ {c} : call'[d] = call[d]
  BY <1>d DEF C!Goto, C!TypeOK
<1>1. CASE UNCHANGED C!vars
  BY <1>1, <1>a DEF C!vars, CallsMeant, EntriesMeant
<1>2. ASSUME NEW c \in Client, NEW z \in Zone, C!Enter(c, z) \/ C!ChangeZone(c, z)
      PROVE  CallsMeant' /\ EntriesMeant'
  <2>1. /\ channels' = channels /\ zone'[c] = z
        /\ \A d \in Client \ {c} : zone'[d] = zone[d] /\ joined'[d] = joined[d]
    BY <1>2 DEF C!Enter, C!ChangeZone, C!TypeOK
  <2>2. /\ joined'[c][AutoKey] = C!NoId
        /\ \A k \in C!Key \ {AutoKey} : joined'[c][k] = joined[c][k]
    <3>1. CASE C!Enter(c, z)
      <4>1. joined[c][AutoKey] = C!NoId /\ joined' = joined
        BY <3>1 DEF C!Enter, EntriesMeant, EntriesOf, C!Key, C!ChannelsAssumption
      <4> QED
        BY <4>1
    <3>2. CASE C!ChangeZone(c, z)
      BY <3>2 DEF C!ChangeZone, C!TypeOK, C!Key, C!ChannelsAssumption
    <3> QED
      BY <1>2, <3>1, <3>2
  <2>3. EntriesOf(c)'
    <3>1. \A k \in C!Key \ {AutoKey} : joined[c][k] # C!NoId =>
              joined[c][k] \in channels /\ joined[c][k][1] = k
      BY DEF EntriesMeant, EntriesOf, C!Key, C!ChannelsAssumption
    <3> QED
      BY <2>1, <2>2, <3>1 DEF EntriesOf
  <2>4. C!AutoJoin(c)
    BY <1>2 DEF C!Enter, C!ChangeZone
  <2>5. /\ call'[c] \in {C!Idle, C!Doing("ensuring", AutoKey, C!NoId)}
        /\ \A d \in Client \ {c} : call'[d] = call[d]
    BY <2>4, <1>d DEF C!AutoJoin
  <2>6. CallMeant(c)'
    BY <2>1, <2>2, <2>5 DEF CallMeant, C!Doing, C!Idle
  <2> QED
    BY <1>a, <2>1, <2>3, <2>5, <2>6 DEF CallsMeant, EntriesMeant
\* Actions that leave the zones and the entries alone, and go on with a call.
<1>e. ASSUME NEW c \in Client, channels \subseteq channels', UNCHANGED <<zone, joined>>,
             CallMeant(c)', \A d \in Client \ {c} : call'[d] = call[d]
      PROVE  CallsMeant' /\ EntriesMeant'
  <2>1. \A d \in Client : EntriesOf(d)'
    BY <1>b, <1>e
  <2>2. \A d \in Client \ {c} : CallMeant(d)'
    BY <1>a, <1>e
  <2> QED
    BY <1>e, <2>1, <2>2 DEF CallsMeant, EntriesMeant
<1>3. ASSUME NEW c \in Client, C!Ensure(c)
      PROVE  CallsMeant' /\ EntriesMeant'
  <2>1. UNCHANGED <<channels, zone, joined>> /\ call[c].at = "ensuring"
    BY <1>3 DEF C!Ensure
  <2>2. C!Online(c) /\ joined[c][AutoKey] = C!NoId
    BY <2>1 DEF CallsMeant, CallMeant, C!Idle
  <2>3. /\ \/ call'[c] = C!Doing("inserting", AutoKey, C!NoId)
           \/ \E i \in channels : i[1] = zone[c] /\ call'[c] = C!Doing("subscribing", AutoKey, i)
        /\ \A d \in Client \ {c} : call'[d] = call[d]
    BY <1>3, <1>d DEF C!Ensure, C!ChannelsOf
  <2>4. /\ call'[c].at \in {"inserting", "subscribing"} /\ call'[c].key = AutoKey
        /\ call'[c].at = "subscribing" =>
              call'[c].channel \in channels /\ call'[c].channel[1] = zone[c]
    <3>1. CASE call'[c] = C!Doing("inserting", AutoKey, C!NoId)
      BY <3>1 DEF C!Doing
    <3>2. ASSUME NEW i \in channels, i[1] = zone[c],
                 call'[c] = C!Doing("subscribing", AutoKey, i)
          PROVE  /\ call'[c].at = "subscribing" /\ call'[c].key = AutoKey
                 /\ call'[c].channel \in channels /\ call'[c].channel[1] = zone[c]
      BY <3>2 DEF C!Doing
    <3> QED
      BY <2>3, <3>1, <3>2
  <2>5. CallMeant(c)'
    BY <2>1, <2>2, <2>4 DEF CallMeant, C!Key
  <2> QED
    BY <1>e, <2>1, <2>3, <2>5
<1>4. ASSUME NEW c \in Client, C!Insert(c)
      PROVE  CallsMeant' /\ EntriesMeant'
  <2>1. UNCHANGED <<zone, joined>> /\ call[c].at = "inserting" /\ channels \subseteq channels'
    BY <1>4 DEF C!Insert
  <2>2. C!Online(c) /\ joined[c][AutoKey] = C!NoId
    BY <2>1 DEF CallsMeant, CallMeant, C!Idle
  <2>3. /\ \E i \in channels' : i[1] = zone[c] /\ call'[c] = C!Doing("subscribing", AutoKey, i)
        /\ \A d \in Client \ {c} : call'[d] = call[d]
    BY <1>4, <1>d DEF C!Insert
  <2>4. CallMeant(c)'
    <3>1. /\ call'[c].at = "subscribing" /\ call'[c].key = AutoKey
          /\ call'[c].channel \in channels' /\ call'[c].channel[1] = zone[c]
      BY <2>3 DEF C!Doing
    <3> QED
      BY <2>1, <2>2, <3>1 DEF CallMeant, C!Key
  <2> QED
    BY <1>e, <2>1, <2>3, <2>4
<1>5. ASSUME NEW c \in Client, NEW n \in Name, C!Join(c, n)
      PROVE  CallsMeant' /\ EntriesMeant'
  <2>1. UNCHANGED <<channels, zone, joined>> /\ C!Online(c) /\ joined[c][n] = C!NoId
    BY <1>5 DEF C!Join, C!Free, C!ChannelsAssumption
  <2>2. /\ \/ call'[c] = C!Doing("creating", n, C!NoId)
           \/ \E i \in channels : i[1] = n /\ call'[c] = C!Doing("joining", n, i)
        /\ \A d \in Client \ {c} : call'[d] = call[d]
    BY <1>5, <1>d DEF C!Join, C!ChannelsOf
  <2>3. /\ call'[c].at \in {"creating", "joining"} /\ call'[c].key = n
        /\ call'[c].at = "joining" =>
              call'[c].channel \in channels /\ call'[c].channel[1] = n
    <3>1. CASE call'[c] = C!Doing("creating", n, C!NoId)
      BY <3>1 DEF C!Doing
    <3>2. ASSUME NEW i \in channels, i[1] = n, call'[c] = C!Doing("joining", n, i)
          PROVE  /\ call'[c].at = "joining" /\ call'[c].key = n
                 /\ call'[c].channel \in channels /\ call'[c].channel[1] = n
      BY <3>2 DEF C!Doing
    <3> QED
      BY <2>2, <3>1, <3>2
  <2>4. CallMeant(c)'
    <3>1. CASE call'[c].at = "creating"
      BY <2>1, <2>3, <3>1 DEF CallMeant
    <3>2. CASE call'[c].at = "joining"
      BY <2>1, <2>3, <3>2 DEF CallMeant
    <3> QED
      BY <2>3, <3>1, <3>2
  <2> QED
    BY <1>e, <2>1, <2>2, <2>4
<1>6. ASSUME NEW c \in Client, C!Create(c)
      PROVE  CallsMeant' /\ EntriesMeant'
  <2>1. /\ UNCHANGED <<zone, joined>> /\ call[c].at = "creating"
        /\ channels' = channels \cup {C!NewId(call[c].key)}
        /\ C!NewId(call[c].key)[1] = call[c].key
    BY <1>6 DEF C!Create, C!NewId
  <2>2. C!Online(c) /\ joined[c][call[c].key] = C!NoId /\ call[c].key \in Name
    BY <2>1 DEF CallsMeant, CallMeant, C!Idle, C!ChannelsAssumption
  <2>3. /\ call'[c] = C!Doing("joining", call[c].key, C!NewId(call[c].key))
        /\ \A d \in Client \ {c} : call'[d] = call[d]
    BY <1>6, <1>d DEF C!Create
  <2>4. CallMeant(c)'
    <3>1. /\ call'[c].at = "joining" /\ call'[c].key = call[c].key
          /\ call'[c].channel \in channels' /\ call'[c].channel[1] = call'[c].key
      BY <2>1, <2>3 DEF C!Doing
    <3> QED
      BY <2>1, <2>2, <3>1 DEF CallMeant
  <2> QED
    BY <1>e, <2>1, <2>3, <2>4
<1>7. ASSUME NEW c \in Client, C!JoinRow(c)
      PROVE  CallsMeant' /\ EntriesMeant'
  <2>1. UNCHANGED <<channels, zone, joined>> /\ call[c].at = "joining"
    BY <1>7 DEF C!JoinRow
  <2>2. /\ call'[c] = [call[c] EXCEPT !.at = "subscribing"]
        /\ \A d \in Client \ {c} : call'[d] = call[d]
    BY <1>7, <1>d DEF C!JoinRow
  <2>3. call[c] \in C!Calls \ {C!Idle}
    BY <2>1 DEF C!TypeOK, C!Idle
  <2>4. call'[c].at = "subscribing" /\ call'[c].key = call[c].key /\ call'[c].channel = call[c].channel
    BY <2>2, <2>3 DEF C!Calls
  <2>5. CallMeant(c)'
    BY <2>1, <2>4 DEF CallMeant, CallsMeant, C!Idle, C!Key
  <2> QED
    BY <1>e, <2>1, <2>2, <2>5
<1>8. ASSUME NEW c \in Client, C!Subscribe(c)
      PROVE  CallsMeant' /\ EntriesMeant'
  <2>1. /\ UNCHANGED <<channels, zone>> /\ call[c].at = "subscribing"
        /\ joined' = [joined EXCEPT ![c][call[c].key] = call[c].channel]
    BY <1>8 DEF C!Subscribe, C!Admit
  <2>2. call'[c] = C!Idle /\ \A d \in Client \ {c} : call'[d] = call[d]
    BY <1>8, <1>d DEF C!Subscribe, C!Admit
  <2>3. /\ C!Online(c) /\ call[c].key \in C!Key /\ call[c].channel \in channels
        /\ MayHold(c, call[c].key, call[c].channel)
    BY <2>1 DEF CallsMeant, CallMeant, C!Idle
  <2>4. /\ \A d \in Client \ {c} : joined'[d] = joined[d]
        /\ joined'[c][call[c].key] = call[c].channel
        /\ \A k \in C!Key \ {call[c].key} : joined'[c][k] = joined[c][k]
    BY <2>1, <2>3 DEF C!TypeOK
  <2>5. EntriesOf(c)'
    BY <2>1, <2>3, <2>4 DEF EntriesOf, EntriesMeant
  <2> QED
    BY <1>a, <1>c, <2>1, <2>2, <2>4, <2>5 DEF CallsMeant, EntriesMeant
<1>9. ASSUME NEW c \in Client, NEW n \in Name, C!Leave(c, n)
      PROVE  CallsMeant' /\ EntriesMeant'
  <2>1. /\ UNCHANGED <<channels, zone>> /\ C!Online(c) /\ joined[c][n] # C!NoId
        /\ n \in C!Key
        /\ joined' = [joined EXCEPT ![c][n] = C!NoId]
    BY <1>9 DEF C!Leave, C!Free, C!Key, C!ChannelsAssumption
  <2>2. /\ call'[c] = C!Doing("parting", n, joined[c][n])
        /\ \A d \in Client \ {c} : call'[d] = call[d]
    BY <1>9, <1>d DEF C!Leave
  <2>3. joined[c][n] \in channels /\ MayHold(c, n, joined[c][n])
    BY <2>1 DEF EntriesMeant, EntriesOf
  <2>4. /\ \A d \in Client \ {c} : joined'[d] = joined[d]
        /\ joined'[c][n] = C!NoId
        /\ \A k \in C!Key \ {n} : joined'[c][k] = joined[c][k]
    BY <2>1 DEF C!TypeOK
  <2>5. EntriesOf(c)'
    BY <2>1, <2>4 DEF EntriesOf, EntriesMeant
  <2>6. CallMeant(c)'
    BY <2>1, <2>2, <2>3, <2>4 DEF CallMeant, C!Doing, C!Idle
  <2> QED
    BY <1>a, <2>1, <2>2, <2>4, <2>5, <2>6 DEF CallsMeant, EntriesMeant
<1>10. ASSUME NEW c \in Client, NEW i \in channels, C!Send(c, i)
       PROVE  CallsMeant' /\ EntriesMeant'
  <2>1. UNCHANGED <<channels, zone, joined>> /\ C!Online(c)
    BY <1>10 DEF C!Send, C!Free
  <2>2. call'[c] = C!Doing("publishing", None, i) /\ \A d \in Client \ {c} : call'[d] = call[d]
    BY <1>10, <1>d DEF C!Send
  <2>3. call'[c].at = "publishing" /\ call'[c].channel \in channels
    BY <2>2 DEF C!Doing
  <2>4. CallMeant(c)'
    BY <2>1, <2>3 DEF CallMeant
  <2> QED
    BY <1>e, <2>1, <2>2, <2>4
<1>11. ASSUME NEW c \in Client, C!PartRow(c) \/ C!Publish(c) \/ C!Fail(c)
       PROVE  CallsMeant' /\ EntriesMeant'
  <2>1. UNCHANGED <<channels, zone, joined>> /\ C!Goto(c, C!Idle)
    BY <1>11 DEF C!PartRow, C!Publish, C!Fail
  <2> QED
    BY <1>c, <1>d, <1>e, <2>1
<1>12. ASSUME NEW c \in Client, C!Close(c)
       PROVE  CallsMeant' /\ EntriesMeant'
  <2>1. /\ UNCHANGED <<channels, call>> /\ call'[c] = C!Idle
        /\ \A k \in C!Key : joined'[c][k] = C!NoId
        /\ \A d \in Client \ {c} : zone'[d] = zone[d] /\ joined'[d] = joined[d]
    BY <1>12 DEF C!Close, C!TypeOK
  <2>2. EntriesOf(c)' /\ CallMeant(c)'
    BY <1>c, <2>1 DEF EntriesOf
  <2> QED
    BY <1>a, <2>1, <2>2 DEF CallsMeant, EntriesMeant
<1>13. ASSUME NEW f \in forwarders, C!Forward(f) \/ C!Cut(f)
       PROVE  CallsMeant' /\ EntriesMeant'
  <2>1. UNCHANGED <<channels, zone, joined, call>>
    BY <1>13 DEF C!Forward, C!Cut
  <2> QED
    BY <1>a, <2>1 DEF CallsMeant, EntriesMeant
<1> QED
  BY <1>1, <1>2, <1>3, <1>4, <1>5, <1>6, <1>7, <1>8, <1>9, <1>10, <1>11, <1>12, <1>13 DEF C!Next

LEMMA ChatTasks ==
  ASSUME C!ChannelsAssumption, C!TypeOK, CallsMeant, EntriesMeant, TasksHeld, EntriesServed,
         C!NothingMissed, [C!Next]_C!vars
  PROVE  TasksHeld' /\ EntriesServed' /\ C!NothingMissed'
<1> DEFINE Kept == TasksHeld' /\ EntriesServed' /\ C!NothingMissed'
<1> USE DEF C!history
<1>0. \A f \in forwarders : /\ f \in C!Tasked /\ f.client \in Client /\ f.key \in C!Key
                            /\ f.channel \in C!Id /\ f.channel # C!NoId
  BY DEF C!TypeOK, C!Tasked, C!Id, C!NoId, C!ChannelsAssumption
<1>1. ASSUME UNCHANGED <<forwarders, joined, owed, cut>>,
             \A c \in Client : C!Online(c) => C!Online(c)'
      PROVE  Kept
  BY <1>1, <1>0 DEF TasksHeld, EntriesServed, C!NothingMissed
\* Who drops an entry drops its tasks, and what they had.
<1>2. ASSUME NEW c \in Client, NEW k \in C!Key, C!Online(c)', \A d \in Client \ {c} : zone'[d] = zone[d],
             joined' = [joined EXCEPT ![c][k] = C!NoId],
             forwarders' = forwarders \ C!Tasks(c, k),
             owed' = C!Forgive(c, k), cut' = cut \ {<<c, k>>}
      PROVE  Kept
  <2>1. \A d \in Client, l \in C!Key :
            joined'[d][l] = IF d = c /\ l = k THEN C!NoId ELSE joined[d][l]
    BY <1>2 DEF C!TypeOK
  <2>2. \A f \in forwarders : f \in forwarders' <=> ~ (f.client = c /\ f.key = k)
    BY <1>2 DEF C!Tasks
  <2>3. forwarders' \subseteq forwarders
    BY <1>2
  <2>4. TasksHeld'
    <3>1. \A d \in Client : C!Online(d) => C!Online(d)'
      BY <1>2 DEF C!Online
    <3> QED
      BY <1>0, <2>1, <2>2, <2>3, <3>1 DEF TasksHeld
  <2>5. EntriesServed'
    <3>1. ASSUME NEW d \in Client, NEW l \in C!Key, joined'[d][l] # C!NoId, <<d, l>> \notin cut'
          PROVE  \E f \in forwarders' : f.client = d /\ f.key = l /\ f.channel = joined'[d][l]
      <4>1. ~ (d = c /\ l = k) /\ joined'[d][l] = joined[d][l] /\ <<d, l>> \notin cut
        BY <1>2, <2>1, <3>1
      <4>2. PICK f \in forwarders : f.client = d /\ f.key = l /\ f.channel = joined[d][l]
        BY <4>1, <3>1 DEF EntriesServed
      <4> QED
        BY <2>2, <4>1, <4>2
    <3> QED
      BY <3>1 DEF EntriesServed
  <2>6. C!NothingMissed'
    <3>1. ASSUME NEW d \in Client, NEW m \in owed'[d]
          PROVE  \E f \in forwarders' : f.client = d /\ m \in C!Range(f.inbox)
      <4>1. /\ m \in owed[d]
            /\ d = c => \A f \in C!Tasks(c, k) : m \notin C!Range(f.inbox)
        BY <1>2, <3>1 DEF C!Forgive, C!TypeOK
      <4>2. PICK f \in forwarders : f.client = d /\ m \in C!Range(f.inbox)
        BY <4>1 DEF C!NothingMissed
      <4>3. f \in forwarders'
        BY <2>2, <4>1, <4>2 DEF C!Tasks
      <4> QED
        BY <4>2, <4>3
    <3> QED
      BY <3>1 DEF C!NothingMissed
  <2> QED
    BY <2>4, <2>5, <2>6
<1>3. ASSUME NEW c \in Client, NEW z \in Zone, C!Enter(c, z)
      PROVE  Kept
  <2>1. \A d \in Client : C!Online(d) => C!Online(d)'
    BY <1>3 DEF C!Enter, C!Online, C!TypeOK
  <2> QED
    BY <1>1, <1>3, <2>1 DEF C!Enter
<1>4. ASSUME NEW c \in Client, NEW z \in Zone, C!ChangeZone(c, z)
      PROVE  Kept
  <2>1. C!Online(c)' /\ (\A d \in Client \ {c} : zone'[d] = zone[d]) /\ AutoKey \in C!Key
    BY <1>4 DEF C!ChangeZone, C!Online, C!TypeOK, C!Key
  <2> QED
    BY <1>2, <1>4, <2>1 DEF C!ChangeZone
<1>5. ASSUME NEW c \in Client,
             \/ C!Ensure(c) \/ C!Insert(c) \/ (\E n \in Name : C!Join(c, n)) \/ C!Create(c)
             \/ C!JoinRow(c) \/ C!PartRow(c) \/ (\E i \in channels : C!Send(c, i)) \/ C!Fail(c)
      PROVE  Kept
  <2>1. UNCHANGED <<zone, forwarders, joined, owed, cut>>
    BY <1>5 DEF C!Ensure, C!Insert, C!Join, C!Create, C!JoinRow, C!PartRow, C!Send, C!Fail
  <2> QED
    BY <1>1, <2>1 DEF C!Online
<1>6. ASSUME NEW c \in Client, NEW n \in Name, C!Leave(c, n)
      PROVE  Kept
  <2>1. C!Online(c)' /\ (\A d \in Client \ {c} : zone'[d] = zone[d]) /\ n \in C!Key
    BY <1>6 DEF C!Leave, C!Free, C!Online, C!Key
  <2> QED
    BY <1>2, <1>6, <2>1 DEF C!Leave
<1>7. ASSUME NEW c \in Client, C!Subscribe(c)
      PROVE  Kept
  <2> DEFINE g == [client |-> c, key |-> call[c].key, channel |-> call[c].channel, inbox |-> <<>>]
  <2>1. /\ UNCHANGED <<zone, owed, cut>> /\ forwarders' = forwarders \cup {g}
        /\ joined' = [joined EXCEPT ![c][call[c].key] = call[c].channel]
    BY <1>7 DEF C!Subscribe, C!Admit
  <2>2. C!Online(c) /\ call[c].key \in C!Key /\ joined[c][call[c].key] = C!NoId
    BY <1>7 DEF C!Subscribe, C!Admit, CallsMeant, CallMeant, C!Idle
  <2>3. \A d \in Client, l \in C!Key :
            joined'[d][l] = IF d = c /\ l = call[c].key THEN call[c].channel ELSE joined[d][l]
    BY <2>1, <2>2 DEF C!TypeOK
  <2>4. \A f \in forwarders : ~ (f.client = c /\ f.key = call[c].key)
    BY <1>0, <2>2 DEF TasksHeld
  <2>5. g.client = c /\ g.key = call[c].key /\ g.channel = call[c].channel
    OBVIOUS
  <2> HIDE DEF g
  <2>6. TasksHeld'
    BY <1>0, <2>1, <2>2, <2>3, <2>4, <2>5 DEF TasksHeld, C!Online
  <2>7. EntriesServed'
    <3>1. ASSUME NEW d \in Client, NEW l \in C!Key, joined'[d][l] # C!NoId, <<d, l>> \notin cut'
          PROVE  \E f \in forwarders' : f.client = d /\ f.key = l /\ f.channel = joined'[d][l]
      <4>1. CASE d = c /\ l = call[c].key
        BY <2>1, <2>3, <2>5, <4>1
      <4>2. CASE ~ (d = c /\ l = call[c].key)
        <5>1. joined'[d][l] = joined[d][l] /\ <<d, l>> \notin cut
          BY <2>1, <2>3, <3>1, <4>2
        <5>2. \E f \in forwarders : f.client = d /\ f.key = l /\ f.channel = joined[d][l]
          BY <3>1, <5>1 DEF EntriesServed
        <5> QED
          BY <2>1, <5>1, <5>2
      <4> QED
        BY <4>1, <4>2
    <3> QED
      BY <3>1 DEF EntriesServed
  <2>8. C!NothingMissed'
    BY <2>1 DEF C!NothingMissed
  <2> QED
    BY <2>6, <2>7, <2>8
<1>8. ASSUME NEW c \in Client, C!Publish(c)
      PROVE  Kept
  <2> DEFINE i == call[c].channel
             m == sent + 1
  <2>1. m \in 1..MaxMessages
    BY <1>8 DEF C!Publish, C!TypeOK, C!ChannelsAssumption
  <2>2. forwarders' = {Heard(f, i, m) : f \in forwarders}
    BY <1>8, <2>1, Delivered DEF C!TypeOK
  <2>3. /\ UNCHANGED <<zone, joined, cut>>
        /\ \A d \in Client : \/ owed'[d] = owed[d]
                             \/ /\ owed'[d] = owed[d] \cup {m}
                                /\ \E k \in C!Key : joined[d][k] = i /\ <<d, k>> \notin cut
    BY <1>8 DEF C!Publish
  <2>i. i # C!NoId
    <3>1. i \in C!Id
      BY <1>8 DEF C!Publish, C!TypeOK, CallsMeant, CallMeant
    <3> QED
      BY <3>1 DEF C!Id, C!NoId, C!ChannelsAssumption
  <2>4. \A f \in forwarders :
            /\ Heard(f, i, m).client = f.client /\ Heard(f, i, m).key = f.key
            /\ Heard(f, i, m).channel = f.channel
            /\ C!Range(f.inbox) \subseteq C!Range(Heard(f, i, m).inbox)
            /\ f.channel = i => m \in C!Range(Heard(f, i, m).inbox)
    BY <1>0, <2>1, HeardTask
  <2> HIDE DEF i, m
  <2>5. TasksHeld'
    BY <2>2, <2>3, <2>4 DEF TasksHeld, C!Online
  <2>6. EntriesServed'
    BY <2>2, <2>3, <2>4 DEF EntriesServed
  <2>7. C!NothingMissed'
    <3>1. ASSUME NEW d \in Client, NEW n \in owed'[d]
          PROVE  \E f \in forwarders' : f.client = d /\ n \in C!Range(f.inbox)
      <4>1. CASE n \in owed[d]
        <5>1. PICK f \in forwarders : f.client = d /\ n \in C!Range(f.inbox)
          BY <4>1 DEF C!NothingMissed
        <5> QED
          BY <2>2, <2>4, <5>1
      <4>2. CASE n \notin owed[d]
        <5>1. PICK k \in C!Key : n = m /\ joined[d][k] = i /\ <<d, k>> \notin cut
          BY <2>3, <3>1, <4>2
        <5>2. PICK f \in forwarders : f.client = d /\ f.channel = i
          BY <2>i, <5>1 DEF EntriesServed
        <5> QED
          BY <2>2, <2>4, <5>1, <5>2
      <4> QED
        BY <4>1, <4>2
    <3> QED
      BY <3>1 DEF C!NothingMissed
  <2> QED
    BY <2>5, <2>6, <2>7
<1>9. ASSUME NEW c \in Client, C!Close(c)
      PROVE  Kept
  <2>1. /\ UNCHANGED channels
        /\ \A k \in C!Key : joined'[c][k] = C!NoId
        /\ \A d \in Client \ {c} : /\ zone'[d] = zone[d] /\ joined'[d] = joined[d]
                                  /\ owed'[d] = owed[d]
        /\ owed'[c] = {}
        /\ forwarders' = {f \in forwarders : f.client # c}
        /\ \A d \in Client \ {c}, k \in C!Key : <<d, k>> \in cut' <=> <<d, k>> \in cut
    BY <1>9 DEF C!Close, C!TypeOK
  <2>2. TasksHeld'
    BY <1>0, <2>1 DEF TasksHeld, C!Online
  <2>3. EntriesServed'
    <3>1. ASSUME NEW d \in Client, NEW l \in C!Key, joined'[d][l] # C!NoId, <<d, l>> \notin cut'
          PROVE  \E f \in forwarders' : f.client = d /\ f.key = l /\ f.channel = joined'[d][l]
      <4>1. d # c /\ joined'[d][l] = joined[d][l] /\ <<d, l>> \notin cut
        BY <2>1, <3>1
      <4>2. PICK f \in forwarders : f.client = d /\ f.key = l /\ f.channel = joined[d][l]
        BY <3>1, <4>1 DEF EntriesServed
      <4> QED
        BY <2>1, <4>1, <4>2
    <3> QED
      BY <3>1 DEF EntriesServed
  <2>4. C!NothingMissed'
    BY <2>1 DEF C!NothingMissed
  <2> QED
    BY <2>2, <2>3, <2>4
<1>10. ASSUME NEW f \in forwarders, C!Forward(f)
       PROVE  Kept
  <2> DEFINE g == [f EXCEPT !.inbox = Tail(@)]
  <2>1. /\ UNCHANGED <<zone, joined, cut>> /\ forwarders' = (forwarders \ {f}) \cup {g}
        /\ owed' = [owed EXCEPT ![f.client] = @ \ {Head(f.inbox)}]
    BY <1>10 DEF C!Forward
  <2>2. f.inbox \in Seq(1..MaxMessages) /\ f.inbox # <<>> /\ f \in C!Tasked
    BY <1>0, <1>10 DEF C!Tasked, C!Forward
  <2>3. /\ g.client = f.client /\ g.key = f.key /\ g.channel = f.channel
        /\ g.inbox = Tail(f.inbox)
    BY <2>2 DEF C!Tasked
  <2>4. C!Range(f.inbox) \subseteq C!Range(g.inbox) \cup {Head(f.inbox)}
    BY <2>2, <2>3, ReadOn
  <2> HIDE DEF g
  <2>5. TasksHeld'
    BY <1>0, <2>1, <2>3 DEF TasksHeld, C!Online
  <2>6. EntriesServed'
    BY <1>0, <2>1, <2>3 DEF EntriesServed
  <2>7. C!NothingMissed'
    <3>1. ASSUME NEW d \in Client, NEW m \in owed'[d]
          PROVE  \E h \in forwarders' : h.client = d /\ m \in C!Range(h.inbox)
      <4>1. m \in owed[d] /\ (d = f.client => m # Head(f.inbox))
        BY <1>0, <2>1, <3>1 DEF C!TypeOK
      <4>2. PICK h \in forwarders : h.client = d /\ m \in C!Range(h.inbox)
        BY <4>1 DEF C!NothingMissed
      <4>3. CASE h = f
        BY <2>1, <2>3, <2>4, <4>1, <4>2, <4>3
      <4>4. CASE h # f
        BY <2>1, <4>2, <4>4
      <4> QED
        BY <4>3, <4>4
    <3> QED
      BY <3>1 DEF C!NothingMissed
  <2> QED
    BY <2>5, <2>6, <2>7
<1>11. ASSUME NEW f \in forwarders, C!Cut(f)
       PROVE  Kept
  <2>1. /\ UNCHANGED <<zone, joined>> /\ forwarders' = forwarders \ {f}
        /\ owed' = [owed EXCEPT ![f.client] = @ \ C!Range(f.inbox)]
        /\ cut' = cut \cup {<<f.client, f.key>>}
    BY <1>11 DEF C!Cut
  <2>2. TasksHeld'
    BY <1>0, <2>1 DEF TasksHeld, C!Online
  <2>3. EntriesServed'
    <3>1. ASSUME NEW d \in Client, NEW l \in C!Key, joined'[d][l] # C!NoId, <<d, l>> \notin cut'
          PROVE  \E h \in forwarders' : h.client = d /\ h.key = l /\ h.channel = joined'[d][l]
      <4>1. PICK h \in forwarders : h.client = d /\ h.key = l /\ h.channel = joined[d][l]
        BY <2>1, <3>1 DEF EntriesServed
      <4>2. h # f
        BY <2>1, <3>1, <4>1
      <4> QED
        BY <2>1, <4>1, <4>2
    <3> QED
      BY <3>1 DEF EntriesServed
  <2>4. C!NothingMissed'
    <3>1. ASSUME NEW d \in Client, NEW m \in owed'[d]
          PROVE  \E h \in forwarders' : h.client = d /\ m \in C!Range(h.inbox)
      <4>1. m \in owed[d] /\ (d = f.client => m \notin C!Range(f.inbox))
        BY <1>0, <2>1, <3>1 DEF C!TypeOK
      <4>2. PICK h \in forwarders : h.client = d /\ m \in C!Range(h.inbox)
        BY <4>1 DEF C!NothingMissed
      <4>3. h # f
        BY <4>1, <4>2
      <4> QED
        BY <2>1, <4>2, <4>3
    <3> QED
      BY <3>1 DEF C!NothingMissed
  <2> QED
    BY <2>2, <2>3, <2>4
<1>12. CASE UNCHANGED C!vars
  BY <1>1, <1>12 DEF C!vars, C!Online
<1> QED
  BY <1>3, <1>4, <1>5, <1>6, <1>7, <1>8, <1>9, <1>10, <1>11, <1>12 DEF C!Next

\* One channel of a zone: the one that finds the zone without makes it.
LEMMA ChatIndex ==
  ASSUME C!ChannelsAssumption, C!TypeOK, CallsMeant, OneOfZone, [C!Next]_C!vars
  PROVE  OneOfZone'
<1>1. CASE UNCHANGED channels
  BY <1>1 DEF OneOfZone
<1>2. ASSUME NEW c \in Client, C!Insert(c)
      PROVE  OneOfZone'
  <2>1. \/ channels' = channels
        \/ channels' = channels \cup {C!NewId(zone[c])} /\ \A i \in channels : i[1] # zone[c]
    BY <1>2 DEF C!Insert, C!ChannelsOf
  <2>2. C!NewId(zone[c])[1] = zone[c]
    BY DEF C!NewId
  <2> QED
    BY <2>1, <2>2 DEF OneOfZone
<1>3. ASSUME NEW c \in Client, C!Create(c)
      PROVE  OneOfZone'
  <2>1. call[c].key \in Name /\ call[c].key \notin Zone
    BY <1>3 DEF C!Create, CallsMeant, CallMeant, C!Key, C!ChannelsAssumption
  <2>2. channels' = channels \cup {C!NewId(call[c].key)} /\ C!NewId(call[c].key)[1] = call[c].key
    BY <1>3 DEF C!Create, C!NewId
  <2> QED
    BY <2>1, <2>2 DEF OneOfZone
<1>4. ASSUME NEW c \in Client,
             \/ \E z \in Zone : C!Enter(c, z) \/ C!ChangeZone(c, z)
             \/ C!Ensure(c) \/ (\E n \in Name : C!Join(c, n) \/ C!Leave(c, n))
             \/ C!JoinRow(c) \/ C!Subscribe(c) \/ C!PartRow(c)
             \/ (\E i \in channels : C!Send(c, i)) \/ C!Publish(c) \/ C!Fail(c) \/ C!Close(c)
      PROVE  UNCHANGED channels
  BY <1>4 DEF C!Enter, C!ChangeZone, C!Ensure, C!Join, C!Leave, C!JoinRow, C!Subscribe, C!PartRow,
              C!Send, C!Publish, C!Fail, C!Close
<1>5. ASSUME NEW f \in forwarders, C!Forward(f) \/ C!Cut(f)
      PROVE  UNCHANGED channels
  BY <1>5 DEF C!Forward, C!Cut
<1> QED
  BY <1>1, <1>2, <1>3, <1>4, <1>5 DEF C!Next, C!vars

LEMMA ChatRows ==
  ASSUME C!ChannelsAssumption, C!TypeOK, CallsMeant, EntriesMeant, RowsKept, [C!Next]_C!vars
  PROVE  RowsKept'
<1> DEFINE Row(c) ==
             /\ \A n \in Name : joined[c][n][1] = n => <<joined[c][n], AccountOf[c]>> \in members
             /\ call[c].at = "subscribing" /\ call[c].channel[1] \in Name =>
                   <<call[c].channel, AccountOf[c]>> \in members
<1> USE DEF C!history
<1>0. RowsKept = \A c \in Client : Alone(c) => Row(c)
  BY DEF RowsKept
<1>a. RowsKept' = \A c \in Client : Alone(c) => Row(c)'
  BY DEF RowsKept, Alone
<1>n. /\ Name \subseteq C!Key /\ AutoKey \in C!Key /\ \A c \in Client : zone[c] \notin Name
      /\ C!NoId[1] \notin Name
  BY DEF C!Key, C!NoId, C!TypeOK, C!ChannelsAssumption
<1>k. ASSUME NEW c \in Client, Row(c), members \subseteq members', call'[c].at # "subscribing",
             \A n \in Name : \/ joined'[c][n] = joined[c][n] \/ joined'[c][n] = C!NoId
                             \/ /\ call[c].at = "subscribing"
                                /\ joined'[c][n] = call[c].channel
      PROVE  Row(c)'
  <2>1. ASSUME NEW n \in Name, joined'[c][n][1] = n
        PROVE  <<joined'[c][n], AccountOf[c]>> \in members'
    <3>1. joined'[c][n] # C!NoId
      BY <1>n, <2>1
    <3>2. CASE joined'[c][n] = joined[c][n]
      BY <1>k, <2>1, <3>2
    <3>3. CASE call[c].at = "subscribing" /\ joined'[c][n] = call[c].channel
      BY <1>k, <2>1, <3>3
    <3> QED
      BY <1>k, <3>1, <3>2, <3>3
  <2> QED
    BY <1>k, <2>1
\* What a connection does to itself, if it takes no row out.
<1>1. ASSUME NEW c \in Client, \A d \in Client \ {c} : joined'[d] = joined[d] /\ call'[d] = call[d],
             members \subseteq members', Alone(c) => Row(c)'
      PROVE  RowsKept'
  BY <1>1, <1>0, <1>a
<1>2. ASSUME members \subseteq members', UNCHANGED joined,
             \A d \in Client : call'[d] = call[d] \/ call'[d].at # "subscribing"
                                  \/ call'[d].channel[1] \notin Name
      PROVE  RowsKept'
  BY <1>2, <1>0, <1>a
<1>3. CASE UNCHANGED C!vars
  BY <1>2, <1>3 DEF C!vars
<1>4. ASSUME NEW c \in Client,
             \/ \E z \in Zone : C!Enter(c, z)
             \/ C!Ensure(c) \/ C!Insert(c) \/ (\E n \in Name : C!Join(c, n)) \/ C!Create(c)
             \/ (\E i \in channels : C!Send(c, i)) \/ C!Publish(c) \/ C!Fail(c)
      PROVE  RowsKept'
  <2>1. members \subseteq members' /\ UNCHANGED joined
    BY <1>4 DEF C!Enter, C!Ensure, C!Insert, C!Join, C!Create, C!Send, C!Publish, C!Fail
  <2>2. ASSUME NEW r, C!Goto(c, r), r.at # "subscribing" \/ r.channel[1] \notin Name
        PROVE  \A d \in Client : call'[d] = call[d] \/ call'[d].at # "subscribing"
                                    \/ call'[d].channel[1] \notin Name
    BY <2>2 DEF C!Goto, C!TypeOK
  <2>i. C!Idle.at # "subscribing"
    BY DEF C!Idle
  <2>d. \A at, k, i : C!Doing(at, k, i).at = at /\ C!Doing(at, k, i).channel = i
    BY DEF C!Doing
  <2>3. ASSUME NEW z \in Zone, C!Enter(c, z)
        PROVE  RowsKept'
    <3>1. C!Goto(c, C!Doing("ensuring", AutoKey, C!NoId)) \/ C!Goto(c, C!Idle)
      BY <2>3 DEF C!Enter, C!AutoJoin
    <3> QED
      BY <1>2, <2>1, <2>2, <2>i, <2>d, <3>1
  <2>4. CASE C!Ensure(c) \/ C!Insert(c)
    <3>1. \/ C!Goto(c, C!Doing("inserting", AutoKey, C!NoId))
          \/ \E i \in channels' : /\ i[1] = zone[c]
                                  /\ C!Goto(c, C!Doing("subscribing", AutoKey, i))
      BY <2>4 DEF C!Ensure, C!Insert, C!ChannelsOf
    <3> QED
      BY <1>2, <1>n, <2>1, <2>2, <2>d, <3>1
  <2>5. ASSUME NEW n \in Name, C!Join(c, n)
        PROVE  RowsKept'
    <3>1. \/ C!Goto(c, C!Doing("creating", n, C!NoId))
          \/ \E i \in channels : C!Goto(c, C!Doing("joining", n, i))
      BY <2>5 DEF C!Join, C!ChannelsOf
    <3> QED
      BY <1>2, <2>1, <2>2, <2>d, <3>1
  <2>6. CASE C!Create(c)
    <3>1. \E k, i : C!Goto(c, C!Doing("joining", k, i))
      BY <2>6 DEF C!Create
    <3> QED
      BY <1>2, <2>1, <2>2, <2>d, <3>1
  <2>7. ASSUME NEW i \in channels, C!Send(c, i)
        PROVE  RowsKept'
    <3>1. C!Goto(c, C!Doing("publishing", None, i))
      BY <2>7 DEF C!Send
    <3> QED
      BY <1>2, <2>1, <2>2, <2>d, <3>1
  <2>8. CASE C!Publish(c) \/ C!Fail(c)
    <3>1. C!Goto(c, C!Idle)
      BY <2>8 DEF C!Publish, C!Fail
    <3> QED
      BY <1>2, <2>1, <2>2, <2>i, <3>1
  <2> QED
    BY <1>4, <2>3, <2>4, <2>5, <2>6, <2>7, <2>8
<1>5. ASSUME NEW c \in Client, NEW z \in Zone, C!ChangeZone(c, z)
      PROVE  RowsKept'
  <2>1. /\ members' = members
        /\ \A d \in Client \ {c} : joined'[d] = joined[d] /\ call'[d] = call[d]
        /\ \A n \in Name : joined'[c][n] = joined[c][n] \/ joined'[c][n] = C!NoId
        /\ call'[c] \in {C!Doing("ensuring", AutoKey, C!NoId), C!Idle}
    BY <1>5, <1>n DEF C!ChangeZone, C!AutoJoin, C!Goto, C!TypeOK
  <2>2. call'[c].at # "subscribing"
    BY <2>1 DEF C!Doing, C!Idle
  <2> QED
    BY <1>0, <1>1, <1>k, <2>1, <2>2
<1>6. ASSUME NEW c \in Client, C!JoinRow(c)
      PROVE  RowsKept'
  <2>1. call[c] \in C!Calls \ {C!Idle}
    BY <1>6 DEF C!JoinRow, C!TypeOK, C!Idle
  <2>2. /\ members' = members \cup {<<call[c].channel, AccountOf[c]>>} /\ UNCHANGED joined
        /\ \A d \in Client \ {c} : call'[d] = call[d]
        /\ call'[c] = [call[c] EXCEPT !.at = "subscribing"]
    BY <1>6 DEF C!JoinRow, C!Goto, C!TypeOK
  <2>3. call'[c].channel = call[c].channel
    BY <2>1, <2>2 DEF C!Calls
  <2> QED
    BY <1>0, <1>1, <2>2, <2>3
<1>7. ASSUME NEW c \in Client, C!Subscribe(c)
      PROVE  RowsKept'
  <2>1. /\ members' = members /\ call[c].at = "subscribing" /\ call[c].key \in C!Key
        /\ \A d \in Client \ {c} : joined'[d] = joined[d] /\ call'[d] = call[d]
        /\ \A n \in Name : joined'[c][n] = call[c].channel \/ joined'[c][n] = joined[c][n]
        /\ call'[c] = C!Idle
    BY <1>7, <1>n DEF C!Subscribe, C!Admit, C!Goto, C!TypeOK, CallsMeant, CallMeant
  <2>2. call'[c].at # "subscribing"
    BY <2>1 DEF C!Idle
  <2> QED
    BY <1>0, <1>1, <1>k, <2>1, <2>2
<1>8. ASSUME NEW c \in Client, NEW n \in Name, C!Leave(c, n)
      PROVE  RowsKept'
  <2>1. /\ members' = members
        /\ \A d \in Client \ {c} : joined'[d] = joined[d] /\ call'[d] = call[d]
        /\ \A k \in Name : joined'[c][k] = joined[c][k] \/ joined'[c][k] = C!NoId
        /\ call'[c] = C!Doing("parting", n, joined[c][n])
    BY <1>8, <1>n DEF C!Leave, C!Goto, C!TypeOK
  <2>2. call'[c].at # "subscribing"
    BY <2>1 DEF C!Doing
  <2> QED
    BY <1>0, <1>1, <1>k, <2>1, <2>2
\* The row that goes is of a channel that its account, alone, is not in.
<1>9. ASSUME NEW c \in Client, C!PartRow(c)
      PROVE  RowsKept'
  <2>1. /\ members' = members \ {<<call[c].channel, AccountOf[c]>>} /\ UNCHANGED joined
        /\ \A d \in Client \ {c} : call'[d] = call[d]
        /\ call'[c] = C!Idle /\ call[c].at = "parting"
    BY <1>9 DEF C!PartRow, C!Goto, C!TypeOK
  <2>2. /\ call[c].key \in Name /\ joined[c][call[c].key] = C!NoId
        /\ call[c].channel[1] \in {call[c].key, zone[c]}
    BY <1>n, <2>1 DEF CallsMeant, CallMeant, MayHold
  <2>4. \A n \in Name : joined[c][n][1] = n => joined[c][n] # call[c].channel
    BY <1>n, <2>2
  <2>5. ASSUME NEW d \in Client, Alone(d)
        PROVE  Row(d)'
    <3>1. CASE d = c
      <4>1. call'[c].at # "subscribing"
        BY <2>1 DEF C!Idle
      <4> QED
        BY <1>0, <2>1, <2>4, <2>5, <3>1, <4>1
    <3>2. CASE d # c
      <4>1. AccountOf[d] # AccountOf[c]
        BY <2>5, <3>2 DEF Alone
      <4> QED
        BY <1>0, <2>1, <2>5, <3>2, <4>1
    <3> QED
      BY <3>1, <3>2
  <2> QED
    BY <1>a, <2>5
<1>10. ASSUME NEW c \in Client, C!Close(c)
       PROVE  RowsKept'
  <2>1. /\ members' = members /\ call' = call /\ call[c] = C!Idle
        /\ \A d \in Client \ {c} : joined'[d] = joined[d]
        /\ \A n \in Name : joined'[c][n] = C!NoId
    BY <1>10, <1>n DEF C!Close, C!TypeOK
  <2>2. call'[c].at # "subscribing"
    BY <2>1 DEF C!Idle
  <2> QED
    BY <1>1, <1>n, <2>1, <2>2
<1>11. ASSUME NEW f \in forwarders, C!Forward(f) \/ C!Cut(f)
       PROVE  RowsKept'
  <2>1. UNCHANGED <<members, joined, call>>
    BY <1>11 DEF C!Forward, C!Cut
  <2> QED
    BY <1>2, <2>1
<1> QED
  BY <1>3, <1>4, <1>5, <1>6, <1>7, <1>8, <1>9, <1>10, <1>11 DEF C!Next

LEMMA InitChat == C!Init => ChatInv
<1> SUFFICES ASSUME C!Init
             PROVE  ChatInv
  OBVIOUS
<1> USE ChatAssumption DEF C!Init, C!Idle
<1>1. C!TypeOK
  BY DEF C!TypeOK, C!Calls, C!ChannelsAssumption
<1>2. CallsMeant /\ EntriesMeant
  BY DEF CallsMeant, CallMeant, EntriesMeant, EntriesOf
<1>3. OneOfZone /\ TasksHeld
  BY DEF OneOfZone, TasksHeld
<1>4. EntriesServed /\ C!NothingMissed
  BY DEF EntriesServed, C!NothingMissed
<1>5. RowsKept
  BY DEF RowsKept, C!Key, C!NoId, C!ChannelsAssumption
<1> QED
  BY <1>1, <1>2, <1>3, <1>4, <1>5 DEF ChatInv

\* Chat keeps its records straight at every step: calls know what they found,
\* entries have their tasks, tasks their entries, zones one channel, and whoever
\* joined a group channel has its row, unless another connection of the account
\* took it away (channels.rs, session.rs).
THEOREM ChannelsInvariant == C!Spec => []ChatInv
<1>1. ChatInv /\ [C!Next]_C!vars => ChatInv'
  BY ChatAssumption, ChatTypes, ChatMeant, ChatTasks, ChatIndex, ChatRows DEF ChatInv
<1> QED
  BY <1>1, InitChat, PTL DEF C!Spec

\* Nobody is in the channel of a zone it is not in, and all who are in a channel of
\* one zone are in the same, however the calls that look it up and make it overlap
\* (ensure_zone_channel) with those of clients that use its key for themselves.
THEOREM ZoneMatesMeet == C!Spec => []ZoneMatesTogether
<1>1. ChatInv => ZoneMatesTogether
  BY ChatAssumption DEF ChatInv, EntriesMeant, EntriesOf, OneOfZone, ZoneMatesTogether,
         C!ZoneMatesTogether, C!OfZone, C!Online, C!NoId, MayHold, C!Key, C!TypeOK,
         C!ChannelsAssumption
<1> QED
  BY <1>1, ChannelsInvariant, PTL

\* What others publish to a channel between a client's Joined and its Left is with
\* one of the client's tasks until it is forwarded, as long as Redis keeps the
\* subscription.
THEOREM NothingIsMissed == C!Spec => []NothingMissed
<1>1. ChatInv => NothingMissed
  BY DEF ChatInv, NothingMissed
<1> QED
  BY <1>1, ChannelsInvariant, PTL

\* A task that forwards to a client is the one that the entry of its key holds, so
\* that leaving the channel ends it; and whoever has joined a group channel is a
\* member of it, if its account has no other connection.
THEOREM EntriesRule == C!Spec => [](C!ForwardersHeld /\ C!JoinedMeansMember)
<1>1. ChatInv => C!ForwardersHeld
  BY DEF ChatInv, TasksHeld, C!ForwardersHeld, C!Tasks
<1>2. ChatInv => C!JoinedMeansMember
  BY DEF ChatInv, RowsKept, Alone, C!JoinedMeansMember
<1> QED
  BY <1>1, <1>2, ChannelsInvariant, PTL
=============================================================================
