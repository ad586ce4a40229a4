---------------------------- MODULE ZonesProofs ----------------------------
(***************************************************************************)
(* What is proved of zones, for any players, zones, links and thresholds.  *)
(* First the Sessions maps (PresenceInv): who is in them while it joins,   *)
(* hops or crosses, and that nobody is in two of them (OneLayer).          *)
(*                                                                         *)
(* Then where players are beyond those maps: nobody in the loop is lost    *)
(* (NeverLost), a settled player stands in the world and the Sessions map  *)
(* of the layer its session talks to (SettledInPlace), and presence moves  *)
(* as Placement says (ImplementsPlacement).                                *)
(*                                                                         *)
(* SettledInPlace is about commands that are still queued.  What a queue   *)
(* will have made of a player (Final) is true at exactly one place, the    *)
(* one it is bound for (IsAt), whatever is still to be taken, carried,     *)
(* announced or followed.                                                  *)
(*                                                                         *)
(* Last, that a zone runs no more layers than its players called for       *)
(* (LayersEarned): the Sessions maps of its layers are disjoint, so their  *)
(* sizes add up (DisjointSets).                                            *)
(***************************************************************************)
EXTENDS Zones, FiniteSetTheorems, SequenceTheorems, TLAPS

\* A session past its join has a layer, and a hop one it is bound for.
Placed ==
    \A e \in Entity :
        /\ pc[e] # "new" => at[e] \in Place
        /\ pc[e] \in {"asking", "hopping"} => dest[e] \in Place

TypeInv == TypeOK /\ Placed

LEMMA InitTypeInv == Init => TypeInv
  BY ConstantsAssumption DEF Init, TypeInv, TypeOK, Placed, Handoffs

\* The layers that run are places, and so is the next one.
LEMMA RunningPlaces ==
  ASSUME TypeOK, NEW z \in Zone
  PROVE  /\ Running(z) \subseteq Place
         /\ <<z, 0>> \in Place
         /\ layers[z] < MaxLayers => <<z, layers[z]>> \in Place
  BY ConstantsAssumption DEF TypeOK, Running, Place, Layer

LEMMA CommandType ==
  ASSUME NEW e \in Entity
  PROVE  /\ \A op \in {"spawn", "despawn", "position_of"} : Command(op, e) \in Commands
         /\ \A z \in Zone : Move(e, z) \in Commands
  BY DEF Command, Move, Commands

LEMMA SendType ==
  ASSUME TypeOK, NEW p \in Place, NEW c \in Commands, Send(p, c)
  PROVE  queue' \in [Place -> Seq(Commands)]
  BY DEF TypeOK, Send

LEMMA SpawnAtType ==
  ASSUME TypeInv, NEW e \in Entity, NEW p \in Place, SpawnAt(e, p),
         layers' \in [Zone -> 1..MaxLayers]
  PROVE  TypeInv'
<1>1. Command("spawn", e) \in Commands
  BY CommandType
<1>2. queue' \in [Place -> Seq(Commands)]
  BY <1>1, SendType DEF SpawnAt, TypeInv
<1>3. TypeOK'
  BY <1>2 DEF TypeInv, TypeOK, SpawnAt, Goto
<1>4. Placed'
  BY DEF TypeInv, TypeOK, Placed, SpawnAt, Goto
<1>5. QED
  BY <1>3, <1>4 DEF TypeInv

LEMMA TakeType ==
  ASSUME TypeInv, NEW p \in Place, Take(p)
  PROVE  TypeInv'
<1> DEFINE c == Head(queue[p])
<1>1. c \in Commands /\ queue[p] \in Seq(Commands) /\ Tail(queue[p]) \in Seq(Commands)
  BY DEF TypeInv, TypeOK, Take
<1>2. c.entity \in Entity /\ (c.op = "move" => c.to \in Zone)
  BY <1>1 DEF Commands
<1>3. queue' \in [Place -> Seq(Commands)]
  BY <1>1 DEF TypeInv, TypeOK, Take
<1>4. world' \in [Place -> SUBSET Entity]
  BY <1>2 DEF TypeInv, TypeOK, Take
<1>5. moves' \in [Place -> [Entity -> Zone \cup {None}]]
  <2>1. CASE c.op = "move"
    <3>1. moves' = [moves EXCEPT ![p][c.entity] = IF @ = None THEN c.to ELSE @]
      BY <2>1 DEF Take
    <3>2. QED
      BY <1>2, <2>1, <3>1 DEF TypeInv, TypeOK
  <2>2. CASE c.op # "move"
    BY <2>2 DEF TypeInv, TypeOK, Take
  <2>3. QED
    BY <2>1, <2>2
<1>6. answer' \in [Entity -> {"none", "present", "absent"}]
  BY <1>2 DEF TypeInv, TypeOK, Take
<1>7. QED
  BY <1>3, <1>4, <1>5, <1>6 DEF TypeInv, TypeOK, Placed, Take

LEMMA TickType ==
  ASSUME TypeInv, NEW p \in Place, Tick(p)
  PROVE  TypeInv'
<1>1. Crossing(p) \cap sessions[p] \subseteq {e \in Entity : moves[p][e] \in Zone}
  BY DEF TypeInv, TypeOK, Crossing
<1>2. {[entity |-> e, to |-> moves[p][e], stage |-> "leaving"] :
          e \in Crossing(p) \cap sessions[p]} \subseteq Handoffs
  BY <1>1 DEF Handoffs
<1>3. handoffs' \subseteq Handoffs
  BY <1>2 DEF Tick, TypeInv, TypeOK
<1>4. moves' \in [Place -> [Entity -> Zone \cup {None}]]
  BY DEF Tick, TypeInv, TypeOK
<1>5. QED
  BY <1>3, <1>4 DEF Tick, TypeInv, TypeOK, Placed, connection

LEMMA CarryType ==
  ASSUME TypeInv, NEW h \in handoffs, Arrive(h) \/ Announce(h)
  PROVE  TypeInv'
<1>1. h \in Handoffs /\ h.entity \in Entity /\ h.to \in Zone
  BY DEF TypeInv, TypeOK, Handoffs
<1>2. CASE Arrive(h)
  <2>1. <<h.to, 0>> \in Place
    BY <1>1, RunningPlaces DEF TypeInv
  <2>2. Command("spawn", h.entity) \in Commands
    BY <1>1, CommandType
  <2>3. queue' \in [Place -> Seq(Commands)]
    BY <1>2, <2>1, <2>2, SendType DEF Arrive, TypeInv
  <2>4. [h EXCEPT !.stage = "arriving"] \in Handoffs
    BY <1>1 DEF Handoffs
  <2>5. handoffs' \subseteq Handoffs
    BY <1>2, <2>4 DEF Arrive, TypeInv, TypeOK
  <2>6. QED
    BY <1>1, <1>2, <2>1, <2>3, <2>5 DEF Arrive, TypeInv, TypeOK, Placed, connection, actors
<1>3. CASE Announce(h)
  <2>1. changed' \in [Entity -> Seq(Zone)]
    BY <1>1, <1>3 DEF Announce, TypeInv, TypeOK
  <2>2. QED
    BY <1>3, <2>1 DEF Announce, TypeInv, TypeOK, Placed, actors
<1>4. QED
  BY <1>2, <1>3

LEMMA SessionType ==
  ASSUME TypeInv, NEW e \in Entity, Session(e)
  PROVE  TypeInv'
<1> USE DEF Goto
<1>1. CASE JoinGroupmate(e)
  <2>1. PICK f \in Fellows[e] : \E p \in JoinLayerOf(HomeZone[e], f) : SpawnAt(e, p)
    BY <1>1 DEF JoinGroupmate
  <2>2. PICK p \in JoinLayerOf(HomeZone[e], f) : SpawnAt(e, p)
    BY <2>1
  <2>3. p \in Place
    BY RunningPlaces, ConstantsAssumption DEF TypeInv, JoinLayerOf, LayersHolding
  <2>4. layers' \in [Zone -> 1..MaxLayers]
    BY <1>1 DEF JoinGroupmate, TypeInv, TypeOK
  <2>5. QED
    BY <2>2, <2>3, <2>4, SpawnAtType
<1>2. CASE JoinAssigned(e)
  <2> DEFINE z == HomeZone[e]
  <2>1. z \in Zone
    BY ConstantsAssumption
  <2>2. PICK p \in Emptiest(z) :
           \/ SpawnAt(e, p) /\ UNCHANGED layers
           \/ /\ layers[z] < MaxLayers
              /\ SpawnAt(e, <<z, layers[z]>>)
              /\ layers' = [layers EXCEPT ![z] = @ + 1]
    BY <1>2 DEF JoinAssigned
  <2>3. p \in Place
    BY <2>1, RunningPlaces DEF Emptiest, TypeInv
  <2>4. CASE SpawnAt(e, p) /\ UNCHANGED layers
    BY <2>3, <2>4, SpawnAtType DEF TypeInv, TypeOK
  <2>5. CASE /\ layers[z] < MaxLayers
             /\ SpawnAt(e, <<z, layers[z]>>)
             /\ layers' = [layers EXCEPT ![z] = @ + 1]
    <3>1. layers' \in [Zone -> 1..MaxLayers]
      BY <2>1, <2>5, ConstantsAssumption DEF TypeInv, TypeOK
    <3>2. <<z, layers[z]>> \in Place
      BY <2>1, <2>5, RunningPlaces DEF TypeInv
    <3>3. QED
      BY <2>5, <3>1, <3>2, SpawnAtType
  <2>6. QED
    BY <2>2, <2>4, <2>5
<1>3. CASE Register(e)
  BY <1>3 DEF Register, TypeInv, TypeOK, Placed, actors
<1>4. CASE Walk(e)
  <2>1. PICK z \in Zone : Send(at[e], Move(e, z))
    BY <1>4 DEF Walk
  <2>2. at[e] \in Place
    BY <1>4 DEF Walk, TypeInv, Placed
  <2>3. queue' \in [Place -> Seq(Commands)]
    BY <2>1, <2>2, CommandType, SendType DEF TypeInv
  <2>4. QED
    BY <1>4, <2>3 DEF Walk, TypeInv, TypeOK, Placed, actors, connection
<1>5. CASE FollowZoneChange(e)
  <2>1. changed[e] \in Seq(Zone) /\ changed[e] # <<>>
    BY <1>5 DEF FollowZoneChange, TypeInv, TypeOK
  <2>2. Head(changed[e]) \in Zone /\ Tail(changed[e]) \in Seq(Zone)
    BY <2>1
  <2>3. <<Head(changed[e]), 0>> \in Place
    BY <2>2, RunningPlaces DEF TypeInv
  <2>4. QED
    BY <1>5, <2>2, <2>3 DEF FollowZoneChange, TypeInv, TypeOK, Placed, actors
<1>6. CASE AskToHop(e)
  <2>1. at[e] \in Place /\ at[e][1] \in Zone
    BY <1>6 DEF AskToHop, TypeInv, Placed, Place
  <2>2. PICK f \in Fellows[e] : \E p \in JoinLayerOf(at[e][1], f) \ {at[e]} :
            dest' = [dest EXCEPT ![e] = p]
    BY <1>6 DEF AskToHop
  <2>3. PICK p \in JoinLayerOf(at[e][1], f) : dest' = [dest EXCEPT ![e] = p]
    BY <2>2
  <2>4. p \in Place
    BY <2>1, RunningPlaces DEF TypeInv, JoinLayerOf, LayersHolding
  <2>5. queue' \in [Place -> Seq(Commands)]
    <3>1. Command("position_of", e) \in Commands
      BY CommandType
    <3>2. Send(at[e], Command("position_of", e))
      BY <1>6 DEF AskToHop
    <3>3. QED
      BY <2>1, <3>1, <3>2, SendType DEF TypeInv
  <2>6. QED
    BY <1>6, <2>3, <2>4, <2>5 DEF AskToHop, TypeInv, TypeOK, Placed, actors
<1>7. CASE Abandon(e)
  BY <1>7 DEF Abandon, TypeInv, TypeOK, Placed, actors
<1>8. CASE Hop(e)
  <2>1. at[e] \in Place /\ dest[e] \in Place
    BY <1>8 DEF Hop, TypeInv, Placed
  <2>2. Command("despawn", e) \in Commands /\ Command("spawn", e) \in Commands
    BY CommandType
  <2>3. queue' \in [Place -> Seq(Commands)]
    BY <1>8, <2>2 DEF Hop, TypeInv, TypeOK
  <2>4. sessions' \in [Place -> SUBSET Entity]
    BY <1>8 DEF Hop, TypeInv, TypeOK
  <2>5. QED
    BY <1>8, <2>1, <2>3, <2>4 DEF Hop, TypeInv, TypeOK, Placed, actors
<1>9. CASE Settle(e)
  BY <1>9 DEF Settle, TypeInv, TypeOK, Placed, actors
<1>10. CASE Close(e)
  BY <1>10 DEF Close, TypeInv, TypeOK, Placed, actors
<1>11. CASE Depart(e)
  <2>1. at[e] \in Place
    BY <1>11 DEF Depart, TypeInv, Placed
  <2>2. queue' \in [Place -> Seq(Commands)]
    BY <1>11, <2>1, CommandType, SendType DEF Depart, TypeInv
  <2>3. sessions' \in [Place -> SUBSET Entity]
    BY <1>11, <2>1 DEF Depart, TypeInv, TypeOK
  <2>4. TypeOK'
    BY <1>11, <2>2, <2>3 DEF Depart, TypeInv, TypeOK, actors
  <2>5. Placed'
    BY <1>11 DEF Depart, TypeInv, TypeOK, Placed
  <2>6. QED
    BY <2>4, <2>5 DEF TypeInv
<1>12. CASE Fail(e)
  BY <1>12 DEF Fail, TypeInv, TypeOK, Placed, actors
<1>13. QED
  BY <1>1, <1>2, <1>3, <1>4, <1>5, <1>6, <1>7, <1>8, <1>9, <1>10, <1>11, <1>12 DEF Session

LEMMA NextTypeInv == TypeInv /\ [Next]_vars => TypeInv'
<1> SUFFICES ASSUME TypeInv, [Next]_vars PROVE TypeInv'
  OBVIOUS
<1>1. CASE \E e \in Entity : Session(e)
  BY <1>1, SessionType
<1>2. CASE \E p \in Place : Take(p) \/ Tick(p)
  BY <1>2, TakeType, TickType
<1>3. CASE \E h \in handoffs : Arrive(h) \/ Announce(h)
  BY <1>3, CarryType
<1>4. CASE UNCHANGED vars
  BY <1>4 DEF vars, TypeInv, TypeOK, Placed
<1>5. QED
  BY <1>1, <1>2, <1>3, <1>4 DEF Next

\* Every variable keeps its type, whatever the bounds.
THEOREM TypeCorrect == Spec => []TypeOK
<1>1. Spec => []TypeInv
  BY InitTypeInv, NextTypeInv, PTL DEF Spec
<1>2. TypeInv => TypeOK
  BY DEF TypeInv
<1>3. QED
  BY <1>1, <1>2, PTL
-----------------------------------------------------------------------------
(* PresenceInv is inductive once it is known that whoever asks for a hop, or  *)
(* is in one, is a hopper.                                                   *)

NoMove(q, e) == \A i \in DOMAIN q : q[i].op = "move" => q[i].entity # e

OnlyHoppersHop == \A e \in Entity : pc[e] \in {"asking", "hopping"} => e \in Hoppers

Inv == TypeInv /\ PresenceInv /\ OnlyHoppersHop

LEMMA StayPut ==
  HoppersStayPut <=>
     \A e \in Hoppers :
        /\ changed[e] = <<>>
        /\ \A h \in handoffs : h.entity # e
        /\ \A p \in Place : moves[p][e] = None /\ NoMove(queue[p], e)
  BY DEF HoppersStayPut, NoMove

LEMMA AppendNoMove ==
  ASSUME NEW q \in Seq(Commands), NEW c \in Commands, NEW e \in Entity,
         NoMove(q, e), c.op = "move" => c.entity # e
  PROVE  NoMove(Append(q, c), e)
  BY DEF NoMove

LEMMA TailNoMove ==
  ASSUME NEW q \in Seq(Commands), q # <<>>, NEW e \in Entity, NoMove(q, e)
  PROVE  /\ NoMove(Tail(q), e)
         /\ Head(q).op = "move" => Head(q).entity # e
  BY DEF NoMove

LEMMA SendNoMove ==
  ASSUME TypeOK, NEW p \in Place, NEW c \in Commands, Send(p, c),
         NEW e \in Entity, c.op = "move" => c.entity # e,
         \A r \in Place : NoMove(queue[r], e)
  PROVE  \A r \in Place : NoMove(queue'[r], e)
<1>1. \A r \in Place : queue[r] \in Seq(Commands)
  BY DEF TypeOK
<1>2. \A r \in Place : queue'[r] = IF r = p THEN Append(queue[p], c) ELSE queue[r]
  BY <1>1 DEF TypeOK, Send
<1>3. NoMove(Append(queue[p], c), e)
  BY <1>1, AppendNoMove
<1>4. QED
  BY <1>2, <1>3

LEMMA InitPresence == Init => Inv
<1> SUFFICES ASSUME Init PROVE Inv
  OBVIOUS
<1>1. TypeInv
  BY InitTypeInv
<1>2. OneLayerAtATime /\ NoneWhileCrossing /\ NoneWhileJoining
  BY DEF Init, OneLayerAtATime, NoneWhileCrossing, NoneWhileJoining
<1>3. HoppersStayPut /\ HoppersWhereTheyTalk /\ OnlyHoppersHop
  BY ConstantsAssumption DEF Init, HoppersStayPut, HoppersWhereTheyTalk, OnlyHoppersHop
<1>4. QED
  BY <1>1, <1>2, <1>3 DEF Inv, PresenceInv

LEMMA SpawnAtPresence ==
  ASSUME Inv, NEW e \in Entity, NEW p \in Place, pc[e] = "new", SpawnAt(e, p)
  PROVE  (PresenceInv /\ OnlyHoppersHop)'
<1> USE DEF Inv, PresenceInv, TypeInv
<1>1. \A f \in Entity : pc'[f] = IF f = e THEN "hydrating" ELSE pc[f]
  BY DEF SpawnAt, Goto, TypeOK
<1>2. (OneLayerAtATime /\ NoneWhileCrossing)'
  BY DEF SpawnAt, OneLayerAtATime, NoneWhileCrossing
<1>3. NoneWhileJoining'
  BY <1>1 DEF SpawnAt, NoneWhileJoining
<1>4. HoppersStayPut'
  <2> SUFFICES ASSUME NEW f \in Hoppers
               PROVE  /\ changed'[f] = <<>>
                      /\ \A h \in handoffs' : h.entity # f
                      /\ \A r \in Place : moves'[r][f] = None /\ NoMove(queue'[r], f)
    BY DEF HoppersStayPut, NoMove
  <2>1. f \in Entity
    BY ConstantsAssumption
  <2>2. Command("spawn", e) \in Commands /\ Command("spawn", e).op # "move"
    BY CommandType DEF Command
  <2>3. \A r \in Place : NoMove(queue'[r], f)
    BY <2>1, <2>2, StayPut, SendNoMove DEF SpawnAt
  <2>4. QED
    BY <2>3, StayPut DEF SpawnAt
<1>5. HoppersWhereTheyTalk'
  <2>1. \A f \in Hoppers : f # e => at'[f] = at[f]
    BY ConstantsAssumption DEF SpawnAt, TypeOK
  <2>2. \A r \in Place : e \notin sessions'[r]
    BY DEF SpawnAt, NoneWhileJoining
  <2>3. QED
    BY <1>1, <2>1, <2>2, ConstantsAssumption DEF SpawnAt, HoppersWhereTheyTalk
<1>6. OnlyHoppersHop'
  BY <1>1 DEF OnlyHoppersHop
<1>7. QED
  BY <1>2, <1>3, <1>4, <1>5, <1>6


LEMMA TakePresence ==
  ASSUME Inv, NEW p \in Place, Take(p)
  PROVE  (PresenceInv /\ OnlyHoppersHop)'
<1> DEFINE c == Head(queue[p])
<1> USE DEF Inv, PresenceInv, TypeInv
<1>1. (OneLayerAtATime /\ NoneWhileCrossing /\ NoneWhileJoining)'
  BY DEF Take, OneLayerAtATime, NoneWhileCrossing, NoneWhileJoining
<1>2. (HoppersWhereTheyTalk /\ OnlyHoppersHop)'
  BY DEF Take, HoppersWhereTheyTalk, OnlyHoppersHop
<1>3. HoppersStayPut'
  <2> SUFFICES ASSUME NEW f \in Hoppers
               PROVE  /\ changed'[f] = <<>>
                      /\ \A h \in handoffs' : h.entity # f
                      /\ \A r \in Place : moves'[r][f] = None /\ NoMove(queue'[r], f)
    BY DEF HoppersStayPut, NoMove
  <2>1. f \in Entity
    BY ConstantsAssumption
  <2>2. queue[p] \in Seq(Commands) /\ queue[p] # <<>> /\ NoMove(queue[p], f)
    BY StayPut DEF Take, TypeOK
  <2>3. NoMove(Tail(queue[p]), f) /\ (c.op = "move" => c.entity # f)
    BY <2>1, <2>2, TailNoMove
  <2>4. \A r \in Place : NoMove(queue'[r], f)
    BY <2>3, StayPut DEF Take, TypeOK
  <2>5. \A r \in Place : moves'[r][f] = None
    <3>1. CASE c.op = "move"
      <4>1. moves' = [moves EXCEPT ![p][c.entity] = IF @ = None THEN c.to ELSE @]
        BY <3>1 DEF Take
      <4>2. \A r \in Place : moves'[r][f] = moves[r][f]
        BY <2>1, <2>3, <3>1, <4>1 DEF TypeOK
      <4>3. QED
        BY <4>2, StayPut
    <3>2. CASE c.op # "move"
      BY <3>2, StayPut DEF Take
    <3>3. QED
      BY <3>1, <3>2
  <2>6. QED
    BY <2>4, <2>5, StayPut DEF Take
<1>4. QED
  BY <1>1, <1>2, <1>3

LEMMA TickPresence ==
  ASSUME Inv, NEW p \in Place, Tick(p)
  PROVE  (PresenceInv /\ OnlyHoppersHop)'
<1> DEFINE out == Crossing(p) \cap sessions[p]
           started == {[entity |-> e, to |-> moves[p][e], stage |-> "leaving"] : e \in out}
<1> USE DEF Inv, PresenceInv, TypeInv
<1>1. out \subseteq Entity
  BY DEF TypeOK
<1>2. /\ \A r \in Place : sessions'[r] = IF r = p THEN sessions[p] \ Crossing(p)
                                                  ELSE sessions[r]
      /\ handoffs' = handoffs \cup started
  BY DEF Tick, TypeOK
<1>3. OneLayerAtATime'
  BY <1>2 DEF OneLayerAtATime
<1>4. \A e \in out : /\ \A r \in Place : e \notin sessions'[r]
                     /\ \A h \in handoffs : h.stage = "leaving" => h.entity # e
                     /\ e \notin Hoppers
                     /\ pc[e] \notin {"new", "hydrating"}
  <2> SUFFICES ASSUME NEW e \in out
               PROVE  /\ \A r \in Place : e \notin sessions'[r]
                      /\ \A h \in handoffs : h.stage = "leaving" => h.entity # e
                      /\ e \notin Hoppers
                      /\ pc[e] \notin {"new", "hydrating"}
    OBVIOUS
  <2>1. e \in Entity /\ e \in sessions[p] /\ e \in Crossing(p) /\ moves[p][e] # None
    BY <1>1 DEF Crossing
  <2>2. \A r \in Place : e \notin sessions'[r]
    BY <1>2, <2>1 DEF OneLayerAtATime
  <2>3. \A h \in handoffs : h.stage = "leaving" => h.entity # e
    BY <2>1 DEF NoneWhileCrossing
  <2>4. e \notin Hoppers
    BY <2>1 DEF HoppersStayPut
  <2>5. pc[e] \notin {"new", "hydrating"}
    BY <2>1 DEF NoneWhileJoining
  <2>6. QED
    BY <2>2, <2>3, <2>4, <2>5
<1>5. /\ \A h \in started : h.entity \in out /\ h.stage = "leaving"
      /\ \A h, k \in started : h.entity = k.entity => h = k
  OBVIOUS
<1>6. NoneWhileCrossing'
  <2> SUFFICES ASSUME NEW h \in handoffs', h.stage = "leaving"
               PROVE  /\ \A r \in Place : h.entity \notin sessions'[r]
                      /\ \A k \in handoffs' :
                            k.stage = "leaving" /\ k.entity = h.entity => k = h
    BY DEF NoneWhileCrossing
  <2> HIDE DEF started, out
  <2>1. CASE h \in handoffs
    <3>1. h.entity \notin out
      BY <1>4, <2>1
    <3>2. QED
      BY <1>2, <1>5, <2>1, <3>1 DEF NoneWhileCrossing
  <2>2. CASE h \in started
    BY <1>2, <1>4, <1>5, <2>2
  <2>3. QED
    BY <1>2, <2>1, <2>2
<1>7. pc' = pc /\ at' = at /\ dest' = dest /\ changed' = changed /\ queue' = queue
  BY DEF Tick, connection
<1>8. NoneWhileJoining'
  BY <1>2, <1>4, <1>5, <1>7 DEF NoneWhileJoining
<1>9. HoppersStayPut'
  <2>1. \A f \in Hoppers, r \in Place : moves'[r][f] = None
    BY ConstantsAssumption DEF Tick, HoppersStayPut, TypeOK
  <2>2. \A f \in Hoppers : \A h \in handoffs' : h.entity # f
    BY <1>2, <1>4, <1>5 DEF HoppersStayPut
  <2>3. QED
    BY <1>7, <2>1, <2>2 DEF HoppersStayPut
<1>10. HoppersWhereTheyTalk' /\ OnlyHoppersHop'
  BY <1>2, <1>7 DEF HoppersWhereTheyTalk, OnlyHoppersHop
<1>11. QED
  BY <1>3, <1>6, <1>8, <1>9, <1>10

LEMMA CarryPresence ==
  ASSUME Inv, NEW h \in handoffs, Arrive(h) \/ Announce(h)
  PROVE  (PresenceInv /\ OnlyHoppersHop)'
<1> USE DEF Inv, PresenceInv, TypeInv
<1>1. h \in Handoffs /\ h.entity \in Entity /\ h.to \in Zone /\ h.entity \notin Hoppers
  BY DEF TypeOK, Handoffs, HoppersStayPut
<1>2. CASE Arrive(h)
  <2> DEFINE p == <<h.to, 0>>
             k == [h EXCEPT !.stage = "arriving"]
  <2>1. p \in Place /\ k.entity = h.entity /\ k.stage = "arriving"
    BY <1>1, RunningPlaces DEF Handoffs
  <2>2. /\ \A r \in Place : sessions'[r] = IF r = p THEN sessions[p] \cup {h.entity}
                                                    ELSE sessions[r]
        /\ handoffs' = (handoffs \ {h}) \cup {k}
        /\ pc' = pc /\ at' = at /\ dest' = dest /\ changed' = changed /\ moves' = moves
    BY <1>2, <2>1 DEF Arrive, TypeOK, connection, actors
  <2>3. /\ \A r \in Place : h.entity \notin sessions[r]
        /\ \A j \in handoffs : j.stage = "leaving" /\ j.entity = h.entity => j = h
    BY <1>2 DEF Arrive, NoneWhileCrossing
  <2>4. OneLayerAtATime'
    BY <2>2, <2>3 DEF OneLayerAtATime
  <2>5. NoneWhileCrossing'
    BY <2>1, <2>2, <2>3 DEF NoneWhileCrossing
  <2>6. NoneWhileJoining'
    BY <1>1, <2>1, <2>2 DEF NoneWhileJoining
  <2>7. HoppersStayPut'
    <3> SUFFICES ASSUME NEW f \in Hoppers
                 PROVE  /\ changed'[f] = <<>>
                        /\ \A j \in handoffs' : j.entity # f
                        /\ \A r \in Place : moves'[r][f] = None /\ NoMove(queue'[r], f)
      BY DEF HoppersStayPut, NoMove
    <3>1. Command("spawn", h.entity) \in Commands /\ Command("spawn", h.entity).op # "move"
      BY <1>1, CommandType DEF Command
    <3>2. f \in Entity /\ Send(p, Command("spawn", h.entity))
      BY <1>2, ConstantsAssumption DEF Arrive
    <3>3. \A r \in Place : NoMove(queue'[r], f)
      BY <2>1, <3>1, <3>2, StayPut, SendNoMove
    <3>4. QED
      BY <1>1, <2>1, <2>2, <3>3, StayPut
  <2>8. HoppersWhereTheyTalk' /\ OnlyHoppersHop'
    BY <1>1, <2>2 DEF HoppersWhereTheyTalk, OnlyHoppersHop
  <2>9. QED
    BY <2>4, <2>5, <2>6, <2>7, <2>8
<1>3. CASE Announce(h)
  <2>1. /\ handoffs' \subseteq handoffs
        /\ \A f \in Hoppers : changed'[f] = changed[f]
        /\ UNCHANGED <<actors, queue, sessions, pc, at, dest>>
    BY <1>1, <1>3, ConstantsAssumption DEF Announce, TypeOK
  <2>2. (OneLayerAtATime /\ NoneWhileCrossing /\ NoneWhileJoining)'
    BY <2>1 DEF OneLayerAtATime, NoneWhileCrossing, NoneWhileJoining
  <2>3. HoppersStayPut'
    BY <2>1 DEF HoppersStayPut, actors
  <2>4. HoppersWhereTheyTalk' /\ OnlyHoppersHop'
    BY <2>1 DEF HoppersWhereTheyTalk, OnlyHoppersHop
  <2>5. QED
    BY <2>2, <2>3, <2>4
<1>4. QED
  BY <1>2, <1>3


\* A session action that leaves the Sessions maps and the tasks alone keeps all
\* that is said of them.
LEMMA QuietPresence ==
  ASSUME Inv, NEW e \in Entity, UNCHANGED <<sessions, handoffs, moves>>,
         \A f \in Entity : pc'[f] \in {"new", "hydrating"} => pc[f] \in {"new", "hydrating"},
         \A f \in Hoppers : changed[f] = <<>> => changed'[f] = <<>>,
         \/ queue' = queue
         \/ \E p \in Place, c \in Commands :
               Send(p, c) /\ (c.op = "move" => c.entity \notin Hoppers)
  PROVE  (OneLayerAtATime /\ NoneWhileCrossing /\ NoneWhileJoining /\ HoppersStayPut)'
<1> USE DEF Inv, PresenceInv, TypeInv
<1>1. (OneLayerAtATime /\ NoneWhileCrossing /\ NoneWhileJoining)'
  BY DEF OneLayerAtATime, NoneWhileCrossing, NoneWhileJoining
<1>2. HoppersStayPut'
  <2> SUFFICES ASSUME NEW f \in Hoppers
               PROVE  /\ changed'[f] = <<>>
                      /\ \A h \in handoffs' : h.entity # f
                      /\ \A r \in Place : moves'[r][f] = None /\ NoMove(queue'[r], f)
    BY DEF HoppersStayPut, NoMove
  <2>1. f \in Entity
    BY ConstantsAssumption
  <2>2. \A r \in Place : NoMove(queue'[r], f)
    <3>1. CASE queue' = queue
      BY <3>1, StayPut
    <3>2. CASE queue' # queue
      <4>1. PICK p \in Place, c \in Commands :
                Send(p, c) /\ (c.op = "move" => c.entity \notin Hoppers)
        BY <3>2
      <4>2. QED
        BY <2>1, <4>1, StayPut, SendNoMove
    <3>3. QED
      BY <3>1, <3>2
  <2>3. QED
    BY <2>2, StayPut
<1>3. QED
  BY <1>1, <1>2

LEMMA SessionPresence ==
  ASSUME Inv, Walkers \cap Hoppers = {}, NEW e \in Entity, Session(e)
  PROVE  (PresenceInv /\ OnlyHoppersHop)'
<1> USE DEF Inv, PresenceInv, TypeInv, Goto
<1>1. CASE JoinGroupmate(e)
  <2>1. PICK p \in UNION {JoinLayerOf(HomeZone[e], f) : f \in Fellows[e]} : SpawnAt(e, p)
    BY <1>1 DEF JoinGroupmate
  <2>2. p \in Place
    BY <2>1, RunningPlaces, ConstantsAssumption DEF JoinLayerOf, LayersHolding
  <2>3. QED
    BY <1>1, <2>1, <2>2, SpawnAtPresence DEF JoinGroupmate
<1>2. CASE JoinAssigned(e)
  <2>1. HomeZone[e] \in Zone /\ pc[e] = "new"
    BY <1>2, ConstantsAssumption DEF JoinAssigned
  <2>2. PICK p \in Emptiest(HomeZone[e]) :
           \/ SpawnAt(e, p)
           \/ layers[HomeZone[e]] < MaxLayers /\ SpawnAt(e, <<HomeZone[e], layers[HomeZone[e]]>>)
    BY <1>2 DEF JoinAssigned
  <2>3. p \in Place
    BY <2>1, RunningPlaces DEF Emptiest
  <2>4. QED
    BY <2>1, <2>2, <2>3, RunningPlaces, SpawnAtPresence
<1>3. CASE Register(e)
  <2>1. /\ pc[e] = "hydrating" /\ at[e] \in Place
        /\ \A r \in Place, f \in Entity :
              f \in sessions'[r] <=> f \in sessions[r] \/ (f = e /\ r = at[e])
        /\ \A f \in Entity : pc'[f] = IF f = e THEN "joined" ELSE pc[f]
        /\ UNCHANGED <<moves, queue, handoffs, changed, at, dest>>
    BY <1>3 DEF Register, TypeOK, Placed, actors
  <2>2. (\A r \in Place : e \notin sessions[r]) /\ (\A h \in handoffs : h.entity # e)
    BY <2>1 DEF NoneWhileJoining
  <2>3. OneLayerAtATime'
    BY <2>1, <2>2 DEF OneLayerAtATime
  <2>4. NoneWhileCrossing' /\ NoneWhileJoining'
    <3>1. \A h \in handoffs : h.entity \in Entity
      BY DEF TypeOK, Handoffs
    <3>2. QED
      BY <2>1, <2>2, <3>1 DEF NoneWhileCrossing, NoneWhileJoining
  <2>5. HoppersStayPut'
    BY <2>1 DEF HoppersStayPut
  <2>6. HoppersWhereTheyTalk'
    BY <2>1, <2>2, ConstantsAssumption DEF HoppersWhereTheyTalk
  <2>7. OnlyHoppersHop'
    BY <2>1 DEF OnlyHoppersHop
  <2>8. QED
    BY <2>3, <2>4, <2>5, <2>6, <2>7
<1>4. CASE Walk(e)
  <2>1. e \in Walkers /\ e \notin Hoppers /\ at[e] \in Place
    BY <1>4 DEF Walk, Placed
  <2>2. PICK z \in Zone : Send(at[e], Move(e, z))
    BY <1>4 DEF Walk
  <2>3. Move(e, z) \in Commands /\ Move(e, z).entity = e
    BY CommandType DEF Move
  <2>4. UNCHANGED <<sessions, handoffs, moves, connection>>
    BY <1>4 DEF Walk, actors
  <2>5. (OneLayerAtATime /\ NoneWhileCrossing /\ NoneWhileJoining /\ HoppersStayPut)'
    BY <2>1, <2>2, <2>3, <2>4, QuietPresence DEF connection
  <2>6. (HoppersWhereTheyTalk /\ OnlyHoppersHop)'
    BY <2>4 DEF HoppersWhereTheyTalk, OnlyHoppersHop, connection
  <2>7. QED
    BY <2>5, <2>6
<1>5. CASE FollowZoneChange(e)
  <2>1. e \notin Hoppers
    BY <1>5 DEF FollowZoneChange, HoppersStayPut
  <2>2. /\ UNCHANGED <<sessions, handoffs, moves, queue, pc, dest>>
        /\ \A f \in Hoppers : changed'[f] = changed[f] /\ at'[f] = at[f]
    BY <1>5, <2>1, ConstantsAssumption DEF FollowZoneChange, TypeOK, actors
  <2>3. (OneLayerAtATime /\ NoneWhileCrossing /\ NoneWhileJoining /\ HoppersStayPut)'
    BY <2>2, QuietPresence
  <2>4. (HoppersWhereTheyTalk /\ OnlyHoppersHop)'
    BY <2>2 DEF HoppersWhereTheyTalk, OnlyHoppersHop
  <2>5. QED
    BY <2>3, <2>4
<1>6. CASE AskToHop(e)
  <2>1. /\ pc[e] = "joined" /\ e \in Hoppers /\ at[e] \in Place
        /\ \A f \in Entity : pc'[f] = IF f = e THEN "asking" ELSE pc[f]
        /\ \A f \in Entity : f # e => dest'[f] = dest[f]
        /\ UNCHANGED <<sessions, handoffs, moves, changed, at>>
        /\ Send(at[e], Command("position_of", e))
    BY <1>6 DEF AskToHop, TypeOK, Placed, actors
  <2>2. Command("position_of", e) \in Commands /\ Command("position_of", e).op # "move"
    BY CommandType DEF Command
  <2>3. (OneLayerAtATime /\ NoneWhileCrossing /\ NoneWhileJoining /\ HoppersStayPut)'
    BY <2>1, <2>2, QuietPresence
  <2>4. (HoppersWhereTheyTalk /\ OnlyHoppersHop)'
    BY <2>1, ConstantsAssumption DEF HoppersWhereTheyTalk, OnlyHoppersHop
  <2>5. QED
    BY <2>3, <2>4
<1>7. CASE Abandon(e)
  <2>1. /\ pc[e] = "asking"
        /\ \A f \in Entity : pc'[f] = IF f = e THEN "joined" ELSE pc[f]
        /\ \A f \in Entity : f # e => dest'[f] = dest[f]
        /\ UNCHANGED <<sessions, handoffs, moves, queue, changed, at>>
    BY <1>7 DEF Abandon, TypeOK, actors
  <2>2. (OneLayerAtATime /\ NoneWhileCrossing /\ NoneWhileJoining /\ HoppersStayPut)'
    BY <2>1, QuietPresence
  <2>3. (HoppersWhereTheyTalk /\ OnlyHoppersHop)'
    BY <2>1, ConstantsAssumption DEF HoppersWhereTheyTalk, OnlyHoppersHop
  <2>4. QED
    BY <2>2, <2>3
<1>8. CASE Hop(e)
  <2>1. /\ pc[e] = "asking" /\ e \in Hoppers /\ at[e] \in Place /\ dest[e] \in Place
        /\ \A f \in Entity : pc'[f] = IF f = e THEN "hopping" ELSE pc[f]
        /\ UNCHANGED <<handoffs, moves, changed, at, dest>>
    BY <1>8 DEF Hop, TypeOK, Placed, OnlyHoppersHop, actors
  <2>2. \A p \in Place : e \in sessions[p] => p = at[e]
    BY <2>1 DEF HoppersWhereTheyTalk
  <2>3. \A p \in Place : sessions'[p] = CASE p = at[e]   -> sessions[p] \ {e}
                                          [] p = dest[e] -> sessions[p] \cup {e}
                                          [] OTHER       -> sessions[p]
    BY <1>8 DEF Hop
  <2>4. \A p \in Place : /\ \A f \in Entity : f # e => (f \in sessions'[p] <=> f \in sessions[p])
                         /\ e \in sessions'[p] => p = dest[e]
    BY <2>1, <2>2, <2>3
  <2>5. \A h \in handoffs : h.entity # e
    BY <2>1 DEF HoppersStayPut
  <2>6. OneLayerAtATime'
    BY <2>4 DEF OneLayerAtATime
  <2>7. NoneWhileCrossing'
    <3>1. \A h \in handoffs : h.entity \in Entity
      BY DEF TypeOK, Handoffs
    <3>2. QED
      BY <2>1, <2>4, <2>5, <3>1 DEF NoneWhileCrossing
  <2>8. NoneWhileJoining'
    BY <2>1, <2>4 DEF NoneWhileJoining
  <2>9. HoppersStayPut'
    <3> SUFFICES ASSUME NEW f \in Hoppers, NEW p \in Place PROVE NoMove(queue'[p], f)
      BY <2>1, StayPut DEF HoppersStayPut, NoMove
    <3>1. f \in Entity /\ queue[p] \in Seq(Commands) /\ NoMove(queue[p], f)
      BY StayPut, ConstantsAssumption DEF TypeOK
    <3>2. /\ Command("despawn", e) \in Commands /\ Command("despawn", e).op # "move"
          /\ Command("spawn", e) \in Commands /\ Command("spawn", e).op # "move"
      BY CommandType DEF Command
    <3>3. /\ NoMove(Append(queue[p], Command("despawn", e)), f)
          /\ NoMove(Append(queue[p], Command("spawn", e)), f)
      BY <3>1, <3>2, AppendNoMove
    <3>4. queue'[p] \in {Append(queue[p], Command("despawn", e)),
                         Append(queue[p], Command("spawn", e)), queue[p]}
      BY <1>8 DEF Hop
    <3>5. QED
      BY <3>1, <3>3, <3>4
  <2>10. HoppersWhereTheyTalk'
    BY <2>1, <2>4, ConstantsAssumption DEF HoppersWhereTheyTalk
  <2>11. OnlyHoppersHop'
    BY <2>1 DEF OnlyHoppersHop
  <2>12. QED
    BY <2>6, <2>7, <2>8, <2>9, <2>10, <2>11
<1>9. CASE Settle(e)
  <2>1. /\ pc[e] = "hopping"
        /\ \A f \in Entity : pc'[f] = IF f = e THEN "joined" ELSE pc[f]
        /\ at'[e] = dest[e]
        /\ \A f \in Entity : f # e => at'[f] = at[f] /\ dest'[f] = dest[f]
        /\ UNCHANGED <<sessions, handoffs, moves, queue, changed>>
    BY <1>9 DEF Settle, TypeOK, actors
  <2>2. (OneLayerAtATime /\ NoneWhileCrossing /\ NoneWhileJoining /\ HoppersStayPut)'
    BY <2>1, QuietPresence
  <2>3. (HoppersWhereTheyTalk /\ OnlyHoppersHop)'
    BY <2>1, ConstantsAssumption DEF HoppersWhereTheyTalk, OnlyHoppersHop
  <2>4. QED
    BY <2>2, <2>3
<1>10. CASE Close(e)
  <2>1. /\ pc[e] = "joined"
        /\ \A f \in Entity : pc'[f] = IF f = e THEN "closing" ELSE pc[f]
        /\ UNCHANGED <<sessions, handoffs, moves, queue, changed, at, dest>>
    BY <1>10 DEF Close, TypeOK, actors
  <2>2. (OneLayerAtATime /\ NoneWhileCrossing /\ NoneWhileJoining /\ HoppersStayPut)'
    BY <2>1, QuietPresence
  <2>3. (HoppersWhereTheyTalk /\ OnlyHoppersHop)'
    BY <2>1, ConstantsAssumption DEF HoppersWhereTheyTalk, OnlyHoppersHop
  <2>4. QED
    BY <2>2, <2>3
<1>11. CASE Depart(e)
  <2>1. /\ pc[e] = "closing" /\ at[e] \in Place
        /\ \A f \in Entity : pc'[f] = IF f = e THEN "gone" ELSE pc[f]
        /\ \A p \in Place : sessions'[p] \subseteq sessions[p]
        /\ \A f \in Entity : changed[f] = <<>> => changed'[f] = <<>>
        /\ UNCHANGED <<handoffs, moves, at, dest>>
    BY <1>11 DEF Depart, TypeOK, Placed, actors
  <2>2. (OneLayerAtATime /\ NoneWhileCrossing /\ NoneWhileJoining)'
    BY <2>1 DEF OneLayerAtATime, NoneWhileCrossing, NoneWhileJoining
  <2>3. HoppersStayPut'
    <3> SUFFICES ASSUME NEW f \in Hoppers
                 PROVE  \A p \in Place : NoMove(queue'[p], f)
      BY <2>1, StayPut, ConstantsAssumption DEF HoppersStayPut, NoMove
    <3>1. Command("despawn", e) \in Commands /\ Command("despawn", e).op # "move"
      BY CommandType DEF Command
    <3>2. f \in Entity /\ Send(at[e], Command("despawn", e))
      BY <1>11, ConstantsAssumption DEF Depart
    <3>3. QED
      BY <2>1, <3>1, <3>2, StayPut, SendNoMove
  <2>4. (HoppersWhereTheyTalk /\ OnlyHoppersHop)'
    BY <2>1, ConstantsAssumption DEF HoppersWhereTheyTalk, OnlyHoppersHop
  <2>5. QED
    BY <2>2, <2>3, <2>4
<1>12. CASE Fail(e)
  <2>1. /\ \A f \in Entity : pc'[f] = IF f = e THEN "failed" ELSE pc[f]
        /\ \A f \in Entity : changed[f] = <<>> => changed'[f] = <<>>
        /\ UNCHANGED <<sessions, handoffs, moves, queue, at, dest>>
    BY <1>12 DEF Fail, TypeOK, actors
  <2>2. (OneLayerAtATime /\ NoneWhileCrossing /\ NoneWhileJoining /\ HoppersStayPut)'
    BY <2>1, QuietPresence, ConstantsAssumption
  <2>3. (HoppersWhereTheyTalk /\ OnlyHoppersHop)'
    BY <2>1, ConstantsAssumption DEF HoppersWhereTheyTalk, OnlyHoppersHop
  <2>4. QED
    BY <2>2, <2>3
<1>13. QED
  BY <1>1, <1>2, <1>3, <1>4, <1>5, <1>6, <1>7, <1>8, <1>9, <1>10, <1>11, <1>12 DEF Session

LEMMA NextPresence ==
  ASSUME Walkers \cap Hoppers = {}
  PROVE  Inv /\ [Next]_vars => Inv'
<1> SUFFICES ASSUME Inv, [Next]_vars PROVE Inv'
  OBVIOUS
<1>1. TypeInv'
  BY NextTypeInv DEF Inv
<1>2. (PresenceInv /\ OnlyHoppersHop)'
  <2>1. CASE \E e \in Entity : Session(e)
    BY <2>1, SessionPresence
  <2>2. CASE \E p \in Place : Take(p) \/ Tick(p)
    BY <2>2, TakePresence, TickPresence
  <2>3. CASE \E h \in handoffs : Arrive(h) \/ Announce(h)
    BY <2>3, CarryPresence
  <2>4. CASE UNCHANGED vars
    BY <2>4 DEF vars, Inv, PresenceInv, OnlyHoppersHop, OneLayerAtATime, NoneWhileCrossing,
                NoneWhileJoining, HoppersStayPut, HoppersWhereTheyTalk
  <2>5. QED
    BY <2>1, <2>2, <2>3, <2>4 DEF Next
<1>3. QED
  BY <1>1, <1>2 DEF Inv

\* If no client both walks through links and hops between layers, then sessions,
\* ticks and crossing tasks keep all of PresenceInv: nobody is in a Sessions map
\* while it joins or crosses, and a hopper only in the one its session has.
THEOREM PresenceInvariant ==
  ASSUME Walkers \cap Hoppers = {}
  PROVE  Spec => []PresenceInv
<1>1. Inv /\ [Next]_vars => Inv'
  BY NextPresence
<1>2. Inv => PresenceInv
  BY DEF Inv
<1>3. QED
  BY InitPresence, <1>1, <1>2, PTL DEF Spec

\* Under the same premise no connection is ever in the Sessions maps of two
\* layers, whatever the zones, links, thresholds and number of players: only the
\* interleaving of one player's own hop and crossing breaks it (the instance of
\* Zones_mixed.cfg).
THEOREM OneLayer ==
  ASSUME Walkers \cap Hoppers = {}
  PROVE  Spec => []OneLayerAtATime
<1>1. PresenceInv => OneLayerAtATime
  BY DEF PresenceInv
<1>2. QED
  BY PresenceInvariant, <1>1, PTL
----------------------------------------------------------------------------
(* Where players are.                                                      *)

Is(c, op, e) == c.op = op /\ c.entity = e
Has(q, op, e) == \E i \in DOMAIN q : Is(q[i], op, e)

\* e is in the world w once the commands of q are taken: it is spawned or there
\* already, and not despawned afterwards.
Final(q, w, e) ==
    \/ \E i \in DOMAIN q : /\ Is(q[i], "spawn", e)
                           /\ \A j \in DOMAIN q : j > i => ~Is(q[j], "despawn", e)
    \/ e \in w /\ ~Has(q, "despawn", e)

\* Nothing is queued that could leave e in two worlds or in none for a while.
Tidy(q, w, e) ==
    /\ ~Has(q, "despawn", e)
    /\ e \in w => ~Has(q, "spawn", e)
    /\ \A i, j \in DOMAIN q : Is(q[i], "spawn", e) /\ Is(q[j], "spawn", e) => i = j

\* One request of e to move, at most: queued or pending.
OneMove(q, m, e) ==
    /\ m # None => ~Has(q, "move", e)
    /\ \A i, j \in DOMAIN q : Is(q[i], "move", e) /\ Is(q[j], "move", e) => i = j

\* The requests lead along links.
Legal(z, q, m, e) ==
    /\ m # None => <<z, m>> \in Links
    /\ \A i \in DOMAIN q : Is(q[i], "move", e) => <<z, q[i].to>> \in Links
----------------------------------------------------------------------------
\* Commands are told apart by what they ask and for whom.
LEMMA CommandIs ==
  ASSUME NEW c \in Commands, NEW e \in Entity, NEW op \in {"spawn", "despawn"}
  PROVE  c = Command(op, e) <=> Is(c, op, e)
<1>1. CASE c \in [op : {"spawn", "despawn", "position_of"}, entity : Entity]
  BY <1>1 DEF Is, Command
<1>2. CASE c \in [op : {"move"}, entity : Entity, to : Zone]
  BY <1>2 DEF Is, Command
<1> QED
  BY <1>1, <1>2 DEF Commands

LEMMA QueuedIs ==
  ASSUME TypeOK, NEW p \in Place, NEW e \in Entity, NEW op \in {"spawn", "despawn"}
  PROVE  Queued(p, op, e) <=> Has(queue[p], op, e)
<1>1. queue[p] \in Seq(Commands)
  BY DEF TypeOK
<1>2. \A i \in DOMAIN queue[p] : queue[p][i] \in Commands
  BY <1>1
<1> QED
  BY <1>2, CommandIs DEF Queued, Has

\* One more command at the end of a queue.
LEMMA AppendHas ==
  ASSUME NEW q \in Seq(Commands), NEW c \in Commands, NEW e \in Entity, NEW op
  PROVE  Has(Append(q, c), op, e) <=> Has(q, op, e) \/ Is(c, op, e)
  BY DEF Has

LEMMA AppendFinal ==
  ASSUME NEW q \in Seq(Commands), NEW c \in Commands, NEW e \in Entity, NEW w
  PROVE  Final(Append(q, c), w, e) <=>
            Is(c, "spawn", e) \/ (~Is(c, "despawn", e) /\ Final(q, w, e))
<1> DEFINE a == Append(q, c)
           n == Len(q) + 1
<1>1. /\ DOMAIN a = 1..n /\ DOMAIN q = 1..Len(q) /\ Len(q) \in Nat
      /\ \A i \in 1..Len(q) : a[i] = q[i]
      /\ a[n] = c
  OBVIOUS
<1> HIDE DEF a, n
<1>2. n = Len(q) + 1
  BY DEF n
<1>3. Is(c, "spawn", e) => Final(a, w, e)
  BY <1>1, <1>2 DEF Final
<1>4. Is(c, "despawn", e) => ~Final(a, w, e)
  <2> SUFFICES ASSUME Is(c, "despawn", e), Final(a, w, e) PROVE FALSE
    OBVIOUS
  <2>1. Has(a, "despawn", e)
    BY <1>1, <1>2 DEF Has
  <2>2. PICK i \in DOMAIN a : /\ Is(a[i], "spawn", e)
                              /\ \A j \in DOMAIN a : j > i => ~Is(a[j], "despawn", e)
    BY <2>1 DEF Final
  <2>3. i = n
    BY <1>1, <1>2, <2>2
  <2> QED
    BY <1>1, <2>2, <2>3 DEF Is
<1>5. ASSUME ~Is(c, "spawn", e), ~Is(c, "despawn", e)
      PROVE  Final(a, w, e) <=> Final(q, w, e)
  <2>1. Has(a, "despawn", e) <=> Has(q, "despawn", e)
    BY <1>1, <1>2, <1>5 DEF Has
  <2>2. ASSUME NEW i \in DOMAIN a, Is(a[i], "spawn", e),
               \A j \in DOMAIN a : j > i => ~Is(a[j], "despawn", e)
        PROVE  Final(q, w, e)
    BY <1>1, <1>2, <1>5, <2>2 DEF Final
  <2>3. ASSUME NEW i \in DOMAIN q, Is(q[i], "spawn", e),
               \A j \in DOMAIN q : j > i => ~Is(q[j], "despawn", e)
        PROVE  Final(a, w, e)
    BY <1>1, <1>2, <1>5, <2>3 DEF Final
  <2> QED
    BY <2>1, <2>2, <2>3 DEF Final
<1> QED
  BY <1>3, <1>4, <1>5 DEF a

\* A queue whose first command is taken.
LEMMA TailIndex ==
  ASSUME NEW q \in Seq(Commands), q # <<>>
  PROVE  /\ DOMAIN q = 1..Len(q) /\ Len(q) \in Nat \ {0}
         /\ DOMAIN Tail(q) = 1..(Len(q) - 1)
         /\ \A i \in 1..(Len(q) - 1) : Tail(q)[i] = q[i + 1]
         /\ Head(q) = q[1]
  OBVIOUS

LEMMA TailHas ==
  ASSUME NEW q \in Seq(Commands), q # <<>>, NEW e \in Entity, NEW op
  PROVE  Has(q, op, e) <=> Has(Tail(q), op, e) \/ Is(Head(q), op, e)
<1> DEFINE t == Tail(q)  n == Len(q)
<1>1. /\ DOMAIN q = 1..n /\ n \in Nat \ {0} /\ DOMAIN t = 1..(n - 1)
      /\ \A i \in 1..(n - 1) : t[i] = q[i + 1]
      /\ Head(q) = q[1]
  BY TailIndex
<1> HIDE DEF t, n
<1>2. \A i \in 1..n : i = 1 \/ (i - 1 \in 1..(n - 1) /\ q[i] = t[i - 1])
  BY <1>1
<1>3. Has(t, op, e) => Has(q, op, e)
  BY <1>1 DEF Has
<1>4. Is(Head(q), op, e) => Has(q, op, e)
  BY <1>1 DEF Has
<1>5. Has(q, op, e) => Has(t, op, e) \/ Is(Head(q), op, e)
  BY <1>1, <1>2 DEF Has
<1> QED
  BY <1>3, <1>4, <1>5 DEF t

\* ... has the same outcome, if the world is as the command leaves it.
LEMMA TailFinal ==
  ASSUME NEW q \in Seq(Commands), q # <<>>, NEW e \in Entity, NEW w, NEW v,
         Is(Head(q), "spawn", e) => e \in v,
         Is(Head(q), "despawn", e) => e \notin v,
         ~Is(Head(q), "spawn", e) /\ ~Is(Head(q), "despawn", e) => (e \in v <=> e \in w)
  PROVE  Final(Tail(q), v, e) <=> Final(q, w, e)
<1> DEFINE t == Tail(q)  n == Len(q)
<1>1. /\ DOMAIN q = 1..n /\ n \in Nat \ {0} /\ DOMAIN t = 1..(n - 1)
      /\ \A i \in 1..(n - 1) : t[i] = q[i + 1]
      /\ Head(q) = q[1]
  BY TailIndex
<1>2. Has(q, "despawn", e) <=> Has(t, "despawn", e) \/ Is(q[1], "despawn", e)
  BY <1>1, TailHas
<1> HIDE DEF t, n
<1>3. \A i \in 1..n : i = 1 \/ (i - 1 \in 1..(n - 1) /\ q[i] = t[i - 1])
  BY <1>1
<1>4. ASSUME NEW i \in DOMAIN t, Is(t[i], "spawn", e),
             \A j \in DOMAIN t : j > i => ~Is(t[j], "despawn", e)
      PROVE  Final(q, w, e)
  <2>1. i + 1 \in DOMAIN q /\ Is(q[i + 1], "spawn", e)
    BY <1>1, <1>4
  <2>2. ASSUME NEW j \in DOMAIN q, j > i + 1
        PROVE  ~Is(q[j], "despawn", e)
    <3>1. j - 1 \in DOMAIN t /\ j - 1 > i /\ q[j] = t[j - 1]
      BY <1>1, <1>3, <2>2
    <3> QED
      BY <1>4, <3>1
  <2> QED
    BY <2>1, <2>2 DEF Final
<1>5. ASSUME e \in v, ~Has(t, "despawn", e)
      PROVE  Final(q, w, e)
  <2>1. CASE Is(q[1], "spawn", e)
    <3>1. \A j \in DOMAIN q : j > 1 => ~Is(q[j], "despawn", e)
      BY <1>1, <1>3, <1>5 DEF Has
    <3> QED
      BY <1>1, <2>1, <3>1 DEF Final
  <2>2. CASE ~Is(q[1], "spawn", e)
    BY <1>1, <1>2, <1>5, <2>2 DEF Final
  <2> QED
    BY <2>1, <2>2
<1>6. ASSUME NEW i \in DOMAIN q, Is(q[i], "spawn", e),
             \A j \in DOMAIN q : j > i => ~Is(q[j], "despawn", e)
      PROVE  Final(t, v, e)
  <2>1. CASE i = 1
    <3>1. \A j \in DOMAIN t : ~Is(t[j], "despawn", e)
      BY <1>1, <1>6, <2>1
    <3>2. e \in v
      BY <1>1, <1>6, <2>1
    <3> QED
      BY <3>1, <3>2 DEF Final, Has
  <2>2. CASE i # 1
    <3>1. i - 1 \in DOMAIN t /\ Is(t[i - 1], "spawn", e)
      BY <1>1, <1>3, <1>6, <2>2
    <3>2. ASSUME NEW j \in DOMAIN t, j > i - 1
          PROVE  ~Is(t[j], "despawn", e)
      <4>1. j + 1 \in DOMAIN q /\ j + 1 > i /\ t[j] = q[j + 1]
        BY <1>1, <3>2
      <4> QED
        BY <1>6, <4>1
    <3> QED
      BY <3>1, <3>2 DEF Final
  <2> QED
    BY <2>1, <2>2
<1>7. ASSUME e \in w, ~Has(q, "despawn", e)
      PROVE  Final(t, v, e)
  BY <1>1, <1>2, <1>7 DEF Final
<1> QED
  BY <1>4, <1>5, <1>6, <1>7 DEF Final, t

\* ... is as tidy, and holds as few requests to move, as before.
LEMMA TailTidy ==
  ASSUME NEW q \in Seq(Commands), q # <<>>, NEW e \in Entity, NEW w, NEW v,
         e \in v => e \in w \/ Is(Head(q), "spawn", e),
         Tidy(q, w, e)
  PROVE  Tidy(Tail(q), v, e)
<1> DEFINE t == Tail(q)  n == Len(q)
<1>1. /\ DOMAIN q = 1..n /\ n \in Nat \ {0} /\ DOMAIN t = 1..(n - 1)
      /\ \A i \in 1..(n - 1) : t[i] = q[i + 1]
      /\ Head(q) = q[1]
  BY TailIndex
<1>2. \A op : Has(q, op, e) <=> Has(t, op, e) \/ Is(q[1], op, e)
  BY <1>1, TailHas
<1> HIDE DEF t, n
<1>3. \A i \in DOMAIN t : i + 1 \in DOMAIN q /\ i + 1 # 1 /\ t[i] = q[i + 1]
  BY <1>1
<1>4. ~Has(t, "despawn", e)
  BY <1>2 DEF Tidy
<1>5. Is(q[1], "spawn", e) => ~Has(t, "spawn", e)
  BY <1>1, <1>3 DEF Tidy, Has
<1>6. e \in v => ~Has(t, "spawn", e)
  BY <1>1, <1>2, <1>5 DEF Tidy
<1>7. \A i, j \in DOMAIN t : Is(t[i], "spawn", e) /\ Is(t[j], "spawn", e) => i = j
  <2> SUFFICES ASSUME NEW i \in DOMAIN t, NEW j \in DOMAIN t,
                      Is(t[i], "spawn", e), Is(t[j], "spawn", e)
               PROVE  i = j
    OBVIOUS
  <2>1. i + 1 = j + 1
    BY <1>3 DEF Tidy
  <2> QED
    BY <1>1, <2>1
<1> QED
  BY <1>4, <1>6, <1>7 DEF Tidy, t

LEMMA TailMoves ==
  ASSUME NEW q \in Seq(Commands), q # <<>>, NEW e \in Entity, NEW z, NEW m, NEW k,
         Is(Head(q), "move", e) => k = IF m = None THEN Head(q).to ELSE m,
         ~Is(Head(q), "move", e) => k = m
  PROVE  /\ OneMove(q, m, e) => OneMove(Tail(q), k, e)
         /\ Legal(z, q, m, e) => Legal(z, Tail(q), k, e)
         /\ k # None \/ Has(Tail(q), "move", e) => m # None \/ Has(q, "move", e)
<1> DEFINE t == Tail(q)  n == Len(q)
<1>1. /\ DOMAIN q = 1..n /\ n \in Nat \ {0} /\ DOMAIN t = 1..(n - 1)
      /\ \A i \in 1..(n - 1) : t[i] = q[i + 1]
      /\ Head(q) = q[1]
  BY TailIndex
<1>2. Has(q, "move", e) <=> Has(t, "move", e) \/ Is(q[1], "move", e)
  BY <1>1, TailHas
<1> HIDE DEF t, n
<1>3. \A i \in DOMAIN t : i + 1 \in DOMAIN q /\ i + 1 # 1 /\ t[i] = q[i + 1]
  BY <1>1
<1>4. ASSUME OneMove(q, m, e) PROVE OneMove(t, k, e)
  <2>1. Is(q[1], "move", e) => ~Has(t, "move", e)
    BY <1>1, <1>3, <1>4 DEF OneMove, Has
  <2>2. k # None => ~Has(t, "move", e)
    BY <1>1, <1>2, <1>4, <2>1 DEF OneMove
  <2>3. \A i, j \in DOMAIN t : Is(t[i], "move", e) /\ Is(t[j], "move", e) => i = j
    <3> SUFFICES ASSUME NEW i \in DOMAIN t, NEW j \in DOMAIN t,
                        Is(t[i], "move", e), Is(t[j], "move", e)
                 PROVE  i = j
      OBVIOUS
    <3>1. i + 1 = j + 1
      BY <1>3, <1>4 DEF OneMove
    <3> QED
      BY <1>1, <3>1
  <2> QED
    BY <2>2, <2>3 DEF OneMove
<1>5. ASSUME Legal(z, q, m, e) PROVE Legal(z, t, k, e)
  <2>1. k # None => <<z, k>> \in Links
    <3>1. 1 \in DOMAIN q /\ Head(q) = q[1]
      BY <1>1
    <3>2. Is(q[1], "move", e) => <<z, q[1].to>> \in Links
      BY <1>5, <3>1 DEF Legal
    <3> QED
      BY <1>5, <3>1, <3>2 DEF Legal
  <2>2. \A i \in DOMAIN t : Is(t[i], "move", e) => <<z, t[i].to>> \in Links
    BY <1>3, <1>5 DEF Legal
  <2> QED
    BY <2>1, <2>2 DEF Legal
<1>6. k # None \/ Has(t, "move", e) => m # None \/ Has(q, "move", e)
  BY <1>1, <1>2
<1> QED
  BY <1>4, <1>5, <1>6 DEF t

\* A command at the end that is neither a spawn nor a despawn nor a move of e.
LEMMA AppendIdle ==
  ASSUME NEW q \in Seq(Commands), NEW c \in Commands, NEW e \in Entity, NEW z, NEW w, NEW m,
         c.entity # e \/ c.op = "position_of"
  PROVE  /\ Final(Append(q, c), w, e) <=> Final(q, w, e)
         /\ Tidy(q, w, e) => Tidy(Append(q, c), w, e)
         /\ OneMove(q, m, e) => OneMove(Append(q, c), m, e)
         /\ Legal(z, q, m, e) => Legal(z, Append(q, c), m, e)
         /\ Has(Append(q, c), "move", e) => Has(q, "move", e)
<1> DEFINE a == Append(q, c)
<1>1. \A op \in {"spawn", "despawn", "move"} : ~Is(c, op, e)
  BY DEF Is
<1>2. Final(a, w, e) <=> Final(q, w, e)
  BY <1>1, AppendFinal
<1>3. \A op \in {"spawn", "despawn", "move"} : Has(a, op, e) <=> Has(q, op, e)
  BY <1>1, AppendHas
<1>4. \A op \in {"spawn", "despawn", "move"}, i \in DOMAIN a :
         Is(a[i], op, e) => i \in DOMAIN q /\ a[i] = q[i]
  BY <1>1
<1> HIDE DEF a
<1>5. Tidy(q, w, e) => Tidy(a, w, e)
  BY <1>3, <1>4 DEF Tidy
<1>6. OneMove(q, m, e) => OneMove(a, m, e)
  BY <1>3, <1>4 DEF OneMove
<1>7. Legal(z, q, m, e) => Legal(z, a, m, e)
  BY <1>4 DEF Legal
<1> QED
  BY <1>2, <1>3, <1>5, <1>6, <1>7 DEF a
----------------------------------------------------------------------------
Live == {"new", "hydrating", "joined", "asking", "hopping"}

InTask(e)     == \E h \in handoffs : h.entity = e
FinalAt(p, e) == Final(queue[p], world[p], e)
Pending(p, e) == moves[p][e] # None \/ Has(queue[p], "move", e)

\* The place where e ends up if it does nothing more: the one of its session,
\* or the one that a crossing or an unread ZoneChanged has it bound for.
IsAt(e, p) ==
    \/ pc[e] = "hydrating" /\ p = at[e]
    \/ pc[e] = "hopping" /\ p = dest[e]
    \/ /\ pc[e] \in {"joined", "asking"}
       /\ \/ \E h \in handoffs : h.entity = e /\ h.stage = "arriving" /\ p = <<h.to, 0>>
          \/ ~InTask(e) /\ changed[e] # <<>> /\ p = <<Head(changed[e]), 0>>
          \/ ~InTask(e) /\ changed[e] = <<>> /\ p = at[e]

\* What a live player's place says of it: its commands have it there in the end
\* if and only if it is bound there, the Sessions map has it accordingly, and
\* what it asked of the place, it asked before it was on its way there.
AtPlace(e, p) ==
    /\ Legal(p[1], queue[p], moves[p][e], e)
    /\ pc[e] \in Live =>
         /\ FinalAt(p, e) <=> IsAt(e, p)
         /\ pc[e] \in {"joined", "asking", "hopping"} => (e \in sessions[p] <=> IsAt(e, p))
         /\ e \notin Hoppers => Tidy(queue[p], world[p], e)
         /\ OneMove(queue[p], moves[p][e], e)
         /\ Pending(p, e) =>
              /\ pc[e] = "joined"
              /\ \A h \in handoffs : h.entity = e => p # <<h.to, 0>>
              /\ changed[e] # <<>> => p # <<Head(changed[e]), 0>>

\* Its crossings come one after the other, each to another zone.
Own(e) ==
    /\ pc[e] = "asking" => dest[e] # at[e] /\ dest[e][1] = at[e][1]
    /\ pc[e] \in Live =>
         /\ \A h, k \in handoffs : h.entity = e /\ k.entity = e => h = k
         /\ \A h \in handoffs : h.entity = e =>
               pc[e] = "joined" /\ changed[e] = <<>> /\ h.to # at[e][1]
         /\ changed[e] # <<>> =>
               pc[e] = "joined" /\ Len(changed[e]) = 1 /\ Head(changed[e]) # at[e][1]
         /\ \A p, q \in Place : Pending(p, e) /\ Pending(q, e) => p = q

Fine(e) == Own(e) /\ \A p \in Place : AtPlace(e, p)

PlaceInv == Inv /\ \A e \in Entity : Fine(e)

\* A step that is nothing to e, at the place p and in e's own state.
SameAt(e, p) ==
    /\ FinalAt(p, e)' <=> FinalAt(p, e)
    /\ e \in sessions'[p] <=> e \in sessions[p]
    /\ Tidy(queue[p], world[p], e) => Tidy(queue'[p], world'[p], e)
    /\ OneMove(queue[p], moves[p][e], e) => OneMove(queue'[p], moves'[p][e], e)
    /\ Legal(p[1], queue[p], moves[p][e], e) => Legal(p[1], queue'[p], moves'[p][e], e)
    /\ Pending(p, e)' => Pending(p, e)

SameOwn(e) ==
    /\ pc'[e] = pc[e] /\ at'[e] = at[e] /\ dest'[e] = dest[e] /\ changed'[e] = changed[e]
    /\ \A h \in handoffs \cup handoffs' : h.entity = e => (h \in handoffs <=> h \in handoffs')

LEMMA Untouched ==
  ASSUME NEW e \in Entity, Fine(e), SameOwn(e), \A p \in Place : SameAt(e, p)
  PROVE  Fine(e)'
<1>1. InTask(e)' <=> InTask(e)
  BY DEF SameOwn, InTask
<1>2. \A p : IsAt(e, p)' <=> IsAt(e, p)
  BY <1>1 DEF SameOwn, IsAt
<1>3. Own(e)'
  BY DEF Fine, Own, SameOwn, SameAt
<1>4. ASSUME NEW p \in Place PROVE AtPlace(e, p)'
  BY <1>2 DEF Fine, AtPlace, SameOwn, SameAt
<1> QED
  BY <1>3, <1>4 DEF Fine

LEMMA QuietSame ==
  ASSUME UNCHANGED <<queue, world, moves, sessions>>, NEW e \in Entity
  PROVE  \A p \in Place : SameAt(e, p)
  BY DEF SameAt, FinalAt, Pending

LEMMA AppendSame ==
  ASSUME TypeOK, NEW r \in Place, NEW c \in Commands, NEW e \in Entity,
         c.entity # e \/ c.op = "position_of",
         queue'[r] = Append(queue[r], c), UNCHANGED <<world, moves>>,
         e \in sessions'[r] <=> e \in sessions[r]
  PROVE  SameAt(e, r)
<1> DEFINE q == queue[r]  w == world[r]  m == moves[r][e]  z == r[1]
<1>1. q \in Seq(Commands)
  BY DEF TypeOK
<1>2. /\ Final(Append(q, c), w, e) <=> Final(q, w, e)
      /\ Tidy(q, w, e) => Tidy(Append(q, c), w, e)
      /\ OneMove(q, m, e) => OneMove(Append(q, c), m, e)
      /\ Legal(z, q, m, e) => Legal(z, Append(q, c), m, e)
      /\ Has(Append(q, c), "move", e) => Has(q, "move", e)
  <2> HIDE DEF q, w, m, z
  <2> QED
    BY <1>1, AppendIdle
<1> QED
  BY <1>2 DEF SameAt, FinalAt, Pending

LEMMA SendSame ==
  ASSUME TypeOK, NEW r \in Place, NEW c \in Commands, Send(r, c), NEW e \in Entity,
         c.entity # e \/ c.op = "position_of",
         UNCHANGED <<world, moves>>,
         \A p \in Place : e \in sessions'[p] <=> e \in sessions[p]
  PROVE  \A p \in Place : SameAt(e, p)
<1>1. \A p \in Place : queue'[p] = IF p = r THEN Append(queue[r], c) ELSE queue[p]
  BY DEF TypeOK, Send
<1>2. ASSUME NEW p \in Place, p # r PROVE SameAt(e, p)
  BY <1>1, <1>2 DEF SameAt, FinalAt, Pending
<1>3. SameAt(e, r)
  BY <1>1, AppendSame
<1> QED
  BY <1>2, <1>3

\* What a spawn, a despawn or a request to move of e does to what its place
\* says of it.
LEMMA AppendStill ==
  ASSUME NEW q \in Seq(Commands), NEW c \in Commands, NEW e \in Entity, NEW z, NEW m,
         c.op # "move"
  PROVE  /\ OneMove(q, m, e) => OneMove(Append(q, c), m, e)
         /\ Legal(z, q, m, e) => Legal(z, Append(q, c), m, e)
         /\ Has(Append(q, c), "move", e) <=> Has(q, "move", e)
<1> DEFINE a == Append(q, c)
<1>1. \A i \in DOMAIN a : Is(a[i], "move", e) => i \in DOMAIN q /\ a[i] = q[i]
  BY DEF Is
<1>2. Has(a, "move", e) <=> Has(q, "move", e)
  BY AppendHas DEF Is
<1> HIDE DEF a
<1>3. OneMove(q, m, e) => OneMove(a, m, e)
  BY <1>1, <1>2 DEF OneMove
<1>4. Legal(z, q, m, e) => Legal(z, a, m, e)
  BY <1>1 DEF Legal
<1> QED
  BY <1>2, <1>3, <1>4 DEF a

LEMMA AppendSpawn ==
  ASSUME NEW q \in Seq(Commands), NEW c \in Commands, NEW e \in Entity, NEW w,
         Is(c, "spawn", e), Tidy(q, w, e), ~Final(q, w, e)
  PROVE  Tidy(Append(q, c), w, e)
<1> DEFINE a == Append(q, c)
<1>1. e \notin w /\ ~Has(q, "spawn", e)
  BY DEF Final, Tidy, Has
<1>2. ~Has(a, "despawn", e)
  BY AppendHas DEF Tidy, Is
<1>3. \A i \in DOMAIN a : Is(a[i], "spawn", e) => i = Len(q) + 1
  BY <1>1 DEF Has
<1> HIDE DEF a
<1> QED
  BY <1>1, <1>2, <1>3 DEF Tidy, a

LEMMA AppendMove ==
  ASSUME NEW q \in Seq(Commands), NEW c \in Commands, NEW e \in Entity, NEW w, NEW z,
         Is(c, "move", e), ~Has(q, "move", e)
  PROVE  /\ Final(Append(q, c), w, e) <=> Final(q, w, e)
         /\ Tidy(q, w, e) => Tidy(Append(q, c), w, e)
         /\ OneMove(Append(q, c), None, e)
         /\ <<z, c.to>> \in Links => Legal(z, Append(q, c), None, e)
<1> DEFINE a == Append(q, c)
<1>1. \A op \in {"spawn", "despawn"} : ~Is(c, op, e)
  BY DEF Is
<1>2. Final(a, w, e) <=> Final(q, w, e)
  BY <1>1, AppendFinal
<1>3. \A op \in {"spawn", "despawn"} : Has(a, op, e) <=> Has(q, op, e)
  BY <1>1, AppendHas
<1>4. \A i \in DOMAIN a : Is(a[i], "spawn", e) => i \in DOMAIN q /\ a[i] = q[i]
  BY <1>1
<1>5. \A i \in DOMAIN a : Is(a[i], "move", e) => i = Len(q) + 1 /\ a[i] = c
  BY DEF Has
<1> HIDE DEF a
<1>6. Tidy(q, w, e) => Tidy(a, w, e)
  BY <1>3, <1>4 DEF Tidy
<1> QED
  BY <1>2, <1>5, <1>6 DEF OneMove, Legal, a

----------------------------------------------------------------------------
\* Taking a command makes what was to come of it true, and nothing else.
LEMMA TakeSame ==
  ASSUME TypeOK, NEW p \in Place, Take(p), NEW e \in Entity
  PROVE  SameOwn(e) /\ \A r \in Place : SameAt(e, r)
<1> DEFINE q == queue[p]  c == Head(q)
           w == world[p]   v == world'[p]
           m == moves[p][e]  k == moves'[p][e]  z == p[1]
<1>1. /\ q \in Seq(Commands) /\ q # <<>> /\ c \in Commands /\ c.entity \in Entity
      /\ queue' = [queue EXCEPT ![p] = Tail(q)]
      /\ sessions' = sessions
  <2>1. q \in Seq(Commands) /\ q # <<>>
    BY DEF Take, TypeOK
  <2>2. c \in Commands
    BY <2>1
  <2> QED
    BY <2>1, <2>2 DEF Take, Commands
<1>2. SameOwn(e)
  BY DEF Take, SameOwn
<1>3. /\ \A r \in Place \ {p} : queue'[r] = queue[r] /\ world'[r] = world[r]
      /\ \A r \in Place \ {p} : moves'[r][e] = moves[r][e]
      /\ queue'[p] = Tail(q)
  BY <1>1 DEF Take, TypeOK
<1>4. /\ Is(c, "spawn", e) => e \in v
      /\ Is(c, "despawn", e) => e \notin v
      /\ ~Is(c, "spawn", e) /\ ~Is(c, "despawn", e) => (e \in v <=> e \in w)
  BY <1>1 DEF Take, TypeOK, Is
<1>5. /\ Is(c, "move", e) => k = IF m = None THEN c.to ELSE m
      /\ ~Is(c, "move", e) => k = m
  <2>1. CASE c.op = "move"
    <3>1. moves' = [moves EXCEPT ![p][c.entity] = IF @ = None THEN c.to ELSE @]
      BY <2>1 DEF Take
    <3> QED
      BY <1>1, <2>1, <3>1 DEF TypeOK, Is
  <2>2. CASE c.op # "move"
    BY <2>2 DEF Take, Is
  <2> QED
    BY <2>1, <2>2
<1>6. SameAt(e, p)
  <2>1. Final(Tail(q), v, e) <=> Final(q, w, e)
    <3> HIDE DEF q, w, v
    <3> QED
      BY <1>1, <1>4, TailFinal
  <2>2. Tidy(q, w, e) => Tidy(Tail(q), v, e)
    <3> HIDE DEF q, w, v
    <3> QED
      BY <1>1, <1>4, TailTidy
  <2>3. /\ OneMove(q, m, e) => OneMove(Tail(q), k, e)
        /\ Legal(z, q, m, e) => Legal(z, Tail(q), k, e)
        /\ k # None \/ Has(Tail(q), "move", e) => m # None \/ Has(q, "move", e)
    <3> HIDE DEF q, m, k, z
    <3> QED
      BY <1>1, <1>5, TailMoves
  <2> QED
    BY <1>1, <1>3, <2>1, <2>2, <2>3 DEF SameAt, FinalAt, Pending
<1>7. ASSUME NEW r \in Place \ {p} PROVE SameAt(e, r)
  BY <1>1, <1>3 DEF SameAt, FinalAt, Pending
<1> QED
  BY <1>2, <1>6, <1>7

\* A tick takes nobody out but those who cross ...
LEMMA TickSame ==
  ASSUME TypeOK, NEW p \in Place, Tick(p), NEW e \in Entity, e \notin Crossing(p)
  PROVE  SameOwn(e) /\ \A r \in Place : SameAt(e, r)
<1>1. /\ queue' = queue
      /\ \A r \in Place : (e \in world'[r] <=> e \in world[r])
                          /\ (e \in sessions'[r] <=> e \in sessions[r])
      /\ \A r \in Place : moves'[r][e] = IF r = p THEN None ELSE moves[r][e]
  BY DEF Tick, TypeOK
<1>2. SameOwn(e)
  BY DEF Tick, SameOwn, connection
<1>3. ASSUME NEW r \in Place PROVE SameAt(e, r)
  BY <1>1 DEF SameAt, FinalAt, Pending, Final, Tidy, OneMove, Legal
<1> QED
  BY <1>2, <1>3

\* ... and one who does has a Sessions entry, no spawn on its way, and no other
\* crossing.
LEMMA TickFine ==
  ASSUME \A z \in Zone : <<z, z>> \notin Links,
         PlaceInv, NEW p \in Place, Tick(p), NEW e \in Entity, e \in Crossing(p)
  PROVE  Fine(e)'
<1> DEFINE z == moves[p][e]
           h == [entity |-> e, to |-> z, stage |-> "leaving"]
<1>0. TypeOK /\ Own(e) /\ (\A r \in Place : AtPlace(e, r)) /\ NoneWhileCrossing
  BY DEF PlaceInv, Fine, Inv, TypeInv, PresenceInv
<1>1. /\ e \in world[p] /\ z # None /\ z \in Zone /\ <<p[1], z>> \in Links
      /\ Pending(p, e)
  <2>1. e \in world[p] /\ z # None
    BY DEF Crossing
  <2>2. z \in Zone
    BY <1>0, <2>1 DEF TypeOK
  <2>3. Legal(p[1], queue[p], z, e)
    BY <1>0 DEF AtPlace
  <2> QED
    BY <2>1, <2>2, <2>3 DEF Legal, Pending
<1>2. /\ \A r \in Place : queue'[r] = queue[r]
      /\ \A r \in Place : moves'[r][e] = IF r = p THEN None ELSE moves[r][e]
      /\ \A r \in Place : e \in world'[r] <=> (e \in world[r] /\ r # p)
      /\ \A r \in Place : e \in sessions'[r] <=> (e \in sessions[r] /\ r # p)
      /\ pc' = pc /\ at' = at /\ dest' = dest /\ changed' = changed
  BY <1>0 DEF Tick, TypeOK, connection
<1>3. \A r \in Place : Legal(r[1], queue'[r], moves'[r][e], e)
  BY <1>0, <1>2 DEF AtPlace, Legal
<1>4. CASE pc[e] \notin Live
  BY <1>2, <1>3, <1>4 DEF Fine, Own, AtPlace, Live
<1>5. CASE pc[e] \in Live
  <2>1. pc[e] = "joined" /\ e \notin Hoppers
    <3>1. HoppersStayPut
      BY DEF PlaceInv, Inv, PresenceInv
    <3> QED
      BY <1>0, <1>1, <1>5, <3>1 DEF AtPlace, HoppersStayPut
  <2>2. Tidy(queue[p], world[p], e)
    BY <1>0, <1>5, <2>1 DEF AtPlace
  <2>3. FinalAt(p, e)
    BY <1>1, <2>2 DEF FinalAt, Final, Tidy
  <2>4. IsAt(e, p) /\ e \in sessions[p]
    BY <1>0, <1>5, <2>1, <2>3 DEF AtPlace
  <2>5. ~InTask(e) /\ changed[e] = <<>> /\ p = at[e]
    BY <1>0, <1>1, <1>5, <2>1, <2>4 DEF AtPlace, IsAt
  <2>6. z # at[e][1]
    BY <1>1, <2>5
  <2>7. \A k \in handoffs' : k.entity = e <=> k = h
    <3>1. handoffs' = handoffs \cup
            {[entity |-> f, to |-> moves[p][f], stage |-> "leaving"] :
               f \in Crossing(p) \cap sessions[p]}
      BY DEF Tick
    <3> QED
      BY <2>4, <2>5, <3>1 DEF InTask
  <2>8. h \in handoffs'
    BY <2>4 DEF Tick
  <2>9. \A r \in Place : ~Pending(r, e)'
    <3>1. ~Has(queue[p], "move", e)
      BY <1>0, <1>1, <1>5 DEF AtPlace, OneMove
    <3>2. \A r \in Place \ {p} : ~Pending(r, e)
      BY <1>0, <1>1, <1>5 DEF Own
    <3> QED
      BY <1>2, <3>1, <3>2 DEF Pending
  <2>10. \A r \in Place : ~IsAt(e, r)'
    BY <1>2, <2>1, <2>7, <2>8 DEF IsAt, InTask
  <2>11. ASSUME NEW r \in Place PROVE ~FinalAt(r, e)' /\ e \notin sessions'[r]
    <3>1. CASE r = p
      <4>1. ~Has(queue[p], "spawn", e)
        BY <1>1, <2>2 DEF Tidy
      <4> QED
        BY <1>2, <3>1, <4>1 DEF FinalAt, Final, Has
    <3>2. CASE r # p
      <4>1. ~IsAt(e, r)
        BY <2>1, <2>5, <3>2 DEF IsAt, InTask
      <4>2. ~FinalAt(r, e) /\ e \notin sessions[r]
        BY <1>0, <1>5, <2>1, <4>1 DEF AtPlace
      <4> QED
        BY <1>2, <3>2, <4>2 DEF FinalAt, Final
    <3> QED
      BY <3>1, <3>2
  <2>12. ASSUME NEW r \in Place
         PROVE  /\ Tidy(queue'[r], world'[r], e)
                /\ OneMove(queue'[r], moves'[r][e], e)
    <3>1. Tidy(queue[r], world[r], e) /\ OneMove(queue[r], moves[r][e], e)
      BY <1>0, <1>5, <2>1 DEF AtPlace
    <3> QED
      BY <1>2, <3>1 DEF Tidy, OneMove
  <2>13. Own(e)'
    BY <1>2, <2>1, <2>5, <2>6, <2>7, <2>9 DEF Own
  <2>14. ASSUME NEW r \in Place PROVE AtPlace(e, r)'
    BY <1>3, <2>9, <2>10, <2>11, <2>12 DEF AtPlace
  <2> QED
    BY <2>13, <2>14 DEF Fine
<1> QED
  BY <1>4, <1>5

\* Whoever leaves the loop for good has only its old requests left.
LEMMA LeftFine ==
  ASSUME NEW e \in Entity, pc'[e] \notin Live,
         \A p \in Place : Legal(p[1], queue'[p], moves'[p][e], e)
  PROVE  Fine(e)'
  BY DEF Fine, Own, AtPlace, Live

\* complete_zone_transition brings the player where it was bound ...
LEMMA ArriveFine ==
  ASSUME PlaceInv, NEW h \in handoffs, Arrive(h), NEW e \in Entity
  PROVE  Fine(e)'
<1> DEFINE p == <<h.to, 0>>
           c == Command("spawn", h.entity)
           k == [h EXCEPT !.stage = "arriving"]
<1>0. TypeOK /\ Fine(e)
  BY DEF PlaceInv, Inv, TypeInv
<1>1. h \in Handoffs /\ h.entity \in Entity /\ h.to \in Zone /\ h.stage = "leaving"
  BY <1>0 DEF TypeOK, Handoffs, Arrive
<1>2. /\ p \in Place /\ c \in Commands /\ Is(c, "spawn", h.entity) /\ c.op = "spawn"
      /\ k.entity = h.entity /\ k.to = h.to /\ k.stage = "arriving"
  BY <1>0, <1>1, RunningPlaces, CommandType DEF Is, Command, Handoffs
<1>3. /\ Send(p, c) /\ world' = world /\ moves' = moves
      /\ \A r \in Place, f \in Entity :
            f \in sessions'[r] <=> f \in sessions[r] \/ (f = h.entity /\ r = p)
      /\ handoffs' = (handoffs \ {h}) \cup {k}
      /\ pc' = pc /\ at' = at /\ dest' = dest /\ changed' = changed
  BY <1>0, <1>2 DEF Arrive, TypeOK, connection, actors
<1>4. CASE e # h.entity
  <2>1. SameOwn(e)
    BY <1>2, <1>3, <1>4 DEF SameOwn
  <2>2. \A r \in Place : SameAt(e, r)
    BY <1>0, <1>2, <1>3, <1>4, SendSame DEF Is
  <2> QED
    BY <1>0, <2>1, <2>2, Untouched
<1>5. CASE e = h.entity
  <2>1. \A r \in Place : queue'[r] = IF r = p THEN Append(queue[p], c) ELSE queue[r]
    BY <1>0, <1>3 DEF TypeOK, Send
  <2>2. ASSUME NEW r \in Place
        PROVE  /\ OneMove(queue[r], moves[r][e], e) => OneMove(queue'[r], moves'[r][e], e)
               /\ Legal(r[1], queue'[r], moves'[r][e], e)
               /\ Pending(r, e)' <=> Pending(r, e)
    <3>1. queue[r] \in Seq(Commands) /\ Legal(r[1], queue[r], moves[r][e], e)
      BY <1>0 DEF TypeOK, Fine, AtPlace
    <3> QED
      BY <1>2, <1>3, <2>1, <3>1, AppendStill DEF Pending
  <2>3. CASE pc[e] \notin Live
    BY <1>3, <2>2, <2>3, LeftFine
  <2>4. CASE pc[e] \in Live
    <3>1. /\ pc[e] = "joined" /\ changed[e] = <<>> /\ h.to # at[e][1]
          /\ \A j \in handoffs : j.entity = e => j = h
          /\ e \notin Hoppers
      <4>1. HoppersStayPut
        BY DEF PlaceInv, Inv, PresenceInv
      <4> QED
        BY <1>0, <1>5, <2>4, <4>1 DEF Fine, Own, HoppersStayPut
    <3>2. \A r : ~IsAt(e, r)
      BY <1>1, <1>5, <3>1 DEF IsAt, InTask
    <3>3. \A r \in Place : ~FinalAt(r, e) /\ e \notin sessions[r]
      BY <1>0, <2>4, <3>1, <3>2 DEF Fine, AtPlace
    <3>4. \A j \in handoffs' : j.entity = e <=> j = k
      BY <1>2, <1>3, <1>5, <3>1
    <3>5. \A r : IsAt(e, r)' <=> r = p
      BY <1>2, <1>3, <3>1, <3>4 DEF IsAt, InTask
    <3>6. Own(e)'
      BY <1>2, <1>3, <2>2, <3>1, <3>4, <1>0, <2>4 DEF Fine, Own
    <3>7. ASSUME NEW r \in Place PROVE AtPlace(e, r)'
      <4>1. queue[r] \in Seq(Commands) /\ Tidy(queue[r], world[r], e)
        BY <1>0, <2>4, <3>1 DEF TypeOK, Fine, AtPlace
      <4>2. FinalAt(r, e)' <=> r = p
        BY <1>2, <1>3, <1>5, <2>1, <3>3, <4>1, AppendFinal DEF FinalAt
      <4>3. Tidy(queue'[r], world'[r], e)
        BY <1>2, <1>3, <1>5, <2>1, <3>3, <4>1, AppendSpawn DEF FinalAt
      <4>4. e \in sessions'[r] <=> r = p
        BY <1>3, <1>5, <3>3
      <4>5. Pending(r, e)' => r # p
        BY <1>0, <1>5, <2>2, <2>4 DEF Fine, AtPlace
      <4>6. OneMove(queue'[r], moves'[r][e], e)
        BY <1>0, <2>2, <2>4 DEF Fine, AtPlace
      <4> QED
        BY <1>2, <1>3, <2>2, <3>1, <3>4, <3>5, <4>2, <4>3, <4>4, <4>5, <4>6 DEF AtPlace
    <3> QED
      BY <3>6, <3>7 DEF Fine
  <2> QED
    BY <2>3, <2>4
<1> QED
  BY <1>4, <1>5

\* ... and tells its session.
LEMMA AnnounceFine ==
  ASSUME PlaceInv, NEW h \in handoffs, Announce(h), NEW e \in Entity
  PROVE  Fine(e)'
<1>0. TypeOK /\ Fine(e)
  BY DEF PlaceInv, Inv, TypeInv
<1>1. h \in Handoffs /\ h.entity \in Entity /\ h.to \in Zone /\ h.stage = "arriving"
  BY <1>0 DEF TypeOK, Handoffs, Announce
<1>2. /\ handoffs' = handoffs \ {h}
      /\ UNCHANGED <<queue, world, moves, sessions>>
      /\ pc' = pc /\ at' = at /\ dest' = dest
  BY DEF Announce, actors
<1>3. \A r \in Place : SameAt(e, r)
  BY <1>2, QuietSame
<1>4. CASE e # h.entity
  <2>1. SameOwn(e)
    BY <1>0, <1>2, <1>4 DEF Announce, SameOwn, TypeOK
  <2> QED
    BY <1>0, <1>3, <2>1, Untouched
<1>5. CASE e = h.entity /\ pc[e] \notin Live
  BY <1>0, <1>2, <1>5, LeftFine DEF Fine, AtPlace
<1>6. CASE e = h.entity /\ pc[e] \in Live
  <2>1. /\ pc[e] = "joined" /\ changed[e] = <<>> /\ h.to # at[e][1]
        /\ \A j \in handoffs : j.entity = e => j = h
    BY <1>0, <1>6 DEF Fine, Own
  <2>2. changed'[e] = <<h.to>>
    BY <1>0, <1>6, <2>1 DEF Announce, Online, TypeOK
  <2>3. Len(changed'[e]) = 1 /\ Head(changed'[e]) = h.to /\ changed'[e] # <<>>
    BY <2>2
  <2>4. \A j \in handoffs' : j.entity # e
    BY <1>2, <2>1
  <2>5. \A r : IsAt(e, r)' <=> IsAt(e, r)
    BY <1>1, <1>2, <1>6, <2>1, <2>3, <2>4 DEF IsAt, InTask
  <2>6. Own(e)'
    BY <1>0, <1>2, <1>3, <1>6, <2>1, <2>3, <2>4 DEF Fine, Own, SameAt
  <2>7. ASSUME NEW r \in Place PROVE AtPlace(e, r)'
    <3>1. Pending(r, e)' => r # <<h.to, 0>>
      BY <1>0, <1>3, <1>6 DEF Fine, AtPlace, SameAt
    <3> QED
      BY <1>0, <1>2, <1>3, <1>6, <2>1, <2>3, <2>4, <2>5, <3>1 DEF Fine, AtPlace, SameAt
  <2> QED
    BY <2>6, <2>7 DEF Fine
<1> QED
  BY <1>4, <1>5, <1>6

\* A joining player is bound for the layer it is spawned into.
LEMMA SpawnAtFine ==
  ASSUME PlaceInv, NEW e \in Entity, NEW p \in Place, pc[e] = "new", SpawnAt(e, p),
         NEW f \in Entity
  PROVE  Fine(f)'
<1> DEFINE c == Command("spawn", e)
<1>0. TypeOK /\ Fine(f)
  BY DEF PlaceInv, Inv, TypeInv
<1>1. /\ c \in Commands /\ Is(c, "spawn", e) /\ c.op = "spawn" /\ c.entity = e
      /\ Send(p, c) /\ UNCHANGED <<world, moves, sessions, handoffs, changed, dest>>
      /\ pc' = [pc EXCEPT ![e] = "hydrating"] /\ at' = [at EXCEPT ![e] = p]
  BY CommandType DEF SpawnAt, Goto, Is, Command
<1>2. CASE f # e
  <2>1. SameOwn(f)
    BY <1>0, <1>1, <1>2 DEF SameOwn, TypeOK
  <2>2. \A r \in Place : SameAt(f, r)
    BY <1>0, <1>1, <1>2, SendSame
  <2> QED
    BY <1>0, <2>1, <2>2, Untouched
<1>3. CASE f = e
  <2>1. /\ pc'[e] = "hydrating" /\ at'[e] = p /\ changed[e] = <<>> /\ ~InTask(e)
        /\ \A r \in Place : ~Pending(r, e)
        /\ \A r \in Place : queue'[r] = IF r = p THEN Append(queue[p], c) ELSE queue[r]
    BY <1>0, <1>1, <1>3 DEF TypeOK, Send, Fine, Own, AtPlace, Live, InTask
  <2>2. \A r \in Place : ~FinalAt(r, e)
    BY <1>0, <1>3 DEF Fine, AtPlace, IsAt, Live
  <2>3. \A r : IsAt(e, r)' <=> r = p
    BY <2>1 DEF IsAt
  <2>4. ASSUME NEW r \in Place
        PROVE  /\ OneMove(queue'[r], moves'[r][e], e)
               /\ Legal(r[1], queue'[r], moves'[r][e], e)
               /\ ~Pending(r, e)'
    <3>1. /\ queue[r] \in Seq(Commands) /\ Legal(r[1], queue[r], moves[r][e], e)
          /\ OneMove(queue[r], moves[r][e], e)
      BY <1>0, <1>3 DEF TypeOK, Fine, AtPlace, Live
    <3> QED
      BY <1>1, <2>1, <3>1, AppendStill DEF Pending
  <2>5. Own(e)'
    BY <1>1, <2>1, <2>4 DEF Own, InTask
  <2>6. ASSUME NEW r \in Place PROVE AtPlace(e, r)'
    <3>1. queue[r] \in Seq(Commands) /\ (e \notin Hoppers => Tidy(queue[r], world[r], e))
      BY <1>0, <1>3 DEF TypeOK, Fine, AtPlace, Live
    <3>2. FinalAt(r, e)' <=> r = p
      BY <1>1, <2>1, <2>2, <3>1, AppendFinal DEF FinalAt
    <3>3. e \notin Hoppers => Tidy(queue'[r], world'[r], e)
      BY <1>1, <2>1, <2>2, <3>1, AppendSpawn DEF FinalAt
    <3> QED
      BY <2>1, <2>3, <2>4, <3>2, <3>3 DEF AtPlace
  <2> QED
    BY <1>3, <2>5, <2>6 DEF Fine
<1> QED
  BY <1>2, <1>3

\* The steps of a session's own that send nothing and move nobody.
LEMMA RegisterFine ==
  ASSUME PlaceInv, NEW e \in Entity, Register(e), NEW f \in Entity
  PROVE  Fine(f)'
<1>0. TypeOK /\ Placed /\ NoneWhileJoining /\ Fine(f)
  BY DEF PlaceInv, Inv, TypeInv, PresenceInv
<1>1. /\ pc[e] = "hydrating" /\ at[e] \in Place
      /\ UNCHANGED <<queue, world, moves, handoffs, changed, at, dest>>
      /\ pc' = [pc EXCEPT ![e] = "joined"]
      /\ \A r \in Place, g \in Entity :
            g \in sessions'[r] <=> g \in sessions[r] \/ (g = e /\ r = at[e])
  BY <1>0 DEF Register, Goto, TypeOK, Placed, actors
<1>2. CASE f # e
  <2>1. SameOwn(f) /\ \A r \in Place : SameAt(f, r)
    BY <1>0, <1>1, <1>2 DEF SameOwn, SameAt, FinalAt, Pending, TypeOK
  <2> QED
    BY <1>0, <2>1, Untouched
<1>3. CASE f = e
  <2>1. /\ pc'[e] = "joined" /\ changed[e] = <<>> /\ ~InTask(e)
        /\ \A r \in Place : ~Pending(r, e) /\ e \notin sessions[r]
    BY <1>0, <1>1, <1>3 DEF TypeOK, Fine, Own, AtPlace, Live, InTask, NoneWhileJoining
  <2>2. \A r : (IsAt(e, r)' <=> r = at[e]) /\ (IsAt(e, r) <=> r = at[e])
    BY <1>1, <2>1 DEF IsAt, InTask
  <2>3. Own(e)'
    BY <1>1, <2>1 DEF Own, InTask, Pending
  <2>4. ASSUME NEW r \in Place PROVE AtPlace(e, r)'
    BY <1>0, <1>1, <1>3, <2>1, <2>2 DEF AtPlace, Fine, FinalAt, Pending, Live
  <2> QED
    BY <1>3, <2>3, <2>4 DEF Fine
<1> QED
  BY <1>2, <1>3

\* The client asks to go through a link, of the place its session talks to.
LEMMA WalkFine ==
  ASSUME Walkers \cap Hoppers = {}, PlaceInv, NEW e \in Entity, Walk(e), NEW f \in Entity
  PROVE  Fine(f)'
<1> DEFINE p == at[e]
<1>0. TypeOK /\ Placed /\ Fine(f)
  BY DEF PlaceInv, Inv, TypeInv
<1>1. PICK z \in Zone : <<p[1], z>> \in Links /\ Send(p, Move(e, z))
  BY DEF Walk
<1> DEFINE c == Move(e, z)
<1>2. /\ c \in Commands /\ Is(c, "move", e) /\ c.entity = e /\ c.to = z
      /\ pc[e] = "joined" /\ p \in Place
      /\ UNCHANGED <<world, moves, sessions, handoffs, pc, at, dest, changed>>
      /\ \A r \in Place : moves[r][e] = None /\ ~Has(queue[r], "move", e)
  BY <1>0, CommandType DEF Walk, Is, Has, Move, Placed, actors, connection
<1>3. CASE f # e
  <2>1. SameOwn(f) /\ \A r \in Place : SameAt(f, r)
    BY <1>0, <1>1, <1>2, <1>3, SendSame DEF SameOwn
  <2> QED
    BY <1>0, <2>1, Untouched
<1>4. CASE f = e
  <2>1. \A r \in Place : queue'[r] = IF r = p THEN Append(queue[p], c) ELSE queue[r]
    BY <1>0, <1>1 DEF TypeOK, Send
  <2>2. \A r : IsAt(e, r)' <=> IsAt(e, r)
    BY <1>2 DEF IsAt, InTask
  <2>3. ASSUME NEW r \in Place
        PROVE  /\ FinalAt(r, e)' <=> FinalAt(r, e)
               /\ Tidy(queue[r], world[r], e) => Tidy(queue'[r], world'[r], e)
               /\ OneMove(queue'[r], moves'[r][e], e)
               /\ Legal(r[1], queue'[r], moves'[r][e], e)
               /\ Pending(r, e)' => r = p
    <3>1. /\ queue[r] \in Seq(Commands) /\ Legal(r[1], queue[r], moves[r][e], e)
          /\ OneMove(queue[r], moves[r][e], e)
      BY <1>0, <1>2, <1>4 DEF TypeOK, Fine, AtPlace, Live
    <3>2. CASE r = p
      <4>1. /\ queue'[r] = Append(queue[r], c) /\ <<r[1], c.to>> \in Links
            /\ UNCHANGED <<world, moves>> /\ moves[r][e] = None
            /\ ~Has(queue[r], "move", e)
        BY <1>1, <1>2, <2>1, <3>2
      <4>2. c \in Commands /\ Is(c, "move", e)
        BY <1>2
      <4> HIDE DEF c
      <4> QED
        <5> DEFINE q == queue[r]
        <5>1. /\ Final(Append(q, c), world[r], e) <=> Final(q, world[r], e)
              /\ Tidy(q, world[r], e) => Tidy(Append(q, c), world[r], e)
              /\ OneMove(Append(q, c), None, e)
              /\ <<r[1], c.to>> \in Links => Legal(r[1], Append(q, c), None, e)
          BY <3>1, <4>1, <4>2, AppendMove
        <5> QED
          BY <3>2, <4>1, <5>1 DEF FinalAt
    <3>3. CASE r # p
      BY <1>2, <2>1, <3>1, <3>3 DEF FinalAt, Pending
    <3> QED
      BY <3>2, <3>3
  <2>4. /\ \A h \in handoffs : h.entity = e => p # <<h.to, 0>>
        /\ changed[e] # <<>> => p # <<Head(changed[e]), 0>>
    BY <1>0, <1>2, <1>4 DEF Fine, Own, Live
  <2>5. Own(e)'
    BY <1>0, <1>2, <1>4, <2>3 DEF Fine, Own, Live
  <2>6. ASSUME NEW r \in Place PROVE AtPlace(e, r)'
    BY <1>0, <1>2, <1>4, <2>2, <2>3, <2>4 DEF Fine, AtPlace, Live
  <2> QED
    BY <1>4, <2>5, <2>6 DEF Fine
<1> QED
  BY <1>3, <1>4

\* Having followed its one ZoneChanged, a session talks to where it is bound.
LEMMA FollowFine ==
  ASSUME PlaceInv, NEW e \in Entity, FollowZoneChange(e), NEW f \in Entity
  PROVE  Fine(f)'
<1>0. TypeOK /\ Fine(f)
  BY DEF PlaceInv, Inv, TypeInv
<1>1. /\ pc[e] = "joined" /\ changed[e] # <<>>
      /\ UNCHANGED <<queue, world, moves, sessions, handoffs, pc, dest>>
      /\ at' = [at EXCEPT ![e] = <<Head(changed[e]), 0>>]
      /\ changed' = [changed EXCEPT ![e] = Tail(changed[e])]
  BY DEF FollowZoneChange, actors
<1>2. \A r \in Place : SameAt(f, r)
  BY <1>1, QuietSame
<1>3. CASE f # e
  <2>1. SameOwn(f)
    BY <1>0, <1>1, <1>3 DEF SameOwn, TypeOK
  <2> QED
    BY <1>0, <1>2, <2>1, Untouched
<1>4. CASE f = e
  <2>1. Len(changed[e]) = 1 /\ ~InTask(e)
    BY <1>0, <1>1, <1>4 DEF Fine, Own, Live, InTask
  <2>2. Tail(changed[e]) = <<>>
    <3>1. changed[e] \in Seq(Zone)
      BY <1>0, <1>4 DEF TypeOK
    <3>2. Tail(changed[e]) \in Seq(Zone) /\ Len(Tail(changed[e])) = 0
      BY <1>1, <2>1, <3>1
    <3> QED
      BY <3>2, EmptySeq
  <2>3. changed'[e] = <<>> /\ at'[e] = <<Head(changed[e]), 0>>
    BY <1>0, <1>1, <2>2 DEF TypeOK
  <2>4. \A r : IsAt(e, r)' <=> IsAt(e, r)
    BY <1>1, <2>1, <2>3 DEF IsAt, InTask
  <2>5. Own(e)'
    BY <1>0, <1>1, <1>2, <1>4, <2>1, <2>3 DEF Fine, Own, SameAt, Live, InTask
  <2>6. ASSUME NEW r \in Place PROVE AtPlace(e, r)'
    BY <1>0, <1>1, <1>2, <1>4, <2>1, <2>3, <2>4 DEF Fine, AtPlace, SameAt, Live, InTask
  <2> QED
    BY <1>4, <2>5, <2>6 DEF Fine
<1> QED
  BY <1>3, <1>4

\* A hopper has no crossing, no unread ZoneChanged and no request to move.
LEMMA HopperStill ==
  ASSUME PlaceInv, NEW e \in Hoppers
  PROVE  /\ e \in Entity /\ ~InTask(e) /\ changed[e] = <<>>
         /\ \A p \in Place : ~Pending(p, e)
         /\ \A p : IsAt(e, p) <=> \/ pc[e] \in {"hydrating", "joined", "asking"} /\ p = at[e]
                                  \/ pc[e] = "hopping" /\ p = dest[e]
<1>1. HoppersStayPut
  BY DEF PlaceInv, Inv, PresenceInv
<1>2. e \in Entity /\ ~InTask(e) /\ changed[e] = <<>>
  BY <1>1, ConstantsAssumption DEF HoppersStayPut, InTask
<1>3. \A p \in Place : ~Pending(p, e)
  BY <1>1 DEF HoppersStayPut, Pending, Has, Is
<1> QED
  BY <1>2, <1>3 DEF IsAt, InTask

\* Asking for a hop, giving it up and settling leave the hopper bound where it
\* was.
LEMMA HopEdgesFine ==
  ASSUME PlaceInv, NEW e \in Entity, AskToHop(e) \/ Abandon(e) \/ Settle(e), NEW f \in Entity
  PROVE  Fine(f)'
<1>0. TypeOK /\ Placed /\ Fine(f) /\ e \in Hoppers
  BY DEF PlaceInv, Inv, TypeInv, OnlyHoppersHop, AskToHop, Abandon, Settle
<1>1. /\ UNCHANGED <<world, moves, sessions, handoffs, changed>>
      /\ \A g \in Entity \ {e} : pc'[g] = pc[g] /\ at'[g] = at[g] /\ dest'[g] = dest[g]
  BY <1>0 DEF AskToHop, Abandon, Settle, Goto, TypeOK, actors
<1>2. \A r \in Place : SameAt(f, r)
  <2>1. CASE AskToHop(e)
    <3>1. Command("position_of", e) \in Commands /\ Command("position_of", e).op = "position_of"
      BY CommandType DEF Command
    <3>2. at[e] \in Place /\ Send(at[e], Command("position_of", e))
      BY <1>0, <2>1 DEF AskToHop, Placed
    <3> QED
      BY <1>0, <1>1, <3>1, <3>2, SendSame
  <2>2. CASE Abandon(e) \/ Settle(e)
    BY <1>1, <2>2, QuietSame DEF Abandon, Settle, actors
  <2> QED
    BY <2>1, <2>2
<1>3. CASE f # e
  <2>1. SameOwn(f)
    BY <1>1, <1>3 DEF SameOwn
  <2> QED
    BY <1>0, <1>2, <2>1, Untouched
<1>4. CASE f = e
  <2>1. /\ ~InTask(e) /\ changed[e] = <<>>
        /\ \A p \in Place : ~Pending(p, e)
        /\ \A p : IsAt(e, p) <=> \/ pc[e] \in {"hydrating", "joined", "asking"} /\ p = at[e]
                                 \/ pc[e] = "hopping" /\ p = dest[e]
    BY <1>0, HopperStill
  <2>2. /\ pc'[e] \in {"joined", "asking"} /\ pc[e] \in {"joined", "asking", "hopping"}
        /\ at'[e] = IF pc[e] = "hopping" THEN dest[e] ELSE at[e]
    BY <1>0 DEF AskToHop, Abandon, Settle, Goto, TypeOK
  <2>3. pc'[e] = "asking" => dest'[e] # at'[e] /\ dest'[e][1] = at'[e][1]
    <3> SUFFICES ASSUME pc'[e] = "asking"
                 PROVE  dest'[e] # at'[e] /\ dest'[e][1] = at'[e][1]
      OBVIOUS
    <3>1. AskToHop(e)
      BY <1>0 DEF Abandon, Settle, Goto, TypeOK
    <3>2. PICK g \in Fellows[e] :
             \E p \in JoinLayerOf(at[e][1], g) \ {at[e]} : dest' = [dest EXCEPT ![e] = p]
      BY <3>1 DEF AskToHop
    <3>3. PICK p \in JoinLayerOf(at[e][1], g) \ {at[e]} : dest' = [dest EXCEPT ![e] = p]
      BY <3>2
    <3>4. p[1] = at[e][1] /\ p # at[e] /\ at'[e] = at[e]
      BY <3>1, <3>3 DEF AskToHop, JoinLayerOf, LayersHolding, Running
    <3> QED
      BY <1>0, <3>3, <3>4 DEF TypeOK
  <2>4. \A p : IsAt(e, p)' <=> IsAt(e, p)
    BY <1>1, <2>1, <2>2 DEF IsAt, InTask
  <2>5. Own(e)'
    BY <1>1, <1>2, <1>4, <2>1, <2>3 DEF Own, InTask, SameAt
  <2>6. ASSUME NEW r \in Place PROVE AtPlace(e, r)'
    BY <1>0, <1>2, <1>4, <2>1, <2>2, <2>4 DEF Fine, AtPlace, SameAt, Live
  <2> QED
    BY <1>4, <2>5, <2>6 DEF Fine
<1> QED
  BY <1>3, <1>4

\* The hop itself takes it from one layer to the other in both its world and its
\* Sessions map, by the commands it queues.
LEMMA HopFine ==
  ASSUME PlaceInv, NEW e \in Entity, Hop(e), NEW f \in Entity
  PROVE  Fine(f)'
<1> DEFINE c == Command("despawn", e)
           d == Command("spawn", e)
<1>0. TypeOK /\ Placed /\ Fine(f) /\ Fine(e) /\ e \in Hoppers /\ pc[e] = "asking"
  BY DEF PlaceInv, Inv, TypeInv, OnlyHoppersHop, Hop
<1>1. /\ c \in Commands /\ Is(c, "despawn", e) /\ c.op = "despawn" /\ c.entity = e
      /\ d \in Commands /\ Is(d, "spawn", e) /\ d.op = "spawn" /\ d.entity = e
  BY CommandType DEF Is, Command
<1>2. /\ at[e] \in Place /\ dest[e] \in Place /\ at[e] # dest[e]
      /\ UNCHANGED <<world, moves, handoffs, changed, at, dest>>
      /\ pc' = [pc EXCEPT ![e] = "hopping"]
  BY <1>0 DEF Placed, Hop, Goto, Fine, Own, actors
<1>3. \A r \in Place :
         /\ queue'[r] = IF r = at[e] THEN Append(queue[r], c)
                        ELSE IF r = dest[e] THEN Append(queue[r], d) ELSE queue[r]
         /\ \A g \in Entity :
               g \in sessions'[r] <=> IF g = e /\ r = at[e] THEN FALSE
                                      ELSE g \in sessions[r] \/ (g = e /\ r = dest[e])
  <2>1. \A r \in Place :
           queue'[r] = CASE r = at[e]   -> Append(queue[r], c)
                         [] r = dest[e] -> Append(queue[r], d)
                         [] OTHER       -> queue[r]
    BY DEF Hop
  <2>2. \A r \in Place :
           sessions'[r] = CASE r = at[e]   -> sessions[r] \ {e}
                            [] r = dest[e] -> sessions[r] \cup {e}
                            [] OTHER       -> sessions[r]
    BY DEF Hop
  <2> HIDE DEF c, d
  <2>3. ASSUME NEW r \in Place, NEW g \in Entity
        PROVE  g \in sessions'[r] <=> IF g = e /\ r = at[e] THEN FALSE
                                      ELSE g \in sessions[r] \/ (g = e /\ r = dest[e])
    <3>1. CASE r = at[e]
      BY <1>2, <2>2, <3>1
    <3>2. CASE r = dest[e]
      <4>1. sessions'[r] = sessions[r] \cup {e}
        BY <1>2, <2>2, <3>2
      <4> QED
        BY <1>2, <3>2, <4>1
    <3>3. CASE r # at[e] /\ r # dest[e]
      BY <2>2, <3>3
    <3> QED
      BY <3>1, <3>2, <3>3
  <2>4. ASSUME NEW r \in Place
        PROVE  queue'[r] = IF r = at[e] THEN Append(queue[r], c)
                           ELSE IF r = dest[e] THEN Append(queue[r], d) ELSE queue[r]
    BY <1>2, <2>1
  <2> QED
    BY <2>3, <2>4
<1> HIDE DEF c, d
<1>4. CASE f # e
  <2>1. SameOwn(f)
    BY <1>0, <1>2, <1>4 DEF SameOwn, TypeOK
  <2>2. ASSUME NEW r \in Place PROVE SameAt(f, r)
    <3>1. CASE r \in {at[e], dest[e]}
      BY <1>0, <1>1, <1>2, <1>3, <1>4, <3>1, AppendSame
    <3>2. CASE r \notin {at[e], dest[e]}
      BY <1>2, <1>3, <1>4, <3>2 DEF SameAt, FinalAt, Pending
    <3> QED
      BY <3>1, <3>2
  <2> QED
    BY <1>0, <2>1, <2>2, Untouched
<1>5. CASE f = e
  <2>1. /\ ~InTask(e) /\ changed[e] = <<>>
        /\ \A p \in Place : ~Pending(p, e)
        /\ \A p : IsAt(e, p) <=> p = at[e]
    BY <1>0, HopperStill
  <2>2. pc'[e] = "hopping" /\ \A p : IsAt(e, p)' <=> p = dest[e]
    BY <1>0, <1>2 DEF IsAt, TypeOK
  <2>3. \A r \in Place :
           /\ queue[r] \in Seq(Commands)
           /\ FinalAt(r, e) <=> r = at[e]
           /\ e \in sessions[r] <=> r = at[e]
           /\ OneMove(queue[r], moves[r][e], e)
           /\ Legal(r[1], queue[r], moves[r][e], e)
    BY <1>0, <2>1 DEF TypeOK, Fine, AtPlace, Live
  <2>4. ASSUME NEW r \in Place
        PROVE  /\ OneMove(queue'[r], moves'[r][e], e)
               /\ Legal(r[1], queue'[r], moves'[r][e], e)
               /\ ~Pending(r, e)'
    <3>1. CASE r \in {at[e], dest[e]}
      BY <1>1, <1>2, <1>3, <2>1, <2>3, <3>1, AppendStill DEF Pending
    <3>2. CASE r \notin {at[e], dest[e]}
      BY <1>2, <1>3, <2>1, <2>3, <3>2 DEF Pending
    <3> QED
      BY <3>1, <3>2
  <2>5. ASSUME NEW r \in Place PROVE FinalAt(r, e)' <=> r = dest[e]
    <3>1. ~Is(c, "spawn", e) /\ ~Is(d, "despawn", e)
      BY <1>1 DEF Is
    <3> QED
      BY <1>1, <1>2, <1>3, <2>3, <3>1, AppendFinal DEF FinalAt
  <2>6. Own(e)'
    BY <1>2, <2>1, <2>2, <2>4 DEF Own, InTask
  <2>7. ASSUME NEW r \in Place PROVE AtPlace(e, r)'
    BY <1>0, <1>2, <1>3, <2>2, <2>3, <2>4, <2>5 DEF AtPlace
  <2> QED
    BY <1>5, <2>6, <2>7 DEF Fine
<1> QED
  BY <1>4, <1>5

\* Whoever closes, departs or fails is a live player no more.
LEMMA LeaveFine ==
  ASSUME PlaceInv, NEW e \in Entity, Close(e) \/ Depart(e) \/ Fail(e), NEW f \in Entity
  PROVE  Fine(f)'
<1> DEFINE c == Command("despawn", e)
<1>0. TypeOK /\ Placed /\ Fine(f)
  BY DEF PlaceInv, Inv, TypeInv
<1>1. /\ UNCHANGED <<world, moves, handoffs, at, dest>>
      /\ pc'[e] \notin Live
      /\ \A g \in Entity \ {e} :
            /\ pc'[g] = pc[g] /\ changed'[g] = changed[g]
            /\ \A r \in Place : g \in sessions'[r] <=> g \in sessions[r]
  <2>1. /\ UNCHANGED <<world, moves, handoffs, at, dest>>
        /\ \E l \in {"closing", "gone", "failed"} : pc' = [pc EXCEPT ![e] = l]
        /\ changed' \in {changed, [changed EXCEPT ![e] = <<>>]}
        /\ \/ sessions' = sessions
           \/ sessions' = [sessions EXCEPT ![at[e]] = sessions[at[e]] \ {e}]
    BY DEF Close, Depart, Fail, Goto, actors
  <2>2. ASSUME NEW g \in Entity \ {e}, NEW r \in Place
        PROVE  g \in sessions'[r] <=> g \in sessions[r]
    <3>1. \/ sessions'[r] = sessions[r]
          \/ r = at[e] /\ sessions'[r] = sessions[r] \ {e}
      BY <1>0, <2>1 DEF TypeOK
    <3> QED
      BY <3>1
  <2> QED
    BY <1>0, <2>1, <2>2 DEF TypeOK, Live
<1>2. c \in Commands /\ c.op = "despawn" /\ c.entity = e
  BY CommandType DEF Command
<1> HIDE DEF c
<1>3. \/ queue' = queue
      \/ at[e] \in Place /\ Send(at[e], c)
  BY <1>0 DEF Close, Depart, Fail, Placed, c
<1>4. CASE f # e
  <2>1. SameOwn(f)
    BY <1>1, <1>4 DEF SameOwn
  <2>2. \A r \in Place : SameAt(f, r)
    <3>1. CASE queue' = queue
      BY <1>1, <1>4, <3>1 DEF SameAt, FinalAt, Pending
    <3>2. CASE at[e] \in Place /\ Send(at[e], c)
      BY <1>0, <1>1, <1>2, <1>4, <3>2, SendSame
    <3> QED
      BY <1>3, <3>1, <3>2
  <2> QED
    BY <1>0, <2>1, <2>2, Untouched
<1>5. CASE f = e
  <2>1. ASSUME NEW r \in Place PROVE Legal(r[1], queue'[r], moves'[r][e], e)
    <3>1. queue[r] \in Seq(Commands) /\ Legal(r[1], queue[r], moves[r][e], e)
      BY <1>0, <1>5 DEF TypeOK, Fine, AtPlace
    <3>2. queue'[r] = queue[r] \/ queue'[r] = Append(queue[r], c)
      BY <1>0, <1>3 DEF Send, TypeOK
    <3> QED
      BY <1>1, <1>2, <3>1, <3>2, AppendStill
  <2> QED
    BY <1>1, <1>5, <2>1, LeftFine
<1> QED
  BY <1>4, <1>5

LEMMA JoinFine ==
  ASSUME PlaceInv, NEW e \in Entity, JoinGroupmate(e) \/ JoinAssigned(e), NEW f \in Entity
  PROVE  Fine(f)'
<1>0. TypeOK
  BY DEF PlaceInv, Inv, TypeInv
<1>1. PICK p \in Place : SpawnAt(e, p)
  <2>1. CASE JoinGroupmate(e)
    <3>1. PICK p \in UNION {JoinLayerOf(HomeZone[e], g) : g \in Fellows[e]} : SpawnAt(e, p)
      BY <2>1 DEF JoinGroupmate
    <3>2. p \in Place
      BY <1>0, <3>1, RunningPlaces, ConstantsAssumption DEF JoinLayerOf, LayersHolding
    <3> QED
      BY <3>1, <3>2
  <2>2. CASE JoinAssigned(e)
    <3>1. HomeZone[e] \in Zone
      BY ConstantsAssumption
    <3>2. PICK p \in Emptiest(HomeZone[e]) :
             \/ SpawnAt(e, p)
             \/ layers[HomeZone[e]] < MaxLayers /\ SpawnAt(e, <<HomeZone[e], layers[HomeZone[e]]>>)
      BY <2>2 DEF JoinAssigned
    <3>3. p \in Place
      BY <1>0, <3>1, RunningPlaces DEF Emptiest
    <3> QED
      BY <1>0, <3>1, <3>2, <3>3, RunningPlaces
  <2> QED
    BY <2>1, <2>2
<1>2. pc[e] = "new"
  BY DEF JoinGroupmate, JoinAssigned
<1> QED
  BY <1>1, <1>2, SpawnAtFine
----------------------------------------------------------------------------
LEMMA InitPlace == Init => PlaceInv
<1> SUFFICES ASSUME Init PROVE PlaceInv
  OBVIOUS
<1>1. Inv
  BY InitPresence
<1>2. ASSUME NEW e \in Entity PROVE Fine(e)
  <2>1. pc[e] = "new" /\ changed[e] = <<>> /\ handoffs = {}
    BY DEF Init
  <2>2. \A p \in Place : queue[p] = <<>> /\ moves[p][e] = None /\ world[p] = {}
    BY DEF Init
  <2>3. \A p \in Place : DOMAIN queue[p] = {}
    BY <2>2
  <2> QED
    BY <2>1, <2>2, <2>3 DEF Fine, Own, AtPlace, IsAt, FinalAt, Final, Tidy, OneMove, Legal, Pending, Has
<1> QED
  BY <1>1, <1>2 DEF PlaceInv

LEMMA NextPlace ==
  ASSUME Walkers \cap Hoppers = {}, \A z \in Zone : <<z, z>> \notin Links
  PROVE  PlaceInv /\ [Next]_vars => PlaceInv'
<1> SUFFICES ASSUME PlaceInv, [Next]_vars PROVE PlaceInv'
  OBVIOUS
<1>0. Inv /\ TypeOK
  BY DEF PlaceInv, Inv, TypeInv
<1>1. Inv'
  BY <1>0, NextPresence
<1>2. ASSUME NEW f \in Entity PROVE Fine(f)'
  <2>1. ASSUME NEW e \in Entity, Session(e) PROVE Fine(f)'
    BY <2>1, JoinFine, RegisterFine, WalkFine, FollowFine, HopEdgesFine, HopFine, LeaveFine
    DEF Session
  <2>2. ASSUME NEW p \in Place, Take(p) PROVE Fine(f)'
    BY <1>0, <2>2, TakeSame, Untouched DEF PlaceInv
  <2>3. ASSUME NEW p \in Place, Tick(p) PROVE Fine(f)'
    <3>1. CASE f \in Crossing(p)
      BY <2>3, <3>1, TickFine
    <3>2. CASE f \notin Crossing(p)
      BY <1>0, <2>3, <3>2, TickSame, Untouched DEF PlaceInv
    <3> QED
      BY <3>1, <3>2
  <2>4. ASSUME NEW h \in handoffs, Arrive(h) \/ Announce(h) PROVE Fine(f)'
    BY <2>4, ArriveFine, AnnounceFine
  <2>5. CASE UNCHANGED vars
    <3>1. SameOwn(f) /\ \A p \in Place : SameAt(f, p)
      BY <2>5, QuietSame DEF vars, SameOwn
    <3> QED
      BY <3>1, Untouched DEF PlaceInv
  <2> QED
    BY <2>1, <2>2, <2>3, <2>4, <2>5 DEF Next
<1> QED
  BY <1>1, <1>2 DEF PlaceInv

\* If no client both walks through links and hops between layers, and no link
\* leads back into its own zone, then a player about whom nothing is under way
\* stands in exactly the world and the Sessions map its session talks to.
THEOREM SettledPlayersInPlace ==
  ASSUME Walkers \cap Hoppers = {}, \A z \in Zone : <<z, z>> \notin Links
  PROVE  Spec => []SettledInPlace
<1>1. PlaceInv => SettledInPlace
  <2> SUFFICES ASSUME PlaceInv, NEW e \in Entity, Settled(e)
               PROVE  /\ {p \in Place : e \in world[p]} = {at[e]}
                      /\ {p \in Place : e \in sessions[p]} = {at[e]}
    BY DEF SettledInPlace
  <2>1. TypeOK /\ at[e] \in Place /\ Fine(e)
    BY DEF PlaceInv, Inv, TypeInv, Placed, Settled
  <2>2. \A p : IsAt(e, p) <=> p = at[e]
    BY DEF IsAt, InTask, Settled, InFlight
  <2>3. \A p \in Place : ~Has(queue[p], "spawn", e) /\ ~Has(queue[p], "despawn", e)
    BY <2>1, QueuedIs DEF Settled, InFlight
  <2>4. \A p \in Place : FinalAt(p, e) <=> e \in world[p]
    BY <2>3 DEF FinalAt, Final, Has
  <2>5. \A p \in Place : (e \in world[p] <=> p = at[e]) /\ (e \in sessions[p] <=> p = at[e])
    BY <2>1, <2>2, <2>4 DEF Fine, AtPlace, Live, Settled
  <2> QED
    BY <2>1, <2>5
<1>2. PlaceInv /\ [Next]_vars => PlaceInv'
  BY NextPlace
<1> QED
  BY InitPlace, <1>1, <1>2, PTL DEF Spec
----------------------------------------------------------------------------
\* A hop under way leads to another layer, of the zone it is from.
HopsElsewhere ==
    \A e \in Entity : pc[e] = "asking" => dest[e] # at[e] /\ dest[e][1] = at[e][1]

SightInv == TypeInv /\ NeverLost /\ HopsElsewhere

InLoop(e) == pc[e] \in {"joined", "asking", "hopping", "closing"}
Seen(e) ==
    \/ \E p \in Place : e \in sessions[p]
    \/ \E h \in handoffs : h.entity = e /\ h.stage = "leaving"

LEMMA SeenIs == NeverLost <=> \A e \in Entity : InLoop(e) => Seen(e)
  BY DEF NeverLost, InLoop, Seen

LEMMA SessionSight ==
  ASSUME SightInv, NEW e \in Entity, Session(e)
  PROVE  NeverLost' /\ HopsElsewhere'
<1>0. TypeOK /\ Placed /\ HopsElsewhere /\ \A f \in Entity : InLoop(f) => Seen(f)
  BY SeenIs DEF SightInv, TypeInv
<1>1. \A f \in Entity \ {e} : pc'[f] = pc[f] /\ at'[f] = at[f] /\ dest'[f] = dest[f]
  BY <1>0 DEF Session, JoinGroupmate, JoinAssigned, SpawnAt, Register, Walk, FollowZoneChange,
             AskToHop, Abandon, Hop, Settle, Close, Depart, Fail, Goto, connection, TypeOK
<1>2. HopsElsewhere'
  <2>1. CASE AskToHop(e)
    <3>1. /\ at' = at /\ pc' = [pc EXCEPT ![e] = "asking"]
          /\ \E g \in Fellows[e] : \E p \in JoinLayerOf(at[e][1], g) \ {at[e]} :
                dest' = [dest EXCEPT ![e] = p]
      BY <2>1 DEF AskToHop, Goto
    <3>2. PICK g \in Fellows[e] : \E p \in JoinLayerOf(at[e][1], g) \ {at[e]} :
                dest' = [dest EXCEPT ![e] = p]
      BY <3>1
    <3>3. PICK p \in JoinLayerOf(at[e][1], g) \ {at[e]} : dest' = [dest EXCEPT ![e] = p]
      BY <3>2
    <3>4. p[1] = at[e][1] /\ p # at[e]
      BY <3>3 DEF JoinLayerOf, LayersHolding, Running
    <3>5. dest'[e] = p /\ at'[e] = at[e] /\ \A f \in Entity \ {e} : pc'[f] = pc[f]
      BY <1>0, <3>1, <3>3 DEF TypeOK
    <3> QED
      BY <1>0, <1>1, <3>4, <3>5 DEF HopsElsewhere
  <2>2. CASE ~AskToHop(e)
    <3>1. pc'[e] # "asking"
      BY <1>0, <2>2 DEF Session, JoinGroupmate, JoinAssigned, SpawnAt, Register, Walk,
             FollowZoneChange, Abandon, Hop, Settle, Close, Depart, Fail, Goto, connection, TypeOK
    <3> QED
      BY <1>0, <1>1, <3>1 DEF HopsElsewhere
  <2> QED
    BY <2>1, <2>2
<1>3. handoffs' = handoffs
  BY DEF Session, JoinGroupmate, JoinAssigned, SpawnAt, Register, Walk, FollowZoneChange,
         AskToHop, Abandon, Hop, Settle, Close, Depart, Fail
<1>4. CASE JoinGroupmate(e) \/ JoinAssigned(e)
  <2>1. sessions' = sessions /\ pc' = [pc EXCEPT ![e] = "hydrating"]
    BY <1>4 DEF JoinGroupmate, JoinAssigned, SpawnAt, Goto
  <2>2. \A f \in Entity : (Seen(f)' <=> Seen(f)) /\ (InLoop(f)' => InLoop(f))
    BY <1>0, <1>3, <2>1 DEF Seen, InLoop, TypeOK
  <2> QED
    BY <1>0, <1>2, <2>2 DEF NeverLost, InLoop, Seen
<1>5. CASE Register(e)
  <2>1. at[e] \in Place /\ sessions' = [sessions EXCEPT ![at[e]] = sessions[at[e]] \cup {e}]
    BY <1>0, <1>5 DEF Register, Placed
  <2>2. e \in sessions'[at[e]] /\ \A p \in Place : sessions[p] \subseteq sessions'[p]
    BY <1>0, <2>1 DEF TypeOK
  <2>3. \A f \in Entity : InLoop(f)' => Seen(f)'
    BY <1>0, <1>1, <1>3, <2>1, <2>2 DEF Seen, InLoop
  <2> QED
    BY <1>2, <2>3 DEF NeverLost, InLoop, Seen
<1>6. CASE Hop(e)
  <2>1. dest[e] \in Place /\ at[e] # dest[e] /\ pc[e] = "asking"
    BY <1>0, <1>6 DEF Hop, Placed, HopsElsewhere
  <2>2. \A p \in Place : sessions'[p] = CASE p = at[e]   -> sessions[p] \ {e}
                                          [] p = dest[e] -> sessions[p] \cup {e}
                                          [] OTHER       -> sessions[p]
    BY <1>6 DEF Hop
  <2>3. sessions'[dest[e]] = sessions[dest[e]] \cup {e}
    BY <2>1, <2>2
  <2>4. \A p \in Place, f \in Entity \ {e} : f \in sessions[p] => f \in sessions'[p]
    BY <2>1, <2>2
  <2>5. \A f \in Entity : InLoop(f)' => Seen(f)'
    BY <1>0, <1>1, <1>3, <2>1, <2>3, <2>4 DEF Seen, InLoop
  <2> QED
    BY <1>2, <2>5 DEF NeverLost, InLoop, Seen
<1>7. CASE Depart(e)
  <2>1. \A p \in Place, f \in Entity \ {e} : f \in sessions[p] => f \in sessions'[p]
    BY <1>0, <1>7 DEF Depart, TypeOK
  <2>2. pc'[e] = "gone"
    BY <1>0, <1>7 DEF Depart, Goto, TypeOK
  <2>3. \A f \in Entity : InLoop(f)' => Seen(f)'
    BY <1>0, <1>1, <1>3, <2>1, <2>2 DEF Seen, InLoop
  <2> QED
    BY <1>2, <2>3 DEF NeverLost, InLoop, Seen
<1>8. CASE \/ Walk(e) \/ FollowZoneChange(e) \/ AskToHop(e) \/ Abandon(e) \/ Settle(e)
           \/ Close(e) \/ Fail(e)
  <2>1. sessions' = sessions
    BY <1>8 DEF Walk, FollowZoneChange, AskToHop, Abandon, Settle, Close, Fail
  <2>2. InLoop(e)' => InLoop(e)
    BY <1>0, <1>8 DEF Walk, FollowZoneChange, AskToHop, Abandon, Settle, Close, Fail, Goto,
                      connection, InLoop, TypeOK
  <2>3. \A f \in Entity : InLoop(f)' => Seen(f)'
    BY <1>0, <1>1, <1>3, <2>1, <2>2 DEF Seen, InLoop
  <2> QED
    BY <1>2, <2>3 DEF NeverLost, InLoop, Seen
<1> QED
  BY <1>4, <1>5, <1>6, <1>7, <1>8 DEF Session

LEMMA NextSight == SightInv /\ [Next]_vars => SightInv'
<1> SUFFICES ASSUME SightInv, [Next]_vars PROVE SightInv'
  OBVIOUS
<1>0. TypeInv /\ TypeOK /\ HopsElsewhere /\ \A f \in Entity : InLoop(f) => Seen(f)
  BY SeenIs DEF SightInv, TypeInv
<1>1. TypeInv'
  BY <1>0, NextTypeInv
<1>2. NeverLost' /\ HopsElsewhere'
  <2>1. CASE \E e \in Entity : Session(e)
    BY <2>1, SessionSight
  <2>2. ASSUME NEW p \in Place, Take(p) PROVE NeverLost' /\ HopsElsewhere'
    BY <1>0, <2>2 DEF Take, NeverLost, HopsElsewhere, InLoop, Seen
  <2>3. ASSUME NEW p \in Place, Tick(p) PROVE NeverLost' /\ HopsElsewhere'
    <3>1. /\ UNCHANGED <<pc, at, dest>> /\ handoffs \subseteq handoffs'
          /\ sessions' = [sessions EXCEPT ![p] = sessions[p] \ Crossing(p)]
          /\ \A f \in Crossing(p) \cap sessions[p] :
                [entity |-> f, to |-> moves[p][f], stage |-> "leaving"] \in handoffs'
      BY <2>3 DEF Tick, connection
    <3>2. \A r \in Place : sessions'[r] = IF r = p THEN sessions[p] \ Crossing(p) ELSE sessions[r]
      BY <1>0, <3>1 DEF TypeOK
    <3>3. ASSUME NEW f \in Entity, Seen(f) PROVE Seen(f)'
      <4>1. CASE f \in Crossing(p) \cap sessions[p]
        <5> DEFINE h == [entity |-> f, to |-> moves[p][f], stage |-> "leaving"]
        <5>1. h \in handoffs' /\ h.entity = f /\ h.stage = "leaving"
          BY <3>1, <4>1
        <5> QED
          BY <5>1 DEF Seen
      <4>2. CASE f \notin Crossing(p) \cap sessions[p]
        BY <3>1, <3>2, <3>3, <4>2 DEF Seen
      <4> QED
        BY <4>1, <4>2
    <3> QED
      BY <1>0, <3>1, <3>3 DEF NeverLost, HopsElsewhere, InLoop, Seen
  <2>4. ASSUME NEW h \in handoffs, Arrive(h) PROVE NeverLost' /\ HopsElsewhere'
    <3> DEFINE p == <<h.to, 0>>
    <3>1. p \in Place /\ h.stage = "leaving"
      BY <1>0, <2>4, RunningPlaces DEF TypeOK, Handoffs, Arrive
    <3>2. /\ UNCHANGED <<pc, at, dest>> /\ handoffs \ {h} \subseteq handoffs'
          /\ sessions' = [sessions EXCEPT ![p] = sessions[p] \cup {h.entity}]
      BY <2>4 DEF Arrive, connection
    <3> HIDE DEF p
    <3>3. \A r \in Place : sessions[r] \subseteq sessions'[r]
      BY <1>0, <3>2 DEF TypeOK
    <3>4. h.entity \in sessions'[p]
      BY <1>0, <3>1, <3>2 DEF TypeOK
    <3>5. ASSUME NEW f \in Entity, Seen(f) PROVE Seen(f)'
      BY <3>1, <3>2, <3>3, <3>4, <3>5 DEF Seen
    <3> QED
      BY <1>0, <3>2, <3>5 DEF NeverLost, HopsElsewhere, InLoop, Seen
  <2>5. ASSUME NEW h \in handoffs, Announce(h) PROVE NeverLost' /\ HopsElsewhere'
    BY <1>0, <2>5 DEF Announce, NeverLost, HopsElsewhere, InLoop, Seen
  <2>6. CASE UNCHANGED vars
    BY <1>0, <2>6 DEF vars, NeverLost, HopsElsewhere, InLoop, Seen
  <2> QED
    BY <2>1, <2>2, <2>3, <2>4, <2>5, <2>6 DEF Next
<1> QED
  BY <1>1, <1>2 DEF SightInv

\* No player in the select loop is ever lost to everyone's sight, for any links
\* and clients: hops and crossings of one player may interleave as they like.
THEOREM NobodyIsLost == Spec => []NeverLost
<1>1. Init => SightInv
  BY InitTypeInv DEF SightInv, NeverLost, HopsElsewhere, Init
<1>2. SightInv => NeverLost
  BY DEF SightInv
<1> QED
  BY <1>1, <1>2, NextSight, PTL DEF Spec
----------------------------------------------------------------------------
\* Whatever is queued or pending of anybody's moves leads along links.
AllLegal == \A e \in Entity, p \in Place : Legal(p[1], queue[p], moves[p][e], e)

LEMMA SendLegal ==
  ASSUME TypeOK, AllLegal, NEW p \in Place, NEW c \in Commands, Send(p, c), moves' = moves,
         c.op = "move" => <<p[1], c.to>> \in Links
  PROVE  AllLegal'
<1> SUFFICES ASSUME NEW e \in Entity, NEW r \in Place
             PROVE  Legal(r[1], queue'[r], moves'[r][e], e)
  BY DEF AllLegal
<1>1. queue[r] \in Seq(Commands) /\ Legal(r[1], queue[r], moves[r][e], e)
  BY DEF TypeOK, AllLegal
<1>2. queue'[r] = IF r = p THEN Append(queue[p], c) ELSE queue[r]
  BY DEF Send, TypeOK
<1>3. CASE r = p
  <2> DEFINE q == queue[p]
  <2>1. \A i \in DOMAIN Append(q, c) : Append(q, c)[i] = c \/ (i \in DOMAIN q /\ Append(q, c)[i] = q[i])
    BY <1>1, <1>3
  <2> QED
    BY <1>1, <1>2, <1>3, <2>1 DEF Legal, Is
<1> QED
  BY <1>1, <1>2, <1>3

LEMMA NextLegal == TypeInv /\ AllLegal /\ [Next]_vars => AllLegal'
<1> SUFFICES ASSUME TypeInv, AllLegal, [Next]_vars PROVE AllLegal'
  OBVIOUS
<1>0. TypeOK /\ Placed
  BY DEF TypeInv
<1>1. ASSUME NEW e \in Entity, Session(e) PROVE AllLegal'
  <2> DEFINE d == Command("despawn", e)  s == Command("spawn", e)  a == Command("position_of", e)
  <2>0. /\ d \in Commands /\ s \in Commands /\ a \in Commands
        /\ d.op # "move" /\ s.op # "move" /\ a.op # "move"
    BY CommandType DEF Command
  <2>1. CASE JoinGroupmate(e) \/ JoinAssigned(e)
    <3>1. PICK p \in Place : SpawnAt(e, p)
      <4>1. CASE JoinGroupmate(e)
        BY <1>0, <4>1, RunningPlaces, ConstantsAssumption DEF JoinGroupmate, JoinLayerOf, LayersHolding
      <4>2. CASE JoinAssigned(e)
        BY <1>0, <4>2, RunningPlaces, ConstantsAssumption DEF JoinAssigned, Emptiest
      <4> QED
        BY <2>1, <4>1, <4>2
    <3>2. Send(p, s) /\ moves' = moves
      BY <3>1 DEF SpawnAt
    <3> HIDE DEF s
    <3> QED
      BY <1>0, <2>0, <3>2, SendLegal
  <2>2. CASE Walk(e)
    <3>1. at[e] \in Place /\ moves' = moves
      BY <1>0, <2>2 DEF Walk, Placed, actors
    <3>2. PICK z \in Zone : <<at[e][1], z>> \in Links /\ Send(at[e], Move(e, z))
      BY <2>2 DEF Walk
    <3>3. Move(e, z) \in Commands /\ Move(e, z).to = z
      BY CommandType DEF Move
    <3> QED
      BY <1>0, <3>1, <3>2, <3>3, SendLegal
  <2>3. CASE AskToHop(e)
    <3>1. at[e] \in Place /\ moves' = moves /\ Send(at[e], a)
      BY <1>0, <2>3 DEF AskToHop, Placed, actors
    <3> HIDE DEF a
    <3> QED
      BY <1>0, <2>0, <3>1, SendLegal
  <2>4. CASE Depart(e)
    <3>1. at[e] \in Place /\ moves' = moves /\ Send(at[e], d)
      BY <1>0, <2>4 DEF Depart, Placed, actors
    <3> HIDE DEF d
    <3> QED
      BY <1>0, <2>0, <3>1, SendLegal
  <2>5. CASE Hop(e)
    <3>1. /\ moves' = moves
          /\ \A p \in Place : queue'[p] \in {Append(queue[p], d), Append(queue[p], s), queue[p]}
      BY <2>5 DEF Hop, actors
    <3> HIDE DEF d, s
    <3> QED
      BY <1>0, <2>0, <3>1, AppendStill DEF AllLegal, TypeOK
  <2>6. CASE \/ Register(e) \/ FollowZoneChange(e) \/ Abandon(e) \/ Settle(e)
             \/ Close(e) \/ Fail(e)
    <3>1. queue' = queue /\ moves' = moves
      BY <2>6 DEF Register, FollowZoneChange, Abandon, Settle, Close, Fail, actors
    <3> QED
      BY <3>1 DEF AllLegal
  <2> HIDE DEF d, s, a
  <2> QED
    BY <1>1, <2>1, <2>2, <2>3, <2>4, <2>5, <2>6 DEF Session
<1>2. ASSUME NEW p \in Place, Take(p) PROVE AllLegal'
  BY <1>0, <1>2, TakeSame DEF AllLegal, SameAt
<1>3. ASSUME NEW p \in Place, Tick(p) PROVE AllLegal'
  <2>1. queue' = queue /\ moves' = [moves EXCEPT ![p] = [e \in Entity |-> None]]
    BY <1>3 DEF Tick
  <2>2. \A r \in Place, e \in Entity : moves'[r][e] \in {None, moves[r][e]}
    BY <1>0, <2>1 DEF TypeOK
  <2> QED
    BY <2>1, <2>2 DEF AllLegal, Legal
<1>4. ASSUME NEW h \in handoffs, Arrive(h) PROVE AllLegal'
  <2> DEFINE p == <<h.to, 0>>  s == Command("spawn", h.entity)
  <2>1. p \in Place /\ s \in Commands /\ s.op # "move"
    BY <1>0, RunningPlaces, CommandType DEF TypeOK, Handoffs, Command
  <2>2. Send(p, s) /\ moves' = moves
    BY <1>4 DEF Arrive, actors
  <2> HIDE DEF p, s
  <2> QED
    BY <1>0, <2>1, <2>2, SendLegal
<1>5. ASSUME NEW h \in handoffs, Announce(h) PROVE AllLegal'
  BY <1>5 DEF Announce, AllLegal, actors
<1>6. CASE UNCHANGED vars
  BY <1>6 DEF vars, AllLegal
<1> QED
  BY <1>1, <1>2, <1>3, <1>4, <1>5, <1>6 DEF Next
----------------------------------------------------------------------------
\* Presence, case by case, in one state and in the next.
InSessions(e) == \E p \in Place : e \in sessions[p]
Leaving(e)    == \E h \in handoffs : h.entity = e /\ h.stage = "leaving"
Joining(e)    == pc[e] \in {"new", "hydrating"}

Told(e) ==
    /\ \A p \in Place : e \in sessions[p] => PlaceOf(e) = p
    /\ \A h \in handoffs : h.entity = e /\ h.stage = "leaving" => PlaceOf(e) = Transit(h.to)
    /\ ~InSessions(e) /\ ~Leaving(e) =>
          PlaceOf(e) = IF Joining(e) THEN <<"outside">> ELSE <<"gone">>

LEMMA PlaceTold ==
  ASSUME NEW e \in Entity
  PROVE  /\ OneLayerAtATime /\ NoneWhileCrossing => Told(e)
         /\ (OneLayerAtATime /\ NoneWhileCrossing)' => Told(e)'
<1>1. ASSUME OneLayerAtATime, NoneWhileCrossing PROVE Told(e)
  <2> DEFINE P == CHOOSE p \in Place : e \in sessions[p]
             H == CHOOSE h \in handoffs : h.entity = e /\ h.stage = "leaving"
  <2>1. InSessions(e) => P \in Place /\ e \in sessions[P]
    BY DEF InSessions
  <2>2. Leaving(e) => H \in handoffs /\ H.entity = e /\ H.stage = "leaving"
    BY DEF Leaving
  <2>3. PlaceOf(e) = IF InSessions(e) THEN P
                     ELSE IF Leaving(e) THEN Transit(H.to)
                     ELSE IF Joining(e) THEN <<"outside">> ELSE <<"gone">>
    BY DEF PlaceOf, InSessions, Leaving, Joining
  <2> HIDE DEF P, H
  <2>4. \A p \in Place : e \in sessions[p] => PlaceOf(e) = p
    BY <1>1, <2>1, <2>3 DEF OneLayerAtATime, InSessions
  <2>5. ASSUME NEW h \in handoffs, h.entity = e, h.stage = "leaving"
        PROVE  PlaceOf(e) = Transit(h.to)
    <3>1. ~InSessions(e) /\ Leaving(e)
      BY <1>1, <2>5 DEF NoneWhileCrossing, InSessions, Leaving
    <3>2. H = h
      BY <1>1, <2>2, <2>5, <3>1 DEF NoneWhileCrossing
    <3> QED
      BY <2>3, <3>1, <3>2
  <2> QED
    BY <2>3, <2>4, <2>5 DEF Told
<1>2. ASSUME OneLayerAtATime', NoneWhileCrossing' PROVE Told(e)'
  <2> DEFINE P == CHOOSE p \in Place : e \in sessions'[p]
             H == CHOOSE h \in handoffs' : h.entity = e /\ h.stage = "leaving"
  <2>1. InSessions(e)' => P \in Place /\ e \in sessions'[P]
    BY DEF InSessions
  <2>2. Leaving(e)' => H \in handoffs' /\ H.entity = e /\ H.stage = "leaving"
    BY DEF Leaving
  <2>3. PlaceOf(e)' = IF InSessions(e)' THEN P
                      ELSE IF Leaving(e)' THEN Transit(H.to)
                      ELSE IF Joining(e)' THEN <<"outside">> ELSE <<"gone">>
    BY DEF PlaceOf, InSessions, Leaving, Joining
  <2> HIDE DEF P, H
  <2>4. \A p \in Place : e \in sessions'[p] => PlaceOf(e)' = p
    BY <1>2, <2>1, <2>3 DEF OneLayerAtATime, InSessions
  <2>5. ASSUME NEW h \in handoffs', h.entity = e, h.stage = "leaving"
        PROVE  PlaceOf(e)' = Transit(h.to)
    <3>1. ~InSessions(e)' /\ Leaving(e)'
      BY <1>2, <2>5 DEF NoneWhileCrossing, InSessions, Leaving
    <3>2. H = h
      BY <1>2, <2>2, <2>5, <3>1 DEF NoneWhileCrossing
    <3> QED
      BY <2>3, <3>1, <3>2
  <2> QED
    BY <2>3, <2>4, <2>5 DEF Told
<1> QED
  BY <1>1, <1>2

\* What a step leaves of a player's Sessions maps, crossings and joining, its
\* presence follows.
SamePresence(e) ==
    /\ \A p \in Place : e \in sessions'[p] <=> e \in sessions[p]
    /\ \A h \in handoffs \cup handoffs' :
          h.entity = e /\ h.stage = "leaving" => (h \in handoffs <=> h \in handoffs')
    /\ Joining(e)' <=> Joining(e)

LEMMA PresenceKept ==
  ASSUME NEW e \in Entity, Told(e), Told(e)', SamePresence(e)
  PROVE  PlaceOf(e)' = PlaceOf(e)
<1>1. (InSessions(e)' <=> InSessions(e)) /\ (Leaving(e)' <=> Leaving(e))
  BY DEF SamePresence, InSessions, Leaving
<1>2. CASE InSessions(e)
  BY <1>2 DEF InSessions, SamePresence, Told
<1>3. CASE Leaving(e)
  BY <1>3 DEF Leaving, SamePresence, Told
<1>4. CASE ~InSessions(e) /\ ~Leaving(e)
  BY <1>1, <1>4 DEF SamePresence, Told
<1> QED
  BY <1>2, <1>3, <1>4

\* One player's presence changes as Placement lets it: then so does everybody's.
LEMMA OneMoves ==
  ASSUME NEW e \in Entity, \A f \in Entity \ {e} : PlaceOf(f)' = PlaceOf(f),
         \/ PlaceOf(e)' = PlaceOf(e)
         \/ PlaceOf(e) = <<"outside">> /\ PlaceOf(e)' \in Place
         \/ \E p \in Place : p[2] = 0 /\ PlaceOf(e) = Transit(p[1]) /\ PlaceOf(e)' = p
         \/ \E p, q \in Place : /\ PlaceOf(e) = p /\ q[1] = p[1] /\ q[2] # p[2]
                                /\ PlaceOf(e)' = q
         \/ PlaceOf(e)' = <<"gone">>
  PROVE  [Abstract!Next]_Presence
<1>1. Presence' = [Presence EXCEPT ![e] = PlaceOf(e)'] /\ Presence[e] = PlaceOf(e)
  BY DEF Presence
<1>2. CASE PlaceOf(e)' = PlaceOf(e)
  BY <1>2 DEF Presence
<1>3. CASE PlaceOf(e) = <<"outside">> /\ PlaceOf(e)' \in Place
  <2>1. Abstract!Enter(e)
    BY <1>1, <1>3 DEF Abstract!Enter, Abstract!Become
  <2> QED
    BY <2>1 DEF Abstract!Next
<1>4. CASE \E p \in Place : p[2] = 0 /\ PlaceOf(e) = Transit(p[1]) /\ PlaceOf(e)' = p
  <2>1. Abstract!Land(e)
    BY <1>1, <1>4 DEF Abstract!Land, Abstract!Become
  <2> QED
    BY <2>1 DEF Abstract!Next
<1>5. CASE \E p, q \in Place : /\ PlaceOf(e) = p /\ q[1] = p[1] /\ q[2] # p[2]
                               /\ PlaceOf(e)' = q
  <2>1. Abstract!Hop(e)
    BY <1>1, <1>5 DEF Abstract!Hop, Abstract!Become
  <2> QED
    BY <2>1 DEF Abstract!Next
<1>6. CASE PlaceOf(e)' = <<"gone">> /\ PlaceOf(e) # <<"gone">>
  <2>1. Abstract!Leave(e)
    BY <1>1, <1>6 DEF Abstract!Leave, Abstract!Become
  <2> QED
    BY <2>1 DEF Abstract!Next
<1> QED
  BY <1>2, <1>3, <1>4, <1>5, <1>6

RefInv == Inv /\ SightInv /\ AllLegal

LEMMA SessionImplements ==
  ASSUME RefInv, RefInv', NEW e \in Entity, Session(e)
  PROVE  [Abstract!Next]_Presence
<1>0. /\ TypeOK /\ Placed /\ OneLayerAtATime /\ NoneWhileCrossing /\ NoneWhileJoining
      /\ HoppersStayPut /\ HoppersWhereTheyTalk /\ OnlyHoppersHop /\ NeverLost /\ HopsElsewhere
      /\ OneLayerAtATime' /\ NoneWhileCrossing'
  BY DEF RefInv, Inv, PresenceInv, TypeInv, SightInv
<1>1. \A f \in Entity : Told(f) /\ Told(f)'
  BY <1>0, PlaceTold
<1>2. handoffs' = handoffs
  BY DEF Session, JoinGroupmate, JoinAssigned, SpawnAt, Register, Walk, FollowZoneChange,
         AskToHop, Abandon, Hop, Settle, Close, Depart, Fail
<1>3. \A f \in Entity \ {e} : pc'[f] = pc[f]
  BY <1>0 DEF Session, JoinGroupmate, JoinAssigned, SpawnAt, Register, Walk, FollowZoneChange,
             AskToHop, Abandon, Hop, Settle, Close, Depart, Fail, Goto, connection, TypeOK
<1>4. \A f \in Entity \ {e}, p \in Place : f \in sessions'[p] <=> f \in sessions[p]
  <2>1. CASE Register(e)
    <3>1. sessions' = [sessions EXCEPT ![at[e]] = sessions[at[e]] \cup {e}]
      BY <2>1 DEF Register
    <3>2. \A p \in Place : sessions'[p] = sessions[p] \/ sessions'[p] = sessions[p] \cup {e}
      BY <1>0, <3>1 DEF TypeOK
    <3> QED
      BY <3>2
  <2>2. CASE Hop(e)
    <3>1. \A p \in Place : sessions'[p] \in {sessions[p], sessions[p] \ {e}, sessions[p] \cup {e}}
      BY <2>2 DEF Hop
    <3> QED
      BY <3>1
  <2>3. CASE Depart(e)
    <3>1. sessions' = [sessions EXCEPT ![at[e]] = sessions[at[e]] \ {e}]
      BY <2>3 DEF Depart
    <3>2. \A p \in Place : sessions'[p] = sessions[p] \/ sessions'[p] = sessions[p] \ {e}
      BY <1>0, <3>1 DEF TypeOK
    <3> QED
      BY <3>2
  <2>4. CASE ~(Register(e) \/ Hop(e) \/ Depart(e))
    <3>1. sessions' = sessions
      BY <2>4 DEF Session, JoinGroupmate, JoinAssigned, SpawnAt, Walk, FollowZoneChange,
                  AskToHop, Abandon, Settle, Close, Fail
    <3> QED
      BY <3>1
  <2> QED
    BY <2>1, <2>2, <2>3, <2>4
<1>5. \A f \in Entity \ {e} : PlaceOf(f)' = PlaceOf(f)
  <2> SUFFICES ASSUME NEW f \in Entity \ {e} PROVE SamePresence(f)
    BY <1>1, PresenceKept
  <2> QED
    BY <1>2, <1>3, <1>4 DEF SamePresence, Joining
<1>6. SamePresence(e) => [Abstract!Next]_Presence
  BY <1>1, <1>5, PresenceKept, OneMoves
<1>7. CASE \/ JoinGroupmate(e) \/ JoinAssigned(e) \/ Walk(e) \/ FollowZoneChange(e)
           \/ AskToHop(e) \/ Abandon(e) \/ Settle(e) \/ Close(e)
  <2>1. sessions' = sessions
    BY <1>7 DEF JoinGroupmate, JoinAssigned, SpawnAt, Walk, FollowZoneChange, AskToHop,
                Abandon, Settle, Close
  <2>2. Joining(e)' <=> Joining(e)
    BY <1>0, <1>7 DEF JoinGroupmate, JoinAssigned, SpawnAt, Walk, FollowZoneChange, AskToHop,
                      Abandon, Settle, Close, Goto, connection, Joining, TypeOK
  <2> QED
    BY <1>2, <1>6, <2>1, <2>2 DEF SamePresence
<1>8. CASE Register(e)
  <2>1. /\ pc[e] = "hydrating" /\ at[e] \in Place
        /\ sessions' = [sessions EXCEPT ![at[e]] = sessions[at[e]] \cup {e}]
    BY <1>0, <1>8 DEF Register, Placed
  <2>2. ~InSessions(e) /\ ~Leaving(e) /\ Joining(e)
    BY <1>0, <2>1 DEF NoneWhileJoining, InSessions, Leaving, Joining
  <2>3. e \in sessions'[at[e]]
    BY <1>0, <2>1 DEF TypeOK
  <2>4. PlaceOf(e) = <<"outside">> /\ PlaceOf(e)' = at[e]
    BY <1>1, <2>1, <2>2, <2>3 DEF Told
  <2> QED
    BY <1>5, <2>1, <2>4, OneMoves
<1>9. CASE Hop(e)
  <2>1. /\ pc[e] = "asking" /\ at[e] \in Place /\ dest[e] \in Place
        /\ dest[e] # at[e] /\ dest[e][1] = at[e][1] /\ e \in Hoppers
    BY <1>0, <1>9 DEF Hop, Placed, HopsElsewhere, OnlyHoppersHop
  <2>2. e \in sessions[at[e]]
    BY <1>0, <2>1 DEF NeverLost, HoppersStayPut, HoppersWhereTheyTalk
  <2>3. sessions'[dest[e]] = sessions[dest[e]] \cup {e}
    <3>1. \A p \in Place : sessions'[p] = CASE p = at[e]   -> sessions[p] \ {e}
                                            [] p = dest[e] -> sessions[p] \cup {e}
                                            [] OTHER       -> sessions[p]
      BY <1>9 DEF Hop
    <3> QED
      BY <2>1, <3>1
  <2>4. PlaceOf(e) = at[e] /\ PlaceOf(e)' = dest[e]
    BY <1>1, <2>1, <2>2, <2>3 DEF Told
  <2>5. dest[e][2] # at[e][2]
    BY <2>1 DEF Place
  <2> QED
    BY <1>5, <2>1, <2>4, <2>5, OneMoves
<1>10. CASE Depart(e)
  <2>1. /\ pc[e] = "closing" /\ pc'[e] = "gone" /\ at[e] \in Place
        /\ sessions' = [sessions EXCEPT ![at[e]] = sessions[at[e]] \ {e}]
    BY <1>0, <1>10 DEF Depart, Goto, Placed, TypeOK
  <2>2. \A p \in Place : sessions'[p] = IF p = at[e] THEN sessions[p] \ {e} ELSE sessions[p]
    BY <1>0, <2>1 DEF TypeOK
  <2>3. CASE e \in sessions[at[e]]
    <3>1. ~InSessions(e)' /\ ~Leaving(e)' /\ ~Joining(e)'
      BY <1>0, <1>2, <2>1, <2>2, <2>3 DEF OneLayerAtATime, NoneWhileCrossing, InSessions,
                                          Leaving, Joining
    <3>2. PlaceOf(e)' = <<"gone">>
      BY <1>1, <3>1 DEF Told
    <3> QED
      BY <1>5, <3>2, OneMoves
  <2>4. CASE e \notin sessions[at[e]]
    <3>1. SamePresence(e)
      BY <1>2, <2>1, <2>2, <2>4 DEF SamePresence, Joining
    <3> QED
      BY <1>6, <3>1
  <2> QED
    BY <2>3, <2>4
<1>11. CASE Fail(e)
  <2>1. pc'[e] = "failed" /\ sessions' = sessions
    BY <1>0, <1>11 DEF Fail, Goto, TypeOK
  <2>2. CASE Joining(e)
    <3>1. ~InSessions(e)' /\ ~Leaving(e)' /\ ~Joining(e)'
      BY <1>0, <1>2, <2>1, <2>2 DEF NoneWhileJoining, InSessions, Leaving, Joining
    <3>2. PlaceOf(e)' = <<"gone">>
      BY <1>1, <3>1 DEF Told
    <3> QED
      BY <1>5, <3>2, OneMoves
  <2>3. CASE ~Joining(e)
    <3>1. SamePresence(e)
      BY <1>2, <2>1, <2>3 DEF SamePresence, Joining
    <3> QED
      BY <1>6, <3>1
  <2> QED
    BY <2>2, <2>3
<1> QED
  BY <1>7, <1>8, <1>9, <1>10, <1>11 DEF Session

\* A tick takes those it takes out of Sessions across links, all at once.
LEMMA TickImplements ==
  ASSUME RefInv, RefInv', NEW p \in Place, Tick(p)
  PROVE  [Abstract!Next]_Presence
<1> DEFINE G == Crossing(p) \cap sessions[p]
           way == [f \in G |-> <<p[1], moves[p][f]>>]
<1>0. /\ TypeOK /\ OneLayerAtATime /\ NoneWhileCrossing /\ AllLegal
      /\ OneLayerAtATime' /\ NoneWhileCrossing'
  BY DEF RefInv, Inv, PresenceInv, TypeInv
<1>1. \A f \in Entity : Told(f) /\ Told(f)'
  BY <1>0, PlaceTold
<1>2. /\ pc' = pc
      /\ sessions' = [sessions EXCEPT ![p] = sessions[p] \ Crossing(p)]
      /\ handoffs' = handoffs \cup
            {[entity |-> f, to |-> moves[p][f], stage |-> "leaving"] : f \in G}
  BY DEF Tick, connection
<1>3. G \subseteq Entity /\ \A f \in G : moves[p][f] # None
  BY <1>0 DEF TypeOK, Crossing
<1>4. ASSUME NEW f \in Entity \ G PROVE PlaceOf(f)' = PlaceOf(f)
  <2>1. \A r \in Place : f \in sessions'[r] <=> f \in sessions[r]
    BY <1>0, <1>2, <1>4 DEF TypeOK
  <2>2. \A h \in handoffs \cup handoffs' : h.entity = f => (h \in handoffs <=> h \in handoffs')
    BY <1>2, <1>4
  <2> QED
    BY <1>1, <1>2, <2>1, <2>2, PresenceKept DEF SamePresence, Joining
<1>5. ASSUME NEW f \in G
      PROVE  /\ PlaceOf(f) = p /\ PlaceOf(f)' = Transit(moves[p][f])
             /\ <<p[1], moves[p][f]>> \in Links
  <2> DEFINE h == [entity |-> f, to |-> moves[p][f], stage |-> "leaving"]
  <2>1. h \in handoffs' /\ h.entity = f /\ h.stage = "leaving" /\ h.to = moves[p][f]
    BY <1>2, <1>5
  <2> HIDE DEF h
  <2>2. PlaceOf(f) = p /\ PlaceOf(f)' = Transit(moves[p][f])
    BY <1>1, <1>3, <1>5, <2>1 DEF Told
  <2> QED
    BY <1>0, <1>3, <1>5, <2>2 DEF AllLegal, Legal
<1> HIDE DEF G
<1>6. G \in SUBSET {f \in Entity : Presence[f] = p}
  BY <1>3, <1>5 DEF Presence
<1>7. way \in [G -> {link \in Links : link[1] = p[1]}]
  BY <1>5
<1>8. Presence' = [f \in Entity |-> IF f \in G THEN Transit(way[f][2]) ELSE Presence[f]]
  BY <1>4, <1>5 DEF Presence
<1> HIDE DEF way
<1>9. Abstract!Cross(p)
  BY <1>6, <1>7, <1>8 DEF Abstract!Cross
<1> QED
  BY <1>9 DEF Abstract!Next

LEMMA ArriveImplements ==
  ASSUME RefInv, RefInv', NEW h \in handoffs, Arrive(h)
  PROVE  [Abstract!Next]_Presence
<1> DEFINE p == <<h.to, 0>>
           e == h.entity
           k == [h EXCEPT !.stage = "arriving"]
<1>0. /\ TypeOK /\ OneLayerAtATime /\ NoneWhileCrossing
      /\ OneLayerAtATime' /\ NoneWhileCrossing'
  BY DEF RefInv, Inv, PresenceInv, TypeInv
<1>1. \A f \in Entity : Told(f) /\ Told(f)'
  BY <1>0, PlaceTold
<1>2. /\ p \in Place /\ e \in Entity /\ h.stage = "leaving"
      /\ k.entity = e /\ k.stage = "arriving"
  BY <1>0, RunningPlaces DEF TypeOK, Handoffs, Arrive
<1>3. /\ pc' = pc /\ handoffs' = (handoffs \ {h}) \cup {k}
      /\ sessions' = [sessions EXCEPT ![p] = sessions[p] \cup {e}]
  BY DEF Arrive, connection
<1>4. \A r \in Place : sessions'[r] = IF r = p THEN sessions[r] \cup {e} ELSE sessions[r]
  BY <1>0, <1>3 DEF TypeOK
<1>5. p[1] = h.to /\ p[2] = 0
  OBVIOUS
<1> HIDE DEF p, e, k
<1>6. ASSUME NEW f \in Entity \ {e} PROVE PlaceOf(f)' = PlaceOf(f)
  <2>1. SamePresence(f)
    BY <1>2, <1>3, <1>4, <1>6 DEF SamePresence, Joining, e
  <2> QED
    BY <1>1, <2>1, PresenceKept
<1>7. PlaceOf(e) = Transit(h.to) /\ PlaceOf(e)' = p
  BY <1>1, <1>2, <1>4 DEF Told, e
<1> QED
  BY <1>2, <1>5, <1>6, <1>7, OneMoves

LEMMA NextImplements ==
  ASSUME RefInv, RefInv', [Next]_vars
  PROVE  [Abstract!Next]_Presence
<1>0. /\ OneLayerAtATime /\ NoneWhileCrossing /\ OneLayerAtATime' /\ NoneWhileCrossing'
  BY DEF RefInv, Inv, PresenceInv
<1>1. (\A f \in Entity : SamePresence(f)) => UNCHANGED Presence
  BY <1>0, PlaceTold, PresenceKept DEF Presence
<1>2. CASE \E e \in Entity : Session(e)
  BY <1>2, SessionImplements
<1>3. ASSUME NEW p \in Place, Take(p) PROVE [Abstract!Next]_Presence
  BY <1>1, <1>3 DEF Take, SamePresence, Joining
<1>4. CASE \E p \in Place : Tick(p)
  BY <1>4, TickImplements
<1>5. CASE \E h \in handoffs : Arrive(h)
  BY <1>5, ArriveImplements
<1>6. ASSUME NEW h \in handoffs, Announce(h) PROVE [Abstract!Next]_Presence
  <2>1. /\ h.stage = "arriving" /\ handoffs' = handoffs \ {h}
        /\ sessions' = sessions /\ pc' = pc
    BY <1>6 DEF Announce
  <2> QED
    BY <1>1, <2>1 DEF SamePresence, Joining
<1>7. CASE UNCHANGED vars
  BY <1>1, <1>7 DEF vars, SamePresence, Joining
<1> QED
  BY <1>2, <1>3, <1>4, <1>5, <1>6, <1>7 DEF Next

\* If no client both walks through links and hops between layers, presence
\* enters once, leaves once, and between the two moves along links, onto layer
\* 0, and between layers of one zone (ImplementsPlacement).
THEOREM ZonesImplement ==
  ASSUME Walkers \cap Hoppers = {}
  PROVE  Spec => ImplementsPlacement
<1>1. Init => RefInv
  BY InitPlace, InitTypeInv DEF RefInv, SightInv, PlaceInv, Fine, AtPlace, AllLegal, NeverLost,
                                HopsElsewhere, Init
<1>2. RefInv /\ [Next]_vars => RefInv'
  <2>1. Inv /\ [Next]_vars => Inv'
    BY NextPresence
  <2> QED
    BY <2>1, NextSight, NextLegal DEF RefInv, SightInv
<1>3. RefInv /\ RefInv' /\ [Next]_vars => [Abstract!Next]_Presence
  BY NextImplements
<1>4. Init => Abstract!Init
  <2> SUFFICES ASSUME Init PROVE Presence = [e \in Entity |-> <<"outside">>]
    BY DEF Abstract!Init
  <2>1. ASSUME NEW e \in Entity PROVE PlaceOf(e) = <<"outside">>
    BY DEF Init, PlaceOf
  <2> QED
    BY <2>1 DEF Presence
<1> QED
  BY <1>1, <1>2, <1>3, <1>4, PTL DEF Spec, ImplementsPlacement, Abstract!Spec
----------------------------------------------------------------------------
(* How many layers a zone runs.                                            *)

\* Disjoint sets of at least t each, k of them, are t * k together.
LEMMA DisjointSets ==
  ASSUME NEW t \in Nat, NEW k \in Nat, NEW E, IsFiniteSet(E), NEW s,
         \A l \in 0..k - 1 : s[l] \subseteq E /\ Cardinality(s[l]) >= t,
         \A l, m \in 0..k - 1 : \A e \in E : e \in s[l] /\ e \in s[m] => l = m
  PROVE  t * k <= Cardinality(E)
<1> DEFINE L == 0..k - 1
           T == 1..t
           named == [l \in L |-> CHOOSE f \in Injection(T, s[l]) : TRUE]
           F == [x \in L \X T |-> named[x[1]][x[2]]]
<1>1. ASSUME NEW l \in L PROVE named[l] \in Injection(T, s[l])
  <2>1. IsFiniteSet(s[l]) /\ Cardinality(s[l]) \in Nat
    BY FS_Subset, FS_CardinalityType
  <2>2. PICK f \in Bijection(1..Cardinality(s[l]), s[l]) : TRUE
    BY <2>1, FS_CardinalityType DEF ExistsBijection
  <2> DEFINE g == [i \in T |-> f[i]]
  <2>3. f \in Injection(1..Cardinality(s[l]), s[l])
    BY <2>2 DEF Bijection
  <2>4. T \subseteq 1..Cardinality(s[l])
    BY <2>1
  <2>5. g \in Injection(T, s[l])
    BY <2>3, <2>4 DEF Injection, IsInjective
  <2> QED
    BY <2>5
<1>2. F \in Injection(L \X T, E)
  <2>1. ASSUME NEW x \in L \X T
        PROVE  /\ x[1] \in L /\ x[2] \in T /\ x = <<x[1], x[2]>>
               /\ F[x] = named[x[1]][x[2]] /\ F[x] \in s[x[1]] /\ F[x] \in E
    <3>1. x[1] \in L /\ x[2] \in T /\ x = <<x[1], x[2]>> /\ F[x] = named[x[1]][x[2]]
      OBVIOUS
    <3>2. named[x[1]] \in [T -> s[x[1]]]
      BY <1>1, <3>1 DEF Injection
    <3> HIDE DEF named, F, T
    <3>3. F[x] \in s[x[1]] /\ s[x[1]] \subseteq E
      BY <3>1, <3>2
    <3> QED
      BY <3>1, <3>3
  <2>2. F \in [L \X T -> E]
    BY <2>1
  <2>3. ASSUME NEW x \in L \X T, NEW y \in L \X T, F[x] = F[y] PROVE x = y
    <3> HIDE DEF named, F, T
    <3>1. x[1] = y[1]
      BY <2>1, <2>3
    <3>2. named[x[1]] \in Injection(T, s[x[1]])
      BY <1>1, <2>1
    <3>3. x[2] = y[2]
      BY <2>1, <2>3, <3>1, <3>2 DEF Injection, IsInjective
    <3> QED
      BY <2>1, <3>1, <3>3
  <2> QED
    BY <2>2, <2>3 DEF Injection, IsInjective
<1>3. IsFiniteSet(L) /\ Cardinality(L) = k
  <2>1. IsFiniteSet(L) /\ Cardinality(L) = IF 0 > k - 1 THEN 0 ELSE k - 1 - 0 + 1
    BY FS_Interval
  <2> HIDE DEF L
  <2> QED
    BY <2>1
<1>4. IsFiniteSet(T) /\ Cardinality(T) = t
  BY FS_Interval
<1> HIDE DEF L, T, F
<1>5. Cardinality(L \X T) = k * t
  BY <1>3, <1>4, FS_Product
<1>6. Cardinality(L \X T) <= Cardinality(E)
  BY <1>2, FS_Injection
<1> QED
  BY <1>5, <1>6

LEMMA LayersStep ==
  ASSUME Inv, IsFiniteSet(Entity), LayersEarned, [Next]_vars
  PROVE  LayersEarned'
<1>1. ASSUME NEW e \in Entity, JoinAssigned(e), layers' # layers PROVE LayersEarned'
  <2> DEFINE z == HomeZone[e]
             E == Entity \ {e}
             s == [l \in 0..layers[z] - 1 |-> sessions[<<z, l>>]]
  <2>1. PICK p \in Emptiest(z) : ~HasRoom(p) /\ layers' = [layers EXCEPT ![z] = @ + 1]
    BY <1>1 DEF JoinAssigned
  <2>2. z \in Zone /\ pc[e] = "new" /\ layers \in [Zone -> 1..MaxLayers] /\ MaxLayers \in Nat
        /\ Threshold \in Nat
    BY <1>1, ConstantsAssumption DEF JoinAssigned, Inv, TypeInv, TypeOK
  <2>3. \A q \in Running(z) : q \in Place /\ sessions[q] \subseteq Entity
    BY <2>2, RunningPlaces DEF Inv, TypeInv, TypeOK
  <2>4. \A q \in Running(z) : IsFiniteSet(sessions[q]) /\ Cardinality(sessions[q]) \in Nat
    BY <2>3, FS_Subset, FS_CardinalityType
  <2>5. ASSUME NEW l \in 0..layers[z] - 1
        PROVE  s[l] \subseteq E /\ Cardinality(s[l]) >= Threshold
    <3>1. <<z, l>> \in Running(z) /\ s[l] = sessions[<<z, l>>]
      BY DEF Running
    <3>2. e \notin sessions[<<z, l>>]
      BY <2>2, <2>3, <3>1 DEF Inv, PresenceInv, NoneWhileJoining
    <3>3. p \in Running(z) /\ Cardinality(sessions[p]) <= Cardinality(sessions[<<z, l>>])
      BY <2>1, <2>4, <3>1 DEF Emptiest
    <3>4. Cardinality(sessions[p]) >= Threshold
      BY <2>1, <2>2, <2>4, <3>3 DEF HasRoom
    <3> QED
      BY <2>2, <2>3, <2>4, <3>1, <3>2, <3>3, <3>4
  <2>6. \A l, m \in 0..layers[z] - 1 : \A f \in E : f \in s[l] /\ f \in s[m] => l = m
    <3> SUFFICES ASSUME NEW l \in 0..layers[z] - 1, NEW m \in 0..layers[z] - 1, NEW f \in E,
                        f \in s[l], f \in s[m]
                 PROVE  l = m
      OBVIOUS
    <3>1. <<z, l>> \in Place /\ <<z, m>> \in Place
      BY <2>3 DEF Running
    <3>2. <<z, l>> = <<z, m>>
      BY <3>1 DEF Inv, PresenceInv, OneLayerAtATime
    <3> QED
      BY <3>2
  <2>7. IsFiniteSet(E) /\ Cardinality(E) = Cardinality(Entity) - 1 /\ Cardinality(Entity) \in Nat
    BY FS_RemoveElement, FS_CardinalityType
  <2>8. layers[z] \in Nat
    BY <2>2
  <2> HIDE DEF E, s
  <2>9. Threshold * layers[z] <= Cardinality(Entity) - 1
    BY <2>2, <2>5, <2>6, <2>7, <2>8, DisjointSets
  <2>10. layers'[z] - 1 = layers[z]
    BY <2>1, <2>2
  <2>11. Threshold * (layers'[z] - 1) < Cardinality(Entity)
    BY <2>2, <2>7, <2>8, <2>9, <2>10
  <2>12. \A y \in Zone : y # z => layers'[y] = layers[y]
    BY <2>1, <2>2
  <2> QED
    BY <2>11, <2>12 DEF LayersEarned
<1>2. layers' = layers \/ \E e \in Entity : JoinAssigned(e)
  BY DEF Next, Session, JoinGroupmate, JoinAssigned, Register, Walk, FollowZoneChange, AskToHop,
         Abandon, Hop, Settle, Close, Depart, Fail, Take, Tick, Arrive, Announce, vars, actors
<1> QED
  BY <1>1, <1>2 DEF LayersEarned

\* As long as no client both walks and hops, a zone (zone_registry.rs, assign_layer)
\* runs no more layers than its players called for: each layer after the first was
\* started for one player more than the full ones before it held.  No bound on the
\* layers has a part in it.
THEOREM LayersAreEarned ==
  ASSUME Walkers \cap Hoppers = {}, IsFiniteSet(Entity), Entity # {}
  PROVE  Spec => []LayersEarned
<1>1. Init => LayersEarned
  <2>1. Cardinality(Entity) \in Nat /\ Cardinality(Entity) # 0
    BY FS_CardinalityType, FS_EmptySet
  <2> QED
    BY <2>1, ConstantsAssumption DEF Init, LayersEarned
<1>2. Inv /\ LayersEarned /\ [Next]_vars => LayersEarned'
  BY LayersStep
<1>3. Inv /\ [Next]_vars => Inv'
  BY NextPresence
<1> QED
  BY <1>1, <1>2, <1>3, InitPresence, PTL DEF Spec
=============================================================================
