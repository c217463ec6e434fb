--------------------------- MODULE DeliveryProofs ---------------------------
(* Proofs about Delivery, for any users, gateways, calls and moves.        *)
EXTENDS Delivery, FiniteSetTheorems, TLAPS

----------------------------------------------------------------------------
(* What a broadcast knows at any point of its loop.                        *)

\* The users with a standing key are served or still to be served, nobody is
\* both, and the count is that of the served ones.
CastsOK ==
    \A b \in Casts :
        /\ cast[b].steady \subseteq cast[b].sent \cup cast[b].todo
        /\ cast[b].sent \cap cast[b].todo = {}
        /\ cast[b].count = Cardinality(cast[b].sent)
        /\ cast[b].st = "done" => cast[b].todo = {}

RoutesOK == \A k \in Routes : route[k].st = "found" => route[k].user \in Users

DeliveryInv == TypeOK /\ CastsOK /\ RoutesOK

\* Sets of users are finite and no larger than all users.
LEMMA CountOfUsers ==
    ASSUME NEW T \in SUBSET Users
    PROVE  /\ IsFiniteSet(T) /\ Cardinality(T) \in 0..Cardinality(Users)
           /\ \A u \in Users \ T : Cardinality(T \cup {u}) = Cardinality(T) + 1
  <1>1. IsFiniteSet(T) /\ Cardinality(T) <= Cardinality(Users)
    BY UsersAssumption, FS_Subset
  <1>2. Cardinality(T) \in Nat /\ Cardinality(Users) \in Nat
    BY <1>1, UsersAssumption, FS_CardinalityType
  <1>3. \A u \in Users \ T : Cardinality(T \cup {u}) = Cardinality(T) + 1
    BY <1>1, FS_AddElement
  <1> QED BY <1>1, <1>2, <1>3

LEMMA DeliveryInvInit == Init => DeliveryInv
  <1> SUFFICES ASSUME Init PROVE DeliveryInv
    OBVIOUS
  <1>1. Cardinality({}) = 0 /\ 0 \in 0..Cardinality(Users)
    BY CountOfUsers, FS_EmptySet
  <1>2. CastsOK /\ RoutesOK
    BY <1>1 DEF Init, CastsOK, RoutesOK
  <1>3. TypeOK
    BY <1>1, MovesAssumption DEF Init, TypeOK, CastStates
  <1> QED BY <1>2, <1>3 DEF DeliveryInv

\* A presence key that goes away makes nobody else unsteady and serves nobody.
LEMMA UnsteadyKeeps ==
    ASSUME DeliveryInv, NEW u \in Users, cast' = Unsteady(u)
    PROVE  cast' \in [Casts -> CastStates] /\ CastsOK'
  <1>1. cast \in [Casts -> CastStates] /\ CastsOK
    BY DEF DeliveryInv, TypeOK
  <1>2. ASSUME NEW b \in Casts
        PROVE  /\ cast'[b] \in CastStates
               /\ cast'[b].steady \subseteq cast[b].steady /\ cast'[b].sent = cast[b].sent
               /\ cast'[b].todo = cast[b].todo /\ cast'[b].count = cast[b].count
               /\ cast'[b].st = cast[b].st
    <2>1. PICK c \in CastStates : c = cast[b]
      BY <1>1
    <2>2. cast'[b] = [c EXCEPT !.steady = @ \ {u}]
      BY <2>1 DEF Unsteady
    <2>3. cast'[b] \in CastStates
      BY <2>1, <2>2 DEF CastStates
    <2>4. /\ cast'[b].steady = c.steady \ {u} /\ cast'[b].sent = c.sent
          /\ cast'[b].todo = c.todo /\ cast'[b].count = c.count /\ cast'[b].st = c.st
      BY <2>1, <2>2 DEF CastStates
    <2> QED BY <2>1, <2>3, <2>4
  <1>4. cast' \in [Casts -> CastStates]
    BY <1>2 DEF Unsteady
  <1>6. CastsOK'
    BY <1>1, <1>2 DEF CastsOK
  <1> QED BY <1>4, <1>6

\* Everyone's inbox gets the body of a well-formed message.
LEMMA PublishTypes ==
    ASSUME inbox \in [Gateways -> Seq(Bodies)], NEW onBase, NEW body \in Bodies,
           Publish(onBase, body)
    PROVE  inbox' \in [Gateways -> Seq(Bodies)]
  BY DEF Publish

LEMMA DeliveryInvNext == DeliveryInv /\ [Next]_vars => DeliveryInv'
  <1> SUFFICES ASSUME DeliveryInv, [Next]_vars PROVE DeliveryInv'
    OBVIOUS
  <1>0. TypeOK /\ CastsOK /\ RoutesOK
    BY DEF DeliveryInv
  <1>1. /\ \A u \in Users : presenceKey(u) \in Keys /\ userGatewayKey(u) \in Keys
        /\ Move => moves' \in 0..MaxMoves
    BY <1>0, MovesAssumption DEF Keys, Move, TypeOK
  <1>2. ASSUME UNCHANGED cast PROVE CastsOK'
    BY <1>0, <1>2 DEF CastsOK
  <1>3. ASSUME UNCHANGED route PROVE RoutesOK'
    BY <1>0, <1>3 DEF RoutesOK
  <1>4. ASSUME NEW u \in Users, NEW g \in Gateways,
               \/ Connect(u, g) \/ Disconnect(u, g) \/ Refresh(u, g)
               \/ WriteUserGateway(u, g)
        PROVE  DeliveryInv'
    <2>1. cast' \in [Casts -> CastStates] /\ CastsOK'
      <3>1. CASE Disconnect(u, g)
        BY <3>1, UnsteadyKeeps DEF Disconnect
      <3>2. CASE ~Disconnect(u, g)
        BY <1>0, <1>2, <1>4, <3>2 DEF Connect, Refresh, WriteUserGateway, TypeOK
      <3> QED BY <3>1, <3>2
    <2>2. redis' \in [Keys -> Gateways \cup {None}]
      BY <1>0, <1>1, <1>4 DEF Connect, Disconnect, Refresh, WriteUserGateway, TypeOK
    <2>3. registry' \in [Gateways -> SUBSET Users]
      <3>1. \/ registry' = registry
            \/ registry' = [registry EXCEPT ![g] = @ \cup {u}]
            \/ registry' = [registry EXCEPT ![g] = @ \ {u}]
        BY <1>4 DEF Connect, Disconnect, Refresh, WriteUserGateway
      <3>2. registry \in [Gateways -> SUBSET Users]
        BY <1>0 DEF TypeOK
      <3>3. CASE registry' = [registry EXCEPT ![g] = @ \cup {u}]
        BY <3>2, <3>3
      <3>4. CASE registry' = [registry EXCEPT ![g] = @ \ {u}]
        BY <3>2, <3>4
      <3> QED BY <3>1, <3>2, <3>3, <3>4
    <2>4. UNCHANGED <<inbox, route, received, failed>> /\ moves' \in 0..MaxMoves
      BY <1>1, <1>4 DEF Connect, Disconnect, Refresh, WriteUserGateway
    <2>5. TypeOK'
      BY <1>0, <2>1, <2>2, <2>3, <2>4 DEF TypeOK, CastStates, Bodies, Keys
    <2> QED BY <1>3, <2>1, <2>4, <2>5 DEF DeliveryInv
  <1>5. ASSUME NEW u \in Users, PresenceGone(u) PROVE DeliveryInv'
    <2>1. cast' \in [Casts -> CastStates] /\ CastsOK'
      BY <1>5, UnsteadyKeeps DEF PresenceGone
    <2>2. redis' \in [Keys -> Gateways \cup {None}]
      BY <1>0, <1>1, <1>5 DEF PresenceGone, TypeOK
    <2>3. UNCHANGED <<registry, inbox, route, received, failed>> /\ moves' \in 0..MaxMoves
      BY <1>1, <1>5 DEF PresenceGone
    <2>4. TypeOK'
      BY <1>0, <2>1, <2>2, <2>3 DEF TypeOK, CastStates, Bodies, Keys
    <2> QED BY <1>3, <2>1, <2>3, <2>4 DEF DeliveryInv
  <1>6. ASSUME NEW g \in Gateways, OnMessage(g) \/ OnMessageFails(g) PROVE DeliveryInv'
    <2> DEFINE body == Head(inbox[g])
    <2>1. inbox[g] \in Seq(Bodies) /\ inbox[g] # <<>>
      BY <1>0, <1>6 DEF OnMessage, OnMessageFails, TypeOK
    <2>2. body \in Bodies /\ Tail(inbox[g]) \in Seq(Bodies)
      BY <2>1
    <2>3. inbox' \in [Gateways -> Seq(Bodies)]
      BY <1>0, <1>6, <2>2 DEF OnMessage, OnMessageFails, TypeOK
    <2>4. <<g, body.user, body.id>> \in Gateways \X Users \X (Routes \cup Casts)
      BY <2>2 DEF Bodies
    <2>5. /\ received' \subseteq Gateways \X Users \X (Routes \cup Casts)
          /\ failed' \subseteq Gateways \X Users \X (Routes \cup Casts)
      BY <1>0, <1>6, <2>4 DEF OnMessage, OnMessageFails, TypeOK
    <2>6. UNCHANGED <<registry, redis, route, cast, moves>>
      BY <1>6 DEF OnMessage, OnMessageFails
    <2>7. TypeOK'
      BY <1>0, <2>3, <2>5, <2>6 DEF TypeOK, CastStates, Bodies, Keys
    <2> QED BY <1>2, <1>3, <2>6, <2>7 DEF DeliveryInv
  <1>7. ASSUME NEW k \in Routes,
               (\E u \in Users : RouteLookup(k, u)) \/ RoutePublish(k) \/ RouteFails(k)
        PROVE  DeliveryInv'
    <2> DEFINE Typed ==
                 /\ route \in [Routes -> [st : {"new", "found", "queued", "offline", "error"},
                                          user : Users \cup {None}, gw : Gateways \cup {None},
                                          at : SUBSET Gateways]]
                 /\ RoutesOK
    <2>1. Typed'
      <3>1. ASSUME NEW u \in Users, RouteLookup(k, u) PROVE Typed'
        <4>1. redis[userGatewayKey(u)] \in Gateways \cup {None} /\ Registered(u) \subseteq Gateways
          BY <1>0, <1>1 DEF TypeOK, Registered
        <4> QED BY <1>0, <3>1, <4>1 DEF RouteLookup, TypeOK, RoutesOK
      <3>2. CASE RoutePublish(k) \/ RouteFails(k)
        <4>1. PICK st \in {"queued", "error"} : route' = [route EXCEPT ![k].st = st]
          BY <3>2 DEF RoutePublish, RouteFails
        <4> QED BY <1>0, <4>1 DEF TypeOK, RoutesOK
      <3> QED BY <1>7, <3>1, <3>2
    <2>2. inbox' \in [Gateways -> Seq(Bodies)]
      <3>1. CASE RoutePublish(k)
        <4>1. [shape |-> "router", user |-> route[k].user, id |-> k] \in Bodies
          BY <1>0, <3>1 DEF RoutePublish, RoutesOK, Bodies
        <4> QED BY <1>0, <3>1, <4>1, PublishTypes DEF RoutePublish, TypeOK
      <3>2. CASE ~RoutePublish(k)
        BY <1>0, <1>7, <3>2 DEF RouteLookup, RouteFails, TypeOK
      <3> QED BY <3>1, <3>2
    <2>3. UNCHANGED <<registry, redis, cast, received, failed, moves>>
      BY <1>7 DEF RouteLookup, RoutePublish, RouteFails
    <2>4. TypeOK'
      BY <1>0, <2>1, <2>2, <2>3 DEF TypeOK, CastStates, Bodies, Keys
    <2> QED BY <1>2, <2>1, <2>3, <2>4 DEF DeliveryInv
  <1>8. ASSUME NEW b \in Casts,
               \/ CastKeys(b) \/ CastDone(b) \/ CastFails(b)
               \/ \E u \in Users : CastPublish(b, u)
        PROVE  DeliveryInv'
    <2>1. cast \in [Casts -> CastStates] /\ cast[b] \in CastStates
      BY <1>0 DEF TypeOK
    <2>2. ASSUME NEW new \in CastStates, cast' = [cast EXCEPT ![b] = new],
                 new.steady \subseteq new.sent \cup new.todo, new.sent \cap new.todo = {},
                 new.count = Cardinality(new.sent), new.st = "done" => new.todo = {},
                 inbox' \in [Gateways -> Seq(Bodies)]
          PROVE  DeliveryInv'
      <3>1. cast' \in [Casts -> CastStates]
        BY <2>1, <2>2
      <3>2. CastsOK'
        BY <1>0, <2>1, <2>2 DEF CastsOK
      <3>3. UNCHANGED <<registry, redis, route, received, failed, moves>>
        BY <1>8 DEF CastKeys, CastDone, CastFails, CastPublish
      <3>4. TypeOK'
        BY <1>0, <2>2, <3>1, <3>3 DEF TypeOK, CastStates, Bodies, Keys
      <3> QED BY <1>3, <3>2, <3>3, <3>4 DEF DeliveryInv
    <2>3. /\ cast[b].steady \subseteq cast[b].sent \cup cast[b].todo
          /\ cast[b].sent \cap cast[b].todo = {}
          /\ cast[b].count = Cardinality(cast[b].sent)
      BY <1>0 DEF CastsOK
    <2>4. CASE CastKeys(b)
      <3> DEFINE new == [st |-> "sending", todo |-> Present, sent |-> {},
                         count |-> 0, steady |-> Present]
      <3>1. Cardinality({}) = 0 /\ 0 \in 0..Cardinality(Users) /\ Present \subseteq Users
        BY CountOfUsers, FS_EmptySet DEF Present
      <3>2. new \in CastStates
        BY <3>1 DEF CastStates
      <3>3. cast' = [cast EXCEPT ![b] = new] /\ inbox' \in [Gateways -> Seq(Bodies)]
        BY <1>0, <2>4 DEF CastKeys, TypeOK
      <3> QED BY <2>2, <3>1, <3>2, <3>3
    <2>5. CASE CastDone(b)
      <3> DEFINE new == [cast[b] EXCEPT !.st = "done"]
      <3>1. new \in CastStates /\ cast' = [cast EXCEPT ![b] = new]
        BY <2>1, <2>5 DEF CastDone, CastStates
      <3>2. /\ new.steady = cast[b].steady /\ new.sent = cast[b].sent /\ new.todo = {}
            /\ new.count = cast[b].count /\ cast[b].todo = {}
        BY <2>1, <2>5 DEF CastDone, CastStates
      <3>3. inbox' \in [Gateways -> Seq(Bodies)]
        BY <1>0, <2>5 DEF CastDone, TypeOK
      <3> QED BY <2>2, <2>3, <3>1, <3>2, <3>3
    <2>6. CASE CastFails(b)
      <3> DEFINE new == [cast[b] EXCEPT !.st = "error"]
      <3>1. new \in CastStates /\ cast' = [cast EXCEPT ![b] = new]
        BY <2>1, <2>6 DEF CastFails, CastStates
      <3>2. /\ new.steady = cast[b].steady /\ new.sent = cast[b].sent /\ new.todo = cast[b].todo
            /\ new.count = cast[b].count /\ new.st = "error"
        BY <2>1 DEF CastStates
      <3>3. inbox' \in [Gateways -> Seq(Bodies)]
        BY <1>0, <2>6 DEF CastFails, TypeOK
      <3> QED BY <2>2, <2>3, <3>1, <3>2, <3>3
    <2>7. ASSUME NEW u \in Users, CastPublish(b, u) PROVE DeliveryInv'
      <3> DEFINE new == [cast[b] EXCEPT !.todo = @ \ {u}, !.sent = @ \cup {u}, !.count = @ + 1]
      <3>1. u \in cast[b].todo /\ u \notin cast[b].sent /\ cast[b].st = "sending"
        BY <2>3, <2>7 DEF CastPublish
      <3>2. /\ cast[b].sent \in SUBSET Users /\ cast[b].sent \cup {u} \in SUBSET Users
            /\ cast[b].todo \in SUBSET Users
        BY <2>1 DEF CastStates
      <3>3. /\ Cardinality(cast[b].sent \cup {u}) = Cardinality(cast[b].sent) + 1
            /\ Cardinality(cast[b].sent \cup {u}) \in 0..Cardinality(Users)
        BY <3>1, <3>2, CountOfUsers
      <3>4. new.count = Cardinality(cast[b].sent \cup {u})
        BY <2>1, <2>3, <3>3 DEF CastStates
      <3>5. /\ new.steady = cast[b].steady /\ new.sent = cast[b].sent \cup {u}
            /\ new.todo = cast[b].todo \ {u} /\ new.st = "sending"
        BY <2>1, <3>1 DEF CastStates
      <3>6. new \in CastStates
        BY <2>1, <2>3, <3>2, <3>3 DEF CastStates
      <3>7. cast' = [cast EXCEPT ![b] = new]
        BY <2>1, <2>7 DEF CastPublish
      <3>8. inbox' \in [Gateways -> Seq(Bodies)]
        <4>1. [shape |-> "contract", user |-> u, id |-> b] \in Bodies
          BY DEF Bodies
        <4> QED BY <1>0, <2>7, <4>1, PublishTypes DEF CastPublish, TypeOK
      <3> HIDE DEF new
      <3> QED BY <2>2, <2>3, <3>1, <3>4, <3>5, <3>6, <3>7, <3>8
    <2> QED BY <1>8, <2>4, <2>5, <2>6, <2>7
  <1>9. CASE UNCHANGED vars
    BY <1>0, <1>9 DEF vars, DeliveryInv, TypeOK, CastsOK, RoutesOK, CastStates, Bodies, Keys
  <1> QED BY <1>4, <1>5, <1>6, <1>7, <1>8, <1>9 DEF Next

\* The state of router, broadcasts and gateways stays well-formed; in
\* particular the count of a broadcast never exceeds the users there are
\* (router/service.go:40-66, sessions/service.go:75-90, gateway/nats.go:18-45).
THEOREM TypeCorrect == Spec => []TypeOK
  <1>1. DeliveryInv => TypeOK
    BY DEF DeliveryInv
  <1> QED BY <1>1, DeliveryInvInit, DeliveryInvNext, PTL DEF Spec

\* A broadcast that ends well was published to every user whose key stood all
\* along, and answers their number (sessions/service.go:75-90).
THEOREM BroadcastIsComplete == Spec => []BroadcastReachesSteadyUsers
  <1>1. DeliveryInv => BroadcastReachesSteadyUsers
    BY DEF DeliveryInv, CastsOK, BroadcastReachesSteadyUsers
  <1> QED BY <1>1, DeliveryInvInit, DeliveryInvNext, PTL DEF Spec
=============================================================================
