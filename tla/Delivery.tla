------------------------------ MODULE Delivery ------------------------------
(***************************************************************************)
(* How a message finds a player: the router (internal/router) and the      *)
(* admin broadcast of the sessions service publish on NATS, every gateway  *)
(* instance subscribes to pcgb.gateway.send_to_user, decodes what arrives  *)
(* (internal/gateway/nats.go) and calls SendToUser.                        *)
(* A gateway is reduced to its registry and its presence key; its own      *)
(* goroutines are in Gateway.                                              *)
(***************************************************************************)
EXTENDS Naturals, Sequences, FiniteSets

CONSTANTS Users, Gateways,
          Routes,       \* POST /v1/route calls
          Casts,        \* POST /admin/v1/broadcast calls
          None,
          Partitioned,  \* ROUTER_PARTITIONED_SUBJECTS
          ForeignKeys,  \* something outside the repository writes router keys
          MaxMoves      \* bound: changes of registries and of Redis keys

ASSUME FlagsAssumption == Partitioned \in BOOLEAN /\ ForeignKeys \in BOOLEAN
ASSUME MovesAssumption == MaxMoves \in Nat
ASSUME UsersAssumption == IsFiniteSet(Users)

VARIABLES
    registry,   \* registry[g]: users with an entry in s.conns of instance g
    redis,      \* redis[key]: an instance, or None; keys are <<prefix, user>>
    inbox,      \* inbox[g]: messages pending on g's subscription
    route,      \* route[k]: [st, user, gw, at]; at: the instances with a
                \* connection of the user at the lookup
    cast,       \* cast[b]: [st, todo, sent, count, steady]
    received,   \* <<g, u, id>>: written to u's connection on g
    failed,     \* history: <<g, u, id>> whose write failed
    moves

vars == <<registry, redis, inbox, route, cast, received, failed, moves>>

\* presenceKey of the gateway, also the pattern of the broadcast; and
\* userGatewayKey of the router.
presenceKey(u)    == <<"pcgb:gateway:user:", u>>
userGatewayKey(u) == <<"pcgb:user_gateway:", u>>
Keys == {presenceKey(u) : u \in Users} \cup {userGatewayKey(u) : u \in Users}

\* A message body: the contracts envelope with a GatewaySendToUserV1 payload,
\* or the router's own Envelope, which names the user differently.
Bodies == [shape : {"contract", "router"}, user : Users,
           id : Routes \cup Casts]

CastStates == [st : {"new", "sending", "done", "error"}, todo : SUBSET Users,
               sent : SUBSET Users, count : 0..Cardinality(Users),
               steady : SUBSET Users]

TypeOK ==
    /\ registry \in [Gateways -> SUBSET Users]
    /\ redis \in [Keys -> Gateways \cup {None}]
    /\ inbox \in [Gateways -> Seq(Bodies)]
    /\ route \in [Routes -> [st : {"new", "found", "queued", "offline", "error"},
                             user : Users \cup {None}, gw : Gateways \cup {None},
                             at : SUBSET Gateways]]
    /\ cast \in [Casts -> CastStates]
    /\ received \subseteq Gateways \X Users \X (Routes \cup Casts)
    /\ failed \subseteq Gateways \X Users \X (Routes \cup Casts)
    /\ moves \in 0..MaxMoves

Init ==
    /\ registry = [g \in Gateways |-> {}]
    /\ redis = [k \in Keys |-> None]
    /\ inbox = [g \in Gateways |-> <<>>]
    /\ route = [k \in Routes |-> [st |-> "new", user |-> None, gw |-> None,
                                  at |-> {}]]
    /\ cast = [b \in Casts |-> [st |-> "new", todo |-> {}, sent |-> {},
                                count |-> 0, steady |-> {}]]
    /\ received = {}
    /\ failed = {}
    /\ moves = 0

Registered(u) == {g \in Gateways : u \in registry[g]}

----------------------------------------------------------------------------
(* Gateways.                                                               *)

Move == moves < MaxMoves /\ moves' = moves + 1

Connect(u, g) ==
    /\ u \notin registry[g] /\ Move
    /\ registry' = [registry EXCEPT ![g] = @ \cup {u}]
    /\ redis' = [redis EXCEPT ![presenceKey(u)] = g]
    /\ UNCHANGED <<inbox, route, cast, received, failed>>

\* A presence key that goes away takes the user out of the steady ones of
\* every broadcast under way.
Unsteady(u) == [b \in Casts |-> [cast[b] EXCEPT !.steady = @ \ {u}]]

Disconnect(u, g) ==
    /\ u \in registry[g] /\ Move
    /\ registry' = [registry EXCEPT ![g] = @ \ {u}]
    /\ redis' = [redis EXCEPT ![presenceKey(u)] = None]
    /\ cast' = Unsteady(u)
    /\ UNCHANGED <<inbox, route, received, failed>>

\* The key's 60s pass without a refresh, or another handler's DEL lands.
PresenceGone(u) ==
    /\ redis[presenceKey(u)] # None /\ Move
    /\ redis' = [redis EXCEPT ![presenceKey(u)] = None]
    /\ cast' = Unsteady(u)
    /\ UNCHANGED <<registry, inbox, route, received, failed>>

\* presenceLoop: SET presenceKey(u) to this instance.
Refresh(u, g) ==
    /\ u \in registry[g] /\ redis[presenceKey(u)] # g /\ Move
    /\ redis' = [redis EXCEPT ![presenceKey(u)] = g]
    /\ UNCHANGED <<registry, inbox, route, cast, received, failed>>

\* decodeSendToUser: the contracts envelope is understood; in the router's
\* there is no target_user_id, so it is ErrInvalidMessage.
Decodes(body) == body.shape = "contract"

\* Mutant: a message that cannot be decoded stays at the head.
OnMessageStuck(g) ==
    /\ inbox[g] # <<>> /\ Decodes(Head(inbox[g]))
    /\ LET body == Head(inbox[g])
       IN  received' = IF body.user \in registry[g]
                       THEN received \cup {<<g, body.user, body.id>>} ELSE received
    /\ inbox' = [inbox EXCEPT ![g] = Tail(@)]
    /\ UNCHANGED <<registry, redis, route, cast, failed, moves>>

\* The subscription's callback: decode, then SendToUser.  A message that is not
\* understood or whose user has no entry is only logged.
OnMessage(g) ==
    /\ inbox[g] # <<>>
    /\ LET body == Head(inbox[g])
       IN  received' = IF Decodes(body) /\ body.user \in registry[g]
                       THEN received \cup {<<g, body.user, body.id>>} ELSE received
    /\ inbox' = [inbox EXCEPT ![g] = Tail(@)]
    /\ UNCHANGED <<registry, redis, route, cast, failed, moves>>

\* The write reaches its deadline or finds the connection broken: the message
\* is gone, the entry stays, and the error is only logged.
OnMessageFails(g) ==
    /\ inbox[g] # <<>>
    /\ LET body == Head(inbox[g])
       IN  /\ Decodes(body) /\ body.user \in registry[g]
           /\ failed' = failed \cup {<<g, body.user, body.id>>}
    /\ inbox' = [inbox EXCEPT ![g] = Tail(@)]
    /\ UNCHANGED <<registry, redis, route, cast, received, moves>>

\* NATS hands a message to the subscriptions of its exact subject: every
\* gateway for send_to_user itself, nobody for a subject below it.
Publish(onBase, body) ==
    inbox' = IF onBase THEN [g \in Gateways |-> Append(inbox[g], body)] ELSE inbox

----------------------------------------------------------------------------
(* The router.                                                             *)

\* GatewayInstanceID: GET, and ErrOffline when there is no key.
RouteLookup(k, u) ==
    /\ route[k].st = "new"
    /\ LET gw == redis[userGatewayKey(u)]
       IN  route' = [route EXCEPT ![k] =
               [st |-> IF gw = None THEN "offline" ELSE "found", user |-> u,
                gw |-> gw, at |-> Registered(u)]]
    /\ UNCHANGED <<registry, redis, inbox, cast, received, failed, moves>>

RoutePublish(k) ==
    /\ route[k].st = "found"
    /\ Publish(~Partitioned,
               [shape |-> "router", user |-> route[k].user, id |-> k])
    /\ route' = [route EXCEPT ![k].st = "queued"]
    /\ UNCHANGED <<registry, redis, cast, received, failed, moves>>

\* Redis or NATS fails: 500.
RouteFails(k) ==
    /\ route[k].st \in {"new", "found"}
    /\ route' = [route EXCEPT ![k].st = "error"]
    /\ UNCHANGED <<registry, redis, inbox, cast, received, failed, moves>>

\* No code of the repository writes the router's key; its integration test
\* does, in the place of a system that would.
WriteUserGateway(u, g) ==
    /\ ForeignKeys /\ redis[userGatewayKey(u)] # g /\ Move
    /\ redis' = [redis EXCEPT ![userGatewayKey(u)] = g]
    /\ UNCHANGED <<registry, inbox, route, cast, received, failed>>

----------------------------------------------------------------------------
(* Broadcasts.                                                             *)

\* BroadcastToOnlineUsers: KEYS pcgb:gateway:user:*, then one publication per
\* key, in the order Redis returned them.
Present == {u \in Users : redis[presenceKey(u)] # None}

CastKeys(b) ==
    /\ cast[b].st = "new"
    /\ cast' = [cast EXCEPT ![b] = [st |-> "sending", todo |-> Present, sent |-> {},
                                    count |-> 0, steady |-> Present]]
    /\ UNCHANGED <<registry, redis, inbox, route, received, failed, moves>>

\* Mutant: the loop does not advance.
CastPublishAgain(b, u) ==
    /\ cast[b].st = "sending" /\ u \in cast[b].todo
    /\ Publish(TRUE, [shape |-> "contract", user |-> u, id |-> b])
    /\ cast' = [cast EXCEPT ![b].sent = @ \cup {u}, ![b].count = @ + 1]
    /\ UNCHANGED <<registry, redis, route, received, failed, moves>>

CastPublish(b, u) ==
    /\ cast[b].st = "sending" /\ u \in cast[b].todo
    /\ Publish(TRUE, [shape |-> "contract", user |-> u, id |-> b])
    /\ cast' = [cast EXCEPT ![b].todo = @ \ {u}, ![b].sent = @ \cup {u},
                            ![b].count = @ + 1]
    /\ UNCHANGED <<registry, redis, route, received, failed, moves>>

CastDone(b) ==
    /\ cast[b].st = "sending" /\ cast[b].todo = {}
    /\ cast' = [cast EXCEPT ![b].st = "done"]
    /\ UNCHANGED <<registry, redis, inbox, route, received, failed, moves>>

\* Mutant: a failed publication ends the loop as if it were complete.
CastFailsQuietly(b) ==
    /\ cast[b].st \in {"new", "sending"}
    /\ cast' = [cast EXCEPT ![b].st = "done"]
    /\ UNCHANGED <<registry, redis, inbox, route, received, failed, moves>>

\* KEYS or a publication fails: 500, and the rest is not sent.
CastFails(b) ==
    /\ cast[b].st \in {"new", "sending"}
    /\ cast' = [cast EXCEPT ![b].st = "error"]
    /\ UNCHANGED <<registry, redis, inbox, route, received, failed, moves>>

----------------------------------------------------------------------------

Next ==
    \/ \E u \in Users, g \in Gateways :
          \/ Connect(u, g) \/ Disconnect(u, g) \/ Refresh(u, g)
          \/ WriteUserGateway(u, g)
    \/ \E u \in Users : PresenceGone(u)
    \/ \E g \in Gateways : OnMessage(g) \/ OnMessageFails(g)
    \/ \E k \in Routes :
          (\E u \in Users : RouteLookup(k, u)) \/ RoutePublish(k) \/ RouteFails(k)
    \/ \E b \in Casts :
          \/ CastKeys(b) \/ CastDone(b) \/ CastFails(b)
          \/ \E u \in Users : CastPublish(b, u)

Spec == Init /\ [][Next]_vars

\* The client library calls the callback for every message it holds, and the
\* callback returns, at the latest with the deadline of its write; a route call
\* that was found a gateway goes on to its publication.
FairSpec ==
    /\ Spec
    /\ \A g \in Gateways : WF_vars(OnMessage(g) \/ OnMessageFails(g))
    /\ \A k \in Routes : WF_vars(RoutePublish(k))

----------------------------------------------------------------------------
(* Properties.                                                             *)

\* A broadcast that ends well was published to every user whose presence key
\* stood from the KEYS command to the end, and the count it answers is the
\* number of users it was published to (sessions/service.go:75-90).
BroadcastReachesSteadyUsers ==
    \A b \in Casts : cast[b].st = "done" =>
        /\ cast[b].steady \subseteq cast[b].sent
        /\ cast[b].count = Cardinality(cast[b].sent)

\* A pending message for a user that is registered on an instance comes to its
\* write on that connection, unless the user leaves first: fan-out to all
\* instances needs no knowledge of where the user is, and no message before it,
\* be it malformed, for nobody here or one whose write fails, holds it up
\* (gateway/nats.go:17-31, handler.go:199-210).
PublishedReachesRegistered ==
    \A g \in Gateways, u \in Users, b \in Casts :
        /\ u \in registry[g]
        /\ \E i \in DOMAIN inbox[g] :
               inbox[g][i] = [shape |-> "contract", user |-> u, id |-> b]
        ~> <<g, u, b>> \in received \cup failed \/ u \notin registry[g]

\* "Outbound user routing: delivering server-generated messages to the right
\* connected users" (README.md:37): the message of a route call made while the
\* user has a connection is written to that connection, unless the call or the
\* write fails or the user leaves first (router/service.go:46-59, 76-92, gateway/nats.go:36-53).
RouteReachesConnected ==
    \A g \in Gateways, u \in Users, k \in Routes :
        route[k].user = u /\ g \in route[k].at
        ~> \/ <<g, u, k>> \in received \cup failed
           \/ u \notin registry[g] \/ route[k].st = "error"
=============================================================================
