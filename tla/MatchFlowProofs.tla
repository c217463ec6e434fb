-------------------------- MODULE MatchFlowProofs --------------------------
(* Proofs about MatchFlow: each service, in the composition, still is the  *)
(* one its own module specifies, so what is proved of either holds here.   *)
EXTENDS MatchFlow, MatchmakingProofs

SP == INSTANCE SessionsProofs WITH
    Replicas <- SessionReplicas, MaxFaults <- MaxSessionFaults,
    Matches <- Tickets \X Tickets,
    PlayersOf <- [m \in Tickets \X Tickets |-> <<UserOf[m[1]], UserOf[m[2]]>>],
    Creates <- {}, CreatorOf <- <<>>, Assigns <- {},
    create <- <<>>, assign <- <<>>, assigned <- {},
    faults <- sessionFaults

----------------------------------------------------------------------------
(* The assumptions of Sessions hold for what MatchFlow puts in their place. *)

\* The copies an INSTANCE makes of the operators of FiniteSets are the operators.
LEMMA SameCardinality ==
    ASSUME NEW T
    PROVE  S!Cardinality(T) = Cardinality(T) /\ SP!Cardinality(T) = Cardinality(T)
  <1>1. S!Cardinality(T) = Cardinality(T)
    BY DEF S!Cardinality, Cardinality
  <1>2. SP!Cardinality(T) = Cardinality(T)
    BY DEF SP!Cardinality, Cardinality
  <1> QED BY <1>1, <1>2

LEMMA SameFiniteness ==
    ASSUME NEW T
    PROVE  SP!IsFiniteSet(T) = IsFiniteSet(T)
  BY DEF SP!IsFiniteSet, IsFiniteSet

LEMMA IdsFree == None \notin SP!Ids
  <1>1. SP!MaxSessions = S!MaxSessions
    BY SameCardinality DEF S!MaxSessions, SP!MaxSessions
  <1> QED BY <1>1, FlowAssumption DEF S!Ids, SP!Ids

LEMMA PlayersArePairs ==
    LET players == [m \in Tickets \X Tickets |-> <<UserOf[m[1]], UserOf[m[2]]>>]
    IN  /\ players \in [Tickets \X Tickets -> Seq(Users)]
        /\ \A m \in Tickets \X Tickets : players[m] # <<>> /\ Len(players[m]) = 2
  BY UserOfAssumption

LEMMA ConstantsFit ==
    /\ <<>> \in [{} -> Users]
    /\ SP!IsFiniteSet(Tickets \X Tickets) /\ SP!IsFiniteSet(SessionReplicas)
    /\ SP!IsFiniteSet({})
    /\ (Tickets \X Tickets) \cap {} = {}
    /\ MaxSessionFaults \in Nat
  BY FlowAssumption, FS_Product, FS_EmptySet, SameFiniteness

LEMMA SessionsInit == SP!Init => SP!MatchInv
  BY IdsFree, PlayersArePairs, ConstantsFit, SP!MatchInvInit

LEMMA SessionsNext == SP!MatchInv /\ [SP!Next]_(SP!vars) => SP!MatchInv'
  BY IdsFree, PlayersArePairs, ConstantsFit, SP!MatchInvNext

----------------------------------------------------------------------------
(* Steps of the composition are steps of the services.                     *)

LEMMA SessionsSteps ==
    ASSUME NEW r \in SessionReplicas
    PROVE  /\ S!HandleMatchedEvent(r) => SP!HandleMatchedEvent(r)
           /\ S!StopReplica(r) => SP!StopReplica(r)
           /\ S!HandleMatchedEvent(r) \/ S!StopReplica(r) => published' = published
  <1>0. \A T : S!Cardinality(T) = SP!Cardinality(T)
    BY SameCardinality
  <1> USE <1>0 DEF S!Receives, SP!Receives, S!CreateSession, SP!CreateSession, S!Fault, SP!Fault,
              S!InsertsMembers, SP!InsertsMembers, S!NewId, SP!NewId, S!http, SP!http,
              S!Forget, SP!Forget, S!Range, SP!Range, S!IsInjective, SP!IsInjective
  <1>1. S!HandleMatched(r) => SP!HandleMatched(r) /\ published' = published
    BY DEF S!HandleMatched, SP!HandleMatched
  <1>2. S!HandleMatchedRejected(r) => SP!HandleMatchedRejected(r) /\ published' = published
    BY DEF S!HandleMatchedRejected, SP!HandleMatchedRejected
  <1>3. S!HandleMatchedFails(r) => SP!HandleMatchedFails(r) /\ published' = published
    BY DEF S!HandleMatchedFails, SP!HandleMatchedFails
  <1>4. S!HandleMatchedUncertain(r) => SP!HandleMatchedUncertain(r) /\ published' = published
    BY DEF S!HandleMatchedUncertain, SP!HandleMatchedUncertain
  <1>5. S!AnnounceMatched(r) => SP!AnnounceMatched(r) /\ published' = published
    BY DEF S!AnnounceMatched, SP!AnnounceMatched
  <1>6. S!AnnounceMatchedFails(r) => SP!AnnounceMatchedFails(r) /\ published' = published
    BY DEF S!AnnounceMatchedFails, SP!AnnounceMatchedFails
  <1>7. S!StopReplica(r) => SP!StopReplica(r) /\ published' = published
    BY DEF S!StopReplica, SP!StopReplica, S!CreatesOn, SP!CreatesOn, S!AssignsOn, SP!AssignsOn
  <1> QED BY <1>1, <1>2, <1>3, <1>4, <1>5, <1>6, <1>7
             DEF S!HandleMatchedEvent, SP!HandleMatchedEvent

LEMMA DeliverySteps ==
    ASSUME NEW m
    PROVE  /\ S!PublishMatch(m) => SP!PublishMatch(m) /\ published' = published \cup {m}
           /\ \A R : S!PublishMatchMissed(m, R) =>
                        SP!PublishMatchMissed(m, R) /\ published' = published \cup {m}
  BY DEF S!PublishMatch, SP!PublishMatch, S!PublishMatchMissed, SP!PublishMatchMissed,
         S!Fault, SP!Fault, S!http, SP!http

LEMMA MatchmakingSteps == [FlowNext]_flowVars => [Next]_vars
  <1> SUFFICES ASSUME [FlowNext]_flowVars PROVE [Next]_vars
    OBVIOUS
  <1>1. CASE \E t \in Tickets : HandleEnqueue(t)
    BY <1>1 DEF Next
  <1>2. ASSUME NEW w \in Workers, HandOver(w) \/ MatchmakingStep(w) PROVE Next
    BY <1>2 DEF Next, ProcessOnce, HandOver, MatchmakingStep
  <1>3. CASE UNCHANGED vars
    BY <1>3
  <1>4. CASE UNCHANGED flowVars
    BY <1>4 DEF flowVars
  <1> QED BY <1>1, <1>2, <1>3, <1>4 DEF FlowNext

----------------------------------------------------------------------------
(* The events the sessions service has seen are the published matches.     *)

Published == {matches[i] : i \in DOMAIN matches}

FlowInv == PlaceInv /\ SP!MatchInv /\ published = Published

\* Of the matchmaking steps only publishMatched adds a match.
LEMMA MatchesStay ==
    ASSUME NEW w \in Workers, MatchmakingStep(w)
    PROVE  matches' = matches
  BY DEF MatchmakingStep, DequeuePair, PopOne, PopPair, Pop, PopAnswerLost, PutBack,
         PutBackFails, PutBackAnswerLost, Drop, MatchFails, NotifyA, NotifyB, NotifyFails,
         StopWorker, StartWorker

LEMMA EnqueueKeepsMatches ==
    ASSUME NEW t \in Tickets, HandleEnqueue(t)
    PROVE  matches' = matches
  BY DEF HandleEnqueue, Enqueue, EnqueueAnswerLost, EnqueueFails, PublishEnqueued,
         PublishEnqueuedFails, Push, workers

\* The pair a worker publishes is new to the sessions service.
LEMMA PairIsNew ==
    ASSUME PlaceInv, published = Published, NEW w \in Workers, PublishMatched(w)
    PROVE  LET m == <<held[w][1], held[w][2]>>
           IN  /\ m \in (Tickets \X Tickets) \ published
               /\ Published' = Published \cup {m}
  <1> DEFINE m == <<held[w][1], held[w][2]>>
  <1>1. TypeInv /\ matches \in Seq(Tickets \X Tickets)
    BY DEF PlaceInv, TypeInv, TypeOK
  <1>2. /\ held[w][1] \in Tickets /\ held[w][2] \in Tickets
        /\ Held(w) = {held[w][1], held[w][2]} /\ Len(matches) \in Nat
        /\ DOMAIN matches = 1..Len(matches)
        /\ DOMAIN matches' = 1..(Len(matches) + 1)
        /\ \A i \in 1..Len(matches) : matches'[i] = matches[i]
        /\ matches'[Len(matches) + 1] = m
    BY <1>1, PublishMatchedEffect
  <1>3. Held(w) \cap InMatch = {}
    BY DEF PlaceInv, EachTicketInOnePlace
  <1>4. ASSUME m \in published PROVE FALSE
    <2>1. PICK i \in DOMAIN matches : matches[i] = m
      BY <1>4 DEF Published
    <2>2. held[w][1] \in InMatch
      BY <2>1 DEF InMatch
    <2> QED BY <1>2, <1>3, <2>2
  <1>5. DOMAIN matches' = DOMAIN matches \cup {Len(matches) + 1}
    BY <1>2
  <1>6. Published' = Published \cup {m}
    <2> HIDE DEF m
    <2>1. Published' = {matches'[i] : i \in DOMAIN matches'}
      BY DEF Published
    <2>2. \A i \in DOMAIN matches : matches'[i] = matches[i]
      BY <1>2
    <2>3. {matches'[i] : i \in DOMAIN matches'} = {matches[i] : i \in DOMAIN matches} \cup {m}
      BY <1>2, <1>5, <2>2
    <2> QED BY <2>1, <2>3 DEF Published
  <1> QED BY <1>2, <1>4, <1>6

LEMMA FlowInvInit == FlowInit => FlowInv
  <1> SUFFICES ASSUME FlowInit PROVE FlowInv
    OBVIOUS
  <1>1. PlaceInv
    BY PlaceInvInit DEF FlowInit
  <1>2. SP!Init
    BY DEF FlowInit, S!Init, SP!Init
  <1>3. published = Published
    BY DEF FlowInit, S!Init, Init, Published
  <1> QED BY <1>1, <1>2, <1>3, SessionsInit DEF FlowInv

\* A step of the composition is a step of the sessions service, and leaves the
\* copy of it that the proofs are about in step.
SessionsStep == [S!Next]_(S!vars) /\ [SP!Next]_(SP!vars)

LEMMA FlowInvNext == FlowInv /\ [FlowNext]_flowVars => FlowInv' /\ SessionsStep
  <1> SUFFICES ASSUME FlowInv, [FlowNext]_flowVars PROVE FlowInv' /\ SessionsStep
    OBVIOUS
  <1>1. PlaceInv'
    BY MatchmakingSteps, PlaceInvNext DEF FlowInv
  <1>2. SUFFICES SessionsStep /\ (published = Published)'
    BY <1>1, SessionsNext DEF FlowInv, SessionsStep
  <1>3. ASSUME UNCHANGED sessionVars, matches' = matches
        PROVE  SessionsStep /\ (published = Published)'
    BY <1>3 DEF FlowInv, SessionsStep, sessionVars, S!vars, SP!vars, Published
  <1>4. ASSUME NEW t \in Tickets, HandleEnqueue(t), UNCHANGED sessionVars
        PROVE  SessionsStep /\ (published = Published)'
    BY <1>3, <1>4, EnqueueKeepsMatches
  <1>5. ASSUME NEW w \in Workers, HandOver(w)
        PROVE  SessionsStep /\ (published = Published)'
    <2> DEFINE m == <<held[w][1], held[w][2]>>
    <2>1. m \in (Tickets \X Tickets) \ published /\ Published' = Published \cup {m}
      BY <1>5, PairIsNew DEF HandOver, FlowInv
    <2>2. \/ S!PublishMatch(m)
          \/ \E R \in (SUBSET SessionReplicas) \ {{}} : S!PublishMatchMissed(m, R)
      BY <1>5 DEF HandOver
    <2>3. /\ published' = published \cup {m}
          /\ \/ SP!PublishMatch(m)
             \/ \E R \in (SUBSET SessionReplicas) \ {{}} : SP!PublishMatchMissed(m, R)
      BY <2>2, DeliverySteps
    <2>4. S!Next
      BY <2>1, <2>2 DEF S!Next
    <2>5. SP!Next
      BY <2>1, <2>3 DEF SP!Next
    <2> QED BY <2>1, <2>3, <2>4, <2>5 DEF FlowInv, SessionsStep
  <1>6. ASSUME NEW w \in Workers, MatchmakingStep(w), UNCHANGED sessionVars
        PROVE  SessionsStep /\ (published = Published)'
    BY <1>3, <1>6, MatchesStay
  <1>7. ASSUME NEW r \in SessionReplicas, S!HandleMatchedEvent(r) \/ S!StopReplica(r),
               UNCHANGED vars
        PROVE  SessionsStep /\ (published = Published)'
    <2>1. published' = published /\ matches' = matches
      BY <1>7, SessionsSteps DEF vars
    <2>2. S!Next
      BY <1>7 DEF S!Next
    <2>3. SP!Next
      BY <1>7, SessionsSteps DEF SP!Next
    <2> QED BY <2>1, <2>2, <2>3 DEF FlowInv, Published, SessionsStep
  <1>8. CASE UNCHANGED flowVars
    BY <1>3, <1>8 DEF flowVars, vars
  <1> QED BY <1>4, <1>5, <1>6, <1>7, <1>8 DEF FlowNext

\* Composition leaves each service its own specification: what is proved of
\* Matchmaking and of Sessions alone holds of the two connected by NATS.  The
\* sessions side rests on the matchmaking side: a match is published once
\* (matchmaking/service.go:74, sessions/service.go:93).
THEOREM ServicesKeepTheirSpecs == FlowSpec => Spec /\ S!Spec
  <1>1. FlowInit => Init /\ S!Init
    BY DEF FlowInit
  <1>2. FlowInv /\ [FlowNext]_flowVars => [S!Next]_(S!vars)
    BY FlowInvNext DEF SessionsStep
  <1> QED BY <1>1, <1>2, FlowInvInit, FlowInvNext, MatchmakingSteps, PTL
          DEF FlowSpec, Spec, S!Spec

\* The order of matches is the order of arrival also with the sessions service
\* attached (queue.go:37-41).
THEOREM FlowMatchesInOrder == FlowSpec => []MatchedInArrivalOrder
  BY ServicesKeepTheirSpecs, MatchesInOrder, PTL

----------------------------------------------------------------------------
(* One ticket, one game.                                                   *)

\* Every session is of a published match, and so has its tickets.
LEMMA CauseIsPublished ==
    ASSUME FlowInv, NEW s \in sessions
    PROVE  \E i \in DOMAIN matches : s.cause = matches[i]
  <1>1. s.cause \in Tickets \X Tickets
    BY DEF FlowInv, SP!MatchInv, SP!TypeInv, SP!TypeOK, SP!Rows
  <1>2. s.cause \in Published
    BY <1>1 DEF FlowInv, SP!MatchInv, SP!RowsOfMatches
  <1> QED BY <1>2 DEF Published

LEMMA OneCause ==
    ASSUME FlowInv, NEW t \in Tickets, NEW s \in SessionsOf(t), NEW z \in SessionsOf(t)
    PROVE  s.cause = z.cause
  <1>1. PICK i \in DOMAIN matches : s.cause = matches[i]
    BY CauseIsPublished DEF SessionsOf
  <1>2. PICK j \in DOMAIN matches : z.cause = matches[j]
    BY CauseIsPublished DEF SessionsOf
  <1>3. PICK k \in 1..2 : t = matches[i][k]
    BY <1>1 DEF SessionsOf
  <1>4. PICK l \in 1..2 : t = matches[j][l]
    BY <1>2 DEF SessionsOf
  <1>5. i = j
    BY <1>3, <1>4 DEF FlowInv, PlaceInv, EachTicketInOnePlace
  <1> QED BY <1>1, <1>2, <1>5

LEMMA GamesAreBounded ==
    ASSUME FlowInv, NEW t \in Tickets
    PROVE  Cardinality(SessionsOf(t)) <= Cardinality(SessionReplicas)
  <1>1. Cardinality(SessionReplicas) \in Nat
    BY FlowAssumption, FS_CardinalityType
  <1>2. CASE SessionsOf(t) = {}
    BY <1>1, <1>2, FS_EmptySet
  <1>3. ASSUME NEW s \in SessionsOf(t)
        PROVE  Cardinality(SessionsOf(t)) <= Cardinality(SessionReplicas)
    <2> DEFINE m == s.cause
               made == SP!MadeOf(m)
    <2>1. m \in Tickets \X Tickets
      BY <1>3 DEF FlowInv, SP!MatchInv, SP!TypeInv, SP!TypeOK, SP!Rows, SessionsOf
    <2>2. SessionsOf(t) \in SUBSET made
      BY <1>3, OneCause DEF SessionsOf, SP!MadeOf
    <2>3. IsFiniteSet(sessions) /\ made \in SUBSET sessions
      BY SameFiniteness DEF FlowInv, SP!MatchInv, SP!TypeInv, SP!IdsOK, SP!MadeOf
    <2>4. SP!Open(m) \in SUBSET SessionReplicas
      BY DEF SP!Open
    <2>5. Cardinality(made) + Cardinality(SP!Open(m)) <= Cardinality(SessionReplicas)
      BY <2>1, SameCardinality DEF FlowInv, SP!MatchInv, SP!PerMatch
    <2> HIDE DEF made, m
    <2>6. /\ Cardinality(made) \in Nat /\ Cardinality(SP!Open(m)) \in Nat
          /\ Cardinality(SessionsOf(t)) \in Nat
          /\ Cardinality(SessionsOf(t)) <= Cardinality(made)
      BY <2>2, <2>3, <2>4, FlowAssumption, FS_Subset, FS_CardinalityType
    <2> QED BY <1>1, <2>5, <2>6
  <1> QED BY <1>2, <1>3

\* One place in the queue buys one game, whatever fails between the pop and
\* the last notice (matchmaking/service.go:56-80, sessions/service.go:93-115).
THEOREM OneTicketOneGame == FlowSpec => []TicketBuysOneGame
  <1>1. FlowInv => TicketBuysOneGame
    BY OneCause, GamesAreBounded DEF TicketBuysOneGame
  <1> QED BY <1>1, FlowInvInit, FlowInvNext, PTL DEF FlowSpec
=============================================================================
