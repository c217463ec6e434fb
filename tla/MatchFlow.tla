----------------------------- MODULE MatchFlow -----------------------------
(***************************************************************************)
(* Matchmaking and the sessions service together: the publication of       *)
(* pcgb.mm.matched by a worker is its delivery to the subscriptions of the *)
(* sessions replicas.  A match is the pair of its tickets; the players the *)
(* event names are the tickets' users.  The two services fail apart.       *)
(***************************************************************************)
EXTENDS Matchmaking

CONSTANTS SessionReplicas, None,
          MaxSessionFaults  \* bound: failures on the sessions side

VARIABLES sessions, published, inbox, job, created, dropped, sessionFaults

\* Nobody creates sessions or assigns servers by HTTP here.
S == INSTANCE Sessions WITH
    Replicas <- SessionReplicas, MaxFaults <- MaxSessionFaults,
    Matches <- Tickets \X Tickets,
    PlayersOf <- [m \in Tickets \X Tickets |-> <<UserOf[m[1]], UserOf[m[2]]>>],
    Creates <- {}, CreatorOf <- <<>>, Assigns <- {},
    create <- <<>>, assign <- <<>>, assigned <- {},
    faults <- sessionFaults

\* What Sessions assumes of its constants, as far as it does not follow.
ASSUME FlowAssumption ==
    /\ IsFiniteSet(Tickets) /\ IsFiniteSet(SessionReplicas)
    /\ MaxSessionFaults \in Nat /\ None \notin S!Ids

sessionVars == <<sessions, published, inbox, job, created, dropped, sessionFaults>>
flowVars == <<vars, sessionVars>>

FlowInit == Init /\ S!Init

\* publishMatched: the event reaches the sessions replicas that are connected.
HandOver(w) ==
    /\ PublishMatched(w)
    /\ LET m == <<held[w][1], held[w][2]>>
       IN  \/ S!PublishMatch(m)
           \/ \E R \in (SUBSET SessionReplicas) \ {{}} : S!PublishMatchMissed(m, R)

MatchmakingStep(w) ==
    \/ DequeuePair(w) \/ MatchFails(w)
    \/ NotifyA(w) \/ NotifyB(w) \/ NotifyFails(w)
    \/ StopWorker(w) \/ StartWorker(w)

FlowNext ==
    \/ (\E t \in Tickets : HandleEnqueue(t)) /\ UNCHANGED sessionVars
    \/ \E w \in Workers : HandOver(w) \/ (MatchmakingStep(w) /\ UNCHANGED sessionVars)
    \/ \E r \in SessionReplicas :
          (S!HandleMatchedEvent(r) \/ S!StopReplica(r)) /\ UNCHANGED vars

FlowSpec == FlowInit /\ [][FlowNext]_flowVars

\* Both services keep the fairness they have on their own.
FairFlowSpec == FlowSpec /\ Fairness /\ S!Fairness

----------------------------------------------------------------------------
(* Properties.                                                             *)

SessionsOf(t) == {s \in sessions : t \in {s.cause[1], s.cause[2]}}

\* One place in the queue buys one game: the sessions a ticket leads to are of
\* one match, and no sessions replica makes two of them, whatever fails between
\* the pop and the last notice (matchmaking/service.go:56-80,
\* sessions/service.go:93-115).
TicketBuysOneGame ==
    \A t \in Tickets :
        /\ \A s, z \in SessionsOf(t) : s.cause = z.cause
        /\ Cardinality(SessionsOf(t)) <= Cardinality(SessionReplicas)

SelfMatched(t) ==
    \E i \in DOMAIN matches :
        t \in {matches[i][1], matches[i][2]} /\ UserOf[matches[i][1]] = UserOf[matches[i][2]]

\* With a single worker the player at the head of the list, with another one
\* behind it, gets a session that is announced: it is not popped and put back
\* for ever, and no earlier event blocks its match in the sessions service.
\* It is lost to a failure on either side, and to a match with itself, which
\* the sessions service refuses (queue.go:29-47, matchmaking/service.go:83-94,
\* sessions/service.go:93-115, repository.go:32-48).
HeadGetsSession ==
    \A t \in Tickets :
        Len(queue) >= 2 /\ t = queue[1] ~>
            \/ \E s \in SessionsOf(t) : s.id \in created
            \/ t \in lost \/ SelfMatched(t) \/ sessionFaults > 0
=============================================================================
