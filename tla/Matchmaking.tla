---------------------------- MODULE Matchmaking ----------------------------
(***************************************************************************)
(* The matchmaking service (internal/matchmaking): POST                    *)
(* /v1/matchmaking/enqueue pushes a player on a Redis list, and in every   *)
(* replica a worker pops two of them every two seconds and publishes the   *)
(* match.  A ticket is one RPUSH; what Redis stores of it is its user,     *)
(* UserOf[t].  A client that asks again, and the Redis client that sends   *)
(* the command again when its answer is lost, make another ticket of the   *)
(* same user.                                                              *)
(***************************************************************************)
EXTENDS Naturals, Sequences, FiniteSets

CONSTANTS Tickets, Users, UserOf, Workers,
          MaxFaults    \* bound: failed calls and stopped processes

ASSUME UserOfAssumption == UserOf \in [Tickets -> Users]
ASSUME WorkersAssumption == IsFiniteSet(Workers)
ASSUME FaultsAssumption == MaxFaults \in Nat

VARIABLES
    queue,      \* the Redis list pcgb:mm:queue
    req,        \* req[t]: the request, or the attempt, that pushes t
    at, held,   \* at[w], held[w]: the worker's place in ProcessOnce, its ids
    matches,    \* pcgb.mm.matched events, in the order they were published
    notices,    \* match_found messages: <<to, other>>
    lost,       \* history: tickets popped and never matched
    arrived,    \* history: arrived[t], t's place in the order of pushes
    pushes, faults

vars == <<queue, req, at, held, matches, notices, lost, arrived, pushes, faults>>
workers == <<at, held, matches, notices, lost>>
requests == <<req, arrived, pushes>>

\* Ids a worker holds that are in no queue and no published match.
Held(w) == IF at[w] \in {"one", "pair"} THEN {held[w][i] : i \in DOMAIN held[w]}
           ELSE {}
InQueue == {queue[i] : i \in DOMAIN queue}
InMatch == UNION {{matches[i][1], matches[i][2]} : i \in DOMAIN matches}

TypeOK ==
    /\ queue \in Seq(Tickets)
    /\ req \in [Tickets -> {"new", "pushed", "accepted", "error"}]
    /\ at \in [Workers -> {"idle", "one", "pair", "notifyA", "notifyB", "stopped"}]
    /\ held \in [Workers -> Seq(Tickets)]
    /\ matches \in Seq(Tickets \X Tickets)
    /\ notices \subseteq Tickets \X Tickets
    /\ lost \subseteq Tickets
    /\ arrived \in [Tickets -> Nat]
    /\ pushes \in Nat
    /\ faults \in 0..MaxFaults

Init ==
    /\ queue = <<>>
    /\ req = [t \in Tickets |-> "new"]
    /\ at = [w \in Workers |-> "idle"]
    /\ held = [w \in Workers |-> <<>>]
    /\ matches = <<>>
    /\ notices = {}
    /\ lost = {}
    /\ arrived = [t \in Tickets |-> 0]
    /\ pushes = 0
    /\ faults = 0

Fault == faults < MaxFaults /\ faults' = faults + 1

----------------------------------------------------------------------------
(* handleEnqueue: RPUSH, then newID, marshal and publish.                  *)

\* RPUSH executes; next is what the caller makes of its answer.
Push(t, next) ==
    /\ req[t] = "new"
    /\ queue' = Append(queue, t)
    /\ req' = [req EXCEPT ![t] = next]
    /\ arrived' = [arrived EXCEPT ![t] = pushes + 1]
    /\ pushes' = pushes + 1
    /\ UNCHANGED workers

Enqueue(t) == Push(t, "pushed") /\ UNCHANGED faults

\* The answer to the RPUSH is lost: 500 "enqueue failed", or another attempt.
EnqueueAnswerLost(t) == Push(t, "error") /\ Fault

\* The RPUSH does not execute: 500 "enqueue failed".
EnqueueFails(t) ==
    /\ req[t] = "new" /\ Fault
    /\ req' = [req EXCEPT ![t] = "error"]
    /\ UNCHANGED <<queue, arrived, pushes, workers>>

\* The enqueued event is published: 202.
PublishEnqueued(t) ==
    /\ req[t] = "pushed"
    /\ req' = [req EXCEPT ![t] = "accepted"]
    /\ UNCHANGED <<queue, arrived, pushes, workers, faults>>

\* newID or the publication fails, or the process stops: 500 or no answer.
PublishEnqueuedFails(t) ==
    /\ req[t] = "pushed" /\ Fault
    /\ req' = [req EXCEPT ![t] = "error"]
    /\ UNCHANGED <<queue, arrived, pushes, workers>>

----------------------------------------------------------------------------
(* DequeuePair.                                                            *)

\* LPOP key 2 executes on a list of one, or of more.
Pop(w, n, place) ==
    /\ at[w] = "idle"
    /\ queue' = SubSeq(queue, n + 1, Len(queue))
    /\ held' = [held EXCEPT ![w] = SubSeq(queue, 1, n)]
    /\ at' = [at EXCEPT ![w] = place]

PopOne(w) ==
    /\ Len(queue) = 1 /\ Pop(w, 1, "one")
    /\ UNCHANGED <<requests, matches, notices, lost, faults>>

\* Mutant: the ids are read and not removed.
PeekPair(w) ==
    /\ Len(queue) >= 2 /\ at[w] = "idle"
    /\ held' = [held EXCEPT ![w] = SubSeq(queue, 1, 2)]
    /\ at' = [at EXCEPT ![w] = "pair"]
    /\ UNCHANGED <<queue, requests, matches, notices, lost, faults>>

\* Mutant: two waiting players are one too few.
PopPairOfMore(w) ==
    /\ Len(queue) > 2 /\ Pop(w, 2, "pair")
    /\ UNCHANGED <<requests, matches, notices, lost, faults>>

PopPair(w) ==
    /\ Len(queue) >= 2 /\ Pop(w, 2, "pair")
    /\ UNCHANGED <<requests, matches, notices, lost, faults>>

\* The LPOP executes and its answer is lost.
PopAnswerLost(w) ==
    /\ at[w] = "idle" /\ queue # <<>> /\ Fault
    /\ LET n == IF Len(queue) = 1 THEN 1 ELSE 2
       IN  /\ queue' = SubSeq(queue, n + 1, Len(queue))
           /\ lost' = lost \cup {queue[i] : i \in 1..n}
    /\ UNCHANGED <<requests, at, held, matches, notices>>

\* Mutant: the slice goes back as one element.
PutBackSlice(w) ==
    /\ at[w] = "one"
    /\ queue' = <<held[w]>> \o queue
    /\ at' = [at EXCEPT ![w] = "idle"]
    /\ held' = [held EXCEPT ![w] = <<>>]
    /\ UNCHANGED <<requests, matches, notices, lost, faults>>

\* Mutant: a single id is ignored.
PutBackForgotten(w) ==
    /\ at[w] = "one"
    /\ lost' = lost \cup Held(w)
    /\ at' = [at EXCEPT ![w] = "idle"]
    /\ held' = [held EXCEPT ![w] = <<>>]
    /\ UNCHANGED <<queue, requests, matches, notices, faults>>

\* Mutant: RPUSH in the place of LPUSH.
PutBackAtTail(w) ==
    /\ at[w] = "one"
    /\ queue' = queue \o held[w]
    /\ at' = [at EXCEPT ![w] = "idle"]
    /\ held' = [held EXCEPT ![w] = <<>>]
    /\ UNCHANGED <<requests, matches, notices, lost, faults>>

\* A single id goes back to the head of the list.
PutBack(w) ==
    /\ at[w] = "one"
    /\ queue' = held[w] \o queue
    /\ at' = [at EXCEPT ![w] = "idle"]
    /\ held' = [held EXCEPT ![w] = <<>>]
    /\ UNCHANGED <<requests, matches, notices, lost, faults>>

\* The LPUSH executes, its answer is lost and the Redis client sends it again:
\* the worker is about to push another ticket t of the user, in the same turn.
PutBackAnswerLost(w, t) ==
    /\ at[w] = "one" /\ req[t] = "new" /\ UserOf[t] = UserOf[held[w][1]]
    /\ queue' = held[w] \o queue
    /\ held' = [held EXCEPT ![w] = <<t>>]
    /\ req' = [req EXCEPT ![t] = "error"]
    /\ arrived' = [arrived EXCEPT ![t] = arrived[held[w][1]]]
    /\ Fault
    /\ UNCHANGED <<at, matches, notices, lost, pushes>>

\* The worker gives up what it holds.
Drop(w, next) ==
    /\ lost' = lost \cup Held(w)
    /\ at' = [at EXCEPT ![w] = next]
    /\ held' = [held EXCEPT ![w] = <<>>]
    /\ Fault
    /\ UNCHANGED <<queue, requests, matches, notices>>

\* The LPUSH fails, as it does once ctx is cancelled.
PutBackFails(w) == at[w] = "one" /\ Drop(w, "idle")

----------------------------------------------------------------------------
(* ProcessOnce.                                                            *)

\* newID for the match, the correlation or the event, or the publication of
\* the match, fails: the error goes to Run, which ignores it.
MatchFails(w) == at[w] = "pair" /\ Drop(w, "idle")

\* Mutant: an error of publishMatched does not end ProcessOnce.
PublishMatchedIgnored(w) ==
    /\ at[w] = "pair"
    /\ at' = [at EXCEPT ![w] = "notifyA"]
    /\ UNCHANGED <<queue, requests, held, matches, notices, lost, faults>>

\* BuildMatch and publishMatched.
PublishMatched(w) ==
    /\ at[w] = "pair"
    /\ matches' = Append(matches, <<held[w][1], held[w][2]>>)
    /\ at' = [at EXCEPT ![w] = "notifyA"]
    /\ UNCHANGED <<queue, requests, held, notices, lost, faults>>

\* publishUserMessage for UserA, then for UserB.
NotifyA(w) ==
    /\ at[w] = "notifyA"
    /\ notices' = notices \cup {<<held[w][1], held[w][2]>>}
    /\ at' = [at EXCEPT ![w] = "notifyB"]
    /\ UNCHANGED <<queue, requests, held, matches, lost, faults>>

NotifyB(w) ==
    /\ at[w] = "notifyB"
    /\ notices' = notices \cup {<<held[w][2], held[w][1]>>}
    /\ at' = [at EXCEPT ![w] = "idle"]
    /\ held' = [held EXCEPT ![w] = <<>>]
    /\ UNCHANGED <<queue, requests, matches, lost, faults>>

\* Mutant: a pair whose notice failed goes back to the queue.
NotifyFailsRequeue(w) ==
    /\ at[w] \in {"notifyA", "notifyB"} /\ Fault
    /\ queue' = held[w] \o queue
    /\ at' = [at EXCEPT ![w] = "idle"]
    /\ held' = [held EXCEPT ![w] = <<>>]
    /\ UNCHANGED <<requests, matches, notices, lost>>

\* The publication fails: ProcessOnce returns.
NotifyFails(w) == at[w] \in {"notifyA", "notifyB"} /\ Drop(w, "idle")

\* The process stops wherever the worker is: main does not wait for Run.
StopWorker(w) == at[w] # "stopped" /\ Drop(w, "stopped")

StartWorker(w) ==
    /\ at[w] = "stopped"
    /\ at' = [at EXCEPT ![w] = "idle"]
    /\ UNCHANGED <<queue, requests, held, matches, notices, lost, faults>>

----------------------------------------------------------------------------

HandleEnqueue(t) ==
    \/ Enqueue(t) \/ EnqueueAnswerLost(t) \/ EnqueueFails(t)
    \/ PublishEnqueued(t) \/ PublishEnqueuedFails(t)

DequeuePair(w) ==
    \/ PopOne(w) \/ PopPair(w) \/ PopAnswerLost(w)
    \/ PutBack(w) \/ PutBackFails(w) \/ \E t \in Tickets : PutBackAnswerLost(w, t)

ProcessOnce(w) ==
    \/ DequeuePair(w)
    \/ MatchFails(w) \/ PublishMatched(w)
    \/ NotifyA(w) \/ NotifyB(w) \/ NotifyFails(w)

Next ==
    \/ \E t \in Tickets : HandleEnqueue(t)
    \/ \E w \in Workers : ProcessOnce(w) \/ StopWorker(w) \/ StartWorker(w)

Spec == Init /\ [][Next]_vars

\* The ticker of Run fires every two seconds, every call returns, and a
\* stopped replica is started again.  Players enqueue when they like.
Fairness ==
    \A w \in Workers :
        /\ WF_vars(PopOne(w) \/ PopPair(w)) /\ WF_vars(PutBack(w))
        /\ WF_vars(PublishMatched(w)) /\ WF_vars(NotifyA(w)) /\ WF_vars(NotifyB(w))
        /\ WF_vars(StartWorker(w))

FairSpec == Spec /\ Fairness

----------------------------------------------------------------------------
(* Properties.                                                             *)

\* A ticket is in one place: the list, one worker's hands, one match or lost,
\* and in none of them twice, whatever pops and put-backs of several replicas
\* interleave (queue.go:30-41, service.go:56-75).
EachTicketInOnePlace ==
    /\ \A i, j \in DOMAIN queue : queue[i] = queue[j] => i = j
    /\ \A i, j \in DOMAIN matches : \A k, l \in 1..2 :
            matches[i][k] = matches[j][l] => i = j /\ k = l
    /\ InQueue \cap InMatch = {} /\ lost \cap (InQueue \cup InMatch) = {}
    /\ \A w \in Workers :
            /\ Held(w) \cap (InQueue \cup InMatch \cup lost) = {}
            /\ at[w] = "pair" => held[w][1] # held[w][2]
            /\ \A v \in Workers \ {w} : Held(w) \cap Held(v) = {}

\* One failed call or stopped process costs at most one pair of players
\* (queue.go:38-40, service.go:61-75, cmd/matchmaking/main.go:71).
LossIsBounded == Cardinality(lost) <= 2 * faults

\* A player is told of a match only after the match was published, and the
\* second player only after the first (service.go:74-80).
NoticeFollowsMatch ==
    \A n \in notices : \E i \in DOMAIN matches :
        \/ n = matches[i]
        \/ n = <<matches[i][2], matches[i][1]>> /\ matches[i] \in notices

\* With a single replica players are matched in the order they were queued:
\* putting a lone player back at the head keeps its turn, also when it is put
\* back twice (queue.go:37-41).
MatchedInArrivalOrder ==
    Cardinality(Workers) = 1 =>
        /\ \A i \in DOMAIN matches : arrived[matches[i][1]] <= arrived[matches[i][2]]
        /\ \A i, j \in DOMAIN matches :
              i < j => arrived[matches[i][2]] <= arrived[matches[j][1]]

Waiting == InQueue \cup UNION {Held(w) : w \in Workers}
Pairs   == {{matches[i][1], matches[i][2]} : i \in DOMAIN matches}

\* The service keeps the promise of a pair queue; the moment of the match is
\* the publication, so a ticket waits while it is queued or in a worker's hands.
Promise == INSTANCE PairQueue WITH waiting <- Waiting, paired <- Pairs, dropped <- lost
ImplementsPairQueue == Promise!Spec
=============================================================================
