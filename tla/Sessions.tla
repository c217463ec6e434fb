------------------------------ MODULE Sessions ------------------------------
(***************************************************************************)
(* The sessions service (internal/sessions): the tables sessions and       *)
(* session_members in Postgres, the subscription to pcgb.mm.matched that   *)
(* turns every match into a session, and the HTTP calls that create a      *)
(* session and assign a server to it.  Every replica subscribes for        *)
(* itself, without a queue group.                                          *)
(***************************************************************************)
EXTENDS Naturals, Sequences, FiniteSets, Functions

CONSTANTS Users, Replicas,
          Matches, PlayersOf,    \* matched events and their user_ids
          Creates, CreatorOf,    \* POST /v1/sessions calls and their users
          Assigns,               \* POST /v1/sessions/{id}/assign-server calls
          None,
          MaxFaults              \* bound: failed calls, lost events, stops

\* An event without ids is ignored, so it is no member of Matches.
ASSUME PlayersAssumption ==
    PlayersOf \in [Matches -> Seq(Users)] /\ \A m \in Matches : PlayersOf[m] # <<>>
ASSUME CreatorAssumption == CreatorOf \in [Creates -> Users]
ASSUME FiniteAssumption ==
    IsFiniteSet(Matches) /\ IsFiniteSet(Replicas) /\ IsFiniteSet(Creates)
ASSUME CausesAssumption == Matches \cap Creates = {}
ASSUME FaultsAssumption == MaxFaults \in Nat

VARIABLES
    sessions,   \* rows: [id, owner, members, cause]
    published,  \* matched events sent by matchmaking
    inbox,      \* inbox[r]: messages pending on r's subscription
    job,        \* job[r]: session the callback is about to announce
    create,     \* create[k]: [st, sid, at] of an HTTP create call; at: the
                \* replica that serves it
    assign,     \* assign[a]: [st, user, sid, at] of an assign-server call
    created,    \* session.created events: session ids
    assigned,   \* session.assigned_server events: <<user, session id>>
    dropped,    \* history: matches some replica received and gave up
    faults

vars == <<sessions, published, inbox, job, create, assign, created, assigned,
          dropped, faults>>
callback == <<published, inbox, job, dropped>>
http     == <<create, assign>>

MaxSessions == Cardinality(Matches) * Cardinality(Replicas) + Cardinality(Creates)
Ids  == 1..MaxSessions
ASSUME NoneAssumption == None \notin Ids
Rows == [id : Ids, owner : Users, members : SUBSET Users,
         cause : Matches \cup Creates]

CreateCalls == [st : {"new", "committed", "created", "error"},
                sid : Ids \cup {None}, at : Replicas \cup {None}]
AssignCalls == [st : {"new", "checked", "ok", "forbidden", "error"},
                user : Users \cup {None}, sid : Ids \cup {None},
                at : Replicas \cup {None}]

TypeOK ==
    /\ sessions \subseteq Rows
    /\ published \subseteq Matches
    /\ inbox \in [Replicas -> Seq(Matches)]
    /\ job \in [Replicas -> Ids \cup {None}]
    /\ create \in [Creates -> CreateCalls]
    /\ assign \in [Assigns -> AssignCalls]
    /\ created \subseteq Ids
    /\ assigned \subseteq Users \X Ids
    /\ dropped \subseteq Matches
    /\ faults \in 0..MaxFaults

Init ==
    /\ sessions = {}
    /\ published = {}
    /\ inbox = [r \in Replicas |-> <<>>]
    /\ job = [r \in Replicas |-> None]
    /\ create = [k \in Creates |-> [st |-> "new", sid |-> None, at |-> None]]
    /\ assign = [a \in Assigns |-> [st |-> "new", user |-> None, sid |-> None,
                                    at |-> None]]
    /\ created = {}
    /\ assigned = {}
    /\ dropped = {}
    /\ faults = 0

Fault == faults < MaxFaults /\ faults' = faults + 1

----------------------------------------------------------------------------
(* PostgresRepository.                                                     *)

\* Mutant: ON CONFLICT DO NOTHING.
InsertsMembersAnyway(members) == TRUE

\* session_members has the primary key (session_id, user_id): the second
\* insert of a user fails and the transaction rolls back.
InsertsMembers(members) == IsInjective(members)

\* Mutant: the id of the session before.
StaleId == Cardinality(sessions)

\* newUUID: an id no session has.
NewId == Cardinality(sessions) + 1

\* CreateSession commits, with a new id; the owner is among the members.
CreateSession(owner, members, cause) ==
    /\ InsertsMembers(members)
    /\ sessions' = sessions \cup {[id |-> NewId, owner |-> owner,
                                   members |-> Range(members), cause |-> cause]}

IsMember(sid, u) == \E s \in sessions : s.id = sid /\ u \in s.members

----------------------------------------------------------------------------
(* Matched events.                                                         *)

\* Matchmaking publishes a match; NATS hands it to every live subscription.
PublishMatch(m) ==
    /\ published' = published \cup {m}
    /\ inbox' = [r \in Replicas |-> Append(inbox[r], m)]
    /\ UNCHANGED <<sessions, job, http, created, assigned, dropped, faults>>

\* Core NATS delivers at most once: some replicas are not connected.
PublishMatchMissed(m, S) ==
    /\ Fault
    /\ published' = published \cup {m}
    /\ inbox' = [r \in Replicas |-> IF r \in S THEN inbox[r] ELSE Append(inbox[r], m)]
    /\ dropped' = dropped \cup {m}
    /\ UNCHANGED <<sessions, job, http, created, assigned>>

\* HandleMatchedEvent up to the commit.  Messages of one subscription are
\* handled one after the other.
Receives(r) == inbox[r] # <<>> /\ job[r] = None

\* Mutant: the callback returns after the commit.
HandleMatchedQuiet(r) ==
    /\ Receives(r)
    /\ LET m == Head(inbox[r])
       IN  CreateSession(PlayersOf[m][1], PlayersOf[m], m)
    /\ inbox' = [inbox EXCEPT ![r] = Tail(@)]
    /\ UNCHANGED <<published, job, http, created, assigned, dropped, faults>>

HandleMatched(r) ==
    /\ Receives(r)
    /\ LET m == Head(inbox[r])
       IN  CreateSession(PlayersOf[m][1], PlayersOf[m], m)
    /\ inbox' = [inbox EXCEPT ![r] = Tail(@)]
    /\ job' = [job EXCEPT ![r] = NewId]
    /\ UNCHANGED <<published, http, created, assigned, dropped, faults>>

\* CreateSession fails: the event is forgotten, without a word to anyone.
Forget(r) ==
    /\ inbox' = [inbox EXCEPT ![r] = Tail(@)]
    /\ dropped' = dropped \cup {Head(inbox[r])}
    /\ UNCHANGED <<published, job, http, created, assigned>>

\* Mutant: an event that cannot be inserted is tried again.
HandleMatchedRetried(r) ==
    /\ Receives(r) /\ ~InsertsMembers(PlayersOf[Head(inbox[r])])
    /\ UNCHANGED vars

HandleMatchedRejected(r) ==
    /\ Receives(r) /\ ~InsertsMembers(PlayersOf[Head(inbox[r])])
    /\ Forget(r) /\ UNCHANGED <<sessions, faults>>

\* Mutant: the error of CreateSession is not checked.
HandleMatchedUnchecked(r) ==
    /\ Receives(r) /\ Fault
    /\ inbox' = [inbox EXCEPT ![r] = Tail(@)]
    /\ job' = [job EXCEPT ![r] = NewId]
    /\ UNCHANGED <<sessions, published, dropped, http, created, assigned>>

HandleMatchedFails(r) == Receives(r) /\ Fault /\ Forget(r) /\ UNCHANGED sessions

\* The commit succeeds and its answer is lost.
HandleMatchedUncertain(r) ==
    /\ Receives(r) /\ Fault /\ Forget(r)
    /\ LET m == Head(inbox[r])
       IN  CreateSession(PlayersOf[m][1], PlayersOf[m], m)

\* publishSessionCreated; its error is ignored.
AnnounceMatched(r) ==
    /\ job[r] # None
    /\ created' = created \cup {job[r]}
    /\ job' = [job EXCEPT ![r] = None]
    /\ UNCHANGED <<sessions, published, inbox, http, assigned, dropped, faults>>

\* Mutant: an event whose announcement failed is handled once more.
AnnounceMatchedRetried(r) ==
    /\ job[r] # None /\ Fault
    /\ inbox' = [inbox EXCEPT ![r] =
            <<(CHOOSE s \in sessions : s.id = job[r]).cause>> \o @]
    /\ job' = [job EXCEPT ![r] = None]
    /\ UNCHANGED <<sessions, published, http, created, assigned, dropped>>

AnnounceMatchedFails(r) ==
    /\ job[r] # None /\ Fault
    /\ job' = [job EXCEPT ![r] = None]
    /\ UNCHANGED <<sessions, published, inbox, http, created, assigned, dropped>>

\* The HTTP calls that are between two steps on a replica.
CreatesOn(r) == {k \in Creates : create[k].st = "committed" /\ create[k].at = r}
AssignsOn(r) == {a \in Assigns : assign[a].st = "checked" /\ assign[a].at = r}

\* The process stops and is started again: what it had received is gone, and
\* with its callback end all HTTP calls it was serving.
StopReplica(r) ==
    /\ \/ inbox[r] # <<>> \/ job[r] # None
       \/ CreatesOn(r) # {} \/ AssignsOn(r) # {}
    /\ Fault
    /\ inbox' = [inbox EXCEPT ![r] = <<>>]
    /\ job' = [job EXCEPT ![r] = None]
    /\ dropped' = dropped \cup Range(inbox[r])
    /\ create' = [k \in Creates |->
            IF k \in CreatesOn(r) THEN [create[k] EXCEPT !.st = "error"] ELSE create[k]]
    /\ assign' = [a \in Assigns |->
            IF a \in AssignsOn(r) THEN [assign[a] EXCEPT !.st = "error"] ELSE assign[a]]
    /\ UNCHANGED <<sessions, published, created, assigned>>

----------------------------------------------------------------------------
(* HTTP calls, each served by some replica.                                *)

\* Mutant: 201 without the event.
CreateForUserQuiet(k, r) ==
    /\ create[k].st = "new"
    /\ CreateSession(CreatorOf[k], <<CreatorOf[k]>>, k)
    /\ create' = [create EXCEPT ![k] = [st |-> "created", sid |-> NewId, at |-> r]]
    /\ UNCHANGED <<callback, assign, created, assigned, faults>>

\* CreateSessionForUser: commit, then publish, then 201.
CreateForUser(k, r) ==
    /\ create[k].st = "new"
    /\ CreateSession(CreatorOf[k], <<CreatorOf[k]>>, k)
    /\ create' = [create EXCEPT ![k] = [st |-> "committed", sid |-> NewId, at |-> r]]
    /\ UNCHANGED <<callback, assign, created, assigned, faults>>

AnnounceCreate(k) ==
    /\ create[k].st = "committed"
    /\ created' = created \cup {create[k].sid}
    /\ create' = [create EXCEPT ![k].st = "created"]
    /\ UNCHANGED <<sessions, callback, assign, assigned, faults>>

\* Either call fails: 500.
CreateFails(k) ==
    /\ create[k].st \in {"new", "committed"} /\ Fault
    /\ create' = [create EXCEPT ![k].st = "error"]
    /\ UNCHANGED <<sessions, callback, assign, created, assigned>>

\* The commit succeeds and its answer is lost: 500.
CreateUncertain(k) ==
    /\ create[k].st = "new" /\ Fault
    /\ CreateSession(CreatorOf[k], <<CreatorOf[k]>>, k)
    /\ create' = [create EXCEPT ![k].st = "error"]
    /\ UNCHANGED <<callback, assign, created, assigned>>

\* AssignServer: IsMember, then publish.
CheckMember(a, r, u, sid) ==
    /\ assign[a].st = "new"
    /\ assign' = [assign EXCEPT ![a] =
            [st |-> IF IsMember(sid, u) THEN "checked" ELSE "forbidden",
             user |-> u, sid |-> sid, at |-> r]]
    /\ UNCHANGED <<sessions, callback, create, created, assigned, faults>>

AnnounceAssigned(a) ==
    /\ assign[a].st = "checked"
    /\ assigned' = assigned \cup {<<assign[a].user, assign[a].sid>>}
    /\ assign' = [assign EXCEPT ![a].st = "ok"]
    /\ UNCHANGED <<sessions, callback, create, created, faults>>

AssignFails(a) ==
    /\ assign[a].st \in {"new", "checked"} /\ Fault
    /\ assign' = [assign EXCEPT ![a].st = "error"]
    /\ UNCHANGED <<sessions, callback, create, created, assigned>>

----------------------------------------------------------------------------

HandleMatchedEvent(r) ==
    \/ HandleMatched(r) \/ HandleMatchedRejected(r)
    \/ HandleMatchedFails(r) \/ HandleMatchedUncertain(r)
    \/ AnnounceMatched(r) \/ AnnounceMatchedFails(r)

CreateSessionForUser(k) ==
    \/ \E r \in Replicas : CreateForUser(k, r)
    \/ AnnounceCreate(k) \/ CreateFails(k) \/ CreateUncertain(k)

AssignServer(a) ==
    \/ \E r \in Replicas, u \in Users, sid \in Ids : CheckMember(a, r, u, sid)
    \/ AnnounceAssigned(a) \/ AssignFails(a)

Next ==
    \/ \E m \in Matches \ published :
          PublishMatch(m) \/ \E S \in (SUBSET Replicas) \ {{}} : PublishMatchMissed(m, S)
    \/ \E r \in Replicas : HandleMatchedEvent(r) \/ StopReplica(r)
    \/ \E k \in Creates : CreateSessionForUser(k)
    \/ \E a \in Assigns : AssignServer(a)

Spec == Init /\ [][Next]_vars

\* The client library calls the callback for every message it holds, and the
\* calls it makes return.
Fairness ==
    \A r \in Replicas :
        /\ WF_vars(HandleMatched(r) \/ HandleMatchedRejected(r))
        /\ WF_vars(AnnounceMatched(r))

FairSpec == Spec /\ Fairness

----------------------------------------------------------------------------
(* Properties.                                                             *)

\* Nobody hears of a session that is not in the database: session.created
\* follows the commit, whose failure ends the call or the callback, and a
\* server is assigned only for a member of a committed session.  No step takes
\* a session or a member away (service.go:39-45, 50-58, 110-114).
EventsTellOfCommitted ==
    /\ \A sid \in created : \E s \in sessions : s.id = sid
    /\ \A e \in assigned : IsMember(e[2], e[1])

\* Every session of a match that nobody announced and nobody is about to
\* announce is owed to a failure of its own: a replica holds one such session
\* at a time, so a stop silences no second one (service.go:110-114).
SilentMatches ==
    {s \in sessions : /\ s.cause \in Matches /\ s.id \notin created
                      /\ \A r \in Replicas : job[r] # s.id}
SilenceIsAFailure == Cardinality(SilentMatches) <= faults

\* A stop may silence any number of sessions made over HTTP, but none whose
\* caller was told 201: the call is still on its way to the publication, or it
\* ended in an error or without an answer (service.go:38-47).
SilentCreateIsNoSuccess ==
    \A s \in sessions : s.cause \in Creates /\ s.id \notin created =>
        create[s.cause].st \in {"committed", "error"}

\* A match becomes no more sessions than there are replicas, whatever fails:
\* no callback is repeated.  Every replica subscribes for itself, so two
\* replicas make two: the bound is reached (service.go:93-115,
\* cmd/sessions/main.go:73).
OneSessionPerReplica ==
    \A m \in Matches :
        Cardinality({s \in sessions : s.cause = m}) <= Cardinality(Replicas)

\* The session of a match has two different members: the match of a user with
\* itself fails on its second insert and its transaction leaves nothing behind
\* (repository.go:32-48).
MatchSessionsHaveTwoPlayers ==
    \A s \in sessions : s.cause \in Matches => Cardinality(s.members) = 2

\* A received match is not left lying: it becomes a session, or some replica
\* has given it up (service.go:93-115).
MatchIsSettled ==
    \A m \in Matches :
        m \in published ~> m \in dropped \/ \E s \in sessions : s.cause = m
=============================================================================
