------------------------------- MODULE Login -------------------------------
(***************************************************************************)
(* The login service (internal/login): POST /v1/login reads the user row,  *)
(* creates it on a first login, gives a password to a row without one or   *)
(* compares the password, and answers with a signed token once             *)
(* user.logged_in is published; GET /v1/me turns a token into a profile.   *)
(* Requests that fail Validate are answered 400 and touch nothing.  The    *)
(* replicas share the users table, so a call's steps interleave with those *)
(* of every other call.                                                    *)
(***************************************************************************)
EXTENDS Naturals, FiniteSets

CONSTANTS Calls, Mes,     \* POST /v1/login and GET /v1/me calls
          Names,
          Legacy,         \* names whose row exists without a password hash
          Passwords,      \* those Validate lets pass: 8 to 128 bytes
          Seen,           \* Seen[p]: the first 72 bytes of p
          None,
          TokenTTL, MaxTime,
          MaxFaults       \* bound: failed or unanswered calls to Postgres, NATS

ASSUME NamesAssumption == Legacy \subseteq Names /\ IsFiniteSet(Legacy)
ASSUME SeenAssumption ==
    /\ Seen \in [Passwords -> Passwords]
    /\ \A p \in Passwords : Seen[Seen[p]] = Seen[p]
ASSUME NoneAssumption == None \notin Passwords \cup Names \cup {"late", "failed"}
ASSUME CallsAssumption == IsFiniteSet(Calls)
ASSUME BoundsAssumption ==
    TokenTTL \in Nat /\ MaxTime \in Nat /\ MaxFaults \in Nat

VARIABLES
    users,    \* rows: [id, name, hash]; a hash is the password it was made of
    lg,       \* lg[c]: [st, name, pw, id, token, wrote] of a login call
    me,       \* me[m]: [st, token, why, name] of a profile call
    events,   \* user.logged_in events: user ids
    now, faults

vars == <<users, lg, me, events, now, faults>>

Ids == 1..(Cardinality(Legacy) + Cardinality(Calls))
Tokens == [sub : Ids, name : Names, exp : Nat]
Answered == {"ok", "refused", "error"}

TypeOK ==
    /\ users \subseteq [id : Ids, name : Names, hash : Passwords \cup {None}]
    /\ lg \in [Calls -> [st : {"new", "absent", "unset", "authed"} \cup Answered,
                         name : Names \cup {None}, pw : Passwords \cup {None},
                         id : Ids \cup {None}, token : Tokens \cup {None},
                         wrote : BOOLEAN]]
    /\ me \in [Mes -> [st : {"new", "parsed", "ok", "unauthorized"},
                       token : Tokens \cup {None}, why : {None, "late", "failed"},
                       name : Names \cup {None}]]
    /\ events \subseteq Ids
    /\ now \in 0..MaxTime /\ faults \in 0..MaxFaults

\* The unique columns of the table.
Unique(rows) == \A u, v \in rows : u.name = v.name \/ u.id = v.id => u = v

\* Rows without a hash come from outside the service: '' is the default of the
\* column.
Init ==
    /\ users \in SUBSET [id : 1..Cardinality(Legacy), name : Legacy, hash : {None}]
    /\ Unique(users) /\ {u.name : u \in users} = Legacy
    /\ lg = [c \in Calls |-> [st |-> "new", name |-> None, pw |-> None, id |-> None,
                              token |-> None, wrote |-> FALSE]]
    /\ me = [m \in Mes |-> [st |-> "new", token |-> None, why |-> None, name |-> None]]
    /\ events = {} /\ now = 0 /\ faults = 0

Fault == faults < MaxFaults /\ faults' = faults + 1

----------------------------------------------------------------------------
(* Authenticator.                                                          *)

\* Mutant: a longer password is cut in silence.
HashesAnything(p) == TRUE

\* HashPassword: bcrypt refuses more than 72 bytes, and VerifyPassword compares
\* the first 72.
Hashes(p) == Seen[p] = p
Verifies(hash, p) == hash = Seen[p]

\* GenerateToken.
Token(id, name) == [sub |-> id, name |-> name, exp |-> now + TokenTTL]

\* ParseToken of a token of this service; any other fails on its signature.
Parses(token) == token.exp >= now

----------------------------------------------------------------------------
(* PostgresRepository; the name is unique.                                 *)

RowsNamed(n) == {u \in users : u.name = n}

\* newUUID: an id no row has.
NewId == Cardinality(users) + 1

Insert(name, hash) ==
    /\ RowsNamed(name) = {}
    /\ users' = users \cup {[id |-> NewId, name |-> name, hash |-> hash]}

\* UPDATE users SET password_hash WHERE id: whatever the hash is by now.
UpdatePassword(id, hash) ==
    users' = {IF u.id = id THEN [u EXCEPT !.hash = hash] ELSE u : u \in users}

----------------------------------------------------------------------------
(* Service.Login.                                                          *)

To(c, st) == lg' = [lg EXCEPT ![c].st = st]

\* Mutant: "user, err :=" in the branch that creates hides the user outside it.
AuthedShadowed(c, id, wrote) ==
    lg' = [lg EXCEPT ![c].st = "authed", ![c].wrote = wrote,
                     ![c].token = Token(lg[c].id, lg[c].name)]

\* A call that knows its user: the token is made before the event is sent.
Authed(c, id, wrote) ==
    lg' = [lg EXCEPT ![c].st = "authed", ![c].id = id, ![c].wrote = wrote,
                     ![c].token = Token(id, lg[c].name)]

\* GetByUsername finds nobody, a row without a hash, or one to verify.
Lookup(c, n, p) ==
    /\ lg[c].st = "new"
    /\ LET asked == [lg[c] EXCEPT !.name = n, !.pw = p]
       IN  \/ /\ RowsNamed(n) = {}
              /\ lg' = [lg EXCEPT ![c] = [asked EXCEPT !.st = "absent"]]
           \/ \E u \in RowsNamed(n) :
                 lg' = [lg EXCEPT ![c] =
                    IF u.hash = None THEN [asked EXCEPT !.st = "unset", !.id = u.id]
                    ELSE IF Verifies(u.hash, p)
                    THEN [asked EXCEPT !.st = "authed", !.id = u.id,
                                       !.token = Token(u.id, n)]
                    ELSE [asked EXCEPT !.st = "refused"]]
    /\ UNCHANGED <<users, me, events, now, faults>>

\* HashPassword fails: 500.
HashFails(c) ==
    /\ lg[c].st \in {"absent", "unset"} /\ ~Hashes(lg[c].pw)
    /\ To(c, "error")
    /\ UNCHANGED <<users, me, events, now, faults>>

\* Mutant: INSERT ... ON CONFLICT (username) DO NOTHING, and the new id answered.
CreateAnyway(c) ==
    /\ lg[c].st = "absent" /\ Hashes(lg[c].pw)
    /\ \/ Insert(lg[c].name, Seen[lg[c].pw])
       \/ RowsNamed(lg[c].name) # {} /\ UNCHANGED users
    /\ Authed(c, NewId, TRUE)
    /\ UNCHANGED <<me, events, now, faults>>

\* Mutant: no unique index on the name.
CreateTwice(c) ==
    /\ lg[c].st = "absent" /\ Hashes(lg[c].pw)
    /\ users' = users \cup {[id |-> NewId, name |-> lg[c].name, hash |-> Seen[lg[c].pw]]}
    /\ Authed(c, NewId, TRUE)
    /\ UNCHANGED <<me, events, now, faults>>

Create(c) ==
    /\ lg[c].st = "absent" /\ Hashes(lg[c].pw)
    /\ Insert(lg[c].name, Seen[lg[c].pw])
    /\ Authed(c, NewId, TRUE)
    /\ UNCHANGED <<me, events, now, faults>>

\* Mutant: the loser of the race tries its INSERT again.
CreateConflictsRetried(c) ==
    /\ lg[c].st = "absent" /\ Hashes(lg[c].pw) /\ RowsNamed(lg[c].name) # {}
    /\ UNCHANGED vars

\* Another call inserted the name since the lookup: 500.
CreateConflicts(c) ==
    /\ lg[c].st = "absent" /\ Hashes(lg[c].pw) /\ RowsNamed(lg[c].name) # {}
    /\ To(c, "error")
    /\ UNCHANGED <<users, me, events, now, faults>>

SetPassword(c) ==
    /\ lg[c].st = "unset" /\ Hashes(lg[c].pw)
    /\ UpdatePassword(lg[c].id, Seen[lg[c].pw])
    /\ Authed(c, lg[c].id, TRUE)
    /\ UNCHANGED <<me, events, now, faults>>

\* The statement commits and its answer is lost: 500.
WriteUncertain(c) ==
    /\ lg[c].st \in {"absent", "unset"} /\ Hashes(lg[c].pw) /\ Fault
    /\ IF lg[c].st = "absent" THEN Insert(lg[c].name, Seen[lg[c].pw])
       ELSE UpdatePassword(lg[c].id, Seen[lg[c].pw])
    /\ lg' = [lg EXCEPT ![c].st = "error", ![c].wrote = TRUE]
    /\ UNCHANGED <<me, events, now>>

\* publishLoggedIn, then 200 with the token.
PublishLoggedIn(c) ==
    /\ lg[c].st = "authed"
    /\ events' = events \cup {lg[c].id}
    /\ To(c, "ok")
    /\ UNCHANGED <<users, me, now, faults>>

\* A database call, newUUID or the publication fails, or the process stops: 500
\* or no answer, and no token.
LoginFails(c) ==
    /\ lg[c].st \in {"new", "absent", "unset", "authed"} /\ Fault
    /\ To(c, "error")
    /\ UNCHANGED <<users, me, events, now>>

----------------------------------------------------------------------------
(* handleMe: ParseToken, then GetByID.                                     *)

MeParse(m, token) ==
    /\ me[m].st = "new"
    /\ me' = [me EXCEPT ![m] = [st |-> IF Parses(token) THEN "parsed" ELSE "unauthorized",
                                token |-> token, name |-> None,
                                why |-> IF token.exp < now THEN "late" ELSE None]]
    /\ UNCHANGED <<users, lg, events, now, faults>>

MeProfile(m) ==
    /\ me[m].st = "parsed"
    /\ LET rows == {u \in users : u.id = me[m].token.sub}
       IN  \/ /\ rows = {}
              /\ me' = [me EXCEPT ![m].st = "unauthorized"]
           \/ \E u \in rows :
                 me' = [me EXCEPT ![m].st = "ok", ![m].name = u.name]
    /\ UNCHANGED <<users, lg, events, now, faults>>

\* GetByID fails: 401 all the same.
MeFails(m) ==
    /\ me[m].st = "parsed" /\ Fault
    /\ me' = [me EXCEPT ![m].st = "unauthorized", ![m].why = "failed"]
    /\ UNCHANGED <<users, lg, events, now>>

Tick ==
    /\ now < MaxTime /\ now' = now + 1
    /\ UNCHANGED <<users, lg, me, events, faults>>

----------------------------------------------------------------------------

HandleLogin(c) ==
    \/ HashFails(c) \/ Create(c) \/ CreateConflicts(c) \/ SetPassword(c)
    \/ PublishLoggedIn(c)

Next ==
    \/ \E c \in Calls :
          \/ \E n \in Names, p \in Passwords : Lookup(c, n, p)
          \/ HandleLogin(c) \/ WriteUncertain(c) \/ LoginFails(c)
    \/ \E m \in Mes :
          \/ \E c \in Calls : lg[c].st = "ok" /\ MeParse(m, lg[c].token)
          \/ MeProfile(m) \/ MeFails(m)
    \/ Tick

Spec == Init /\ [][Next]_vars

\* A call that has begun goes on; nobody has to call, and time may stand still.
FairSpec == Spec /\ \A c \in Calls : WF_vars(HandleLogin(c))

----------------------------------------------------------------------------
(* Properties.                                                             *)

\* Whoever gets a token gets it for the one row of the name it asked for, also
\* when several first logins of the name have read "no such user" at once, and
\* the event names that row (service.go:27-39, 52-63).
TokenNamesTheUser ==
    /\ Unique(users)
    /\ \A c \in Calls : lg[c].st = "ok" =>
          /\ \E u \in users : u.id = lg[c].token.sub /\ u.name = lg[c].name
          /\ lg[c].token.sub \in events

\* Calls that gave a password to a row that was there without one.
Setters(n) == {c \in Calls : lg[c].name = n /\ lg[c].wrote}
HasPassword(n, p) == \E u \in users : u.name = n /\ u.hash = p

\* A password that was written is the user's password from then on, whole, and
\* the one that every accepted call used as far as bcrypt looks; so a caller
\* who got an error after the write can log in with the same password.  The
\* one exception is a row without a hash to which several calls gave one: each
\* of them was accepted and the last password stays (service.go:31-50, 63).
PasswordSticks ==
    \A c \in Calls :
        \/ /\ lg[c].wrote => HasPassword(lg[c].name, lg[c].pw)
           /\ lg[c].st = "ok" => HasPassword(lg[c].name, Seen[lg[c].pw])
        \/ lg[c].name \in Legacy /\ Cardinality(Setters(lg[c].name)) > 1

\* GET /v1/me gives the owner of a token its own profile and refuses no token
\* before its time is over, except for a failing database, which it answers in
\* the same way: the row of the token is committed before the token leaves the
\* service (service.go:36-52, 70-76, auth.go:84, handlers.go:84-95).
TokenOpensItsProfile ==
    \A m \in Mes :
        /\ me[m].st = "unauthorized" => me[m].why # None
        /\ me[m].st = "ok" => me[m].why = None /\ me[m].name = me[m].token.name

\* A first login with a password that can be hashed leaves a row of its name
\* behind and is answered, also when it loses the race for the name; only a
\* failed call leaves nothing (service.go:36-39).
FirstLoginSettles ==
    \A c \in Calls :
        lg[c].st = "absent" ~>
            /\ lg[c].st \in Answered
            /\ faults > 0 \/ RowsNamed(lg[c].name) # {} \/ ~Hashes(lg[c].pw)
=============================================================================
