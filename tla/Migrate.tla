------------------------------ MODULE Migrate ------------------------------
(***************************************************************************)
(* The migration command (cmd/migrate) and the scripts it runs             *)
(* (deploy/sql/migrations): a run reads the applied versions once, selects *)
(* scripts and executes each in a transaction together with its row of     *)
(* schema_migrations.  The scripts lock or create the tables they touch,   *)
(* so a transaction is one step; a clash of two is a failed statement.     *)
(***************************************************************************)
EXTENDS Naturals, FiniteSets

CONSTANTS Runs,        \* executions of the command, each at most once
          Asks,        \* their command lines: [dir, steps, first]
          DownsAlone,  \* operators let nothing overlap a down run
          None,
          MaxFaults    \* bound: failed statements and stopped processes

ASSUME AsksAssumption ==
    Asks \subseteq [dir : {"up", "down"}, steps : Nat, first : BOOLEAN]
ASSUME FlagsAssumption == DownsAlone \in BOOLEAN /\ MaxFaults \in Nat
ASSUME NoneAssumption == None \notin {"email", "login", "linked", "loose", "owned"}

VARIABLES
    db,         \* tables: shape of users and of sessions, session_members
    applied,    \* versions with a row in schema_migrations
    accounts,   \* users with a name and password have registered
    run,        \* run[p]: [st, ask, dir, todo, done]
    faults

vars == <<db, applied, accounts, run, faults>>

\* Files of the directory by version; 001_init.sql, with neither suffix, is
\* not loaded.
Versions == 1..3

\* users: none, "email" (001) or "login" (002).  sessions: none, "linked" (001,
\* REFERENCES users), "loose" (the same columns without the reference, which
\* 003 down creates) or "owned" (003).  members references sessions.
Dbs == [users : {None, "email", "login"},
        sessions : {None, "linked", "loose", "owned"}, members : BOOLEAN]
Empty == [users |-> None, sessions |-> None, members |-> FALSE]

TypeOK ==
    /\ db \in Dbs
    /\ applied \subseteq Versions
    /\ accounts \in BOOLEAN
    /\ run \in [Runs -> [st : {"new", "ensured", "loaded", "completed", "fatal"},
                         ask : Asks \cup {None}, dir : {"up", "down"},
                         todo : SUBSET Versions, done : SUBSET Versions]]
    /\ faults \in 0..MaxFaults

Init ==
    /\ db = Empty /\ applied = {} /\ accounts = FALSE /\ faults = 0
    /\ run = [p \in Runs |-> [st |-> "new", ask |-> None, dir |-> "up", todo |-> {},
                              done |-> {}]]

Fault == faults < MaxFaults /\ faults' = faults + 1

----------------------------------------------------------------------------
(* The scripts: the set of databases that a script makes of d, empty where *)
(* one of its statements fails.  A table that another one references is    *)
(* not dropped.                                                            *)

\* CREATE TABLE IF NOT EXISTS, and an index on sessions(user_id).
Up001(d) ==
    {e \in {[d EXCEPT !.users = IF @ = None THEN "email" ELSE @,
                      !.sessions = IF @ = None THEN "linked" ELSE @]} :
        /\ d.sessions # "owned"
        /\ d.sessions = None => e.users = "email"}

Up002(d) == {e \in {[Empty EXCEPT !.users = "login"]} : ~d.members}

\* Mutant: no DROP TABLE IF EXISTS sessions.
Up003WithoutDrop(d) ==
    {e \in {[d EXCEPT !.sessions = "owned", !.members = TRUE]} : d.sessions = None}

Up003(d) == {[d EXCEPT !.sessions = "owned", !.members = TRUE]}

Down001(d) == {e \in {Empty} : ~d.members}

\* CREATE TABLE sessions, without IF NOT EXISTS.
Down002(d) ==
    {e \in {[d EXCEPT !.users = "email", !.sessions = "linked"]} : d.sessions = None}

Down003(d) == {[d EXCEPT !.sessions = "loose", !.members = FALSE]}

Up(v, d)   == CASE v = 1 -> Up001(d) [] v = 2 -> Up002(d) [] v = 3 -> Up003(d)
Down(v, d) == CASE v = 1 -> Down001(d) [] v = 2 -> Down002(d) [] v = 3 -> Down003(d)
Script(dir, v, d) == IF dir = "up" THEN Up(v, d) ELSE Down(v, d)

----------------------------------------------------------------------------
(* main.                                                                   *)

Over(p) == run[p].st \in {"completed", "fatal"}
Active(p) == run[p].st \in {"ensured", "loaded"}

\* flag.Parse stops at the first argument that is no flag: -steps counts only
\* where it stands before the direction.
StepsOf(ask) == IF ask.first THEN ask.steps ELSE 0

\* The command starts, connects and creates schema_migrations if need be.
Start(p, ask) ==
    /\ run[p].st = "new"
    /\ DownsAlone => \A q \in Runs : Active(q) => ask.dir = "up" /\ run[q].dir = "up"
    /\ run' = [run EXCEPT ![p].st = "ensured", ![p].ask = ask, ![p].dir = ask.dir]
    /\ UNCHANGED <<db, applied, accounts, faults>>

\* Mutant: the loop over all[i] runs one index low.
SelectedLow(dir, steps) == {v - 1 : v \in Versions \ applied}

\* selectMigrations: in order and not applied, or in reverse and applied; the
\* first of them if steps is given.
Selected(dir, steps) ==
    LET all == IF dir = "up" THEN Versions \ applied ELSE Versions \cap applied
        before(v) == {w \in all : IF dir = "up" THEN w < v ELSE w > v}
    IN  {v \in all : steps > 0 => Cardinality(before(v)) < steps}

\* loadAppliedMigrations and selectMigrations; nothing is read again.
Load(p) ==
    /\ run[p].st = "ensured"
    /\ run' = [run EXCEPT ![p].st = "loaded",
                          ![p].todo = Selected(run[p].dir, StepsOf(run[p].ask))]
    /\ UNCHANGED <<db, applied, accounts, faults>>

IsNext(p, v) ==
    /\ run[p].st = "loaded" /\ v \in run[p].todo
    /\ \A w \in run[p].todo : IF run[p].dir = "up" THEN v <= w ELSE v >= w

\* Mutant: INSERT ... ON CONFLICT DO NOTHING.
RecordsAlways(dir, v) == TRUE

\* INSERT of a version that is there fails; DELETE of one that is not does not.
Records(dir, v) == dir = "up" => v \notin applied

DropsUsers(dir, v) == v = 2 \/ (v = 1 /\ dir = "down")

\* The transaction of runMigration; dropping users takes the accounts with it.
Commit(p, v) ==
    /\ IsNext(p, v) /\ Records(run[p].dir, v)
    /\ db' \in Script(run[p].dir, v, db)
    /\ applied' = IF run[p].dir = "up" THEN applied \cup {v} ELSE applied \ {v}
    /\ accounts' = (accounts /\ ~DropsUsers(run[p].dir, v))

\* Mutant: the loop returns after its first script.
RunMigrationOnce(p, v) ==
    /\ Commit(p, v)
    /\ run' = [run EXCEPT ![p].st = "completed", ![p].done = {v}]
    /\ UNCHANGED faults

RunMigration(p, v) ==
    /\ Commit(p, v)
    /\ run' = [run EXCEPT ![p].todo = @ \ {v}, ![p].done = @ \cup {v}]
    /\ UNCHANGED faults

\* A statement of the transaction fails: rolled back, log.Fatalf.
RunMigrationFails(p, v) ==
    /\ IsNext(p, v)
    /\ ~Records(run[p].dir, v) \/ Script(run[p].dir, v, db) = {}
    /\ run' = [run EXCEPT ![p].st = "fatal"]
    /\ UNCHANGED <<db, applied, accounts, faults>>

\* Mutant: no transaction, and the process stops between the script and its row.
RunMigrationHalf(p, v) ==
    /\ IsNext(p, v) /\ Fault
    /\ db' \in Script(run[p].dir, v, db)
    /\ run' = [run EXCEPT ![p].st = "fatal"]
    /\ UNCHANGED <<applied, accounts>>

\* The commit succeeds and its answer is lost: log.Fatalf.
RunMigrationUncertain(p, v) ==
    /\ Commit(p, v) /\ Fault
    /\ run' = [run EXCEPT ![p].st = "fatal"]

\* The connection breaks or the process stops between two transactions.
Dies(p) ==
    /\ Active(p) /\ Fault
    /\ run' = [run EXCEPT ![p].st = "fatal"]
    /\ UNCHANGED <<db, applied, accounts>>

Complete(p) ==
    /\ run[p].st = "loaded" /\ run[p].todo = {}
    /\ run' = [run EXCEPT ![p].st = "completed"]
    /\ UNCHANGED <<db, applied, accounts, faults>>

\* The login service inserts into users.
Register ==
    /\ db.users = "login" /\ ~accounts
    /\ accounts' = TRUE
    /\ UNCHANGED <<db, applied, run, faults>>

----------------------------------------------------------------------------

Step(p) ==
    \/ Load(p) \/ Complete(p)
    \/ \E v \in Versions : RunMigration(p, v) \/ RunMigrationFails(p, v)

Next ==
    \/ \E p \in Runs :
          \/ \E ask \in Asks : Start(p, ask)
          \/ Step(p) \/ Dies(p) \/ \E v \in Versions : RunMigrationUncertain(p, v)
    \/ Register

Spec == Init /\ [][Next]_vars

\* A command that was started runs to its end.
FairSpec == Spec /\ \A p \in Runs : WF_vars(Step(p))

----------------------------------------------------------------------------
(* Properties.                                                             *)

\* The tables of each version: what the first n scripts make of none.
Schema(n) ==
    CASE n = 0 -> Empty
      [] n = 1 -> [users |-> "email", sessions |-> "linked", members |-> FALSE]
      [] n = 2 -> [users |-> "login", sessions |-> None, members |-> FALSE]
      [] n = 3 -> [users |-> "login", sessions |-> "owned", members |-> TRUE]

\* The version rows tell the truth about the tables, after any number of up
\* runs at once and whatever fails between two scripts: the versions are an
\* initial segment and the tables are those its scripts make.  One step down
\* from the top is the exception: 003 down leaves a sessions table that version
\* 2 did not have (main.go:189-225, 003_sessions_members.down.sql:4).
VersionsTellTables ==
    \E n \in 0..3 :
        /\ applied = 1..n
        /\ \/ db = Schema(n)
           \/ n = 2 /\ db = [Schema(2) EXCEPT !.sessions = "loose"]

\* Whatever runs have done, "up" leads on to the latest schema: the scripts of
\* the versions that are missing succeed one after the other (main.go:67-72).
UpgradeStaysPossible ==
    LET upgraded(v, ds) == IF v \in applied THEN ds ELSE UNION {Up(v, d) : d \in ds}
    IN  upgraded(3, upgraded(2, upgraded(1, {db}))) = {Schema(3)}

\* Only down runs lose accounts: an up run that read the versions before
\* another one wrote them executes the DROP TABLE users of 002 once more, and
\* its version row takes the transaction back (main.go:61, 209, 214).
AccountsSurviveUps ==
    [][accounts /\ ~accounts' => \E p \in Runs : run[p] # run'[p] /\ run[p].dir = "down"]_vars

\* -steps=n before the direction limits a run to n scripts; the Makefile's
\* "down -steps=1" has it behind, where it limits nothing (main.go:23-27, 182-184, Makefile:61).
StepsLimitRuns ==
    \A p \in Runs :
        run[p].done # {} /\ run[p].ask.first /\ run[p].ask.steps > 0 =>
            Cardinality(run[p].done) <= run[p].ask.steps

\* Of several unlimited up runs at once each may fail on a version another one
\* has just recorded, but together they reach the latest version, unless there
\* is a failure or a run of another kind (main.go:61-72, 214).
Unlimited(p) == run[p].st # "new" /\ run[p].dir = "up" /\ StepsOf(run[p].ask) = 0

UpsReachLatest ==
    (\E p \in Runs : Unlimited(p)) ~>
        \/ applied = Versions
        \/ faults > 0
        \/ \E p \in Runs : run[p].st # "new" /\ ~Unlimited(p)
=============================================================================
