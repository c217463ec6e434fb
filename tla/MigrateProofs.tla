---------------------------- MODULE MigrateProofs ----------------------------
(* Proofs about Migrate, for any runs, command lines and faults.           *)
EXTENDS Migrate, FiniteSetTheorems, TLAPS

RunType == [st : {"new", "ensured", "loaded", "completed", "fatal"},
            ask : Asks \cup {None}, dir : {"up", "down"},
            todo : SUBSET Versions, done : SUBSET Versions]

\* A run in state r: it has a command line once started and a selection once
\* the versions are loaded.
RunOK(r) ==
    /\ r.st # "new" => r.ask \in Asks /\ r.dir = r.ask.dir
    /\ r.st \in {"new", "ensured"} => r.todo = {} /\ r.done = {}

TypeInv == TypeOK /\ \A p \in Runs : RunOK(run[p])

\* A step of run p that leaves it as r.
Steps(p, r) == run' = [run EXCEPT ![p] = r]

LEMMA RunsTyped == TypeInv => run \in [Runs -> RunType]
  BY DEF TypeInv, TypeOK, RunType

LEMMA VersionsFinite == IsFiniteSet(Versions)
  <1>1. 1 \in Int /\ 3 \in Int
    OBVIOUS
  <1>2. IsFiniteSet(1..3)
    BY ONLY <1>1, FS_Interval
  <1> QED BY <1>2 DEF Versions

LEMMA SelectedType == \A dir, steps : Selected(dir, steps) \in SUBSET Versions
  BY DEF Selected

LEMMA ScriptType ==
    ASSUME db \in Dbs, NEW dir, NEW v \in Versions
    PROVE  Script(dir, v, db) \subseteq Dbs
  <1>0. Empty \in Dbs
    BY DEF Empty, Dbs
  <1>1. Up001(db) \subseteq Dbs
    BY DEF Up001, Dbs
  <1>2. Up002(db) \subseteq Dbs
    BY DEF Up002, Dbs, Empty
  <1>3. Up003(db) \subseteq Dbs
    BY DEF Up003, Dbs
  <1>4. Down001(db) \subseteq Dbs
    BY <1>0 DEF Down001
  <1>5. Down002(db) \subseteq Dbs
    BY DEF Down002, Dbs
  <1>6. Down003(db) \subseteq Dbs
    BY DEF Down003, Dbs
  <1>7. v = 1 \/ v = 2 \/ v = 3
    BY DEF Versions
  <1> QED BY <1>1, <1>2, <1>3, <1>4, <1>5, <1>6, <1>7 DEF Script, Up, Down

LEMMA CommitType ==
    ASSUME TypeInv, NEW p \in Runs, NEW v \in Versions, Commit(p, v)
    PROVE  db' \in Dbs /\ applied' \subseteq Versions /\ accounts' \in BOOLEAN
  <1>1. db' \in Dbs
    BY ScriptType DEF TypeInv, TypeOK, Commit
  <1> QED BY <1>1 DEF TypeInv, TypeOK, Commit

\* A step of one run keeps the types.
LEMMA TypeStep ==
    ASSUME TypeInv, NEW p \in Runs, NEW r \in RunType, RunOK(r), Steps(p, r),
           db' \in Dbs, applied' \subseteq Versions, accounts' \in BOOLEAN,
           faults' \in 0..MaxFaults
    PROVE  TypeInv'
  <1>1. run' \in [Runs -> RunType] /\ \A q \in Runs : run'[q] = IF q = p THEN r ELSE run[q]
    BY RunsTyped DEF Steps
  <1>2. TypeOK'
    BY <1>1 DEF TypeOK, RunType, Dbs, Versions
  <1>3. \A q \in Runs : RunOK(run'[q])
    BY <1>1 DEF TypeInv
  <1> QED BY <1>2, <1>3 DEF TypeInv, RunOK

\* What each step does to its run.
LEMMA RunSteps ==
    ASSUME TypeInv, NEW p \in Runs
    PROVE  /\ \A ask \in Asks : Start(p, ask) => \E r \in RunType :
                 /\ Steps(p, r) /\ run[p].st = "new"
                 /\ r = [run[p] EXCEPT !.st = "ensured", !.ask = ask, !.dir = ask.dir]
           /\ Load(p) => \E r \in RunType :
                 /\ Steps(p, r) /\ run[p].st = "ensured"
                 /\ r = [run[p] EXCEPT !.st = "loaded",
                           !.todo = Selected(run[p].dir, StepsOf(run[p].ask))]
           /\ \A v \in Versions : RunMigration(p, v) => \E r \in RunType :
                 /\ Steps(p, r) /\ run[p].st = "loaded" /\ v \in run[p].todo
                 /\ r = [run[p] EXCEPT !.todo = run[p].todo \ {v},
                                       !.done = run[p].done \cup {v}]
           /\ Complete(p) => \E r \in RunType :
                 Steps(p, r) /\ run[p].st = "loaded" /\ r = [run[p] EXCEPT !.st = "completed"]
           /\ \A v \in Versions :
                 Dies(p) \/ RunMigrationFails(p, v) \/ RunMigrationUncertain(p, v) =>
                    \E r \in RunType : /\ Steps(p, r) /\ Active(p)
                                       /\ r = [run[p] EXCEPT !.st = "fatal"]
  <1>0. run \in [Runs -> RunType] /\ run[p] \in RunType
    BY RunsTyped
  <1>1. ASSUME NEW ask \in Asks, Start(p, ask)
        PROVE  \E r \in RunType :
                 /\ Steps(p, r) /\ run[p].st = "new"
                 /\ r = [run[p] EXCEPT !.st = "ensured", !.ask = ask, !.dir = ask.dir]
    <2>1. PICK r : r = [run[p] EXCEPT !.st = "ensured", !.ask = ask, !.dir = ask.dir]
      OBVIOUS
    <2>2. r \in RunType
      BY <1>0, <2>1, AsksAssumption DEF RunType
    <2>3. Steps(p, r) /\ run[p].st = "new"
      BY <1>0, <1>1, <2>1 DEF Start, Steps
    <2> QED BY <2>1, <2>2, <2>3
  <1>2. ASSUME Load(p)
        PROVE  \E r \in RunType :
                 /\ Steps(p, r) /\ run[p].st = "ensured"
                 /\ r = [run[p] EXCEPT !.st = "loaded",
                           !.todo = Selected(run[p].dir, StepsOf(run[p].ask))]
    <2>1. PICK s : s = Selected(run[p].dir, StepsOf(run[p].ask))
      OBVIOUS
    <2>2. PICK r : r = [run[p] EXCEPT !.st = "loaded", !.todo = s]
      OBVIOUS
    <2>3. s \in SUBSET Versions
      BY <2>1, SelectedType
    <2>4. r \in RunType
      BY <1>0, <2>2, <2>3 DEF RunType
    <2>5. Steps(p, r) /\ run[p].st = "ensured"
      BY <1>0, <1>2, <2>1, <2>2 DEF Load, Steps
    <2> QED BY <2>1, <2>2, <2>4, <2>5
  <1>3. ASSUME NEW v \in Versions, RunMigration(p, v)
        PROVE  \E r \in RunType :
                 /\ Steps(p, r) /\ run[p].st = "loaded" /\ v \in run[p].todo
                 /\ r = [run[p] EXCEPT !.todo = run[p].todo \ {v},
                                       !.done = run[p].done \cup {v}]
    <2>1. PICK r : r = [run[p] EXCEPT !.todo = run[p].todo \ {v},
                                      !.done = run[p].done \cup {v}]
      OBVIOUS
    <2>2. r \in RunType
      BY <1>0, <2>1 DEF RunType
    <2>3. Steps(p, r)
      BY <1>0, <1>3, <2>1 DEF RunMigration, Steps
    <2>4. run[p].st = "loaded" /\ v \in run[p].todo
      BY <1>3 DEF RunMigration, Commit, IsNext
    <2> QED BY <2>1, <2>2, <2>3, <2>4
  <1>4. ASSUME NEW st \in {"completed", "fatal"}, run' = [run EXCEPT ![p].st = st]
        PROVE  \E r \in RunType : Steps(p, r) /\ r = [run[p] EXCEPT !.st = st]
    <2>1. PICK r : r = [run[p] EXCEPT !.st = st]
      OBVIOUS
    <2>2. r \in RunType
      BY <1>0, <2>1 DEF RunType
    <2>3. Steps(p, r)
      BY <1>0, <1>4, <2>1 DEF Steps
    <2> QED BY <2>1, <2>2, <2>3
  <1>5. Complete(p) => run[p].st = "loaded" /\ run' = [run EXCEPT ![p].st = "completed"]
    BY DEF Complete
  <1>6. ASSUME NEW v \in Versions, Dies(p) \/ RunMigrationFails(p, v) \/ RunMigrationUncertain(p, v)
        PROVE  Active(p) /\ run' = [run EXCEPT ![p].st = "fatal"]
    BY <1>6 DEF Dies, RunMigrationFails, RunMigrationUncertain, Commit, IsNext, Active
  <1> QED BY <1>1, <1>2, <1>3, <1>4, <1>5, <1>6

LEMMA TypeInvInit == Init => TypeInv
  <1>1. Empty \in Dbs
    BY DEF Empty, Dbs
  <1> SUFFICES ASSUME Init PROVE TypeInv
    OBVIOUS
  <1>2. run \in [Runs -> RunType] /\ \A p \in Runs : RunOK(run[p])
    BY DEF Init, RunType, RunOK
  <1>3. accounts \in BOOLEAN /\ faults = 0 /\ applied = {}
    BY DEF Init
  <1>4. faults \in 0..MaxFaults
    BY <1>3, FlagsAssumption
  <1> QED BY <1>1, <1>2, <1>3, <1>4 DEF Init, TypeInv, TypeOK, RunType

LEMMA TypeInvNext == TypeInv /\ [Next]_vars => TypeInv'
  <1> SUFFICES ASSUME TypeInv, [Next]_vars PROVE TypeInv'
    OBVIOUS
  <1>0. /\ db \in Dbs /\ applied \subseteq Versions /\ accounts \in BOOLEAN
        /\ faults \in 0..MaxFaults
        /\ Fault => faults' \in 0..MaxFaults
        /\ \A p \in Runs : RunOK(run[p]) /\ run[p] \in RunType
    BY FlagsAssumption, RunsTyped DEF TypeInv, TypeOK, Fault
  <1>1. ASSUME NEW p \in Runs, NEW ask \in Asks, Start(p, ask) PROVE TypeInv'
    <2>1. PICK r \in RunType :
             /\ Steps(p, r) /\ run[p].st = "new"
             /\ r = [run[p] EXCEPT !.st = "ensured", !.ask = ask, !.dir = ask.dir]
      BY <1>1, RunSteps
    <2>2. RunOK(r)
      BY <1>0, <2>1 DEF RunOK, RunType
    <2>3. UNCHANGED <<db, applied, accounts, faults>>
      BY <1>1 DEF Start
    <2> QED BY <1>0, <2>1, <2>2, <2>3, TypeStep
  <1>2. ASSUME NEW p \in Runs, Load(p) PROVE TypeInv'
    <2>1. PICK r \in RunType :
             /\ Steps(p, r) /\ run[p].st = "ensured"
             /\ r = [run[p] EXCEPT !.st = "loaded",
                       !.todo = Selected(run[p].dir, StepsOf(run[p].ask))]
      BY <1>2, RunSteps
    <2>2. RunOK(r)
      BY <1>0, <2>1 DEF RunOK, RunType
    <2>3. UNCHANGED <<db, applied, accounts, faults>>
      BY <1>2 DEF Load
    <2> QED BY <1>0, <2>1, <2>2, <2>3, TypeStep
  <1>3. ASSUME NEW p \in Runs, NEW v \in Versions, RunMigration(p, v) PROVE TypeInv'
    <2>1. PICK r \in RunType :
             /\ Steps(p, r) /\ run[p].st = "loaded"
             /\ r = [run[p] EXCEPT !.todo = run[p].todo \ {v}, !.done = run[p].done \cup {v}]
      BY <1>3, RunSteps
    <2>2. RunOK(r)
      BY <1>0, <2>1 DEF RunOK, RunType
    <2>3. Commit(p, v) /\ UNCHANGED faults
      BY <1>3 DEF RunMigration
    <2>4. db' \in Dbs /\ applied' \subseteq Versions /\ accounts' \in BOOLEAN
      BY <2>3, CommitType
    <2> QED BY <1>0, <2>1, <2>2, <2>3, <2>4, TypeStep
  <1>4. ASSUME NEW p \in Runs, Complete(p) PROVE TypeInv'
    <2>1. PICK r \in RunType :
             Steps(p, r) /\ run[p].st = "loaded" /\ r = [run[p] EXCEPT !.st = "completed"]
      BY <1>4, RunSteps
    <2>2. RunOK(r)
      BY <1>0, <2>1 DEF RunOK, RunType
    <2>3. UNCHANGED <<db, applied, accounts, faults>>
      BY <1>4 DEF Complete
    <2> QED BY <1>0, <2>1, <2>2, <2>3, TypeStep
  <1>5. ASSUME NEW p \in Runs, NEW v \in Versions,
               Dies(p) \/ RunMigrationFails(p, v) \/ RunMigrationUncertain(p, v)
        PROVE  TypeInv'
    <2>1. PICK r \in RunType : Steps(p, r) /\ Active(p) /\ r = [run[p] EXCEPT !.st = "fatal"]
      BY <1>5, RunSteps
    <2>2. RunOK(r)
      BY <1>0, <2>1 DEF RunOK, RunType, Active
    <2>3. Commit(p, v) => db' \in Dbs /\ applied' \subseteq Versions /\ accounts' \in BOOLEAN
      BY CommitType
    <2>4. db' \in Dbs /\ applied' \subseteq Versions /\ accounts' \in BOOLEAN
      BY <1>0, <1>5, <2>3 DEF Dies, RunMigrationFails, RunMigrationUncertain
    <2>5. faults' \in 0..MaxFaults
      BY <1>0, <1>5 DEF Dies, RunMigrationFails, RunMigrationUncertain
    <2> QED BY <2>1, <2>2, <2>4, <2>5, TypeStep
  <1>6. CASE Register \/ UNCHANGED vars
    <2>1. UNCHANGED <<db, applied, run, faults>> /\ accounts' \in BOOLEAN
      BY <1>0, <1>6 DEF Register, vars
    <2> QED BY <2>1 DEF TypeInv, TypeOK, RunOK
  <1>7. 1 \in Versions
    BY DEF Versions
  <1> QED BY <1>1, <1>2, <1>3, <1>4, <1>5, <1>6, <1>7 DEF Next, Step

LEMMA TypeInvHolds == Spec => []TypeInv
  BY TypeInvInit, TypeInvNext, PTL DEF Spec

\* Tables, versions and runs stay within their types; every script makes one of
\* the known shapes of every other (main.go:56-75, the scripts).
THEOREM TypeCorrect == Spec => []TypeOK
  BY TypeInvHolds, PTL DEF TypeInv

----------------------------------------------------------------------------
(* -steps.                                                                 *)

Limited(r) == r.st # "new" /\ r.ask.first /\ r.ask.steps > 0

\* What a limited run has done and has yet to do is within its limit.
Limit == \A p \in Runs : Limited(run[p]) =>
             Cardinality(run[p].done \cup run[p].todo) <= run[p].ask.steps

LimitInv == TypeInv /\ Limit

\* selectMigrations: before the last of the selected scripts there are fewer
\* than steps.
LEMMA SelectedBound ==
    ASSUME NEW dir, NEW steps \in Nat, steps > 0
    PROVE  Cardinality(Selected(dir, steps)) <= steps
  <1> DEFINE all == IF dir = "up" THEN Versions \ applied ELSE Versions \cap applied
             before(v) == {w \in all : IF dir = "up" THEN w < v ELSE w > v}
             sel == Selected(dir, steps)
  <1>1. sel = {v \in all : Cardinality(before(v)) < steps}
    BY DEF Selected
  <1>2. all \in SUBSET Versions /\ IsFiniteSet(Versions)
    BY VersionsFinite
  <1>3. CASE sel = {}
    BY <1>3, FS_EmptySet
  <1>4. CASE sel # {}
    <2>1. PICK m \in sel : \A w \in sel : w # m => IF dir = "up" THEN w < m ELSE w > m
      <3>1. sel \subseteq 1..3
        BY <1>1, <1>2 DEF Versions
      <3> HIDE DEF sel
      <3>2. \A w \in sel : w = 1 \/ w = 2 \/ w = 3
        BY <3>1
      <3>3. CASE dir = "up"
        BY <1>4, <3>2, <3>3
      <3>4. CASE dir # "up"
        BY <1>4, <3>2, <3>4
      <3> QED BY <3>3, <3>4
    <2>2. m \in all /\ Cardinality(before(m)) < steps
      BY <1>1, <2>1
    <2>3. sel \in SUBSET (before(m) \cup {m})
      BY <1>1, <2>1
    <2>4. before(m) \in SUBSET Versions /\ m \notin before(m)
      BY <1>2, <2>2 DEF Versions
    <2> HIDE DEF sel, before
    <2>5. IsFiniteSet(before(m)) /\ Cardinality(before(m)) \in Nat
      BY <1>2, <2>4, FS_Subset, FS_CardinalityType
    <2>6. /\ IsFiniteSet(before(m) \cup {m})
          /\ Cardinality(before(m) \cup {m}) = Cardinality(before(m)) + 1
      BY <2>4, <2>5, FS_AddElement
    <2>7. Cardinality(sel) <= Cardinality(before(m) \cup {m}) /\ IsFiniteSet(sel)
      BY <2>3, <2>6, FS_Subset
    <2>8. Cardinality(sel) \in Nat
      BY <2>7, FS_CardinalityType
    <2>9. Cardinality(sel) <= steps
      BY <2>2, <2>5, <2>6, <2>7, <2>8
    <2> QED BY <2>9 DEF sel
  <1> QED BY <1>3, <1>4

LEMMA LimitNext == LimitInv /\ [Next]_vars => LimitInv'
  <1> SUFFICES ASSUME LimitInv, [Next]_vars PROVE LimitInv'
    OBVIOUS
  <1>0. /\ TypeInv /\ TypeInv' /\ run \in [Runs -> RunType]
        /\ \A p \in Runs : RunOK(run[p]) /\ run[p] \in RunType
    BY TypeInvNext, RunsTyped DEF LimitInv, TypeInv
  <1>1. ASSUME NEW p \in Runs, NEW r \in RunType, Steps(p, r),
               Limited(r) => Cardinality(r.done \cup r.todo) <= r.ask.steps
        PROVE  Limit'
    <2>1. \A q \in Runs : run'[q] = IF q = p THEN r ELSE run[q]
      BY <1>0, <1>1 DEF Steps
    <2> QED BY <1>1, <2>1 DEF LimitInv, Limit, Limited
  <1>2. ASSUME NEW p \in Runs, NEW r \in RunType, Steps(p, r), run[p].st # "new",
               r.ask = run[p].ask, r.done \cup r.todo = run[p].done \cup run[p].todo
        PROVE  Limit'
    <2>1. Limited(r) => Cardinality(r.done \cup r.todo) <= r.ask.steps
      BY <1>2 DEF LimitInv, Limit, Limited
    <2> QED BY <1>1, <1>2, <2>1
  <1>3. ASSUME NEW p \in Runs, NEW ask \in Asks, Start(p, ask) PROVE Limit'
    <2>1. PICK r \in RunType :
             /\ Steps(p, r) /\ run[p].st = "new"
             /\ r = [run[p] EXCEPT !.st = "ensured", !.ask = ask, !.dir = ask.dir]
      BY <1>0, <1>3, RunSteps
    <2>2. r.done \cup r.todo = {} /\ r.ask = ask
      BY <1>0, <2>1 DEF RunOK, RunType
    <2>3. Cardinality(r.done \cup r.todo) = 0
      BY <2>2, FS_EmptySet
    <2>4. Limited(r) => Cardinality(r.done \cup r.todo) <= r.ask.steps
      BY <2>2, <2>3, AsksAssumption DEF Limited
    <2> QED BY <1>1, <2>1, <2>4
  <1>4. ASSUME NEW p \in Runs, Load(p) PROVE Limit'
    <2>1. PICK r \in RunType :
             /\ Steps(p, r) /\ run[p].st = "ensured"
             /\ r = [run[p] EXCEPT !.st = "loaded",
                       !.todo = Selected(run[p].dir, StepsOf(run[p].ask))]
      BY <1>0, <1>4, RunSteps
    <2>2. /\ r.done \cup r.todo = Selected(run[p].dir, StepsOf(run[p].ask))
          /\ r.ask = run[p].ask /\ run[p].ask \in Asks
      BY <1>0, <2>1 DEF RunOK, RunType
    <2>3. ASSUME Limited(r)
          PROVE  Cardinality(r.done \cup r.todo) <= r.ask.steps
      <3>1. /\ StepsOf(run[p].ask) = r.ask.steps
            /\ r.ask.steps \in Nat /\ r.ask.steps > 0
        BY <2>2, <2>3, AsksAssumption DEF Limited, StepsOf
      <3> QED BY <2>2, <3>1, SelectedBound
    <2> QED BY <1>1, <2>1, <2>3
  <1>5. ASSUME NEW p \in Runs, NEW v \in Versions, RunMigration(p, v) PROVE Limit'
    <2>1. PICK r \in RunType :
             /\ Steps(p, r) /\ run[p].st = "loaded" /\ v \in run[p].todo
             /\ r = [run[p] EXCEPT !.todo = run[p].todo \ {v}, !.done = run[p].done \cup {v}]
      BY <1>0, <1>5, RunSteps
    <2>2. r.ask = run[p].ask /\ r.done \cup r.todo = run[p].done \cup run[p].todo
      BY <1>0, <2>1 DEF RunType
    <2> QED BY <1>2, <2>1, <2>2
  <1>6. ASSUME NEW p \in Runs, NEW v \in Versions,
               Complete(p) \/ Dies(p) \/ RunMigrationFails(p, v) \/ RunMigrationUncertain(p, v)
        PROVE  Limit'
    <2>1. PICK r \in RunType :
             /\ Steps(p, r) /\ run[p].st # "new"
             /\ r = [run[p] EXCEPT !.st = "completed"] \/ r = [run[p] EXCEPT !.st = "fatal"]
      BY <1>0, <1>6, RunSteps DEF Active
    <2>2. r.ask = run[p].ask /\ r.done \cup r.todo = run[p].done \cup run[p].todo
      BY <1>0, <2>1 DEF RunType
    <2> QED BY <1>2, <2>1, <2>2
  <1>7. CASE Register \/ UNCHANGED vars
    BY <1>0, <1>7 DEF Register, vars, LimitInv, Limit, Limited
  <1>8. 1 \in Versions
    BY DEF Versions
  <1>9. Limit'
    BY <1>3, <1>4, <1>5, <1>6, <1>7, <1>8 DEF Next, Step, LimitInv
  <1> QED BY <1>0, <1>9 DEF LimitInv

\* A run with -steps=n before its direction executes at most n scripts, however
\* many were selected from (main.go:182-184).
THEOREM StepsAreALimit == Spec => []StepsLimitRuns
  <1>1. Init => LimitInv
    BY TypeInvInit DEF Init, LimitInv, Limit, Limited
  <1>2. LimitInv => StepsLimitRuns
    <2> SUFFICES ASSUME LimitInv, NEW p \in Runs, run[p].done # {},
                        run[p].ask.first, run[p].ask.steps > 0
                 PROVE  Cardinality(run[p].done) <= run[p].ask.steps
      BY DEF StepsLimitRuns
    <2>1. RunOK(run[p]) /\ run[p] \in RunType /\ Limit
      BY RunsTyped DEF LimitInv, TypeInv
    <2>2. Limited(run[p]) /\ run[p].ask.steps \in Nat
      BY <2>1, AsksAssumption DEF RunOK, Limited
    <2>3. IsFiniteSet(run[p].done \cup run[p].todo)
      <3>1. run[p].done \cup run[p].todo \in SUBSET Versions
        BY <2>1 DEF RunType
      <3> QED BY <3>1, VersionsFinite, FS_Subset
    <2>4. /\ Cardinality(run[p].done) <= Cardinality(run[p].done \cup run[p].todo)
          /\ Cardinality(run[p].done) \in Nat
          /\ Cardinality(run[p].done \cup run[p].todo) \in Nat
      <3>1. run[p].done \in SUBSET (run[p].done \cup run[p].todo)
        OBVIOUS
      <3> QED BY <2>3, <3>1, FS_Subset, FS_CardinalityType
    <2>5. Cardinality(run[p].done \cup run[p].todo) <= run[p].ask.steps
      BY <2>1, <2>2 DEF Limit
    <2> QED BY <2>2, <2>4, <2>5
  <1> QED BY <1>1, <1>2, LimitNext, PTL DEF Spec

----------------------------------------------------------------------------
(* Versions and tables.                                                    *)

\* A down run overlaps nothing.
Alone == \A p, q \in Runs :
             Active(p) /\ Active(q) /\ p # q => run[p].dir = "up" /\ run[q].dir = "up"

\* What run r has selected has no gap: up, every version below a selected one
\* is selected or applied; down, every applied version above one is selected.
Ordered(r) ==
    /\ r.dir = "up" => \A v \in r.todo : \A w \in Versions :
                          w < v => w \in applied \/ w \in r.todo
    /\ r.dir = "down" => /\ r.todo \subseteq applied
                         /\ \A v \in r.todo : \A w \in applied : w > v => w \in r.todo

\* The tables of version n, the exception of VersionsTellTables included.
At(n) == db = Schema(n) \/ (n = 2 /\ db = [Schema(2) EXCEPT !.sessions = "loose"])

OrderInv ==
    /\ TypeInv /\ Alone /\ VersionsTellTables
    /\ \A p \in Runs : run[p].st = "loaded" => Ordered(run[p])

LEMMA VersionNumber == \A v : v \in Versions <=> v = 1 \/ v = 2 \/ v = 3
  BY DEF Versions

LEMMA Schemas ==
    /\ Schema(0) = [users |-> None, sessions |-> None, members |-> FALSE]
    /\ Schema(1) = [users |-> "email", sessions |-> "linked", members |-> FALSE]
    /\ Schema(2) = [users |-> "login", sessions |-> None, members |-> FALSE]
    /\ Schema(3) = [users |-> "login", sessions |-> "owned", members |-> TRUE]
    /\ [Schema(2) EXCEPT !.sessions = "loose"] =
           [users |-> "login", sessions |-> "loose", members |-> FALSE]
  <1>1. Schema(2) = [users |-> "login", sessions |-> None, members |-> FALSE]
    BY DEF Schema
  <1>2. PICK d : d = Schema(2)
    OBVIOUS
  <1>3. d = [users |-> "login", sessions |-> None, members |-> FALSE]
    BY <1>1, <1>2
  <1>4. PICK e : e = [d EXCEPT !.sessions = "loose"]
    OBVIOUS
  <1>5. e = [users |-> "login", sessions |-> "loose", members |-> FALSE]
    BY ONLY <1>3, <1>4
  <1>6. [Schema(2) EXCEPT !.sessions = "loose"] =
            [users |-> "login", sessions |-> "loose", members |-> FALSE]
    BY <1>2, <1>4, <1>5
  <1>7. /\ Schema(0) = [users |-> None, sessions |-> None, members |-> FALSE]
        /\ Schema(1) = [users |-> "email", sessions |-> "linked", members |-> FALSE]
        /\ Schema(3) = [users |-> "login", sessions |-> "owned", members |-> TRUE]
    BY DEF Schema, Empty
  <1> QED BY <1>1, <1>6, <1>7

\* Each up script makes the next schema of the one before, and 003 also of the
\* tables its own down script leaves.
LEMMA Upgrades ==
    /\ Up(1, Schema(0)) = {Schema(1)} /\ Up(2, Schema(1)) = {Schema(2)}
    /\ Up(3, Schema(2)) = {Schema(3)}
    /\ Up(3, [Schema(2) EXCEPT !.sessions = "loose"]) = {Schema(3)}
  <1>1. PICK d : d = Schema(0)
    OBVIOUS
  <1>2. d = [users |-> None, sessions |-> None, members |-> FALSE]
    BY <1>1, Schemas
  <1>3. Up(1, d) = {Schema(1)}
    <2>1. PICK e : e = [d EXCEPT !.users = IF @ = None THEN "email" ELSE @,
                                 !.sessions = IF @ = None THEN "linked" ELSE @]
      OBVIOUS
    <2>2. d.users = None /\ d.sessions = None
      BY <1>2
    <2>3. e = [d EXCEPT !.users = "email", !.sessions = "linked"]
      BY <2>1, <2>2
    <2>4. e = [users |-> "email", sessions |-> "linked", members |-> FALSE]
      BY <1>2, <2>3
    <2>5. e.users = "email"
      BY <2>4
    <2>6. Up001(d) = {e}
      BY <2>1, <2>2, <2>5, NoneAssumption DEF Up001
    <2>7. e = Schema(1) /\ Up(1, d) = Up001(d)
      BY <2>4, Schemas DEF Up
    <2> QED BY <2>6, <2>7
  <1>4. PICK f : f = Schema(1)
    OBVIOUS
  <1>5. f = [users |-> "email", sessions |-> "linked", members |-> FALSE]
    BY <1>4, Schemas
  <1>6. Up(2, f) = {Schema(2)}
    <2>1. PICK c : c = Empty
      OBVIOUS
    <2>2. c = [users |-> None, sessions |-> None, members |-> FALSE]
      BY <2>1 DEF Empty
    <2>3. PICK e : e = [c EXCEPT !.users = "login"]
      OBVIOUS
    <2>4. e = [users |-> "login", sessions |-> None, members |-> FALSE]
      BY <2>2, <2>3
    <2>5. ~f.members
      BY <1>5
    <2>6. Up002(f) = {e}
      BY <2>1, <2>3, <2>5 DEF Up002
    <2>7. e = Schema(2) /\ Up(2, f) = Up002(f)
      BY <2>4, Schemas DEF Up
    <2> QED BY <2>6, <2>7
  <1>7. ASSUME NEW s, NEW g, g = [users |-> "login", sessions |-> s, members |-> FALSE]
        PROVE  Up(3, g) = {Schema(3)}
    <2>1. PICK e : e = [g EXCEPT !.sessions = "owned", !.members = TRUE]
      OBVIOUS
    <2>2. e = [users |-> "login", sessions |-> "owned", members |-> TRUE]
      BY <1>7, <2>1
    <2>3. Up003(g) = {e}
      BY <2>1 DEF Up003
    <2>4. e = Schema(3) /\ Up(3, g) = Up003(g)
      BY <2>2, Schemas DEF Up
    <2> QED BY <2>3, <2>4
  <1> QED BY <1>1, <1>3, <1>4, <1>6, <1>7, Schemas

LEMMA UpEffect ==
    ASSUME NEW n \in 0..2, At(n), NEW e \in Up(n + 1, db)
    PROVE  e = Schema(n + 1)
  <1>1. n = 0 \/ n = 1 \/ n = 2
    OBVIOUS
  <1> QED BY <1>1, Upgrades DEF At

LEMMA DownEffect ==
    ASSUME NEW n \in Versions, At(n), db' \in Down(n, db)
    PROVE  At(n - 1)'
  <1>1. CASE n = 1
    <2>1. db' = Empty
      BY <1>1 DEF Down, Down001
    <2> QED BY <1>1, <2>1 DEF At, Schema
  <1>2. CASE n = 2
    <2>1. db' \in Down002(db)
      BY <1>2 DEF Down
    <2>2. db' = [db EXCEPT !.users = "email", !.sessions = "linked"] /\ db.sessions = None
      BY <2>1 DEF Down002
    <2>3. \/ db = [users |-> "login", sessions |-> None, members |-> FALSE]
          \/ db = [users |-> "login", sessions |-> "loose", members |-> FALSE]
      BY <1>2 DEF At, Schema
    <2>4. db = [users |-> "login", sessions |-> None, members |-> FALSE]
      BY <2>2, <2>3, NoneAssumption
    <2>5. db' = [users |-> "email", sessions |-> "linked", members |-> FALSE]
      <3>1. PICK d, e : d = db /\ e = [d EXCEPT !.users = "email", !.sessions = "linked"]
        OBVIOUS
      <3>2. e = [users |-> "email", sessions |-> "linked", members |-> FALSE]
        BY <2>4, <3>1
      <3> QED BY <2>2, <3>1, <3>2
    <2> QED BY <1>2, <2>5 DEF At, Schema
  <1>3. CASE n = 3
    <2>1. db = [users |-> "login", sessions |-> "owned", members |-> TRUE]
      BY <1>3 DEF At, Schema
    <2>2. db' = [db EXCEPT !.sessions = "loose", !.members = FALSE]
      BY <1>3 DEF Down, Down003
    <2>3. db' = [users |-> "login", sessions |-> "loose", members |-> FALSE]
      BY <2>1, <2>2
    <2>4. At(2)'
      BY <2>3, Schemas DEF At
    <2> QED BY <1>3, <2>4
  <1> QED BY <1>1, <1>2, <1>3, VersionNumber

\* A transaction takes the highest version away or adds the next one, whatever
\* other runs have done since the selection was made.
LEMMA CommitEffect ==
    ASSUME OrderInv, NEW p \in Runs, NEW v \in Versions, Commit(p, v)
    PROVE  /\ VersionsTellTables'
           /\ run[p].dir = "up" => applied = 1..(v - 1) /\ applied' = applied \cup {v}
           /\ run[p].dir = "down" => applied = 1..v /\ applied' = applied \ {v}
  <1>1. /\ run[p].st = "loaded" /\ Ordered(run[p]) /\ v \in run[p].todo
        /\ run[p].dir \in {"up", "down"} /\ run[p].todo \subseteq Versions
        /\ \A w \in run[p].todo : IF run[p].dir = "up" THEN v <= w ELSE v >= w
    BY RunsTyped DEF OrderInv, Commit, IsNext, RunType
  <1>2. PICK n \in 0..3 : applied = 1..n /\ At(n)
    BY DEF OrderInv, VersionsTellTables, At
  <1>3. \A m \in 0..3 : applied' = 1..m /\ At(m)' => VersionsTellTables'
    BY DEF VersionsTellTables, At
  <1>4. CASE run[p].dir = "up"
    <2>1. v \notin applied /\ applied' = applied \cup {v} /\ db' \in Up(v, db)
      BY <1>4 DEF Commit, Records, Script
    <2>2. \A w \in Versions : w < v => w \in applied
      BY <1>1, <1>4 DEF Ordered, Versions
    <2>3. n \in 0..2 /\ v = n + 1
      BY <1>2, <2>1, <2>2 DEF Versions
    <2>4. applied' = 1..(n + 1) /\ n + 1 \in 0..3 /\ applied = 1..(v - 1)
      BY <1>2, <2>1, <2>3
    <2>5. db' = Schema(n + 1)
      BY <1>2, <2>1, <2>3, UpEffect
    <2>6. At(n + 1)'
      BY <2>5 DEF At, Schema, Empty
    <2> QED BY <1>3, <1>4, <2>1, <2>4, <2>6
  <1>5. CASE run[p].dir = "down"
    <2>1. applied' = applied \ {v} /\ db' \in Down(v, db)
      BY <1>5 DEF Commit, Script
    <2>2. v \in applied /\ \A w \in applied : w > v => w \in run[p].todo
      BY <1>1, <1>5 DEF Ordered
    <2>3. \A w \in applied : ~(w > v)
      BY <1>1, <1>5, <2>2 DEF Versions
    <2>4. v = n
      BY <1>2, <2>2, <2>3
    <2>5. applied' = 1..(n - 1) /\ n - 1 \in 0..3
      BY <1>2, <2>1, <2>2, <2>4
    <2>6. At(n - 1)'
      BY <1>2, <2>1, <2>4, DownEffect
    <2> QED BY <1>2, <1>3, <1>5, <2>1, <2>4, <2>5, <2>6
  <1> QED BY <1>1, <1>4, <1>5

LEMMA OrderInvInit == Init => OrderInv
  <1> SUFFICES ASSUME Init PROVE OrderInv
    OBVIOUS
  <1>1. applied = 1..0 /\ db = Schema(0) /\ 0 \in 0..3
    BY DEF Init, Schema
  <1>2. VersionsTellTables
    BY <1>1 DEF VersionsTellTables
  <1>3. Alone /\ \A p \in Runs : run[p].st = "loaded" => Ordered(run[p])
    BY DEF Init, Alone, Active
  <1> QED BY <1>2, <1>3, TypeInvInit DEF OrderInv

\* Selections are without gaps when they are made.
LEMMA SelectedOrdered ==
    ASSUME applied \subseteq Versions, NEW steps \in Nat, NEW r,
           r.todo = Selected(r.dir, steps)
    PROVE  Ordered(r)
  <1> DEFINE all(dir) == IF dir = "up" THEN Versions \ applied ELSE Versions \cap applied
             before(dir, v) == {w \in all(dir) : IF dir = "up" THEN w < v ELSE w > v}
  <1>1. r.todo = {v \in all(r.dir) : steps > 0 => Cardinality(before(r.dir, v)) < steps}
    BY DEF Selected
  <1>2. ASSUME NEW v \in r.todo, NEW w \in all(r.dir),
               IF r.dir = "up" THEN w < v ELSE w > v
        PROVE  w \in r.todo
    <2>1. v \in Versions /\ w \in Versions
      BY <1>1
    <2>2. before(r.dir, w) \in SUBSET before(r.dir, v)
      BY <1>2, <2>1 DEF Versions
    <2>3. before(r.dir, v) \in SUBSET Versions
      OBVIOUS
    <2> HIDE DEF before
    <2>4. /\ IsFiniteSet(before(r.dir, v)) /\ IsFiniteSet(before(r.dir, w))
          /\ Cardinality(before(r.dir, w)) <= Cardinality(before(r.dir, v))
      BY <2>2, <2>3, VersionsFinite, FS_Subset
    <2>5. Cardinality(before(r.dir, w)) \in Nat /\ Cardinality(before(r.dir, v)) \in Nat
      BY <2>4, FS_CardinalityType
    <2>6. steps > 0 => Cardinality(before(r.dir, w)) < steps
      BY <1>1, <2>4, <2>5
    <2> QED BY <1>1, <2>6
  <1>3. r.dir = "up" => \A v \in r.todo : \A w \in Versions :
                           w < v => w \in applied \/ w \in r.todo
    BY <1>2
  <1>4. r.dir = "down" => /\ r.todo \subseteq applied
                          /\ \A v \in r.todo : \A w \in applied : w > v => w \in r.todo
    BY <1>1, <1>2
  <1> QED BY <1>3, <1>4 DEF Ordered

\* A step of run p that leaves versions, tables and accounts alone, and leaves
\* p over, or keeps or begins its selection.
LEMMA QuietOrder ==
    ASSUME OrderInv, TypeInv', NEW p \in Runs, NEW r, Steps(p, r),
           UNCHANGED <<db, applied, accounts>>,
           r.st \in {"ensured", "loaded"} => Active(p) /\ r.dir = run[p].dir,
           r.st = "loaded" => Ordered(r)
    PROVE  OrderInv'
  <1>1. \A q \in Runs : run'[q] = IF q = p THEN r ELSE run[q]
    BY RunsTyped DEF OrderInv, Steps
  <1>2. Alone'
    BY <1>1 DEF OrderInv, Alone, Active
  <1>3. \A q \in Runs : run'[q].st = "loaded" => Ordered(run[q])'
    BY <1>1 DEF OrderInv, Ordered
  <1>4. VersionsTellTables'
    BY DEF OrderInv, VersionsTellTables
  <1> QED BY <1>2, <1>3, <1>4 DEF OrderInv

\* A transaction of run p, after which the run goes on as r.
LEMMA CommitOrder ==
    ASSUME OrderInv, TypeInv', NEW p \in Runs, NEW v \in Versions, Commit(p, v),
           NEW r, Steps(p, r), r.st = "ensured" => FALSE,
           r.st = "loaded" => r.dir = run[p].dir /\ r.todo = run[p].todo \ {v}
    PROVE  OrderInv'
  <1>1. \A q \in Runs : run'[q] = IF q = p THEN r ELSE run[q]
    BY RunsTyped DEF OrderInv, Steps
  <1>2. /\ VersionsTellTables'
        /\ run[p].dir = "up" => applied = 1..(v - 1) /\ applied' = applied \cup {v}
        /\ run[p].dir = "down" => applied = 1..v /\ applied' = applied \ {v}
    BY CommitEffect
  <1>3. Active(p) /\ run[p].st = "loaded" /\ Ordered(run[p]) /\ run[p].dir \in {"up", "down"}
    BY RunsTyped DEF OrderInv, Commit, IsNext, Active, RunType
  <1>4. Alone'
    BY <1>1, <1>3 DEF OrderInv, Alone, Active
  <1>5. ASSUME NEW q \in Runs, run'[q].st = "loaded" PROVE Ordered(run[q])'
    <2>1. CASE q = p
      <3>1. run'[q] = r /\ r.dir = run[p].dir /\ r.todo = run[p].todo \ {v}
        BY <1>1, <1>5, <2>1
      <3>2. CASE run[p].dir = "up"
        BY <1>2, <1>3, <3>1, <3>2 DEF Ordered
      <3>3. CASE run[p].dir = "down"
        BY <1>2, <1>3, <3>1, <3>3 DEF Ordered
      <3> QED BY <1>3, <3>2, <3>3
    <2>2. CASE q # p
      <3>1. run'[q] = run[q] /\ run[q].st = "loaded" /\ Ordered(run[q])
        BY <1>1, <1>5, <2>2 DEF OrderInv
      <3>2. run[p].dir = "up" /\ run[q].dir = "up"
        BY <1>3, <2>2, <3>1 DEF OrderInv, Alone, Active
      <3>3. applied \subseteq applied'
        BY <1>2, <3>2
      <3> QED BY <3>1, <3>2, <3>3 DEF Ordered
    <2> QED BY <2>1, <2>2
  <1> QED BY <1>2, <1>4, <1>5 DEF OrderInv

LEMMA OrderInvNext ==
    ASSUME DownsAlone
    PROVE  OrderInv /\ [Next]_vars => OrderInv'
  <1> SUFFICES ASSUME OrderInv, [Next]_vars PROVE OrderInv'
    OBVIOUS
  <1>0. /\ TypeInv /\ TypeInv' /\ run \in [Runs -> RunType]
        /\ applied \subseteq Versions /\ \A p \in Runs : RunOK(run[p]) /\ run[p] \in RunType
    BY TypeInvNext, RunsTyped DEF OrderInv, TypeInv, TypeOK
  <1>1. ASSUME NEW p \in Runs, NEW ask \in Asks, Start(p, ask) PROVE OrderInv'
    <2>1. PICK r \in RunType :
             /\ Steps(p, r) /\ run[p].st = "new"
             /\ r = [run[p] EXCEPT !.st = "ensured", !.ask = ask, !.dir = ask.dir]
      BY <1>0, <1>1, RunSteps
    <2>2. r.st = "ensured" /\ r.dir = ask.dir
      BY <1>0, <2>1 DEF RunType
    <2>3. /\ \A q \in Runs : Active(q) => ask.dir = "up" /\ run[q].dir = "up"
          /\ UNCHANGED <<db, applied, accounts>>
      BY <1>1 DEF Start
    <2>4. \A q \in Runs : run'[q] = IF q = p THEN r ELSE run[q]
      BY <1>0, <2>1 DEF Steps
    <2>5. Alone'
      BY <2>2, <2>3, <2>4 DEF OrderInv, Alone, Active
    <2>6. \A q \in Runs : run'[q].st = "loaded" => Ordered(run[q])'
      BY <2>2, <2>3, <2>4 DEF OrderInv, Ordered
    <2>7. VersionsTellTables'
      BY <2>3 DEF OrderInv, VersionsTellTables
    <2> QED BY <1>0, <2>5, <2>6, <2>7 DEF OrderInv
  <1>2. ASSUME NEW p \in Runs, Load(p) PROVE OrderInv'
    <2>1. PICK r \in RunType :
             /\ Steps(p, r) /\ run[p].st = "ensured"
             /\ r = [run[p] EXCEPT !.st = "loaded",
                       !.todo = Selected(run[p].dir, StepsOf(run[p].ask))]
      BY <1>0, <1>2, RunSteps
    <2>2. /\ r.dir = run[p].dir /\ r.todo = Selected(r.dir, StepsOf(run[p].ask))
          /\ run[p].ask \in Asks
      BY <1>0, <2>1 DEF RunOK, RunType
    <2>3. StepsOf(run[p].ask) \in Nat
      BY <2>2, AsksAssumption DEF StepsOf
    <2>4. Ordered(r)
      BY <1>0, <2>2, <2>3, SelectedOrdered
    <2>5. UNCHANGED <<db, applied, accounts>> /\ Active(p)
      BY <1>2 DEF Load, Active
    <2> QED BY <1>0, <2>1, <2>2, <2>4, <2>5, QuietOrder
  <1>3. ASSUME NEW p \in Runs, NEW v \in Versions, RunMigration(p, v) PROVE OrderInv'
    <2>1. PICK r \in RunType :
             /\ Steps(p, r) /\ run[p].st = "loaded"
             /\ r = [run[p] EXCEPT !.todo = run[p].todo \ {v}, !.done = run[p].done \cup {v}]
      BY <1>0, <1>3, RunSteps
    <2>2. r.st = "loaded" /\ r.dir = run[p].dir /\ r.todo = run[p].todo \ {v}
      BY <1>0, <2>1 DEF RunType
    <2>3. Commit(p, v)
      BY <1>3 DEF RunMigration
    <2> QED BY <1>0, <2>1, <2>2, <2>3, CommitOrder
  <1>4. ASSUME NEW p \in Runs, NEW v \in Versions, RunMigrationUncertain(p, v) PROVE OrderInv'
    <2>1. PICK r \in RunType : Steps(p, r) /\ r = [run[p] EXCEPT !.st = "fatal"]
      BY <1>0, <1>4, RunSteps
    <2>2. r.st = "fatal"
      BY <1>0, <2>1 DEF RunType
    <2>3. Commit(p, v)
      BY <1>4 DEF RunMigrationUncertain
    <2> QED BY <1>0, <2>1, <2>2, <2>3, CommitOrder
  <1>5. ASSUME NEW p \in Runs, NEW v \in Versions,
               Complete(p) \/ Dies(p) \/ RunMigrationFails(p, v)
        PROVE  OrderInv'
    <2>1. PICK r \in RunType :
             /\ Steps(p, r)
             /\ r = [run[p] EXCEPT !.st = "completed"] \/ r = [run[p] EXCEPT !.st = "fatal"]
      BY <1>0, <1>5, RunSteps
    <2>2. r.st \in {"completed", "fatal"}
      BY <1>0, <2>1 DEF RunType
    <2>3. UNCHANGED <<db, applied, accounts>>
      BY <1>5 DEF Complete, Dies, RunMigrationFails
    <2> QED BY <1>0, <2>1, <2>2, <2>3, QuietOrder
  <1>6. CASE Register
    <2>1. UNCHANGED <<db, applied, run>>
      BY <1>6 DEF Register
    <2>2. Alone' /\ VersionsTellTables' /\ \A p \in Runs : run'[p].st = "loaded" => Ordered(run[p])'
      BY <2>1 DEF OrderInv, Alone, Active, VersionsTellTables, Ordered
    <2> QED BY <1>0, <2>2 DEF OrderInv
  <1>7. CASE UNCHANGED vars
    BY <1>0, <1>7 DEF vars, OrderInv, Alone, Active, VersionsTellTables, Ordered
  <1>8. 1 \in Versions
    BY DEF Versions
  <1> QED BY <1>1, <1>2, <1>3, <1>4, <1>5, <1>6, <1>7, <1>8 DEF Next, Step

\* Where nothing overlaps a down run, the version rows tell the truth about the
\* tables after any number of up runs at once, each reading the rows once, and
\* whatever fails between two scripts (main.go:56-75, 189-225).
THEOREM VersionsTellTheTruth ==
    ASSUME DownsAlone PROVE Spec => []VersionsTellTables
  <1>1. OrderInv => VersionsTellTables
    BY DEF OrderInv
  <1>2. OrderInv /\ [Next]_vars => OrderInv'
    BY OrderInvNext
  <1> QED BY <1>1, <1>2, OrderInvInit, PTL DEF Spec

\* From every state of the tables that runs leave behind, the scripts that are
\* missing lead to the latest schema (main.go:67-72, the scripts).
THEOREM UpgradesStayPossible ==
    ASSUME DownsAlone PROVE Spec => []UpgradeStaysPossible
  <1>1. VersionsTellTables => UpgradeStaysPossible
    <2> SUFFICES ASSUME VersionsTellTables PROVE UpgradeStaysPossible
      OBVIOUS
    <2>1. PICK n \in 0..3 : applied = 1..n /\ At(n)
      BY DEF VersionsTellTables, At
    <2> DEFINE upgraded(v, ds) == IF v \in applied THEN ds ELSE UNION {Up(v, d) : d \in ds}
    <2>2. UpgradeStaysPossible <=> upgraded(3, upgraded(2, upgraded(1, {db}))) = {Schema(3)}
      BY DEF UpgradeStaysPossible
    <2>3. \A v, d : v \in applied => upgraded(v, {d}) = {d}
      OBVIOUS
    <2>4. \A v, d, e : v \notin applied /\ Up(v, d) = {e} => upgraded(v, {d}) = {e}
      OBVIOUS
    <2> HIDE DEF upgraded
    <2>5. CASE n = 0
      <3>1. 1 \notin applied /\ 2 \notin applied /\ 3 \notin applied /\ db = Schema(0)
        BY <2>1, <2>5 DEF At
      <3>2. upgraded(1, {db}) = {Schema(1)}
        BY <2>4, <3>1, Upgrades
      <3>3. upgraded(2, {Schema(1)}) = {Schema(2)}
        BY <2>4, <3>1, Upgrades
      <3>4. upgraded(3, {Schema(2)}) = {Schema(3)}
        BY <2>4, <3>1, Upgrades
      <3> QED BY <2>2, <3>2, <3>3, <3>4
    <2>6. CASE n = 1
      <3>1. 1 \in applied /\ 2 \notin applied /\ 3 \notin applied /\ db = Schema(1)
        BY <2>1, <2>6 DEF At
      <3>2. upgraded(1, {db}) = {Schema(1)}
        BY <2>3, <3>1
      <3>3. upgraded(2, {Schema(1)}) = {Schema(2)}
        BY <2>4, <3>1, Upgrades
      <3>4. upgraded(3, {Schema(2)}) = {Schema(3)}
        BY <2>4, <3>1, Upgrades
      <3> QED BY <2>2, <3>2, <3>3, <3>4
    <2>7. CASE n = 2
      <3>1. 1 \in applied /\ 2 \in applied /\ 3 \notin applied
        BY <2>1, <2>7
      <3>2. upgraded(1, {db}) = {db} /\ upgraded(2, {db}) = {db}
        BY <2>3, <3>1
      <3>3. upgraded(3, {db}) = {Schema(3)}
        <4>1. Up(3, db) = {Schema(3)}
          BY <2>1, <2>7, Upgrades DEF At
        <4> QED BY <2>4, <3>1, <4>1
      <3> QED BY <2>2, <3>2, <3>3
    <2>8. CASE n = 3
      <3>1. 1 \in applied /\ 2 \in applied /\ 3 \in applied /\ db = Schema(3)
        BY <2>1, <2>8 DEF At
      <3>2. upgraded(1, {db}) = {db} /\ upgraded(2, {db}) = {db} /\ upgraded(3, {db}) = {db}
        BY <2>3, <3>1
      <3> QED BY <2>2, <3>1, <3>2
    <2>9. n = 0 \/ n = 1 \/ n = 2 \/ n = 3
      OBVIOUS
    <2> QED BY <2>5, <2>6, <2>7, <2>8, <2>9
  <1> QED BY <1>1, VersionsTellTheTruth, PTL

----------------------------------------------------------------------------
(* Accounts.                                                               *)

\* The table people register in is there only with the row of version 2, and so
\* are they; this needs no order among the runs.
TableInv ==
    /\ TypeInv
    /\ db.users = "login" => 2 \in applied
    /\ accounts => 2 \in applied

\* A script that leaves the table of version 2 makes it or finds it.
LEMMA ScriptUsers ==
    ASSUME db \in Dbs, NEW dir, NEW v \in Versions, NEW d \in Script(dir, v, db),
           d.users = "login"
    PROVE  IF dir = "up" THEN v = 2 \/ db.users = "login" ELSE v = 3 /\ db.users = "login"
  <1>1. ASSUME d \in Up001(db) \/ d \in Up003(db) \/ d \in Down003(db)
        PROVE  db.users = "login"
    BY <1>1 DEF Up001, Up003, Down003, Dbs
  <1>2. d \notin Down001(db)
    BY NoneAssumption DEF Down001, Empty
  <1>3. d \notin Down002(db)
    BY DEF Down002, Dbs
  <1>4. v = 1 \/ v = 2 \/ v = 3
    BY VersionNumber
  <1> QED BY <1>1, <1>2, <1>3, <1>4 DEF Script, Up, Down

LEMMA TableInvNext == TableInv /\ [Next]_vars => TableInv'
  <1> SUFFICES ASSUME TableInv, [Next]_vars PROVE TableInv'
    OBVIOUS
  <1>0. TypeInv' /\ run \in [Runs -> RunType] /\ db \in Dbs
    BY TypeInvNext, RunsTyped DEF TableInv, TypeInv, TypeOK
  <1>1. ASSUME UNCHANGED <<db, applied, accounts>> PROVE TableInv'
    BY <1>0, <1>1 DEF TableInv
  <1>2. ASSUME NEW p \in Runs, NEW v \in Versions, Commit(p, v) PROVE TableInv'
    <2>1. /\ db' \in Script(run[p].dir, v, db)
          /\ applied' = IF run[p].dir = "up" THEN applied \cup {v} ELSE applied \ {v}
          /\ accounts' => accounts /\ v # 2
      BY <1>2 DEF Commit, DropsUsers
    <2>2. ASSUME db'.users = "login" PROVE 2 \in applied'
      <3>1. IF run[p].dir = "up" THEN v = 2 \/ db.users = "login" ELSE v = 3 /\ db.users = "login"
        BY <1>0, <2>1, <2>2, ScriptUsers
      <3> QED BY <2>1, <3>1 DEF TableInv
    <2>3. ASSUME accounts' PROVE 2 \in applied'
      BY <2>1, <2>3 DEF TableInv
    <2> QED BY <1>0, <2>2, <2>3 DEF TableInv
  <1>3. CASE Register
    <2>1. UNCHANGED <<db, applied>> /\ db.users = "login"
      BY <1>3 DEF Register
    <2> QED BY <1>0, <2>1 DEF TableInv
  <1>4. CASE UNCHANGED vars
    BY <1>1, <1>4 DEF vars
  <1>5. ASSUME NEW p \in Runs, NEW v \in Versions,
               \/ (\E ask \in Asks : Start(p, ask)) \/ Load(p) \/ Complete(p) \/ Dies(p)
               \/ RunMigrationFails(p, v)
        PROVE  TableInv'
    BY <1>1, <1>5 DEF Start, Load, Complete, Dies, RunMigrationFails
  <1>6. 1 \in Versions
    BY VersionNumber
  <1> QED BY <1>2, <1>3, <1>4, <1>5, <1>6 DEF Next, Step, RunMigration, RunMigrationUncertain

\* An up run never takes the accounts away, whatever overlaps it, though 002 drops the table they are
\* in and several runs may have selected it: the row of version 2 is there since
\* somebody could register (main.go:61, 209, 214).
THEOREM UpsKeepAccounts == Spec => AccountsSurviveUps
  <1>1. ASSUME TableInv, [Next]_vars, accounts, ~accounts'
        PROVE  \E p \in Runs : run[p] # run'[p] /\ run[p].dir = "down"
    <2>1. PICK p \in Runs, v \in Versions :
             Commit(p, v) /\ (RunMigration(p, v) \/ RunMigrationUncertain(p, v))
      BY <1>1 DEF Next, Step, vars, Start, Load, Complete, Dies, Register, RunMigration,
                  RunMigrationFails, RunMigrationUncertain
    <2>2. DropsUsers(run[p].dir, v) /\ 2 \in applied /\ run[p] \in RunType
      BY <1>1, <2>1, RunsTyped DEF Commit, TableInv
    <2>3. run[p].dir = "down"
      <3> SUFFICES ASSUME run[p].dir = "up" PROVE FALSE
        BY <2>2 DEF RunType
      <3>1. v = 2
        BY <2>2 DEF DropsUsers
      <3>2. v \notin applied
        BY <2>1 DEF Commit, Records
      <3> QED BY <2>2, <3>1, <3>2
    <2>4. run[p] # run'[p]
      <3>1. run \in [Runs -> RunType] /\ TypeInv
        BY <1>1, RunsTyped DEF TableInv
      <3>2. CASE RunMigration(p, v)
        <4>1. PICK r \in RunType : /\ Steps(p, r) /\ v \in run[p].todo
                                   /\ r = [run[p] EXCEPT !.todo = run[p].todo \ {v},
                                                         !.done = run[p].done \cup {v}]
          BY <3>1, <3>2, RunSteps
        <4>2. run'[p] = r /\ v \notin r.todo
          BY <2>2, <3>1, <4>1 DEF Steps, RunType
        <4> QED BY <4>1, <4>2
      <3>3. CASE RunMigrationUncertain(p, v)
        <4>1. PICK r \in RunType : /\ Steps(p, r) /\ Active(p)
                                   /\ r = [run[p] EXCEPT !.st = "fatal"]
          BY <3>1, <3>3, RunSteps
        <4>2. run'[p] = r /\ r.st = "fatal"
          BY <2>2, <3>1, <4>1 DEF Steps, RunType
        <4> QED BY <4>1, <4>2 DEF Active
      <3> QED BY <2>1, <3>2, <3>3
    <2> QED BY <2>3, <2>4
  <1>2. TableInv /\ [Next]_vars =>
           [accounts /\ ~accounts' => \E p \in Runs : run[p] # run'[p] /\ run[p].dir = "down"]_vars
    BY <1>1
  <1>3. Init => TableInv
    BY TypeInvInit, NoneAssumption DEF Init, TableInv, Empty
  <1> QED BY <1>2, <1>3, TableInvNext, PTL DEF Spec, AccountsSurviveUps
=============================================================================
