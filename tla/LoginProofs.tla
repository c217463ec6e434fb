---------------------------- MODULE LoginProofs ----------------------------
(* Proofs about Login, for any calls, names, passwords, times and faults.  *)
EXTENDS Login, FiniteSetTheorems, FunctionTheorems, TLAPS

----------------------------------------------------------------------------
(* The users table.                                                        *)

\* Names and ids are unique and the next id is free.
RowsOK ==
    /\ IsFiniteSet(users) /\ Unique(users)
    /\ \A u \in users : u.id \in 1..Cardinality(users)

RowType == [id : Ids, name : Names, hash : Passwords \cup {None}]

\* Somebody's row.
Row(id, name) == \E u \in users : u.id = id /\ u.name = name

LEMMA InsertEffect ==
    ASSUME RowsOK, NEW name, NEW hash, Insert(name, hash)
    PROVE  /\ RowsOK' /\ Cardinality(users) \in Nat
           /\ Cardinality(users') = Cardinality(users) + 1
           /\ \A u \in users : u.name # name
  <1> DEFINE row == [id |-> NewId, name |-> name, hash |-> hash]
             n == Cardinality(users)
  <1>1. n \in Nat /\ IsFiniteSet(users) /\ NewId = n + 1
    BY FS_CardinalityType DEF RowsOK, NewId
  <1>2. users' = users \cup {row} /\ row.id = n + 1 /\ row.name = name
    BY <1>1 DEF Insert
  <1>3. \A u \in users : u.name # name /\ u.id \in 1..n
    BY DEF Insert, RowsNamed, RowsOK
  <1>4. \A u \in users : u.id # n + 1
    BY <1>1, <1>3
  <1> HIDE DEF row
  <1>5. row \notin users
    BY <1>2, <1>4
  <1>6. IsFiniteSet(users') /\ Cardinality(users') = n + 1
    BY <1>1, <1>2, <1>5, FS_AddElement
  <1> HIDE DEF n
  <1>7. \A u \in users' : u.id \in 1..(n + 1)
    BY <1>1, <1>2, <1>3
  <1>8. Unique(users')
    BY <1>2, <1>3, <1>4 DEF RowsOK, Unique
  <1> QED BY <1>1, <1>3, <1>6, <1>7, <1>8 DEF RowsOK, Unique, n

\* UPDATE touches nothing but the hash of the row with the id.
LEMMA UpdateEffect ==
    ASSUME RowsOK, users \subseteq RowType, NEW id, NEW hash, UpdatePassword(id, hash)
    PROVE  /\ RowsOK' /\ Cardinality(users') = Cardinality(users)
           /\ \A u \in users : \E v \in users' :
                 /\ v.id = u.id /\ v.name = u.name
                 /\ v.hash = IF u.id = id THEN hash ELSE u.hash
           /\ \A v \in users' : \E u \in users :
                 /\ v.id = u.id /\ v.name = u.name
                 /\ v.hash = IF u.id = id THEN hash ELSE u.hash
                 /\ v = [u EXCEPT !.hash = hash] \/ v = u
  <1> DEFINE f == [u \in users |-> IF u.id = id THEN [u EXCEPT !.hash = hash] ELSE u]
  <1>1. \A u \in users : u = [id |-> u.id, name |-> u.name, hash |-> u.hash]
    BY DEF RowType
  <1>2. \A u \in users : /\ f[u].id = u.id /\ f[u].name = u.name
                         /\ f[u].hash = IF u.id = id THEN hash ELSE u.hash
                         /\ f[u] = [u EXCEPT !.hash = hash] \/ f[u] = u
    BY <1>1
  <1>3. users' = {f[u] : u \in users}
    BY DEF UpdatePassword
  <1> HIDE DEF f
  <1>4. ASSUME NEW u \in users, NEW v \in users, f[u].id = f[v].id \/ f[u].name = f[v].name
        PROVE  u = v
    <2>1. u.id = v.id \/ u.name = v.name
      BY <1>2, <1>4
    <2> QED BY <2>1 DEF RowsOK, Unique
  <1>5. f \in Bijection(users, users')
    <2>1. f \in [users -> users']
      BY <1>3 DEF f
    <2>2. \A v \in users' : \E u \in users : f[u] = v
      BY <1>3
    <2> QED BY <1>4, <2>1, <2>2 DEF Bijection, Injection, Surjection, IsInjective
  <1>6. IsFiniteSet(users') /\ Cardinality(users') = Cardinality(users)
    BY <1>5, FS_Bijection DEF RowsOK, ExistsBijection
  <1>7. ASSUME NEW v \in users'
        PROVE  \E u \in users : v = f[u]
    BY <1>3
  <1>8. Unique(users')
    <2> SUFFICES ASSUME NEW v \in users', NEW w \in users', v.name = w.name \/ v.id = w.id
                 PROVE  v = w
      BY DEF Unique
    <2>1. PICK u \in users : v = f[u]
      BY <1>7
    <2>2. PICK z \in users : w = f[z]
      BY <1>7
    <2>3. u = z
      BY <1>4, <2>1, <2>2
    <2> QED BY <2>1, <2>2, <2>3
  <1>9. ASSUME NEW v \in users' PROVE v.id \in 1..Cardinality(users')
    <2>1. PICK u \in users : v = f[u]
      BY <1>7
    <2>2. v.id = u.id
      BY <1>2, <2>1
    <2> QED BY <1>6, <2>2 DEF RowsOK
  <1>10. RowsOK'
    BY <1>6, <1>8, <1>9 DEF RowsOK, Unique
  <1>11. ASSUME NEW u \in users
         PROVE  \E v \in users' : /\ v.id = u.id /\ v.name = u.name
                                  /\ v.hash = IF u.id = id THEN hash ELSE u.hash
    <2>1. f[u] \in users'
      BY <1>3
    <2> QED BY <1>2, <2>1
  <1>12. ASSUME NEW v \in users'
         PROVE  \E u \in users : /\ v.id = u.id /\ v.name = u.name
                                 /\ v.hash = IF u.id = id THEN hash ELSE u.hash
                                 /\ v = [u EXCEPT !.hash = hash] \/ v = u
    <2>1. PICK u \in users : v = f[u]
      BY <1>7
    <2> QED BY <1>2, <2>1
  <1> QED BY <1>6, <1>10, <1>11, <1>12

----------------------------------------------------------------------------
(* What calls know.                                                        *)

LgType == [st : {"new", "absent", "unset", "authed"} \cup Answered,
           name : Names \cup {None}, pw : Passwords \cup {None},
           id : Ids \cup {None}, token : Tokens \cup {None}, wrote : BOOLEAN]
MeType == [st : {"new", "parsed", "ok", "unauthorized"},
           token : Tokens \cup {None}, why : {None, "late", "failed"},
           name : Names \cup {None}]

\* A login call in state r: the row it looked up or wrote is in the table.
CallOK(r) ==
    /\ r.st \in {"new", "absent", "unset", "refused"} => ~r.wrote
    /\ r.st \in {"absent", "unset", "authed", "ok"} => r.name \in Names /\ r.pw \in Passwords
    /\ r.st \in {"unset", "authed", "ok"} => r.id \in Ids /\ Row(r.id, r.name)
    /\ r.st \in {"authed", "ok"} =>
          r.token \in Tokens /\ r.token.sub = r.id /\ r.token.name = r.name
    /\ r.st = "ok" => r.id \in events

\* A profile call in state r: the row its token names is in the table.
MeOK(r) ==
    /\ r.st \in {"parsed", "ok"} =>
          /\ r.token \in Tokens /\ Row(r.token.sub, r.token.name)
          /\ r.why = None
    /\ r.st = "unauthorized" => r.why # None
    /\ r.st = "ok" => r.name = r.token.name

CallsOK == \A c \in Calls : CallOK(lg[c])
MesOK == \A m \in Mes : MeOK(me[m])

\* A call inserts at most one row.
Writers == {c \in Calls : lg[c].wrote}
Budget == Cardinality(users) <= Cardinality(Legacy) + Cardinality(Writers)

LoginInv == TypeOK /\ RowsOK /\ CallsOK /\ MesOK /\ Budget

LEMMA Counts ==
    /\ Cardinality(Legacy) \in Nat /\ Cardinality(Calls) \in Nat
    /\ IsFiniteSet(Writers) /\ Cardinality(Writers) \in Nat
    /\ Cardinality(Writers) <= Cardinality(Calls)
    /\ IsFiniteSet(Writers') /\ Cardinality(Writers') \in Nat
    /\ RowsOK => Cardinality(users) \in Nat
  <1>1. Writers \in SUBSET Calls /\ Writers' \in SUBSET Calls
    BY DEF Writers
  <1>2. /\ IsFiniteSet(Writers) /\ IsFiniteSet(Writers')
        /\ Cardinality(Writers) <= Cardinality(Calls)
    BY <1>1, CallsAssumption, FS_Subset
  <1> QED BY <1>2, CallsAssumption, NamesAssumption, FS_CardinalityType DEF RowsOK

\* The rows that are there at first are those of the legacy names.
LEMMA LoginInvInit == Init => LoginInv
  <1> SUFFICES ASSUME Init PROVE LoginInv
    OBVIOUS
  <1> DEFINE f == [u \in users |-> u.name]
             l == Cardinality(Legacy)
  <1>1. /\ users \subseteq [id : 1..l, name : Legacy, hash : {None}]
        /\ Unique(users) /\ {u.name : u \in users} = Legacy
    BY DEF Init
  <1>2. f \in Bijection(users, Legacy)
    <2>1. f \in [users -> Legacy]
      BY <1>1
    <2>2. \A u, v \in users : f[u] = f[v] => u = v
      BY <1>1 DEF Unique
    <2>3. \A n \in Legacy : \E u \in users : f[u] = n
      BY <1>1
    <2> HIDE DEF f
    <2> QED BY <2>1, <2>2, <2>3 DEF Bijection, Injection, Surjection, IsInjective
  <1>3. ExistsBijection(Legacy, users)
    <2>1. ExistsBijection(users, Legacy)
      BY <1>2 DEF ExistsBijection
    <2> QED BY <2>1, Fun_ExistsBijSymmetric
  <1>4. IsFiniteSet(users) /\ Cardinality(users) = l /\ l \in Nat
    BY <1>3, NamesAssumption, FS_Bijection, Counts
  <1> HIDE DEF l
  <1>5. \A u \in users : u.id \in 1..Cardinality(users)
    BY <1>1, <1>4
  <1>6. RowsOK
    BY <1>1, <1>4, <1>5 DEF RowsOK
  <1>7. Budget
    BY <1>4, Counts DEF Budget, l
  <1>8. CallsOK
    BY DEF Init, CallsOK, CallOK
  <1>9. MesOK
    BY DEF Init, MesOK, MeOK
  <1>10. TypeOK
    <2>1. 1..l \subseteq Ids
      BY <1>4, Counts DEF Ids, l
    <2>2. users \subseteq [id : Ids, name : Names, hash : Passwords \cup {None}]
      BY <1>1, <2>1, NamesAssumption
    <2> QED BY <2>2, BoundsAssumption DEF Init, TypeOK, Answered
  <1> QED BY <1>6, <1>7, <1>8, <1>9, <1>10 DEF LoginInv

\* Rows and events are never taken back, so what a call knows stays true.
LEMMA CallStays ==
    ASSUME \A id, name : Row(id, name) => Row(id, name)', events \subseteq events', NEW r
    PROVE  /\ CallOK(r) => CallOK(r)'
           /\ MeOK(r) => MeOK(r)'
  BY DEF CallOK, MeOK, Ids, Tokens

\* A step of call c, whatever it does to the table.
LEMMA CallStep ==
    ASSUME LoginInv, NEW c \in Calls, NEW r \in LgType, lg' = [lg EXCEPT ![c] = r],
           UNCHANGED <<me, now>>, faults' \in 0..MaxFaults,
           users' \subseteq RowType, RowsOK', Budget',
           \A id, name : Row(id, name) => Row(id, name)',
           events \subseteq events', events' \subseteq Ids, CallOK(r)'
    PROVE  LoginInv'
  <1>1. lg \in [Calls -> LgType]
    BY DEF LoginInv, TypeOK, LgType
  <1>2. lg' \in [Calls -> LgType] /\ lg'[c] = r /\ \A d \in Calls \ {c} : lg'[d] = lg[d]
    BY <1>1
  <1>3. TypeOK'
    BY <1>2 DEF LoginInv, TypeOK, LgType, RowType, Ids, Tokens, Answered
  <1>4. CallsOK'
    <2> SUFFICES ASSUME NEW d \in Calls PROVE CallOK(lg[d])'
      BY DEF CallsOK
    <2>1. CASE d = c
      BY <1>2, <2>1
    <2>2. CASE d # c
      <3>1. PICK x : x = lg[d]
        OBVIOUS
      <3>2. CallOK(x)'
        BY <3>1, CallStays DEF LoginInv, CallsOK
      <3> QED BY <1>2, <2>2, <3>1, <3>2
    <2> QED BY <2>1, <2>2
  <1>5. MesOK'
    <2> SUFFICES ASSUME NEW m \in Mes PROVE MeOK(me[m])'
      BY DEF MesOK
    <2>1. PICK x : x = me[m]
      OBVIOUS
    <2>2. MeOK(x)'
      BY <2>1, CallStays DEF LoginInv, MesOK
    <2> QED BY <2>1, <2>2
  <1> QED BY <1>3, <1>4, <1>5 DEF LoginInv

\* A step that leaves the table alone.
LEMMA QuietStep ==
    ASSUME LoginInv, NEW c \in Calls, NEW r \in LgType, lg' = [lg EXCEPT ![c] = r],
           UNCHANGED <<users, me, now>>, faults' \in 0..MaxFaults,
           lg[c].wrote => r.wrote,
           events \subseteq events', events' \subseteq Ids, CallOK(r)'
    PROVE  LoginInv'
  <1>1. users' \subseteq RowType /\ RowsOK' /\ \A id, name : Row(id, name) => Row(id, name)'
    BY DEF LoginInv, TypeOK, RowType, RowsOK, Row, Unique, Ids
  <1>2. Writers \in SUBSET Writers'
    BY DEF LoginInv, TypeOK, Writers
  <1>3. Cardinality(Writers) <= Cardinality(Writers')
    BY <1>2, Counts, FS_Subset
  <1>4. Budget'
    <2>1. Cardinality(users) <= Cardinality(Legacy) + Cardinality(Writers)
      BY DEF LoginInv, Budget
    <2>2. Cardinality(users) \in Nat
      BY Counts DEF LoginInv
    <2>3. Cardinality(users) <= Cardinality(Legacy) + Cardinality(Writers')
      BY <1>3, <2>1, <2>2, Counts
    <2> QED BY <2>3 DEF Budget
  <1> QED BY <1>1, <1>4, CallStep

\* A call inserts its row.
LEMMA InsertStep ==
    ASSUME LoginInv, NEW c \in Calls, lg[c].st = "absent",
           Hashes(lg[c].pw), Insert(lg[c].name, Seen[lg[c].pw])
    PROVE  /\ NewId \in Ids
           /\ users' \subseteq RowType /\ RowsOK'
           /\ \E u \in users' : u.id = NewId /\ u.name = lg[c].name
           /\ \A id, name : Row(id, name) => Row(id, name)'
           /\ \A r : r.wrote /\ lg' = [lg EXCEPT ![c] = r] => Budget'
  <1> DEFINE row == [id |-> NewId, name |-> lg[c].name, hash |-> Seen[lg[c].pw]]
  <1>1. /\ RowsOK /\ CallOK(lg[c]) /\ Budget /\ lg \in [Calls -> LgType]
        /\ users \subseteq RowType
    BY DEF LoginInv, CallsOK, TypeOK, LgType, RowType
  <1>2. lg[c].name \in Names /\ lg[c].pw \in Passwords /\ ~lg[c].wrote
    BY <1>1 DEF CallOK
  <1>3. Seen[lg[c].pw] \in Passwords
    BY <1>2, SeenAssumption
  <1>4. /\ RowsOK' /\ Cardinality(users) \in Nat
        /\ Cardinality(users') = Cardinality(users) + 1
    BY <1>1, InsertEffect
  <1>5. c \notin Writers
    BY <1>2 DEF Writers
  <1>6. Cardinality(Writers) < Cardinality(Calls)
    <2>1. Writers \cup {c} \in SUBSET Calls
      BY DEF Writers
    <2>2. Cardinality(Writers \cup {c}) = Cardinality(Writers) + 1
      BY <1>5, Counts, FS_AddElement
    <2>3. Cardinality(Writers \cup {c}) <= Cardinality(Calls)
      BY <2>1, CallsAssumption, FS_Subset
    <2> QED BY <2>2, <2>3, Counts
  <1>7. NewId \in Ids
    <2>1. Cardinality(users) <= Cardinality(Legacy) + Cardinality(Writers)
      BY <1>1 DEF Budget
    <2> QED BY <1>4, <1>6, <2>1, Counts DEF NewId, Ids
  <1>8. row \in RowType /\ users' = users \cup {row}
    BY <1>2, <1>3, <1>7 DEF Insert, RowType
  <1>9. \A id, name : Row(id, name) => Row(id, name)'
    BY <1>8 DEF Row
  <1>10. \E u \in users' : u.id = NewId /\ u.name = lg[c].name
    BY <1>8
  <1>11. ASSUME NEW r, r.wrote, lg' = [lg EXCEPT ![c] = r] PROVE Budget'
    <2>1. Writers' = Writers \cup {c}
      BY <1>1, <1>11 DEF Writers
    <2>2. Cardinality(Writers') = Cardinality(Writers) + 1
      BY <1>5, <2>1, Counts, FS_AddElement
    <2>3. Cardinality(users) <= Cardinality(Legacy) + Cardinality(Writers)
      BY <1>1 DEF Budget
    <2>4. Cardinality(users') <= Cardinality(Legacy) + Cardinality(Writers')
      BY <1>4, <2>2, <2>3, Counts
    <2> QED BY <2>4 DEF Budget
  <1> QED BY <1>1, <1>4, <1>7, <1>8, <1>9, <1>10, <1>11

\* A call sets the password of its row.
LEMMA UpdateStep ==
    ASSUME LoginInv, NEW c \in Calls, lg[c].st = "unset",
           UpdatePassword(lg[c].id, Seen[lg[c].pw])
    PROVE  /\ users' \subseteq RowType /\ RowsOK'
           /\ \A id, name : Row(id, name) => Row(id, name)'
           /\ \A r : r.wrote /\ lg' = [lg EXCEPT ![c] = r] => Budget'
  <1>1. /\ RowsOK /\ CallOK(lg[c]) /\ Budget /\ lg \in [Calls -> LgType]
        /\ users \subseteq RowType
    BY DEF LoginInv, CallsOK, TypeOK, LgType, RowType
  <1>2. Seen[lg[c].pw] \in Passwords
    BY <1>1, SeenAssumption DEF CallOK
  <1> DEFINE hash == Seen[lg[c].pw]
  <1>3. /\ RowsOK' /\ Cardinality(users') = Cardinality(users)
        /\ \A u \in users : \E v \in users' : v.id = u.id /\ v.name = u.name
        /\ \A v \in users' : \E u \in users : v = [u EXCEPT !.hash = hash] \/ v = u
    <2>1. /\ RowsOK' /\ Cardinality(users') = Cardinality(users)
          /\ \A u \in users : \E v \in users' :
                 /\ v.id = u.id /\ v.name = u.name
                 /\ v.hash = IF u.id = lg[c].id THEN hash ELSE u.hash
          /\ \A v \in users' : \E u \in users :
                 /\ v.id = u.id /\ v.name = u.name
                 /\ v.hash = IF u.id = lg[c].id THEN hash ELSE u.hash
                 /\ v = [u EXCEPT !.hash = hash] \/ v = u
      BY <1>1, UpdateEffect
    <2> QED BY <2>1
  <1>4. \A u \in RowType : [u EXCEPT !.hash = hash] \in RowType
    BY <1>2 DEF RowType
  <1>5. users' \subseteq RowType
    BY <1>1, <1>3, <1>4
  <1>6. \A id, name : Row(id, name) => Row(id, name)'
    BY <1>3 DEF Row
  <1>7. ASSUME NEW r, r.wrote, lg' = [lg EXCEPT ![c] = r] PROVE Budget'
    <2>1. Writers \in SUBSET Writers'
      BY <1>1, <1>7 DEF Writers
    <2>2. Cardinality(Writers) <= Cardinality(Writers')
      BY <2>1, Counts, FS_Subset
    <2>3. Cardinality(users) <= Cardinality(Legacy) + Cardinality(Writers)
      BY <1>1 DEF Budget
    <2>4. Cardinality(users') <= Cardinality(Legacy) + Cardinality(Writers')
      BY <1>1, <1>3, <2>2, <2>3, Counts
    <2> QED BY <2>4 DEF Budget
  <1> QED BY <1>3, <1>5, <1>6, <1>7

\* A profile call's step.
LEMMA MeStep ==
    ASSUME LoginInv, NEW m \in Mes, NEW r \in MeType, me' = [me EXCEPT ![m] = r],
           UNCHANGED <<users, lg, events, now>>, faults' \in 0..MaxFaults, MeOK(r)
    PROVE  LoginInv'
  <1>1. me \in [Mes -> MeType] /\ \A x \in Mes : MeOK(me[x])
    BY DEF LoginInv, TypeOK, MeType, MesOK
  <1>2. me' \in [Mes -> MeType] /\ \A x \in Mes : me'[x] = IF x = m THEN r ELSE me[x]
    BY <1>1
  <1>3. TypeOK'
    BY <1>2 DEF LoginInv, TypeOK, MeType, Ids, Tokens, Answered
  <1>4. \A id, name : Row(id, name) => Row(id, name)'
    BY DEF Row
  <1>5. CallsOK'
    BY <1>4 DEF LoginInv, CallsOK, CallOK, Ids, Tokens
  <1>6. MesOK'
    BY <1>1, <1>2, <1>4 DEF MesOK, MeOK, Ids, Tokens
  <1>7. RowsOK' /\ Budget'
    BY DEF LoginInv, RowsOK, Unique, Budget, Writers
  <1> QED BY <1>3, <1>5, <1>6, <1>7 DEF LoginInv

LEMMA LoginInvNext == LoginInv /\ [Next]_vars => LoginInv'
  <1> SUFFICES ASSUME LoginInv, [Next]_vars PROVE LoginInv'
    OBVIOUS
  <1>0. /\ lg \in [Calls -> LgType] /\ me \in [Mes -> MeType] /\ users \subseteq RowType
        /\ events \subseteq Ids /\ now \in Nat /\ faults \in 0..MaxFaults
        /\ \A c \in Calls : CallOK(lg[c])
        /\ Fault => faults' \in 0..MaxFaults
    BY BoundsAssumption DEF LoginInv, TypeOK, LgType, MeType, RowType, CallsOK, Fault
  <1>1. \A id \in Ids, n \in Names : Token(id, n) \in Tokens
    BY <1>0, BoundsAssumption DEF Token, Tokens
  <1>2. ASSUME NEW c \in Calls, NEW n \in Names, NEW p \in Passwords, Lookup(c, n, p)
        PROVE  LoginInv'
    <2> DEFINE asked == [lg[c] EXCEPT !.name = n, !.pw = p]
    <2>1. /\ lg[c] \in LgType /\ ~lg[c].wrote /\ lg[c].st = "new"
          /\ UNCHANGED <<users, me, events, now, faults>>
      BY <1>0, <1>2 DEF Lookup, CallOK
    <2>2. PICK r : /\ lg' = [lg EXCEPT ![c] = r]
                   /\ \/ r = [asked EXCEPT !.st = "absent"]
                      \/ \E u \in RowsNamed(n) :
                            \/ r = [asked EXCEPT !.st = "unset", !.id = u.id]
                            \/ r = [asked EXCEPT !.st = "authed", !.id = u.id,
                                                 !.token = Token(u.id, n)]
                            \/ r = [asked EXCEPT !.st = "refused"]
      BY <1>2 DEF Lookup
    <2>3. r \in LgType /\ ~r.wrote /\ CallOK(r)
      <3>1. CASE r = [asked EXCEPT !.st = "absent"] \/ r = [asked EXCEPT !.st = "refused"]
        BY <2>1, <3>1 DEF LgType, CallOK, Answered
      <3>2. ASSUME NEW u \in RowsNamed(n),
                   \/ r = [asked EXCEPT !.st = "unset", !.id = u.id]
                   \/ r = [asked EXCEPT !.st = "authed", !.id = u.id, !.token = Token(u.id, n)]
            PROVE  r \in LgType /\ ~r.wrote /\ CallOK(r)
        <4>1. u \in users /\ u.id \in Ids /\ u.name = n
          BY <1>0 DEF RowsNamed, RowType
        <4>2. Row(u.id, n) /\ Token(u.id, n) \in Tokens
          BY <1>1, <4>1 DEF Row
        <4>3. Token(u.id, n).sub = u.id /\ Token(u.id, n).name = n
          BY DEF Token
        <4>4. CASE r = [asked EXCEPT !.st = "unset", !.id = u.id]
          BY <2>1, <4>1, <4>2, <4>4 DEF LgType, CallOK, Answered
        <4>5. CASE r = [asked EXCEPT !.st = "authed", !.id = u.id, !.token = Token(u.id, n)]
          BY <2>1, <4>1, <4>2, <4>3, <4>5 DEF LgType, CallOK, Answered
        <4> QED BY <3>2, <4>4, <4>5
      <3> QED BY <2>2, <3>1, <3>2
    <2>4. CallOK(r)'
      BY <2>1, <2>3 DEF CallOK, Row, Ids, Tokens
    <2> QED BY <1>0, <2>1, <2>2, <2>3, <2>4, QuietStep
  <1>3. ASSUME NEW c \in Calls, To(c, "error"), UNCHANGED <<users, me, events, now>>,
               faults' \in 0..MaxFaults
        PROVE  LoginInv'
    <2>1. PICK r : r = [lg[c] EXCEPT !.st = "error"]
      OBVIOUS
    <2>2. r \in LgType /\ lg' = [lg EXCEPT ![c] = r] /\ r.st = "error" /\ r.wrote = lg[c].wrote
      BY <1>0, <1>3, <2>1 DEF To, LgType, Answered
    <2>3. CallOK(r)'
      BY <2>2 DEF CallOK
    <2> QED BY <1>0, <1>3, <2>2, <2>3, QuietStep
  <1>4. ASSUME NEW c \in Calls, HashFails(c) \/ CreateConflicts(c) \/ LoginFails(c)
        PROVE  LoginInv'
    BY <1>0, <1>3, <1>4 DEF HashFails, CreateConflicts, LoginFails
  <1>5. ASSUME NEW c \in Calls, Create(c) PROVE LoginInv'
    <2>1. /\ lg[c].st = "absent" /\ Hashes(lg[c].pw) /\ Insert(lg[c].name, Seen[lg[c].pw])
          /\ Authed(c, NewId, TRUE) /\ UNCHANGED <<me, events, now, faults>>
      BY <1>5 DEF Create
    <2>2. /\ NewId \in Ids /\ users' \subseteq RowType /\ RowsOK'
          /\ \E u \in users' : u.id = NewId /\ u.name = lg[c].name
          /\ \A id, name : Row(id, name) => Row(id, name)'
          /\ \A r : r.wrote /\ lg' = [lg EXCEPT ![c] = r] => Budget'
      BY <2>1, InsertStep
    <2>3. lg[c] \in LgType /\ lg[c].name \in Names /\ lg[c].pw \in Passwords
      BY <1>0, <2>1 DEF CallOK
    <2>4. PICK r : r = [lg[c] EXCEPT !.st = "authed", !.id = NewId, !.wrote = TRUE,
                                     !.token = Token(NewId, lg[c].name)]
      OBVIOUS
    <2>5. /\ r \in LgType /\ r.wrote /\ r.st = "authed" /\ r.id = NewId /\ r.name = lg[c].name
          /\ r.pw = lg[c].pw /\ r.token = Token(NewId, lg[c].name)
      BY <1>1, <2>2, <2>3, <2>4 DEF LgType, Answered
    <2>6. lg' = [lg EXCEPT ![c] = r]
      BY <1>0, <2>1, <2>4 DEF Authed, LgType
    <2>7. /\ r.token \in Tokens /\ r.token.sub = NewId /\ r.token.name = lg[c].name
      BY <1>1, <2>2, <2>3, <2>5 DEF Token
    <2>8. Row(r.id, r.name)'
      BY <2>2, <2>5 DEF Row
    <2>9. CallOK(r)'
      BY <2>2, <2>3, <2>5, <2>7, <2>8 DEF CallOK, Ids, Tokens
    <2> QED BY <1>0, <2>1, <2>2, <2>5, <2>6, <2>9, CallStep
  <1>6. ASSUME NEW c \in Calls, SetPassword(c) PROVE LoginInv'
    <2>1. /\ lg[c].st = "unset" /\ UpdatePassword(lg[c].id, Seen[lg[c].pw])
          /\ Authed(c, lg[c].id, TRUE) /\ UNCHANGED <<me, events, now, faults>>
      BY <1>6 DEF SetPassword
    <2>2. /\ users' \subseteq RowType /\ RowsOK'
          /\ \A id, name : Row(id, name) => Row(id, name)'
          /\ \A r : r.wrote /\ lg' = [lg EXCEPT ![c] = r] => Budget'
      BY <2>1, UpdateStep
    <2>3. /\ lg[c] \in LgType /\ lg[c].name \in Names /\ lg[c].pw \in Passwords
          /\ lg[c].id \in Ids /\ Row(lg[c].id, lg[c].name)
      BY <1>0, <2>1 DEF CallOK
    <2>4. PICK r : r = [lg[c] EXCEPT !.st = "authed", !.id = lg[c].id, !.wrote = TRUE,
                                     !.token = Token(lg[c].id, lg[c].name)]
      OBVIOUS
    <2>5. /\ r \in LgType /\ r.wrote /\ r.st = "authed" /\ r.id = lg[c].id
          /\ r.name = lg[c].name /\ r.pw = lg[c].pw /\ r.token = Token(lg[c].id, lg[c].name)
      BY <1>1, <2>3, <2>4 DEF LgType, Answered
    <2>6. lg' = [lg EXCEPT ![c] = r]
      BY <1>0, <2>1, <2>4 DEF Authed, LgType
    <2>7. /\ r.token \in Tokens /\ r.token.sub = r.id /\ r.token.name = r.name
      BY <1>1, <2>3, <2>5 DEF Token
    <2>8. Row(r.id, r.name)'
      BY <2>2, <2>3, <2>5
    <2>9. CallOK(r)'
      BY <2>3, <2>5, <2>7, <2>8 DEF CallOK, Ids, Tokens
    <2> QED BY <1>0, <2>1, <2>2, <2>5, <2>6, <2>9, CallStep
  <1>7. ASSUME NEW c \in Calls, WriteUncertain(c) PROVE LoginInv'
    <2>1. /\ lg[c].st \in {"absent", "unset"} /\ UNCHANGED <<me, events, now>>
          /\ faults' \in 0..MaxFaults
          /\ lg' = [lg EXCEPT ![c].st = "error", ![c].wrote = TRUE]
      BY <1>0, <1>7 DEF WriteUncertain
    <2>2. /\ users' \subseteq RowType /\ RowsOK'
          /\ \A id, name : Row(id, name) => Row(id, name)'
          /\ \A r : r.wrote /\ lg' = [lg EXCEPT ![c] = r] => Budget'
      <3>1. CASE lg[c].st = "absent"
        <4>1. Hashes(lg[c].pw) /\ Insert(lg[c].name, Seen[lg[c].pw])
          BY <1>7, <3>1 DEF WriteUncertain
        <4> QED BY <3>1, <4>1, InsertStep
      <3>2. CASE lg[c].st = "unset"
        <4>1. UpdatePassword(lg[c].id, Seen[lg[c].pw])
          BY <1>7, <3>2 DEF WriteUncertain
        <4> QED BY <3>2, <4>1, UpdateStep
      <3> QED BY <2>1, <3>1, <3>2
    <2>3. PICK r : r = [lg[c] EXCEPT !.st = "error", !.wrote = TRUE]
      OBVIOUS
    <2>4. r \in LgType /\ r.wrote /\ r.st = "error"
      BY <1>0, <2>3 DEF LgType, Answered
    <2>5. lg' = [lg EXCEPT ![c] = r]
      BY <1>0, <2>1, <2>3 DEF LgType
    <2>6. CallOK(r)'
      BY <2>4 DEF CallOK
    <2> QED BY <1>0, <2>1, <2>2, <2>4, <2>5, <2>6, CallStep
  <1>8. ASSUME NEW c \in Calls, PublishLoggedIn(c) PROVE LoginInv'
    <2>1. /\ lg[c].st = "authed" /\ events' = events \cup {lg[c].id} /\ To(c, "ok")
          /\ UNCHANGED <<users, me, now, faults>> /\ lg[c] \in LgType /\ CallOK(lg[c])
      BY <1>0, <1>8 DEF PublishLoggedIn
    <2>2. PICK r : r = [lg[c] EXCEPT !.st = "ok"]
      OBVIOUS
    <2>3. /\ r \in LgType /\ lg' = [lg EXCEPT ![c] = r] /\ r.st = "ok" /\ r.wrote = lg[c].wrote
          /\ r.id = lg[c].id /\ r.name = lg[c].name /\ r.token = lg[c].token /\ r.pw = lg[c].pw
      BY <2>1, <2>2 DEF To, LgType, Answered
    <2>4. /\ r.name \in Names /\ r.pw \in Passwords /\ r.id \in Ids /\ Row(r.id, r.name)
          /\ r.token \in Tokens /\ r.token.sub = r.id /\ r.token.name = r.name
      BY <2>1, <2>3 DEF CallOK
    <2>5. CallOK(r)'
      BY <2>1, <2>3, <2>4 DEF CallOK, Row, Ids, Tokens
    <2>6. events \subseteq events' /\ events' \subseteq Ids
      BY <1>0, <2>1, <2>3, <2>4
    <2> QED BY <1>0, <2>1, <2>3, <2>5, <2>6, QuietStep
  <1>9. ASSUME NEW m \in Mes, NEW c \in Calls, lg[c].st = "ok", MeParse(m, lg[c].token)
        PROVE  LoginInv'
    <2>1. PICK t : t = lg[c].token
      OBVIOUS
    <2>2. t \in Tokens /\ Row(t.sub, t.name)
      BY <1>0, <1>9, <2>1 DEF CallOK
    <2>3. PICK r : r = [st |-> IF Parses(t) THEN "parsed" ELSE "unauthorized",
                        token |-> t, name |-> None,
                        why |-> IF t.exp < now THEN "late" ELSE None]
      OBVIOUS
    <2>4. /\ me' = [me EXCEPT ![m] = r] /\ UNCHANGED <<users, lg, events, now, faults>>
      BY <1>9, <2>1, <2>3 DEF MeParse
    <2>5. /\ r \in MeType /\ r.token = t /\ r.name = None
          /\ r.st = IF Parses(t) THEN "parsed" ELSE "unauthorized"
          /\ r.why = IF t.exp < now THEN "late" ELSE None
      BY <2>2, <2>3 DEF MeType
    <2>6. Parses(t) <=> ~(t.exp < now)
      BY <1>0, <2>2 DEF Parses, Tokens
    <2>7. MeOK(r)
      BY <2>2, <2>5, <2>6, NoneAssumption DEF MeOK
    <2> QED BY <1>0, <2>4, <2>5, <2>7, MeStep
  <1>10. ASSUME NEW m \in Mes, MeProfile(m) PROVE LoginInv'
    <2>1. /\ me[m].st = "parsed" /\ me[m] \in MeType /\ MeOK(me[m])
          /\ UNCHANGED <<users, lg, events, now, faults>>
      BY <1>0, <1>10 DEF MeProfile, LoginInv, MesOK
    <2>2. PICK v \in users : v.id = me[m].token.sub /\ v.name = me[m].token.name
      BY <2>1 DEF MeOK, Row
    <2>3. PICK u \in users : /\ u.id = me[m].token.sub
                             /\ me' = [me EXCEPT ![m].st = "ok", ![m].name = u.name]
      BY <1>10, <2>2 DEF MeProfile
    <2>4. u.name = me[m].token.name /\ u.name \in Names
      BY <1>0, <2>2, <2>3 DEF LoginInv, RowsOK, Unique, RowType
    <2>5. PICK r : r = [me[m] EXCEPT !.st = "ok", !.name = u.name]
      OBVIOUS
    <2>6. /\ me' = [me EXCEPT ![m] = r] /\ r \in MeType /\ r.st = "ok" /\ r.name = u.name
          /\ r.token = me[m].token /\ r.why = me[m].why
      BY <1>0, <2>1, <2>3, <2>4, <2>5 DEF MeType
    <2>7. MeOK(r)
      BY <2>1, <2>4, <2>6 DEF MeOK
    <2> QED BY <1>0, <2>1, <2>6, <2>7, MeStep
  <1>11. ASSUME NEW m \in Mes, MeFails(m) PROVE LoginInv'
    <2>1. /\ me[m] \in MeType /\ UNCHANGED <<users, lg, events, now>> /\ faults' \in 0..MaxFaults
      BY <1>0, <1>11 DEF MeFails
    <2>2. PICK r : r = [me[m] EXCEPT !.st = "unauthorized", !.why = "failed"]
      OBVIOUS
    <2>3. me' = [me EXCEPT ![m] = r] /\ r \in MeType /\ r.st = "unauthorized" /\ r.why = "failed"
      BY <1>0, <1>11, <2>1, <2>2 DEF MeFails, MeType
    <2>4. MeOK(r)
      BY <2>3, NoneAssumption DEF MeOK
    <2> QED BY <2>1, <2>3, <2>4, MeStep
  <1>12. CASE Tick \/ UNCHANGED vars
    <2>1. UNCHANGED <<users, lg, me, events, faults>> /\ now' \in 0..MaxTime
      BY <1>12, BoundsAssumption DEF Tick, vars, LoginInv, TypeOK
    <2>2. TypeOK'
      BY <2>1 DEF LoginInv, TypeOK, Ids, Tokens, Answered
    <2>3. CallsOK' /\ MesOK'
      BY <2>1 DEF LoginInv, CallsOK, MesOK, CallOK, MeOK, Row, Ids, Tokens
    <2>4. RowsOK' /\ Budget'
      BY <2>1 DEF LoginInv, RowsOK, Unique, Budget, Writers
    <2> QED BY <2>2, <2>3, <2>4 DEF LoginInv
  <1> QED BY <1>2, <1>4, <1>5, <1>6, <1>7, <1>8, <1>9, <1>10, <1>11, <1>12
          DEF Next, HandleLogin

LEMMA LoginInvHolds == Spec => []LoginInv
  BY LoginInvInit, LoginInvNext, PTL DEF Spec

\* The table, the calls and the clock stay within their types; no id is given
\* out twice because a call inserts at most one row (service.go:36-50).
THEOREM TypeCorrect == Spec => []TypeOK
  BY LoginInvHolds, PTL DEF LoginInv

\* A token names the one row of the name that was asked for, and its event is
\* out, however many first logins of the name run at once (service.go:27-63).
THEOREM TokensNameUsers == Spec => []TokenNamesTheUser
  <1>1. LoginInv => TokenNamesTheUser
    BY DEF LoginInv, RowsOK, CallsOK, CallOK, Row, TokenNamesTheUser
  <1> QED BY <1>1, LoginInvHolds, PTL

\* GET /v1/me never refuses a token that is not over, except when the database
\* fails, and shows it the profile of its own name (service.go:70-76).
THEOREM TokensOpenProfiles == Spec => []TokenOpensItsProfile
  <1>1. LoginInv => TokenOpensItsProfile
    BY DEF LoginInv, MesOK, MeOK, TokenOpensItsProfile
  <1> QED BY <1>1, LoginInvHolds, PTL

----------------------------------------------------------------------------
(* Passwords.                                                              *)

\* Only a row that was there from the start is without a hash, and only until
\* a call gives it one; the service removes none.
HashesOK ==
    /\ \A u \in users : u.name \notin Legacy => u.hash # None
    /\ \A u \in users : u.name \in Legacy => (u.hash = None <=> Setters(u.name) = {})
    /\ \A n \in Legacy : \E u \in users : u.name = n

\* PasswordSticks for a call in state r, from the moment its password was
\* accepted.
Sticks(r) ==
    \/ /\ r.wrote => HasPassword(r.name, r.pw)
       /\ r.st \in {"authed", "ok"} => HasPassword(r.name, Seen[r.pw])
    \/ r.name \in Legacy /\ Cardinality(Setters(r.name)) > 1

CallPw(r) ==
    /\ r.st = "unset" => r.name \in Legacy
    /\ Sticks(r)

PwInv == LoginInv /\ HashesOK /\ \A c \in Calls : CallPw(lg[c])

LEMMA SettersFinite ==
    ASSUME NEW n
    PROVE  /\ IsFiniteSet(Setters(n)) /\ Cardinality(Setters(n)) \in Nat
           /\ IsFiniteSet(Setters(n)') /\ Cardinality(Setters(n)') \in Nat
  <1>1. Setters(n) \in SUBSET Calls /\ Setters(n)' \in SUBSET Calls
    BY DEF Setters
  <1> QED BY <1>1, CallsAssumption, FS_Subset, FS_CardinalityType

LEMMA SettersStep ==
    ASSUME lg \in [Calls -> LgType], NEW c \in Calls, NEW r, lg' = [lg EXCEPT ![c] = r], NEW n
    PROVE  /\ r.wrote = lg[c].wrote /\ (r.wrote => r.name = lg[c].name) =>
                 Setters(n)' = Setters(n)
           /\ ~lg[c].wrote /\ r.wrote =>
                 /\ c \notin Setters(n)
                 /\ Setters(n)' = IF n = r.name THEN Setters(n) \cup {c} ELSE Setters(n)
  BY DEF Setters, LgType

LEMMA PwInvInit == Init => PwInv
  <1> SUFFICES ASSUME Init PROVE PwInv
    OBVIOUS
  <1>1. \A n : Setters(n) = {}
    BY DEF Init, Setters
  <1>2. HashesOK
    BY <1>1 DEF Init, HashesOK
  <1>3. \A c \in Calls : CallPw(lg[c])
    BY DEF Init, CallPw, Sticks
  <1> QED BY <1>2, <1>3, LoginInvInit DEF PwInv

\* A step of call c that writes nothing.
LEMMA PwQuiet ==
    ASSUME PwInv, NEW c \in Calls, NEW r, lg' = [lg EXCEPT ![c] = r], UNCHANGED users,
           r.wrote = lg[c].wrote, r.wrote => r.name = lg[c].name, CallPw(r)
    PROVE  HashesOK' /\ \A d \in Calls : CallPw(lg[d])'
  <1>1. lg \in [Calls -> LgType]
    BY DEF PwInv, LoginInv, TypeOK, LgType
  <1>2. \A n : Setters(n)' = Setters(n)
    BY <1>1, SettersStep
  <1>3. HashesOK'
    BY <1>2 DEF PwInv, HashesOK
  <1>4. ASSUME NEW x, CallPw(x) PROVE CallPw(x)'
    <2>1. Setters(x.name)' = Setters(x.name)
      BY <1>2
    <2> QED BY <1>4, <2>1 DEF CallPw, Sticks, HasPassword
  <1>5. ASSUME NEW d \in Calls PROVE CallPw(lg[d])'
    <2>1. PICK x : x = IF d = c THEN r ELSE lg[d]
      OBVIOUS
    <2>2. CallPw(x)' /\ lg'[d] = x
      BY <1>1, <1>4, <2>1 DEF PwInv
    <2> QED BY <2>2
  <1> QED BY <1>3, <1>5

\* The INSERT of a call that goes on as r.
LEMMA PwInsert ==
    ASSUME PwInv, NEW c \in Calls, lg[c].st = "absent", Hashes(lg[c].pw),
           Insert(lg[c].name, Seen[lg[c].pw]), NEW r, lg' = [lg EXCEPT ![c] = r],
           r.wrote, r.name = lg[c].name, r.pw = lg[c].pw, r.st # "unset"
    PROVE  HashesOK' /\ \A d \in Calls : CallPw(lg[d])'
  <1> DEFINE n == lg[c].name
             row == [id |-> NewId, name |-> n, hash |-> Seen[lg[c].pw]]
  <1>1. /\ lg \in [Calls -> LgType] /\ CallOK(lg[c]) /\ RowsOK
    BY DEF PwInv, LoginInv, TypeOK, LgType, CallsOK
  <1>2. ~lg[c].wrote /\ lg[c].pw \in Passwords /\ Seen[lg[c].pw] = lg[c].pw
    BY <1>1 DEF CallOK, Hashes
  <1>3. /\ users' = users \cup {row} /\ row.name = n /\ row.hash = lg[c].pw
        /\ \A u \in users : u.name # n
    BY <1>2 DEF Insert, RowsNamed
  <1>4. n \notin Legacy /\ lg[c].pw # None
    BY <1>2, <1>3, NoneAssumption DEF PwInv, HashesOK
  <1>5. \A m : m # n => Setters(m)' = Setters(m)
    BY <1>1, <1>2, SettersStep
  <1> HIDE DEF row, n
  <1>6. HashesOK'
    BY <1>3, <1>4, <1>5 DEF PwInv, HashesOK
  <1>7. \A m, p : HasPassword(m, p) => HasPassword(m, p)'
    BY <1>3 DEF HasPassword
  <1>8. ASSUME NEW x, CallPw(x) PROVE CallPw(x)'
    <2>1. x.name \in Legacy => Setters(x.name)' = Setters(x.name)
      BY <1>4, <1>5
    <2> QED BY <1>7, <1>8, <2>1 DEF CallPw, Sticks
  <1>9. HasPassword(r.name, r.pw)' /\ Seen[r.pw] = r.pw
    BY <1>2, <1>3 DEF HasPassword, n
  <1>10. CallPw(r)'
    BY <1>9 DEF CallPw, Sticks
  <1>11. ASSUME NEW d \in Calls PROVE CallPw(lg[d])'
    <2>1. PICK x : x = IF d = c THEN r ELSE lg[d]
      OBVIOUS
    <2>2. CallPw(x)' /\ lg'[d] = x
      BY <1>1, <1>8, <1>10, <2>1 DEF PwInv
    <2> QED BY <2>2
  <1> QED BY <1>6, <1>11

\* The UPDATE of a call that goes on as r: the first call to write the row
\* finds nobody accepted, and later ones are the exception of PasswordSticks.
LEMMA PwUpdate ==
    ASSUME PwInv, NEW c \in Calls, lg[c].st = "unset", Hashes(lg[c].pw),
           UpdatePassword(lg[c].id, Seen[lg[c].pw]), NEW r, lg' = [lg EXCEPT ![c] = r],
           r.wrote, r.name = lg[c].name, r.pw = lg[c].pw, r.st # "unset"
    PROVE  HashesOK' /\ \A d \in Calls : CallPw(lg[d])'
  <1>0. PICK n, id, pw : n = lg[c].name /\ id = lg[c].id /\ pw = lg[c].pw
    OBVIOUS
  <1>1. /\ lg \in [Calls -> LgType] /\ CallOK(lg[c]) /\ RowsOK /\ users \subseteq RowType
    BY DEF PwInv, LoginInv, TypeOK, LgType, RowType, CallsOK
  <1>2. /\ ~lg[c].wrote /\ pw \in Passwords /\ Seen[pw] = pw /\ pw # None
        /\ n \in Legacy /\ Row(id, n)
    BY <1>0, <1>1, NoneAssumption DEF CallOK, Hashes, PwInv, CallPw
  <1>3. \A u \in users : u.id = id <=> u.name = n
    BY <1>1, <1>2 DEF Row, RowsOK, Unique
  <1>4. /\ \A u \in users : \E v \in users' :
              v.name = u.name /\ v.hash = IF u.name = n THEN pw ELSE u.hash
        /\ \A v \in users' : \E u \in users :
              v.name = u.name /\ v.hash = IF u.name = n THEN pw ELSE u.hash
    <2>1. UpdatePassword(id, pw)
      BY <1>0, <1>2
    <2>2. /\ \A u \in users : \E v \in users' :
                /\ v.id = u.id /\ v.name = u.name
                /\ v.hash = IF u.id = id THEN pw ELSE u.hash
          /\ \A v \in users' : \E u \in users :
                /\ v.id = u.id /\ v.name = u.name
                /\ v.hash = IF u.id = id THEN pw ELSE u.hash
      BY <1>1, <2>1, UpdateEffect
    <2> QED BY <1>3, <2>2
  <1>5. /\ \A m : m # n => Setters(m)' = Setters(m)
        /\ c \notin Setters(n) /\ Setters(n)' = Setters(n) \cup {c}
    BY <1>0, <1>1, <1>2, SettersStep
  <1>6. HashesOK'
    <2>1. ASSUME NEW v \in users'
          PROVE  /\ v.name \notin Legacy => v.hash # None
                 /\ v.name \in Legacy => (v.hash = None <=> Setters(v.name)' = {})
      <3>1. PICK u \in users : v.name = u.name /\ v.hash = IF u.name = n THEN pw ELSE u.hash
        BY <1>4
      <3>2. CASE u.name = n
        BY <1>2, <1>5, <3>1, <3>2
      <3>3. CASE u.name # n
        <4>1. v.name = u.name /\ v.hash = u.hash /\ Setters(u.name)' = Setters(u.name)
          BY <1>5, <3>1, <3>3
        <4>2. /\ u.name \notin Legacy => u.hash # None
              /\ u.name \in Legacy => (u.hash = None <=> Setters(u.name) = {})
          BY DEF PwInv, HashesOK
        <4> QED BY <4>1, <4>2
      <3> QED BY <3>2, <3>3
    <2>2. \A m \in Legacy : \E v \in users' : v.name = m
      BY <1>4 DEF PwInv, HashesOK
    <2> QED BY <2>1, <2>2 DEF HashesOK
  <1>7. ASSUME NEW d \in Calls, d # c, NEW x, x = lg[d] PROVE CallPw(x)'
    <2>1. CallPw(x) /\ CallOK(x)
      BY <1>7 DEF PwInv, LoginInv, CallsOK
    <2>2. CASE x.name # n
      <3>1. \A p : HasPassword(x.name, p) => HasPassword(x.name, p)'
        BY <1>4, <2>2 DEF HasPassword
      <3>2. Setters(x.name)' = Setters(x.name)
        BY <1>5, <2>2
      <3> QED BY <2>1, <3>1, <3>2 DEF CallPw, Sticks
    <2>3. CASE x.name = n /\ Setters(n) = {}
      <3>1. ~x.wrote
        BY <1>7, <2>3 DEF Setters
      <3>2. Cardinality(Setters(n)) = 0
        BY <2>3, FS_EmptySet
      <3>3. \A u \in users : u.name = n => u.hash = None
        BY <1>2, <2>3 DEF PwInv, HashesOK
      <3>4. x.st \notin {"authed", "ok"}
        <4> SUFFICES ASSUME x.st \in {"authed", "ok"} PROVE FALSE
          OBVIOUS
        <4>1. Seen[x.pw] # None
          BY <2>1, SeenAssumption, NoneAssumption DEF CallOK
        <4>2. HasPassword(n, Seen[x.pw])
          BY <2>1, <2>3, <3>2 DEF CallPw, Sticks
        <4> QED BY <3>3, <4>1, <4>2 DEF HasPassword
      <3> QED BY <2>1, <3>1, <3>4 DEF CallPw, Sticks
    <2>4. CASE x.name = n /\ Setters(n) # {}
      <3>1. Cardinality(Setters(n)) # 0
        BY <2>4, SettersFinite, FS_EmptySet
      <3>2. Cardinality(Setters(n)') = Cardinality(Setters(n)) + 1
        BY <1>5, SettersFinite, FS_AddElement
      <3>3. Cardinality(Setters(n)') > 1
        BY <3>1, <3>2, SettersFinite
      <3> QED BY <1>2, <2>1, <2>4, <3>3 DEF CallPw, Sticks
    <2> QED BY <2>2, <2>3, <2>4
  <1>8. HasPassword(r.name, r.pw)' /\ Seen[r.pw] = r.pw
    <2>1. \E v \in users' : v.name = n /\ v.hash = pw
      BY <1>2, <1>4 DEF Row
    <2> QED BY <1>0, <1>2, <2>1 DEF HasPassword
  <1>9. CallPw(r)'
    BY <1>8 DEF CallPw, Sticks
  <1>10. ASSUME NEW d \in Calls PROVE CallPw(lg[d])'
    <2>1. PICK x : x = IF d = c THEN r ELSE lg[d]
      OBVIOUS
    <2>2. CallPw(x)' /\ lg'[d] = x
      BY <1>1, <1>7, <1>9, <2>1
    <2> QED BY <2>2
  <1> QED BY <1>6, <1>10

LEMMA PwInvNext == PwInv /\ [Next]_vars => PwInv'
  <1> SUFFICES ASSUME PwInv, [Next]_vars PROVE PwInv'
    OBVIOUS
  <1> DEFINE Kept == HashesOK' /\ \A d \in Calls : CallPw(lg[d])'
  <1>0. /\ lg \in [Calls -> LgType] /\ \A c \in Calls : CallOK(lg[c]) /\ CallPw(lg[c])
        /\ LoginInv'
    BY LoginInvNext DEF PwInv, LoginInv, TypeOK, LgType, CallsOK
  <1>1. ASSUME NEW c \in Calls, NEW n \in Names, NEW p \in Passwords, Lookup(c, n, p)
        PROVE  Kept
    <2> DEFINE asked == [lg[c] EXCEPT !.name = n, !.pw = p]
    <2>1. /\ lg[c] \in LgType /\ ~lg[c].wrote /\ UNCHANGED users
      BY <1>0, <1>1 DEF Lookup, CallOK
    <2>2. PICK r : /\ lg' = [lg EXCEPT ![c] = r]
                   /\ \/ r = [asked EXCEPT !.st = "absent"]
                      \/ \E u \in RowsNamed(n) :
                            \/ /\ r = [asked EXCEPT !.st = "unset", !.id = u.id]
                               /\ u.hash = None
                            \/ /\ r = [asked EXCEPT !.st = "authed", !.id = u.id,
                                                    !.token = Token(u.id, n)]
                               /\ u.hash = Seen[p]
                            \/ r = [asked EXCEPT !.st = "refused"]
      BY <1>1 DEF Lookup, Verifies
    <2>3. ~r.wrote /\ CallPw(r)
      <3>1. CASE r = [asked EXCEPT !.st = "absent"] \/ r = [asked EXCEPT !.st = "refused"]
        BY <2>1, <3>1 DEF LgType, CallPw, Sticks
      <3>2. ASSUME NEW u \in RowsNamed(n), u.hash = None,
                   r = [asked EXCEPT !.st = "unset", !.id = u.id]
            PROVE  ~r.wrote /\ CallPw(r)
        <4>1. n \in Legacy
          BY <3>2 DEF PwInv, HashesOK, RowsNamed
        <4>2. r.st = "unset" /\ r.name = n /\ ~r.wrote
          BY <2>1, <3>2 DEF LgType
        <4> QED BY <4>1, <4>2 DEF CallPw, Sticks
      <3>3. ASSUME NEW u \in RowsNamed(n), u.hash = Seen[p],
                   r = [asked EXCEPT !.st = "authed", !.id = u.id, !.token = Token(u.id, n)]
            PROVE  ~r.wrote /\ CallPw(r)
        <4>1. HasPassword(n, Seen[p])
          BY <3>3 DEF HasPassword, RowsNamed
        <4>2. r.st = "authed" /\ r.name = n /\ r.pw = p /\ ~r.wrote
          BY <2>1, <3>3 DEF LgType
        <4> QED BY <4>1, <4>2 DEF CallPw, Sticks
      <3> QED BY <2>2, <3>1, <3>2, <3>3
    <2>4. r.wrote = lg[c].wrote
      BY <2>1, <2>2 DEF LgType
    <2> QED BY <2>1, <2>2, <2>3, <2>4, PwQuiet
  <1>2. ASSUME NEW c \in Calls, NEW st \in {"error", "ok"}, To(c, st), UNCHANGED users,
               st = "ok" => lg[c].st = "authed"
        PROVE  Kept
    <2>1. PICK r : r = [lg[c] EXCEPT !.st = st]
      OBVIOUS
    <2>2. /\ lg' = [lg EXCEPT ![c] = r] /\ r.st = st /\ r.wrote = lg[c].wrote
          /\ r.name = lg[c].name /\ r.pw = lg[c].pw
      BY <1>0, <1>2, <2>1 DEF To, LgType
    <2>3. CallPw(r)
      BY <1>0, <1>2, <2>2 DEF CallPw, Sticks
    <2> QED BY <1>2, <2>2, <2>3, PwQuiet
  <1>3. ASSUME NEW c \in Calls,
               HashFails(c) \/ CreateConflicts(c) \/ LoginFails(c) \/ PublishLoggedIn(c)
        PROVE  Kept
    BY <1>2, <1>3 DEF HashFails, CreateConflicts, LoginFails, PublishLoggedIn
  <1>4. ASSUME NEW c \in Calls, NEW r, lg' = [lg EXCEPT ![c] = r],
               r.wrote, r.name = lg[c].name, r.pw = lg[c].pw, r.st # "unset",
               Hashes(lg[c].pw),
               \/ lg[c].st = "absent" /\ Insert(lg[c].name, Seen[lg[c].pw])
               \/ lg[c].st = "unset" /\ UpdatePassword(lg[c].id, Seen[lg[c].pw])
        PROVE  Kept
    BY <1>4, PwInsert, PwUpdate
  <1>5. ASSUME NEW c \in Calls, Create(c) \/ SetPassword(c) \/ WriteUncertain(c)
        PROVE  Kept
    <2>1. /\ Hashes(lg[c].pw)
          /\ \/ lg[c].st = "absent" /\ Insert(lg[c].name, Seen[lg[c].pw])
             \/ lg[c].st = "unset" /\ UpdatePassword(lg[c].id, Seen[lg[c].pw])
      BY <1>5 DEF Create, SetPassword, WriteUncertain
    <2>2. PICK r : /\ lg' = [lg EXCEPT ![c] = r] /\ r.wrote /\ r.name = lg[c].name
                   /\ r.pw = lg[c].pw /\ r.st # "unset"
      <3>1. ASSUME NEW id, Authed(c, id, TRUE)
            PROVE  \E r : /\ lg' = [lg EXCEPT ![c] = r] /\ r.wrote /\ r.name = lg[c].name
                          /\ r.pw = lg[c].pw /\ r.st # "unset"
        <4>1. PICK r : r = [lg[c] EXCEPT !.st = "authed", !.id = id, !.wrote = TRUE,
                                         !.token = Token(id, lg[c].name)]
          OBVIOUS
        <4>2. lg' = [lg EXCEPT ![c] = r]
          BY <1>0, <3>1, <4>1 DEF Authed
        <4>3. /\ r.wrote /\ r.name = lg[c].name /\ r.pw = lg[c].pw /\ r.st = "authed"
          BY <1>0, <4>1 DEF LgType
        <4> QED BY <4>2, <4>3
      <3>2. CASE WriteUncertain(c)
        <4>1. PICK r : r = [lg[c] EXCEPT !.st = "error", !.wrote = TRUE]
          OBVIOUS
        <4>2. lg' = [lg EXCEPT ![c] = r]
          BY <1>0, <3>2, <4>1 DEF WriteUncertain
        <4>3. /\ r.wrote /\ r.name = lg[c].name /\ r.pw = lg[c].pw /\ r.st = "error"
          BY <1>0, <4>1 DEF LgType
        <4> QED BY <4>2, <4>3
      <3> QED BY <1>5, <3>1, <3>2 DEF Create, SetPassword
    <2> QED BY <1>4, <2>1, <2>2
  <1>6. ASSUME UNCHANGED <<users, lg>> PROVE Kept
    BY <1>6 DEF PwInv, HashesOK, CallPw, Sticks, HasPassword, Setters
  <1>7. Kept
    <2>1. ASSUME NEW m \in Mes, NEW t, MeParse(m, t) \/ MeProfile(m) \/ MeFails(m)
          PROVE  UNCHANGED <<users, lg>>
      BY <2>1 DEF MeParse, MeProfile, MeFails
    <2>2. Tick \/ UNCHANGED vars => UNCHANGED <<users, lg>>
      BY DEF Tick, vars
    <2> QED BY <1>1, <1>3, <1>5, <1>6, <2>1, <2>2 DEF Next, HandleLogin
  <1> QED BY <1>0, <1>7 DEF PwInv

\* A written password is the user's from then on, and every accepted call used
\* it, unless several calls gave one to a row without a hash (service.go:31-50).
THEOREM PasswordsStick == Spec => []PasswordSticks
  <1>1. PwInv => PasswordSticks
    BY DEF PwInv, CallPw, Sticks, PasswordSticks
  <1> QED BY <1>1, PwInvInit, PwInvNext, PTL DEF Spec

=============================================================================
