--------------------------- MODULE SessionsProofs ---------------------------
(* Proofs about Sessions, for any matches, replicas, calls and faults.     *)
EXTENDS Sessions, FiniteSetTheorems, SequenceTheorems, TLAPS

----------------------------------------------------------------------------
(* Messages of a subscription.                                             *)

LEMMA AppendMessage ==
    ASSUME NEW T, NEW s \in Seq(T), NEW e \in T
    PROVE  /\ Append(s, e) \in Seq(T)
           /\ Range(Append(s, e)) = Range(s) \cup {e}
           /\ IsInjective(s) /\ e \notin Range(s) => IsInjective(Append(s, e))
  <1> DEFINE a == Append(s, e)
  <1>1. a \in Seq(T) /\ Len(a) = Len(s) + 1
    OBVIOUS
  <1>2. (\A i \in 1..Len(s) : a[i] = s[i]) /\ a[Len(s) + 1] = e
    OBVIOUS
  <1>3. DOMAIN s = 1..Len(s) /\ DOMAIN a = 1..(Len(s) + 1) /\ Len(s) \in Nat
    BY <1>1
  <1> HIDE DEF a
  <1>4. DOMAIN a = DOMAIN s \cup {Len(s) + 1}
    BY <1>3
  <1>5. Range(a) = Range(s) \cup {e}
    BY <1>2, <1>3, <1>4 DEF Range
  <1>6. IsInjective(s) /\ e \notin Range(s) => IsInjective(a)
    BY <1>2, <1>3, <1>4 DEF Range, IsInjective
  <1> QED BY <1>1, <1>5, <1>6 DEF a

LEMMA TakeMessage ==
    ASSUME NEW T, NEW s \in Seq(T), s # <<>>
    PROVE  /\ Head(s) \in T /\ Head(s) \in Range(s) /\ Tail(s) \in Seq(T)
           /\ IsInjective(s) => /\ Range(Tail(s)) = Range(s) \ {Head(s)}
                                /\ IsInjective(Tail(s))
  <1> DEFINE t == Tail(s)
             l == Len(s)
  <1>1. /\ Head(s) \in T /\ t \in Seq(T) /\ Len(t) = l - 1
        /\ \A i \in 1..Len(t) : t[i] = s[i + 1]
    BY HeadTailProperties
  <1>2. l \in Nat \ {0} /\ DOMAIN s = 1..l
    BY EmptySeq
  <1>3. Head(s) = s[1]
    BY <1>2
  <1> HIDE DEF t, l
  <1>4. DOMAIN t = 1..(l - 1) /\ Len(t) = l - 1
    BY <1>1
  <1>5. /\ \A i \in DOMAIN t : i + 1 \in DOMAIN s /\ i + 1 # 1 /\ t[i] = s[i + 1]
        /\ \A i \in DOMAIN s : i = 1 \/ (i - 1 \in DOMAIN t /\ s[i] = t[i - 1])
        /\ 1 \in DOMAIN s
    <2>1. \A i \in DOMAIN t : i + 1 \in DOMAIN s /\ i + 1 # 1 /\ t[i] = s[i + 1]
      BY <1>1, <1>2, <1>4
    <2>2. \A i \in DOMAIN s : i = 1 \/ (i - 1 \in DOMAIN t /\ i = (i - 1) + 1)
      BY <1>2, <1>4
    <2>3. 1 \in DOMAIN s
      BY <1>2
    <2> QED BY <2>1, <2>2, <2>3
  <1>6. Head(s) \in Range(s)
    BY <1>3, <1>5 DEF Range
  <1>7. ASSUME IsInjective(s) PROVE Range(t) = Range(s) \ {Head(s)}
    <2>1. Range(t) \subseteq Range(s) \ {Head(s)}
      BY <1>3, <1>5, <1>7 DEF Range, IsInjective
    <2>2. Range(s) \ {Head(s)} \subseteq Range(t)
      BY <1>3, <1>5 DEF Range
    <2> QED BY <2>1, <2>2
  <1>8. ASSUME IsInjective(s) PROVE IsInjective(t)
    <2> SUFFICES ASSUME NEW i \in DOMAIN t, NEW j \in DOMAIN t, t[i] = t[j] PROVE i = j
      BY DEF IsInjective
    <2>1. i + 1 = j + 1
      BY <1>5, <1>8 DEF IsInjective
    <2>2. i \in Nat /\ j \in Nat
      BY <1>2, <1>4
    <2> QED BY <2>1, <2>2
  <1> QED BY <1>1, <1>6, <1>7, <1>8 DEF t

----------------------------------------------------------------------------
(* Ids.  A match that a replica has still to handle and a call that has    *)
(* still to commit may each become one more session, and nothing else may. *)

InboxOK == \A r \in Replicas : IsInjective(inbox[r]) /\ Range(inbox[r]) \subseteq published

IdsOK ==
    /\ IsFiniteSet(sessions)
    /\ \A s \in sessions : s.id <= Cardinality(sessions)
    /\ \A s, z \in sessions : s.id = z.id => s = z

Slots == {x \in Matches \X Replicas :
             x[1] \notin published \/ x[1] \in Range(inbox[x[2]])}
Fresh == {k \in Creates : create[k].st = "new"}

Budget == Cardinality(sessions) + Cardinality(Slots) + Cardinality(Fresh) <= MaxSessions

\* What a call that passed its first step knows.
CallsOK ==
    /\ \A k \in Creates : create[k].st = "committed" => create[k].sid \in Ids
    /\ \A a \in Assigns : assign[a].st = "checked" =>
                               assign[a].user \in Users /\ assign[a].sid \in Ids

TypeInv == TypeOK /\ CallsOK /\ InboxOK /\ IdsOK /\ Budget

LEMMA MaxSessionsType == MaxSessions \in Nat
  <1>1. /\ Cardinality(Matches) \in Nat /\ Cardinality(Replicas) \in Nat
        /\ Cardinality(Creates) \in Nat
    BY FiniteAssumption, FS_CardinalityType
  <1>2. \A a, b, c \in Nat : a * b + c \in Nat
    OBVIOUS
  <1> QED BY <1>1, <1>2 DEF MaxSessions

LEMMA SlotsFinite ==
    /\ IsFiniteSet(Slots) /\ Cardinality(Slots) \in Nat
    /\ IsFiniteSet(Fresh) /\ Cardinality(Fresh) \in Nat
    /\ Cardinality(Slots') \in Nat /\ Cardinality(Fresh') \in Nat
  <1>1. IsFiniteSet(Matches \X Replicas)
    BY FiniteAssumption, FS_Product
  <1>2. /\ Slots \in SUBSET (Matches \X Replicas) /\ Fresh \in SUBSET Creates
        /\ Slots' \in SUBSET (Matches \X Replicas) /\ Fresh' \in SUBSET Creates
    BY DEF Slots, Fresh
  <1>3. /\ IsFiniteSet(Slots) /\ IsFiniteSet(Fresh)
        /\ IsFiniteSet(Slots') /\ IsFiniteSet(Fresh')
    BY <1>1, <1>2, FiniteAssumption, FS_Subset
  <1> QED BY <1>3, FS_CardinalityType

LEMMA TypeInvInit == Init => TypeInv
  <1> SUFFICES ASSUME Init PROVE TypeInv
    OBVIOUS
  <1>1. Slots = Matches \X Replicas /\ Fresh = Creates
    BY DEF Init, Slots, Fresh
  <1>2. Cardinality(Slots) = Cardinality(Matches) * Cardinality(Replicas)
    BY <1>1, FiniteAssumption, FS_Product
  <1>3. Cardinality(sessions) = 0 /\ IsFiniteSet(sessions)
    BY FS_EmptySet DEF Init
  <1>4. Budget
    <2>1. \A a, c \in Nat : 0 + a + c <= a + c
      OBVIOUS
    <2> QED BY <1>1, <1>2, <1>3, <2>1, SlotsFinite DEF Budget, MaxSessions
  <1>5. InboxOK /\ IdsOK
    BY <1>3 DEF Init, InboxOK, IdsOK, Range, IsInjective
  <1>6. TypeOK /\ CallsOK
    BY FaultsAssumption DEF Init, TypeOK, CallsOK, CreateCalls, AssignCalls
  <1> QED BY <1>4, <1>5, <1>6 DEF TypeInv

\* newUUID: the new row is one more.
LEMMA RowAdded ==
    ASSUME TypeInv, NEW owner, NEW members, NEW cause,
           CreateSession(owner, members, cause)
    PROVE  LET row == [id |-> NewId, owner |-> owner, members |-> Range(members),
                       cause |-> cause]
           IN  /\ sessions' = sessions \cup {row} /\ row \notin sessions
               /\ Cardinality(sessions') = Cardinality(sessions) + 1
               /\ Cardinality(sessions) \in Nat /\ IdsOK'
               /\ \A s \in sessions : s.id # NewId
  <1> DEFINE row == [id |-> NewId, owner |-> owner, members |-> Range(members),
                     cause |-> cause]
             n == Cardinality(sessions)
  <1>1. n \in Nat /\ IsFiniteSet(sessions)
    BY FS_CardinalityType DEF TypeInv, IdsOK
  <1>2. row.id = n + 1 /\ NewId = n + 1
    BY DEF NewId
  <1>3. \A s \in sessions : s.id \in Nat /\ s.id <= n
    BY DEF TypeInv, IdsOK, TypeOK, Rows, Ids
  <1>4. \A s \in sessions : s.id # NewId
    BY <1>1, <1>2, <1>3
  <1>5. row \notin sessions
    BY <1>2, <1>4
  <1>6. sessions' = sessions \cup {row}
    BY DEF CreateSession
  <1>7. IsFiniteSet(sessions') /\ Cardinality(sessions') = n + 1
    BY <1>1, <1>5, <1>6, FS_AddElement
  <1> HIDE DEF n, row
  <1>8. \A s \in sessions' : s.id <= n + 1
    BY <1>1, <1>2, <1>3, <1>6
  <1>9. \A s, z \in sessions' : s.id = z.id => s = z
    BY <1>2, <1>4, <1>6 DEF TypeInv, IdsOK
  <1> QED BY <1>1, <1>4, <1>5, <1>6, <1>7, <1>8, <1>9 DEF IdsOK, n, row

\* A replica takes a message: it has one thing less to make a session of.
LEMMA ReceiveEffect ==
    ASSUME TypeInv, NEW r \in Replicas, Receives(r),
           inbox' = [inbox EXCEPT ![r] = Tail(@)], UNCHANGED published
    PROVE  LET m == Head(inbox[r])
           IN  /\ m \in Matches /\ m \in published /\ m \in Range(inbox[r])
               /\ inbox' \in [Replicas -> Seq(Matches)] /\ InboxOK'
               /\ Range(inbox'[r]) = Range(inbox[r]) \ {m}
               /\ \A q \in Replicas \ {r} : inbox'[q] = inbox[q]
               /\ Cardinality(Slots') = Cardinality(Slots) - 1
  <1> DEFINE m == Head(inbox[r])
  <1>1. inbox[r] \in Seq(Matches) /\ inbox[r] # <<>> /\ IsInjective(inbox[r])
    BY DEF TypeInv, TypeOK, InboxOK, Receives
  <1>2. /\ m \in Matches /\ m \in Range(inbox[r]) /\ Tail(inbox[r]) \in Seq(Matches)
        /\ Range(Tail(inbox[r])) = Range(inbox[r]) \ {m}
        /\ IsInjective(Tail(inbox[r]))
    BY <1>1, TakeMessage
  <1>3. /\ inbox' \in [Replicas -> Seq(Matches)] /\ inbox'[r] = Tail(inbox[r])
        /\ \A q \in Replicas \ {r} : inbox'[q] = inbox[q]
    BY <1>2 DEF TypeInv, TypeOK
  <1> HIDE DEF m
  <1>4. InboxOK' /\ m \in published
    BY <1>2, <1>3 DEF TypeInv, InboxOK
  <1>5. <<m, r>> \in Slots
    BY <1>2 DEF Slots
  <1>6. Slots' = Slots \ {<<m, r>>}
    <2>1. ASSUME NEW x \in Matches \X Replicas, x \in Slots', x # <<m, r>> PROVE x \in Slots
      BY <1>2, <1>3, <2>1 DEF Slots
    <2>2. <<m, r>> \notin Slots'
      BY <1>2, <1>3, <1>4 DEF Slots
    <2>3. ASSUME NEW x \in Matches \X Replicas, x \in Slots, x # <<m, r>> PROVE x \in Slots'
      <3>1. CASE x[2] = r
        <4>1. x[1] # m
          BY <2>3, <3>1
        <4> QED BY <1>2, <1>3, <2>3, <3>1, <4>1 DEF Slots
      <3>2. CASE x[2] # r
        BY <1>3, <2>3, <3>2 DEF Slots
      <3> QED BY <3>1, <3>2
    <2>4. Slots \subseteq Matches \X Replicas /\ Slots' \subseteq Matches \X Replicas
      BY DEF Slots
    <2> QED BY <2>1, <2>2, <2>3, <2>4
  <1>7. Cardinality(Slots') = Cardinality(Slots) - 1
    BY <1>5, <1>6, SlotsFinite, FS_RemoveElement
  <1> QED BY <1>2, <1>3, <1>4, <1>7 DEF m

\* A match is published to the replicas outside S.
LEMMA PublishEffect ==
    ASSUME TypeInv, NEW m \in Matches \ published, NEW S \in SUBSET Replicas,
           published' = published \cup {m},
           inbox' = [r \in Replicas |-> IF r \in S THEN inbox[r] ELSE Append(inbox[r], m)]
    PROVE  /\ inbox' \in [Replicas -> Seq(Matches)] /\ InboxOK'
           /\ \A r \in Replicas : /\ Range(inbox'[r]) \subseteq Range(inbox[r]) \cup {m}
                                  /\ Range(inbox[r]) \subseteq Range(inbox'[r])
           /\ Cardinality(Slots') <= Cardinality(Slots)
  <1>1. ASSUME NEW r \in Replicas
        PROVE  /\ inbox'[r] \in Seq(Matches) /\ IsInjective(inbox'[r])
               /\ Range(inbox'[r]) \subseteq Range(inbox[r]) \cup {m}
               /\ Range(inbox[r]) \subseteq Range(inbox'[r])
    <2>1. /\ inbox[r] \in Seq(Matches) /\ IsInjective(inbox[r])
          /\ m \notin Range(inbox[r])
      BY DEF TypeInv, TypeOK, InboxOK
    <2>2. CASE r \in S
      BY <2>1, <2>2
    <2>3. CASE r \notin S
      <3>1. inbox'[r] = Append(inbox[r], m)
        BY <2>3
      <3>2. /\ Append(inbox[r], m) \in Seq(Matches) /\ IsInjective(Append(inbox[r], m))
            /\ Range(Append(inbox[r], m)) = Range(inbox[r]) \cup {m}
        BY <2>1, AppendMessage
      <3> QED BY <3>1, <3>2
    <2> QED BY <2>2, <2>3
  <1>2. inbox' \in [Replicas -> Seq(Matches)]
    BY <1>1
  <1>3. InboxOK'
    BY <1>1 DEF TypeInv, InboxOK
  <1>4. Slots' \in SUBSET Slots
    BY <1>1 DEF Slots
  <1>5. Cardinality(Slots') <= Cardinality(Slots)
    BY <1>4, SlotsFinite, FS_Subset
  <1> QED BY <1>1, <1>2, <1>3, <1>5

LEMMA StopEffect ==
    ASSUME TypeInv, NEW r \in Replicas, inbox' = [inbox EXCEPT ![r] = <<>>],
           UNCHANGED published
    PROVE  /\ inbox' \in [Replicas -> Seq(Matches)] /\ InboxOK'
           /\ \A q \in Replicas : Range(inbox'[q]) \subseteq Range(inbox[q])
           /\ Cardinality(Slots') <= Cardinality(Slots)
  <1>1. IsInjective(<<>>) /\ Range(<<>>) = {}
    BY DEF IsInjective, Range
  <1>2. \A q \in Replicas : inbox'[q] = IF q = r THEN <<>> ELSE inbox[q]
    BY DEF TypeInv, TypeOK
  <1>3. inbox' \in [Replicas -> Seq(Matches)]
    BY DEF TypeInv, TypeOK
  <1>4. InboxOK' /\ \A q \in Replicas : Range(inbox'[q]) \subseteq Range(inbox[q])
    BY <1>1, <1>2 DEF TypeInv, InboxOK
  <1>5. Slots' \in SUBSET Slots
    BY <1>4 DEF Slots
  <1> QED BY <1>3, <1>4, <1>5, SlotsFinite, FS_Subset

\* A stop turns the calls it ends into errors and leaves the others alone.
LEMMA StopEndsCalls ==
    ASSUME TypeOK, NEW r \in Replicas, StopReplica(r)
    PROVE  /\ create' \in [Creates -> CreateCalls] /\ assign' \in [Assigns -> AssignCalls]
           /\ \A k \in Creates : create'[k] = create[k] \/ create'[k].st = "error"
           /\ \A k \in Creates : create[k].st # "committed" => create'[k] = create[k]
           /\ \A a \in Assigns : assign'[a] = assign[a] \/ assign'[a].st = "error"
  <1>1. create \in [Creates -> CreateCalls] /\ assign \in [Assigns -> AssignCalls]
    BY DEF TypeOK
  <1>2. ASSUME NEW c \in CreateCalls
        PROVE  [c EXCEPT !.st = "error"] \in CreateCalls /\ [c EXCEPT !.st = "error"].st = "error"
    BY DEF CreateCalls
  <1>3. ASSUME NEW c \in AssignCalls
        PROVE  [c EXCEPT !.st = "error"] \in AssignCalls /\ [c EXCEPT !.st = "error"].st = "error"
    BY DEF AssignCalls
  <1>4. /\ create' = [k \in Creates |-> IF k \in CreatesOn(r)
                            THEN [create[k] EXCEPT !.st = "error"] ELSE create[k]]
        /\ assign' = [a \in Assigns |-> IF a \in AssignsOn(r)
                            THEN [assign[a] EXCEPT !.st = "error"] ELSE assign[a]]
    BY DEF StopReplica
  <1>5. \A k \in CreatesOn(r) : create[k].st = "committed"
    BY DEF CreatesOn
  <1> QED BY <1>1, <1>2, <1>3, <1>4, <1>5

\* A create call that is no longer new has one commit less before it.
LEMMA FreshTaken ==
    ASSUME TypeInv, NEW k \in Creates, create[k].st = "new",
           \A j \in Creates \ {k} : create'[j] = create[j], create'[k].st # "new"
    PROVE  Cardinality(Fresh') = Cardinality(Fresh) - 1
  <1>1. Fresh' = Fresh \ {k} /\ k \in Fresh
    BY DEF Fresh
  <1> QED BY <1>1, SlotsFinite, FS_RemoveElement

\* The ids stay within their bound.
LEMMA BudgetKept ==
    ASSUME TypeInv, Cardinality(sessions') \in Nat,
           \/ sessions' = sessions
           \/ Cardinality(sessions') = Cardinality(sessions) + 1,
           \/ /\ sessions' = sessions /\ Cardinality(Slots') <= Cardinality(Slots)
              /\ Cardinality(Fresh') <= Cardinality(Fresh)
           \/ /\ Cardinality(Slots') = Cardinality(Slots) - 1
              /\ Cardinality(Fresh') <= Cardinality(Fresh)
           \/ /\ Cardinality(Slots') <= Cardinality(Slots)
              /\ Cardinality(Fresh') = Cardinality(Fresh) - 1
    PROVE  Budget'
  <1>1. Cardinality(sessions) \in Nat
    BY FS_CardinalityType DEF TypeInv, IdsOK
  <1>2. Cardinality(Slots) \in Nat /\ Cardinality(Fresh) \in Nat
    BY SlotsFinite
  <1>3. Cardinality(Slots') \in Nat /\ Cardinality(Fresh') \in Nat
    BY SlotsFinite
  <1>4. Cardinality(sessions') = Cardinality(sessions)
        \/ Cardinality(sessions') = Cardinality(sessions) + 1
    OBVIOUS
  <1>5. Cardinality(sessions) + Cardinality(Slots) + Cardinality(Fresh) <= MaxSessions
    BY DEF TypeInv, Budget
  <1>6. Cardinality(sessions') + Cardinality(Slots') + Cardinality(Fresh') <= MaxSessions
    BY <1>1, <1>2, <1>3, <1>4, <1>5, MaxSessionsType
  <1> QED BY <1>6 DEF Budget, MaxSessions

\* While something is left to make a session of, its id is in bounds.
LEMMA NewIdInBounds ==
    ASSUME TypeInv, Cardinality(Slots) > 0 \/ Cardinality(Fresh) > 0
    PROVE  NewId \in Ids
  <1>1. Cardinality(sessions) \in Nat
    BY FS_CardinalityType DEF TypeInv, IdsOK
  <1> QED BY <1>1, SlotsFinite, MaxSessionsType DEF TypeInv, Budget, NewId, Ids

LEMMA QuietTypes ==
    ASSUME TypeInv, TypeOK', CallsOK', UNCHANGED <<sessions, published, inbox>>,
           \A k \in Creates : create'[k].st = "new" => create[k].st = "new"
    PROVE  TypeInv'
  <1>1. InboxOK' /\ IdsOK'
    BY DEF TypeInv, InboxOK, IdsOK
  <1>2. Slots' = Slots /\ Fresh' \in SUBSET Fresh
    BY DEF Slots, Fresh
  <1>3. Cardinality(Slots') <= Cardinality(Slots) /\ Cardinality(Fresh') <= Cardinality(Fresh)
    BY <1>2, SlotsFinite, FS_Subset
  <1>4. Cardinality(sessions') \in Nat
    BY FS_CardinalityType DEF TypeInv, IdsOK
  <1>5. Budget'
    BY <1>3, <1>4, BudgetKept
  <1> QED BY <1>1, <1>5 DEF TypeInv

\* The callback takes a message and makes a session of it or does not.
LEMMA ReceiveTypes ==
    ASSUME TypeInv, TypeOK', NEW r \in Replicas, Receives(r), NEW owner, NEW members, NEW cause,
           inbox' = [inbox EXCEPT ![r] = Tail(@)], UNCHANGED <<published, create, assign>>,
           sessions' = sessions \/ CreateSession(owner, members, cause)
    PROVE  TypeInv'
  <1>1. InboxOK' /\ Cardinality(Slots') = Cardinality(Slots) - 1
    BY ReceiveEffect
  <1>2. Fresh' = Fresh
    BY DEF Fresh
  <1>3. Cardinality(sessions) \in Nat
    BY FS_CardinalityType DEF TypeInv, IdsOK
  <1>4. /\ IdsOK' /\ Cardinality(sessions') \in Nat
        /\ \/ sessions' = sessions
           \/ Cardinality(sessions') = Cardinality(sessions) + 1
    <2>1. CASE sessions' = sessions
      BY <1>3, <2>1 DEF TypeInv, IdsOK
    <2>2. CASE CreateSession(owner, members, cause)
      <3>1. Cardinality(sessions') = Cardinality(sessions) + 1 /\ IdsOK'
        BY <2>2, RowAdded
      <3> QED BY <1>3, <3>1
    <2> QED BY <2>1, <2>2
  <1>5. Budget'
    <2>1. Cardinality(Fresh') <= Cardinality(Fresh)
      BY <1>2, SlotsFinite
    <2> QED BY <1>1, <1>4, <2>1, BudgetKept
  <1>6. CallsOK'
    BY DEF TypeInv, CallsOK, Ids, MaxSessions
  <1> QED BY <1>1, <1>4, <1>5, <1>6 DEF TypeInv

\* The row of a match is a row.
LEMMA MatchRow ==
    ASSUME TypeInv, NEW r \in Replicas, Receives(r), sessions' \subseteq sessions \cup
               {[id |-> NewId, owner |-> PlayersOf[Head(inbox[r])][1],
                 members |-> Range(PlayersOf[Head(inbox[r])]), cause |-> Head(inbox[r])]}
    PROVE  /\ sessions' \subseteq Rows /\ NewId \in Ids /\ Head(inbox[r]) \in Matches
           /\ Tail(inbox[r]) \in Seq(Matches)
  <1> DEFINE m == Head(inbox[r])
  <1>1. inbox[r] \in Seq(Matches) /\ inbox[r] # <<>>
    BY DEF TypeInv, TypeOK, Receives
  <1>2. m \in Matches /\ m \in Range(inbox[r]) /\ Tail(inbox[r]) \in Seq(Matches)
    BY <1>1, TakeMessage
  <1>3. <<m, r>> \in Slots
    BY <1>2 DEF Slots
  <1>4. Cardinality(Slots) > 0
    BY <1>3, SlotsFinite, FS_EmptySet
  <1>5. NewId \in Ids
    BY <1>4, NewIdInBounds
  <1> HIDE DEF m
  <1>6. PlayersOf[m] \in Seq(Users) /\ PlayersOf[m] # <<>>
    BY <1>2, PlayersAssumption
  <1>7. PlayersOf[m][1] \in Users
    <2>1. 1 \in 1..Len(PlayersOf[m])
      BY <1>6, EmptySeq
    <2> QED BY <1>6, <2>1, ElementOfSeq
  <1>8. Range(PlayersOf[m]) \subseteq Users
    BY <1>6 DEF Range
  <1>9. [id |-> NewId, owner |-> PlayersOf[m][1], members |-> Range(PlayersOf[m]),
         cause |-> m] \in Rows
    BY <1>2, <1>5, <1>7, <1>8 DEF Rows
  <1> QED BY <1>2, <1>5, <1>9 DEF TypeInv, TypeOK, m

LEMMA CreateRow ==
    ASSUME TypeInv, NEW k \in Creates, create[k].st = "new",
           CreateSession(CreatorOf[k], <<CreatorOf[k]>>, k)
    PROVE  sessions' \subseteq Rows /\ NewId \in Ids
  <1>1. k \in Fresh
    BY DEF Fresh
  <1>2. Cardinality(Fresh) > 0
    BY <1>1, SlotsFinite, FS_EmptySet
  <1>3. NewId \in Ids
    BY <1>2, NewIdInBounds
  <1>4. CreatorOf[k] \in Users /\ Range(<<CreatorOf[k]>>) = {CreatorOf[k]}
    BY CreatorAssumption DEF Range
  <1>5. [id |-> NewId, owner |-> CreatorOf[k], members |-> Range(<<CreatorOf[k]>>),
         cause |-> k] \in Rows
    BY <1>3, <1>4 DEF Rows
  <1> QED BY <1>3, <1>5 DEF TypeInv, TypeOK, CreateSession

LEMMA TypeInvNext == TypeInv /\ [Next]_vars => TypeInv'
  <1> SUFFICES ASSUME TypeInv, [Next]_vars PROVE TypeInv'
    OBVIOUS
  <1>0. Cardinality(sessions) \in Nat /\ TypeOK
    BY FS_CardinalityType DEF TypeInv, IdsOK
  <1> USE FaultsAssumption DEF Fault, callback, http
  <1>1. ASSUME NEW m \in Matches \ published, NEW S \in SUBSET Replicas,
               published' = published \cup {m},
               inbox' = [r \in Replicas |-> IF r \in S THEN inbox[r] ELSE Append(inbox[r], m)],
               UNCHANGED <<sessions, job, http, created, assigned>>,
               dropped' \subseteq Matches, faults' \in 0..MaxFaults
        PROVE  TypeInv'
    <2>1. /\ inbox' \in [Replicas -> Seq(Matches)] /\ InboxOK'
          /\ Cardinality(Slots') <= Cardinality(Slots)
      BY <1>1, PublishEffect
    <2>2. Fresh' = Fresh /\ IdsOK'
      BY <1>1 DEF Fresh, TypeInv, IdsOK
    <2>3. Cardinality(Fresh') <= Cardinality(Fresh)
      BY <2>2, SlotsFinite
    <2>4. Budget'
      BY <1>0, <1>1, <2>1, <2>3, BudgetKept
    <2>5. TypeOK' /\ CallsOK'
      BY <1>0, <1>1, <2>1 DEF TypeOK, TypeInv, CallsOK, Ids, Rows, MaxSessions,
                              CreateCalls, AssignCalls
    <2> QED BY <2>1, <2>2, <2>4, <2>5 DEF TypeInv
  <1>2. ASSUME NEW m \in Matches \ published,
               PublishMatch(m) \/ \E S \in (SUBSET Replicas) \ {{}} : PublishMatchMissed(m, S)
        PROVE  TypeInv'
    <2>1. CASE PublishMatch(m)
      <3>1. inbox' = [r \in Replicas |-> IF r \in {} THEN inbox[r] ELSE Append(inbox[r], m)]
        BY <2>1 DEF PublishMatch
      <3>2. /\ published' = published \cup {m} /\ {} \in SUBSET Replicas
            /\ UNCHANGED <<sessions, job, http, created, assigned>>
            /\ dropped' \subseteq Matches /\ faults' \in 0..MaxFaults
        BY <1>0, <2>1 DEF PublishMatch, TypeOK
      <3> QED BY <1>1, <3>1, <3>2
    <2>2. ASSUME NEW S \in (SUBSET Replicas) \ {{}}, PublishMatchMissed(m, S) PROVE TypeInv'
      <3>1. /\ published' = published \cup {m} /\ S \in SUBSET Replicas
            /\ inbox' = [r \in Replicas |-> IF r \in S THEN inbox[r] ELSE Append(inbox[r], m)]
            /\ UNCHANGED <<sessions, job, http, created, assigned>>
            /\ dropped' \subseteq Matches /\ faults' \in 0..MaxFaults
        BY <1>0, <2>2 DEF PublishMatchMissed, TypeOK
      <3> QED BY <1>1, <3>1
    <2> QED BY <1>2, <2>1, <2>2
  <1>3. ASSUME NEW r \in Replicas, HandleMatchedEvent(r) PROVE TypeInv'
    <2> DEFINE m == Head(inbox[r])
    <2>1. CASE HandleMatched(r)
      <3>1. CreateSession(PlayersOf[m][1], PlayersOf[m], m)
        BY <2>1 DEF HandleMatched
      <3>2. /\ sessions' \subseteq Rows /\ NewId \in Ids /\ Tail(inbox[r]) \in Seq(Matches)
        BY <2>1, <3>1, MatchRow DEF HandleMatched, CreateSession
      <3>3. TypeOK'
        BY <1>0, <2>1, <3>2 DEF HandleMatched, TypeOK, Ids, Rows, MaxSessions,
                                CreateCalls, AssignCalls
      <3>4. /\ Receives(r) /\ inbox' = [inbox EXCEPT ![r] = Tail(@)]
            /\ UNCHANGED <<published, create, assign>>
        BY <2>1 DEF HandleMatched
      <3> QED BY <3>1, <3>3, <3>4, ReceiveTypes
    <2>2. ASSUME Receives(r), Forget(r), faults' \in 0..MaxFaults,
                 \/ sessions' = sessions
                 \/ CreateSession(PlayersOf[m][1], PlayersOf[m], m)
          PROVE  TypeInv'
      <3>1. /\ sessions' \subseteq Rows /\ Tail(inbox[r]) \in Seq(Matches) /\ m \in Matches
        BY <2>2, MatchRow DEF CreateSession
      <3>2. TypeOK'
        BY <1>0, <2>2, <3>1 DEF Forget, TypeOK, Ids, Rows, MaxSessions,
                                CreateCalls, AssignCalls
      <3>3. /\ inbox' = [inbox EXCEPT ![r] = Tail(@)]
            /\ UNCHANGED <<published, create, assign>>
        BY <2>2 DEF Forget
      <3> QED BY <2>2, <3>2, <3>3, ReceiveTypes
    <2>3. CASE HandleMatchedRejected(r)
      <3>1. Receives(r) /\ Forget(r) /\ sessions' = sessions /\ faults' \in 0..MaxFaults
        BY <1>0, <2>3 DEF HandleMatchedRejected, TypeOK
      <3> QED BY <2>2, <3>1
    <2>4. CASE HandleMatchedFails(r)
      <3>1. Receives(r) /\ Forget(r) /\ sessions' = sessions /\ faults' \in 0..MaxFaults
        BY <1>0, <2>4 DEF HandleMatchedFails, TypeOK
      <3> QED BY <2>2, <3>1
    <2>5. CASE HandleMatchedUncertain(r)
      <3>1. /\ Receives(r) /\ Forget(r) /\ CreateSession(PlayersOf[m][1], PlayersOf[m], m)
            /\ faults' \in 0..MaxFaults
        BY <1>0, <2>5 DEF HandleMatchedUncertain, TypeOK
      <3> QED BY <2>2, <3>1
    <2>6. CASE AnnounceMatched(r) \/ AnnounceMatchedFails(r)
      <3>1. TypeOK'
        <4>1. CASE AnnounceMatched(r)
          BY <1>0, <4>1 DEF AnnounceMatched, TypeOK, Ids, Rows, MaxSessions,
                                CreateCalls, AssignCalls
        <4>2. CASE AnnounceMatchedFails(r)
          BY <1>0, <4>2 DEF AnnounceMatchedFails, TypeOK, Ids, Rows, MaxSessions,
                                CreateCalls, AssignCalls
        <4> QED BY <2>6, <4>1, <4>2
      <3>2. CallsOK'
        BY <2>6 DEF AnnounceMatched, AnnounceMatchedFails, TypeInv, CallsOK, Ids, MaxSessions
      <3> QED BY <2>6, <3>1, <3>2, QuietTypes DEF AnnounceMatched, AnnounceMatchedFails
    <2> QED BY <1>3, <2>1, <2>3, <2>4, <2>5, <2>6 DEF HandleMatchedEvent
  <1>4. ASSUME NEW r \in Replicas, StopReplica(r) PROVE TypeInv'
    <2>1. /\ inbox' \in [Replicas -> Seq(Matches)] /\ InboxOK'
          /\ Cardinality(Slots') <= Cardinality(Slots)
      BY <1>4, StopEffect DEF StopReplica
    <2>0. /\ create' \in [Creates -> CreateCalls] /\ assign' \in [Assigns -> AssignCalls]
          /\ \A k \in Creates : create'[k] = create[k] \/ create'[k].st = "error"
          /\ \A k \in Creates : create[k].st # "committed" => create'[k] = create[k]
          /\ \A a \in Assigns : assign'[a] = assign[a] \/ assign'[a].st = "error"
      BY <1>0, <1>4, StopEndsCalls
    <2>2. Fresh' = Fresh /\ IdsOK' /\ sessions' = sessions
      BY <1>4, <2>0 DEF StopReplica, Fresh, TypeInv, IdsOK
    <2>3. Cardinality(Fresh') <= Cardinality(Fresh)
      BY <2>2, SlotsFinite
    <2>4. Budget'
      BY <1>0, <2>1, <2>2, <2>3, BudgetKept
    <2>5. Range(inbox[r]) \subseteq Matches
      BY <1>0 DEF TypeOK, Range
    <2>6. CallsOK'
      BY <2>0 DEF TypeInv, CallsOK, Ids, MaxSessions
    <2>7. TypeOK'
      BY <1>0, <1>4, <2>0, <2>1, <2>5 DEF StopReplica, TypeOK, Ids, Rows, MaxSessions,
                                          CreateCalls, AssignCalls
    <2> QED BY <2>1, <2>2, <2>4, <2>6, <2>7 DEF TypeInv
  <1>5. ASSUME NEW k \in Creates, CreateSessionForUser(k)
        PROVE  TypeInv'
    <2>1. ASSUME create[k].st = "new", CreateSession(CreatorOf[k], <<CreatorOf[k]>>, k),
                 \/ \E r \in Replicas : create' = [create EXCEPT ![k] =
                               [st |-> "committed", sid |-> NewId, at |-> r]]
                 \/ create' = [create EXCEPT ![k].st = "error"],
                 UNCHANGED <<callback, assign, created, assigned>>,
                 faults' \in 0..MaxFaults
          PROVE  TypeInv'
      <3>1. sessions' \subseteq Rows /\ NewId \in Ids
        BY <2>1, CreateRow
      <3>2. /\ create' \in [Creates -> CreateCalls] /\ create'[k].st # "new"
            /\ \A j \in Creates \ {k} : create'[j] = create[j]
        <4>1. CASE \E r \in Replicas : create' = [create EXCEPT ![k] =
                               [st |-> "committed", sid |-> NewId, at |-> r]]
          BY <1>0, <3>1, <4>1 DEF TypeOK, CreateCalls
        <4>2. CASE create' = [create EXCEPT ![k].st = "error"]
          BY <1>0, <4>2 DEF TypeOK, CreateCalls
        <4> QED BY <2>1, <4>1, <4>2
      <3>3. TypeOK' /\ CallsOK'
        <4>1. TypeOK'
          BY <1>0, <2>1, <3>1, <3>2 DEF TypeOK, Ids, Rows, MaxSessions, CreateCalls, AssignCalls
        <4>2. create'[k].st = "committed" => create'[k].sid \in Ids
          BY <1>0, <2>1, <3>1 DEF TypeOK, CreateCalls
        <4>3. CallsOK'
          BY <2>1, <3>2, <4>2 DEF TypeInv, CallsOK, Ids, MaxSessions
        <4> QED BY <4>1, <4>3
      <3>4. Cardinality(Fresh') = Cardinality(Fresh) - 1
        BY <2>1, <3>2, FreshTaken
      <3>5. IdsOK' /\ Cardinality(sessions') = Cardinality(sessions) + 1
        BY <2>1, RowAdded
      <3>6. InboxOK' /\ Slots' = Slots
        BY <2>1 DEF TypeInv, InboxOK, Slots
      <3>7. Budget'
        <4>1. Cardinality(Slots') <= Cardinality(Slots) /\ Cardinality(sessions') \in Nat
          BY <1>0, <3>5, <3>6, SlotsFinite
        <4> QED BY <3>4, <3>5, <4>1, BudgetKept
      <3> QED BY <3>3, <3>5, <3>6, <3>7 DEF TypeInv
    <2>2. CASE \E r \in Replicas : CreateForUser(k, r)
      BY <1>0, <2>1, <2>2 DEF CreateForUser, TypeOK
    <2>3. CASE CreateUncertain(k)
      BY <1>0, <2>1, <2>3 DEF CreateUncertain, TypeOK
    <2>4. CASE AnnounceCreate(k) \/ CreateFails(k)
      <3>1. /\ create' \in [Creates -> CreateCalls]
            /\ \A j \in Creates : create'[j].st = "new" => create[j].st = "new"
        BY <1>0, <2>4 DEF TypeOK, AnnounceCreate, CreateFails, CreateCalls
      <3>2. CallsOK'
        BY <1>0, <2>4 DEF TypeOK, AnnounceCreate, CreateFails, TypeInv, CallsOK, Ids, MaxSessions,
                          CreateCalls
      <3>3. TypeOK'
        <4>1. CASE CreateFails(k)
          BY <1>0, <3>1, <4>1 DEF CreateFails, TypeOK, Ids, Rows, MaxSessions,
                                  CreateCalls, AssignCalls
        <4>2. CASE AnnounceCreate(k)
          <5>1. create[k].sid \in Ids
            BY <4>2 DEF AnnounceCreate, TypeInv, CallsOK
          <5> QED BY <1>0, <3>1, <4>2, <5>1 DEF AnnounceCreate, TypeOK, Ids, Rows, MaxSessions,
                                              CreateCalls, AssignCalls
        <4> QED BY <2>4, <4>1, <4>2
      <3> QED BY <2>4, <3>1, <3>2, <3>3, QuietTypes DEF AnnounceCreate, CreateFails
    <2> QED BY <1>5, <2>2, <2>3, <2>4 DEF CreateSessionForUser
  <1>6. ASSUME NEW a \in Assigns, AssignServer(a)
        PROVE  TypeInv'
    <2>1. /\ UNCHANGED <<sessions, published, inbox, job, create, created, dropped>>
          /\ faults' \in 0..MaxFaults
      BY <1>0, <1>6 DEF AssignServer, CheckMember, AnnounceAssigned, AssignFails, TypeOK
    <2> DEFINE Typed ==
                 /\ assign \in [Assigns -> AssignCalls]
                 /\ CallsOK /\ assigned \subseteq Users \X Ids
    <2>2. Typed'
      <3>1. ASSUME NEW r \in Replicas, NEW u \in Users, NEW sid \in Ids,
                   CheckMember(a, r, u, sid)
            PROVE  Typed'
        BY <1>0, <2>1, <3>1 DEF CheckMember, TypeOK, TypeInv, CallsOK, Ids, MaxSessions,
                                AssignCalls
      <3>2. CASE AnnounceAssigned(a)
        <4>1. assign[a].user \in Users /\ assign[a].sid \in Ids
          BY <3>2 DEF AnnounceAssigned, TypeInv, CallsOK
        <4>2. assign' \in [Assigns -> AssignCalls] /\ assigned' \subseteq Users \X Ids
          BY <1>0, <3>2, <4>1 DEF AnnounceAssigned, TypeOK, AssignCalls
        <4>3. \A b \in Assigns : assign'[b] = assign[b] \/ assign'[b].st = "ok"
          BY <1>0, <3>2 DEF AnnounceAssigned, TypeOK, AssignCalls
        <4>4. CallsOK'
          BY <2>1, <4>3 DEF TypeInv, CallsOK, Ids, MaxSessions
        <4> QED BY <4>2, <4>4 DEF Ids, MaxSessions, AssignCalls
      <3>3. CASE AssignFails(a)
        BY <1>0, <2>1, <3>3 DEF AssignFails, TypeOK, TypeInv, CallsOK, Ids, MaxSessions,
                                AssignCalls
      <3> QED BY <1>6, <3>1, <3>2, <3>3 DEF AssignServer
    <2>3. TypeOK'
      BY <1>0, <2>1, <2>2 DEF TypeOK, Ids, Rows, MaxSessions, CreateCalls, AssignCalls
    <2> QED BY <2>1, <2>2, <2>3, QuietTypes
  <1>7. CASE UNCHANGED vars
    BY <1>7 DEF vars, TypeInv, TypeOK, CallsOK, InboxOK, IdsOK, Budget, Slots, Fresh,
                Ids, Rows, MaxSessions, CreateCalls, AssignCalls
  <1> QED BY <1>2, <1>3, <1>4, <1>5, <1>6, <1>7 DEF Next

\* The service's state stays well-typed; no id is taken twice, so newUUID
\* never runs out of the ids of Rows (repository.go:23-55).
THEOREM TypeCorrect == Spec => []TypeOK
  <1>1. TypeInv => TypeOK
    BY DEF TypeInv
  <1> QED BY <1>1, TypeInvInit, TypeInvNext, PTL DEF Spec

----------------------------------------------------------------------------
(* Events follow commits.                                                  *)

HasRow(sid) == \E s \in sessions : s.id = sid

\* What a callback or a call is about to announce is in the database.
Pending ==
    /\ \A r \in Replicas : job[r] # None => HasRow(job[r])
    /\ \A k \in Creates : create[k].st = "committed" => HasRow(create[k].sid)
    /\ \A a \in Assigns : assign[a].st = "checked" => IsMember(assign[a].sid, assign[a].user)

TellInv == TypeInv /\ Pending /\ EventsTellOfCommitted

\* No step deletes a session.
LEMMA RowsStay == [Next]_vars => sessions \subseteq sessions'
  <1> SUFFICES ASSUME [Next]_vars PROVE sessions \subseteq sessions'
    OBVIOUS
  <1>1. ASSUME NEW m \in Matches \ published,
               PublishMatch(m) \/ \E S \in (SUBSET Replicas) \ {{}} : PublishMatchMissed(m, S)
        PROVE  sessions \subseteq sessions'
    BY <1>1 DEF PublishMatch, PublishMatchMissed
  <1>2. ASSUME NEW r \in Replicas, HandleMatchedEvent(r) \/ StopReplica(r)
        PROVE  sessions \subseteq sessions'
    BY <1>2 DEF HandleMatchedEvent, HandleMatched, HandleMatchedRejected, HandleMatchedFails,
                HandleMatchedUncertain, AnnounceMatched, AnnounceMatchedFails, StopReplica,
                CreateSession
  <1>3. ASSUME NEW k \in Creates, CreateSessionForUser(k)
        PROVE  sessions \subseteq sessions'
    BY <1>3 DEF CreateSessionForUser, CreateForUser, AnnounceCreate, CreateFails, CreateUncertain, CreateSession
  <1>4. ASSUME NEW a \in Assigns, AssignServer(a)
        PROVE  sessions \subseteq sessions'
    BY <1>4 DEF AssignServer, CheckMember, AnnounceAssigned, AssignFails
  <1>5. CASE UNCHANGED vars
    BY <1>5 DEF vars
  <1> QED BY <1>1, <1>2, <1>3, <1>4, <1>5 DEF Next

LEMMA RowsKnown ==
    ASSUME [Next]_vars
    PROVE  /\ \A sid : HasRow(sid) => HasRow(sid)'
           /\ \A sid, u : IsMember(sid, u) => IsMember(sid, u)'
  BY RowsStay DEF HasRow, IsMember

\* The new session is in the database.
LEMMA NewRow ==
    ASSUME NEW owner, NEW members, NEW cause, CreateSession(owner, members, cause)
    PROVE  \E s \in sessions' : s.id = NewId
  <1> DEFINE row == [id |-> NewId, owner |-> owner, members |-> Range(members),
                     cause |-> cause]
  <1>1. row \in sessions' /\ row.id = NewId
    BY DEF CreateSession
  <1> QED BY <1>1

LEMMA TellInvNext == TellInv /\ [Next]_vars => TellInv'
  <1> SUFFICES ASSUME TellInv, [Next]_vars PROVE TellInv'
    OBVIOUS
  <1>0. TypeOK /\ TypeInv'
    BY TypeInvNext DEF TellInv, TypeInv
  <1> DEFINE Told == \A sid \in created : HasRow(sid)
             Assigned == \A e \in assigned : IsMember(e[2], e[1])
             JobsOK == \A r \in Replicas : job[r] # None => HasRow(job[r])
             CreatesOK == \A k \in Creates : create[k].st = "committed" => HasRow(create[k].sid)
             AssignsOK == \A a \in Assigns : assign[a].st = "checked" =>
                                  IsMember(assign[a].sid, assign[a].user)
  <1>1. Told /\ Assigned /\ JobsOK /\ CreatesOK /\ AssignsOK
    BY DEF TellInv, Pending, EventsTellOfCommitted, HasRow
  <1>2. SUFFICES Told' /\ Assigned' /\ JobsOK' /\ CreatesOK' /\ AssignsOK'
    BY <1>0 DEF TellInv, Pending, EventsTellOfCommitted, HasRow
  <1>3. /\ created' = created => Told'
        /\ assigned' = assigned => Assigned'
        /\ job' = job => JobsOK'
        /\ create' = create => CreatesOK'
        /\ assign' = assign => AssignsOK'
    BY <1>1, RowsKnown
  <1>4. ASSUME NEW m \in Matches \ published,
               PublishMatch(m) \/ \E S \in (SUBSET Replicas) \ {{}} : PublishMatchMissed(m, S)
        PROVE  Told' /\ Assigned' /\ JobsOK' /\ CreatesOK' /\ AssignsOK'
    BY <1>3, <1>4 DEF PublishMatch, PublishMatchMissed, http
  <1>5. ASSUME NEW r \in Replicas, HandleMatchedEvent(r) \/ StopReplica(r)
        PROVE  Told' /\ Assigned' /\ JobsOK' /\ CreatesOK' /\ AssignsOK'
    <2>1. Assigned' /\ CreatesOK' /\ AssignsOK'
      <3>1. CASE StopReplica(r)
        <4>1. /\ \A k \in Creates : create'[k] = create[k] \/ create'[k].st = "error"
              /\ \A a \in Assigns : assign'[a] = assign[a] \/ assign'[a].st = "error"
          BY <1>0, <3>1, StopEndsCalls
        <4>2. CreatesOK' /\ AssignsOK'
          BY <1>1, <4>1, RowsKnown
        <4>3. assigned' = assigned
          BY <3>1 DEF StopReplica
        <4> QED BY <1>3, <4>2, <4>3
      <3>2. CASE HandleMatchedEvent(r)
        <4>1. UNCHANGED <<create, assign, assigned>>
          BY <3>2 DEF HandleMatchedEvent, HandleMatched, HandleMatchedRejected, Forget, http,
                      HandleMatchedFails, HandleMatchedUncertain, AnnounceMatched,
                      AnnounceMatchedFails
        <4> QED BY <1>3, <4>1
      <3> QED BY <1>5, <3>1, <3>2
    <2>2. Told'
      <3>1. CASE AnnounceMatched(r)
        <4>1. HasRow(job[r]) /\ created' = created \cup {job[r]}
          BY <1>1, <3>1 DEF AnnounceMatched
        <4> QED BY <1>1, <4>1, RowsKnown
      <3>2. CASE ~AnnounceMatched(r)
        <4>1. created' = created
          BY <1>5, <3>2 DEF HandleMatchedEvent, HandleMatched, HandleMatchedRejected, Forget,
                  HandleMatchedFails, HandleMatchedUncertain, AnnounceMatchedFails, StopReplica
        <4> QED BY <1>3, <4>1
      <3> QED BY <3>1, <3>2
    <2>3. JobsOK'
      <3>1. CASE HandleMatched(r)
        <4>1. \E s \in sessions' : s.id = NewId
          BY <3>1, NewRow DEF HandleMatched
        <4>2. job'[r] = NewId /\ \A q \in Replicas \ {r} : job'[q] = job[q]
          BY <1>0, <3>1 DEF HandleMatched, TypeOK
        <4>3. ASSUME NEW q \in Replicas, job'[q] # None PROVE HasRow(job[q])'
          <5>1. CASE q = r
            BY <4>1, <4>2, <5>1 DEF HasRow
          <5>2. CASE q # r
            BY <1>1, <4>2, <4>3, <5>2, RowsKnown
          <5> QED BY <5>1, <5>2
        <4> QED BY <4>3
      <3>2. CASE ~HandleMatched(r)
        <4>1. \A q \in Replicas : job'[q] = job[q] \/ job'[q] = None
          BY <1>0, <1>5, <3>2 DEF HandleMatchedEvent, HandleMatchedRejected, Forget,
                  HandleMatchedFails, HandleMatchedUncertain, AnnounceMatched,
                  AnnounceMatchedFails, StopReplica, TypeOK
        <4> QED BY <1>1, <4>1, RowsKnown
      <3> QED BY <3>1, <3>2
    <2> QED BY <1>3, <2>1, <2>2, <2>3
  <1>6. ASSUME NEW k \in Creates, CreateSessionForUser(k)
        PROVE  Told' /\ Assigned' /\ JobsOK' /\ CreatesOK' /\ AssignsOK'
    <2>1. UNCHANGED <<job, assign, assigned>>
      BY <1>6 DEF CreateSessionForUser, CreateForUser, AnnounceCreate, CreateFails, CreateUncertain, callback
    <2>2. Told'
      <3>1. CASE AnnounceCreate(k)
        <4>1. HasRow(create[k].sid) /\ created' = created \cup {create[k].sid}
          BY <1>1, <3>1 DEF AnnounceCreate
        <4> QED BY <1>1, <4>1, RowsKnown
      <3>2. CASE ~AnnounceCreate(k)
        <4>1. created' = created
          BY <1>6, <3>2 DEF CreateSessionForUser, CreateForUser, CreateFails, CreateUncertain
        <4> QED BY <1>3, <4>1
      <3> QED BY <3>1, <3>2
    <2>3. CreatesOK'
      <3>1. CASE \E r \in Replicas : CreateForUser(k, r)
        <4>1. \E s \in sessions' : s.id = NewId
          BY <3>1, NewRow DEF CreateForUser
        <4>2. create'[k].sid = NewId /\ \A j \in Creates \ {k} : create'[j] = create[j]
          BY <1>0, <3>1 DEF CreateForUser, TypeOK
        <4>3. ASSUME NEW j \in Creates, create'[j].st = "committed"
              PROVE  HasRow(create[j].sid)'
          <5>1. CASE j = k
            BY <4>1, <4>2, <5>1 DEF HasRow
          <5>2. CASE j # k
            BY <1>1, <4>2, <4>3, <5>2, RowsKnown
          <5> QED BY <5>1, <5>2
        <4> QED BY <4>3
      <3>2. CASE ~\E r \in Replicas : CreateForUser(k, r)
        <4>1. \A j \in Creates : create'[j] = create[j] \/ create'[j].st # "committed"
          BY <1>0, <1>6, <3>2 DEF CreateSessionForUser, AnnounceCreate, CreateFails,
                                  CreateUncertain, TypeOK, CreateCalls
        <4> QED BY <1>1, <4>1, RowsKnown
      <3> QED BY <3>1, <3>2
    <2> QED BY <1>3, <2>1, <2>2, <2>3
  <1>7. ASSUME NEW a \in Assigns, AssignServer(a)
        PROVE  Told' /\ Assigned' /\ JobsOK' /\ CreatesOK' /\ AssignsOK'
    <2>1. UNCHANGED <<job, create, created, sessions>>
      BY <1>7 DEF AssignServer, CheckMember, AnnounceAssigned, AssignFails, callback
    <2>2. Assigned'
      <3>1. CASE AnnounceAssigned(a)
        <4>1. /\ IsMember(assign[a].sid, assign[a].user)
              /\ assigned' = assigned \cup {<<assign[a].user, assign[a].sid>>}
          BY <1>1, <3>1 DEF AnnounceAssigned
        <4> QED BY <1>1, <4>1, RowsKnown
      <3>2. CASE ~AnnounceAssigned(a)
        <4>1. assigned' = assigned
          BY <1>7, <3>2 DEF AssignServer, CheckMember, AssignFails
        <4> QED BY <1>3, <4>1
      <3> QED BY <3>1, <3>2
    <2>3. AssignsOK'
      <3>1. ASSUME NEW r \in Replicas, NEW u \in Users, NEW sid \in Ids,
                   CheckMember(a, r, u, sid)
            PROVE  AssignsOK'
        <4>1. /\ assign'[a].st = "checked" => IsMember(sid, u)
              /\ assign'[a].user = u /\ assign'[a].sid = sid
              /\ \A b \in Assigns \ {a} : assign'[b] = assign[b]
          BY <1>0, <3>1 DEF CheckMember, TypeOK, AssignCalls
        <4>2. ASSUME NEW b \in Assigns, assign'[b].st = "checked"
              PROVE  IsMember(assign[b].sid, assign[b].user)'
          <5>1. CASE b = a
            BY <4>1, <4>2, <5>1, RowsKnown
          <5>2. CASE b # a
            BY <1>1, <4>1, <4>2, <5>2, RowsKnown
          <5> QED BY <5>1, <5>2
        <4> QED BY <4>2
      <3>2. CASE AnnounceAssigned(a) \/ AssignFails(a)
        <4>1. \A b \in Assigns : assign'[b] = assign[b] \/ assign'[b].st # "checked"
          BY <1>0, <3>2 DEF AnnounceAssigned, AssignFails, TypeOK, AssignCalls
        <4> QED BY <1>1, <4>1, RowsKnown
      <3> QED BY <1>7, <3>1, <3>2 DEF AssignServer
    <2> QED BY <1>3, <2>1, <2>2, <2>3
  <1>8. CASE UNCHANGED vars
    BY <1>3, <1>8 DEF vars
  <1> QED BY <1>4, <1>5, <1>6, <1>7, <1>8 DEF Next

\* session.created and session.assigned_server tell only of committed
\* sessions and of their members (service.go:38-61).
THEOREM EventsFollowCommits == Spec => []EventsTellOfCommitted
  <1>1. Init => TellInv
    BY TypeInvInit DEF Init, TellInv, Pending, EventsTellOfCommitted
  <1>2. TellInv => EventsTellOfCommitted
    BY DEF TellInv
  <1> QED BY <1>1, <1>2, TellInvNext, PTL DEF Spec

----------------------------------------------------------------------------
(* The sessions of one match.                                              *)

MadeOf(m) == {s \in sessions : s.cause = m}

\* The replicas that may still make a session of the match.
Open(m) == {r \in Replicas : m \notin published \/ m \in Range(inbox[r])}

PerMatch == \A m \in Matches :
                Cardinality(MadeOf(m)) + Cardinality(Open(m)) <= Cardinality(Replicas)

\* The row of a match follows its event and names its players, who are
\* different.
RowsOfMatches == \A s \in sessions :
    s.cause \in Matches =>
        /\ s.cause \in published
        /\ s.members = Range(PlayersOf[s.cause]) /\ IsInjective(PlayersOf[s.cause])

MatchInv == TypeInv /\ PerMatch /\ RowsOfMatches

LEMMA MadeFinite ==
    ASSUME TypeInv, NEW m \in Matches
    PROVE  /\ IsFiniteSet(MadeOf(m)) /\ Cardinality(MadeOf(m)) \in Nat
           /\ IsFiniteSet(Open(m)) /\ Cardinality(Open(m)) \in Nat
           /\ Cardinality(Replicas) \in Nat
  <1>1. MadeOf(m) \in SUBSET sessions /\ Open(m) \in SUBSET Replicas
    BY DEF MadeOf, Open
  <1>2. IsFiniteSet(MadeOf(m)) /\ IsFiniteSet(Open(m))
    BY <1>1, FiniteAssumption, FS_Subset DEF TypeInv, IdsOK
  <1> QED BY <1>2, FiniteAssumption, FS_CardinalityType

\* A step that makes no session of m and opens no replica to it.
LEMMA NoneMade ==
    ASSUME TypeInv, PerMatch, NEW m \in Matches, MadeOf(m)' = MadeOf(m),
           Open(m)' \in SUBSET Open(m)
    PROVE  Cardinality(MadeOf(m)') + Cardinality(Open(m)') <= Cardinality(Replicas)
  <1>1. Cardinality(Open(m)') \in Nat /\ Cardinality(Open(m)') <= Cardinality(Open(m))
    BY MadeFinite, FS_Subset, FS_CardinalityType
  <1>2. Cardinality(MadeOf(m)) + Cardinality(Open(m)) <= Cardinality(Replicas)
    BY DEF PerMatch
  <1> QED BY <1>1, <1>2, MadeFinite

\* A replica closes and makes a session of m.
LEMMA OneMade ==
    ASSUME TypeInv, PerMatch, NEW m \in Matches, NEW r \in Open(m), NEW row, row \notin sessions,
           MadeOf(m)' = MadeOf(m) \cup {row}, Open(m)' = Open(m) \ {r}
    PROVE  Cardinality(MadeOf(m)') + Cardinality(Open(m)') <= Cardinality(Replicas)
  <1>1. row \notin MadeOf(m)
    BY DEF MadeOf
  <1>2. Cardinality(MadeOf(m)') = Cardinality(MadeOf(m)) + 1
    BY <1>1, MadeFinite, FS_AddElement
  <1>3. Cardinality(Open(m)') = Cardinality(Open(m)) - 1
    BY MadeFinite, FS_RemoveElement
  <1>4. Cardinality(MadeOf(m)) + Cardinality(Open(m)) <= Cardinality(Replicas)
    BY DEF PerMatch
  <1> QED BY <1>2, <1>3, <1>4, MadeFinite

LEMMA MatchInvNext == MatchInv /\ [Next]_vars => MatchInv'
  <1> SUFFICES ASSUME MatchInv, [Next]_vars PROVE MatchInv'
    OBVIOUS
  <1>0. TypeInv /\ TypeOK /\ TypeInv' /\ PerMatch /\ RowsOfMatches
    BY TypeInvNext DEF MatchInv, TypeInv
  <1>1. SUFFICES PerMatch' /\ RowsOfMatches'
    BY <1>0 DEF MatchInv
  <1>2. ASSUME sessions' = sessions, published \subseteq published',
               \A m \in Matches : Open(m)' \in SUBSET Open(m)
        PROVE  PerMatch' /\ RowsOfMatches'
    <2>1. \A m \in Matches : MadeOf(m)' = MadeOf(m)
      BY <1>2 DEF MadeOf
    <2>2. PerMatch'
      BY <1>0, <1>2, <2>1, NoneMade DEF PerMatch
    <2> QED BY <1>0, <1>2, <2>2 DEF RowsOfMatches
  <1>3. ASSUME NEW m \in Matches \ published,
               PublishMatch(m) \/ \E S \in (SUBSET Replicas) \ {{}} : PublishMatchMissed(m, S)
        PROVE  PerMatch' /\ RowsOfMatches'
    <2>1. published' = published \cup {m} /\ sessions' = sessions
      BY <1>3 DEF PublishMatch, PublishMatchMissed
    <2>2. ASSUME NEW S \in SUBSET Replicas,
                 inbox' = [r \in Replicas |-> IF r \in S THEN inbox[r] ELSE Append(inbox[r], m)]
          PROVE  \A r \in Replicas : Range(inbox'[r]) \subseteq Range(inbox[r]) \cup {m}
      BY <1>0, <2>1, <2>2, PublishEffect
    <2>3. \A r \in Replicas : Range(inbox'[r]) \subseteq Range(inbox[r]) \cup {m}
      <3>1. CASE PublishMatch(m)
        <4>1. /\ inbox' = [r \in Replicas |-> IF r \in {} THEN inbox[r] ELSE Append(inbox[r], m)]
              /\ {} \in SUBSET Replicas
          BY <3>1 DEF PublishMatch
        <4> QED BY <2>2, <4>1
      <3>2. CASE \E S \in (SUBSET Replicas) \ {{}} : PublishMatchMissed(m, S)
        BY <2>2, <3>2 DEF PublishMatchMissed
      <3> QED BY <1>3, <3>1, <3>2
    <2>4. \A x \in Matches : Open(x)' \in SUBSET Open(x)
      BY <2>1, <2>3 DEF Open
    <2> QED BY <1>2, <2>1, <2>4
  <1>4. ASSUME NEW r \in Replicas, HandleMatchedEvent(r) \/ StopReplica(r)
        PROVE  PerMatch' /\ RowsOfMatches'
    <2>1. ASSUME NEW m, m = Head(inbox[r]), Receives(r), inbox' = [inbox EXCEPT ![r] = Tail(@)], UNCHANGED published,
                 sessions' = sessions \/ CreateSession(PlayersOf[m][1], PlayersOf[m], m)
          PROVE  PerMatch' /\ RowsOfMatches'
      <3>1. /\ m \in Matches /\ m \in published /\ m \in Range(inbox[r])
            /\ Range(inbox'[r]) = Range(inbox[r]) \ {m}
            /\ \A q \in Replicas \ {r} : inbox'[q] = inbox[q]
        BY <1>0, <2>1, ReceiveEffect
      <3>2. Open(m)' = Open(m) \ {r} /\ r \in Open(m)
        BY <2>1, <3>1 DEF Open
      <3>3. \A x \in Matches : Open(x)' \in SUBSET Open(x)
        BY <2>1, <3>1 DEF Open
      <3>4. CASE sessions' = sessions
        BY <1>2, <2>1, <3>3, <3>4
      <3>5. CASE CreateSession(PlayersOf[m][1], PlayersOf[m], m)
        <4>1. PICK row : /\ sessions' = sessions \cup {row} /\ row \notin sessions
                         /\ row.cause = m /\ row.members = Range(PlayersOf[m])
          <5> DEFINE new == [id |-> NewId, owner |-> PlayersOf[m][1],
                             members |-> Range(PlayersOf[m]), cause |-> m]
          <5>1. sessions' = sessions \cup {new} /\ new \notin sessions
            BY <1>0, <3>5, RowAdded
          <5>2. new.cause = m /\ new.members = Range(PlayersOf[m])
            OBVIOUS
          <5> QED BY <5>1, <5>2
        <4>3. IsInjective(PlayersOf[m])
          BY <3>5 DEF CreateSession, InsertsMembers
        <4>4. RowsOfMatches'
          BY <1>0, <2>1, <3>1, <4>1, <4>3 DEF RowsOfMatches
        <4>5. MadeOf(m)' = MadeOf(m) \cup {row}
          BY <4>1 DEF MadeOf
        <4>6. \A x \in Matches \ {m} : MadeOf(x)' = MadeOf(x)
          BY <4>1 DEF MadeOf
        <4>7. Cardinality(MadeOf(m)') + Cardinality(Open(m)') <= Cardinality(Replicas)
          BY <1>0, <3>1, <3>2, <4>1, <4>5, OneMade
        <4>8. \A x \in Matches \ {m} :
                 Cardinality(MadeOf(x)') + Cardinality(Open(x)') <= Cardinality(Replicas)
          BY <1>0, <3>3, <4>6, NoneMade
        <4>9. PerMatch'
          BY <4>7, <4>8 DEF PerMatch
        <4> QED BY <4>4, <4>9
      <3> QED BY <2>1, <3>4, <3>5
    <2>2. CASE HandleMatched(r)
      BY <2>1, <2>2 DEF HandleMatched
    <2>3. CASE HandleMatchedRejected(r) \/ HandleMatchedFails(r)
      <3>1. /\ Receives(r) /\ inbox' = [inbox EXCEPT ![r] = Tail(@)] /\ UNCHANGED published
            /\ sessions' = sessions
        BY <2>3 DEF HandleMatchedRejected, HandleMatchedFails, Forget
      <3> QED BY <2>1, <3>1
    <2>4. CASE HandleMatchedUncertain(r)
      BY <2>1, <2>4 DEF HandleMatchedUncertain, Forget
    <2>5. CASE AnnounceMatched(r) \/ AnnounceMatchedFails(r)
      <3>1. UNCHANGED <<sessions, inbox, published>>
        BY <2>5 DEF AnnounceMatched, AnnounceMatchedFails
      <3>2. \A x \in Matches : Open(x)' \in SUBSET Open(x)
        BY <3>1 DEF Open
      <3> QED BY <1>2, <3>1, <3>2
    <2>6. CASE StopReplica(r)
      <3>1. sessions' = sessions /\ published' = published /\ inbox' = [inbox EXCEPT ![r] = <<>>]
        BY <2>6 DEF StopReplica
      <3>2. \A q \in Replicas : Range(inbox'[q]) \subseteq Range(inbox[q])
        BY <1>0, <3>1, StopEffect
      <3>3. \A x \in Matches : Open(x)' \in SUBSET Open(x)
        BY <3>1, <3>2 DEF Open
      <3> QED BY <1>2, <3>1, <3>3
    <2> QED BY <1>4, <2>2, <2>3, <2>4, <2>5, <2>6 DEF HandleMatchedEvent
  <1>5. ASSUME NEW k \in Creates, CreateSessionForUser(k)
        PROVE  PerMatch' /\ RowsOfMatches'
    <2>1. UNCHANGED <<inbox, published>>
      BY <1>5 DEF CreateSessionForUser, CreateForUser, AnnounceCreate, CreateFails, CreateUncertain, callback
    <2>2. \A x \in Matches : Open(x)' \in SUBSET Open(x)
      BY <2>1 DEF Open
    <2>3. CASE AnnounceCreate(k) \/ CreateFails(k)
      <3>1. sessions' = sessions
        BY <2>3 DEF AnnounceCreate, CreateFails
      <3> QED BY <1>2, <2>1, <2>2, <3>1
    <2>4. CASE (\E r \in Replicas : CreateForUser(k, r)) \/ CreateUncertain(k)
      <3>1. PICK row : sessions' = sessions \cup {row} /\ row.cause = k
        <4> DEFINE new == [id |-> NewId, owner |-> CreatorOf[k],
                           members |-> Range(<<CreatorOf[k]>>), cause |-> k]
        <4>1. sessions' = sessions \cup {new}
          BY <2>4 DEF CreateForUser, CreateUncertain, CreateSession
        <4>2. new.cause = k
          OBVIOUS
        <4> QED BY <4>1, <4>2
      <3>2. k \notin Matches
        BY CausesAssumption
      <3>3. \A x \in Matches : MadeOf(x)' = MadeOf(x)
        BY <3>1, <3>2 DEF MadeOf
      <3>4. PerMatch'
        BY <1>0, <2>2, <3>3, NoneMade DEF PerMatch
      <3> QED BY <1>0, <2>1, <3>1, <3>2, <3>4 DEF RowsOfMatches
    <2> QED BY <1>5, <2>3, <2>4 DEF CreateSessionForUser
  <1>6. ASSUME NEW a \in Assigns, AssignServer(a)
        PROVE  PerMatch' /\ RowsOfMatches'
    <2>1. UNCHANGED <<sessions, inbox, published>>
      BY <1>6 DEF AssignServer, CheckMember, AnnounceAssigned, AssignFails, callback
    <2>2. \A x \in Matches : Open(x)' \in SUBSET Open(x)
      BY <2>1 DEF Open
    <2> QED BY <1>2, <2>1, <2>2
  <1>7. CASE UNCHANGED vars
    <2>1. \A x \in Matches : Open(x)' \in SUBSET Open(x)
      BY <1>7 DEF Open, vars
    <2> QED BY <1>2, <1>7, <2>1 DEF vars
  <1> QED BY <1>3, <1>4, <1>5, <1>6, <1>7 DEF Next

LEMMA MatchInvInit == Init => MatchInv
  <1> SUFFICES ASSUME Init PROVE MatchInv
    OBVIOUS
  <1>1. \A m \in Matches : MadeOf(m) = {} /\ Open(m) = Replicas
    BY DEF Init, MadeOf, Open
  <1>2. Cardinality({}) = 0 /\ Cardinality(Replicas) \in Nat
    BY FS_EmptySet, FS_CardinalityType, FiniteAssumption
  <1>3. PerMatch
    BY <1>1, <1>2 DEF PerMatch
  <1> QED BY <1>3, TypeInvInit DEF Init, MatchInv, RowsOfMatches

\* A match becomes no more sessions than there are replicas, whatever fails: a
\* failed callback is not repeated (service.go:93-115).
THEOREM ReplicasBoundSessions == Spec => []OneSessionPerReplica
  <1>1. MatchInv => OneSessionPerReplica
    <2> SUFFICES ASSUME MatchInv, NEW m \in Matches
                 PROVE  Cardinality(MadeOf(m)) <= Cardinality(Replicas)
      BY DEF OneSessionPerReplica, MadeOf
    <2>1. TypeInv /\ Cardinality(MadeOf(m)) + Cardinality(Open(m)) <= Cardinality(Replicas)
      BY DEF MatchInv, PerMatch
    <2> QED BY <2>1, MadeFinite
  <1> QED BY <1>1, MatchInvInit, MatchInvNext, PTL DEF Spec

\* Matches of two players become sessions of two members: a player matched with
\* itself gets none (service.go:93-115, repository.go:23-55).
THEOREM TwoPlayersMeet ==
    ASSUME \A m \in Matches : Len(PlayersOf[m]) = 2
    PROVE  Spec => []MatchSessionsHaveTwoPlayers
  <1>1. MatchInv => MatchSessionsHaveTwoPlayers
    <2> SUFFICES ASSUME MatchInv, NEW s \in sessions, s.cause \in Matches
                 PROVE  Cardinality(s.members) = 2
      BY DEF MatchSessionsHaveTwoPlayers
    <2> DEFINE p == PlayersOf[s.cause]
    <2>1. s.members = Range(p) /\ IsInjective(p)
      BY DEF MatchInv, RowsOfMatches
    <2>2. p \in Seq(Users) /\ Len(p) = 2
      BY PlayersAssumption
    <2> HIDE DEF p
    <2>3. DOMAIN p = {1, 2}
      BY <2>2
    <2>4. Range(p) = {p[1], p[2]} /\ p[1] # p[2]
      BY <2>1, <2>3 DEF Range, IsInjective
    <2>5. IsFiniteSet({p[1]}) /\ Cardinality({p[1]}) = 1
      BY FS_Singleton
    <2>6. Cardinality({p[1]} \cup {p[2]}) = 2
      BY <2>4, <2>5, FS_AddElement
    <2>7. {p[1]} \cup {p[2]} = {p[1], p[2]}
      OBVIOUS
    <2> QED BY <2>1, <2>4, <2>6, <2>7
  <1> QED BY <1>1, MatchInvInit, MatchInvNext, PTL DEF Spec

----------------------------------------------------------------------------
(* Sessions nobody hears of.                                               *)

SilenceInv == TypeInv /\ SilenceIsAFailure

\* Somebody announced the session or a callback is about to.
Heard(sid) == sid \in created \/ \E r \in Replicas : job[r] = sid

LEMMA SilentAre == SilentMatches = {s \in sessions : s.cause \in Matches /\ ~Heard(s.id)}
  BY DEF SilentMatches, Heard

LEMMA StaysHeard ==
    ASSUME SilenceInv, faults' \in Nat, faults <= faults',
           \A s \in sessions' : s \in sessions \/ s.cause \notin Matches \/ Heard(s.id)',
           \A s \in sessions : Heard(s.id) => Heard(s.id)'
    PROVE  SilenceIsAFailure'
  <1>1. SilentMatches' \in SUBSET SilentMatches
    <2>1. SilentMatches' = {s \in sessions' : s.cause \in Matches /\ ~Heard(s.id)'}
      BY SilentAre DEF SilentMatches, Heard
    <2> QED BY <2>1, SilentAre
  <1>2. SilentMatches \in SUBSET sessions /\ IsFiniteSet(sessions)
    BY DEF SilentMatches, SilenceInv, TypeInv, IdsOK
  <1>3. /\ Cardinality(SilentMatches) \in Nat /\ Cardinality(SilentMatches') \in Nat
        /\ Cardinality(SilentMatches') <= Cardinality(SilentMatches)
    BY <1>1, <1>2, FS_Subset, FS_CardinalityType
  <1> QED BY <1>3 DEF SilenceInv, SilenceIsAFailure, TypeInv, TypeOK

\* One failure silences one session of a match.
LEMMA OneSilenced ==
    ASSUME SilenceInv, faults' = faults + 1, NEW row,
           \A s \in sessions' : s \in sessions \/ s = row,
           \A s \in sessions : Heard(s.id) => s = row \/ Heard(s.id)'
    PROVE  SilenceIsAFailure'
  <1>1. SilentMatches' \in SUBSET (SilentMatches \cup {row})
    <2>1. SilentMatches' = {s \in sessions' : s.cause \in Matches /\ ~Heard(s.id)'}
      BY SilentAre DEF SilentMatches, Heard
    <2> QED BY <2>1, SilentAre
  <1>2. SilentMatches \in SUBSET sessions /\ IsFiniteSet(sessions)
    BY DEF SilentMatches, SilenceInv, TypeInv, IdsOK
  <1>3. IsFiniteSet(SilentMatches) /\ Cardinality(SilentMatches) \in Nat
    BY <1>2, FS_Subset, FS_CardinalityType
  <1>4. /\ IsFiniteSet(SilentMatches \cup {row})
        /\ Cardinality(SilentMatches \cup {row}) <= Cardinality(SilentMatches) + 1
    BY <1>3, FS_AddElement
  <1>5. /\ Cardinality(SilentMatches') \in Nat /\ Cardinality(SilentMatches \cup {row}) \in Nat
        /\ Cardinality(SilentMatches') <= Cardinality(SilentMatches \cup {row})
    BY <1>1, <1>4, FS_Subset, FS_CardinalityType
  <1>6. faults \in Nat /\ Cardinality(SilentMatches) <= faults
    BY DEF SilenceInv, SilenceIsAFailure, TypeInv, TypeOK
  <1> QED BY <1>3, <1>4, <1>5, <1>6 DEF SilenceIsAFailure

\* A call adds no row but its own, and a callback none but that of a match.
LEMMA CreateAddsRow ==
    ASSUME NEW k \in Creates, CreateSessionForUser(k)
    PROVE  \A s \in sessions' : s \in sessions \/ s.cause = k
  BY DEF CreateSessionForUser, CreateForUser, AnnounceCreate, CreateFails, CreateUncertain,
         CreateSession

LEMMA MatchAddsRow ==
    ASSUME TypeInv, NEW r \in Replicas, HandleMatchedEvent(r)
    PROVE  \A s \in sessions' : s \in sessions \/ s.cause \in Matches
  <1>1. CASE HandleMatched(r) \/ HandleMatchedUncertain(r)
    <2> DEFINE m == Head(inbox[r])
    <2>1. Receives(r) /\ CreateSession(PlayersOf[m][1], PlayersOf[m], m)
      BY <1>1 DEF HandleMatched, HandleMatchedUncertain
    <2>2. m \in Matches
      BY <2>1, TakeMessage DEF Receives, TypeInv, TypeOK
    <2> QED BY <2>1, <2>2 DEF CreateSession
  <1>2. CASE ~(HandleMatched(r) \/ HandleMatchedUncertain(r))
    BY <1>2 DEF HandleMatchedEvent, HandleMatchedRejected, HandleMatchedFails,
                AnnounceMatched, AnnounceMatchedFails
  <1> QED BY <1>1, <1>2

\* A session about to be announced is named by its id.
LEMMA RowOfId ==
    ASSUME TypeInv, NEW sid
    PROVE  \E row : \A s \in sessions : s.id = sid => s = row
  <1>1. CASE \E s \in sessions : s.id = sid
    BY <1>1 DEF TypeInv, IdsOK
  <1>2. CASE ~\E s \in sessions : s.id = sid
    BY <1>2
  <1> QED BY <1>1, <1>2

LEMMA SilenceInvNext == SilenceInv /\ [Next]_vars => SilenceInv'
  <1> SUFFICES ASSUME SilenceInv, [Next]_vars PROVE SilenceInv'
    OBVIOUS
  <1>0. /\ TypeInv /\ TypeOK /\ TypeInv' /\ faults \in Nat
        /\ \A s \in sessions : s.id # None
    BY TypeInvNext, NoneAssumption DEF SilenceInv, TypeInv, TypeOK, Rows
  <1>1. SUFFICES SilenceIsAFailure'
    BY <1>0 DEF SilenceInv
  <1>2. ASSUME UNCHANGED job, created \subseteq created', faults' = faults \/ Fault,
               \A s \in sessions' : s \in sessions \/ s.cause \notin Matches
        PROVE  SilenceIsAFailure'
    <2>1. \A s \in sessions : Heard(s.id) => Heard(s.id)'
      BY <1>2 DEF Heard
    <2>2. faults' \in Nat /\ faults <= faults'
      BY <1>0, <1>2 DEF Fault
    <2> QED BY <1>2, <2>1, <2>2, StaysHeard
  <1>3. ASSUME NEW m \in Matches \ published,
               PublishMatch(m) \/ \E S \in (SUBSET Replicas) \ {{}} : PublishMatchMissed(m, S)
        PROVE  SilenceIsAFailure'
    BY <1>2, <1>3 DEF PublishMatch, PublishMatchMissed, http
  <1>4. ASSUME NEW r \in Replicas, HandleMatchedEvent(r) \/ StopReplica(r)
        PROVE  SilenceIsAFailure'
    <2> DEFINE m == Head(inbox[r])
    <2>1. CASE HandleMatched(r)
      <3>1. /\ CreateSession(PlayersOf[m][1], PlayersOf[m], m) /\ job[r] = None
            /\ UNCHANGED <<created, faults>>
            /\ job'[r] = NewId /\ \A q \in Replicas \ {r} : job'[q] = job[q]
        BY <1>0, <2>1 DEF HandleMatched, Receives, http, TypeOK
      <3>2. \A s \in sessions' : s \in sessions \/ s.id = NewId
        BY <3>1 DEF CreateSession
      <3>3. \A s \in sessions' : s \in sessions \/ Heard(s.id)'
        BY <3>1, <3>2 DEF Heard
      <3>4. \A s \in sessions : Heard(s.id) => Heard(s.id)'
        BY <1>0, <3>1 DEF Heard
      <3>5. faults' \in Nat /\ faults <= faults'
        BY <1>0, <3>1
      <3> QED BY <3>3, <3>4, <3>5, StaysHeard
    <2>2. CASE HandleMatchedRejected(r) \/ HandleMatchedFails(r)
      BY <1>2, <2>2 DEF HandleMatchedRejected, HandleMatchedFails, Forget, http
    <2>3. CASE HandleMatchedUncertain(r)
      <3>1. /\ CreateSession(PlayersOf[m][1], PlayersOf[m], m)
            /\ UNCHANGED <<job, created>> /\ faults' = faults + 1
        BY <2>3 DEF HandleMatchedUncertain, Forget, http, Fault
      <3>2. PICK row : sessions' = sessions \cup {row}
        BY <3>1 DEF CreateSession
      <3>3. \A s \in sessions : Heard(s.id) => Heard(s.id)'
        BY <3>1 DEF Heard
      <3> QED BY <3>1, <3>2, <3>3, OneSilenced
    <2>4. CASE AnnounceMatched(r)
      <3>1. /\ UNCHANGED <<sessions, faults>> /\ created' = created \cup {job[r]}
            /\ \A q \in Replicas \ {r} : job'[q] = job[q]
        BY <1>0, <2>4 DEF AnnounceMatched, TypeOK
      <3>2. \A s \in sessions : Heard(s.id) => Heard(s.id)'
        BY <3>1 DEF Heard
      <3>3. faults' \in Nat /\ faults <= faults'
        BY <1>0, <3>1
      <3> QED BY <3>1, <3>2, <3>3, StaysHeard
    <2>5. CASE AnnounceMatchedFails(r) \/ StopReplica(r)
      <3>1. /\ UNCHANGED <<sessions, created>> /\ faults' = faults + 1
            /\ \A q \in Replicas \ {r} : job'[q] = job[q]
        BY <1>0, <2>5 DEF AnnounceMatchedFails, StopReplica, TypeOK, Fault
      <3>2. PICK row : \A s \in sessions : s.id = job[r] => s = row
        BY <1>0, RowOfId
      <3>3. \A s \in sessions : Heard(s.id) => s = row \/ Heard(s.id)'
        BY <3>1, <3>2 DEF Heard
      <3> QED BY <3>1, <3>3, OneSilenced
    <2> QED BY <1>4, <2>1, <2>2, <2>3, <2>4, <2>5 DEF HandleMatchedEvent
  <1>5. ASSUME NEW k \in Creates, CreateSessionForUser(k) PROVE SilenceIsAFailure'
    <2>1. /\ UNCHANGED job /\ created \subseteq created' /\ (faults' = faults \/ Fault)
      BY <1>5 DEF CreateSessionForUser, CreateForUser, AnnounceCreate, CreateFails,
                  CreateUncertain, callback
    <2>2. \A s \in sessions' : s \in sessions \/ s.cause = k
      BY <1>5, CreateAddsRow
    <2> QED BY <1>2, <2>1, <2>2, CausesAssumption
  <1>6. ASSUME NEW a \in Assigns, AssignServer(a) PROVE SilenceIsAFailure'
    BY <1>2, <1>6 DEF AssignServer, CheckMember, AnnounceAssigned, AssignFails, callback
  <1>7. CASE UNCHANGED vars
    BY <1>2, <1>7 DEF vars
  <1> QED BY <1>3, <1>4, <1>5, <1>6, <1>7 DEF Next

\* No more sessions of matches stay unannounced than calls failed, events were
\* lost and replicas stopped (service.go:93-115).
THEOREM SilenceHasACause == Spec => []SilenceIsAFailure
  <1>1. Init => SilenceInv
    <2> SUFFICES ASSUME Init PROVE SilenceIsAFailure
      BY TypeInvInit DEF SilenceInv
    <2>1. SilentMatches = {} /\ faults = 0
      BY DEF Init, SilentMatches
    <2> QED BY <2>1, FS_EmptySet DEF SilenceIsAFailure
  <1>2. SilenceInv => SilenceIsAFailure
    BY DEF SilenceInv
  <1> QED BY <1>1, <1>2, SilenceInvNext, PTL DEF Spec

----------------------------------------------------------------------------
(* Sessions made over HTTP.                                                *)

\* The row of a create call is there when the call is past its commit, and the
\* call knows it by its id unless it failed; a call that ended well announced
\* what it knows.
CreateRows ==
    /\ \A s \in sessions : s.cause \in Creates =>
          /\ create[s.cause].st # "new"
          /\ create[s.cause].st \in {"committed", "created"} => create[s.cause].sid = s.id
    /\ \A k \in Creates : create[k].st = "created" => create[k].sid \in created

CreateInv == TypeInv /\ CreateRows

LEMMA CreateInvNext == CreateInv /\ [Next]_vars => CreateInv'
  <1> SUFFICES ASSUME CreateInv, [Next]_vars PROVE CreateInv'
    OBVIOUS
  <1>0. TypeInv /\ TypeOK /\ TypeInv' /\ CreateRows
    BY TypeInvNext DEF CreateInv, TypeInv
  <1>1. SUFFICES CreateRows'
    BY <1>0 DEF CreateInv
  <1>2. ASSUME created \subseteq created',
               \A s \in sessions' : s \in sessions \/ s.cause \in Matches,
               \A k \in Creates : \/ create'[k] = create[k]
                                  \/ create[k].st = "committed" /\ create'[k].st = "error"
        PROVE  CreateRows'
    BY <1>0, <1>2, CausesAssumption DEF CreateRows
  <1>3. ASSUME NEW m \in Matches \ published,
               PublishMatch(m) \/ \E S \in (SUBSET Replicas) \ {{}} : PublishMatchMissed(m, S)
        PROVE  CreateRows'
    BY <1>2, <1>3 DEF PublishMatch, PublishMatchMissed, http
  <1>4. ASSUME NEW r \in Replicas, HandleMatchedEvent(r) \/ StopReplica(r)
        PROVE  CreateRows'
    <2>1. CASE HandleMatchedEvent(r)
      <3>1. created \subseteq created' /\ create' = create
        BY <2>1 DEF HandleMatchedEvent, HandleMatched, HandleMatchedRejected, Forget, http,
                    HandleMatchedFails, HandleMatchedUncertain, AnnounceMatched,
                    AnnounceMatchedFails
      <3>2. \A s \in sessions' : s \in sessions \/ s.cause \in Matches
        BY <1>0, <2>1, MatchAddsRow
      <3> QED BY <1>2, <3>1, <3>2
    <2>2. CASE StopReplica(r)
      <3>1. \A k \in Creates : create'[k] = create[k] \/ create'[k].st = "error"
        BY <1>0, <2>2, StopEndsCalls
      <3>2. \A k \in Creates : create[k].st # "committed" => create'[k] = create[k]
        BY <1>0, <2>2, StopEndsCalls
      <3>3. sessions' = sessions /\ created' = created
        BY <2>2 DEF StopReplica
      <3> QED BY <1>2, <3>1, <3>2, <3>3
    <2> QED BY <1>4, <2>1, <2>2
  <1>5. ASSUME NEW k \in Creates, CreateSessionForUser(k) PROVE CreateRows'
    <2>0. /\ \A j \in Creates \ {k} : create'[j] = create[j]
          /\ created \subseteq created' /\ create[k] \in CreateCalls
      BY <1>0, <1>5 DEF CreateSessionForUser, CreateForUser, AnnounceCreate, CreateFails,
                        CreateUncertain, TypeOK
    <2>1. ASSUME NEW r \in Replicas, CreateForUser(k, r) PROVE CreateRows'
      <3>1. /\ create[k].st = "new" /\ create'[k].st = "committed" /\ create'[k].sid = NewId
        BY <1>0, <2>1 DEF CreateForUser, TypeOK
      <3>2. \A s \in sessions' : s \in sessions \/ (s.cause = k /\ s.id = NewId)
        BY <2>1 DEF CreateForUser, CreateSession
      <3> QED BY <1>0, <2>0, <3>1, <3>2 DEF CreateRows
    <2>2. CASE AnnounceCreate(k)
      <3>1. /\ create[k].st = "committed" /\ create'[k].st = "created"
            /\ create'[k].sid = create[k].sid /\ create[k].sid \in created'
            /\ sessions' = sessions
        BY <1>0, <2>2 DEF AnnounceCreate, TypeOK, CreateCalls
      <3> QED BY <1>0, <2>0, <3>1 DEF CreateRows
    <2>3. CASE CreateFails(k) \/ CreateUncertain(k)
      <3>1. create'[k].st = "error"
        BY <1>0, <2>3 DEF CreateFails, CreateUncertain, TypeOK, CreateCalls
      <3>2. \A s \in sessions' : s \in sessions \/ s.cause = k
        BY <1>5, CreateAddsRow
      <3> QED BY <1>0, <2>0, <3>1, <3>2 DEF CreateRows
    <2> QED BY <1>5, <2>1, <2>2, <2>3 DEF CreateSessionForUser
  <1>6. ASSUME NEW a \in Assigns, AssignServer(a) PROVE CreateRows'
    BY <1>2, <1>6 DEF AssignServer, CheckMember, AnnounceAssigned, AssignFails, callback
  <1>7. CASE UNCHANGED vars
    BY <1>2, <1>7 DEF vars
  <1> QED BY <1>3, <1>4, <1>5, <1>6, <1>7 DEF Next

\* However many calls a stop ends, none of them is answered 201 without its
\* event (service.go:38-47).
THEOREM SuccessIsAnnounced == Spec => []SilentCreateIsNoSuccess
  <1>1. Init => CreateInv
    BY TypeInvInit DEF Init, CreateInv, CreateRows
  <1>2. CreateInv => SilentCreateIsNoSuccess
    BY DEF CreateInv, TypeInv, TypeOK, CreateCalls, CreateRows, SilentCreateIsNoSuccess
  <1> QED BY <1>1, <1>2, CreateInvNext, PTL DEF Spec
=============================================================================
