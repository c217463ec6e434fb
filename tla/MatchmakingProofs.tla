------------------------- MODULE MatchmakingProofs -------------------------
(* Proofs about Matchmaking, for any tickets, users, workers and faults.   *)
EXTENDS Matchmaking, FiniteSetTheorems, SequenceTheorems, TLAPS

----------------------------------------------------------------------------
(* Sequences of tickets.                                                   *)

\* RPUSH adds one element behind the others.
LEMMA AppendElements ==
    ASSUME NEW T, NEW s \in Seq(T), NEW e \in T
    PROVE  /\ Append(s, e) \in Seq(T)
           /\ Range(Append(s, e)) = Range(s) \cup {e}
           /\ IsInjective(s) /\ e \notin Range(s) => IsInjective(Append(s, e))
  <1> DEFINE a == Append(s, e)
  <1>1. a \in Seq(T) /\ Len(a) = Len(s) + 1
    OBVIOUS
  <1>2. \A i \in 1..Len(s) : a[i] = s[i]
    OBVIOUS
  <1>3. a[Len(s) + 1] = e
    OBVIOUS
  <1>4. DOMAIN s = 1..Len(s) /\ DOMAIN a = 1..(Len(s) + 1) /\ Len(s) \in Nat
    BY <1>1
  <1> HIDE DEF a
  <1>5. DOMAIN a = DOMAIN s \cup {Len(s) + 1}
    BY <1>4
  <1>6. Range(a) = Range(s) \cup {e}
    BY <1>2, <1>3, <1>4, <1>5 DEF Range
  <1>7. IsInjective(s) /\ e \notin Range(s) => IsInjective(a)
    BY <1>2, <1>3, <1>4, <1>5 DEF Range, IsInjective
  <1> QED BY <1>1, <1>6, <1>7 DEF a

\* LPOP with a count cuts the list in two.
LEMMA CutElements ==
    ASSUME NEW T, NEW s \in Seq(T), NEW n \in 1..Len(s)
    PROVE  LET front == SubSeq(s, 1, n)
               rest  == SubSeq(s, n + 1, Len(s))
           IN  /\ front \in Seq(T) /\ Len(front) = n
               /\ \A i \in 1..n : front[i] = s[i]
               /\ rest \in Seq(T) /\ Len(rest) = Len(s) - n
               /\ \A i \in 1..(Len(s) - n) : rest[i] = s[n + i]
               /\ Range(s) = Range(front) \cup Range(rest)
               /\ IsInjective(s) => /\ IsInjective(front) /\ IsInjective(rest)
                                 /\ Range(front) \cap Range(rest) = {}
  <1> DEFINE front == SubSeq(s, 1, n)
             rest  == SubSeq(s, n + 1, Len(s))
             r     == Len(s) - n
  <1>0. Len(s) \in Nat /\ n \in Nat /\ r \in Nat /\ DOMAIN s = 1..Len(s)
    OBVIOUS
  <1>1. front \in Seq(T) /\ Len(front) = n /\ \A i \in 1..n : front[i] = s[i]
    <2>1. \A i \in 1..n : s[i] \in T
      BY <1>0
    <2>2. /\ front \in Seq(T)
          /\ Len(front) = IF 1 <= n THEN n - 1 + 1 ELSE 0
          /\ \A i \in 1..(n - 1 + 1) : front[i] = s[1 + i - 1]
      BY <1>0, <2>1, SubSeqProperties
    <2> HIDE DEF front
    <2> QED BY <1>0, <2>2
  <1>2. rest \in Seq(T) /\ Len(rest) = r /\ \A i \in 1..r : rest[i] = s[n + i]
    <2>1. \A i \in (n + 1)..Len(s) : s[i] \in T
      BY <1>0
    <2>2. /\ rest \in Seq(T)
          /\ Len(rest) = IF n + 1 <= Len(s) THEN Len(s) - (n + 1) + 1 ELSE 0
          /\ \A i \in 1..(Len(s) - (n + 1) + 1) : rest[i] = s[(n + 1) + i - 1]
      BY <1>0, <2>1, SubSeqProperties
    <2> HIDE DEF rest
    <2>3. Len(rest) = r
      <3>1. CASE n + 1 <= Len(s)
        <4>1. Len(rest) = Len(s) - (n + 1) + 1
          BY <2>2, <3>1
        <4> QED BY <1>0, <4>1
      <3>2. CASE ~(n + 1 <= Len(s))
        <4>1. Len(rest) = 0
          BY <2>2, <3>2
        <4>2. n = Len(s)
          <5>1. n <= Len(s)
            BY <1>0
          <5> HIDE DEF front, r
          <5>2. \A l, k \in Nat : k <= l /\ ~(k + 1 <= l) => k = l
            OBVIOUS
          <5> QED BY <1>0, <3>2, <5>1, <5>2
        <4> QED BY <1>0, <4>1, <4>2
      <3> QED BY <3>1, <3>2
    <2>4. \A i \in 1..r : rest[i] = s[n + i]
      <3> SUFFICES ASSUME NEW i \in 1..r PROVE rest[i] = s[n + i]
        OBVIOUS
      <3>1. i \in 1..(Len(s) - (n + 1) + 1) /\ (n + 1) + i - 1 = n + i
        BY <1>0
      <3> QED BY <2>2, <3>1
    <2> QED BY <2>2, <2>3, <2>4
  <1>3. DOMAIN front = 1..n /\ DOMAIN rest = 1..r
    <2> HIDE DEF front, rest
    <2> QED BY <1>1, <1>2
  <1> HIDE DEF front, rest, r
  <1>5. \A i \in 1..Len(s) : i \in 1..n \/ (i - n \in 1..r /\ i = n + (i - n))
    BY <1>0 DEF r
  <1>6. \A i \in 1..r : n + i \in 1..Len(s) /\ n + i \notin 1..n
    BY <1>0 DEF r
  <1>7. 1..n \subseteq 1..Len(s)
    BY <1>0
  <1>8. Range(s) = Range(front) \cup Range(rest)
    <2>1. Range(s) \subseteq Range(front) \cup Range(rest)
      BY <1>0, <1>1, <1>2, <1>3, <1>5 DEF Range
    <2>2. Range(front) \subseteq Range(s) /\ Range(rest) \subseteq Range(s)
      BY <1>0, <1>1, <1>2, <1>3, <1>6, <1>7 DEF Range
    <2> QED BY <2>1, <2>2
  <1>9. ASSUME IsInjective(s)
        PROVE  /\ IsInjective(front) /\ IsInjective(rest)
               /\ Range(front) \cap Range(rest) = {}
    <2>1. IsInjective(front)
      BY <1>0, <1>1, <1>3, <1>7, <1>9 DEF IsInjective
    <2>2. IsInjective(rest)
      <3> SUFFICES ASSUME NEW i \in 1..r, NEW j \in 1..r, rest[i] = rest[j]
                   PROVE  i = j
        BY <1>3 DEF IsInjective
      <3>1. s[n + i] = s[n + j]
        BY <1>2
      <3>2. n + i = n + j
        BY <1>0, <1>6, <1>9, <3>1 DEF IsInjective
      <3> QED BY <1>0, <3>2
    <2>3. Range(front) \cap Range(rest) = {}
      <3> SUFFICES ASSUME NEW i \in 1..n, NEW j \in 1..r, front[i] = rest[j]
                   PROVE  FALSE
        BY <1>3 DEF Range
      <3>1. s[i] = s[n + j]
        BY <1>1, <1>2
      <3> QED BY <1>0, <1>6, <1>7, <1>9, <3>1 DEF IsInjective
    <2> QED BY <2>1, <2>2, <2>3
  <1> QED BY <1>1, <1>2, <1>8, <1>9 DEF front, rest, r

\* LPUSH puts one element before the others.
LEMMA PushFrontElements ==
    ASSUME NEW T, NEW h \in Seq(T), Len(h) = 1, NEW s \in Seq(T)
    PROVE  /\ h \o s \in Seq(T) /\ Len(h \o s) = Len(s) + 1
           /\ (h \o s)[1] = h[1]
           /\ \A i \in 1..Len(s) : (h \o s)[i + 1] = s[i]
           /\ Range(h) = {h[1]} /\ h[1] \in T
           /\ Range(h \o s) = Range(h) \cup Range(s)
           /\ IsInjective(s) /\ h[1] \notin Range(s) => IsInjective(h \o s)
  <1> DEFINE p == h \o s
  <1>0. Len(s) \in Nat /\ DOMAIN s = 1..Len(s) /\ DOMAIN h = 1..1
    OBVIOUS
  <1>1. p \in Seq(T) /\ Len(p) = Len(s) + 1 /\ DOMAIN p = 1..(Len(s) + 1)
    <2>1. p \in Seq(T) /\ Len(p) = Len(h) + Len(s)
      BY ConcatProperties
    <2> HIDE DEF p
    <2> QED BY <1>0, <2>1
  <1>2. p[1] = h[1] /\ h[1] \in T
    OBVIOUS
  <1>3. \A i \in 1..Len(s) : p[i + 1] = s[i]
    <2> SUFFICES ASSUME NEW i \in 1..Len(s) PROVE p[i + 1] = s[i]
      OBVIOUS
    <2>1. i + 1 \in 1..(Len(h) + Len(s)) /\ ~(i + 1 <= Len(h)) /\ i + 1 - Len(h) = i
      BY <1>0
    <2>2. p[i + 1] = IF i + 1 <= Len(h) THEN h[i + 1] ELSE s[i + 1 - Len(h)]
      BY <2>1, ConcatProperties
    <2> QED BY <2>1, <2>2
  <1>4. Range(h) = {h[1]}
    BY <1>0 DEF Range
  <1> HIDE DEF p
  <1>5. \A i \in DOMAIN p : i = 1 \/ (i - 1 \in DOMAIN s /\ p[i] = s[i - 1])
    BY <1>0, <1>1, <1>3
  <1>6. \A i \in DOMAIN s : i + 1 \in DOMAIN p /\ p[i + 1] = s[i]
    BY <1>0, <1>1, <1>3
  <1>7. 1 \in DOMAIN p
    BY <1>0, <1>1
  <1>8. Range(p) = Range(h) \cup Range(s)
    <2>1. Range(p) \subseteq Range(h) \cup Range(s)
      BY <1>2, <1>4, <1>5 DEF Range
    <2>2. Range(s) \subseteq Range(p) /\ h[1] \in Range(p)
      BY <1>2, <1>6, <1>7 DEF Range
    <2> QED BY <2>1, <2>2, <1>4
  <1>9. IsInjective(s) /\ h[1] \notin Range(s) => IsInjective(p)
    BY <1>0, <1>1, <1>2, <1>5 DEF Range, IsInjective
  <1> QED BY <1>1, <1>2, <1>3, <1>4, <1>8, <1>9 DEF p

----------------------------------------------------------------------------
(* Types, and how many tickets a worker holds.                             *)

HeldShape ==
    \A w \in Workers :
        /\ at[w] = "one" => Len(held[w]) = 1
        /\ at[w] \in {"pair", "notifyA", "notifyB"} => Len(held[w]) = 2

TypeInv == TypeOK /\ HeldShape

\* What the first two elements of a longer sequence are made of.
LEMMA PairOf ==
    ASSUME NEW T, NEW s \in Seq(T), Len(s) = 2
    PROVE  s[1] \in T /\ s[2] \in T /\ Range(s) = {s[1], s[2]}
  <1>1. DOMAIN s = {1, 2}
    OBVIOUS
  <1>2. s[1] \in T /\ s[2] \in T
    OBVIOUS
  <1> QED BY <1>1, <1>2 DEF Range

LEMMA TypeInvInit == Init => TypeInv
  BY FaultsAssumption DEF Init, TypeInv, TypeOK, HeldShape

\* LPOP takes n tickets from the head of the list.
LEMMA PopTypes ==
    ASSUME TypeInv, NEW w \in Workers, NEW n \in 1..2, n <= Len(queue),
           NEW place \in {"one", "pair"}, place = "one" <=> n = 1,
           Pop(w, n, place),
           UNCHANGED <<requests, matches, notices, lost, faults>>
    PROVE  TypeInv'
  <1>0. queue \in Seq(Tickets) /\ n \in 1..Len(queue) /\ Len(queue) \in Nat
    BY DEF TypeInv, TypeOK
  <1>1. /\ SubSeq(queue, 1, n) \in Seq(Tickets) /\ Len(SubSeq(queue, 1, n)) = n
        /\ SubSeq(queue, n + 1, Len(queue)) \in Seq(Tickets)
    BY <1>0, CutElements
  <1>2. TypeOK'
    BY <1>1 DEF TypeInv, TypeOK, Pop, requests
  <1>3. HeldShape'
    BY <1>1 DEF TypeInv, TypeOK, HeldShape, Pop
  <1> QED BY <1>2, <1>3 DEF TypeInv

LEMMA DropTypes ==
    ASSUME TypeInv, NEW w \in Workers, NEW next \in {"idle", "stopped"}, Drop(w, next)
    PROVE  TypeInv'
  <1>1. Held(w) \subseteq Tickets
    BY DEF TypeInv, TypeOK, Held
  <1>2. TypeOK'
    BY <1>1, FaultsAssumption DEF TypeInv, TypeOK, Drop, Fault, requests
  <1>3. HeldShape'
    BY DEF TypeInv, TypeOK, HeldShape, Drop
  <1> QED BY <1>2, <1>3 DEF TypeInv

LEMMA TypeInvNext == TypeInv /\ [Next]_vars => TypeInv'
  <1> SUFFICES ASSUME TypeInv, [Next]_vars PROVE TypeInv'
    OBVIOUS
  <1> USE FaultsAssumption DEF TypeInv, TypeOK, HeldShape, Fault, workers, requests
  <1>1. ASSUME NEW t \in Tickets, HandleEnqueue(t) PROVE TypeInv'
    <2>1. ASSUME NEW next \in {"pushed", "error"}, Push(t, next), faults' \in 0..MaxFaults
          PROVE  TypeInv'
      <3>1. Append(queue, t) \in Seq(Tickets)
        OBVIOUS
      <3> QED BY <2>1, <3>1 DEF Push
    <2>2. CASE Enqueue(t)
      BY <2>1, <2>2 DEF Enqueue
    <2>3. CASE EnqueueAnswerLost(t)
      BY <2>1, <2>3 DEF EnqueueAnswerLost
    <2>4. CASE EnqueueFails(t)
      BY <2>4 DEF EnqueueFails
    <2>5. CASE PublishEnqueued(t)
      BY <2>5 DEF PublishEnqueued
    <2>6. CASE PublishEnqueuedFails(t)
      BY <2>6 DEF PublishEnqueuedFails
    <2> QED BY <1>1, <2>2, <2>3, <2>4, <2>5, <2>6 DEF HandleEnqueue
  <1>2. ASSUME NEW w \in Workers, DequeuePair(w) PROVE TypeInv'
    <2>1. CASE PopOne(w)
      BY <2>1, PopTypes DEF PopOne
    <2>2. CASE PopPair(w)
      BY <2>2, PopTypes DEF PopPair
    <2>3. CASE PopAnswerLost(w)
      <3> DEFINE n == IF Len(queue) = 1 THEN 1 ELSE 2
      <3>1. n \in 1..Len(queue) /\ Len(queue) \in Nat
        <4>1. Len(queue) \in Nat \ {0}
          BY <2>3, EmptySeq DEF PopAnswerLost
        <4>2. \A l \in Nat \ {0} : (IF l = 1 THEN 1 ELSE 2) \in 1..l
          OBVIOUS
        <4> QED BY <4>1, <4>2
      <3>2. /\ SubSeq(queue, n + 1, Len(queue)) \in Seq(Tickets)
            /\ {queue[i] : i \in 1..n} \subseteq Tickets
        <4> HIDE DEF n
        <4>1. SubSeq(queue, n + 1, Len(queue)) \in Seq(Tickets)
          BY <3>1, CutElements
        <4>2. \A i \in 1..n : queue[i] \in Tickets
          BY <3>1
        <4> QED BY <4>1, <4>2
      <3>3. /\ queue' = SubSeq(queue, n + 1, Len(queue))
            /\ lost' = lost \cup {queue[i] : i \in 1..n}
            /\ UNCHANGED <<requests, at, held, matches, notices>> /\ Fault
        BY <2>3 DEF PopAnswerLost
      <3> HIDE DEF n
      <3>4. queue' \in Seq(Tickets)
        BY <3>2, <3>3
      <3>5. lost' \subseteq Tickets
        BY <3>2, <3>3
      <3>6. UNCHANGED <<requests, at, held, matches, notices>> /\ Fault
        BY <3>3
      <3> QED BY <3>4, <3>5, <3>6
    <2>4. CASE PutBack(w)
      <3>1. held[w] \o queue \in Seq(Tickets)
        BY ConcatProperties
      <3> QED BY <2>4, <3>1 DEF PutBack
    <2>5. CASE PutBackFails(w)
      BY <2>5, DropTypes DEF PutBackFails
    <2>6. ASSUME NEW t \in Tickets, PutBackAnswerLost(w, t) PROVE TypeInv'
      <3>1. held[w] \o queue \in Seq(Tickets)
        BY ConcatProperties
      <3>2. held[w][1] \in Tickets
        BY <2>6 DEF PutBackAnswerLost
      <3>3. TypeOK'
        BY <2>6, <3>1, <3>2 DEF PutBackAnswerLost
      <3>4. HeldShape'
        BY <2>6 DEF PutBackAnswerLost
      <3> QED BY <3>3, <3>4
    <2> QED BY <1>2, <2>1, <2>2, <2>3, <2>4, <2>5, <2>6 DEF DequeuePair
  <1>3. ASSUME NEW w \in Workers,
               ProcessOnce(w) \/ StopWorker(w) \/ StartWorker(w), ~DequeuePair(w)
        PROVE  TypeInv'
    <2>1. CASE MatchFails(w)
      BY <2>1, DropTypes DEF MatchFails
    <2>2. CASE PublishMatched(w)
      <3>1. held[w][1] \in Tickets /\ held[w][2] \in Tickets
        BY <2>2, PairOf DEF PublishMatched
      <3>2. Append(matches, <<held[w][1], held[w][2]>>) \in Seq(Tickets \X Tickets)
        BY <3>1
      <3> QED BY <2>2, <3>2 DEF PublishMatched
    <2>3. CASE NotifyA(w)
      <3>1. held[w][1] \in Tickets /\ held[w][2] \in Tickets
        BY <2>3, PairOf DEF NotifyA
      <3> QED BY <2>3, <3>1 DEF NotifyA
    <2>4. CASE NotifyB(w)
      <3>1. held[w][1] \in Tickets /\ held[w][2] \in Tickets
        BY <2>4, PairOf DEF NotifyB
      <3> QED BY <2>4, <3>1 DEF NotifyB
    <2>5. CASE NotifyFails(w)
      BY <2>5, DropTypes DEF NotifyFails
    <2>6. CASE StopWorker(w)
      BY <2>6, DropTypes DEF StopWorker
    <2>7. CASE StartWorker(w)
      BY <2>7 DEF StartWorker
    <2> QED BY <1>3, <2>1, <2>2, <2>3, <2>4, <2>5, <2>6, <2>7 DEF ProcessOnce
  <1>4. CASE UNCHANGED vars
    BY <1>4 DEF vars
  <1> QED BY <1>1, <1>2, <1>3, <1>4 DEF Next, ProcessOnce

\* Queue, workers and matches stay well-formed whatever call fails and is
\* answered late (queue.go:20-47, service.go:37-80).
THEOREM TypeCorrect == Spec => []TypeOK
  <1>1. Spec => []TypeInv
    BY TypeInvInit, TypeInvNext, PTL DEF Spec
  <1>2. TypeInv => TypeOK
    BY DEF TypeInv
  <1> QED BY <1>1, <1>2, PTL

----------------------------------------------------------------------------
(* Where the tickets go: what a step does to the sets InQueue, Held(w) and *)
(* InMatch and to lost.                                                    *)

LEMMA HeldEffect ==
    ASSUME TypeInv, NEW w \in Workers, NEW place, NEW h,
           at' = [at EXCEPT ![w] = place], held' = [held EXCEPT ![w] = h]
    PROVE  /\ \A v \in Workers \ {w} : Held(v)' = Held(v)
           /\ Held(w)' = IF place \in {"one", "pair"} THEN Range(h) ELSE {}
  BY DEF TypeInv, TypeOK, Held, Range

LEMMA PushEffect ==
    ASSUME TypeInv, NEW t \in Tickets, NEW next, Push(t, next)
    PROVE  /\ InQueue' = InQueue \cup {t} /\ UNCHANGED <<matches, lost>>
           /\ InMatch' = InMatch /\ \A w \in Workers : Held(w)' = Held(w)
           /\ IsInjective(queue) /\ t \notin InQueue => IsInjective(queue')
  <1>1. queue \in Seq(Tickets) /\ queue' = Append(queue, t)
    BY DEF TypeInv, TypeOK, Push
  <1>2. /\ Range(queue') = Range(queue) \cup {t}
        /\ IsInjective(queue) /\ t \notin Range(queue) => IsInjective(queue')
    BY <1>1, AppendElements
  <1> QED BY <1>2 DEF Push, workers, InQueue, InMatch, Held, Range

LEMMA PopEffect ==
    ASSUME TypeInv, NEW w \in Workers, NEW n \in 1..2, n <= Len(queue),
           NEW place \in {"one", "pair"}, place = "one" <=> n = 1,
           Pop(w, n, place)
    PROVE  /\ Held(w) = {} /\ \A v \in Workers \ {w} : Held(v)' = Held(v)
           /\ InQueue = InQueue' \cup Held(w)'
           /\ \A i \in 1..n : held'[w][i] = queue[i]
           /\ IsInjective(queue) => /\ IsInjective(queue')
                                    /\ InQueue' \cap Held(w)' = {}
                                    /\ place = "pair" => held'[w][1] # held'[w][2]
  <1> DEFINE front == SubSeq(queue, 1, n)
             rest  == SubSeq(queue, n + 1, Len(queue))
  <1>0. queue \in Seq(Tickets) /\ n \in 1..Len(queue) /\ Len(queue) \in Nat
    BY DEF TypeInv, TypeOK
  <1>1. /\ front \in Seq(Tickets) /\ Len(front) = n
        /\ \A i \in 1..n : front[i] = queue[i]
        /\ Range(queue) = Range(front) \cup Range(rest)
        /\ IsInjective(queue) => /\ IsInjective(front) /\ IsInjective(rest)
                                 /\ Range(front) \cap Range(rest) = {}
    BY <1>0, CutElements
  <1>2. /\ queue' = rest /\ at[w] = "idle"
        /\ held' = [held EXCEPT ![w] = front] /\ at' = [at EXCEPT ![w] = place]
    BY DEF Pop
  <1> HIDE DEF front, rest
  <1>3. /\ \A v \in Workers \ {w} : Held(v)' = Held(v)
        /\ Held(w)' = Range(front)
    BY <1>2, HeldEffect
  <1>4. held'[w] = front /\ Held(w) = {}
    BY <1>2 DEF TypeInv, TypeOK, Held
  <1>5. InQueue = Range(queue) /\ InQueue' = Range(rest)
    BY <1>2 DEF InQueue, Range
  <1>6. IsInjective(front) /\ n = 2 => front[1] # front[2]
    <2>1. n = 2 => DOMAIN front = 1..2
      BY <1>1
    <2> QED BY <2>1 DEF IsInjective
  <1> QED BY <1>1, <1>2, <1>3, <1>4, <1>5, <1>6

LEMMA PopAnswerLostEffect ==
    ASSUME TypeInv, NEW w \in Workers, PopAnswerLost(w)
    PROVE  /\ UNCHANGED matches /\ InMatch' = InMatch
           /\ \A v \in Workers : Held(v)' = Held(v)
           /\ \E a, b \in Tickets :
                 /\ InQueue = InQueue' \cup {a, b} /\ lost' = lost \cup {a, b}
                 /\ IsInjective(queue) => InQueue' \cap {a, b} = {}
           /\ IsInjective(queue) => IsInjective(queue')
  <1> DEFINE n     == IF Len(queue) = 1 THEN 1 ELSE 2
             front == SubSeq(queue, 1, n)
             rest  == SubSeq(queue, n + 1, Len(queue))
  <1>0. queue \in Seq(Tickets) /\ Len(queue) \in Nat \ {0}
    BY EmptySeq DEF TypeInv, TypeOK, PopAnswerLost
  <1>1. n \in 1..Len(queue)
    <2>1. \A l \in Nat \ {0} : (IF l = 1 THEN 1 ELSE 2) \in 1..l
      OBVIOUS
    <2> QED BY <1>0, <2>1
  <1>2. n \in {1, 2}
    OBVIOUS
  <1>3. /\ queue' = rest /\ lost' = lost \cup {queue[i] : i \in 1..n}
        /\ UNCHANGED <<at, held, matches>>
    BY DEF PopAnswerLost
  <1>4. /\ front \in Seq(Tickets) /\ Len(front) = n
        /\ \A i \in 1..n : front[i] = queue[i]
        /\ Range(queue) = Range(front) \cup Range(rest)
        /\ IsInjective(queue) => /\ IsInjective(rest)
                                 /\ Range(front) \cap Range(rest) = {}
    <2> HIDE DEF n
    <2> QED BY <1>0, <1>1, CutElements
  <1> HIDE DEF n, front, rest
  <1>5. /\ Range(front) = {front[1], front[n]}
        /\ front[1] \in Tickets /\ front[n] \in Tickets
        /\ {queue[i] : i \in 1..n} = {front[1], front[n]}
    <2>0. (1..n = {1} /\ n = 1) \/ (1..n = {1, 2} /\ n = 2)
      BY <1>2
    <2>1. DOMAIN front = 1..n /\ 1..n = {1, n} /\ 1 \in 1..n /\ n \in 1..n
      BY <1>2, <1>4, <2>0
    <2>2. front[1] \in Tickets /\ front[n] \in Tickets
      BY <1>4, <2>1
    <2>3. Range(front) = {front[1], front[n]}
      BY <2>1 DEF Range
    <2>4. {queue[i] : i \in 1..n} = {queue[1], queue[n]}
      BY <2>1
    <2>5. front[1] = queue[1] /\ front[n] = queue[n]
      BY <1>4, <2>1
    <2> QED BY <2>2, <2>3, <2>4, <2>5
  <1>6. InQueue = Range(queue) /\ InQueue' = Range(rest)
    BY <1>3 DEF InQueue, Range
  <1>7. InMatch' = InMatch /\ \A v \in Workers : Held(v)' = Held(v)
    BY <1>3 DEF InMatch, Held
  <1>8. \E a, b \in Tickets :
            /\ InQueue = InQueue' \cup {a, b} /\ lost' = lost \cup {a, b}
            /\ IsInjective(queue) => InQueue' \cap {a, b} = {}
    <2>1. InQueue = InQueue' \cup {front[1], front[n]}
      BY <1>4, <1>5, <1>6
    <2>2. lost' = lost \cup {front[1], front[n]}
      BY <1>3, <1>5
    <2>3. IsInjective(queue) => InQueue' \cap {front[1], front[n]} = {}
      BY <1>4, <1>5, <1>6
    <2> QED BY <1>5, <2>1, <2>2, <2>3
  <1> QED BY <1>3, <1>4, <1>7, <1>8

LEMMA PutBackEffect ==
    ASSUME TypeInv, NEW w \in Workers, at[w] = "one", queue' = held[w] \o queue
    PROVE  /\ InQueue' = InQueue \cup Held(w)
           /\ held[w][1] \in Tickets /\ Held(w) = {held[w][1]}
           /\ IsInjective(queue) /\ held[w][1] \notin InQueue => IsInjective(queue')
  <1>1. held[w] \in Seq(Tickets) /\ Len(held[w]) = 1 /\ queue \in Seq(Tickets)
    BY DEF TypeInv, TypeOK, HeldShape
  <1>2. InQueue = Range(queue) /\ InQueue' = Range(queue') /\ Held(w) = Range(held[w])
    BY DEF InQueue, Held, Range
  <1> QED BY <1>1, <1>2, PushFrontElements

LEMMA DropEffect ==
    ASSUME TypeInv, NEW w \in Workers, NEW next \in {"idle", "stopped"}, Drop(w, next)
    PROVE  /\ Held(w)' = {} /\ \A v \in Workers \ {w} : Held(v)' = Held(v)
           /\ lost' = lost \cup Held(w) /\ UNCHANGED <<queue, matches>>
           /\ InQueue' = InQueue /\ InMatch' = InMatch
           /\ Held(w) = {} \/ \E a, b \in Tickets : Held(w) = {a, b}
  <1>1. /\ lost' = lost \cup Held(w) /\ UNCHANGED <<queue, matches>>
        /\ at' = [at EXCEPT ![w] = next] /\ held' = [held EXCEPT ![w] = <<>>]
    BY DEF Drop
  <1>2. Held(w)' = {} /\ \A v \in Workers \ {w} : Held(v)' = Held(v)
    BY <1>1, HeldEffect
  <1>3. InQueue' = InQueue /\ InMatch' = InMatch
    BY <1>1 DEF InQueue, InMatch
  <1>4. Held(w) = {} \/ \E a, b \in Tickets : Held(w) = {a, b}
    <2>1. CASE at[w] = "one"
      <3>1. held[w][1] \in Tickets /\ DOMAIN held[w] = {1}
        BY <2>1 DEF TypeInv, TypeOK, HeldShape
      <3> QED BY <2>1, <3>1 DEF Held
    <2>2. CASE at[w] = "pair"
      <3>1. held[w] \in Seq(Tickets) /\ Len(held[w]) = 2
        BY <2>2 DEF TypeInv, TypeOK, HeldShape
      <3>2. /\ held[w][1] \in Tickets /\ held[w][2] \in Tickets
            /\ Range(held[w]) = {held[w][1], held[w][2]}
        BY <3>1, PairOf
      <3> QED BY <2>2, <3>2 DEF Held, Range
    <2>3. CASE at[w] \notin {"one", "pair"}
      BY <2>3 DEF Held
    <2> QED BY <2>1, <2>2, <2>3
  <1> QED BY <1>1, <1>2, <1>3, <1>4

LEMMA PublishMatchedEffect ==
    ASSUME TypeInv, NEW w \in Workers, PublishMatched(w)
    PROVE  LET a == held[w][1]
               b == held[w][2]
           IN  /\ a \in Tickets /\ b \in Tickets /\ Held(w) = {a, b}
               /\ matches' \in Seq(Tickets \X Tickets) /\ Len(matches) \in Nat
               /\ DOMAIN matches = 1..Len(matches)
               /\ DOMAIN matches' = 1..(Len(matches) + 1)
               /\ \A i \in 1..Len(matches) : matches'[i] = matches[i]
               /\ matches'[Len(matches) + 1] = <<a, b>>
               /\ InMatch' = InMatch \cup {a, b}
               /\ Held(w)' = {} /\ \A v \in Workers \ {w} : Held(v)' = Held(v)
               /\ InQueue' = InQueue /\ UNCHANGED <<queue, lost>>
  <1> DEFINE a == held[w][1]
             b == held[w][2]
  <1>1. held[w] \in Seq(Tickets) /\ Len(held[w]) = 2 /\ at[w] = "pair"
    BY DEF TypeInv, TypeOK, HeldShape, PublishMatched
  <1>2. a \in Tickets /\ b \in Tickets /\ Range(held[w]) = {a, b}
    BY <1>1, PairOf
  <1>3. Held(w) = {a, b}
    BY <1>1, <1>2 DEF Held, Range
  <1>4. matches \in Seq(Tickets \X Tickets) /\ matches' = Append(matches, <<a, b>>)
    BY DEF TypeInv, TypeOK, PublishMatched
  <1> HIDE DEF a, b
  <1>5. /\ matches' \in Seq(Tickets \X Tickets) /\ Len(matches) \in Nat
        /\ DOMAIN matches = 1..Len(matches)
        /\ Len(matches') = Len(matches) + 1
        /\ DOMAIN matches' = 1..(Len(matches) + 1)
    BY <1>2, <1>4
  <1>6. /\ \A i \in 1..Len(matches) : matches'[i] = matches[i]
        /\ matches'[Len(matches) + 1] = <<a, b>>
    BY <1>4
  <1>7. InMatch' = InMatch \cup {a, b}
    <2>1. DOMAIN matches' = DOMAIN matches \cup {Len(matches) + 1}
      BY <1>5
    <2> QED BY <1>5, <1>6, <2>1 DEF InMatch
  <1>8. Held(w)' = {} /\ \A v \in Workers \ {w} : Held(v)' = Held(v)
    BY DEF PublishMatched, TypeInv, TypeOK, Held
  <1>9. InQueue' = InQueue /\ UNCHANGED <<queue, lost>>
    BY DEF PublishMatched, InQueue
  <1> QED BY <1>2, <1>3, <1>5, <1>6, <1>7, <1>8, <1>9 DEF a, b

----------------------------------------------------------------------------
(* A ticket is in one place.                                               *)

\* A ticket whose RPUSH is still to come is nowhere.
NewNowhere ==
    \A t \in Tickets : req[t] = "new" =>
        /\ t \notin InQueue \cup InMatch \cup lost
        /\ \A w \in Workers : t \notin Held(w)

PlaceInv == TypeInv /\ EachTicketInOnePlace /\ NewNowhere

LEMMA PlaceInvInit == Init => PlaceInv
  <1> SUFFICES ASSUME Init PROVE PlaceInv
    OBVIOUS
  <1>1. InQueue = {} /\ InMatch = {} /\ lost = {} /\ \A w \in Workers : Held(w) = {}
    BY DEF Init, InQueue, InMatch, Held
  <1>2. EachTicketInOnePlace
    BY <1>1 DEF Init, EachTicketInOnePlace
  <1> QED BY <1>1, <1>2, TypeInvInit DEF PlaceInv, NewNowhere

\* A step that moves no ticket.
LEMMA QuietPlace ==
    ASSUME PlaceInv, TypeInv', UNCHANGED <<queue, matches, lost>>,
           \A w \in Workers : Held(w)' = Held(w) /\ (at'[w] = "pair" => UNCHANGED held /\ at[w] = "pair"),
           \A t \in Tickets : req'[t] = "new" => req[t] = "new"
    PROVE  PlaceInv'
  <1>1. InQueue' = InQueue /\ InMatch' = InMatch
    BY DEF InQueue, InMatch
  <1>2. EachTicketInOnePlace'
    BY <1>1 DEF PlaceInv, EachTicketInOnePlace
  <1>3. NewNowhere'
    BY <1>1 DEF PlaceInv, NewNowhere
  <1> QED BY <1>2, <1>3 DEF PlaceInv

LEMMA DropPlace ==
    ASSUME PlaceInv, TypeInv', NEW w \in Workers, NEW next \in {"idle", "stopped"},
           Drop(w, next)
    PROVE  PlaceInv'
  <1>1. /\ Held(w)' = {} /\ \A v \in Workers \ {w} : Held(v)' = Held(v)
        /\ lost' = lost \cup Held(w) /\ UNCHANGED <<queue, matches>>
        /\ InQueue' = InQueue /\ InMatch' = InMatch
    BY DropEffect DEF PlaceInv
  <1>2. /\ \A v \in Workers : at'[v] = "pair" => v # w /\ at[v] = "pair" /\ held'[v] = held[v]
        /\ req' = req
    BY DEF PlaceInv, TypeInv, TypeOK, Drop, requests
  <1>3. EachTicketInOnePlace'
    BY <1>1, <1>2 DEF PlaceInv, EachTicketInOnePlace
  <1>4. NewNowhere'
    BY <1>1, <1>2 DEF PlaceInv, NewNowhere
  <1> QED BY <1>3, <1>4 DEF PlaceInv

LEMMA PopPlace ==
    ASSUME PlaceInv, TypeInv', NEW w \in Workers, NEW n \in 1..2, n <= Len(queue),
           NEW place \in {"one", "pair"}, place = "one" <=> n = 1,
           Pop(w, n, place),
           UNCHANGED <<requests, matches, notices, lost, faults>>
    PROVE  PlaceInv'
  <1>1. IsInjective(queue)
    BY DEF PlaceInv, EachTicketInOnePlace, IsInjective
  <1>2. /\ Held(w) = {} /\ \A v \in Workers \ {w} : Held(v)' = Held(v)
        /\ InQueue = InQueue' \cup Held(w)'
        /\ IsInjective(queue') /\ InQueue' \cap Held(w)' = {}
        /\ place = "pair" => held'[w][1] # held'[w][2]
    BY <1>1, PopEffect DEF PlaceInv
  <1>3. /\ \A v \in Workers \ {w} : at'[v] = at[v] /\ held'[v] = held[v]
        /\ at'[w] = place /\ req' = req
        /\ InMatch' = InMatch
    BY DEF PlaceInv, TypeInv, TypeOK, Pop, requests, InMatch
  <1>4. EachTicketInOnePlace'
    <2>1. \A i, j \in DOMAIN queue' : queue'[i] = queue'[j] => i = j
      BY <1>2 DEF IsInjective
    <2>2. InQueue' \cap InMatch' = {} /\ lost' \cap (InQueue' \cup InMatch') = {}
      BY <1>2, <1>3 DEF PlaceInv, EachTicketInOnePlace
    <2>3. ASSUME NEW v \in Workers
          PROVE  /\ Held(v)' \cap (InQueue' \cup InMatch' \cup lost') = {}
                 /\ at'[v] = "pair" => held'[v][1] # held'[v][2]
                 /\ \A u \in Workers \ {v} : Held(v)' \cap Held(u)' = {}
      BY <1>2, <1>3 DEF PlaceInv, EachTicketInOnePlace
    <2> QED BY <2>1, <2>2, <2>3 DEF PlaceInv, EachTicketInOnePlace
  <1>5. NewNowhere'
    BY <1>2, <1>3 DEF PlaceInv, NewNowhere
  <1> QED BY <1>4, <1>5 DEF PlaceInv

LEMMA PlaceInvNext == PlaceInv /\ [Next]_vars => PlaceInv'
  <1> SUFFICES ASSUME PlaceInv, [Next]_vars PROVE PlaceInv'
    OBVIOUS
  <1>0. TypeInv /\ TypeInv' /\ IsInjective(queue)
    BY TypeInvNext DEF PlaceInv, EachTicketInOnePlace, IsInjective
  <1>1. ASSUME NEW t \in Tickets, HandleEnqueue(t) PROVE PlaceInv'
    <2>1. ASSUME NEW next \in {"pushed", "error"}, Push(t, next) PROVE PlaceInv'
      <3>1. /\ t \notin InQueue \cup InMatch \cup lost
            /\ \A w \in Workers : t \notin Held(w)
        BY <2>1 DEF Push, PlaceInv, NewNowhere
      <3>2. /\ InQueue' = InQueue \cup {t} /\ UNCHANGED <<matches, lost>>
            /\ InMatch' = InMatch /\ \A w \in Workers : Held(w)' = Held(w)
            /\ IsInjective(queue')
        BY <1>0, <2>1, <3>1, PushEffect
      <3>3. /\ UNCHANGED <<at, held>>
            /\ \A s \in Tickets : req'[s] = "new" => req[s] = "new" /\ s # t
        BY <1>0, <2>1 DEF TypeInv, TypeOK, Push, workers
      <3>4. EachTicketInOnePlace'
        BY <3>1, <3>2, <3>3 DEF PlaceInv, EachTicketInOnePlace, IsInjective
      <3>5. NewNowhere'
        BY <3>2, <3>3 DEF PlaceInv, NewNowhere
      <3> QED BY <1>0, <3>4, <3>5 DEF PlaceInv
    <2>2. ASSUME NEW next \in {"accepted", "error"}, req' = [req EXCEPT ![t] = next],
                 UNCHANGED <<queue, workers>>
          PROVE  PlaceInv'
      <3>1. \A w \in Workers : Held(w)' = Held(w)
        BY <2>2 DEF workers, Held
      <3>2. \A s \in Tickets : req'[s] = "new" => req[s] = "new"
        BY <1>0, <2>2 DEF TypeInv, TypeOK
      <3> QED BY <1>0, <2>2, <3>1, <3>2, QuietPlace DEF workers
    <2> QED BY <1>1, <2>1, <2>2
        DEF HandleEnqueue, Enqueue, EnqueueAnswerLost, EnqueueFails,
            PublishEnqueued, PublishEnqueuedFails
  <1>2. ASSUME NEW w \in Workers, DequeuePair(w) PROVE PlaceInv'
    <2>1. CASE PopOne(w)
      BY <1>0, <2>1, PopPlace DEF PopOne
    <2>2. CASE PopPair(w)
      BY <1>0, <2>2, PopPlace DEF PopPair
    <2>3. CASE PopAnswerLost(w)
      <3>1. /\ UNCHANGED matches /\ InMatch' = InMatch
            /\ \A v \in Workers : Held(v)' = Held(v) /\ IsInjective(queue')
        BY <1>0, <2>3, PopAnswerLostEffect
      <3>2. PICK a, b \in Tickets :
                /\ InQueue = InQueue' \cup {a, b} /\ lost' = lost \cup {a, b}
                /\ InQueue' \cap {a, b} = {}
        BY <1>0, <2>3, PopAnswerLostEffect
      <3>3. UNCHANGED <<req, at, held>>
        BY <2>3 DEF PopAnswerLost, requests
      <3>4. EachTicketInOnePlace'
        BY <3>1, <3>2, <3>3 DEF PlaceInv, EachTicketInOnePlace, IsInjective
      <3>5. NewNowhere'
        BY <3>1, <3>2, <3>3 DEF PlaceInv, NewNowhere
      <3> QED BY <1>0, <3>4, <3>5 DEF PlaceInv
    <2>4. CASE PutBack(w)
      <3>1. held[w][1] \notin InQueue /\ held[w][1] \in Held(w)
        <4>1. Held(w) = {held[w][1]}
          BY <1>0, <2>4, PutBackEffect DEF PutBack
        <4> QED BY <4>1 DEF PlaceInv, EachTicketInOnePlace
      <3>2. InQueue' = InQueue \cup Held(w) /\ IsInjective(queue')
        BY <1>0, <2>4, <3>1, PutBackEffect DEF PutBack
      <3>3. /\ Held(w)' = {} /\ \A v \in Workers \ {w} : Held(v)' = Held(v)
        BY <1>0, <2>4, HeldEffect DEF PutBack
      <3>4. /\ UNCHANGED <<req, matches, lost>> /\ InMatch' = InMatch
            /\ \A v \in Workers : at'[v] = "pair" => at[v] = "pair" /\ held'[v] = held[v]
        BY <1>0, <2>4 DEF PutBack, requests, InMatch, TypeInv, TypeOK
      <3>5. EachTicketInOnePlace'
        BY <3>2, <3>3, <3>4 DEF PlaceInv, EachTicketInOnePlace, IsInjective
      <3>6. NewNowhere'
        BY <3>2, <3>3, <3>4 DEF PlaceInv, NewNowhere
      <3> QED BY <1>0, <3>5, <3>6 DEF PlaceInv
    <2>5. CASE PutBackFails(w)
      BY <1>0, <2>5, DropPlace DEF PutBackFails
    <2>6. ASSUME NEW t \in Tickets, PutBackAnswerLost(w, t) PROVE PlaceInv'
      <3>0. /\ t \notin InQueue \cup InMatch \cup lost
            /\ \A v \in Workers : t \notin Held(v)
        BY <2>6 DEF PutBackAnswerLost, PlaceInv, NewNowhere
      <3>1. held[w][1] \notin InQueue /\ held[w][1] \in Held(w)
        <4>1. Held(w) = {held[w][1]}
          BY <1>0, <2>6, PutBackEffect DEF PutBackAnswerLost
        <4> QED BY <4>1 DEF PlaceInv, EachTicketInOnePlace
      <3>2. InQueue' = InQueue \cup Held(w) /\ IsInjective(queue')
        BY <1>0, <2>6, <3>1, PutBackEffect DEF PutBackAnswerLost
      <3>3. /\ Held(w)' = {t} /\ \A v \in Workers \ {w} : Held(v)' = Held(v)
        BY <1>0, <2>6 DEF PutBackAnswerLost, Held, TypeInv, TypeOK
      <3>4. /\ UNCHANGED <<matches, lost>> /\ InMatch' = InMatch
            /\ \A v \in Workers : at'[v] = "pair" => at[v] = "pair" /\ held'[v] = held[v]
            /\ \A s \in Tickets : req'[s] = "new" => req[s] = "new" /\ s # t
        BY <1>0, <2>6 DEF PutBackAnswerLost, InMatch, TypeInv, TypeOK
      <3>5. EachTicketInOnePlace'
        BY <3>0, <3>2, <3>3, <3>4 DEF PlaceInv, EachTicketInOnePlace, IsInjective
      <3>6. NewNowhere'
        BY <3>2, <3>3, <3>4 DEF PlaceInv, NewNowhere
      <3> QED BY <1>0, <3>5, <3>6 DEF PlaceInv
    <2> QED BY <1>2, <2>1, <2>2, <2>3, <2>4, <2>5, <2>6 DEF DequeuePair
  <1>3. ASSUME NEW w \in Workers,
               ProcessOnce(w) \/ StopWorker(w) \/ StartWorker(w), ~DequeuePair(w)
        PROVE  PlaceInv'
    <2>1. CASE MatchFails(w)
      BY <1>0, <2>1, DropPlace DEF MatchFails
    <2>2. CASE PublishMatched(w)
      <3> DEFINE a == held[w][1]
                 b == held[w][2]
                 l == Len(matches)
      <3>1. /\ a \in Tickets /\ b \in Tickets /\ Held(w) = {a, b} /\ l \in Nat
            /\ DOMAIN matches = 1..l /\ DOMAIN matches' = 1..(l + 1)
            /\ \A i \in 1..l : matches'[i] = matches[i]
            /\ matches'[l + 1] = <<a, b>>
            /\ InMatch' = InMatch \cup {a, b}
            /\ Held(w)' = {} /\ \A v \in Workers \ {w} : Held(v)' = Held(v)
            /\ InQueue' = InQueue /\ UNCHANGED <<queue, lost>>
        BY <1>0, <2>2, PublishMatchedEffect
      <3>2. a # b
        BY <2>2 DEF PublishMatched, PlaceInv, EachTicketInOnePlace
      <3>3. /\ UNCHANGED <<req, held>>
            /\ \A v \in Workers : at'[v] = "pair" => at[v] = "pair"
        BY <1>0, <2>2 DEF PublishMatched, requests, TypeInv, TypeOK
      <3>4. \A i \in 1..l : \A k \in 1..2 : matches[i][k] \in InMatch
        BY <3>1 DEF InMatch
      <3>5. a \notin InMatch /\ b \notin InMatch
        BY <3>1 DEF PlaceInv, EachTicketInOnePlace
      <3> HIDE DEF a, b, l
      <3>6. \A i, j \in DOMAIN matches' : \A k, m \in 1..2 :
                matches'[i][k] = matches'[j][m] => i = j /\ k = m
        <4> SUFFICES ASSUME NEW i \in 1..(l + 1), NEW j \in 1..(l + 1),
                            NEW k \in 1..2, NEW m \in 1..2,
                            matches'[i][k] = matches'[j][m]
                     PROVE  i = j /\ k = m
          BY <3>1
        <4>0. \A i2 \in 1..(l + 1) : i2 \in 1..l \/ i2 = l + 1
          BY <3>1
        <4>1. \A k2 \in 1..2 : <<a, b>>[k2] \in {a, b} /\ (<<a, b>>[k2] = a => k2 = 1)
                               /\ (<<a, b>>[k2] = b => k2 = 2)
          BY <3>2
        <4>2. CASE i \in 1..l /\ j \in 1..l
          BY <3>1, <4>2 DEF PlaceInv, EachTicketInOnePlace
        <4>3. CASE i = l + 1 /\ j \in 1..l
          BY <3>1, <3>4, <3>5, <4>1, <4>3
        <4>4. CASE i \in 1..l /\ j = l + 1
          BY <3>1, <3>4, <3>5, <4>1, <4>4
        <4>5. CASE i = l + 1 /\ j = l + 1
          BY <3>1, <4>1, <4>5
        <4> QED BY <4>0, <4>2, <4>3, <4>4, <4>5
      <3>7. EachTicketInOnePlace'
        BY <3>1, <3>3, <3>6 DEF PlaceInv, EachTicketInOnePlace
      <3>8. NewNowhere'
        BY <3>1, <3>3 DEF PlaceInv, NewNowhere
      <3> QED BY <1>0, <3>7, <3>8 DEF PlaceInv
    <2>3. CASE NotifyA(w) \/ StartWorker(w)
      <3>1. \A v \in Workers : /\ Held(v)' = Held(v)
                               /\ at'[v] = "pair" => UNCHANGED held /\ at[v] = "pair"
        <4>1. /\ \A v \in Workers \ {w} : at'[v] = at[v]
              /\ at[w] \notin {"one", "pair"} /\ at'[w] \notin {"one", "pair"}
              /\ UNCHANGED held
          BY <1>0, <2>3 DEF NotifyA, StartWorker, TypeInv, TypeOK
        <4> QED BY <4>1 DEF Held
      <3> QED BY <1>0, <2>3, <3>1, QuietPlace DEF NotifyA, StartWorker, requests
    <2>4. CASE NotifyB(w)
      <3>1. \A v \in Workers : Held(v)' = Held(v)
        <4>1. /\ \A v \in Workers \ {w} : at'[v] = at[v] /\ held'[v] = held[v]
              /\ at[w] \notin {"one", "pair"} /\ at'[w] \notin {"one", "pair"}
          BY <1>0, <2>4 DEF NotifyB, TypeInv, TypeOK
        <4> QED BY <4>1 DEF Held
      <3>2. \A v \in Workers : at'[v] = "pair" => at[v] = "pair" /\ held'[v] = held[v]
        BY <1>0, <2>4 DEF NotifyB, TypeInv, TypeOK
      <3>3. UNCHANGED <<queue, req, matches, lost>> /\ InQueue' = InQueue /\ InMatch' = InMatch
        BY <2>4 DEF NotifyB, requests, InQueue, InMatch
      <3>4. EachTicketInOnePlace'
        BY <3>1, <3>2, <3>3 DEF PlaceInv, EachTicketInOnePlace
      <3> QED BY <1>0, <3>1, <3>3, <3>4 DEF PlaceInv, NewNowhere
    <2>5. CASE NotifyFails(w)
      BY <1>0, <2>5, DropPlace DEF NotifyFails
    <2>6. CASE StopWorker(w)
      BY <1>0, <2>6, DropPlace DEF StopWorker
    <2> QED BY <1>3, <2>1, <2>2, <2>3, <2>4, <2>5, <2>6 DEF ProcessOnce
  <1>4. CASE UNCHANGED vars
    <2>1. \A w \in Workers : Held(w)' = Held(w)
      BY <1>4 DEF vars, Held
    <2> QED BY <1>0, <1>4, <2>1, QuietPlace DEF vars
  <1> QED BY <1>1, <1>2, <1>3, <1>4 DEF Next, ProcessOnce

\* A ticket is in one place, whatever the pops and put-backs of several
\* replicas, lost answers and stops interleave (queue.go:30-41, service.go:56-75).
THEOREM TicketsStaySingle == Spec => []EachTicketInOnePlace
  <1>1. Spec => []PlaceInv
    BY PlaceInvInit, PlaceInvNext, PTL DEF Spec
  <1>2. PlaceInv => EachTicketInOnePlace
    BY DEF PlaceInv
  <1> QED BY <1>1, <1>2, PTL

----------------------------------------------------------------------------
(* Losses and notices.                                                     *)

LossInv == TypeInv /\ IsFiniteSet(lost) /\ LossIsBounded

LEMMA LoseTwo ==
    ASSUME NEW S, IsFiniteSet(S), NEW a, NEW b
    PROVE  /\ IsFiniteSet(S \cup {a, b})
           /\ Cardinality(S) \in Nat /\ Cardinality(S \cup {a, b}) \in Nat
           /\ Cardinality(S \cup {a, b}) <= Cardinality(S) + 2
  <1>1. /\ IsFiniteSet(S \cup {a})
        /\ Cardinality(S \cup {a}) = IF a \in S THEN Cardinality(S) ELSE Cardinality(S) + 1
    BY FS_AddElement
  <1>2. /\ IsFiniteSet((S \cup {a}) \cup {b})
        /\ Cardinality((S \cup {a}) \cup {b})
           = IF b \in S \cup {a} THEN Cardinality(S \cup {a})
             ELSE Cardinality(S \cup {a}) + 1
    BY <1>1, FS_AddElement
  <1>3. S \cup {a, b} = (S \cup {a}) \cup {b}
    OBVIOUS
  <1>4. Cardinality(S) \in Nat
    BY FS_CardinalityType
  <1>5. /\ Cardinality(S \cup {a}) \in Nat
        /\ Cardinality(S \cup {a}) <= Cardinality(S) + 1
    BY <1>1, <1>4
  <1>6. /\ Cardinality(S \cup {a, b}) \in Nat
        /\ Cardinality(S \cup {a, b}) <= Cardinality(S \cup {a}) + 1
    BY <1>2, <1>3, <1>5
  <1> QED BY <1>2, <1>3, <1>4, <1>5, <1>6

\* What one failed step loses.
LEMMA FaultLoses ==
    ASSUME LossInv, Fault,
           lost' = lost \/ \E a, b \in Tickets : lost' = lost \cup {a, b}
    PROVE  IsFiniteSet(lost') /\ Cardinality(lost') <= 2 * faults'
  <1>1. faults \in Nat /\ faults' = faults + 1
    BY FaultsAssumption DEF LossInv, TypeInv, TypeOK, Fault
  <1>2. IsFiniteSet(lost) /\ Cardinality(lost) <= 2 * faults /\ Cardinality(lost) \in Nat
    BY FS_CardinalityType DEF LossInv, LossIsBounded
  <1>3. /\ IsFiniteSet(lost') /\ Cardinality(lost') \in Nat
        /\ Cardinality(lost') <= Cardinality(lost) + 2
    <2>1. CASE lost' = lost
      BY <1>2, <2>1
    <2>2. CASE \E a, b \in Tickets : lost' = lost \cup {a, b}
      <3>1. PICK a, b \in Tickets : lost' = lost \cup {a, b}
        BY <2>2
      <3>2. /\ IsFiniteSet(lost \cup {a, b}) /\ Cardinality(lost \cup {a, b}) \in Nat
            /\ Cardinality(lost \cup {a, b}) <= Cardinality(lost) + 2
        BY <1>2, LoseTwo
      <3> QED BY <3>1, <3>2
    <2> QED BY <2>1, <2>2
  <1> QED BY <1>1, <1>2, <1>3

LEMMA LossInvNext == LossInv /\ [Next]_vars => LossInv'
  <1> SUFFICES ASSUME LossInv, [Next]_vars PROVE LossInv'
    OBVIOUS
  <1>0. TypeInv /\ TypeInv'
    BY TypeInvNext DEF LossInv
  <1>1. CASE UNCHANGED <<lost, faults>>
    BY <1>0, <1>1 DEF LossInv, LossIsBounded
  <1>2. ASSUME Fault, lost' = lost \/ \E a, b \in Tickets : lost' = lost \cup {a, b}
        PROVE  LossInv'
    BY <1>0, <1>2, FaultLoses DEF LossInv, LossIsBounded
  <1>3. ASSUME NEW t \in Tickets, HandleEnqueue(t) PROVE LossInv'
    BY <1>1, <1>2, <1>3
    DEF HandleEnqueue, Enqueue, EnqueueAnswerLost, EnqueueFails, PublishEnqueued,
        PublishEnqueuedFails, Push, workers
  <1>4. ASSUME NEW w \in Workers, ProcessOnce(w) \/ StopWorker(w) \/ StartWorker(w)
        PROVE  LossInv'
    <2>1. ASSUME NEW next \in {"idle", "stopped"}, Drop(w, next) PROVE LossInv'
      <3>1. lost' = lost \/ \E a, b \in Tickets : lost' = lost \cup {a, b}
        BY <1>0, <2>1, DropEffect
      <3> QED BY <1>2, <2>1, <3>1 DEF Drop
    <2>2. CASE PopAnswerLost(w)
      <3>1. \E a, b \in Tickets : lost' = lost \cup {a, b}
        BY <1>0, <2>2, PopAnswerLostEffect
      <3> QED BY <1>2, <2>2, <3>1 DEF PopAnswerLost
    <2>3. CASE \E t \in Tickets : PutBackAnswerLost(w, t)
      BY <1>2, <2>3 DEF PutBackAnswerLost
    <2>4. CASE \/ PopOne(w) \/ PopPair(w) \/ PutBack(w) \/ PublishMatched(w)
               \/ NotifyA(w) \/ NotifyB(w) \/ StartWorker(w)
      BY <1>1, <2>4 DEF PopOne, PopPair, PutBack, PublishMatched, NotifyA, NotifyB,
                        StartWorker
    <2> QED BY <1>4, <2>1, <2>2, <2>3, <2>4
        DEF ProcessOnce, DequeuePair, PutBackFails, MatchFails, NotifyFails, StopWorker
  <1> QED BY <1>1, <1>3, <1>4 DEF Next, vars

\* One failed call or stopped process costs at most one pair of players
\* (queue.go:38-40, service.go:61-75, cmd/matchmaking/main.go:71).
THEOREM LossesAreBounded == Spec => []LossIsBounded
  <1>1. Init => LossInv
    <2> SUFFICES ASSUME Init PROVE LossInv
      OBVIOUS
    <2>1. IsFiniteSet(lost) /\ Cardinality(lost) = 0 /\ faults = 0
      BY FS_EmptySet DEF Init
    <2> QED BY <2>1, TypeInvInit DEF LossInv, LossIsBounded
  <1>2. Spec => []LossInv
    BY <1>1, LossInvNext, PTL DEF Spec
  <1>3. LossInv => LossIsBounded
    BY DEF LossInv
  <1> QED BY <1>2, <1>3, PTL

\* A worker that is about to tell the players of a pair has published it, and
\* one that is about to tell the second has told the first.
Publishes(p) == \E i \in DOMAIN matches : matches[i] = p

NotifierKnows ==
    \A w \in Workers :
        /\ at[w] \in {"notifyA", "notifyB"} => Publishes(<<held[w][1], held[w][2]>>)
        /\ at[w] = "notifyB" => <<held[w][1], held[w][2]>> \in notices

NoticeInv == TypeInv /\ NotifierKnows /\ NoticeFollowsMatch

LEMMA NoticeInvNext == NoticeInv /\ [Next]_vars => NoticeInv'
  <1> SUFFICES ASSUME NoticeInv, [Next]_vars PROVE NoticeInv'
    OBVIOUS
  <1>0. TypeInv /\ TypeInv'
    BY TypeInvNext DEF NoticeInv
  <1>1. ASSUME UNCHANGED <<matches, notices>>,
               \A w \in Workers : at'[w] \in {"notifyA", "notifyB"}
                                  => at'[w] = at[w] /\ held'[w] = held[w]
        PROVE  NoticeInv'
    BY <1>0, <1>1 DEF NoticeInv, NotifierKnows, NoticeFollowsMatch, Publishes
  <1>2. ASSUME NEW t \in Tickets, HandleEnqueue(t) PROVE NoticeInv'
    BY <1>1, <1>2
    DEF HandleEnqueue, Enqueue, EnqueueAnswerLost, EnqueueFails, PublishEnqueued,
        PublishEnqueuedFails, Push, workers
  <1>3. ASSUME NEW w \in Workers, ProcessOnce(w) \/ StopWorker(w) \/ StartWorker(w)
        PROVE  NoticeInv'
    <2>1. ASSUME NEW next \in {"idle", "stopped"}, Drop(w, next) PROVE NoticeInv'
      BY <1>0, <1>1, <2>1 DEF Drop, TypeInv, TypeOK
    <2>2. CASE PopAnswerLost(w)
      BY <1>1, <2>2 DEF PopAnswerLost
    <2>3. CASE \E t \in Tickets : PutBackAnswerLost(w, t)
      BY <1>0, <1>1, <2>3 DEF PutBackAnswerLost, TypeInv, TypeOK
    <2>4. CASE PopOne(w) \/ PopPair(w) \/ PutBack(w) \/ StartWorker(w)
      BY <1>0, <1>1, <2>4 DEF PopOne, PopPair, Pop, PutBack, StartWorker, TypeInv, TypeOK
    <2>5. CASE PublishMatched(w)
      <3> DEFINE p == <<held[w][1], held[w][2]>>
                 l == Len(matches)
      <3>1. /\ l \in Nat /\ DOMAIN matches = 1..l /\ DOMAIN matches' = 1..(l + 1)
            /\ \A i \in 1..l : matches'[i] = matches[i]
            /\ matches'[l + 1] = p
        BY <1>0, <2>5, PublishMatchedEffect
      <3>2. /\ UNCHANGED <<notices, held>> /\ at'[w] = "notifyA"
            /\ \A v \in Workers \ {w} : at'[v] = at[v]
        BY <1>0, <2>5 DEF PublishMatched, TypeInv, TypeOK
      <3>3. DOMAIN matches \subseteq DOMAIN matches' /\ l + 1 \in DOMAIN matches'
        BY <3>1
      <3> HIDE DEF p, l
      <3>4. \A q : q = p \/ Publishes(q) => \E i \in DOMAIN matches' : matches'[i] = q
        BY <3>1, <3>3 DEF Publishes
      <3>5. NotifierKnows'
        BY <3>2, <3>4 DEF NoticeInv, NotifierKnows, Publishes, p
      <3>6. NoticeFollowsMatch'
        BY <3>1, <3>2, <3>3 DEF NoticeInv, NoticeFollowsMatch
      <3> QED BY <1>0, <3>5, <3>6 DEF NoticeInv
    <2>6. CASE NotifyA(w)
      <3>1. /\ UNCHANGED <<matches, held>> /\ notices' = notices \cup {<<held[w][1], held[w][2]>>}
            /\ at[w] = "notifyA" /\ at'[w] = "notifyB"
            /\ \A v \in Workers \ {w} : at'[v] = at[v]
        BY <1>0, <2>6 DEF NotifyA, TypeInv, TypeOK
      <3>2. PICK i \in DOMAIN matches : matches[i] = <<held[w][1], held[w][2]>>
        BY <3>1 DEF NoticeInv, NotifierKnows, Publishes
      <3>3. NotifierKnows'
        BY <3>1 DEF NoticeInv, NotifierKnows, Publishes
      <3>4. NoticeFollowsMatch'
        BY <3>1, <3>2 DEF NoticeInv, NoticeFollowsMatch
      <3> QED BY <1>0, <3>3, <3>4 DEF NoticeInv
    <2>7. CASE NotifyB(w)
      <3>1. /\ UNCHANGED matches /\ notices' = notices \cup {<<held[w][2], held[w][1]>>}
            /\ at[w] = "notifyB" /\ at'[w] = "idle"
            /\ \A v \in Workers \ {w} : at'[v] = at[v] /\ held'[v] = held[v]
        BY <1>0, <2>7 DEF NotifyB, TypeInv, TypeOK
      <3>2. PICK i \in DOMAIN matches :
                matches[i] = <<held[w][1], held[w][2]>> /\ matches[i] \in notices
        BY <3>1 DEF NoticeInv, NotifierKnows, Publishes
      <3>3. NotifierKnows'
        BY <3>1 DEF NoticeInv, NotifierKnows, Publishes
      <3>4. matches[i][1] = held[w][1] /\ matches[i][2] = held[w][2]
        BY <3>2
      <3>5. NoticeFollowsMatch'
        BY <3>1, <3>2, <3>4 DEF NoticeInv, NoticeFollowsMatch
      <3> QED BY <1>0, <3>3, <3>5 DEF NoticeInv
    <2> QED BY <1>3, <2>1, <2>2, <2>3, <2>4, <2>5, <2>6, <2>7
        DEF ProcessOnce, DequeuePair, PutBackFails, MatchFails, NotifyFails, StopWorker
  <1>4. CASE UNCHANGED vars
    BY <1>1, <1>4 DEF vars
  <1> QED BY <1>2, <1>3, <1>4 DEF Next

\* A player is told of a match only after the match was published, and the
\* second player only after the first (service.go:74-80).
THEOREM NoticesFollowMatches == Spec => []NoticeFollowsMatch
  <1>1. Init => NoticeInv
    BY TypeInvInit DEF Init, NoticeInv, NotifierKnows, NoticeFollowsMatch
  <1>2. Spec => []NoticeInv
    BY <1>1, NoticeInvNext, PTL DEF Spec
  <1>3. NoticeInv => NoticeFollowsMatch
    BY DEF NoticeInv
  <1> QED BY <1>2, <1>3, PTL

----------------------------------------------------------------------------
(* The promise of a pair queue.                                            *)

\* A step that moves no ticket, or moves it between the list and a worker.
LEMMA QuietPromise ==
    ASSUME Waiting' = Waiting, UNCHANGED <<matches, lost>>
    PROVE  [Promise!Next]_(Promise!vars)
  <1>1. Pairs' = Pairs
    BY DEF Pairs
  <1> QED BY <1>1 DEF Promise!vars

LEMMA JoinPromise ==
    ASSUME NEW t \in Tickets, t \notin Waiting \cup InMatch \cup lost,
           Waiting' = Waiting \cup {t}, UNCHANGED <<matches, lost>>
    PROVE  Promise!Next
  <1>1. Pairs' = Pairs
    BY DEF Pairs
  <1>2. UNION Pairs = InMatch
    BY DEF Pairs, InMatch
  <1>3. t \notin Promise!Taken
    BY <1>2 DEF Promise!Taken
  <1> QED BY <1>1, <1>3 DEF Promise!Next, Promise!Join

LEMMA LosePromise ==
    ASSUME NEW D \in SUBSET Tickets, D \subseteq Waiting, Waiting' = Waiting \ D,
           lost' = lost \cup D, UNCHANGED matches
    PROVE  Promise!Next
  <1>1. Pairs' = Pairs
    BY DEF Pairs
  <1> QED BY <1>1 DEF Promise!Next, Promise!Drop

\* What waits is what the list and the workers have.
LEMMA WaitingIs ==
    /\ \A t : t \in Waiting <=> t \in InQueue \/ \E w \in Workers : t \in Held(w)
    /\ \A t : t \in Waiting' <=> t \in InQueue' \/ \E w \in Workers : t \in Held(w)'
  BY DEF Waiting

LEMMA DropPromise ==
    ASSUME PlaceInv, NEW w \in Workers, NEW next \in {"idle", "stopped"}, Drop(w, next)
    PROVE  Promise!Next
  <1>1. /\ Held(w)' = {} /\ \A v \in Workers \ {w} : Held(v)' = Held(v)
        /\ lost' = lost \cup Held(w) /\ UNCHANGED <<queue, matches>> /\ InQueue' = InQueue
    BY DropEffect DEF PlaceInv
  <1>2. Held(w) \subseteq Tickets
    BY DEF PlaceInv, TypeInv, TypeOK, Held
  <1>3. Held(w) \cap InQueue = {} /\ \A v \in Workers \ {w} : Held(w) \cap Held(v) = {}
    BY DEF PlaceInv, EachTicketInOnePlace
  <1>4. Held(w) \subseteq Waiting /\ Waiting' = Waiting \ Held(w)
    BY <1>1, <1>3, WaitingIs
  <1> QED BY <1>1, <1>2, <1>4, LosePromise

LEMMA PopPromise ==
    ASSUME PlaceInv, NEW w \in Workers, NEW n \in 1..2, n <= Len(queue),
           NEW place \in {"one", "pair"}, place = "one" <=> n = 1,
           Pop(w, n, place), UNCHANGED <<matches, lost>>
    PROVE  [Promise!Next]_(Promise!vars)
  <1>1. /\ Held(w) = {} /\ \A v \in Workers \ {w} : Held(v)' = Held(v)
        /\ InQueue = InQueue' \cup Held(w)'
    BY PopEffect DEF PlaceInv
  <1>2. Waiting' = Waiting
    <2>1. ASSUME NEW t, t \in Waiting PROVE t \in Waiting'
      BY <1>1, <2>1, WaitingIs
    <2>2. ASSUME NEW t, t \in Waiting' PROVE t \in Waiting
      BY <1>1, <2>2, WaitingIs
    <2> QED BY <2>1, <2>2
  <1> QED BY <1>2, QuietPromise

LEMMA PromiseStep == PlaceInv /\ [Next]_vars => [Promise!Next]_(Promise!vars)
  <1> SUFFICES ASSUME PlaceInv, [Next]_vars PROVE [Promise!Next]_(Promise!vars)
    OBVIOUS
  <1>0. TypeInv /\ IsInjective(queue)
    BY DEF PlaceInv, EachTicketInOnePlace, IsInjective
  <1>1. ASSUME NEW t \in Tickets, HandleEnqueue(t) PROVE [Promise!Next]_(Promise!vars)
    <2>1. ASSUME NEW next, Push(t, next) PROVE Promise!Next
      <3>1. t \notin InQueue \cup InMatch \cup lost /\ \A w \in Workers : t \notin Held(w)
        BY <2>1 DEF Push, PlaceInv, NewNowhere
      <3>2. /\ InQueue' = InQueue \cup {t} /\ UNCHANGED <<matches, lost>>
            /\ \A w \in Workers : Held(w)' = Held(w)
        BY <1>0, <2>1, PushEffect
      <3>3. t \notin Waiting \cup InMatch \cup lost /\ Waiting' = Waiting \cup {t}
        BY <3>1, <3>2, WaitingIs
      <3> QED BY <3>2, <3>3, JoinPromise
    <2>2. ASSUME UNCHANGED <<queue, workers>> PROVE [Promise!Next]_(Promise!vars)
      <3>1. Waiting' = Waiting
        BY <2>2 DEF Waiting, workers, InQueue, Held
      <3> QED BY <2>2, <3>1, QuietPromise DEF workers
    <2> QED BY <1>1, <2>1, <2>2
        DEF HandleEnqueue, Enqueue, EnqueueAnswerLost, EnqueueFails,
            PublishEnqueued, PublishEnqueuedFails
  <1>2. ASSUME NEW w \in Workers, DequeuePair(w) PROVE [Promise!Next]_(Promise!vars)
    <2>1. CASE PopOne(w)
      BY <2>1, PopPromise DEF PopOne
    <2>2. CASE PopPair(w)
      BY <2>2, PopPromise DEF PopPair
    <2>3. CASE PopAnswerLost(w)
      <3>1. UNCHANGED matches /\ \A v \in Workers : Held(v)' = Held(v)
        BY <1>0, <2>3, PopAnswerLostEffect
      <3>2. PICK a, b \in Tickets :
                /\ InQueue = InQueue' \cup {a, b} /\ lost' = lost \cup {a, b}
                /\ InQueue' \cap {a, b} = {}
        BY <1>0, <2>3, PopAnswerLostEffect
      <3>3. \A v \in Workers : Held(v) \cap {a, b} = {}
        BY <3>2 DEF PlaceInv, EachTicketInOnePlace
      <3>4. {a, b} \subseteq Waiting /\ Waiting' = Waiting \ {a, b}
        BY <3>1, <3>2, <3>3, WaitingIs
      <3>5. {a, b} \in SUBSET Tickets
        OBVIOUS
      <3> QED BY <3>1, <3>2, <3>4, <3>5, LosePromise
    <2>4. CASE PutBack(w)
      <3>1. InQueue' = InQueue \cup Held(w) /\ UNCHANGED <<matches, lost>>
        BY <1>0, <2>4, PutBackEffect DEF PutBack
      <3>2. Held(w)' = {} /\ \A v \in Workers \ {w} : Held(v)' = Held(v)
        BY <1>0, <2>4, HeldEffect DEF PutBack
      <3>3. Waiting' = Waiting
        BY <3>1, <3>2, WaitingIs
      <3> QED BY <3>1, <3>3, QuietPromise
    <2>5. CASE PutBackFails(w)
      BY <2>5, DropPromise DEF PutBackFails
    <2>6. ASSUME NEW t \in Tickets, PutBackAnswerLost(w, t) PROVE Promise!Next
      <3>1. t \notin InQueue \cup InMatch \cup lost /\ \A v \in Workers : t \notin Held(v)
        BY <2>6 DEF PutBackAnswerLost, PlaceInv, NewNowhere
      <3>2. InQueue' = InQueue \cup Held(w) /\ UNCHANGED <<matches, lost>>
        BY <1>0, <2>6, PutBackEffect DEF PutBackAnswerLost
      <3>3. Held(w)' = {t} /\ \A v \in Workers \ {w} : Held(v)' = Held(v)
        BY <1>0, <2>6 DEF PutBackAnswerLost, Held, TypeInv, TypeOK
      <3>4. t \notin Waiting \cup InMatch \cup lost /\ Waiting' = Waiting \cup {t}
        BY <3>1, <3>2, <3>3, WaitingIs
      <3> QED BY <3>2, <3>4, JoinPromise
    <2> QED BY <1>2, <2>1, <2>2, <2>3, <2>4, <2>5, <2>6 DEF DequeuePair
  <1>3. ASSUME NEW w \in Workers,
               ProcessOnce(w) \/ StopWorker(w) \/ StartWorker(w), ~DequeuePair(w)
        PROVE  [Promise!Next]_(Promise!vars)
    <2>1. CASE MatchFails(w) \/ NotifyFails(w) \/ StopWorker(w)
      BY <2>1, DropPromise DEF MatchFails, NotifyFails, StopWorker
    <2>2. CASE PublishMatched(w)
      <3> DEFINE a == held[w][1]
                 b == held[w][2]
                 l == Len(matches)
      <3>1. /\ a \in Tickets /\ b \in Tickets /\ Held(w) = {a, b} /\ l \in Nat
            /\ DOMAIN matches = 1..l /\ DOMAIN matches' = 1..(l + 1)
            /\ \A i \in 1..l : matches'[i] = matches[i]
            /\ matches'[l + 1] = <<a, b>>
            /\ Held(w)' = {} /\ \A v \in Workers \ {w} : Held(v)' = Held(v)
            /\ InQueue' = InQueue /\ UNCHANGED lost
        BY <1>0, <2>2, PublishMatchedEffect
      <3>2. a # b
        BY <2>2 DEF PublishMatched, PlaceInv, EachTicketInOnePlace
      <3>3. {a, b} \cap InQueue = {} /\ \A v \in Workers \ {w} : {a, b} \cap Held(v) = {}
        BY <3>1 DEF PlaceInv, EachTicketInOnePlace
      <3>4. {a, b} \subseteq Waiting /\ Waiting' = Waiting \ {a, b}
        BY <3>1, <3>3, WaitingIs
      <3>5. Pairs' = Pairs \cup {{a, b}}
        <4> HIDE DEF a, b, l
        <4>1. DOMAIN matches' = DOMAIN matches \cup {l + 1}
          BY <3>1
        <4>2. {matches'[l + 1][1], matches'[l + 1][2]} = {a, b}
          BY <3>1
        <4>3. \A i \in DOMAIN matches : matches'[i] = matches[i]
          BY <3>1
        <4> QED BY <4>1, <4>2, <4>3 DEF Pairs
      <3> HIDE DEF a, b, l
      <3>6. Promise!Pair(a, b)
        BY <3>1, <3>2, <3>4, <3>5 DEF Promise!Pair
      <3> QED BY <3>1, <3>6 DEF Promise!Next
    <2>3. CASE NotifyA(w) \/ NotifyB(w) \/ StartWorker(w)
      <3>1. /\ \A v \in Workers \ {w} : at'[v] = at[v] /\ held'[v] = held[v]
            /\ at[w] \notin {"one", "pair"} /\ at'[w] \notin {"one", "pair"}
            /\ UNCHANGED <<queue, matches, lost>>
        BY <1>0, <2>3 DEF NotifyA, NotifyB, StartWorker, TypeInv, TypeOK
      <3>2. InQueue' = InQueue /\ \A v \in Workers : Held(v)' = Held(v)
        BY <3>1 DEF Held, InQueue
      <3>3. Waiting' = Waiting
        BY <3>2, WaitingIs
      <3> QED BY <3>1, <3>3, QuietPromise
    <2> QED BY <1>3, <2>1, <2>2, <2>3 DEF ProcessOnce
  <1>4. CASE UNCHANGED vars
    <2>1. Waiting' = Waiting
      BY <1>4 DEF Waiting, vars, InQueue, Held
    <2> QED BY <1>4, <2>1, QuietPromise DEF vars
  <1> QED BY <1>1, <1>2, <1>3, <1>4 DEF Next, ProcessOnce

\* The service keeps the promise of a pair queue: a ticket waits, and leaves in
\* one match with one other ticket, or is dropped (queue.go:20-47,
\* service.go:56-80).
THEOREM KeepsPromise == Spec => ImplementsPairQueue
  <1>1. Init => Promise!Init
    BY DEF Init, Promise!Init, Waiting, Pairs, InQueue, Held
  <1>2. Spec => []PlaceInv
    BY PlaceInvInit, PlaceInvNext, PTL DEF Spec
  <1>3. PlaceInv /\ [Next]_vars => [Promise!Next]_(Promise!vars)
    BY PromiseStep
  <1> QED BY <1>1, <1>2, <1>3, PTL DEF Spec, ImplementsPairQueue, Promise!Spec

----------------------------------------------------------------------------
(* With one worker, players are matched in the order they were queued.     *)

\* Push s came no later than push t.
Earlier(order, s, t) == order[s] <= order[t]

\* What is matched came before what the worker w holds, and that before what
\* is queued; the queue is in order.
InOrder(w) ==
    /\ \A t \in Tickets : arrived[t] <= pushes
    /\ \A i, j \in DOMAIN queue : i < j => Earlier(arrived, queue[i], queue[j])
    /\ \A s \in InMatch, t \in InQueue \cup Held(w) : Earlier(arrived, s, t)
    /\ \A s \in Held(w), t \in InQueue : Earlier(arrived, s, t)
    /\ at[w] = "pair" => Earlier(arrived, held[w][1], held[w][2])
    /\ \A i \in DOMAIN matches : Earlier(arrived, matches[i][1], matches[i][2])
    /\ \A i, j \in DOMAIN matches : i < j => Earlier(arrived, matches[i][2], matches[j][1])

OrderInv == PlaceInv /\ \A w : Workers = {w} => InOrder(w)

\* What LPOP leaves is the list without its first n.
LEMMA CutRest ==
    ASSUME NEW T, NEW s \in Seq(T), NEW n \in 1..Len(s)
    PROVE  /\ SubSeq(s, n + 1, Len(s)) \in Seq(T)
           /\ Len(SubSeq(s, n + 1, Len(s))) = Len(s) - n
           /\ \A i \in 1..(Len(s) - n) : SubSeq(s, n + 1, Len(s))[i] = s[n + i]
  BY CutElements

\* What LPUSH makes is the list with one more at the front.
LEMMA PushFrontIndex ==
    ASSUME NEW T, NEW g \in Seq(T), Len(g) = 1, NEW s \in Seq(T), NEW i \in 1..Len(s)
    PROVE  (g \o s)[i + 1] = s[i]
  BY PushFrontElements

LEMMA Offsets ==
    ASSUME NEW l \in Nat, NEW n \in 1..l
    PROVE  \A i \in 1..(l - n) : n + i \in 1..l /\ \A k \in 1..n : k < n + i /\ k \in 1..l
  OBVIOUS

\* All of a ticket's places are tickets.
LEMMA PlacesAreTickets ==
    ASSUME TypeInv
    PROVE  /\ InQueue \subseteq Tickets /\ InMatch \subseteq Tickets
           /\ \A w \in Workers : Held(w) \subseteq Tickets
           /\ \A i \in DOMAIN matches : /\ matches[i][1] \in InMatch
                                        /\ matches[i][2] \in InMatch
           /\ \A i \in DOMAIN queue : queue[i] \in InQueue
  <1>1. \A i \in DOMAIN matches : matches[i] \in Tickets \X Tickets
    BY DEF TypeInv, TypeOK
  <1>2. \A i \in DOMAIN queue : queue[i] \in Tickets
    BY DEF TypeInv, TypeOK
  <1>3. \A w \in Workers : \A i \in DOMAIN held[w] : held[w][i] \in Tickets
    BY DEF TypeInv, TypeOK
  <1>4. InMatch \subseteq Tickets
    BY <1>1 DEF InMatch
  <1> QED BY <1>2, <1>3, <1>4 DEF InQueue, InMatch, Held

LEMMA QuietOrder ==
    ASSUME TypeInv, TypeInv', NEW w \in Workers, InOrder(w),
           UNCHANGED <<arrived, pushes, queue, matches>>, Held(w)' \subseteq Held(w),
           at'[w] = "pair" => at[w] = "pair" /\ held'[w] = held[w]
    PROVE  InOrder(w)'
  <1>1. InQueue' = InQueue /\ InMatch' = InMatch
    BY DEF InQueue, InMatch
  <1> QED BY <1>1 DEF InOrder, Earlier

LEMMA OrderInvNext == OrderInv /\ [Next]_vars => OrderInv'
  <1> SUFFICES ASSUME OrderInv, [Next]_vars, NEW w, Workers = {w} PROVE InOrder(w)'
    BY PlaceInvNext DEF OrderInv
  <1>0. /\ TypeInv /\ TypeInv' /\ w \in Workers /\ InOrder(w) /\ PlaceInv
        /\ \A v \in Workers : v = w
    BY PlaceInvNext DEF OrderInv, PlaceInv
  <1>1. /\ InQueue \subseteq Tickets /\ InMatch \subseteq Tickets
        /\ Held(w) \subseteq Tickets
        /\ \A i \in DOMAIN matches : /\ matches[i][1] \in InMatch
                                     /\ matches[i][2] \in InMatch
        /\ \A i \in DOMAIN queue : queue[i] \in InQueue
    BY <1>0, PlacesAreTickets
  <1>2. /\ queue \in Seq(Tickets) /\ Len(queue) \in Nat /\ DOMAIN queue = 1..Len(queue)
        /\ arrived \in [Tickets -> Nat] /\ pushes \in Nat
        /\ arrived' \in [Tickets -> Nat] /\ pushes' \in Nat
    BY <1>0 DEF TypeInv, TypeOK
  <1>3. ASSUME NEW t \in Tickets, HandleEnqueue(t) PROVE InOrder(w)'
    <2>1. ASSUME NEW next, Push(t, next) PROVE InOrder(w)'
      <3>1. t \notin InQueue \cup InMatch \cup lost \cup Held(w)
        BY <1>0, <2>1 DEF Push, PlaceInv, NewNowhere
      <3>2. /\ InQueue' = InQueue \cup {t} /\ UNCHANGED <<matches, lost, at, held>>
            /\ InMatch' = InMatch /\ Held(w)' = Held(w)
        BY <1>0, <2>1, PushEffect DEF Push, workers
      <3>3. /\ queue' = Append(queue, t)
            /\ arrived' = [arrived EXCEPT ![t] = pushes + 1] /\ pushes' = pushes + 1
        BY <2>1 DEF Push
      <3>4. /\ DOMAIN queue' = 1..(Len(queue) + 1) /\ queue'[Len(queue) + 1] = t
            /\ \A i \in 1..Len(queue) : queue'[i] = queue[i]
        BY <1>2, <3>3
      <3>5. /\ arrived'[t] = pushes + 1 /\ \A s \in Tickets \ {t} : arrived'[s] = arrived[s]
            /\ \A s \in Tickets : arrived[s] \in Nat /\ arrived[s] <= pushes
        BY <1>0, <1>2, <3>3 DEF InOrder
      <3>6. \A s, r \in Tickets \ {t} : Earlier(arrived, s, r) => Earlier(arrived', s, r)
        BY <3>5 DEF Earlier
      <3>7. \A s \in Tickets : Earlier(arrived', s, t)
        BY <1>2, <3>5 DEF Earlier
      <3>8. \A s \in Tickets : arrived'[s] <= pushes'
        BY <1>2, <3>3, <3>5
      <3>9. \A i, j \in DOMAIN queue' : i < j => Earlier(arrived', queue'[i], queue'[j])
        <4> SUFFICES ASSUME NEW i \in DOMAIN queue', NEW j \in DOMAIN queue', i < j
                     PROVE  Earlier(arrived', queue'[i], queue'[j])
          OBVIOUS
        <4>1. i \in DOMAIN queue /\ (j \in DOMAIN queue \/ j = Len(queue) + 1)
          BY <1>2, <3>4
        <4>2. queue'[i] = queue[i] /\ queue[i] \in Tickets \ {t}
          BY <1>1, <1>2, <3>1, <3>4, <4>1
        <4>3. CASE j = Len(queue) + 1
          BY <3>4, <3>7, <4>2, <4>3
        <4>4. CASE j \in DOMAIN queue
          <5>1. queue'[j] = queue[j] /\ queue[j] \in Tickets \ {t}
            BY <1>1, <1>2, <3>1, <3>4, <4>4
          <5>2. Earlier(arrived, queue[i], queue[j])
            BY <1>0, <4>1, <4>4 DEF InOrder
          <5> QED BY <3>6, <4>2, <5>1, <5>2
        <4> QED BY <4>1, <4>3, <4>4
      <3>10. at'[w] = "pair" => /\ held[w][1] \in Held(w) /\ held[w][2] \in Held(w)
        BY <1>0, <3>2 DEF TypeInv, TypeOK, HeldShape, Held
      <3> QED BY <1>0, <1>1, <3>1, <3>2, <3>6, <3>7, <3>8, <3>9, <3>10 DEF InOrder
    <2>2. ASSUME UNCHANGED <<queue, arrived, pushes, workers>> PROVE InOrder(w)'
      BY <1>0, <2>2, QuietOrder DEF workers, Held
    <2> QED BY <1>3, <2>1, <2>2
        DEF HandleEnqueue, Enqueue, EnqueueAnswerLost, EnqueueFails,
            PublishEnqueued, PublishEnqueuedFails
  <1>4. ASSUME NEW next \in {"idle", "stopped"}, Drop(w, next) PROVE InOrder(w)'
    <2>1. Held(w)' = {} /\ UNCHANGED <<queue, matches>>
      BY <1>0, <1>4, DropEffect
    <2>2. UNCHANGED <<arrived, pushes>> /\ at'[w] # "pair"
      BY <1>0, <1>4 DEF Drop, requests, TypeInv, TypeOK
    <2> QED BY <1>0, <2>1, <2>2, QuietOrder
  <1>5. ASSUME NEW n \in 1..2, n <= Len(queue),
               NEW place \in {"one", "pair"}, place = "one" <=> n = 1,
               Pop(w, n, place), UNCHANGED <<requests, matches>>
        PROVE  InOrder(w)'
    <2>1. /\ InQueue = InQueue' \cup Held(w)' /\ \A i \in 1..n : held'[w][i] = queue[i]
      BY <1>0, <1>5, PopEffect
    <2>2. /\ UNCHANGED <<arrived, pushes, matches>> /\ InMatch' = InMatch
          /\ at' = [at EXCEPT ![w] = place] /\ at'[w] = place
          /\ queue' = SubSeq(queue, n + 1, Len(queue))
          /\ held' = [held EXCEPT ![w] = SubSeq(queue, 1, n)]
      BY <1>0, <1>5 DEF Pop, requests, InMatch, TypeInv, TypeOK
    <2>3. n \in 1..Len(queue) /\ Len(queue) - n \in Nat /\ n \in Nat
      BY <1>2, <1>5
    <2>4. /\ Len(queue') = Len(queue) - n /\ queue' \in Seq(Tickets)
          /\ \A i \in 1..(Len(queue) - n) : queue'[i] = queue[n + i]
          /\ Len(SubSeq(queue, 1, n)) = n /\ SubSeq(queue, 1, n) \in Seq(Tickets)
          /\ \A i \in 1..n : SubSeq(queue, 1, n)[i] = queue[i]
      <3>1. LET rest == SubSeq(queue, n + 1, Len(queue))
            IN  /\ Len(rest) = Len(queue) - n /\ rest \in Seq(Tickets)
                /\ \A i \in 1..(Len(queue) - n) : rest[i] = queue[n + i]
        BY <1>2, <2>3, CutRest
      <3>2. /\ Len(SubSeq(queue, 1, n)) = n /\ SubSeq(queue, 1, n) \in Seq(Tickets)
            /\ \A i \in 1..n : SubSeq(queue, 1, n)[i] = queue[i]
        BY <1>2, <2>3, CutElements
      <3>3. queue' = SubSeq(queue, n + 1, Len(queue))
        BY <2>2
      <3> QED BY <3>1, <3>2, <3>3
    <2>5. DOMAIN queue' = 1..(Len(queue) - n)
      BY <2>4
    <2>6. \A i \in DOMAIN queue' : /\ n + i \in DOMAIN queue /\ queue'[i] = queue[n + i]
                                   /\ \A k \in 1..n : k < n + i /\ k \in DOMAIN queue
      BY <1>2, <2>3, <2>4, <2>5, Offsets
    <2>7. \A i, j \in DOMAIN queue' : i < j => Earlier(arrived, queue'[i], queue'[j])
      <3> SUFFICES ASSUME NEW i \in DOMAIN queue', NEW j \in DOMAIN queue', i < j
                   PROVE  Earlier(arrived, queue'[i], queue'[j])
        OBVIOUS
      <3>1. n + i < n + j
        BY <2>3, <2>5
      <3> QED BY <1>0, <2>6, <3>1 DEF InOrder
    <2>8. \A s \in Held(w)' : \E k \in 1..n : s = queue[k]
      <3>1. Held(w)' = Range(SubSeq(queue, 1, n))
        BY <1>0, <2>2, HeldEffect
      <3>2. DOMAIN SubSeq(queue, 1, n) = 1..n
        BY <2>4
      <3> QED BY <2>4, <3>1, <3>2 DEF Range
    <2>9. \A t \in InQueue' : \E i \in DOMAIN queue' : t = queue'[i]
      BY DEF InQueue
    <2>10. \A s \in Held(w)', t \in InQueue' : Earlier(arrived, s, t)
      <3> SUFFICES ASSUME NEW s \in Held(w)', NEW t \in InQueue' PROVE Earlier(arrived, s, t)
        OBVIOUS
      <3>1. PICK k \in 1..n : s = queue[k]
        BY <2>8
      <3>2. PICK i \in DOMAIN queue' : t = queue'[i]
        BY <2>9
      <3>3. n + i \in DOMAIN queue /\ k \in DOMAIN queue /\ k < n + i /\ t = queue[n + i]
        BY <2>6, <3>2
      <3> QED BY <1>0, <3>1, <3>3 DEF InOrder
    <2>11. at'[w] = "pair" => Earlier(arrived, held'[w][1], held'[w][2])
      <3> SUFFICES ASSUME n = 2 PROVE Earlier(arrived, held'[w][1], held'[w][2])
        BY <1>5, <2>2
      <3>1. held'[w][1] = queue[1] /\ held'[w][2] = queue[2]
        BY <2>1
      <3>2. 1 \in DOMAIN queue /\ 2 \in DOMAIN queue
        BY <1>2, <2>3
      <3> QED BY <1>0, <3>1, <3>2 DEF InOrder
    <2>12. \A s \in InMatch', t \in InQueue' \cup Held(w)' : Earlier(arrived, s, t)
      BY <1>0, <2>1, <2>2 DEF InOrder
    <2> QED BY <1>0, <2>2, <2>7, <2>10, <2>11, <2>12 DEF InOrder
  <1>6. CASE PopAnswerLost(w)
    <2> DEFINE n == IF Len(queue) = 1 THEN 1 ELSE 2
    <2>1. n \in 1..Len(queue) /\ n \in Nat
      <3>1. Len(queue) \in Nat \ {0}
        BY <1>2, <1>6, EmptySeq DEF PopAnswerLost
      <3>2. \A l \in Nat \ {0} : (IF l = 1 THEN 1 ELSE 2) \in 1..l
        OBVIOUS
      <3> QED BY <3>1, <3>2
    <2>2. /\ queue' = SubSeq(queue, n + 1, Len(queue))
          /\ UNCHANGED <<arrived, pushes, matches, at, held>>
      BY <1>6 DEF PopAnswerLost, requests
    <2> HIDE DEF n
    <2>3. /\ Len(queue') = Len(queue) - n /\ queue' \in Seq(Tickets)
          /\ \A i \in 1..(Len(queue) - n) : queue'[i] = queue[n + i]
      BY <1>2, <2>1, <2>2, CutRest
    <2>4. DOMAIN queue' = 1..(Len(queue) - n) /\ Len(queue) - n \in Nat
      BY <1>2, <2>1, <2>3
    <2>5. \A i \in DOMAIN queue' : n + i \in DOMAIN queue /\ queue'[i] = queue[n + i]
      BY <1>2, <2>1, <2>3, <2>4, Offsets
    <2>6. \A i, j \in DOMAIN queue' : i < j => Earlier(arrived, queue'[i], queue'[j])
      <3> SUFFICES ASSUME NEW i \in DOMAIN queue', NEW j \in DOMAIN queue', i < j
                   PROVE  Earlier(arrived, queue'[i], queue'[j])
        OBVIOUS
      <3>1. n + i < n + j
        BY <2>1, <2>4
      <3> QED BY <1>0, <2>5, <3>1 DEF InOrder
    <2>7. InQueue' \subseteq InQueue
      BY <2>5 DEF InQueue
    <2>8. Held(w)' = Held(w) /\ InMatch' = InMatch
      BY <2>2 DEF Held, InMatch
    <2> QED BY <1>0, <2>2, <2>6, <2>7, <2>8 DEF InOrder
  <1>7. ASSUME at[w] = "one", queue' = held[w] \o queue,
               UNCHANGED <<matches, pushes>>,
               \A s \in InQueue \cup InMatch \cup Held(w) : arrived'[s] = arrived[s],
               \A s \in Tickets : arrived'[s] <= pushes,
               at'[w] # "pair",
               \A s \in Held(w)' : arrived'[s] = arrived'[held[w][1]]
        PROVE  InOrder(w)'
    <2> DEFINE h == held[w][1]
    <2>1. /\ InQueue' = InQueue \cup {h} /\ h \in Tickets /\ Held(w) = {h}
          /\ InMatch' = InMatch
      BY <1>0, <1>7, PutBackEffect DEF InMatch
    <2>2. /\ Len(queue') = Len(queue) + 1 /\ queue' \in Seq(Tickets) /\ queue'[1] = h
          /\ \A i \in 1..Len(queue) : queue'[i + 1] = queue[i]
      <3>1. held[w] \in Seq(Tickets) /\ Len(held[w]) = 1 /\ queue \in Seq(Tickets)
        BY <1>0, <1>7 DEF TypeInv, TypeOK, HeldShape
      <3>2. queue' = held[w] \o queue
        BY <1>7
      <3>3. held[w] \o queue \in Seq(Tickets) /\ Len(held[w] \o queue) = Len(queue) + 1
        BY <3>1, PushFrontElements
      <3>4. (held[w] \o queue)[1] = held[w][1]
        BY <3>1, PushFrontElements
      <3>5. ASSUME NEW i \in 1..Len(queue) PROVE (held[w] \o queue)[i + 1] = queue[i]
        BY <3>1, PushFrontIndex
      <3> QED BY <3>2, <3>3, <3>4, <3>5
    <2> HIDE DEF h
    <2>3. DOMAIN queue' = 1..(Len(queue) + 1)
      BY <2>2
    <2>4. \A s, t \in InQueue \cup InMatch \cup {h} :
              Earlier(arrived, s, t) => Earlier(arrived', s, t)
      BY <1>7, <2>1 DEF Earlier
    <2>5. \A t \in InQueue : Earlier(arrived', h, t)
      BY <1>0, <2>1, <2>4 DEF InOrder
    <2>6. \A s \in InMatch : Earlier(arrived', s, h)
      BY <1>0, <2>1, <2>4 DEF InOrder
    <2>7. \A i, j \in DOMAIN queue' : i < j => Earlier(arrived', queue'[i], queue'[j])
      <3> SUFFICES ASSUME NEW i \in DOMAIN queue', NEW j \in DOMAIN queue', i < j
                   PROVE  Earlier(arrived', queue'[i], queue'[j])
        OBVIOUS
      <3>1. /\ j - 1 \in DOMAIN queue /\ j = (j - 1) + 1
            /\ i = 1 \/ (i - 1 \in DOMAIN queue /\ i - 1 < j - 1 /\ i = (i - 1) + 1)
        BY <1>2, <2>3
      <3>2. queue'[j] = queue[j - 1] /\ queue[j - 1] \in InQueue
        BY <1>1, <1>2, <2>2, <3>1
      <3>3. CASE i = 1
        BY <2>2, <2>5, <3>2, <3>3
      <3>4. CASE i - 1 \in DOMAIN queue /\ i - 1 < j - 1 /\ i = (i - 1) + 1
        <4>1. queue'[i] = queue[i - 1] /\ queue[i - 1] \in InQueue
          BY <1>1, <1>2, <2>2, <3>4
        <4>2. Earlier(arrived, queue[i - 1], queue[j - 1])
          BY <1>0, <3>1, <3>4 DEF InOrder
        <4> QED BY <2>4, <3>2, <4>1, <4>2
      <3> QED BY <3>1, <3>3, <3>4
    <2>8. Held(w)' \subseteq Tickets /\ arrived'[h] \in Nat
      BY <1>0, <1>2, <2>1, PlacesAreTickets DEF TypeInv, TypeOK, Held
    <2>9. \A s \in InMatch, t \in Held(w)' : Earlier(arrived', s, t)
      BY <1>7, <2>6 DEF Earlier, h
    <2>10. \A s \in Held(w)', t \in InQueue \cup {h} : Earlier(arrived', s, t)
      <3> SUFFICES ASSUME NEW s \in Held(w)', NEW t \in InQueue \cup {h}
                   PROVE  Earlier(arrived', s, t)
        OBVIOUS
      <3>1. arrived'[s] = arrived'[h]
        BY <1>7 DEF h
      <3>2. CASE t = h
        BY <2>8, <3>1, <3>2 DEF Earlier
      <3>3. CASE t \in InQueue
        BY <2>5, <3>1, <3>3 DEF Earlier
      <3> QED BY <3>2, <3>3
    <2>11. \A s \in InMatch, t \in InQueue : Earlier(arrived', s, t)
      BY <1>0, <2>4 DEF InOrder
    <2>12. /\ \A i \in DOMAIN matches : Earlier(arrived', matches[i][1], matches[i][2])
           /\ \A i, j \in DOMAIN matches : i < j =>
                  Earlier(arrived', matches[i][2], matches[j][1])
      BY <1>0, <1>1, <2>4 DEF InOrder
    <2> QED BY <1>7, <2>1, <2>6, <2>7, <2>9, <2>10, <2>11, <2>12 DEF InOrder
  <1>8. CASE PutBack(w)
    <2>1. /\ at[w] = "one" /\ queue' = held[w] \o queue /\ at'[w] # "pair"
          /\ UNCHANGED <<matches, pushes, arrived>>
      BY <1>0, <1>8 DEF PutBack, requests, TypeInv, TypeOK
    <2>2. Held(w)' = {}
      BY <1>0, <1>8, HeldEffect DEF PutBack
    <2>3. \A s \in Tickets : arrived'[s] <= pushes
      BY <1>0, <2>1 DEF InOrder
    <2> QED BY <1>7, <2>1, <2>2, <2>3
  <1>9. ASSUME NEW t \in Tickets, PutBackAnswerLost(w, t) PROVE InOrder(w)'
    <2>1. /\ at[w] = "one" /\ queue' = held[w] \o queue /\ at'[w] # "pair"
          /\ UNCHANGED <<matches, pushes>> /\ Held(w)' = {t}
          /\ arrived' = [arrived EXCEPT ![t] = arrived[held[w][1]]]
      BY <1>0, <1>9 DEF PutBackAnswerLost, TypeInv, TypeOK, Held
    <2>2. t \notin InQueue \cup InMatch \cup Held(w)
      BY <1>0, <1>9 DEF PutBackAnswerLost, PlaceInv, NewNowhere
    <2>3. Held(w) = {held[w][1]} /\ held[w][1] \in Tickets
      BY <1>0, <2>1, PutBackEffect
    <2>4. \A s \in InQueue \cup InMatch \cup Held(w) : arrived'[s] = arrived[s]
      BY <1>1, <1>2, <2>1, <2>2
    <2>5. \A s \in Tickets : arrived'[s] <= pushes
      BY <1>0, <1>2, <2>1, <2>3 DEF InOrder
    <2>6. arrived'[t] = arrived'[held[w][1]]
      BY <1>2, <2>1, <2>2, <2>3
    <2> QED BY <1>7, <2>1, <2>4, <2>5, <2>6
  <1>10. CASE PublishMatched(w)
    <2> DEFINE a == held[w][1]
               b == held[w][2]
               l == Len(matches)
    <2>1. /\ a \in Tickets /\ b \in Tickets /\ Held(w) = {a, b} /\ l \in Nat
          /\ DOMAIN matches = 1..l /\ DOMAIN matches' = 1..(l + 1)
          /\ \A i \in 1..l : matches'[i] = matches[i]
          /\ matches'[l + 1] = <<a, b>>
          /\ InMatch' = InMatch \cup {a, b}
          /\ Held(w)' = {} /\ InQueue' = InQueue /\ UNCHANGED queue
      BY <1>0, <1>10, PublishMatchedEffect
    <2>2. UNCHANGED <<arrived, pushes>> /\ at[w] = "pair" /\ at'[w] = "notifyA"
      BY <1>0, <1>10 DEF PublishMatched, requests, TypeInv, TypeOK
    <2>3. Earlier(arrived, a, b)
      BY <1>0, <2>2 DEF InOrder
    <2> HIDE DEF a, b, l
    <2>4. matches'[l + 1][1] = a /\ matches'[l + 1][2] = b
      BY <2>1
    <2>5. \A i \in DOMAIN matches' : i \in DOMAIN matches \/ i = l + 1
      BY <2>1
    <2>6. \A i \in DOMAIN matches' : Earlier(arrived, matches'[i][1], matches'[i][2])
      BY <1>0, <2>1, <2>3, <2>4, <2>5 DEF InOrder
    <2>7. \A i, j \in DOMAIN matches' :
              i < j => Earlier(arrived, matches'[i][2], matches'[j][1])
      <3> SUFFICES ASSUME NEW i \in DOMAIN matches', NEW j \in DOMAIN matches', i < j
                   PROVE  Earlier(arrived, matches'[i][2], matches'[j][1])
        OBVIOUS
      <3>1. i \in DOMAIN matches /\ matches'[i] = matches[i]
        BY <2>1
      <3>2. CASE j \in DOMAIN matches
        BY <1>0, <2>1, <3>1, <3>2 DEF InOrder
      <3>3. CASE j = l + 1
        BY <1>0, <1>1, <2>1, <2>4, <3>1, <3>3 DEF InOrder
      <3> QED BY <2>5, <3>2, <3>3
    <2>8. \A s \in InMatch', t \in InQueue' : Earlier(arrived, s, t)
      BY <1>0, <2>1 DEF InOrder
    <2> QED BY <1>0, <2>1, <2>2, <2>6, <2>7, <2>8 DEF InOrder
  <1>11. CASE NotifyA(w) \/ NotifyB(w) \/ StartWorker(w)
    <2>1. /\ at[w] \notin {"one", "pair"} /\ at'[w] \notin {"one", "pair"}
          /\ UNCHANGED <<arrived, pushes, queue, matches>>
      BY <1>0, <1>11 DEF NotifyA, NotifyB, StartWorker, requests, TypeInv, TypeOK
    <2>2. Held(w)' \subseteq Held(w)
      BY <2>1 DEF Held
    <2> QED BY <1>0, <2>1, <2>2, QuietOrder
  <1>12. CASE UNCHANGED vars
    <2>1. Held(w)' \subseteq Held(w)
      BY <1>12 DEF vars, Held
    <2> QED BY <1>0, <1>12, <2>1, QuietOrder DEF vars
  <1>13. CASE PopOne(w) \/ PopPair(w)
    BY <1>5, <1>13, <1>2 DEF PopOne, PopPair
  <1> QED
    BY <1>0, <1>3, <1>4, <1>6, <1>8, <1>9, <1>10, <1>11, <1>12, <1>13
    DEF Next, ProcessOnce, DequeuePair, PutBackFails, MatchFails, NotifyFails, StopWorker

\* With a single replica players are matched in the order they were queued,
\* whatever calls fail and however often a lone player is put back
\* (queue.go:37-41).
THEOREM MatchesInOrder == Spec => []MatchedInArrivalOrder
  <1>1. Init => OrderInv
    <2> SUFFICES ASSUME Init PROVE OrderInv
      OBVIOUS
    <2>1. InQueue = {} /\ InMatch = {} /\ DOMAIN queue = {} /\ DOMAIN matches = {}
      BY DEF Init, InQueue, InMatch
    <2>2. \A w \in Workers : Held(w) = {} /\ at[w] # "pair"
      BY DEF Init, Held
    <2>3. \A t \in Tickets : arrived[t] <= pushes
      BY DEF Init
    <2> QED BY <2>1, <2>2, <2>3, PlaceInvInit DEF OrderInv, InOrder
  <1>2. Spec => []OrderInv
    BY <1>1, OrderInvNext, PTL DEF Spec
  <1>3. OrderInv => MatchedInArrivalOrder
    <2> SUFFICES ASSUME OrderInv, Cardinality(Workers) = 1 PROVE MatchedInArrivalOrder
      BY DEF MatchedInArrivalOrder
    <2>1. PICK w : Workers = {w}
      BY WorkersAssumption, FS_Singleton
    <2> QED BY <2>1 DEF OrderInv, InOrder, Earlier, MatchedInArrivalOrder
  <1> QED BY <1>2, <1>3, PTL
=============================================================================
