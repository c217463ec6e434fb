--------------------------- MODULE GatewayProofs ---------------------------
(* Proofs about Gateway, for any instances, users, connections and TTL.    *)
EXTENDS Gateway, Integers, TLAPS

\* A handler that got past the upgrade knows its user and instance.
Placed ==
    \A c \in Conns :
        /\ pc[c] \notin {"idle", "refused"} \/ loop[c] # "none"
           => home[c] \in Gateways
        /\ pc[c] \in {"idle", "refused"} => home[c] = None
        /\ home[c] \in Gateways => user[c] \in Users

SendsHold == \A m \in Sends : send[m].st \in {"held", "write"} => send[m].conn \in Conns

\* A running presence loop ends only under a done ctx.
LoopsRun ==
    \A c \in Conns : pc[c] \in {"serving", "ponging"} /\ ~cancelled[c]
        => loop[c] \in {"wait", "inflight"}

TypeInv == TypeOK /\ Placed /\ SendsHold /\ LoopsRun

LEMMA Countdown ==
    \A n \in Nat : \A k \in 0..n : (IF k = 0 THEN 0 ELSE k - 1) \in 0..n
  OBVIOUS

LEMMA TypeInvInit == Init => TypeInv
  BY NoneAssumption, TTLAssumption, FaultsAssumption
  DEF Init, TypeInv, TypeOK, Placed, SendsHold, LoopsRun, Running, Registered

LEMMA TypeInvNext == TypeInv /\ [Next]_vars => TypeInv'
  <1> SUFFICES ASSUME TypeInv, [Next]_vars PROVE TypeInv'
    OBVIOUS
  <1> USE NoneAssumption, TTLAssumption, FaultsAssumption
      DEF TypeInv, TypeOK, Placed, SendsHold, LoopsRun, Running, Registered,
          registry, redis, who, threads, vars
  <1>1. CASE Tick
    <2>1. due' \in [Conns -> BOOLEAN]
      BY <1>1, Zenon DEF Tick
    <2>2. presence' \in [Users -> Gateways \cup {None}]
      BY <1>1 DEF Tick
    <2>3. ttl' \in [Users -> 0..TTL]
      <3>1. \A u \in Users : (IF ttl[u] = 0 THEN 0 ELSE ttl[u] - 1) \in 0..TTL
        BY Countdown
      <3> QED BY <1>1, <3>1 DEF Tick
    <2> QED BY <1>1, <2>1, <2>2, <2>3 DEF Tick
  <1>2. ASSUME NEW c \in Conns, NEW g \in Gateways, NEW u \in Users,
               ServeWS(c, g, u)
        PROVE  TypeInv'
    <2>1. CASE RegisterConn(c, g, u)
      BY <2>1 DEF RegisterConn, Live
    <2>2. CASE RefuseUpgrade(c) /\ pc[c] = "idle"
      BY <2>2 DEF RefuseUpgrade
    <2> QED BY <1>2, <2>1, <2>2 DEF ServeWS
  <1>3. ASSUME NEW c \in Conns, Handler(c) PROVE TypeInv'
    <2>1. CASE InitialPresence(c)
      BY <2>1 DEF InitialPresence, StartLoops, SetPresence
    <2>2. CASE InitialPresenceFails(c)
      BY <2>2 DEF InitialPresenceFails, StartLoops, SetPresenceFails
    <2>3. CASE ReadError(c)
      BY <2>3 DEF ReadError
    <2>4. CASE ReadClose(c)
      BY <2>4 DEF ReadClose
    <2>5. CASE ReadWhenCancelled(c)
      BY <2>5 DEF ReadWhenCancelled
    <2>6. CASE ReadPing(c)
      BY <2>6 DEF ReadPing
    <2>7. CASE PongWritten(c)
      BY <2>7 DEF PongWritten
    <2>8. CASE Unregister(c)
      BY <2>8 DEF Unregister
    <2>9. CASE DeletePresence(c)
      BY <2>9 DEF DeletePresence, CloseConn
    <2>10. CASE DeletePresenceFails(c)
      BY <2>10 DEF DeletePresenceFails, CloseConn
    <2> QED BY <1>3, <2>1, <2>2, <2>3, <2>4, <2>5, <2>6, <2>7, <2>8, <2>9,
               <2>10 DEF Handler
  <1>4. ASSUME NEW c \in Conns, PresenceLoop(c) PROVE TypeInv'
    <2>1. CASE RefreshStart(c)
      BY <2>1 DEF RefreshStart
    <2>2. CASE RefreshLands(c)
      BY <2>2 DEF RefreshLands, RefreshReturns, SetPresence
    <2>3. CASE RefreshFails(c)
      BY <2>3 DEF RefreshFails, RefreshReturns, SetPresenceFails
    <2>4. CASE PresenceLoopExit(c)
      BY <2>4 DEF PresenceLoopExit
    <2> QED BY <1>4, <2>1, <2>2, <2>3, <2>4 DEF PresenceLoop
  <1>5. ASSUME NEW c \in Conns, PingLoop(c) PROVE TypeInv'
    <2>1. CASE PingLock(c)
      BY <2>1 DEF PingLock
    <2>2. CASE PingWritten(c)
      BY <2>2 DEF PingWritten
    <2>3. CASE PingFails(c)
      BY <2>3 DEF PingFails
    <2>4. CASE PingExit(c)
      BY <2>4 DEF PingExit
    <2> QED BY <1>5, <2>1, <2>2, <2>3, <2>4 DEF PingLoop
  <1>6. ASSUME NEW c \in Conns, PeerGone(c) PROVE TypeInv'
    BY <1>6 DEF PeerGone
  <1>7. ASSUME NEW m \in Sends, NEW g \in Gateways, NEW u \in Users,
               SendLookup(m, g, u)
        PROVE  TypeInv'
    <2>1. send' \in [Sends -> [st : {"idle", "held", "write", "accepted",
                                    "failed", "not_connected", "killed"},
                              conn : Conns \cup {None}]]
      BY <1>7 DEF SendLookup
    <2>2. SendsHold'
      BY <1>7 DEF SendLookup
    <2> QED BY <1>7, <2>1, <2>2 DEF SendLookup
  <1>8. ASSUME NEW m \in Sends, Sender(m) PROVE TypeInv'
    <2>1. CASE SendLock(m)
      BY <2>1 DEF SendLock
    <2>2. ASSUME NEW r \in {"accepted", "failed"}, SendReturn(m, r)
          PROVE  TypeInv'
      BY <2>2 DEF SendReturn
    <2> QED BY <1>8, <2>1, <2>2 DEF Sender, SendWritten, SendFails
  <1>9. ASSUME NEW g \in Gateways, StopProcess(g) PROVE TypeInv'
    <2>1. /\ conns' \in [Gateways -> [Users -> Conns \cup {None}]]
          /\ pc' \in [Conns -> {"idle", "refused", "closed"} \cup Running]
          /\ sock' \in [Conns -> {"none", "open", "broken", "closed"}]
          /\ pinger' \in [Conns -> {"none", "wait", "write", "done"}]
          /\ loop' \in [Conns -> {"none", "wait", "inflight", "done"}]
          /\ cmu' \in [Conns -> {"free", "ping", "read", "send"}]
      BY <1>9 DEF StopProcess, Live
    <2>2. cancelled' \in [Conns -> BOOLEAN] /\ due' \in [Conns -> BOOLEAN]
      BY <1>9, Zenon DEF StopProcess
    <2>3. /\ send' \in [Sends -> [st : {"idle", "held", "write", "accepted",
                                       "failed", "not_connected", "killed"},
                                 conn : Conns \cup {None}]]
          /\ SendsHold'
      BY <1>9 DEF StopProcess
    <2>4. Placed'
      BY <1>9 DEF StopProcess, Live
    <2>5. LoopsRun'
      <3> SUFFICES ASSUME NEW c \in Conns, pc'[c] \in {"serving", "ponging"},
                          ~cancelled'[c]
                   PROVE  loop'[c] \in {"wait", "inflight"}
        OBVIOUS
      <3> DEFINE mine == {d \in Conns : Live(d) /\ home[d] = g}
      <3>0. c \notin mine /\ pc'[c] = pc[c]
        BY <1>9 DEF StopProcess
      <3>1. home[c] # g /\ loop'[c] = loop[c]
        BY <1>9, <3>0 DEF StopProcess, Live
      <3>2. ~cancelled[c]
        BY <1>9, Zenon DEF StopProcess
      <3> QED BY <3>0, <3>1, <3>2
    <2> QED BY <1>9, <2>1, <2>2, <2>3, <2>4, <2>5 DEF StopProcess
  <1>10. CASE UNCHANGED vars
    BY <1>10
  <1> QED
    BY <1>1, <1>2, <1>3, <1>4, <1>5, <1>6, <1>7, <1>8, <1>9, <1>10 DEF Next

\* Every state the gateway reaches is well formed: no action writes outside
\* the registry, the presence keys and the goroutine states (handler.go).
THEOREM TypeCorrect == Spec => []TypeOK
  <1>1. Spec => []TypeInv
    BY TypeInvInit, TypeInvNext, PTL DEF Spec
  <1> QED BY <1>1, PTL DEF TypeInv

----------------------------------------------------------------------------
(* The registry.                                                           *)

\* Two handlers of one user that run at the same time know of each other.
OverlapRecorded ==
    \A c, d \in Conns :
        c # d /\ Live(c) /\ Live(d) /\ user[c] = user[d] => d \in overlap[c]

RegistryInv ==
    RegistryNamesServedConns /\ OverlapRecorded /\ ReachableUnlessOverlapped

\* A step that moves handlers only where the registry does not notice.
Quiet ==
    /\ UNCHANGED <<conns, user, home, overlap>>
    /\ \A c \in Conns :
          \/ pc'[c] = pc[c]
          \/ pc[c] \in Registered /\ pc'[c] \in Registered
          \/ pc'[c] \notin Running

\* A step of the registry is the registration of a connection, a deferred
\* delete, or the end of a process.
LEMMA RegistrySteps ==
    ASSUME TypeInv, [Next]_vars
    PROVE  \/ Quiet /\ \A c \in Conns : pc[c] \in Registered => pc'[c] \in Registered
           \/ \E c \in Conns, g \in Gateways, u \in Users :
                 pc[c] = "idle" /\ RegisterConn(c, g, u)
           \/ \E c \in Conns : Unregister(c)
           \/ \E g \in Gateways : StopProcess(g)
  <1> DEFINE Same == /\ UNCHANGED <<conns, user, home, overlap, pc>>
             Goal == Quiet /\ \A c \in Conns : pc[c] \in Registered => pc'[c] \in Registered
  <1> USE DEF registry, redis, who, threads, vars
  <1>0. Same => Goal
    BY DEF Quiet
  <1>1. CASE Tick
    BY <1>1, <1>0 DEF Tick
  <1>2. ASSUME NEW c \in Conns, NEW g \in Gateways, NEW u \in Users,
               ServeWS(c, g, u)
        PROVE  (pc[c] = "idle" /\ RegisterConn(c, g, u)) \/ Goal
    BY <1>2 DEF ServeWS, RefuseUpgrade, Quiet, TypeInv, TypeOK, Registered, Running
  <1>3. ASSUME NEW c \in Conns, Handler(c) PROVE Unregister(c) \/ Goal
    <2> USE DEF Quiet, TypeInv, TypeOK, Registered, Running
    <2>1. CASE InitialPresence(c) \/ InitialPresenceFails(c)
      BY <2>1 DEF InitialPresence, InitialPresenceFails, StartLoops
    <2>2. CASE ReadError(c) \/ ReadClose(c) \/ ReadWhenCancelled(c)
      BY <2>2 DEF ReadError, ReadClose, ReadWhenCancelled
    <2>3. CASE ReadPing(c) \/ PongWritten(c)
      BY <2>3 DEF ReadPing, PongWritten
    <2>4. CASE DeletePresence(c) \/ DeletePresenceFails(c)
      BY <2>4 DEF DeletePresence, DeletePresenceFails, CloseConn
    <2> QED BY <1>3, <2>1, <2>2, <2>3, <2>4 DEF Handler
  <1>4. ASSUME NEW c \in Conns, PresenceLoop(c) \/ PingLoop(c) \/ PeerGone(c)
        PROVE  Goal
    BY <1>4, <1>0 DEF PresenceLoop, RefreshStart, RefreshLands, RefreshFails,
       RefreshReturns, PresenceLoopExit, PingLoop, PingLock, PingWritten,
       PingFails, PingExit, PeerGone
  <1>5. ASSUME NEW m \in Sends,
               Sender(m) \/ \E g \in Gateways, u \in Users : SendLookup(m, g, u)
        PROVE  Goal
    BY <1>5, <1>0 DEF Sender, SendLock, SendWritten, SendFails, SendReturn,
       SendLookup
  <1>6. CASE UNCHANGED vars
    BY <1>6, <1>0
  <1> QED BY <1>1, <1>2, <1>3, <1>4, <1>5, <1>6 DEF Next

LEMMA RegistryInvNext ==
    ASSUME TypeInv, TypeInv', RegistryInv, [Next]_vars
    PROVE  RegistryInv'
  <1> USE NoneAssumption DEF TypeInv, TypeOK, Placed, RegistryInv,
          RegistryNamesServedConns, OverlapRecorded, ReachableUnlessOverlapped,
          Live, Running, Registered
  <1>1. CASE Quiet /\ \A c \in Conns : pc[c] \in Registered => pc'[c] \in Registered
    <2>1. RegistryNamesServedConns'
      BY <1>1 DEF Quiet
    <2>2. OverlapRecorded'
      BY <1>1 DEF Quiet
    <2>3. ReachableUnlessOverlapped'
      BY <1>1 DEF Quiet
    <2> QED BY <2>1, <2>2, <2>3
  <1>2. ASSUME NEW c \in Conns, NEW g \in Gateways, NEW u \in Users,
               pc[c] = "idle", RegisterConn(c, g, u)
        PROVE  RegistryInv'
    <2>1. RegistryNamesServedConns'
      BY <1>2 DEF RegisterConn
    <2>2. OverlapRecorded'
      BY <1>2 DEF RegisterConn
    <2>3. ReachableUnlessOverlapped'
      <3> SUFFICES ASSUME NEW d \in Conns, pc'[d] \in Registered,
                          \A e \in overlap'[d] : home'[e] # home'[d]
                   PROVE  conns'[home'[d]][user'[d]] = d
        BY DEF ReachableUnlessOverlapped
      <3>1. CASE d = c
        BY <1>2, <3>1 DEF RegisterConn
      <3>2. CASE d # c
        <4>1. pc[d] \in Registered /\ home'[d] = home[d] /\ user'[d] = user[d]
          BY <1>2, <3>2 DEF RegisterConn
        <4>2. home[d] \in Gateways /\ user[d] \in Users
          BY <4>1
        <4>3. home'[c] = g /\ \A e \in Conns : e # c => home'[e] = home[e]
          BY <1>2 DEF RegisterConn
        <4>4. overlap[d] \subseteq overlap'[d]
          <5>1. overlap'[d] = overlap[d] \/ overlap'[d] = overlap[d] \cup {c}
            BY <1>2, <3>2 DEF RegisterConn
          <5> QED BY <5>1
        <4>5. \A e \in overlap[d] : home[e] # home[d]
          BY <1>2, <4>1, <4>3, <4>2, <4>4
        <4>6. conns[home[d]][user[d]] = d
          BY <4>1, <4>5
        <4>7. user[d] = u => c \in overlap'[d]
          BY <1>2, <3>2, <4>1 DEF RegisterConn
        <4>8. ~(home[d] = g /\ user[d] = u)
          BY <4>1, <4>3, <4>7
        <4> QED BY <1>2, <4>1, <4>2, <4>6, <4>8 DEF RegisterConn
      <3> QED BY <3>1, <3>2
    <2> QED BY <2>1, <2>2, <2>3
  <1>3. ASSUME NEW c \in Conns, Unregister(c) PROVE RegistryInv'
    <2>1. RegistryNamesServedConns'
      BY <1>3 DEF Unregister, who
    <2>2. OverlapRecorded'
      BY <1>3 DEF Unregister, who
    <2>3. ReachableUnlessOverlapped'
      BY <1>3 DEF Unregister, who
    <2> QED BY <2>1, <2>2, <2>3
  <1>4. ASSUME NEW g \in Gateways, StopProcess(g) PROVE RegistryInv'
    <2>1. RegistryNamesServedConns'
      <3> SUFFICES ASSUME NEW h \in Gateways, NEW u \in Users,
                          conns'[h][u] # None
                   PROVE  LET c == conns'[h][u]
                          IN  pc'[c] \in Registered /\ home'[c] = h /\ user'[c] = u
        BY DEF RegistryNamesServedConns
      <3>1. h # g /\ conns'[h][u] = conns[h][u]
        BY <1>4 DEF StopProcess
      <3> QED BY <1>4, <3>1 DEF StopProcess, who
    <2>2. OverlapRecorded'
      BY <1>4 DEF StopProcess, who
    <2>3. ReachableUnlessOverlapped'
      BY <1>4 DEF StopProcess, who
    <2> QED BY <2>1, <2>2, <2>3
  <1> QED BY <1>1, <1>2, <1>3, <1>4, RegistrySteps

LEMMA RegistryInvariant == Spec => [](TypeInv /\ RegistryInv)
  <1>1. Init => RegistryInv
    BY NoneAssumption DEF Init, RegistryInv, RegistryNamesServedConns,
       OverlapRecorded, ReachableUnlessOverlapped, Live, Running, Registered
  <1>2. TypeInv /\ RegistryInv /\ [Next]_vars => (TypeInv /\ RegistryInv)'
    BY TypeInvNext, RegistryInvNext
  <1> QED BY <1>1, <1>2, TypeInvInit, PTL DEF Spec

\* The registry never names a connection whose handler has cleaned up, so
\* SendToUser never picks up a closed one from s.conns (handler.go:109-121).
THEOREM RegistryCorrect == Spec => []RegistryNamesServedConns
  BY RegistryInvariant, PTL DEF RegistryInv

\* A registered connection that no other handler of its user overlapped on
\* its instance is the one SendToUser finds (handler.go:109-121, 198-203).
THEOREM ReachabilityCorrect == Spec => []ReachableUnlessOverlapped
  BY RegistryInvariant, PTL DEF RegistryInv

----------------------------------------------------------------------------
(* Presence.                                                               *)

KeyHasValue == \A u \in Users : ttl[u] > 0 => presence[u] # None

Guarded(c) == pc[c] \in {"serving", "ponging"} /\ ~cancelled[c] /\ overlap[c] = {}

\* What is left of the key's life, plus the refreshes c has missed and the one
\* it still owes for this interval, is at least the whole life of the key.
Margin ==
    \A c \in Conns :
        Guarded(c) => ttl[user[c]] + misses[c] + RefreshPending(c) >= TTL

PresenceInv == KeyHasValue /\ Margin

\* A step that leaves Redis alone and no refresh undone.
PresenceQuiet ==
    /\ UNCHANGED <<presence, ttl, misses>>
    /\ \A c \in Conns :
          Guarded(c)' => Guarded(c) /\ user'[c] = user[c]
                         /\ RefreshPending(c)' = RefreshPending(c)

LEMMA PresenceQuietKeeps ==
    ASSUME TypeInv, PresenceInv, PresenceQuiet PROVE PresenceInv'
  BY DEF PresenceInv, KeyHasValue, Margin, PresenceQuiet

\* A SET of any connection restores the user's key to its full life.
LEMMA SetKeeps ==
    ASSUME TypeInv, TypeInv', PresenceInv, NEW c \in Conns, SetPresence(c),
           home[c] \in Gateways, user' = user,
           \A d \in Conns : d # c => (Guarded(d)' => Guarded(d))
                             /\ RefreshPending(d)' = RefreshPending(d)
    PROVE  PresenceInv'
  <1> USE NoneAssumption, TTLAssumption DEF TypeInv, TypeOK, Placed
  <1>1. user[c] \in Users
    OBVIOUS
  <1>2. KeyHasValue'
    BY <1>1 DEF SetPresence, PresenceInv, KeyHasValue
  <1>3. ASSUME NEW d \in Conns, Guarded(d)'
        PROVE  ttl'[user'[d]] + misses'[d] + RefreshPending(d)' >= TTL
    <2>1. user[d] \in Users
      BY <1>3 DEF Guarded
    <2>2. RefreshPending(d)' \in {0, 1} /\ misses'[d] \in Nat
      BY DEF RefreshPending
    <2>3. CASE user[d] = user[c]
      BY <1>1, <2>2, <2>3 DEF SetPresence
    <2>4. CASE user[d] # user[c]
      <3>1. d # c /\ ttl'[user[d]] = ttl[user[d]] /\ misses'[d] = misses[d]
        BY <1>1, <2>1, <2>4 DEF SetPresence
      <3>2. ttl[user[d]] + misses[d] + RefreshPending(d) >= TTL
        BY <1>3, <3>1 DEF PresenceInv, Margin
      <3> QED BY <3>1, <3>2
    <2> QED BY <2>3, <2>4
  <1> QED BY <1>2, <1>3 DEF PresenceInv, Margin

LEMMA TickKeeps == ASSUME TypeInv, PresenceInv, Tick PROVE PresenceInv'
  <1> USE TTLAssumption DEF TypeInv, TypeOK, Placed, who, registry
  <1>1. KeyHasValue'
    BY DEF Tick, PresenceInv, KeyHasValue
  <1>2. ASSUME NEW c \in Conns, Guarded(c)'
        PROVE  ttl'[user'[c]] + misses'[c] + RefreshPending(c)' >= TTL
    <2>1. Guarded(c) /\ user'[c] = user[c] /\ misses'[c] = misses[c]
      BY <1>2 DEF Tick, Guarded
    <2>2. user[c] \in Users /\ loop[c] = "wait" /\ ~due[c]
      BY <2>1 DEF Guarded, LoopsRun, Tick
    <2>3. RefreshPending(c) = 0 /\ RefreshPending(c)' = 1
      BY <2>2 DEF RefreshPending, Tick
    <2>4. ttl'[user[c]] >= ttl[user[c]] - 1
      BY <2>2 DEF Tick
    <2>5. ttl[user[c]] + misses[c] + RefreshPending(c) >= TTL
      BY <2>1 DEF PresenceInv, Margin
    <2>6. ttl'[user[c]] \in Int /\ ttl[user[c]] \in Int /\ misses[c] \in Int
      BY <2>2 DEF Tick
    <2> QED BY <2>1, <2>3, <2>4, <2>5, <2>6
  <1> QED BY <1>1, <1>2 DEF PresenceInv, Margin

LEMMA PresenceInvNext ==
    ASSUME TypeInv, TypeInv', RegistryInv, PresenceInv, [Next]_vars
    PROVE  PresenceInv'
  <1> USE DEF registry, redis, who, threads, vars
  <1> DEFINE Steady == UNCHANGED <<presence, ttl, misses, user, overlap>>
  <1>1. CASE Tick
    BY <1>1, TickKeeps
  <1>2. ASSUME NEW c \in Conns, NEW g \in Gateways, NEW u \in Users,
               ServeWS(c, g, u)
        PROVE  PresenceInv'
    <2>1. CASE pc[c] = "idle" /\ RegisterConn(c, g, u)
      <3>1. ASSUME NEW d \in Conns, Guarded(d)'
            PROVE  Guarded(d) /\ user'[d] = user[d]
        BY <2>1, <3>1 DEF RegisterConn, Guarded, TypeInv, TypeOK
      <3> QED BY <2>1, <3>1, PresenceQuietKeeps DEF RegisterConn, PresenceQuiet,
                 RefreshPending
    <2>2. CASE pc[c] = "idle" /\ RefuseUpgrade(c)
      BY <2>2, PresenceQuietKeeps DEF RefuseUpgrade, PresenceQuiet, Guarded,
         RefreshPending, TypeInv, TypeOK
    <2> QED BY <1>2, <2>1, <2>2 DEF ServeWS
  <1>3. ASSUME NEW c \in Conns, InitialPresence(c) PROVE PresenceInv'
    <2>1. SetPresence(c) /\ user' = user /\ home[c] \in Gateways
      BY <1>3 DEF InitialPresence, StartLoops, TypeInv, Placed
    <2>2. \A d \in Conns : d # c => (Guarded(d)' => Guarded(d))
                                /\ RefreshPending(d)' = RefreshPending(d)
      BY <1>3 DEF InitialPresence, StartLoops, Guarded, RefreshPending, TypeInv,
         TypeOK
    <2> QED BY <2>1, <2>2, SetKeeps
  <1>4. ASSUME NEW c \in Conns, RefreshLands(c) PROVE PresenceInv'
    <2>1. SetPresence(c) /\ user' = user /\ home[c] \in Gateways
      BY <1>4 DEF RefreshLands, RefreshReturns, TypeInv, Placed
    <2>2. \A d \in Conns : d # c => (Guarded(d)' => Guarded(d))
                                /\ RefreshPending(d)' = RefreshPending(d)
      BY <1>4 DEF RefreshLands, RefreshReturns, Guarded, RefreshPending,
         TypeInv, TypeOK
    <2> QED BY <2>1, <2>2, SetKeeps
  <1>5. ASSUME NEW c \in Conns,
               InitialPresenceFails(c) \/ RefreshFails(c)
        PROVE  PresenceInv'
    <2> USE DEF InitialPresenceFails, StartLoops, RefreshFails, RefreshReturns,
            SetPresenceFails
    <2>1. KeyHasValue'
      BY <1>5 DEF PresenceInv, KeyHasValue
    <2>2. ASSUME NEW d \in Conns, Guarded(d)'
          PROVE  ttl'[user'[d]] + misses'[d] + RefreshPending(d)' >= TTL
      <3>0. /\ ttl[user[d]] \in Int /\ misses[d] \in Nat /\ misses'[d] \in Nat
            /\ RefreshPending(d) \in {0, 1} /\ RefreshPending(d)' \in {0, 1}
            /\ ttl[user[d]] >= 0 /\ TTL \in Nat /\ user' = user /\ ttl' = ttl
        BY <1>5, <2>2, TTLAssumption DEF TypeInv, TypeOK, Placed, RefreshPending,
           Guarded
      <3>1. CASE d # c
        <4>1. /\ Guarded(d) /\ misses'[d] = misses[d]
              /\ RefreshPending(d)' = RefreshPending(d)
          BY <1>5, <2>2, <3>1 DEF Guarded, RefreshPending, TypeInv, TypeOK
        <4> QED BY <3>0, <4>1 DEF PresenceInv, Margin
      <3>2. CASE d = c /\ InitialPresenceFails(c)
        BY <3>0, <3>2 DEF TypeInv, TypeOK
      <3>3. CASE d = c /\ RefreshFails(c)
        <4>1. Guarded(c) /\ misses'[c] = misses[c] + 1 /\ RefreshPending(c) = 1
          BY <2>2, <3>3 DEF Guarded, RefreshPending, TypeInv, TypeOK
        <4> QED BY <3>0, <3>3, <4>1 DEF PresenceInv, Margin
      <3> QED BY <1>5, <3>1, <3>2, <3>3
    <2> QED BY <2>1, <2>2 DEF PresenceInv, Margin
  <1>6. ASSUME NEW c \in Conns, DeletePresence(c) PROVE PresenceInv'
    <2> USE DEF DeletePresence, CloseConn
    <2>0. user[c] \in Users
      BY <1>6 DEF TypeInv, TypeOK, Placed
    <2>1. KeyHasValue'
      BY <1>6, <2>0 DEF PresenceInv, KeyHasValue, TypeInv, TypeOK
    <2>2. ASSUME NEW d \in Conns, Guarded(d)'
          PROVE  ttl'[user'[d]] + misses'[d] + RefreshPending(d)' >= TTL
      <3>1. d # c /\ Guarded(d)
        BY <1>6, <2>2 DEF Guarded, TypeInv, TypeOK
      <3>2. user[d] # user[c]
        BY <1>6, <3>1 DEF Guarded, RegistryInv, OverlapRecorded, Live, Running,
           Registered
      <3>3. user[d] \in Users
        BY <3>1 DEF Guarded, TypeInv, TypeOK, Placed
      <3>4. ttl'[user'[d]] = ttl[user[d]]
        BY <1>6, <3>2, <3>3 DEF TypeInv, TypeOK
      <3>5. misses'[d] = misses[d] /\ RefreshPending(d)' = RefreshPending(d)
        BY <1>6 DEF RefreshPending
      <3> QED BY <3>1, <3>4, <3>5 DEF PresenceInv, Margin
    <2> QED BY <2>1, <2>2 DEF PresenceInv, Margin
  <1>7. ASSUME NEW c \in Conns,
               \/ ReadError(c) \/ ReadClose(c) \/ ReadWhenCancelled(c)
               \/ ReadPing(c) \/ PongWritten(c)
               \/ Unregister(c) \/ DeletePresenceFails(c)
        PROVE  PresenceInv'
    <2>1. Steady /\ UNCHANGED <<loop, due>>
      BY <1>7 DEF ReadError, ReadClose, ReadWhenCancelled, ReadPing, PongWritten,
         Unregister, DeletePresenceFails, CloseConn
    <2>2. \A d \in Conns : Guarded(d)' => Guarded(d)
      BY <1>7 DEF ReadError, ReadClose, ReadWhenCancelled, ReadPing, PongWritten,
         Unregister, DeletePresenceFails, CloseConn, Guarded, TypeInv, TypeOK
    <2> QED BY <2>1, <2>2, PresenceQuietKeeps DEF PresenceQuiet, RefreshPending
  <1>8. ASSUME NEW c \in Conns,
               RefreshStart(c) \/ PresenceLoopExit(c) \/ PingLoop(c) \/ PeerGone(c)
        PROVE  PresenceInv'
    <2> USE DEF RefreshStart, PresenceLoopExit, PingLoop, PingLock, PingWritten,
            PingFails, PingExit, PeerGone
    <2>1. Steady /\ pc' = pc
      BY <1>8
    <2>2. \A d \in Conns : Guarded(d)' => Guarded(d)
      BY <1>8 DEF Guarded, TypeInv, TypeOK
    <2>3. \A d \in Conns : Guarded(d)' => RefreshPending(d)' = RefreshPending(d)
      BY <1>8, <2>2 DEF Guarded, RefreshPending, TypeInv, TypeOK
    <2> QED BY <2>1, <2>2, <2>3, PresenceQuietKeeps DEF PresenceQuiet
  <1>9. ASSUME NEW m \in Sends,
               Sender(m) \/ \E g \in Gateways, u \in Users : SendLookup(m, g, u)
        PROVE  PresenceInv'
    <2>1. Steady /\ UNCHANGED threads
      BY <1>9 DEF Sender, SendLock, SendWritten, SendFails, SendReturn, SendLookup
    <2> QED BY <2>1, PresenceQuietKeeps DEF PresenceQuiet, Guarded, RefreshPending
  <1>10. ASSUME NEW g \in Gateways, StopProcess(g) PROVE PresenceInv'
    <2>1. Steady
      BY <1>10 DEF StopProcess
    <2>2. ASSUME NEW d \in Conns, Guarded(d)'
          PROVE  Guarded(d) /\ RefreshPending(d)' = RefreshPending(d)
      <3> DEFINE mine == {c \in Conns : Live(c) /\ home[c] = g}
      <3>1. d \notin mine /\ pc'[d] = pc[d]
        BY <1>10, <2>2 DEF StopProcess, Guarded
      <3>2. home[d] # g /\ loop'[d] = loop[d]
        BY <1>10, <2>2, <3>1 DEF StopProcess, Guarded, Live, Running, Registered
      <3>3. due'[d] = due[d]
        BY <1>10, <3>2 DEF StopProcess, TypeInv, TypeOK
      <3>4. ~cancelled[d]
        <4>1. ~cancelled'[d]
          BY <2>2 DEF Guarded
        <4> QED BY <1>10, <4>1, Zenon DEF StopProcess
      <3> QED BY <2>1, <2>2, <3>1, <3>2, <3>3, <3>4 DEF Guarded, RefreshPending
    <2> QED BY <2>1, <2>2, PresenceQuietKeeps DEF PresenceQuiet
  <1>11. CASE UNCHANGED vars
    BY <1>11, PresenceQuietKeeps DEF PresenceQuiet, Guarded, RefreshPending
  <1> QED
    BY <1>1, <1>2, <1>3, <1>4, <1>5, <1>6, <1>7, <1>8, <1>9, <1>10, <1>11
    DEF Next, Handler, PresenceLoop

\* A connected user stays visible in Redis while fewer refreshes in a row fail
\* than the key's life has intervals, for any TTL (handler.go:18-19, 186, 193).
THEOREM VisibilityCorrect == Spec => []VisibleWhileRefreshed
  <1>1. Init => PresenceInv
    BY DEF Init, PresenceInv, KeyHasValue, Margin, Guarded
  <1>2. TypeInv /\ RegistryInv /\ PresenceInv /\ [Next]_vars => PresenceInv'
    BY TypeInvNext, PresenceInvNext
  <1>3. TypeInv /\ PresenceInv => VisibleWhileRefreshed
    <2> SUFFICES ASSUME TypeInv, PresenceInv, NEW c \in Conns, Guarded(c),
                        misses[c] + RefreshPending(c) < TTL
                 PROVE  presence[user[c]] # None
      BY DEF VisibleWhileRefreshed, Guarded
    <2>1. user[c] \in Users /\ misses[c] \in Nat /\ ttl[user[c]] \in Nat
      BY DEF TypeInv, TypeOK, Placed, Guarded
    <2>2. RefreshPending(c) \in {0, 1}
      BY DEF RefreshPending
    <2>3. ttl[user[c]] + misses[c] + RefreshPending(c) >= TTL
      BY DEF PresenceInv, Margin
    <2>4. ttl[user[c]] > 0
      BY <2>1, <2>2, <2>3, TTLAssumption
    <2> QED BY <2>1, <2>4 DEF PresenceInv, KeyHasValue
  <1> QED BY <1>1, <1>2, <1>3, RegistryInvariant, PTL DEF Spec

----------------------------------------------------------------------------
(* The write mutex.                                                        *)

OneSender ==
    \A m, n \in Sends :
        /\ send[m].st = "write" /\ send[n].st = "write"
        /\ send[m].conn = send[n].conn
        => m = n

\* The ping goroutine ends before its handler cleans up.
PingerEndsFirst ==
    \A c \in Conns : pinger[c] \in {"wait", "write"}
        => pc[c] \in {"serving", "ponging", "stopping"}

MutexInv == MutexBelongsToWriter /\ OneSender /\ PingerEndsFirst

\* A step that leaves all writers where they are.
NoWriterMoves ==
    /\ UNCHANGED <<cmu, send>>
    /\ \A c \in Conns :
          /\ pinger'[c] = "write" <=> pinger[c] = "write"
          /\ pc'[c] = "ponging" <=> pc[c] = "ponging"
          /\ pinger'[c] \in {"wait", "write"} =>
                pc'[c] \in {"serving", "ponging", "stopping"}

LEMMA NoWriterMovesKeeps == MutexInv /\ NoWriterMoves => MutexInv'
  BY DEF MutexInv, NoWriterMoves, MutexBelongsToWriter, OneSender,
         PingerEndsFirst

LEMMA MutexInvNext ==
    ASSUME TypeInv, MutexInv, [Next]_vars
    PROVE  MutexInv'
  <1> USE DEF registry, redis, who, threads, vars
  <1>0. ASSUME UNCHANGED <<pc, pinger, cmu, send>> PROVE MutexInv'
    BY <1>0, NoWriterMovesKeeps DEF NoWriterMoves, MutexInv, PingerEndsFirst
  <1>1. CASE Tick
    BY <1>1, <1>0 DEF Tick
  <1>2. ASSUME NEW c \in Conns, NEW g \in Gateways, NEW u \in Users,
               ServeWS(c, g, u)
        PROVE  MutexInv'
    <2>1. NoWriterMoves
      BY <1>2 DEF ServeWS, RegisterConn, RefuseUpgrade, NoWriterMoves, TypeInv,
         TypeOK, MutexInv, PingerEndsFirst
    <2> QED BY <2>1, NoWriterMovesKeeps
  <1>3. ASSUME NEW c \in Conns,
               \/ InitialPresence(c) \/ InitialPresenceFails(c)
               \/ ReadError(c) \/ ReadClose(c) \/ ReadWhenCancelled(c)
               \/ Unregister(c) \/ DeletePresence(c) \/ DeletePresenceFails(c)
        PROVE  MutexInv'
    <2> USE DEF NoWriterMoves, TypeInv, TypeOK, MutexInv, PingerEndsFirst
    <2>1. CASE InitialPresence(c) \/ InitialPresenceFails(c)
      <3>1. NoWriterMoves
        BY <2>1 DEF InitialPresence, InitialPresenceFails, StartLoops
      <3> QED BY <3>1, NoWriterMovesKeeps
    <2>2. CASE ReadError(c) \/ ReadClose(c) \/ ReadWhenCancelled(c)
      <3>1. NoWriterMoves
        BY <2>2 DEF ReadError, ReadClose, ReadWhenCancelled
      <3> QED BY <3>1, NoWriterMovesKeeps
    <2>3. CASE Unregister(c)
      <3>1. NoWriterMoves
        BY <2>3 DEF Unregister
      <3> QED BY <3>1, NoWriterMovesKeeps
    <2>4. CASE DeletePresence(c) \/ DeletePresenceFails(c)
      <3>1. NoWriterMoves
        BY <2>4 DEF DeletePresence, DeletePresenceFails, CloseConn
      <3> QED BY <3>1, NoWriterMovesKeeps
    <2> QED BY <1>3, <2>1, <2>2, <2>3, <2>4
  <1>4. ASSUME NEW c \in Conns, ReadPing(c) \/ PongWritten(c) PROVE MutexInv'
    <2> USE DEF TypeInv, TypeOK, MutexInv, MutexBelongsToWriter, OneSender,
                PingerEndsFirst
    <2>1. CASE ReadPing(c)
      BY <2>1 DEF ReadPing
    <2>2. CASE PongWritten(c)
      <3>1. /\ pc'[c] \in {"stopping", "serving"} /\ cmu'[c] = "free"
            /\ pc[c] = "ponging" /\ cmu[c] = "read"
            /\ \A d \in Conns \ {c} : pc'[d] = pc[d] /\ cmu'[d] = cmu[d]
            /\ UNCHANGED <<pinger, send>>
        BY <2>2 DEF PongWritten
      <3>2. MutexBelongsToWriter'
        BY <3>1
      <3> QED BY <3>1, <3>2
    <2> QED BY <1>4, <2>1, <2>2
  <1>5. ASSUME NEW c \in Conns, PresenceLoop(c) \/ PeerGone(c) PROVE MutexInv'
    BY <1>5, <1>0 DEF PresenceLoop, RefreshStart, RefreshLands, RefreshFails,
       RefreshReturns, PresenceLoopExit, PeerGone
  <1>6. ASSUME NEW c \in Conns, PingLoop(c) PROVE MutexInv'
    <2> USE DEF TypeInv, TypeOK, MutexInv, MutexBelongsToWriter, OneSender,
                PingerEndsFirst
    <2>1. CASE PingLock(c)
      BY <2>1 DEF PingLock
    <2>2. CASE PingWritten(c)
      BY <2>2 DEF PingWritten
    <2>3. CASE PingFails(c)
      BY <2>3 DEF PingFails
    <2>4. CASE PingExit(c)
      BY <2>4 DEF PingExit
    <2> QED BY <1>6, <2>1, <2>2, <2>3, <2>4 DEF PingLoop
  <1>7. ASSUME NEW m \in Sends, NEW g \in Gateways, NEW u \in Users,
               SendLookup(m, g, u)
        PROVE  MutexInv'
    <2>1. UNCHANGED <<pc, pinger, cmu>>
      BY <1>7 DEF SendLookup
    <2>2. \A n \in Sends : send'[n] = send[n] \/ (n = m /\ send'[n].st # "write")
      BY <1>7 DEF SendLookup, TypeInv, TypeOK
    <2>3. send[m].st # "write"
      BY <1>7 DEF SendLookup
    <2> QED BY <2>1, <2>2, <2>3 DEF MutexInv, MutexBelongsToWriter, OneSender,
               PingerEndsFirst
  <1>8. ASSUME NEW m \in Sends, Sender(m) PROVE MutexInv'
    <2> DEFINE k == send[m].conn
    <2>1. k \in Conns /\ UNCHANGED <<pc, pinger>>
      BY <1>8 DEF Sender, SendLock, SendWritten, SendFails, SendReturn, TypeInv,
         SendsHold
    <2>2. \A n \in Sends : n # m => send'[n] = send[n]
      BY <1>8 DEF Sender, SendLock, SendWritten, SendFails, SendReturn, TypeInv,
         TypeOK
    <2>3. \A c \in Conns : c # k => cmu'[c] = cmu[c]
      BY <1>8 DEF Sender, SendLock, SendWritten, SendFails, SendReturn, TypeInv,
         TypeOK
    <2>4. CASE SendLock(m)
      <3>1. /\ send'[m].st = "write" /\ send'[m].conn = k
            /\ cmu[k] = "free" /\ cmu'[k] = "send"
        BY <2>1, <2>4 DEF SendLock, TypeInv, TypeOK
      <3> QED BY <2>1, <2>2, <2>3, <3>1
              DEF MutexInv, MutexBelongsToWriter, OneSender, PingerEndsFirst
    <2>5. ASSUME NEW r \in {"accepted", "failed"}, SendReturn(m, r)
          PROVE  MutexInv'
      <3>1. /\ send[m].st = "write" /\ send'[m].st # "write"
            /\ cmu'[k] = "free"
        BY <2>1, <2>5 DEF SendReturn, TypeInv, TypeOK
      <3>2. cmu[k] = "send"
        BY <2>1, <3>1 DEF MutexInv, MutexBelongsToWriter
      <3> QED BY <2>1, <2>2, <2>3, <3>1, <3>2
              DEF MutexInv, MutexBelongsToWriter, OneSender, PingerEndsFirst
    <2> QED BY <1>8, <2>4, <2>5 DEF Sender, SendWritten, SendFails
  <1>9. ASSUME NEW g \in Gateways, StopProcess(g) PROVE MutexInv'
    <2>1. \A n \in Sends :
             /\ send'[n].st = "write" <=>
                   send[n].st = "write" /\ home[send[n].conn] # g
             /\ send'[n].conn = send[n].conn
      BY <1>9 DEF StopProcess, TypeInv, TypeOK
    <2>2. \A c \in Conns : home[c] = g =>
             pinger'[c] # "write" /\ pc'[c] # "ponging" /\ cmu'[c] = "free"
      BY <1>9 DEF StopProcess, TypeInv, TypeOK, MutexInv, PingerEndsFirst, Live,
         Running, Registered
    <2>3. \A c \in Conns : home[c] # g =>
             pinger'[c] = pinger[c] /\ pc'[c] = pc[c] /\ cmu'[c] = cmu[c]
      BY <1>9 DEF StopProcess
    <2>4. MutexBelongsToWriter'
      BY <2>1, <2>2, <2>3 DEF MutexInv, MutexBelongsToWriter
    <2>5. OneSender'
      BY <2>1 DEF MutexInv, OneSender
    <2>6. PingerEndsFirst'
      BY <1>9 DEF StopProcess, TypeInv, TypeOK, MutexInv, PingerEndsFirst
    <2> QED BY <2>4, <2>5, <2>6 DEF MutexInv
  <1>10. CASE UNCHANGED vars
    BY <1>10, <1>0
  <1> QED BY <1>1, <1>2, <1>3, <1>4, <1>5, <1>6, <1>7, <1>8, <1>9, <1>10
          DEF Next, Handler

\* Whoever holds cc.mu is in the middle of a write and nobody else writes, for
\* any number of senders: no path through the ping goroutine, the read loop,
\* SendToUser or the end of a process leaves it locked (handler.go:140-148,
\* 164-168, 206-209).
THEOREM MutexCorrect == Spec => []MutexBelongsToWriter
  <1>1. Init => MutexInv
    BY DEF Init, MutexInv, MutexBelongsToWriter, OneSender, PingerEndsFirst
  <1>2. TypeInv /\ MutexInv /\ [Next]_vars => (TypeInv /\ MutexInv)'
    BY TypeInvNext, MutexInvNext
  <1>3. MutexInv => MutexBelongsToWriter
    BY DEF MutexInv
  <1> QED BY <1>1, <1>2, <1>3, TypeInvInit, PTL DEF Spec
=============================================================================
