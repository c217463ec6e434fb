------------------------------ MODULE Gateway ------------------------------
(***************************************************************************)
(* The WebSocket gateway (internal/gateway/handler.go): the in-memory      *)
(* registry of each gateway instance, the three goroutines that serve a    *)
(* connection (read loop, ping loop, presence loop), the presence key each *)
(* user has in Redis, and SendToUser.                                      *)
(*                                                                         *)
(* A member of Conns is one WebSocket connection for its whole life; its   *)
(* handler runs once.  Time is counted in presence intervals (20s), so the *)
(* key's 60s time-to-live is TTL = 3 ticks.                                *)
(***************************************************************************)
EXTENDS Naturals, FiniteSets

CONSTANTS Gateways, Users, Conns, Sends,
          None,        \* no connection, no gateway
          TTL,         \* defaultPresenceTTL / defaultPresenceInterval
          MaxFaults,   \* bound: Redis commands that fail
          Wrapped      \* the mux is served through withObservability

ASSUME NoneAssumption == None \notin Conns \cup Gateways \cup Users
ASSUME TTLAssumption == TTL \in Nat \ {0}
ASSUME FaultsAssumption == MaxFaults \in Nat
ASSUME WrappedAssumption == Wrapped \in BOOLEAN

VARIABLES
    conns,      \* conns[g][u]: userSender.conns of instance g
    pc,         \* pc[c]: where c's handler is
    user, home, \* c's user and gateway instance
    sock,       \* c's TCP connection
    cancelled,  \* ctx of handleConnection is done
    pinger,     \* the ping goroutine
    loop, due,  \* the presenceLoop goroutine; its ticker has fired
    cmu,        \* clientConn.mu: who holds it
    presence,   \* Redis: value of presenceKey(u)
    ttl,        \* Redis: ticks until the key expires
    send,       \* SendToUser calls
    faults,     \* failed Redis commands so far
    overlap,    \* history: handlers of the same user that ran beside c's
    misses      \* history: SETs of c that failed since the last that landed

registry == <<conns, overlap>>
redis    == <<presence, ttl, faults, misses>>
who      == <<user, home>>
threads  == <<pc, cancelled, pinger, loop, due>>
vars     == <<registry, redis, who, threads, sock, cmu, send>>

\* Handler states.  "deleted": out of the registry, DEL of presence pending.
Registered == {"register", "serving", "ponging", "stopping"}
Running    == Registered \cup {"deleted"}
Live(c)    == pc[c] \in Running

TypeOK ==
    /\ conns \in [Gateways -> [Users -> Conns \cup {None}]]
    /\ pc \in [Conns -> {"idle", "refused", "closed"} \cup Running]
    /\ user \in [Conns -> Users \cup {None}]
    /\ home \in [Conns -> Gateways \cup {None}]
    /\ sock \in [Conns -> {"none", "open", "broken", "closed"}]
    /\ cancelled \in [Conns -> BOOLEAN]
    /\ pinger \in [Conns -> {"none", "wait", "write", "done"}]
    /\ loop \in [Conns -> {"none", "wait", "inflight", "done"}]
    /\ due \in [Conns -> BOOLEAN]
    /\ cmu \in [Conns -> {"free", "ping", "read", "send"}]
    /\ presence \in [Users -> Gateways \cup {None}]
    /\ ttl \in [Users -> 0..TTL]
    /\ send \in [Sends -> [st : {"idle", "held", "write", "accepted",
                                 "failed", "not_connected", "killed"},
                           conn : Conns \cup {None}]]
    /\ faults \in 0..MaxFaults
    /\ overlap \in [Conns -> SUBSET Conns]
    /\ misses \in [Conns -> Nat]

Init ==
    /\ conns = [g \in Gateways |-> [u \in Users |-> None]]
    /\ pc = [c \in Conns |-> "idle"]
    /\ user = [c \in Conns |-> None]
    /\ home = [c \in Conns |-> None]
    /\ sock = [c \in Conns |-> "none"]
    /\ cancelled = [c \in Conns |-> FALSE]
    /\ pinger = [c \in Conns |-> "none"]
    /\ loop = [c \in Conns |-> "none"]
    /\ due = [c \in Conns |-> FALSE]
    /\ cmu = [c \in Conns |-> "free"]
    /\ presence = [u \in Users |-> None]
    /\ ttl = [u \in Users |-> 0]
    /\ send = [m \in Sends |-> [st |-> "idle", conn |-> None]]
    /\ faults = 0
    /\ overlap = [c \in Conns |-> {}]
    /\ misses = [c \in Conns |-> 0]

----------------------------------------------------------------------------
(* Opening a connection: GET /v1/ws with a valid token and handshake.      *)

\* upgradeWebSocket needs an http.Hijacker.  The connection a ServeMux hands
\* to a handler is one; the responseWriter of withObservability is not.
HasHijacker == ~Wrapped

\* upgradeWebSocket fails: the handler logs the error and returns.
RefuseUpgrade(c) ==
    /\ pc' = [pc EXCEPT ![c] = "refused"]
    /\ UNCHANGED <<registry, redis, who, cancelled, pinger, loop, due, sock,
                   cmu, send>>

\* handleConnection up to the unlock of s.mu: the entry of the user's
\* previous connection, if there is one, is overwritten.
RegisterConn(c, g, u) ==
    LET beside == {d \in Conns : Live(d) /\ user[d] = u}
    IN  /\ conns' = [conns EXCEPT ![g][u] = c]
        /\ pc' = [pc EXCEPT ![c] = "register"]
        /\ user' = [user EXCEPT ![c] = u]
        /\ home' = [home EXCEPT ![c] = g]
        /\ sock' = [sock EXCEPT ![c] = "open"]
        /\ overlap' = [d \in Conns |-> IF d = c THEN beside
                                       ELSE IF d \in beside
                                            THEN overlap[d] \cup {c}
                                            ELSE overlap[d]]
        /\ UNCHANGED <<redis, cancelled, pinger, loop, due, cmu, send>>

ServeWS(c, g, u) ==
    /\ pc[c] = "idle"
    /\ IF HasHijacker THEN RegisterConn(c, g, u) ELSE RefuseUpgrade(c)

----------------------------------------------------------------------------
(* Presence in Redis.                                                      *)

\* Mutant: SET ... KEEPTTL, a refresh that does not restart the expiry.
SetPresenceKeepTTL(c) ==
    /\ presence' = [presence EXCEPT ![user[c]] = home[c]]
    /\ ttl' = [ttl EXCEPT ![user[c]] = IF @ = 0 THEN TTL ELSE @]
    /\ misses' = [misses EXCEPT ![c] = 0]
    /\ UNCHANGED faults

\* Mutant: SET ... NX, which leaves another connection's key alone.
SetPresenceNX(c) ==
    /\ IF presence[user[c]] = None
       THEN /\ presence' = [presence EXCEPT ![user[c]] = home[c]]
            /\ ttl' = [ttl EXCEPT ![user[c]] = TTL]
       ELSE UNCHANGED <<presence, ttl>>
    /\ misses' = [misses EXCEPT ![c] = 0]
    /\ UNCHANGED faults

\* Mutant: the value of the key is the user and not the instance.
SetPresenceUser(c) ==
    /\ presence' = [presence EXCEPT ![user[c]] = user[c]]
    /\ ttl' = [ttl EXCEPT ![user[c]] = TTL]
    /\ misses' = [misses EXCEPT ![c] = 0]
    /\ UNCHANGED faults

\* refreshPresence: SET presenceKey(u) instanceID EX TTL, seen from Redis.
SetPresence(c) ==
    /\ presence' = [presence EXCEPT ![user[c]] = home[c]]
    /\ ttl' = [ttl EXCEPT ![user[c]] = TTL]
    /\ misses' = [misses EXCEPT ![c] = 0]
    /\ UNCHANGED faults

\* The SET returns an error; both callers log it and go on.
SetPresenceFails(c, missed) ==
    /\ faults < MaxFaults
    /\ faults' = faults + 1
    /\ misses' = [misses EXCEPT ![c] = missed]
    /\ UNCHANGED <<presence, ttl>>

\* The handler starts the presence and ping goroutines after the first SET.
StartLoops(c) ==
    /\ pc[c] = "register"
    /\ pc' = [pc EXCEPT ![c] = "serving"]
    /\ loop' = [loop EXCEPT ![c] = "wait"]
    /\ pinger' = [pinger EXCEPT ![c] = "wait"]
    /\ UNCHANGED <<registry, who, cancelled, due, sock, cmu, send>>

InitialPresence(c) == StartLoops(c) /\ SetPresence(c)
InitialPresenceFails(c) == StartLoops(c) /\ SetPresenceFails(c, TTL)

\* Mutant: the key is set without an expiry.
TickWithoutExpiry ==
    /\ \A c \in Conns : loop[c] # "inflight" /\ (due[c] => cancelled[c])
    /\ due' = [c \in Conns |-> loop[c] = "wait"]
    /\ UNCHANGED <<registry, redis, who, pc, cancelled, pinger, loop, sock, cmu,
                   send>>

\* A presence interval passes.  Every key is one tick nearer to its expiry
\* and every presence ticker fires; a refresh, failed or not, takes less
\* than an interval.
Tick ==
    /\ \A c \in Conns : loop[c] # "inflight" /\ (due[c] => cancelled[c])
    /\ ttl' = [u \in Users |-> IF ttl[u] = 0 THEN 0 ELSE ttl[u] - 1]
    /\ presence' = [u \in Users |-> IF ttl[u] > 1 THEN presence[u] ELSE None]
    /\ due' = [c \in Conns |-> loop[c] = "wait"]
    /\ UNCHANGED <<registry, who, faults, misses, pc, cancelled, pinger, loop,
                   sock, cmu, send>>

\* presenceLoop takes the ticker's case.  A SET under a done ctx is never
\* sent; one already sent lands whatever happens to ctx afterwards.
RefreshStart(c) ==
    /\ loop[c] = "wait" /\ due[c] /\ ~cancelled[c]
    /\ loop' = [loop EXCEPT ![c] = "inflight"]
    /\ due' = [due EXCEPT ![c] = FALSE]
    /\ UNCHANGED <<registry, redis, who, pc, cancelled, pinger, sock, cmu, send>>

\* Back at the select.
RefreshReturns(c) ==
    /\ loop[c] = "inflight"
    /\ loop' = [loop EXCEPT ![c] = "wait"]
    /\ UNCHANGED <<registry, who, pc, cancelled, pinger, due, sock, cmu, send>>

RefreshLands(c) == RefreshReturns(c) /\ SetPresence(c)
RefreshFails(c) == RefreshReturns(c) /\ SetPresenceFails(c, misses[c] + 1)

PresenceLoopExit(c) ==
    /\ loop[c] = "wait" /\ cancelled[c]
    /\ loop' = [loop EXCEPT ![c] = "done"]
    /\ due' = [due EXCEPT ![c] = FALSE]
    /\ UNCHANGED <<registry, redis, who, pc, cancelled, pinger, sock, cmu, send>>

----------------------------------------------------------------------------
(* The ping goroutine.  Each write holds cc.mu and has a write deadline.   *)

PingLock(c) ==
    /\ pinger[c] = "wait" /\ cmu[c] = "free"
    /\ pinger' = [pinger EXCEPT ![c] = "write"]
    /\ cmu' = [cmu EXCEPT ![c] = "ping"]
    /\ UNCHANGED <<registry, redis, who, pc, cancelled, loop, due, sock, send>>

PingWritten(c) ==
    /\ pinger[c] = "write"
    /\ pinger' = [pinger EXCEPT ![c] = "wait"]
    /\ cmu' = [cmu EXCEPT ![c] = "free"]
    /\ UNCHANGED <<registry, redis, who, pc, cancelled, loop, due, sock, send>>

\* Mutant: the early return skips the unlock.
PingFailsLocked(c) ==
    /\ pinger[c] = "write"
    /\ pinger' = [pinger EXCEPT ![c] = "done"]
    /\ cancelled' = [cancelled EXCEPT ![c] = TRUE]
    /\ UNCHANGED <<registry, redis, who, pc, loop, due, sock, cmu, send>>

\* WritePing fails: unlock, cancel, return.  A peer that is still there but
\* reads nothing makes the write deadline pass.
PingFails(c) ==
    /\ pinger[c] = "write"
    /\ pinger' = [pinger EXCEPT ![c] = "done"]
    /\ cancelled' = [cancelled EXCEPT ![c] = TRUE]
    /\ cmu' = [cmu EXCEPT ![c] = "free"]
    /\ UNCHANGED <<registry, redis, who, pc, loop, due, sock, send>>

PingExit(c) ==
    /\ pinger[c] = "wait" /\ cancelled[c]
    /\ pinger' = [pinger EXCEPT ![c] = "done"]
    /\ UNCHANGED <<registry, redis, who, pc, cancelled, loop, due, sock, cmu,
                   send>>

----------------------------------------------------------------------------
(* The read loop and the deferred cleanup of handleConnection.             *)

\* Mutant: a read error breaks the loop without cancel().
ReadErrorNoCancel(c) ==
    /\ pc[c] = "serving" /\ sock[c] = "broken"
    /\ pc' = [pc EXCEPT ![c] = "stopping"]
    /\ UNCHANGED <<registry, redis, who, cancelled, pinger, loop, due, sock, cmu,
                   send>>

\* ReadFrame fails: the peer is gone or the 70s read deadline passed.
ReadError(c) ==
    /\ pc[c] = "serving" /\ sock[c] = "broken"
    /\ cancelled' = [cancelled EXCEPT ![c] = TRUE]
    /\ pc' = [pc EXCEPT ![c] = "stopping"]
    /\ UNCHANGED <<registry, redis, who, pinger, loop, due, sock, cmu, send>>

\* A close frame: the peer reads no more.
ReadClose(c) ==
    /\ pc[c] = "serving" /\ sock[c] = "open"
    /\ sock' = [sock EXCEPT ![c] = "broken"]
    /\ cancelled' = [cancelled EXCEPT ![c] = TRUE]
    /\ pc' = [pc EXCEPT ![c] = "stopping"]
    /\ UNCHANGED <<registry, redis, who, pinger, loop, due, cmu, send>>

\* The ping goroutine has cancelled ctx.  ReadFrame returns a frame of any
\* kind and ctx.Err() ends the loop, or no frame comes and, as pings are no
\* longer sent, the read deadline passes.
ReadWhenCancelled(c) ==
    /\ pc[c] = "serving" /\ cancelled[c]
    /\ pc' = [pc EXCEPT ![c] = "stopping"]
    /\ UNCHANGED <<registry, redis, who, cancelled, pinger, loop, due, sock,
                   cmu, send>>

\* A ping frame: the reply is written by the read loop under cc.mu and its
\* error is ignored.
ReadPing(c) ==
    /\ pc[c] = "serving" /\ sock[c] = "open" /\ cmu[c] = "free"
    /\ pc' = [pc EXCEPT ![c] = "ponging"]
    /\ cmu' = [cmu EXCEPT ![c] = "read"]
    /\ UNCHANGED <<registry, redis, who, cancelled, pinger, loop, due, sock,
                   send>>

PongWritten(c) ==
    /\ pc[c] = "ponging"
    /\ pc' = [pc EXCEPT ![c] = IF cancelled[c] THEN "stopping" ELSE "serving"]
    /\ cmu' = [cmu EXCEPT ![c] = "free"]
    /\ UNCHANGED <<registry, redis, who, cancelled, pinger, loop, due, sock,
                   send>>

\* Mutant: the deferred function forgets the registry.
UnregisterForgotten(c) ==
    /\ pc[c] = "stopping" /\ pinger[c] = "done"
    /\ pc' = [pc EXCEPT ![c] = "deleted"]
    /\ UNCHANGED <<registry, redis, who, cancelled, pinger, loop, due, sock, cmu,
                   send>>

\* Mutant: the deferred function makes a new map.
UnregisterAll(c) ==
    /\ pc[c] = "stopping" /\ pinger[c] = "done"
    /\ conns' = [conns EXCEPT ![home[c]] = [u \in Users |-> None]]
    /\ pc' = [pc EXCEPT ![c] = "deleted"]
    /\ UNCHANGED <<overlap, redis, who, cancelled, pinger, loop, due, sock, cmu,
                   send>>

\* <-pingDone, then the deferred function: delete(s.conns, userID), whatever
\* connection the entry holds by now.
Unregister(c) ==
    /\ pc[c] = "stopping" /\ pinger[c] = "done"
    /\ conns' = [conns EXCEPT ![home[c]][user[c]] = None]
    /\ pc' = [pc EXCEPT ![c] = "deleted"]
    /\ UNCHANGED <<overlap, redis, who, cancelled, pinger, loop, due, sock, cmu,
                   send>>

\* DEL presenceKey(u), whatever instance it names by now; conn.Close().
CloseConn(c) ==
    /\ pc[c] = "deleted"
    /\ pc' = [pc EXCEPT ![c] = "closed"]
    /\ sock' = [sock EXCEPT ![c] = "closed"]
    /\ UNCHANGED <<registry, who, misses, cancelled, pinger, loop, due, cmu, send>>

DeletePresence(c) ==
    /\ CloseConn(c)
    /\ presence' = [presence EXCEPT ![user[c]] = None]
    /\ ttl' = [ttl EXCEPT ![user[c]] = 0]
    /\ UNCHANGED faults

DeletePresenceFails(c) ==
    /\ CloseConn(c)
    /\ faults < MaxFaults
    /\ faults' = faults + 1
    /\ UNCHANGED <<presence, ttl>>

----------------------------------------------------------------------------
(* SendToUser, called by POST /v1/send and by the NATS subscription.       *)

SendLookup(m, g, u) ==
    /\ send[m].st = "idle"
    /\ send' = [send EXCEPT ![m] =
            IF conns[g][u] = None
            THEN [st |-> "not_connected", conn |-> None]
            ELSE [st |-> "held", conn |-> conns[g][u]]]
    /\ UNCHANGED <<registry, redis, who, threads, sock, cmu>>

SendLock(m) ==
    /\ send[m].st = "held" /\ cmu[send[m].conn] = "free"
    /\ send' = [send EXCEPT ![m].st = "write"]
    /\ cmu' = [cmu EXCEPT ![send[m].conn] = "send"]
    /\ UNCHANGED <<registry, redis, who, threads, sock>>

SendReturn(m, result) ==
    /\ send[m].st = "write"
    /\ send' = [send EXCEPT ![m].st = result]
    /\ cmu' = [cmu EXCEPT ![send[m].conn] = "free"]
    /\ UNCHANGED <<registry, redis, who, threads, sock>>

\* The kernel accepts bytes for a peer that is already gone.
SendWritten(m) ==
    SendReturn(m, "accepted") /\ sock[send[m].conn] \in {"open", "broken"}
\* The connection is closed or broken, or its peer reads too slowly.
SendFails(m) ==
    SendReturn(m, "failed")

----------------------------------------------------------------------------
(* The environment.                                                        *)

\* The client disappears, or stops answering pings.
PeerGone(c) ==
    /\ sock[c] = "open"
    /\ sock' = [sock EXCEPT ![c] = "broken"]
    /\ UNCHANGED <<registry, redis, who, threads, cmu, send>>

\* The process ends (crash, or SIGTERM: Shutdown does not wait for hijacked
\* connections).  No deferred cleanup runs; a SET already sent may land.
StopProcess(g) ==
    LET mine == {c \in Conns : Live(c) /\ home[c] = g}
    IN  /\ mine # {}
        /\ conns' = [conns EXCEPT ![g] = [u \in Users |-> None]]
        /\ pc' = [c \in Conns |-> IF c \in mine THEN "closed" ELSE pc[c]]
        /\ sock' = [c \in Conns |-> IF c \in mine THEN "closed" ELSE sock[c]]
        /\ cancelled' = [c \in Conns |-> c \in mine \/ cancelled[c]]
        /\ pinger' = [c \in Conns |-> IF c \in mine THEN "done" ELSE pinger[c]]
        /\ loop' = [c \in Conns |-> IF home[c] = g /\ loop[c] # "inflight"
                                    THEN "done" ELSE loop[c]]
        /\ due' = [c \in Conns |-> home[c] # g /\ due[c]]
        /\ cmu' = [c \in Conns |-> IF home[c] = g THEN "free" ELSE cmu[c]]
        /\ send' = [m \in Sends |->
                IF send[m].st \in {"held", "write"} /\ home[send[m].conn] = g
                THEN [st |-> "killed", conn |-> send[m].conn] ELSE send[m]]
        /\ UNCHANGED <<overlap, redis, who>>

----------------------------------------------------------------------------

Handler(c) ==
    \/ InitialPresence(c) \/ InitialPresenceFails(c)
    \/ ReadError(c) \/ ReadClose(c) \/ ReadWhenCancelled(c)
    \/ ReadPing(c) \/ PongWritten(c)
    \/ Unregister(c) \/ DeletePresence(c) \/ DeletePresenceFails(c)

PresenceLoop(c) ==
    \/ RefreshStart(c) \/ RefreshLands(c) \/ RefreshFails(c)
    \/ PresenceLoopExit(c)

PingLoop(c) == PingLock(c) \/ PingWritten(c) \/ PingFails(c) \/ PingExit(c)

Sender(m) == SendLock(m) \/ SendWritten(m) \/ SendFails(m)

Next ==
    \/ Tick
    \/ \E c \in Conns :
          \/ \E g \in Gateways, u \in Users : ServeWS(c, g, u)
          \/ Handler(c) \/ PresenceLoop(c) \/ PingLoop(c) \/ PeerGone(c)
    \/ \E m \in Sends :
          \/ \E g \in Gateways, u \in Users : SendLookup(m, g, u)
          \/ Sender(m)
    \/ \E g \in Gateways : StopProcess(g)

\* Every goroutine that can move does: a read ends at its deadline, a write
\* at its own, a Redis command at the client's timeout, and a sync.Mutex
\* starves no waiter (strong fairness where a lock or a select case is only
\* available from time to time).  Nothing is assumed of clients.
Fairness ==
    /\ WF_vars(Tick)
    /\ \A c \in Conns :
          /\ WF_vars(InitialPresence(c))
          /\ WF_vars(ReadError(c) \/ ReadWhenCancelled(c))
          /\ WF_vars(PongWritten(c)) /\ WF_vars(Unregister(c))
          /\ WF_vars(DeletePresence(c))
          /\ WF_vars(RefreshStart(c)) /\ WF_vars(RefreshLands(c))
          /\ WF_vars(PresenceLoopExit(c))
          /\ WF_vars(PingWritten(c) \/ PingFails(c)) /\ SF_vars(PingExit(c))
    /\ \A m \in Sends :
          /\ SF_vars(SendLock(m)) /\ WF_vars(SendWritten(m) \/ SendFails(m))

Spec == Init /\ [][Next]_vars
FairSpec == Spec /\ Fairness

----------------------------------------------------------------------------
(* Safety.                                                                 *)

\* The registry never names a connection whose handler has cleaned up, and
\* names it under its own instance and user only: SendToUser never finds a
\* closed connection in s.conns, however reconnects and cleanups of one user
\* interleave (handler.go:109-121, 199-201).
RegistryNamesServedConns ==
    \A g \in Gateways, u \in Users :
        conns[g][u] # None =>
            LET c == conns[g][u]
            IN  pc[c] \in Registered /\ home[c] = g /\ user[c] = u

\* A registered connection is the one SendToUser finds, unless another
\* handler of the same user ran beside it on the same instance: with no
\* overlap, no cleanup of an earlier connection can reach the entry of a
\* later one (handler.go:110-111, 117-119).
ReachableUnlessOverlapped ==
    \A c \in Conns :
        /\ pc[c] \in Registered
        /\ \A d \in overlap[c] : home[d] # home[c]
        => conns[home[c]][user[c]] = c

RefreshPending(c) == IF due[c] \/ loop[c] = "inflight" THEN 1 ELSE 0

\* A connected user stays visible in Redis while fewer than TTL - 1 refreshes
\* in a row fail: the 20s refresh against the 60s expiry leaves room for two,
\* whatever SETs of closed connections still land (handler.go:18-19, 124,
\* 186, 193).  Only a handler that ran beside this one can remove the key.
VisibleWhileRefreshed ==
    \A c \in Conns :
        /\ pc[c] \in {"serving", "ponging"}
        /\ ~cancelled[c]
        /\ overlap[c] = {}
        /\ misses[c] + RefreshPending(c) < TTL
        => presence[user[c]] # None

\* cc.mu is never left locked: whoever holds it is in the middle of a write,
\* which ends at its deadline, and nobody writes without it.  So frames of the
\* ping goroutine, the read loop and the senders never mix, and SendToUser
\* waits for no more than the writes before it, even while the connection is
\* torn down (handler.go:140-143, 166-169, 206-209).
MutexBelongsToWriter ==
    \A c \in Conns :
        /\ cmu[c] = "ping" <=> pinger[c] = "write"
        /\ cmu[c] = "read" <=> pc[c] = "ponging"
        /\ cmu[c] = "send" <=>
              \E m \in Sends : send[m].st = "write" /\ send[m].conn = c

\* What the README promises of the gateway, "delivering server-generated
\* messages to the right connected users": a user with an open, served
\* connection on an instance is found by SendToUser of that instance.
ConnectedUserIsReachable ==
    \A c \in Conns :
        pc[c] = "serving" /\ sock[c] = "open" => conns[home[c]][user[c]] # None

\* The gateway is the "WebSocket entrypoint": a valid upgrade request with a
\* valid token is not turned away (ws.go:48-51, server.go:37, 80).
ValidUpgradeIsServed == \A c \in Conns : pc[c] # "refused"

----------------------------------------------------------------------------
(* Liveness, under FairSpec.                                               *)

\* A connection whose peer is gone, or that a failed ping has given up, is
\* cleaned up: the read deadline wakes the read loop, cancel wakes the ping
\* goroutine, and cc.mu always comes free (handler.go:129, 133-150, 155-158,
\* 170-174).
DeadPeerIsCleanedUp ==
    \A c \in Conns : sock[c] = "broken" \/ cancelled[c] ~> pc[c] = "closed"

\* The last connection standing: every other handler of the user is done.
Sole(c) ==
    /\ pc[c] = "serving" \/ pc[c] = "ponging"
    /\ ~cancelled[c]
    /\ \A d \in Conns \ {c} : user[d] = user[c] =>
            ~Live(d) /\ loop[d] = "done"

\* Presence heals: once a user is down to one connection, Redis comes to name
\* its instance and keeps naming it, whatever DELs and SETs of the earlier
\* connections did to the key (handler.go:120, 186, 193).
PresenceHeals ==
    \A c \in Conns : <>[]Sole(c) =>
        <>[](\E u \in Users : u = user[c] /\ presence[u] = home[c])

\* A presence key that no running handler of the instance stands behind goes
\* away: left by a stopped process or by a SET that landed after the DEL
\* (handler.go:18, 120, 127, 193).
StalePresenceExpires ==
    \A u \in Users, g \in Gateways :
        presence[u] = g ~>
            \/ presence[u] # g
            \/ \E c \in Conns : Live(c) /\ user[c] = u /\ home[c] = g
=============================================================================
