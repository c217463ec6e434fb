# A verification project for paul-cloud-game-backend

TLA+ models of the services of this repository, model-checked with TLC, and
theorems about them checked by TLAPS. Paths are relative to the
repository; line numbers are those of the modelled commit.

## The system

Five Go services share Redis, Postgres and NATS (core NATS, at most once).

| part | state | operations | talks to |
|---|---|---|---|
| gateway (`internal/gateway`, `cmd/gateway`) | `conns`: one connection per user and instance; per connection a read loop, a ping goroutine, a presence goroutine and `cc.mu`; the Redis key `pcgb:gateway:user:<id>` (60s) | `GET /v1/ws`, `POST /v1/send`, subscription to `pcgb.gateway.send_to_user` | Redis, NATS |
| matchmaking (`internal/matchmaking`) | the Redis list `pcgb:mm:queue`; a worker per replica that runs every 2s | `POST /v1/matchmaking/enqueue`, `ProcessOnce` | Redis; publishes matches and `match_found` messages |
| sessions (`internal/sessions`) | tables `sessions`, `session_members` | `POST /v1/sessions`, `.../assign-server`, admin lists, admin broadcast, subscription to `pcgb.mm.matched` | Postgres, Redis (`KEYS`), NATS |
| router (`internal/router`) | none; reads `pcgb:user_gateway:<id>` | `POST /v1/route` | Redis, NATS |
| login (`internal/login`) | table `users` | `POST /v1/login`, `GET /v1/me`, tokens for all services | Postgres, NATS |
| migrate (`cmd/migrate`) | `schema_migrations` | `up`, `down` | Postgres |

`internal/contracts` holds the event envelope and the subjects;
`pkg/httpserver` wraps every handler with request logging.

What is hard: three goroutines, any number of senders and a deferred cleanup
share each connection; the cleanup of one connection meets the start of the next
one of the same user, on the same instance or on another; presence is written
and deleted blindly by all of them; the queue is popped and refilled by two
commands; database commits and publications are separate steps; NATS loses
messages, and every replica receives every message because no subscription has a
queue group; a login reads a row and writes it later; migrators that run at once
each trust what they read first; a frame is written by two calls of `Write`. The full list, line by line, is under `hazards` in `PROJECT.json`.

What makes each part correct:

- gateway: the registry names live connections only and finds the connection of
  a connected user; presence tells the truth while refreshes get through, heals
  after concurrent connections and expires after a crash; writes never mix and
  teardown always ends;
- matchmaking: a queued player is in one place, leaves in one match with another
  player, in order; failures lose a bounded number of players;
- sessions: a match becomes a session with its two players, nothing is announced
  that is not committed, what is committed and never announced is owed to a failure;
- delivery: what is published for a connected user reaches it wherever it is;
- login: a name has one row, a token opens the profile of that row, a password
  that was written is the password from then on;
- migrate: the version rows tell the truth about the tables, ups side by side lose
  no account and reach the latest version, the way up is always open;
- frames: what is written is what is read, in order, at every length, until a
  write is cut short.

## Modules

| module | models | checked by |
|---|---|---|
| `Gateway` | `internal/gateway/handler.go`, upgrade and deadlines of `ws.go`, wrapping and shutdown of `pkg/httpserver` | `MCGateway_*.cfg` |
| `GatewayProofs` | theorems about `Gateway` | TLAPS |
| `Matchmaking` | `internal/matchmaking` | `MCMatchmaking_*.cfg` |
| `MatchmakingProofs` | theorems about `Matchmaking`, the refinement of `PairQueue` among them | TLAPS |
| `PairQueue` | the abstract promise of matchmaking, which `Matchmaking` implements | refinement in `MCMatchmaking_replicas.cfg` |
| `Sessions` | `internal/sessions` without the broadcast | `MCSessions_replicas.cfg` |
| `SessionsProofs` | theorems about `Sessions` | TLAPS |
| `MatchFlow` | matchmaking and sessions composed: the publication of a match is its delivery to the sessions replicas | `MCMatchFlow_single.cfg` |
| `MatchFlowProofs` | theorems about the composition | TLAPS |
| `Delivery` | `internal/router`, `internal/gateway/nats.go`, `BroadcastToOnlineUsers`, NATS fan-out; the gateway reduced to registry and presence | `MCDelivery_*.cfg` |
| `DeliveryProofs` | theorems about `Delivery` | TLAPS |
| `Wire` | `writeFrame` and `ReadFrame` of `internal/gateway/ws.go` on octets, and who calls them | `MCWire_frames.cfg` |
| `WireProofs` | theorems about `Wire` | TLAPS |
| `Login` | `internal/login` | `MCLogin_concurrent.cfg` |
| `LoginProofs` | theorems about `Login` | TLAPS |
| `Migrate` | `cmd/migrate` and the scripts of `deploy/sql/migrations` | `MCMigrate_overlap.cfg` |
| `MigrateProofs` | theorems about `Migrate` | TLAPS |

The `MC*` modules only give constants their values. The map from every
definition to its lines is in `PROJECT.json`. Operators whose comment begins
with "Mutant" are deliberate bugs: replacing the operator below by one of them
must violate a property; they are no part of any specification.

### Gateway

A member of `Conns` is one connection for its whole life. `pc[c]` is the place of
`handleConnection`: `register` (entry written, first SET under way), `serving`,
`ponging` (holds `cc.mu` for a pong), `stopping` (waits for `pingDone`), `deleted`
(entry deleted, DEL under way), `closed`. `pinger` and `loop` are the two
goroutines, `cmu` is `cc.mu`. `s.mu` is held for one map access at a time, so those
accesses are single actions. `SendToUser` is three steps (lookup, lock, write), as
it drops `s.mu` before it takes `cc.mu`. A SET is in flight between
`RefreshStart` and `RefreshLands`, and lands even if its handler has ended
meanwhile. A write to a peer that is gone may still succeed, and one to a slow
peer may fail. `StopProcess` ends all goroutines of an instance at any point
without cleanup (`Shutdown` does not wait for hijacked connections); the
instance is up again at once. Time is counted in presence intervals: `Tick`
brings every key one interval nearer to its expiry and makes every presence
ticker fire, and waits for refreshes under way (they take less than 20s).
Invalid requests (no token, wrong method) change nothing and are left out.

`overlap` and `misses` are history variables: which handlers of the same user ran
beside a connection's, and how many of its SETs failed since the last that
landed. No action reads them.

### Matchmaking

A ticket is one RPUSH; Redis stores its user. A request that is repeated, by the
player or by the Redis client after a lost answer, is another ticket of the same
user; so is the second copy of a player that was put back by an LPUSH the client
sent twice (`PutBackAnswerLost`), which keeps the turn of the first. A worker is at `one` or `pair` while ids are in its hands and nowhere else.
Every failing call ends in the code's early return: `lost` records the tickets
that are then in no list and no match. One worker stands for one replica.

### Sessions

`CreateSession` is one action, being one transaction; that the primary key of
`session_members` makes it fail for a repeated member is `InsertsMembers`. The
publication after the commit is another action, so a failure or the end of the
process may come in between. Every replica has its own inbox, and every HTTP call
that is between two of its steps knows the replica that serves it (`at`): `StopReplica` ends the
callback and all these calls at once, for one failure. So a stop can silence any number of
sessions made over HTTP, but only one of a match, as a subscription has one callback at a time. A
commit whose answer is lost leaves a row and an error.

### MatchFlow

`MatchFlow` extends `Matchmaking` and instantiates `Sessions` with the pairs of
tickets as its matches. The two share one step, `HandOver`: `publishMatched`
together with the arrival of the event in the inboxes of the sessions replicas
that are connected. Everything else interleaves; each side has its own bound on
failures. The HTTP calls of `Sessions` are left to its own run.

### Delivery

Registries and presence keys change at any time (`Connect`, `Disconnect`,
`Refresh`, `PresenceGone`); messages are read one by one by each instance. A write
to a registered user may fail, at its deadline or on a broken connection
(`OnMessageFails`): the message is gone, the entry stays and the callback returns, so
`PublishedReachesRegistered` promises that a message comes to its write, and that nothing
before it holds it up. `failed` is a history variable that records such writes.
A body is a contracts envelope or the router's own one; `Decodes` says which of
them `decodeSendToUser` understands. Nothing in the repository writes the
router's key; `ForeignKeys` allows an outside system to, as the router's
integration test does, so that what happens after a successful lookup is
modelled too.

### Wire

A stream is a sequence of octets; a run of payload octets of one frame is one
element with its length, so that a frame of 65536 octets costs no more than one
of 125, and header octets have their values. `writeFrame` is lock, header
(`WriteHead`), payload (`WriteBody`) and unlock; a deadline may cut either part after
some octets (`Tear`), which gives its caller an error and leaves the connection open, as
in the code: only a failed ping cancels the handler, and only at its next frame. The client is a plain decoder; the
frames it sends have their lengths as eight octets, so that a length of 2^32 + 5 is
just another one. Masking is not modelled (an octet has no value inside a payload);
that an unmasked frame is refused is. `cc.mu` around the calls is in `Gateway`:
here writers meet at `wsConn.mu` alone.

### Login

A login call is `Lookup` (read the row, and compare if it has a hash), then one write
(`Create`, `SetPassword`) or none, then `PublishLoggedIn` and the answer. Other calls
come in between. A hash is modelled by the password it was made of as far as bcrypt
looks: `Seen[p]` is the first 72 bytes of `p`, `HashPassword` refuses a password that is
longer than that, `VerifyPassword` compares its first 72. Rows with an empty hash exist from the
start (`Legacy`); the column's default makes them possible and `Login` handles them.
A token is its claims, and tokens with another signature are refused. A write whose
answer is lost is `WriteUncertain`.

### Migrate

A run of the command is `Start` (flags, `schema_migrations`), `Load` (applied versions
and selection, read once), one transaction per script and `Complete`, or an end by
`log.Fatalf` anywhere. A script maps the tables to the tables it leaves, or to nothing
where one of its statements fails: `DROP` of a referenced table, `CREATE` of a table that
exists, a reference to a column of another type. Script and version row commit
together. Two transactions that touch the same tables wait for each other in Postgres or fail,
so a transaction is one step. `DownsAlone` says that nothing overlaps a down run:
without it TLC finds version 2 recorded without version 1, and the repository
promises nothing for that case. `accounts` says that somebody has registered.

`make migrate-down` runs `down -steps=1`, and `flag.Parse` stops at `down`: the run
is unlimited. In the model, as in the code, it goes on to 002 down, which
fails on the sessions table that 003 down has just created; that failure is
what keeps the users table.

## Runs

| run | bounds | shows |
|---|---|---|
| `gateway_safety` | 2 instances, 2 users, 2 connections, 1 send, expiry 2 intervals, 1 failed Redis command, symmetric | types, `RegistryNamesServedConns`, `ReachableUnlessOverlapped`, `VisibleWhileRefreshed`, `MutexBelongsToWriter`; no deadlock |
| `gateway_liveness` | 2 instances, 1 user, 2 connections, expiry 3, no failed command, processes stop | `DeadPeerIsCleanedUp`, `PresenceHeals`, `StalePresenceExpires` |
| `gateway_reconnect` | 1 instance, 1 user, 2 connections | **violated**: the old connection's cleanup removes the new entry |
| `gateway_deployed` | behind `withObservability` | **violated**: the upgrade finds no `http.Hijacker` |
| `matchmaking_replicas` | 2 replicas, 4 tickets of 3 users, 2 failures, symmetric replicas | `EachTicketInOnePlace`, `LossIsBounded`, `NoticeFollowsMatch`, refinement of `PairQueue` |
| `match_flow` | 1 worker, 4 tickets, 1 sessions replica, 1 failure on each side | `MatchedInArrivalOrder`, `TicketBuysOneGame`, `HeadGetsSession` |
| `sessions_replicas` | 2 replicas, 2 matches (one of a player with itself), 1 create, 1 assign, 2 failures | `EventsTellOfCommitted`, `SilenceIsAFailure`, `SilentCreateIsNoSuccess`, `OneSessionPerReplica`, `MatchSessionsHaveTwoPlayers`, `MatchIsSettled` |
| `delivery_fanout` | 2 users, 2 instances, 1 route, 1 broadcast, 3 changes, failing writes | `BroadcastReachesSteadyUsers`, `PublishedReachesRegistered` |
| `delivery_routed` | 1 user, 1 instance, 1 route, keys also from outside | **violated**: a routed message does not reach a connected user |
| `login_concurrent` | 3 logins over a new name and a row without a hash, 3 passwords (one longer than 72 bytes), 1 profile call, 1 failure, a token that expires | `TokenNamesTheUser`, `PasswordSticks`, `TokenOpensItsProfile`, `FirstLoginSettles` |
| `migrate_overlap` | 3 runs of 4 command lines, 1 failure | `VersionsTellTables`, `UpgradeStaysPossible`, `AccountsSurviveUps`, `UpsReachLatest` |
| `wire_frames` | a sender, the pinger and the read loop; lengths 0, 125, 126, 65535, 65536; 2 client frames, 1 torn write | `FramesIntactUpToTear`, `ReadsWhatWasSent`, `FramesArrive` |

Why these bounds are enough. Every hazard of the gateway needs two connections
of one user, or two users on one instance; a third connection only repeats the
overlap of two. An expiry of 2 and one failed SET is the smallest instance in which
`VisibleWhileRefreshed` is at its edge; the proof covers every other. With a failed
command `gateway_liveness` is out of reach, so a key left by a DEL that failed is not among the
causes it exercises; one left by a stopped process or a late SET is. Four
tickets make two matches and leave, after a first match, a pair that another replica pops while
the first still notifies. Two failures let a second one meet the
consequences of the first. In `sessions_replicas` a stop can find a
callback, a create and an assign in flight on one replica. One sessions replica is enough in `match_flow`, as
`sessions_replicas` has two. Three logins are two that race and one that comes
later; three migration runs are two that race and one that finds what they left. The lengths
are the last of each header form and the first of the next. Deadlock checking is off only where the bounded
supply of tickets, calls or changes runs out.

The three violated runs are disagreements between the code and what its
README says; `findings` in `PROJECT.json` quotes both sides. `RouteReachesConnected`
fails in two ways. Without help the router finds no key, because the gateways write
another one; and where it finds one, its envelope is understood by no gateway.

A user that enqueues twice is matched with itself. `Sessions` refuses such a match
on its second member row (`MatchSessionsHaveTwoPlayers`), so the player waits for a session
that never comes; `HeadGetsSession` makes the exception explicit.

### Fairness

Safety runs assume none. `Gateway!FairSpec` assumes that a goroutine that can move
does: reads and writes have deadlines, Redis commands the client's timeout. Strong
fairness is used where something is available only from time to time: `SendLock`
(a `sync.Mutex` does not starve a waiter) and `PingExit` (`select` chooses among
ready cases at random, so `ctx.Done()` is taken in the end). Nothing is assumed of
clients or of failures. `Matchmaking!FairSpec`: the ticker fires, calls return, a
stopped replica is started again. `Sessions` and `Delivery`: the NATS client calls the
callback for every message it holds, and calls to Postgres and NATS and writes to players return, failed or not; a route call that found its
gateway goes on. `MatchFlow` takes the fairness of both its parts. `Login`: a call
that has read its row goes on. `Migrate`: a started command runs on. `Wire`: a call of `Write` returns, by
its deadline at the latest, and the client reads. Fairness never forces a
failure: it is stated for the steps that are there without one (in `Wire` a torn
write is one of the ways a call returns, never the only one).

`HeadGetsSession` and `MatchedInArrivalOrder` are claimed for a single worker: with
two, each may hold a lone player while the other looks at an empty list, and a
player that was put back may be overtaken.

## Proofs

`GatewayProofs` proves for all instances, users, connections, sends and
expiries (assuming only `TTL \in Nat \ {0}`, `MaxFaults \in Nat`, `Wrapped` a
Boolean and `None` different from the others):

- `TypeCorrect`: `Spec => []TypeOK`. Alone it is not inductive: cleanup indexes
  the registry with `home[c]`, `user[c]`. `TypeInv` adds that a handler past the
  upgrade has both (`Placed`), that a send that holds a connection holds a real one
  (`SendsHold`), and that the presence loop runs while its handler serves under a live
  ctx (`LoopsRun`).
- `RegistryCorrect`: `Spec => []RegistryNamesServedConns`, inductive over `TypeInv`.
- `ReachabilityCorrect`: `Spec => []ReachableUnlessOverlapped`. It needs that two
  running handlers of one user have each recorded the other (`OverlapRecorded`): so
  the entry a cleanup removes is its own, or that of an overlapped connection.
- `VisibilityCorrect`: `Spec => []VisibleWhileRefreshed`. The invariant is an
  account: a served connection that nobody overlapped has
  `ttl + misses + pending refresh >= TTL` (`Margin`), and a key with time left has a
  value (`KeyHasValue`). A tick takes one from the first term and adds a pending refresh, a
  failed SET turns the pending refresh into a miss, a successful one pays in full.
- `MutexCorrect`: `Spec => []MutexBelongsToWriter`. It needs that two senders never
  write to one connection (`OneSender`), so that the one that returns frees the mutex
  for all, and that the ping goroutine ends before its handler cleans up
  (`PingerEndsFirst`), so that the end of a process stops every writer of its
  connections.

`MatchmakingProofs`, for any tickets and failures and a finite number of
replicas:

- `TypeCorrect` needs that what a worker holds fits its place in `ProcessOnce`
  (`HeldShape`): one id at `one`, two at `pair` and while it notifies.
- `TicketsStaySingle`: `EachTicketInOnePlace` is inductive together with
  `NewNowhere`, a ticket whose push has not happened is in no place.
- `LossesAreBounded`, by counting: a failing step takes at most the two tickets in
  its worker's hands. `NoticesFollowMatches` needs that a worker that notifies
  holds a published pair, and has told the first before the second (`NotifierKnows`).
- `KeepsPromise`: `Spec => ImplementsPairQueue`. The mapping takes what is queued or in a
  worker's hands as waiting; every action maps to one abstract step or to a
  stutter, by `EachTicketInOnePlace`.
- `MatchesInOrder`: with one worker, what is matched came before what the worker
  holds, and that before what is queued, in order (`InOrder`); this is what an
  LPUSH at the head preserves.

`SessionsProofs`, for any finite matches, replicas and creates:

- `TypeCorrect` needs a bound on rows: there are never more than attempts to create
  one, so `newUUID` finds a free id (`Budget`).
- `EventsFollowCommits`: between the commit and the publication a callback or a
  call remembers a session that has a row (`Pending`), and no step deletes one.
- `ReplicasBoundSessions`: the sessions of a match and the replicas that may
  still make one are together at most the replicas (`PerMatch`).
- `TwoPlayersMeet`, where every match has two entries (as `BuildMatch` makes them):
  its row names the players of the match, who are different (`RowsOfMatches`).
- `SilenceHasACause`: a step that leaves a session of a match without an announcer costs a
  failure, and a stop leaves at most the one its callback held.
- `SuccessIsAnnounced`: the row of a create call carries the id the call remembers, and that id
  is announced before the call ends well (`CreateRows`); a stop ends calls in an error only.

`MatchFlowProofs`: `ServicesKeepTheirSpecs` shows that the composition implements
the specification of each of its services. That of `Sessions` rests on
`Matchmaking`: it admits one publication per match, and `EachTicketInOnePlace`
says that no pair is published twice. The theorems of both modules then hold of the
composition (`FlowMatchesInOrder`), and together they give `OneTicketOneGame`, which
neither has alone.

`DeliveryProofs`, for any finite number of users: `BroadcastIsComplete` follows from
what holds in the middle of the loop (`CastsOK`): users with a standing key are served or in the
rest of the snapshot, and the count is that of the served ones.

`LoginProofs`, for any finite calls and legacy names, any passwords and times:

- `TypeCorrect`, `TokensNameUsers`, `TokensOpenProfiles` come from one invariant:
  names and ids are unique and the next id is free (`RowsOK`, `Budget`), the row that a
  call has looked up or written is in the table (`CallOK`), and so is that of
  every token a profile call works on (`MeOK`).
- `PasswordsStick` needs more: only rows that were there from the start are without
  a hash, and only until some call has written one (`HashesOK`). So the first
  call to write a row without a hash finds that no other was accepted for the
  name, and a second one is the exception that the property names.

`MigrateProofs`, for any runs and command lines. `VersionsTellTheTruth` and
`UpgradesStayPossible` have the hypothesis `DownsAlone`, without which TLC refutes them:

- `StepsAreALimit`: a run with a limit before the direction executes at most that many scripts
  (`StepsLimitRuns`, which is proved and not model-checked); what a limited run has done and has yet to do is within its limit (`Limit`).
- `VersionsTellTheTruth`: a selection has no gap (`Ordered`): below a selected version all are
  applied or selected, above an applied one that goes down all are selected. Overlapping runs
  are all up runs (`Alone`), which only add versions, so the next script of any run
  is that of the next version, or its row is there already and the transaction fails.
- `UpgradesStayPossible` follows from it and from what each script makes of each
  schema (`Upgrades`).
- `UpsKeepAccounts` holds whatever overlaps: whoever has registered did so in the table of
  version 2, which stands only while version 2 is recorded (`TableInv`), so a second run of
  its script fails on the version row and is taken back.

`WireProofs`, for any senders, client frames, tears and lengths below 2^31:

- The arithmetic first: a length below 2^31 is the number of its octets and the other way round
  (`OctetsOfValue`, `ValueOfOctets`), so a header that `writeFrame` builds, in any of its
  three forms, reads back as its opcode and length (`FrameHeads`), and so does one of the
  client, also in a longer form than it needs (`MaskedHeads`). `TypeCorrect` rests on this.
- `ReadsAreFaithful`: a stream is the concatenation of any number of frames, so the invariant
  names the place where each one begins (`InCut`: a function `pos` that starts at
  0, grows by the size of each frame and ends at the end of the stream). A step of the client adds
  a place, a step of `ReadFrame` shifts all of them by the first frame.
- `FramesStayIntact` needs the same of the other direction (`Layout`), seen from the frame the
  client is at and with the header it has taken put back (`Stream`), and how the layout ends
  (`Ends`): at the end of the stream; or at a header whose payload is due, which only the holder of
  `wsConn.mu` writes (`MuInv`), or nobody once the connection is closed; or at the frame that a
  deadline cut short, behind which nothing is claimed. `Intact` adds that the client's
  header is the one of its frame. So the next element is always the one its decoder expects.

Assumptions on constants are only that bounds are naturals, that sets which are
counted are finite, that functions have their types and that `None` differs from what it
stands beside; each is an `ASSUME` in the module and evaluated by TLC on its runs. `Wire` has
three more: a client sends a length in a form that can hold it (no other frame exists); senders
are not called `pinger` or `loop`; and a written length is below 2^31. The last is a bound of the
model, as TLC's integers end there: neither `writeFrame` nor `POST /v1/send`, which reads a body
of any size, has such a limit. Messages from NATS and echoed pings are below it.

In `Wire` a payload is one element of the stream, and `ReadFrame` takes it away whole, whatever
length it has decoded. So it is the first conjunct of `ReadsWhatWasSent`, which compares opcode and
length with those of the frame, that a wrong length violates; the second, that the stream is cut
between frames, could only fail on headers.

Only model-checked: everything under fairness, which is out of TLAPS' reach here.

## Not modelled

Signatures, hashes and masks as computations. Request validation (a request that fails it
touches nothing), configuration, logging, metrics, tracing, health checks, the
admin lists, which only read, and the test tools: they have no protocol state.
The rest of `contracts`: `MarshalV1` and `UnmarshalEnvelope` convert, and
`DecodeV1Payload`, whose one-line return leaves the order of evaluation
to the compiler, has no caller outside its tests. NATS slow-consumer limits. A DEL of a presence key or an LPUSH
that its client has given up, or that was in flight at a stop, and that Redis executes later (late
SETs are modelled; a failed DEL is one that did nothing). Up and down runs
of the migrator at once (see Migrate). Liveness of the queue with several
workers, which the code leaves to the timing of its tickers.

## Plan

Done: all modules above, and proofs of every safety property that the runs check. Left, as far as it
is worth it: the hazards of `PROJECT.json` without a property, each with its reason there.
