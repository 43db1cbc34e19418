# zk-wsp in TLA+

zk-wsp tunnels HTTP over websockets between a cluster and ZkCloud. The *client*
(`src/client`) runs in the cluster and dials a few websockets to the *server*
(`src/server`). Each websocket has a direction: the side that holds it as a
`WriteConnection` (`src/common/writeConnection.go`) sends HTTP requests over it and
reads the answers, the side that holds it as a `ReadConnection`
(`src/common/readConnection.go`) executes them. Both sides keep a pool of
connections of either direction and proxy requests of local HTTP callers through it.

This directory has TLA+ modules of the concurrent core of that program, the TLC
configurations that check them, and proofs for TLAPS. Every module names the Go
functions it models; `PROJECT.json` maps each definition to its lines.

## Inventory

| Component | State | Operations | Modelled by |
|---|---|---|---|
| WriteConnection (`common/writeConnection.go`) | `Status`, `lock`, the websocket, the unbuffered channel `nextResponse`, the pong channel | `Start` (reader goroutine), `Take`, `ProxyRequest`, `SendPingMessage`, `Release`, `Close`, `CloseWithOutLock` | `WriteConnection` |
| Server pool (`server/pool.go`) | two lists of connections, the bounded channel `idle`, `lock`, `done`, `idleSize` | `AddConnection`, `Offer`, `GetIdleWriteConnection`, `GetAllBusyWriteConnections`, `Remove`, `Clean`, `IsEmpty`, `Shutdown` | `ServerPool` |
| Server (`server/server.go`) | the map `pools`, `lock`, `done` | `Register`, `Request`, `getConnectionStatus`, `clean`, `Shutdown` | `Server` for the map and several clients, `ServerPool` for what happens in the pool of one |
| Cluster status (`server/connectionStatus.go`) | a ticker | `PeriodicSync`, `PushData` | `Server`; its pings in `ServerPool` |
| ReadConnection (`common/readConnection.go`) | `Status`, `lock`, the websocket | `Start` (loop and keep-alive goroutine), `error`, `Close`, `CloseWithOutLock` | `ReadConnection`, with its peer in `Exchange` |
| Waiting (`common/utils.go`) | none | `GetValueWithTimeout` | `Pop`, `PopTimeout`, `Inspect` of `WriteConnection`; the time in `IdleWait` |
| Client pool (`client/pool.go`) | as the server's, and `ticker`, `retryInterval` | `Start`, `connector`, `Size`, `GetIdleWriteConnection`, `Remove`, `Shutdown` | `ClientPool` |
| Client (`client/client.go`) | `ready`, `killed`, the pool | `Start`, `Request`, `Shutdown` | `ClientPool` |
| WspLogin (`client/wspLogin.go`) | `authToken`, `clusterId`, `killed`, `refreshInProgress`, a mutex | `RefreshWspToken` | `WspLogin` |
| Key validation, Kubernetes secret, (de)serialization, configuration, mains | none that is shared | | no: sequential code whose result is a value or an error |

How they interact:

* A *reader* goroutine per connection marks it idle and sends it on `pool.idle`
  (`Release`, `Offer`). A *handler* goroutine of net/http receives it from there,
  takes it, writes a request, and twice hands the reader a channel over
  `nextResponse` to be passed the next message of the websocket. Then it releases the
  connection or, after an error, closes it and removes it from the pool.
* The executing side has a reader too: it reads a request from its websocket, has it
  executed by an HTTP backend and writes the answer, head and body, before it reads the
  next. A *keep-alive* goroutine pings and closes the connection when that fails.
* The server's *cleaner* goroutine closes idle connections every 15 seconds, and
  *main* shuts everything down at a signal. On the client the goroutine of
  `Pool.Start` dials what is missing at every tick, and shuts the pool down itself
  when the server rejects the cluster key.
* Locks: `Server.lock`, then `pool.lock`, then `connection.lock`. Against that
  order, `Release` waits for room in `pool.idle` while it holds `connection.lock`.
  `Status` is read without its lock in several places, and so is the map `pools`; the
  reader of a `ReadConnection` also writes `Status` without it.

What is hard about it, and what correctness means:

* *Exclusive use.* A websocket has one writer. Exclusivity rests on a connection
  being in `pool.idle` or with one goroutine, across goroutines that close it at any
  time (`OneToken`, `ExclusiveLease`, `ImplementsLease`).
* *Closing.* Reader, handler, cleaner and shutdown may all close a connection;
  `close(nextResponse)` twice panics (`CloseOnce`), and a closed connection never
  becomes usable again (`ClosedIsFinal`).
* *Nothing is lost.* Each error path must give the connection back or close it
  (`NoLostConnection`), and a pool that is shut down keeps nothing alive
  (`ShutdownLeavesNothing`).
* *Nobody waits for ever.* Handlers, readers, cleaner and shutdown wait for each
  other over locks and channels (`CallEnds`, `ClosedConnectionEnds`,
  `CleanerReturns`, `ShutdownEnds`).
* *One request, one answer.* A websocket serves one request after another without any
  numbering: answers are matched to requests by their order alone. Whatever fails at
  either end, a request must be executed once at most, and end with its own answer or an
  error (`KeepsPromise`, `CleanWire`, `RequestEnds`); and both ends must come to their end
  (`EndedIsClosed`, `ExecutorEnds`).
* *The registry.* `clean` replaces the whole map of pools while clients register and while
  it is read without a lock: nobody may be lost by that (`Reachable`, `RegistrationKept`,
  `CollectSparesConnected`, `SteadyReported`).
* *The deadline of a wait*, which is made of timers that are each computed from the last
  (`Deadline`, `FullWait`).
* *The client's bounds.* `MaxConnections`, and a login that is alone
  (`SingleFlight`).

The list `hazards` of `PROJECT.json` has every such place at its line, with the
properties that speak of it or the reason that none does.

## Modules

### WriteConnection

A library of actions, without a specification of its own. Its state is `status`
(`"ABSENT"` until the object exists), `ws` (`"open"`, `"broken"` by the network,
`"closed"` by this side), `connLock`, the queue `idle`, the list `writeConnections`,
`poolLock`, and for every goroutine its place `pc`, the connection `on` it works on
and, for callers, the `outcome` of the call. A connection's name also names its
reader goroutine. There is one action per step that another goroutine can observe:

* `Release` takes `connection.lock` and marks the connection idle; `Offer` sends it on
  the channel and unlocks. In between the goroutine waits, with the lock, while the
  channel is full.
* `Close` is `BeginClose` (lock, `close(nextResponse)`, `ws.Close()`) and `EndClose`
  (the deferred `Status = CLOSED`, unlock): readers of `Status` without the lock can
  run in between. Closing the channel and the websocket is one step: a reader that
  sees one and not yet the other goes the same way.
* `Pop`, `PopTimeout`, `Inspect`, `Take` are a wait for an idle connection; the status is
  looked at without the lock, then again by `Take` with it.
* `WriteRequest`, `SendHeaderChannel`, `ReadHeader`, `SendBodyChannel`, `ReadBody` are
  `ProxyRequest`; each may fail. A send on a closed `nextResponse` panics and
  net/http recovers the handler, which then neither closes nor removes anything. So it
  is when `WriteHeader` panics at a status code outside of 100..999, which a peer can pass
  on; the handler is then `"aborted"`, and its connection stays BUSY with it.
* `WritePing`, `PongReceived`, `PongTimeout` are `SendPingMessage`.
* `Loop`, `Receive`, `ReadError`, `Check`, `AwaitNil`, then `Remove` and `Close`, are
  the reader. The peer may send a message whenever the websocket is open, whether it
  was asked for or not.

`outcome` tells only the results apart that properties or later steps do; every answer with an
error, for lack of a pool too, is `"error"`.

The order in `writeConnections` is abstracted to a set: `Clean` and `Shutdown` visit
every element, and which idle connections `Clean` spares is a choice of order.
Messages have no content here: what belongs to which request is the subject of
`Exchange`.

### ServerPool and ConnectionLease

`ServerPool` adds `Register`, the entry of `Request` and `getConnectionStatus`, the
cleaner, and shutdown. `done` is the pool's flag, `pooled` says whether the pool is in
`Server.pools`, `nIdle` is the cleaner's counter, `todo` what an iteration of the
cleaner or of Shutdown has still to visit. `clean` takes two locks: `CleanLock` is
`Server.lock`, which is held exactly while the cleaner is not at `"ready"`, and `CleanStart`
`pool.lock`, for which the cleaner may have to wait at `"isEmpty"`. A shutdown unlocks the pool
(`ShutdownEnd`) before the map loses it (`DropPool`), so requests still find a pool that
is shut down. `AddConnection` takes no connection into a pool that is done and none of an
unknown type. Times are choices: a connection that is over `idleSize`
may or may not have been idle for long enough, a tick may come at any time, and
whether the pool's read connections keep it from being empty is a choice too. `Init` is
a registered pool without write connections. When the pool has been removed from the
map, what a later registration of the same client would create is outside of the
module.

`ConnectionLease` is what a pool promises its callers: a connection is `live` from
when it is created to when it is closed, and `gone` for good afterwards; a lease of a
live connection is granted to a user when nobody has one, is returned, or is lost when
the connection is closed. `ServerPool` and `ClientPool` implement it
(`ImplementsLease`, stated for both in `WriteConnection`), with a lease from a successful `Take` to the end of the following
`Release` or `Close`.

### Server

The map `pools` for any number of clients. A registration `r` is a websocket, its
connection object and the goroutine that registers and later reads it. `Greet` is all of
`Register` that comes before `Server.lock`: a validated key, the upgrade and the greeting,
or the failure of one of them. A greeting that makes `Register` panic, and a connection of an
unknown type in `AddConnection`, end at `"stray"`: a websocket that is open and has no
goroutine. `RegisterLock`, `FindPool`, `AddConnection` are its critical section; `FindPool` reuses the client's pool or creates one. `Leave` and `CloseConnection` are
the end of a connection's goroutine, for whatever reason.

`clean` holds `Server.lock` from `CleanStart` to `CleanEnd`: it builds the map `fresh`, visits
the entries of the map it began with (`CleanPool`), shuts an empty pool down in a step of
its own (`CleanCollect`) and then puts `fresh` in place of `pools`. `Server.Shutdown` and
`PeriodicSync` take no lock: both iterate over the map they find at their start, and a step
of theirs may come between any two of the others. What happens inside a pool under
`pool.lock` is one step, with any set of its connections closed. `PeriodicSync` asks one
client after the other (`SyncClient`, with any answer a client with connections can give) and
posts the report, which may get lost (`PushData`); `known` is what ZkCloud makes of the reports
that arrive. `steady`, which no action reads, are the clients connected ever since the
round began.

### ReadConnection, Exchange and RequestReply

`ReadConnection` is, like `WriteConnection`, a library of actions, for the end of a websocket
that executes requests. A request and an answer are two messages each, a *head* (the
serialized request or response) and a *body*; a body whose writer gave up is *cut* and never
ends for who reads it. `up` and `down` are the messages under way to and from this end; both
lose what is in them when the end that would read it closes or breaks. The reader is
`MarkIdle`, `ReadMessage`, `MarkBusy`, `Decode`, `NextBody`, `Do`, `WriteAnswer`, `CopyBody`;
`ErrorHead` and `ErrorBody` are `error()`, after which the loop goes on if the backend failed
and ends if the request was refused; `ExecRemove`, `ExecClose` are the deferred
functions. `MarkIdle` and `MarkBusy` assign `Status` without the lock. The keep-alive goroutine
is `PingFails` .. `AliveRemove`; a ping fails when the websocket does, and when the reader's
own write of an answer takes longer than a second. `PoolClose` and `PoolClosed` are what the
pool's `Clean` and `Shutdown` do to the connection, under both locks.

`Exchange` composes the two. Each of its actions is an action of `WriteConnection` together
with what it writes to and reads from the wire: `SendRequest` leaves any prefix of the
request's two messages when it fails, `ReadHead` fails on a message that is not a head and
may be aborted by `WriteHeader`, `ReadAnswer` ends with the body, or with an error when the
websocket ends or the asker leaves. `BreakWire` and `ExecBreak` are the network;
`HearsOfEnd` and `ExecHearsOfEnd` are one end's way to learn that the other is gone. The pool
that closes the sending end is left to `ServerPool`; here that end is closed by the
handler, by its reader or by the network.

`RequestReply` is what a proxied request is promised: executed once at most, with its own
body, and ended once, as answered or as failed. `Exchange` implements it (`KeepsPromise`) with
`result` and `executed` as they are; a request whose head or body belonged to another one
has the result `"mixed"`, which no step of `RequestReply` produces.

### IdleWait

The clock of one call of `GetValueWithTimeout` after the other. `timeout` is the length of the
timer in use and `armed` the time it was started at. `ReceiveStale` receives an entry whose
connection is not idle any more, and starts a timer that is shorter by `time.Since(startTime)`,
the time since the start of the whole call. It may become negative, and is due at once.

### ClientPool

The same connections under the client's rules. The *connector* (`Pool.Start` and
`startInternal`) holds `pool.lock` while it counts (`ConnectorStart`), opens read
connections (`ReadsConnected`, only whether they succeed), and opens write connections
one by one (`Connect`); any dial may fail or be answered with an invalid key
(`DialFailed`). A connection is visible to others only through the list, hence only
when `pool.lock` is free or, once its reader runs, through the channel. An invalid key
leads to `ShutdownStart` .. `ShutdownEnd` and `Kill`, by the connector itself; `Main`
starts to serve when the first round is over and shuts down at a signal. `Running`
is false once main has returned or a goroutine has panicked: the process has ended. A
request waits for an idle connection with `pool.lock` held (`LockPool` to
`ClientPopTimeout` or `ClientTake`).

The number of idle and total connections is read in one step, although `Status` can
change during the count: a count in which each status is seen at a different time
differs only in how many connections are idle, and the bound on the total does not
depend on it.

### WspLogin

`Begin` and `Finish` are the two critical sections of `RefreshWspToken`; between them
`CheckKilled`, the login itself (`Login` when ZkCloud answers, `LoginFails` for every
way it does not), `MarkKilled` and `StoreToken` run without the mutex. ZkCloud may accept a
login and give no token, and the code does not look: `authToken` is the number of the
login that issued it, or 0 for the empty token, and `stored` the login whose answer the
fields hold. `issued` counts the logins accepted so far. `Main` is `CreateWspLogin`, whose error ends
the process; the others are the goroutines `Client.Request` starts.

### MCServerPool, MCClientPool, MCServer, MCExchange

Values for TLC: the closers (with the shutdown or without) and the permutations
under which the safety runs are symmetric. The liveness runs use no symmetry.

## Runs

| Run | Instance | Shows |
|---|---|---|
| `server_requests` | 2 connections, handler, ping, cleaner, shutdown, idle channel of 1 | `OneToken`, `ExclusiveLease`, `CloseOnce`, `NoLostConnection`, `ShutdownLeavesNothing`, `ClosedIsFinal`, `CleanSparesLeased`, and that the pool implements `ConnectionLease` |
| `server_calls_end` | 2 connections, handler, cleaner, idle channel of 1 | `ClosedConnectionEnds`, `CallEnds`, `CleanerReturns` |
| `registry` | 2 clients, 2 registrations, at most 2 pools | `Reachable`, `RegistrationKept`, `CollectSparesConnected`, `SteadyReported` |
| `exchange` | 3 requests of 1 handler over 1 websocket | `CleanWire`, `EndedIsClosed`, that it implements `RequestReply` (`KeepsPromise`), `RequestEnds`, `ExecutorEnds` |
| `idle_wait` | timeout of 6 units, at most 4 stale entries | `Deadline`, `FullWait` |
| `client_pool` | 2 connections, 2 requests, at most 1 open | `MaxConnections`, `NoLostConnection`, `CloseOnce`, `ImplementsLease` |
| `client_calls_end` | 1 connection, 2 requests, kill, signal | `CallEnds`, `ShutdownEnds` |
| `login` | main, 3 refreshes, 3 answered logins | `SingleFlight`, `NoLoginAfterKill`, `ServesLoggedIn`, `TokenNeverGoesBack`, `RefreshEnds` |

Every run also checks the type invariant of its module. Runs that show where the code and
what it says of itself differ:

| Run | Violated | What happens |
|---|---|---|
| `failed_request` | `FailureIsAnswered` | a connection closed under a request makes the handler panic on `nextResponse`, and nobody answers the caller (`server.go:122`) |
| `cleaner_stalls` | `CleanIsPeriodic` | entries of closed connections fill `pool.idle`, `Release` blocks with `connection.lock`, the cleaner waits for it with `pool.lock` and `Server.lock` (`server.go:80`) |
| `killed_client` | `KilledHasNoConnection` | a tick that is pending when the pool shuts down starts the connector again (`client/pool.go:66`) |
| `loss_unreported` | `LossIsReported` | a client that was reported as connected loses its connections, `clean` collects its pool before the next round of `PeriodicSync`, and no later report names it (`connectionStatus.go:46`) |

### Known defects that no run shows

More that reading the code for the models brought up; no comment or test of the code says
otherwise, so no run states it:

* `WriteHeader` panics at a status code outside of 100..999, which `http.Client` accepts from a
  backend and the peer passes on (`common/writeConnection.go:225`). net/http recovers the handler;
  the connection stays BUSY for ever, open and in the list. `ReadHeader` has it as `"aborted"`,
  and `NoLostConnection`, `CallEnds` and `RequestEnds` leave such requests out.
* A 2xx answer without a token counts as a login (`wspLogin.go:150`-`175`): the client serves
  requests with an empty token, which `Login` and `StoreToken` show.
* A greeting without a separator makes `Register` panic at `split[1]` (`server.go:174`), after
  the upgrade: the websocket is left open with no reader. So it is for a connection type that is
  neither Read nor Write (`server/pool.go:65`).
* Several stale entries end a wait early: time that was subtracted from the timeout is
  subtracted again (`common/utils.go:38`). `FullWait` excludes that case, for it is how the code is.

* `getConnectionStatus` counts the busy connections before it waits for an idle one
  (`server.go:220`, `229`). A client whose only connection is taken by a request in between
  is reported as not connected: `CountBusy`, then `PopTimeout`.
* On the client, an invalid key shuts the pool down, and the signal that ends the process
  shuts it down again: `close(pool.done)` panics (`cmd/wsp_client/main.go:50`). `ClientPool` has
  the label `"panic"` for it.
* A refresh on a killed cluster returns without a reset of `refreshInProgress`
  (`wspLogin.go:81`): `CheckKilled`. It has no effect as long as `killed` is never reset.
* `Config.GetTimeout` multiplies by seconds, its comment and the default 1000 say
  milliseconds (`server/config.go:37`, `46`).

### Bounds, and why they are enough

* `Conns`: two let the channel be full with one while another is offered, let a closed
  connection's stale entry meet a live one, and let a connection be replaced. The races
  between reader, caller and closers are about one connection. `server_calls_end` has two,
  since with one an `Offer` never waits: there a stale entry fills the channel, the other
  connection's `Offer` waits with `connection.lock` held, and the cleaner for that lock.
  `client_calls_end` is about `pool.lock`, which requests hold while they wait, and has one.
* `Handlers`, `Pingers`: two callers compete in the safety runs; with one more, the third can
  only wait. `server_calls_end` is about one call after the other.
  A caller starts over any number of times.
* `PoolMaxSize` 1 makes the channel full in the safety runs and in `server_calls_end`, where an
  `Offer` that waits may wait for ever: that is `cleaner_stalls`. The properties of
  `server_calls_end` therefore start from `OffersGetTurn`: callers ask for connections again and
  again, or the channel does not stay full. In `client_calls_end` it has room for every
  connection. `server_calls_end` has neither pings, which are callers as handlers are, nor
  `Server.Shutdown`, after which nothing is left to wait for; they are in `server_requests`.
* A connection that ended is not created again, so a run has at most `|Conns|`
  registrations; the pool's state after that is one it also had before.
* `exchange` has one websocket and one handler, so that three requests follow each other on
  the same wire: what the first leaves behind can reach the second, and a websocket that
  two have used can fail in the third. Which websocket a request gets is the subject of
  `ServerPool`; websockets share no wire.
* `registry`: two registrations of the same or of different clients, each while `clean`,
  `PeriodicSync` and `Shutdown` are anywhere. A collected pool and its successor are both
  there (`Pools`). `loss_unreported` needs one of each.
* `Timeout` 6 and `MaxStale` 4 let the timer become negative after two stale entries, and
  two more come after that; the proofs are for every value of both.
* `MaxTokens` bounds the logins ZkCloud answers; after that they only fail.

`CHECK_DEADLOCK FALSE` is set where the system may come to rest: a process or pool that
was shut down and has no request left, and in `server_requests` and `server_calls_end` because an
idle channel of 1 lets the program stop as in `cleaner_stalls` until another request comes.

### Fairness

Strong fairness per goroutine: Go's scheduler runs each runnable goroutine, its mutexes
and channels serve waiting goroutines in order after a bounded time, and a goroutine that
waits for a lock that others take and release again and again gets it. `Unhindered`
excludes what depends on the peer: a caller that writes to or reads from a websocket
that is open has no fairness, and neither have messages of the peer, breaks of the
network, requests, pings, registrations, ticks and signals: the timer of the cleaner need not
fire, and `CleanerRuns` forces only a cleaner that has begun. A caller at `"pop"` that finds the
channel filled may see its timer win the `select`, but not each time it waits. `CallEnds` says
nothing about a peer that keeps the connection open and does not answer; the code has
no deadline for it; nor about a request that `WriteHeader` aborted. The caller's own HTTP
connection is assumed not to stall. On the client every dial is taken to end, and a login to be
answered or to fail: the code sets no limit on either, the network has to.

In `Exchange` the peer is in the model, and with it what a handler waits for, so a handler has
fairness there while its websocket is open too (`HandlerStep`). It goes on when the message it
waits for is there or the websocket has ended. The HTTP caller that asked may leave, which ends a
request in the middle of the body, but is not made to (`AskerStays`): at a body that is cut or
missing `io.Copy` waits, and only the other end can help, by hanging up. A message that was
cut, because its writer gave up in the middle, stays cut for as long as its websocket is open. A backend is assumed to answer
in the end, as `http.Client` has no timeout; only a backend that was sent a cut body may wait
until the websocket ends, when its read fails. When one end of a websocket is gone the other
hears of it, by TCP or by a failing ping. In `Server` the timers of `clean` and of
`PeriodicSync` fire, and not every push is lost.

## Proofs

`ConnectionProofs` has no theorem: it is what the two pools and `Exchange` share, lemmas about
the actions of `WriteConnection`, which the three specifications take from there. Its invariant
`ConnInv` is the conjunction of

* `ConnTypes`, which relates control and data: which goroutine is at which label, that
  a caller has a connection exactly between its receive on `pool.idle` and its return, and
  that the channel is never over its capacity;
* `OneToken`: a connection is in the channel at most once or has one carrier. Only the offer
  and the receive move a token (`TokenOffer`, `TokenPop`); `ExclusiveLease` follows from it
  (`TokenExclusive`), as two callers that lease the same connection would both carry it;
* `Meets`: a caller that reads an answer has a reader that waits for it, without which
  reading could move a goroutine that is closing;
* `CloseInv`: `Holds` says that who closes or offers a connection has its lock; `Follows` that
  `Status` is `CLOSED` only when the websocket is closed, and that in between somebody is
  about to set it; `Unborn` that nobody knows a connection before it is registered;
* `Born`: a connection that is not registered has a reader that has not begun, so that only
  a registration makes it live;
* `UseInv`, which ties `Status` to who works on a connection, what is leased is `BUSY` or
  was closed, and contains `NoLostConnection`.

The lemmas `ReaderKeeps`, `CallerKeeps`, `JoinKeeps`, `BeginKeeps`, `EndKeeps` and `QuietKeeps` say of each
kind of step, of a reader, a caller, a registration, a closer's `Close`, and all others, that it
keeps `ConnInv`, leaves a `CLOSED` connection `CLOSED` (`Final`), and is a step or a stutter of
`ConnectionLease` (`Promised`). A pool has to show of each of its own actions which kind it is. They
assume `ConnAssumption`: kinds of goroutines are disjoint and the channel has room for at
least one. TLC checks the assumptions in the runs.

`ServerPoolProofs`, for any finite or infinite number of connections and callers, with
`ServerAssumption` (cleaner and main are closers): all the properties of the run
`server_requests`. `TypeCorrect`, `TokenCorrect`, `LeaseExclusive`, `ClosedOnce`, `NoneLost`, `ClosedForGood`
(`ClosedIsFinal`) and `LeaseImplemented` (`ImplementsLease`) follow from `ConnInv` and what the server adds to it
(`ServerTypes`, `Known`, `Cleaned`): its closers visit only registered connections, and what `Clean`
closes was `IDLE`, which also gives `LeasedSpared` (`CleanSparesLeased`). `ShutdownIsComplete`
(`ShutdownLeavesNothing`) needs `ShutInv`: the pool's operations hold `pool.lock`, an open connection
is in the list until its reader takes it off to close it, and a Shutdown under way still
has to visit every open one.

`ClientPoolProofs`, for any number of connections and handlers and any idle size, with
`ClientAssumption`: all the safety properties of the run `client_pool`, `TypeCorrect`, `NeverTooMany`
(`MaxConnections`), `ClosedOnce`, `NoneLost` and `LeaseImplemented`. For the bound the invariant
`Bounded` counts the connections that are open together with those the connector has still
to open; every other step only shrinks the list (`Shrinks`).

`ExchangeProofs`, for any number of requests, websockets and handlers: all the safety
properties of the run `exchange`. `EndIsClosed` (`EndedIsClosed`) follows from `ExecInv`, about the
executing end alone: its websocket is closed before `Status` is `CLOSED`, and its reader leaves
the pool before it closes. `TypeCorrect`, `WireIsClean` (`CleanWire`) and `PromiseKept` (`KeepsPromise`, that
the two ends implement `RequestReply`) need `WholeInv`: `ConnInv`, `ExecInv` and `WireInv`, what may be
on the wire at each point of the two ends. None of the parts of `WireInv` is inductive alone:

* `UpShape` and `DownShape`: a request is a head and one more message of the same request, the
  answer begins when the request was read whole or will not be, and nothing is read at
  an end whose websocket is gone;
* `Clean`: a wire nobody uses is empty both ways, unless its other end is about to hang up,
  when the body of a refused request may be left on it;
* `InStep`: what a handler has read and has still to read is the answer to its own request, and the
  other end is as far with it. It is why a request that is answered with an error or cut
  short leaves nothing to the next;
* `Asks`: the handlers' requests are different ones, without a result yet;
* `Once`: a request that was not sent is not under way nor executed; one that is under way
  has not been executed, and is so at one websocket only.

A step of one end is shown to fit what is on its own wire (`ExecFits`, `SendWire`, `PassWire`,
`ReadWire`, `CutWire`); that it leaves the other wires and handlers alone is `ExecSuffices`,
`WireSuffices` and `QuietWire`. That a handler is the only one on its connection (`OneUser`) is
`ExclusiveLease`, and that the idle wire is clean in the sense of `CleanWire` uses `UseInv`: the
proof composes the two components as the code does. `HandlerPromised` and `ExecPromised` map the
steps to those of `RequestReply`. `WireInv` was model-checked before it was proved: all states of
one connection, one handler and three requests, and 8.7 million of two connections and two handlers.

`ServerProofs`, for any number of clients, pools and registrations: `RegistryTypes`,
`AlwaysReachable`, `NoneLost`, `CollectIsSafe` and `SteadyIsReported`, which are all the
properties of the run `registry`. The inductive invariant has seven parts. `Types`; `Held`, who
has `Server.lock` at which label; `Owned`, a pool belongs to the same client in the map, in the
map under construction and in every iteration; `Placed`, pools hold what was added to
them, and one that was found empty stays empty; `Mapped`, the map has every pool with
connections and no dead pool; `Sweep`, the same of `fresh` together with what `clean` has still to
visit, each pool in one of them only, without which putting `fresh` in place would not be seen to keep
`Mapped`; and `Round`, a steady client is in the report or still to be asked. It assumes
`RegistryAssumption`.

`IdleWaitProofs`, for every timeout and any bound on the stale entries: `WaitTypes`,
`DeadlineKept` and `WaitIsFull`. The invariant adds `Length`, what the timer is made of after
none, one and more stale entries: it shows that the time subtracted twice makes a wait
shorter and never longer.

`WspLoginProofs`, for any number of goroutines: `LoginAlone`, `KilledNotAsked` and
`TokenOrder` from the invariant `IInv`, which adds to the properties that only a
goroutine that set `refreshInProgress` is between the two critical sections, and that
an answer not yet stored is that to the last login accepted. Without the second,
`TokenNeverGoesBack` would not be inductive. `LoginTypeCorrect` is part of it, and
`ServesOnlyLoggedIn` adds `FirstLogin`: no refresher runs until main returns, main returns
without an error only when an answer is stored, and an accepted answer is either stored or with
a goroutine about to store it. It says nothing of the token in the answer, which may be empty.

Only model-checked: liveness, that is `ClosedConnectionEnds`, `CallEnds`, `CleanerReturns`,
`ShutdownEnds`, `RefreshEnds`, `RequestEnds` and `ExecutorEnds`. It needs fairness and `ENABLED`, which are out
of the proof system's reach. Every safety property and action property of a passing run, and
every refinement, is a theorem. The violations are of course only TLC's.

## What is not modelled

* HTTP and JSON content, headers, URLs: conversions that no property here is about.
* The client's flag `ready`, which only answers health checks.
* The length of timeouts and of the backoff: any timer may fire at any time.
* `AddConnection` on a pool that is done returns and leaves the websocket open without
  an owner, and so does one with an unknown type. `ServerPool` lets such a connection stay
  absent, `Server` has it as an `"orphan"` or `"stray"`.
* `ValidateKeyWithZkCloud`, `GetSecretValue`, `PushData`: calls that return a value or
  an error. They have no timeout.
* The goroutines of `net/http`'s transport. The backend's request body is read from the websocket
  by one of them, possibly after the answer has begun; `Do` reads it before it answers. The body
  of the backend's answer is never closed, which keeps its TCP connection, not a websocket.
* The pong that a read connection writes when it is pinged, and a pong that comes after
  `SendPingMessage` gave up and counts as that of the next ping.
* The pool's own closers at the sending end in `Exchange`: they are in `ServerPool`.
* A request that found its pool in the map, and goes on with it after `clean` collected it: it finds
  the pool's channel empty or its entries closed, as in `ServerPool` after `Shutdown`.
* Data races as such: a racing read is a step of its own that sees the old or the new value. The
  runtime's own check, which ends the process at a concurrent read and write of a map, is left
  out; `pools` is replaced, never written while it is read, except by `Register`.

## Plan

1. Proofs that go with the changes of the models below: the lemmas of `ConnectionProofs` are
   stated for a step of any pool, so that a new pool action has only to be placed among them.
2. The read and the write connections of one server pool together, for `Clean` and `IsEmpty`
   over both lists.
3. Liveness of the registry: a client that reconnects is reported as connected again.
4. The backoff of the connector and the flag `ready`.

Order of the modules: `WriteConnection`, `ServerPool`, `ConnectionLease`, `ServerPoolProofs`,
`ClientPool`, `WspLogin`, `WspLoginProofs`, `ReadConnection`, `RequestReply`, `Exchange`,
`Server`, `IdleWait`, then their proofs, `ConnectionProofs`, `ClientPoolProofs` and
`ExchangeProofs`. The actions of `WriteConnection` are shared, and so is what is proved of them.
