# GatewayKit in TLA+

Specifications of GatewayKit: a gateway that speaks HTTP and WebSocket with
clients, an authentication service behind it, and RabbitMQ, PostgreSQL and
Redis between them.  Each module is translated from the Python code it names;
`PROJECT.json` lists, for every definition, the lines it stands for.

Paths in this file are relative to `src/`.

## 1. The system

| Part | State it keeps | Operations | Talks to |
|---|---|---|---|
| RPC queues and base listener (`libs/messaging/rabbitmq_topology.py`, `base_listener.py`) | main, retry and dead-letter queue; x-death header; unacknowledged messages per channel | publish, expire in the retry queue, deliver, handle, ack, nack, move to DLQ | every handler of auth_svc; the event broadcast of the gateway |
| RPC caller (`libs/messaging/rabbitmq_message_bus.py`: `call_rpc`, `_on_rpc_reply`, `publish_rpc_response`) | `_rpc_futures`, the calls waiting | register a future, publish, wait with a timeout, resolve, clean up | gateway routes call it; listeners answer through it |
| Bus connection (same file: `connect`, `_ensure`, `close`, `_setup_reply_to_consumer`) | `_conn`, `_chan`, `_reply_to_consumer_tag`, `_closing` | connect with retries and a deadline, reconnect on demand, close | everything that publishes or consumes |
| Login and brute-force guard (`apps/auth_svc/services/auth_service.py`: `issue_token`) | Redis counter of failures with a TTL, ban flag with a TTL | check ban, verify, INCR, EXPIRE, ban, delete counter, issue | the `auth.issue_token` queue (prefetch 1), Redis, PostgreSQL |
| Refresh and logout (same file; `db/auth_repository.py`) | table `refresh_tokens` | rotate a token, revoke a token | their queues (prefetch 32), PostgreSQL |
| Registration (same file: `register`) | tables `accounts`, `credentials` with unique columns | check, then insert; recognise a unique violation | its queue, PostgreSQL |
| Token validation (`handlers/auth_validate_token_rpc_handler.py`, `utils/jwt_manager.py`) | none | decode a JWT | its queue |
| HTTP routes (`apps/gateway/rest/auth/auth_routes.py`) | none | map a request to an RPC and its answer to a status | RPC caller, error model |
| WebSocket gateway (`ws/unified_ws.py`, `gateway/client_connection_manager.py`, `gateway_main.py`, `listeners/event_listener.py`) | registry of connections with a time stamp | validate and register a connection, serve it, sweep idle ones, broadcast an event | RPC caller, event queue |
| Service lifecycle (`libs/app/bootstrap.py`, `libs/containers/*`, `libs/app/health.py`) | started resources, listeners, tasks | start in order, report readiness, stop in reverse | all of the above |
| Error model (`libs/app/errors.py`) | none | code to HTTP status | HTTP routes |

What is hard in it:

* **Delivery.**  A message may be delivered again after a crash, a lost
  connection or a failure of its handler, and a handler outlives the
  connection it acknowledges on.  Nothing may be lost, attempts must be
  bounded, and the DLQ must receive exactly what deserves it.
* **Asynchronous answers.**  Replies come late, twice, or while the caller is
  still publishing; ids come from clients and may repeat.
* **Shared counters without transactions.**  The login guard reads a ban, then
  counts in separate Redis commands, on several workers.
* **Concurrent transactions.**  Refreshes and logouts of one token overlap.
* **Coroutines over one dictionary.**  Endpoints, the idle checker and
  broadcasts change the WebSocket registry at every `await`.
* **Connections.**  Reconnecting, starting and stopping in the right order.

The correctness properties of each part are listed with its module below; the
hazards they answer, with their lines, are in `PROJECT.json`.

## 2. Modules

`X` is a component, `MCX` gives its constants values for TLC, `XProofs` holds
its theorems.  Operators named `Bad...` in a component are faulty variants of
the definition that follows them; nothing refers to them, they exist to show
that a property notices the mistake.

Every component has an inductive invariant `IInv`, of which its type invariant
`TypeOK` and most of its safety invariants are conjuncts; the proofs establish
it.  Four modules compose components, and five components implement an abstract
specification of what they promise:

    RpcListener                                           implements AtLeastOnce
    RpcCaller                                             implements RequestReply
    RpcSystem        = RpcCaller + INSTANCE RpcListener   implements RemoteCall
    TokenSessions    = TokenService + ErrorModel + routes implements TokenLedger
    Registration     = ErrorModel + route, queue, handler implements AccountBook
    ServiceLifecycle = BusConnection + lifespan

Some invariants are stated to be proved only, most of them to say how far a
disagreement listed under *Runs* goes, or how short of it the code stops.

### RpcListener (implements AtLeastOnce)

One queue with its retry queue and DLQ, and the consumers running
`_on_message`.  The broker's part is `Publish`, `RetryExpires`, `Deliver` and
the return of unacknowledged messages (`GiveBack`).  The coroutine of each
message has a program point: `Route` is the comparison of the x-death count
with `RPC_MAX_RETRIES`, `Process` and `ProcessFails` the handler,
`FailValidation` the ValidationError branch, `MoveToDlq` and `MoveToDlqFails`
the publish to the DLQ from either place, `Ack` and `Nack` the end.
`CrashReplica` kills a replica with its handlers; `LoseConnection` takes the
channel away from handlers that go on.

* `ExclusiveDelivery`: an unacknowledged message is held by one live channel.
* `NoSilentLoss`: a message the broker forgot was applied or dead-lettered.
* `BoundedAttempts`, `DeadLetterJustified`: at most `MaxRetries` attempts plus
  one per lost channel; a valid message is buried only after all of them.
* `DeadLetterOnce`: a second copy in the DLQ needs a lost channel, or a publish
  to the DLQ that raised although the broker had taken the copy (`doubts`).
* `HealthySettles`: under fairness a healthy message is settled, although others
  fail and hold slots.  One case is left out: messages that do not validate and
  whose copy for the DLQ was refused hold every slot of every open channel for
  ever (`Clogged`).  Nothing settles such a message before its channel ends, so
  with the one slot of `issue_token` and `register` one of them stops a consumer.
* `AtLeastOnceDelivery`: refinement of `AtLeastOnce`, in which each message is
  simply sent, applied, buried and settled.

`MaxRetries` attempts are counted by an *attempt ledger* (`AttemptLedger`):
attempts made = completed retry loops + the current attempt + deliveries given
back.  It is what makes `BoundedAttempts` and `DeadLetterJustified` inductive.

`MalformedCirculates` (proved) is what becomes of a body that is not JSON: it is
never handled, never dead-lettered and never dropped, whatever the limit.

### RpcCaller (implements RequestReply)

Executions of `call_rpc` in one gateway process: `Register` stores the future
under the correlation id, `Published` and `PublishFails` end the publish,
`Resume`, `Timeout` and `Expire` end the wait, `Return` is the `finally` that
removes the entry.  `Routed` is the broker taking the request, which it may do
before the caller sees the confirm and even when the publish then fails;
`Answer` is a server's `publish_rpc_response`, `LoseReply` loses it, `OnRpcReply`
is the callback.  `IdOf` need not be injective, because
the routes pass the client's `x-request-id`.

* `OwnAnswer`: a call returns its own answer or none.
* `NoStaleFuture`: no entry outlives its call, also when ids repeat.
* `ReplyReachesCaller`: a reply that arrives while its call
  waits is given to it, also before the publisher confirm.
* `EveryCallEnds`: once the broker has confirmed its request a call ends,
  whatever is lost or never made after that.  Before, the code has no timeout:
  connecting, the look-up of the exchange and the publisher confirm take as long
  as the broker takes, and nothing is promised.
* `ImplementsRequestReply`: refinement of `RequestReply` (proved; what a run
  checks is the stronger `ImplementsRemoteCall` below).
* `AnswersMatchIds` (proved): with any ids, a call returns an answer to a request
  with its own id.  So `OwnAnswer` fails for calls that share an id and for no
  other, which `UnsharedCallsAreSafe` says of a single call.

### RpcSystem (implements RemoteCall)

One RPC from end to end.  A step is a step of the caller (`CallLocal`,
`Receive`), a step of the queue (`Handle`, `Crash`, `Disconnect`), or one of
each where the two meet at the broker: `Route` is a request taken from the
caller and put into the queue; `Tell` is `_reply`, in which a listener that has
had its effect publishes the answer before it acks; `Fail` is a handler that
raises, also in the publish of the reply, which the broker may have taken even
so.  `told` keeps `Finish` (the ack) after `Tell`.

Two clocks join caller and queue.  `Confirm` starts the timer of `wait_for` with
`RPC_TIMEOUT_MS`, `Reject` starts the TTL of the retry queue with
`RPC_RETRY_DELAY_MS`, and `Tick` advances both.  `GiveUp` needs a timer that has
run out, and a timer that is due fires before the next tick: the event loop is
assumed not to be late.  `ComeBack` may be late, never early.  `Transit`, at
least one tick, is the way from the listener to the broker and back; both
settings default to 5000 ms, so without it the two clocks would tie.

* `RetriesAreLate`: when a rejected request leaves the retry queue, the call
  that waited for it has ended.  The answers of later attempts are for nobody,
  although the attempts have their effects.
* `AnswersAreBounded`: a caller is answered at most `MaxRetries` times, and once
  more for each channel lost with its request, although a handler whose reply
  raised is run again after the broker took that reply.
* `ImplementsRemoteCall`: refinement of `RemoteCall`, in which a call succeeds
  only after its request was executed, and a call that gives up says nothing of
  its request, which is still executed or dead-lettered before it is forgotten.
* `NoStaleFuture`, `ReplyReachesCaller`, `EveryCallEnds`: those of the caller, in
  the composition.
* `RequestsSettle`: every request the broker took is settled in the end, whether
  its caller waited, timed out or failed to publish.

That the composition adds nothing to its parts is a theorem (`Composition`: it
implements `RpcCaller!Spec` and `RpcListener!Spec`), so all that is proved of the
parts holds of it.

### LoginGuard

One username, several workers, one step per Redis command: `Refuse`, `Admit`,
`Verify`, `CountFailure` (INCR), `OpenWindow` (EXPIRE), `SetBan`,
`ClearAfterBan`, `ClearAfterMatch`, `Issue`.  `Interrupt` ends a handler at any
point; keys expire by `CounterExpires` and `BanExpires`.

* `FailureBound`: between resets at most `MaxAttempts - 1 + workers + faults`
  failures are counted; TLC finds a state that reaches the bound.
* `LimitBans`: unless a handler was cut short a full counter means a ban, set
  or about to be set.
* `WindowUnlessCut`: races never leave a counter without a TTL.
* `FreshStart`: a user whose ban ends does not find a full counter.

### TokenService (implements TokenLedger)

The refresh tokens of one account.  A handler is one execution of
`refresh_token` or `logout`; a redelivered request is another handler with the
same token.  `Find` reads the committed row, `LoadAccount` is the lazy load of
the token's account, `Flush` takes the row lock, `Commit` makes the new row and
the revocation visible together, `Succeed` answers.  `Unknown`, `Outdated` and
`Spent` are the early returns.

* `Rotation`: a successor is never stored while its predecessor can be used
  (a conjunct of `IInv`, proved; `AtomicChanges` is what a run checks).
* `AnswersHold`: a token somebody was given is in the table; a token logged out
  with success is useless.
* `SpentIsRefused`: two refreshes of one token both succeed only if they
  overlap.  (They can: there is no lock on the read.  The model shows it and no
  document forbids it.)
* `HandlersEnd`: row locks never block handlers for ever.
* `AtomicChanges`: refinement of `TokenLedger`, where a rotation is one step.

What the lazy load does is a constant, `LoadOutcomes`: SQLAlchemy decides it,
not this repository.  With the loading the repository writes, it raises, and then
`RefreshesDoNothing` (proved): no refresh succeeds, and none stores or spends a
token.

### TokenSessions

`TokenService` behind the routes `/refresh` and `/logout`.  A request is one
execution of a route (`Ask`, then `Hear` or `TimeOut`); each delivery of its
message is a handler (`Start`, `Serve`, `CutShort`) with the token of the
request, and `RequestOf` says which deliveries belong to which request.  The
client sends a token it was given (`Holds`) or some other string, and chooses
the id of the RPC: a request is `shared` when other calls of the gateway, of
whatever route, bear its id too.  Then it may hear the answer to one of them
(`Hear`), as `caller_crossed` shows of `call_rpc`.  `Status` is
what the route answers: `/logout` answers 200 without looking at the RPC,
`/refresh` maps its outcome with `RouteStatus` of `ErrorModel`.  Tokens share one
lifetime, so `World` lets none expire before the token it was obtained with.

* `RefusalIsReal`: under an id of its own a request is answered 401 only for a
  token that can never be used again; a timeout, which leaves that open, has
  another status.
* `LogoutIsDone`: what the 200 of `/logout` hides, under an id of its own, is a
  timeout and nothing else: once auth_svc has answered, whatever it answered, the
  token is useless.
* `SessionSurvives`: until a logout, among the tokens that descend from a login
  one is unspent, wherever handlers are cut short.
* `SessionIsKept`: a client whose requests each had an id of their own and were
  handled once and answered holds an unspent token.  The premise is needed: after
  a timeout, an answer to somebody else, or a second delivery that spends the
  token before the first one's answer is sent, the unspent token may be one that
  the client never hears of.

Nothing is promised of what a client hears under a repeated id; that the answers
to all the others stay true is what the first two say.

### WsGateway

The endpoint coroutine of each connection (`Accept`, `Reject`, `Register`,
`Greet`, `Receive`, `Disconnected`, `IdleTimesOut`, `Breaks`, `Finally`), the
idle checker (`StartSweep`, `Spare`, `Reap`, `Drop`, `Sleep`), broadcasts, clients
that leave and a clock.  A broadcast (`StartCast`) copies the ids and sends to one
after the other: `Skip` is an id that is gone, `Write` calls `send_text`, and its
await ends in `Deliver` when the client takes the frame, or in `Unnoticed` or
`SendFails` when the socket is lost.

* `RegistryMatchesSockets`: an entry belongs to a running endpoint, and a
  connection served over an open socket has an entry.
* `BroadcastReaches`: a finished broadcast missed no open connection that was
  registered when it began.
* `SentOnce` (proved): a broadcast sends to nobody twice and to nobody who was
  not registered when it began.
* `ReapedWasOld` (proved): what the checker closes is older than the timeout, if
  not idle.
* `DeadEntriesGo`: a lost socket leaves the registry, under fairness.
* `CastsEnd`: a broadcast ends, unless one client stays connected for ever and
  never reads: the sends have no timeout, and nothing else holds them up.

### BusConnection and ServiceLifecycle

`BusConnection` has the connection of the bus as several coroutines use it:
`EnsureOpen` and `EnsureConnects` are `_ensure`; `Connected`, `ChannelOpened`
and `Subscribed` an attempt of `connect`; `AttemptIsClosed`, `AttemptFails`,
`Retry` and `DeadlinePasses` its two `except` branches, which look at the
deadline after and before the sleep; `CancelReplies`, `CloseChannel` and
`CloseConnection` are `close`.  A robust connection may be lost and restored by
aio_pika.  `ServiceLifecycle` extends it with `service_lifespan` (`phase`), the
container with its Redis client, the listeners, and the coroutines that use the
bus meanwhile: HTTP requests while the service serves, handlers as long as a
consumer of the process lives, also during the shutdown.

* `ConsumersSurvive`: until the shutdown no reconnect takes a listener, or the
  consumer of RPC replies, off the connection it was started on.
* `ServingIsComplete`: a serving service has its listeners, its Redis client
  and a channel with RPC replies.
* `ShutdownReleases`: a stored container is given back.  What `close` of the
  channel, of the connection or of Redis raises is dropped by
  `gather(return_exceptions=True)`: a resource stays open if its own close raised
  (`refused`, `"kept"`), not because another one did.  A connection opened while or
  after `close` ran stays open as well (a handler that still runs reconnects).
* `FirstConnectionServes` (proved): while the bus has opened one connection only,
  every channel a request is given has the consumer of the replies.
* `EnsureEnds`, `LifespanMoves`: `connect` and the lifespan end.

### ErrorModel and Registration (implements AccountBook)

`ErrorModel` has the mapping of error codes to HTTP statuses and what a route
makes of an answer.  `Registration` extends it with one POST end to end: the
route (`Post`, `Answered`, `Crossed`, `TimesOut`), the queue (`Deliver`, `LoseConnection`,
`Crash`), and the handler of each delivery: `CheckName`, `CheckMail`, `Insert`
(the INSERT, which waits for an uncommitted row with the same unique value),
`Commit`, `CommitRaises` (which the database may have done even so),
`DatabaseFails`, `Reply`, `Ack`.

* `UniqueAccounts`: whichever handlers race between check and insert, and
  however often a request is delivered.
* `SuccessIsStored`, `OneWinner`, `ConflictIsReal`: what 200 and 409 say is
  true, under an id of its own and whatever ids the others repeat; a client that is
  told 409 lost to another account, or, after a redelivery, to its own.
* `AccountsAreAtomic`: refinement of `AccountBook`, where an account comes into
  being in one step, for one who asked, and each client is told once: 200 if it
  has its account, 409 if its name or address is taken.  Who asks under an id that
  others use is told one thing too, which may be anything (`Mislead`).  An account
  is made by `Commit`, or by a `CommitRaises` the database did; a client is told by
  `Respond`; all else is invisible.
* `HandlersEnd`: inserts do not block each other for ever.

A request is `shared` as in `TokenSessions`.  The answer it takes may be that of
any route, with any code, so `Crossed` gives it any status the error model has.

The loser of a race between two inserts is told 500, not 409: `e.orig` is
SQLAlchemy's wrapper of the driver's error, so the test for
`UniqueViolationError` is never true.

## 3. Runs

| Run | What it shows | Instance |
|---|---|---|
| `listener_safety` | safety of the queue, refinement of `AtLeastOnce`, and a healthy message is settled beside a failing one | a healthy and an invalid message, 2 channels, prefetch 1, 2 retries, 1 lost confirm |
| `listener_malformed` | *violated*: a body that is not JSON never reaches the DLQ | a healthy and a malformed message, 2 channels, prefetch 1 |
| `rpc_system` | one RPC with both clocks: the caller's properties, how often it is answered, late retries, settling, refinement of `RemoteCall` | 1 call, 2 channels, 2 retries, 1 lost confirm, timeout = delay = 2 ticks, transit 1 |
| `caller_crossed` | *violated*: with a repeated `x-request-id` a call returns another's answer | 3 calls, 2 of them with one id |
| `login_guard` | all properties of the guard | 6 logins, one with the right password; 2 workers, limit 2, 1 fault |
| `sessions` | all properties of the token service and of its routes, and refinement of `TokenLedger` | 1 login; a refresh delivered twice, another refresh, which may share its id, a logout; 1 fault, load works or raises |
| `token_refresh` | *violated*: no refresh is ever answered | the handlers alone, no fault, load raises |
| `ws_gateway` | all properties of the WebSocket side | 2 connections, 1 event, clock to 2, timeout 1 |
| `ws_idle` | *violated*: the checker closes a connection that is sending frames | 2 connections, clock to 3 |
| `service_lifecycle` | all properties of the bus's connection and of the lifespan | the lifespan and 1 worker, 2 connections, 2 listeners, Redis |
| `bus_replies` | *violated*: after a reconnect a call publishes on a channel without a consumer of RPC replies | 1 worker |
| `registration` | all properties of registration, and refinement of `AccountBook` | 2 requests that share an address, the first delivered twice, the second may share its id |

The violated runs are disagreements between the code and its own comments or
documents; `PROJECT.json` quotes them.  Other behaviour the models show, which no
run is spent on:

* when the publish to the DLQ fails in the `except ValidationError` branch
  (`base_listener.py`), the exception leaves `_on_message` and the message
  stays unacknowledged until its channel ends, and so does its slot;
* a login handler cut short between INCR and EXPIRE leaves a failure counter
  without a TTL (`WindowUnlessCut` covers everything else);
* the connection of a failed attempt of `connect` is replaced, never closed,
  although the comment of `rabbitmq_message_bus.py:87` says that it is closed for
  the time being; what follows the comment is a sleep;
* when Redis fails while the container is created, the container is not stored
  and the lifespan closes nothing;
* a close that raises during the shutdown leaves its resource open, and
  `auth_container.py:98` drops the exception.

### Bounds, and why they are enough

* *Listener.*  A closed channel never opens again, and the last one stays open
  (`OutageAllowed`), so the number of channels bounds the outages: one is
  enough to redeliver a message while its old handler still runs.  The x-death
  count stops at `MaxRetries` (the code only compares it).  Two retries
  separate "first", "again" and "exhausted".  Prefetch 1 is what `issue_token` and
  `register` have: with two messages the one of them waits for the slot of the
  other.  `MaxDoubts` = 1 bounds the publishes to the DLQ that raise although the
  broker took the copy; one is enough for a second copy without a lost channel.
  Two messages show that one message's failure does not harm another.
* *Caller.*  In `caller_crossed` three calls let a call share its id with a
  running one beside a third.
* *End to end.* Calls with distinct ids meet in the prefetch of a channel
  (which `listener_safety` has) and in the table of futures, where every step
  is about one id, so one call shows the race of its attempts, timer and
  retries; for several calls there are the theorems. At most three answers are
  ever published, one for each of two attempts and one for the attempt a lost
  channel gives back, so `MaxAnswers` = 3 stops no handler. Timeout and delay
  are equal, as the defaults are, and two ticks let a reply arrive before, at
  and after the timeout.
* *Login.*  `MaxFaults` = 1 covers each point at which a handler is cut short.
  Five wrong attempts on two workers fill a counter of limit 2 twice.
* *Tokens.*  Two refresh requests with three deliveries and a logout allow two
  racing refreshes of one token, as two deliveries or as two requests, a refresh
  of a successor, and a logout racing each.  `MayShare` has one of the requests:
  its id may be that of any other call, whose answer is then any, while the others
  have ids of their own.  The theorems have any number of both.
* *WebSocket.*  The clock to 2 is the first instant at which the checker can
  find an entry older than the timeout of 1.  Two connections suffice for one
  to fail while another is served.
* *Lifecycle.*  Two connections are one reconnect, with a handler and the
  lifespan racing in it.  Two listeners can be split over them, or one be started
  and the other not.  When no connection is left, attempts can only fail.
* *Registration.*  Two requests with one address race; the second delivery of
  the first races its own first handler and finds its own account.  The names
  differ, so that the second check matters; a shared name goes the same way.
  `MayShare` has the second request, so the first is judged beside one that
  repeats an id.

Deadlock checking is off in all runs: every instance has finitely many
messages, calls, logins or connections and stops when they are used up.

### Fairness

Weak fairness of the steps a running coroutine takes: the event loop resumes
every coroutine that can go on, the broker delivers to a consumer with credit
and expires the retry queue's TTL, a timeout fires, a database ends
transactions.  No fairness is assumed of anything a client, a crash or a
failure does: those may happen or not.  Where a coroutine awaits the broker, Redis
or PostgreSQL and the code sets no timeout, a fair step assumes that the await ends
in a result or an exception; which of them is left open.  That is so of the
listener's publishes and acks, of the statements of a transaction, and, in
`ServiceLifecycle`, of the awaits of `connect` and `close`; there time passes too,
but nothing makes an attempt succeed or a lost connection come back.  A peer that
keeps a connection open and never answers is outside these runs.  `RpcCaller` does
without that assumption: only the steps after the publisher confirm (`Await`),
which `wait_for` bounds, are fair.  In `WsGateway` endpoints are fair in
noticing a lost socket and in their `finally`, and broadcasts in all but
`Deliver`, for which a client has to read. In `TokenService` and `Registration` a handler that waits for a row lock
is fair only in its next step, and the failure of a statement is not part of
that, so the lock must be released for it to go on. `RpcSystem` has the
fairness of its two parts and time that goes on (`WF(Tick)`): `wait_for` and
the retry TTL end only because clocks run. Delivery and the move to the DLQ
are strongly fair, because a channel that is lost in between disables them. In
`TokenSessions` only handlers are fair, not the client and its requests, and
only together: some handler goes on while not all of them wait for locks.

## 4. Theorems

Checked by TLAPS for every value of the constants, from the named assumptions
of each module.  TLC evaluates those assumptions in the runs.

| Module | Proved |
|---|---|
| `RpcListenerProofs` | types; the inductive invariant; `ExclusiveDelivery`, `NoSilentLoss`, `BoundedAttempts`, `DeadLetterJustified`; for finitely many channels `DeadLetterOnce`; implementation of `AtLeastOnce`; `MalformedCirculates` |
| `RpcCallerProofs` | types; for any ids `NoStaleFuture`, `AnswersMatchIds` and the safety of a call whose id is its own; with distinct ids the inductive invariant, `OwnAnswer`, `ReplyReachesCaller`, implementation of `RequestReply` |
| `RpcSystemProofs` | the composition implements its parts; types and the inductive invariant; `RetriesAreLate`; for finitely many channels `AnswersAreBounded`; with distinct ids implementation of `RemoteCall` and the promises of the parts |
| `LoginGuardProofs` | types; the inductive invariant; `LimitBans`, `WindowUnlessCut`, `FreshStart`, and `FailureBound` |
| `TokenServiceProofs` | types; the inductive invariant; `Rotation`, `AnswersHold`, `SpentIsRefused`; implementation of `TokenLedger`; `RefreshesDoNothing`, if the load always raises; the routes use the service as it is specified and so have its promises; their inductive invariant; `SessionSurvives`, `SessionIsKept`, `RefusalIsReal`, `LogoutIsDone` |
| `WsGatewayProofs` | types; the inductive invariant; `RegistryMatchesSockets`, `BroadcastReaches`, `SentOnce`, `ReapedWasOld` |
| `ServiceLifecycleProofs` | types; the inductive invariant; `ConsumersSurvive`, `ServingIsComplete`, `ShutdownReleases`, `FirstConnectionServes` |
| `RegistrationProofs` | types; the inductive invariant; `UniqueAccounts`, `SuccessIsStored`, `ConflictIsReal`, `OneWinner`; implementation of `AccountBook` |

The argument is the same in each: the properties alone are not inductive, so
the component states what each program point knows, and `IInv` is the
conjunction.

* *Listener.* `PhaseMeaning` says what a handler at each point implies about
  the message (a handler about to ack has applied or forwarded it), and
  `AttemptLedger` accounts for every attempt. `BurialLedger` counts copies in
  the DLQ against lost channels and lost confirms, with the handlers that may
  still add one (`Stragglers`) on the same side; counting needs finitely many
  channels.
* *End to end.*  The theorems about the parts are used as they are, by
  `Composition`.  What is new is `DelayCoversTimeout`: of a call whose request
  was rejected while it waited, less of the timer is left than of the TTL, and
  both go down together.  `AnswersAreEarned` says that an answer on its way
  belongs to a request that was executed.  `AnswerLedger` counts: answers given,
  plus the handlers that may still give one (`Speakers`), are no more than the
  attempts made, which the queue's `AttemptLedger` bounds; a handler leaves
  `Speakers` in the step in which it answers, or is rejected in it.
* *Caller.*  An entry of the table belongs to a call that is running, and a
  future holds nothing or the answer to its own call; distinctness of ids is
  used exactly where a reply meets the table.  Without it, the id is what
  remains: an entry belongs to a call with the id under which it is stored
  (`NoStaleFuture`), so a reply meets only calls of its own id.
* *Login.*  Whoever filled the counter keeps it in its hands until the ban is
  set and the counter deleted (`LimitOwner`, `ClearingIsBanned`).
  `FailureLedger` counts: without a ban each failure over the limit belongs to a
  worker that is about to set it (`Banning`) or was cut short; under a ban only
  the workers that had passed the check before it (`Racing`) still count.
  The theorems assume finitely many workers (`WorkersAssumption`).
* *Tokens.*  A handler past its look-up holds a token of the table, and only
  its own commit stores its successor (`PointMeaning`).  When the load cannot
  succeed, `Flush` is out of reach for a refresh, so only a logout writes.
* *Sessions.*  `Composition` again carries over what is proved of the service
  (`RoutesUseTheService`).  `SessionSurvives` is inductive by itself: only a
  commit takes the last unspent token away, and it stores another.  For
  `SessionIsKept`, `SessionInReach` follows that token on its way to the client:
  as long as nothing timed out, came twice or shared an id, its request still waits
  or has heard of it.  `DeliveryMeaning` says what a request that is not shared can
  have heard; of the others it says nothing, and needs nothing.
* *WebSocket.*  Whoever removes an entry has first seen, or made, its socket
  not open, and sockets never reopen (`GivenUpIsClosed`); each broadcast keeps
  a ledger of the connections it began with (`CastLedger`).  The checker
  compares an earlier reading of the clock than the one it closes at
  (`CheckerClock`), so an entry it closes can only be older than it looked.
* *Lifecycle.*  `PhaseInv` says what each point of the lifespan has achieved:
  once the container is stored there is a tag, connections are closed only
  at its end, and one that was held when `close` ran is closed, refused or
  overtaken by a later one; `BusInv` says that nothing exists before the first connection.
  `ChannelInv` says that all channels in hand belong to connections that were
  opened; when there is only one of these, a request's channel is the one with
  the tag, which `ConsumersSurvive` keeps subscribed.
* *Registration.*  A row inserted and not committed clashes with no other
  (`InsertInv`), a row belongs to a run that is past its commit (`RunInv`), and
  an answer is true from the time it is chosen until the client has it
  (`AnswerInv`).  For `AccountBook`, `PostInv` adds that nothing happens for a
  request before its POST and nothing is said before its answer.  A commit maps
  to `Create` because a row inserted is `Free` of the accounts there are, and an
  answer maps to `Confirm`, `Refuse` or `SayNothing` by `AnswerInv`, and the
  answer to another call to `Mislead`.

Only model-checked: liveness (`HealthySettles`, `EveryCallEnds`, `RequestsSettle`,
`HandlersEnd`, `DeadEntriesGo`, `CastsEnd`, `EnsureEnds`, `LifespanMoves`), which is outside the
prover's reach.  Every safety property of a passing run is a theorem.  The
inductive invariants, and the invariants marked "proved" above, were also checked
with TLC on the instances of the runs before they were proved; no run repeats
that.

## 5. State of the plan

Done: the queue and its listeners, the caller, the login guard, the tokens, the
WebSocket side, the connection and the lifespan, registration; then the
compositions `RpcSystem` and `TokenSessions`; each checked first and proved about
afterwards.  What could follow:

1. The gateway's instance of `ServiceLifecycle`: two listeners and no Redis.
   The theorems cover it; a run would cover its liveness.
2. An abstract specification of a bus that can publish and receive replies,
   which `RepliesOnChannel` says the code does not implement after a reconnect,
   and `FirstConnectionServes` that it does before.
3. Two broadcasts at once, seen from one client: the handlers of up to 128
   events run together, and nothing in the code orders their sends.

## 6. Not modelled

* The outbound WebSocket dispatcher: nothing constructs it.
* Logging, security headers, request middleware: no state.
* DTOs, settings, ORM declarations, migrations, scripts: data; their limits and
  constraints are constants or guards.
* `libs/infra/di.py`, `worker_db_utils.py`, `transactional_decorator.py`: no
  caller in the services.
* Token validation: a decoding with one branch for each exception, without state
  or await.  Its callers have its outcomes: `Accept` is followed by `Register` or
  `Reject` in `WsGateway`.  The route `/validate` adds the choice of 200 or 401.
* Readiness and liveness endpoints: they read and change nothing.
* The other commands of the Redis client: no caller in the services.
* Cryptography (bcrypt, JWT signatures): a password is right or wrong, a token
  decodes or not.
* How long things take: a timeout may fire at any moment, except in
  `WsGateway`, whose clock is needed for the idle checker, and in `RpcSystem`,
  whose clocks order a timeout and a retry.
