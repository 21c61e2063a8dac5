# Verification of go-rabbitmq

TLA+ models of the parts of `cloudresty/go-rabbitmq` whose correctness depends on the order in
which goroutines, timers, the broker and faults take their steps, TLC runs that check them on small
instances, and TLAPS proofs for every instance.

## The system

go-rabbitmq wraps `amqp091-go`. Everything runs in goroutines of one process; the broker is at the
other end of channels (in the AMQP sense) that die alone or with their connection.

| part | state | operations | hard behaviour | what makes it correct |
|---|---|---|---|---|
| **Delivery-assured publisher** (`publisher.go`, `pending_map.go`, `publisher_health.go`) | pending messages under two indexes, confirm channel generations, delivery counter, three mutexes, statistics | publish, retry, refresh of the channel, confirm and return readers, orphan sweep, timers, Close | all of them run concurrently and a channel may die between any two steps | one signal per call (an error or one callback), true outcomes, no confirm matched to the wrong message, no message forgotten |
| **Plain publishing** (`publisher.go`) | one channel, one confirmation channel | Publish, PublishBatch, waitForConfirmation, refreshChannel | confirms carry no correlation, no locks | a nil return was confirmed by the broker |
| **Client** (`client.go`) | connection, flags of `ClientState`, `connMu` | connect, monitor, reconnect, Close, getChannel | reconnection against Close, close notifications of replaced connections | Close ends, the state describes the current connection |
| **Consumer loops** (`consumer.go`) | channel, workers, `stopCh`, `consuming` | Consume (shared channel, channel per worker), ConsumeBatch, Close | channel death against worker start, Close against a new cycle | keeps consuming until told to stop, stops when told |
| **Delivery settlement** (`consumer.go`) | the settle guard of a delivery, retry headers | Ack, Nack, Reject, handleProcessingError, processBatch | handler, retry logic and user settle one delivery; duplicates on republish | settled at most once, as often retried as configured |
| **Health** (`publisher_health.go`, `consumer_health.go`, `health.go`) | counters and snapshots | Assess | snapshots of several fields | a stall is reported, an idle component is not |
| **Saga** (`saga/saga.go`) | sagas and their steps in a store | Start, step and compensation handlers, Compensate, Run | redelivered messages, failures inside handlers | a failed saga is compensated, a completed one is complete |
| **Connection pool** (`pool/pool.go`) | clients, healthy list | Get, health check, repair, Close | monitor against Close | no client outlives Close, Get returns healthy ones |
| **Shutdown** (`shutdown/shutdown.go`) | components, in-flight tracker | Register, Shutdown, signal handling | concurrent signals and calls | everything registered is closed, waiters are released |
| **Streams** (`streams/`) | producers, consumers | publish, consume, Close | creation against Close | nothing outlives Close |
| **Topology** (`topology_validation.go`) | registry, validator flags, loop | validate, recreate, background loop | Disable against the loop | what is registered exists |
| Admin, types, options, compression, encryption, protobuf, tracing, performance | - | - | no control flow between actors | not modelled |

How they interact: publishers and consumers ask the client for channels (`getChannel`, which waits for
`connMu`; the keeper's `tryGetChannel` does not wait); a lost connection closes the listeners of
every channel, which ends readers and workers; the client's monitor dials again, and publishers and
consumers replace their own channels. The saga manager uses a publisher and a consumer, the pool a
list of clients, shutdown anything with a `Close`.

## Plan

Done, in this order: the delivery-assured publisher (`ConfirmPublisher` and the contract it
implements); the client (`ClientConnection`); the consumer (`ConsumerLoop` with `ConsumerHealth`,
`DeliverySettlement`); plain publishing (`PlainPublisher`); `Saga`; the services around them
(`ConnectionPool`, `StreamHandler`, `GracefulShutdown` which composes the two, `TopologyValidator`).
Each of them but the topology has theorems.

Left:

1. A composition of the client with the publisher's keeper (`tryGetChannel`, refreshes while the
   client dials), which the two modules meet only through a refresh that fails.
2. A second `Consume` beside a loop that never heard its Close, and handlers that call `Close`.
3. `DeliveryHealth.Assess` as an operator over `ConfirmPublisher`, as `ConsumerHealth` is over `ConsumerLoop`.
4. A saga store that fails, and a cancelled context in the saga's handlers.
5. Theorems about the topology, which has no safety property yet.

## Modules

| module | what it is |
|---|---|
| `DeliveryContract` | what `PublishWithDeliveryAssurance` promises, without how: per call an answer and a number of callbacks |
| `ConfirmPublisher` | the delivery-assured publisher, action by action, with its properties |
| `PlainPublisher` | Publish, PublishBatch and PublishBatchParallel over one unlocked channel and listener |
| `ClientConnection` | the client: connection, monitor, Close, channel accessors, state snapshot |
| `ConsumerLoop` | Consume and ConsumeBatch with their workers, Close, cancel listeners |
| `ConsumerHealth` | the consumer's health record: its methods and `Assess` as operators |
| `DeliverySettlement` | one worker's handling of deliveries, and the broker's side of acks and copies |
| `Saga` | several managers, a store, two queues, one saga |
| `ConnectionPool` | the pool with its health goroutine, repairs and Close |
| `StreamHandler` | producers and consumers of one stream, and Close |
| `GracefulShutdown` | the shutdown manager, extending the two modules above, whose Close it calls |
| `TopologyValidator` | registry, validation calls and loop, with the admin calls they make |
| `...Proofs` | the theorems about the module of that name (`GracefulShutdownProofs` also about `ConnectionPool`) |
| `PublisherContractProofs` | the theorems about what `ConfirmPublisher` promises its callers, and the refinement of `DeliveryContract` |
| `MC...` | the constants' values for TLC; `MCServices` puts `GracefulShutdown` and `TopologyValidator` in one run, `MCClientAndPublisher` the client and the plain publisher |

### ConfirmPublisher

A process `<<c, r>>` runs `publishWithDeliveryAssurance`: `<<c, 0>>` is the user's own call, `<<c, r>>` with
r > 0 the goroutine `retryMessage` of the r-th automatic retry. `pc` is its place in the function, `attempt`
the round of the loop, and each attempt has a `pendingMessage` of its own (`pend[<<p, a>>]`), as in the code
(`template.attempt()`).

| in the model | in the code |
|---|---|
| `pend` | the fields of `pendingMessage`; `timer`, `grace` are its two timers, `finish` the goroutine of `finishAsync` |
| `byId`, `byTag` | the indexes of `shardedPendingMap`; a stored message's key is `<<generation, tag>>` |
| `gens` | `confirmGeneration`: `published`, `dead`, the readers, the orphans being settled; and the broker's side of the channel: what was `sent`, its `verdicts`, what it `bounced`, queued `returns`, how many verdicts were `handled` |
| `cur` | `confirmGen` and `genCounter`: the last generation installed is the current one |
| `publishMu`, `refreshMu`, `fresh` | the two mutexes, and the channel that the holder of `refreshMu` has opened |
| `callbacks`, `stats` | callbacks run per call, the totals of `DeliveryStats` (`orphaned` is `TotalOrphaned`) |
| `closed`, `closeChan` | `Close`: begun, returned; its barrier goroutine |

What is one step: everything a handler does under `pending.mu` (no handler lets go of it in between),
the check of `dead` with `Store` under `gen.mu`, what `publishTracked` does between two visible
effects. A timer expires in one step and its function runs in a later one, so `Stop` may come too
late, as with `time.AfterFunc`. The send is two steps, since the broker may answer before
`basic.publish` returns; on a dead channel it may also return nil with the frames lost. Marking a
generation dead, collecting its orphans and settling each of them are steps of their own. `inFlight` is
cleared in the same step that settles a deferred outcome; a confirm that arrives between the two
is not told apart from one that arrives before. `Finish` removes the entry and runs the callback in one
step; that step may come at any time after the outcome, and a callback that comes later still is not
told apart from it.

Left out: `rekeyPending` (the code calls the mismatch impossible while the publisher owns the channel),
`MaxConnectionRetries = 0` (retry for ever), the `PendingMessages` gauge (written from a count that may
be stale, and read by nobody), logging, metrics, tracing, compression and encryption (before the loop
that is modelled), and `p.ch`, the channel of plain publishing, which `Close` closes as well.
`AutoReconnect` is on and the client stays open; a client that is offline is a refresh that fails.

The broker answers in the order of the tags, as amqp091 delivers confirms; it may return a
mandatory message, and then acknowledges it after that; it may nack; it may never answer. A channel
may die at any step.

### ClientConnection

Connections are numbered as `connect` establishes them; `conn` is `c.conn`, `open` whether each is open,
`stateConn` the one that `state` describes. `monitor` is where `connectionMonitor` and the
`handleReconnection` it calls are: polling (`watch`), waiting out the delay, waiting for `connMu`, dialing,
in `markConnected` (the connection is recorded before the state is), counting the reconnect. `closer`
and `caller` are the calls of `Close` and of `getChannel` or `tryGetChannel`; `connMu` and `readers` the
RWMutex. Each connection has the two goroutines `markConnected` starts: `watcher` waits for its closure,
`blocks` are the notifications queued for the other, which are handled after the closure, too.

`closed` and `closeCh` are looked at without a lock: at the top of each round (`attempt`), and in the
`select` of the delay, where both cases may be ready and the delay may win although the client is closed.
Between the end of the delay and the dial nothing is looked at. `Reconnecting` is the
monitor being neither in `watch` nor ended. A Go reader does not overtake a waiting writer; in the model
it may, which only adds behaviours. Left out: several URLs (a dial that fails on all of them
is one that fails), the lazily created services, timestamps, and `AutoReconnect` off, where the
monitor does not exist.

### ConsumerLoop and ConsumerHealth

`loop` is where the goroutine that called `Consume` or `ConsumeBatch` is, `mode` how it consumes: workers
share `c.ch` and the loop subscribes again when they lose it (`shared`), each worker subscribes on a
channel of its own (`own`, `ChannelPerWorker`), or `batch`. `worker` has each worker's place and
channel, `chans` the state of every channel and whether a cancel's notice is on its way, `closer` where the
goroutine in `Close` is; from its first step to its last it holds `c.mu`. `stopCh` and `stopOnce` are two
fields that a cycle replaces one after the other with no lock: `stopClosed` and `onceDone`, reset in two
steps. Closing a channel twice is a panic of the whole program: `crashed` stops every action.

A worker's report that its channel closed is a send that is dropped if the loop is not in its `select`
(`consumer.go:686`), and it is here. `heard` remembers a Close that found the call waiting; one that falls
elsewhere may be lost (the findings), and the properties do not speak of it.

`ConsumerHealth` has the record of `consumer_health.go` as a value and each method of it as an
operator that returns the new record, used in the actions where the code calls them. `Assess` takes, beside
the record, its circumstances (how long ago, how many failures in a row), which TLC tries in every
combination. A channel that a subscription replaced may still deliver a notice of its cancellation.

The workers of a cycle are started in one step: a worker that was not started yet is one that has not run,
but to a Close that began before the loop listens, of which no property speaks. A worker that leaves its
channel records it and closes the channel in one step (`OwnLeave`): between the two only a notice of that
channel could come, and the record ignores it.

Left out: a second `Consume` or `ConsumeBatch` while the loop and the workers of a call whose stop was lost
still run, and a handler that calls `Close`, which waits for itself.

### DeliverySettlement

Messages are numbered; those a classic queue's retry publishes are copies with the same `origin`. `msg`
is the broker's view (`sent`, `ready`, `out` with the consumer, `acked`, `dropped`), `settled` the guard of
`Delivery`, `wire` the frames the library sent on each channel that the broker has not handled yet. The
worker decodes, handles, and then settles in the steps of `processMessage`, `handleProcessingError` and
`processBatch`. The handler, or a goroutine it started and left behind, may settle the delivery itself at
any time, while it is out. A channel may die between any two steps: frames on it are lost, and what was out
becomes ready again. With `ChannelPerWorker` copies are published on `c.ch` and acks sent on the worker's
channel, which die independently.

One worker is modelled: workers share nothing but the channel. Encodings are `plain`, `sealed` or
`corrupt`, which is all that decides between handling and the error path.

### PlainPublisher

Calls are made one after another (`calls`), by `PublishBatch` (`batch`) or by the goroutines of
`PublishBatchParallel` (`parallel`, with its semaphore `slots`). `ch` and `conf` are `p.ch` and
`p.config.confirmations`; `refreshChannel` writes them in two steps, `conf` first. A channel has the
messages the broker has yet to answer and the answers in the listener's buffer, which survive it. A
goroutine of `PublishBatchParallel` takes its slot before it looks at the context a second time, and gives
it back on every way out.
`TakeConfirmation` takes the oldest answer, whoever it was for, since tags are not compared. A write
that fails is assumed not to have reached the broker.

### Saga

`state` and `status` are what the store has, `queue` the two queues, `pc`, `at`, `undo` each manager's
handler, step by step between its calls of the store and the publisher. A manager's consumer wins one of
the two queues, since a `Consumer` refuses a second `Consume`. `owns` says whether the message a
manager works on is still its own: `Redeliver` (the channel dies) puts it back while the handler goes on.
`Panics` is the recovered panic, after which the message is acked. `tried` are the steps whose compensation
handler has run, whatever it returned: the code marks a step compensated in both cases. The publisher is
unconfirmed, so that a message may be lost though its publish returned nil (`CompensationLost`; a lost step
message leaves the state of a publish that fails). `Compensate` may be called in any state of the saga; calls
for a saga that has not failed count against the bound on faults. The `InMemoryStore` hands out the saga
itself, so what is read is the present state. `cfg.bound` is whether the publisher's fixed routing key
leads to the configured compensation queue, `cfg.compensation` a step without a compensation handler.

Left out: `Stop`, and `Run`'s return, after which its consumer goes on all the same; a store that
fails; a cancelled context; which of the two reasons made a step fail.

### ConnectionPool, StreamHandler, GracefulShutdown

The pool's `connections` are slots with client numbers, `open` the clients created and not closed, `up`
those that answer. The health goroutine copies the list, pings without a lock, swaps `healthyClients`, and
takes the lock for repairs, which replace one slot after the other; `Locked` is `p.mu` held by a repair or
by `Close`. `New` may fail half way. `Get` is an operator: what it may hand out.

`StreamHandler` reads `closed` in one step and uses the answer in a later one (`DeleteStream` has seen an
open handler at some time, as every handler once was open); the environment of the native client is external
and closes what was made from it.

`GracefulShutdown` extends both, so that `ComponentClosed` runs the Close of the component itself, step
by step, beside the pool's health goroutine and late stream publishers. Up to three callers (two signal
goroutines that read one channel, and a direct call) race for the `sync.Once`; the tracker's operations
start and end. `deployed` says which components the program has.

### TopologyValidator

`broker` is what exists and `registry` what was declared: a queue, its exchange with the binding, and its
dead-letter exchange. The admin calls are functions from a world to a world and a result. The background
loop has its phases and the stop channel it selects on (`Disable` closes `stopCh` and replaces it, and the
loop reads the field each time); `OnDemand` is `ValidateCompleteTopology`. Anyone may delete any part, and
the broker may be out of reach for a while; `MaxFaults` bounds both. The check of one item and its
recreation are one step. A check that fails on its channel reads as "missing" in the code (`admin.go:731`,
`748`); the model's checks are exact while the broker can be reached (`Found`): the declaration that would
follow finds the item there, and leaves it or is refused.

## Runs

| run | instance | what it asks |
|---|---|---|
| `publisher_calls` | two calls, one mandatory with an expiring timer, one attempt each after the first, two generations | type invariant, `ConfirmsMatch`, `OutcomesTrue`, `SweptClean`, `StatsConserved`, `ReadersKeepToTheirGeneration`, and the contract `KeepsContract` |
| `publisher_retry_close` | one call with one automatic retry and one extra attempt, three generations, Close at any step | `Accounted` (an accepted call always has someone who will answer it), `ClosedForGood`, `SwapsOnlyDeadChannels` (the call and the keeper both refresh), `KeepsContract` |
| `publisher_liveness` | one mandatory call, retry, expiring timers, cancellable context, two generations | `EveryCallAnswered`: the contract with its liveness |
| `publisher_default_callback` | the same with the default callback only | `Accounted` fails: a finding |
| `publisher_shared_id` | two calls that use one message ID | `KeepsContract` fails: a finding |
| `client_and_publisher` | one of: a client with three connections, one reconnect attempt per round, two calls of Close, one caller; two messages published in each mode, none or one retry, two deaths | the client's type invariant, `StateFollowsConnection`, `GaveUpMeansDown`, `BlockedByBroker`, `ClosedForGood`, `ChannelsWhileConnected`, and `Recovers` under `ClientFairness`; the publisher's `SuccessesBacked`, `SuccessIsOwn`, and `CallsReturn` under `PublisherFairness` |
| `client_close` | two connections, one Close | `CloseFinishes` fails: a finding |
| `consumer_loop` | two workers on a shared channel, one with a channel of its own, two channels each, one Close | `CyclesDoNotOverlap`, `StoppedForGood`, `CloseWaitsForWorkers`, `NeverBlamedWhileConsuming`, `HealthyMeansServed`; `ComesBack` and `StopEndsTheCall` under `FairSpec` |
| `delivery_settlement` | two messages and two copies, every configuration, one retry, four handler runs, one death | `SettledOnce`, `NotLost`, `ClassicRetriesBounded`, `PanicAcksNothing` |
| `delivery_quorum_retries` | one message, one retry, three handler runs, no death | `RetriesBounded` fails on a quorum queue: a finding |
| `saga` | three steps, two managers, one fault, with or without a compensation handler for step 2 | `UndoesOnlyWhatWasDone`, `StepsInOrder`, `EndsAfterAllHaveRun`; `SagaEnds` under `FairSpec` |
| `services` | a pool of two slots and three clients, or two publishers and a reader of a stream, shut down with one operation in flight; or a topology with one outage or deletion and one Disable | `PoolOwnsItsClients`, `CompletedMeansQuiet`; `Heals` under the loop's fairness |

**Properties.** `ConfirmsMatch`: a delivery tag finds the message the broker numbered with it.
`OutcomesTrue`: a success was acked, a nack nacked, a return returned, an orphan's answer never
received. `SweptClean`: after a dead generation's orphans were collected, no message of it is left
undecided with nobody to settle it. `StatsConserved`: published is the sum of the outcomes and the
undecided. `SwapsOnlyDeadChannels`: a hot swap never replaces a channel that works.
`ReadersKeepToTheirGeneration`: what an old channel's readers consume changes no message of another
channel (it needs different message IDs, see the findings). `ClosedForGood`: after Close's barrier no
channel is open or gets opened. `KeepsContract`: the publisher implements `DeliveryContract` (a call
that returned an error has no callback, none has two). `EveryCallAnswered`: each accepted call gets its
callback.

Of the client: `StateFollowsConnection`: `Connected` is true of the latest connection, or late by the
run of its own watcher, whatever the watchers of older connections do; `GaveUpMeansDown`,
`BlockedByBroker`: the same for the other two flags. `ClosedForGood`: nothing is opened after Close has
closed the connection, although the monitor may be past its last look at `closed`; it is the very lock
that makes Close hang (below) that ensures it, and releasing `connMu` before the wait is the mutant
that breaks it. `ChannelsWhileConnected`: no channel is handed out during a dial or after Close began.
`Recovers`: a lost connection is replaced unless the client is closed.

Of the consumer: `CyclesDoNotOverlap`: the workers of one cycle have ended while the next is prepared.
`StoppedForGood`, `StopEndsTheCall`: a Close that found the call waiting ends it for good, and the call returns.
`CloseWaitsForWorkers`: when a Close that found `Consume` waiting has waited itself, none of its workers is
left, and so no handler of theirs runs; `ConsumeBatch` is excluded, since its handler runs in its caller's
goroutine, which Close does not wait for (a finding). None of the three speaks of a Close that falls on the
replacement of the stop channel. `ComesBack`: a lost subscription is made
again. `NeverBlamedWhileConsuming` and `HealthyMeansServed`: `Assess` asks for no restart of a consumer
that consumes, and says `ok` of none that does not.

Of settlement: `SettledOnce`: one frame per delivery, or the broker closes the channel. `NotLost`: a message
is somewhere until somebody answered for it. `RetriesBounded`: failures alone make a handler run at most
`maxRetries + 1` times, as the documentation says; a quorum queue gets one run more (a finding), and
`ClassicRetriesBounded` says it of classic queues, where it holds. `PanicAcksNothing`: a batch whose handler
panicked is not acknowledged by the library.

Of plain publishing: `SuccessesBacked`: never more successes than acks. `SuccessIsOwn`: outside the
parallel mode a success is about the caller's own message, unless a wait was given up on its channel.
`CallsReturn`: every call returns, with its slot.

Of the saga: `UndoesOnlyWhatWasDone`: a compensation runs only for a step that succeeded; `StepsInOrder`, which
speaks of sagas without repeated messages; `EndsAfterAllHaveRun`: unless a message was repeated, a saga that
says it is compensated has run the compensation of every step that had succeeded, and one that says it is
completed has completed everything. Whether the compensations succeeded it does not say: the code does not
either (a finding). Compensations run in reverse order only while one manager consumes them (`Before`): with three
managers two may, and each takes the next message while the other is still undoing; the attempt to prove the
order for any number of managers showed that, since the run's two managers leave one for the compensations.
`SagaEnds`: it ends, but in the cases `Stuck` names.

Of the services: `PoolOwnsItsClients`: no client is forgotten, handed out after its Close or opened after the
pool's. `CompletedMeansQuiet`: a shutdown that reports success left nothing running of what it was given.
`Heals`: with background validation on, what is registered comes to exist for good: it asks for the names
only, of durable queues only, since the type of a recreated queue is lost (a finding).

`TypeOK` of `ConsumerLoop` and of `DeliverySettlement` are proved, and not among the runs' properties.

**Bounds.** `MaxGen` bounds the channel generations: the last one does not die, so that what waits for
a replacement gets it. Two generations let an old reader, a sweep and a new channel overlap; three let
a refresh find another refresh's channel dead again. Two calls suffice for a tag to be taken by the
wrong one, for two refreshers of one failure next to the keeper, and for a statistic to be counted
twice; more calls only repeat these pairs, and the theorems below hold for any number. `Expiring` and
`Cancellable` name the calls whose timers expire or whose context may end, `MayClose` whether Close may
be called. The runs do not look for deadlocks: a publisher whose calls are all answered has nothing
left to do.

`MaxConn` bounds the connections like `MaxGen` the generations: with three, the listeners of two
replaced connections may be late. `MaxBlocks` bounds the notifications queued per connection.

Of the consumer: two workers let one end a shared cycle under the other; one worker with a channel of its own
is enough for a late notice of its former channel, since workers with channels of their own share only the
stop channel and the record, in which each has its own entry. Two channels per pool let a dead one come back.
`delivery_settlement`: one retry and two originals let an original, its copy and another message be on the
wire together, and the death of either channel fall between them; the run's properties are proved for all
bounds. The plain publisher in `client_and_publisher`: the second message takes what the first left; the two
safety properties are proved for all bounds. `saga`: three steps let one fail with two to undo, and two
managers are the fewest that serve both queues. `services` explores one system at a time (`part`), and the
shutdown with at most one component: components meet only in the manager, which waits for each. Signals are
sent only to a program without components, where nothing but their race is left. Three clients let a repair
replace one of two; two producers let a late one be made beside the cached one. One fault of the topology
deletes any subset of it at once, and one Disable gives a second loop.

**Fairness.** The publisher's `FairSpec` gives weak fairness to the publisher's own goroutines (processes, refreshers,
keeper, readers, sweep), to expiring timers and to what they start: the Go scheduler runs every
runnable goroutine, and a timer expires. The broker, the user and the faults get none: the broker may
stay silent and a channel may die or not. The run makes one assumption on time, `LongTimeouts`: a
delivery timeout does not run out in the few instructions between arming the timer and storing the
message; a timer that did would find nothing, and would be lost. The safety runs do not assume it. The
client's `ClientFairness` gives weak fairness to its goroutines, the steps of a `Close` that has begun and of a
caller that holds the read lock; and strong fairness to a successful dial, since `Recovers` speaks of a broker
that answers at last when it is dialled for ever. Nobody has to call `Close`, and nothing has to fail.

The consumer's `FairSpec`: weak fairness to the loop, the Close that has begun, the notices and the workers
(handlers return); strong fairness to a `select` that is offered a stop again and again (Go picks at random
among the ready cases), to the return that needs `c.mu`, and to opening a channel and subscribing, which the
broker does not refuse for ever. `PublisherFairness`, of the plain publisher: weak fairness to each call,
whose waits have timeouts, and to the client's reconnection, on which unlimited retries rely. `Saga`: weak
fairness to the caller's steps and to each manager's handling of a message; `Run` is never forced, and
`SagaEnds` speaks of sagas whose queues are both consumed. The topology's loop: weak fairness to each loop's
step and to the end of an outage. Faults, deletions, signals, calls of Close and panics are never assumed.

**Findings.** (1) `retryMessage` reports a republish that failed to `options.Callback` only; with the
publisher's default callback nobody is told, against the contract in the comment of
`PublishWithDeliveryAssurance`. (2) `handleReturn` looks up messages by ID only and does not look at
`inFlight`: after a timeout the ID may be used again, and the late return of the first message settles
the second one while its send is in flight, which may then return an error as well as the callback. The
same return shows that an old reader can touch a newer channel's message, against the comment of
`confirmGeneration`. (3) `Client.Close` waits for the monitor while it holds `connMu`. If the reconnect
delay has just elapsed, `handleReconnection` is waiting for that lock and looks at nothing else: neither
goes on, and every later `getChannel`, `Ping` and `Close` waits behind them. (4) On a quorum queue
`x-delivery-count` is absent on the first delivery and 1 on the second, and `getRetryCount` takes both for the
first: the handler runs `maxRetries + 2` times, where `WithConsumerRetry` and the documentation promise the
dead-letter exchange one run earlier.

Findings without a run of their own are named in `PROJECT.json` with their lines; in brief:

- Consumer: a Close that falls on the replacement of `stopCh` and `stopOnce` is lost or makes the program
  panic later; a worker's signal before the loop's `select` is dropped, and the consumer never comes back;
  the late notice of a cancelled shared subscription marks its successor on the same channel;
  `ConsumeBatch` returns at once after an earlier stop, and leaves its channel open; Close does not wait for
  a batch handler.
- Settlement: with `ChannelPerWorker` a copy may be
  lost after its original was acked; a batch handler that returns too few errors acks the rest.
- Plain publishing: concurrent refreshes may leave `p.ch` and the listener on different channels; in
  parallel, and after a timeout, a call takes another's confirmation.
- Saga: one manager never serves both queues, so `SagaEnds` asks for two; a saga whose first step fails stays
  `compensating`; a compensation that failed counts as done, and the saga says `compensated`; one whose last
  compensation has no handler stays `failed`; a step whose next message cannot be published is the last. The
  model shows further that a panicking handler's message is acked and the saga stuck, and that a redelivered
  step may restart a compensated saga.
- Services: operations in flight are waited for after the components are closed; two goroutines wait for one
  signal; `IsShutdown` is late; a queue's dead-letter settings are dropped from the registry by its first
  validation; an exchange and a queue that are both gone are not healed by the first call; the background loop
  recreates without auto-recreation; a classic queue comes back as a quorum queue, and a transient one not at
  all; a client whose ping says "not available" is never repaired. Seen and not counted as findings: the
  health goroutine outlives a Close that hits it in a check; two consumers of a stream share one map entry; a
  dead producer stays cached; `Client.Close` never disables the validator; a component registered during a
  shutdown is never closed.

## Proofs

`ConfirmPublisherProofs` proves for all values of the constants that satisfy `ConstantsOK` and
`SentinelsOK` (any number of calls, attempts, retries and generations, message IDs equal or not):

- `TypeCorrect`: `TypeOK` always holds. By `TypeInv`: to `TypeOK` it adds that the holder of
  `refreshMu` has a generation left to install (`RoomToInstall`).
- `SwapsCorrect`: `SwapsOnlyDeadChannels`. By `SwapInv`: a return reader that ended without Close, and
  a generation marked dead, mean a closed channel (`EndedMeansClosed`); hence what a refresher wants
  replaced is closed if it is still current (`FailedMeansClosed`), and channels do not open again.
- `TagsCorrect`: `ConfirmsMatch`. It is not inductive: it needs that `publishMu` is held by exactly
  the process inside `publishTracked` (`Exclusive`), whose message has the next tag (`HolderTagged`); that the
  publisher's count and the broker's agree while the channel is open, but for the one publish whose
  frames have left (`CountsAgree`); that a stored message's tag was counted (`TagsCounted`) and it is the
  current attempt of a process that has not failed (`EntriesCurrent`); and, since a retry removes the
  entry of the attempt before it, that retries start only after a nack that decided the message
  (`NacksDecide`, `RetriesFollowNacks`). Most actions publish nothing: they are shown to be `Quiet`,
  and one lemma shows that a quiet step keeps the invariant; the seven steps that enter, refuse,
  store, send, count, fail or install have a lemma each.
- `CloseCorrect`: `ClosedForGood`. Only the current generation's channel can be open
  (`OnlyCurrentOpen`), which Close's barrier closes under `publishMu` (`ShutClosed`), and a refresh
  installs its channel only if Close has not begun.

`PublisherContractProofs` proves what the publisher promises its callers, from `DistinctIds` (the callers
give each call an ID of its own; the code asks that of messages in flight only, and an ID used again later is
what the second finding is about): `OutcomesCorrect`, `SweepCorrect`, `StatsCorrect`,
`ReadersCorrect`, `ContractKept` (`OutcomesTrue`, `SweptClean`, `StatsConserved`,
`ReadersKeepToTheirGeneration`, `KeepsContract`), and from `OwnCallback = Call` as well `CallsCorrect`
(`Accounted`). Neither hypothesis can go: `publisher_shared_id` and `publisher_default_callback` show the
promises broken without them. All six rest on one invariant, since each part needs the others:

- *where things are* (`Positions`): the tag of a publish that is over was used up (`TagUsed`), no two
  live publishes have one key (`KeysUnique`), and what the broker has at a tag is the message that was
  published with it, by a live attempt (`SentMatch`, `SentBy`);
- *channels* (`Generations`): returns come before acks, and a generation is marked dead only when
  its reader has handled every verdict that arrived;
- *messages* (`Messages`): each flag and outcome is what the broker did (`Truth`); what is undecided is
  under both indexes (`Stored`), so whoever looks finds it; what a sweep passed over is known to
  it, was left to its sender, or is confirmed and waits for its return (`Swept`, `Deferred`, `Graced`);
- *a call's processes* (`Calls`): the attempts before a running retry have passed their outcome on
  (`Chain`, `Relayed`), so only the last process of a call can run its callback, and it runs it once
  (`Callbacks`).

`StatsConserved` is inductive beside these. For the contract each step is mapped: a user's call that
fails is the contract's `Refuse`, one that returns nil its `Accept`, a finished outcome and a retry that
fails with a callback its `Callback`, the begin of Close its `Close`; every other step is a stutter.

`ClientConnectionProofs` proves for any number of connections, calls and attempts:

- `TypeCorrect`, and from the same invariant `StateCorrect`, `GaveUpCorrect`, `BlockedCorrect`
  (`StateFollowsConnection`, `GaveUpMeansDown`, `BlockedByBroker`), `CloseCorrect` (`ClosedForGood`) and
  `ChannelsCorrect` (`ChannelsWhileConnected`). The invariant: `connMu` is held by exactly the one inside
  a section it protects and excludes readers (`Exclusive`); all connections but the current one are
  closed, and that one too while it is being replaced (`OneOpen`), so no late watcher can be about the
  connection in use; once closed, either the Close that waits still holds `connMu` or the monitor has
  ended (`CloseHolds`), so no dial can begin; the state describes the current connection except
  between `c.conn` being set and the end of `markConnected` (`Described`).

`ConsumerLoopProofs` proves for any crews and channels `WellTyped`, `CyclesApart`, `StopsForGood`,
`CloseWaits`, `OkIsServed` and `NoWorkerBlamed`. The invariant `LoopInv`: after a heard Close the stop channel
stays closed while the loop listens, and the loop only goes on to its end (`StopHeard`); workers run only
where the loop waits for them, and a Close that waits keeps `consuming` from ending (`CyclesInv`); an active
subscription of the record has its worker at its deliveries (`ActiveServed`); every channel belongs to one
subscription, and outside the shared mode a notice on its way is about a channel that is not live
(`ChannelsApart`, `WorkersApart`), which is what the shared mode lacks.

`DeliverySettlementProofs` proves for any number of messages, retries and deaths `SettlesOnce`,
`LosesNothing`, `PanicIsNoAck`, `RetriesAreBounded` and `ExcessIsOneRun`. Frames on the wire are about
different deliveries that are out and settled (`OnceInv`); with a shared channel and manual acknowledgement,
unless somebody answered for the message, an ack on its way leaves a copy that no earlier frame acknowledges,
a copy on its way has an original that waits, and what the worker holds is waiting and unacknowledged
(`LossInv`). Every action is one of seven kinds of step (`StepKinds`), and the invariant is shown for the
kinds. `RetriesAreBounded` (`ClassicRetriesBounded`) and `ExcessIsOneRun` (no queue exceeds the documented
bound by more than a run) rest on another (`RetryInv`): as long as only failures cause redeliveries, one thing
at most leads to the next run of the handler, a message that waits, a requeue on its way or the worker that
has not settled its delivery (`OneAtATime`); the broker's count on a quorum queue, the copies' header on a
classic one, say how often it ran (`CountsTrue`), and never both count (`CountedOnce`).

`PlainPublisherProofs` proves `SuccessesAreBacked` and `SuccessesAreOwn` for any number of messages, retries,
slots and deaths. Successes reported and acks not yet read are tickets, and there is an injection from
tickets to acknowledged messages (`Backed`), which `SentOnce` (a message is on one channel once, and answered
once) lets the broker's answers extend. `SuccessIsOwn` needs that only one call is at work (`InTurn`), that
the listener belongs to the channel that call uses (`OneListener`), and that a channel nobody gave up on
carries at most what this call expects (`NothingLeftOver`).

`SagaProofs` proves `UndoneWasDone` for any number of steps, managers and faults: a compensation message, a
manager that handles one, and a completed status all say that the step succeeded (`QueuedDone`,
`HandledDone`, `CompletedDone`); a redelivery keeps that because a manager has one queue for good (`AtWork`).
`StepsFollow` (`StepsInOrder`) and `AllHaveRun` (`EndsAfterAllHaveRun`) need more, as long as no message is
repeated (`OrderInv`): one message at most drives the steps, queued or with one manager (`OneMessage`), and
its position says how many are completed (`Positions`); once a step has failed none is
driven any more, so that what is to be undone is settled (`OnceFailed`); what was tried, is being tried,
is queued and has yet to be published follow each other (`UndoOrder`), and every step that succeeded is
among them until its compensation has run or is given up (`Accounts`), so that the check that finds no
completed step left is right.

`GracefulShutdownProofs` proves `PoolOwnsThem` for any size of the pool: different slots hold different clients
(`SlotsDiffer`), what is open is in a slot until Close is done (`OpenInSlots`), a repair and Close exclude each
other (`ClosesInOrder`), and what a check found stays in the slots until it is used (`FoundInSlots`).
It proves that the composition implements `PoolSpec` (`ShutdownRunsPool`), gets
`ManagedPoolOwns` from it, and `CompletedIsQuiet` from the order of the shutdown (`WorkInOrder`).

Most of these invariants were checked with TLC on the instances of the runs before they were proved.

Every invariant and action property of the passing runs is thereby proved. Only model-checked: `Heals`,
`SagaEnds`, `EveryCallAnswered`, `Recovers`, `ComesBack`, `StopEndsTheCall` and `CallsReturn`, since liveness
under fairness is out of the prover's reach (so are ENABLED and induction over data).

## Not modelled

`DeliveryHealth.Assess` and the performance monitor (snapshots nobody in the library acts on), the admin calls
that keep no state, reconnect policies beyond "retry or give up" (delays), the guard of `Consume` options,
options and types, and what changes bodies only (compression, encryption, protobuf, tracing).
