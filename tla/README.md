# Verification of the order service

TLA+ models of the order service of this repository: a Go program that reads
orders from a Kafka topic, stores them in PostgreSQL and serves them over HTTP
from an LRU cache. The modules are checked by TLC on small instances; the most
important invariants are proved by TLAPS for every value of the constants.
`PROJECT.json` lists components, runs, mutants, the source lines behind every
definition, findings, hazards and theorems.

## The system

| Part | Source | State it keeps | Operations |
|---|---|---|---|
| Poll loop | `internal/consumer/consumer.go` | `isPaused`, the message being sent to `jobs`; in the client: assignment, position, paused partitions | poll, pause, resume, send to `jobs`, close |
| Workers | `internal/consumer/workers.go` | the message in hand, attempt, last error | decode, process with retries, DLQ, commit, recover |
| DLQ producer | `consumer.go`, `observability.go` | messages handed to the producer | produce, delivery report, close |
| Health checker | `internal/pkg/health/dbhealth.go` | one atomic flag | ping, apply, mark unhealthy |
| Service and cache | `internal/service/*.go` | the LRU list, map and counter | get order, process new order, preload |
| Store | `internal/store/*.go` | four tables, the connection pool | insert (one transaction), get, get latest |
| HTTP API | `internal/api/*.go` | the connections of `net/http` | order page, home page, start, shut down |
| Application | `internal/app/app.go`, `cmd/service` | the context, the wait group, the pool | build, start, shut down |
| Size calculator | `internal/pkg/sizeof` | the addresses visited in one call | size of a value |
| Producer command | `cmd/producer` | the wait group of outstanding deliveries | place, report, wait, flush |
| Lag monitor, metrics, logging, configuration, web pages | | none that another part reads | |

How they interact. The poll goroutine hands messages to the workers through the
buffered channel `jobs`. A worker calls `ProcessNewOrder`, which validates and
calls `Insert`; by the error it commits the offset, sends the message to the
DLQ and commits, or gives it up, marking the database unhealthy. The health
checker and the workers write the flag that the poll goroutine reads before
each poll. HTTP requests and the workers share the store, and requests share
the cache under its mutex. A signal cancels the one context that the poll
goroutine, the workers, their inserts and the health checker use; then the main
goroutine shuts the server down, waits for the server's and the consumer's
goroutines and closes the pool that the workers and the requests use. The
producer command is a process of its own that fills the topic.

What is hard here: workers finish out of order while a Kafka commit covers
every lower offset; rebalances and pauses change what the client delivers
while the goroutine's flag says something else; a ping result is applied after
the world has changed; a cancelled context breaks transactions half-way; the
answer to COMMIT may be lost; a crash may come between any two of these steps;
requests look up, query and insert without holding the mutex in between; a
shutdown has four parties that end in any order, one of which may never end; the
producer's two ends wait for one wait group while a third goroutine adds to it.

What makes each part correct:

- consumer: no offset is committed past a message that nobody has dealt with;
  every message is reached; `Run` returns after a cancel; the pause follows the
  database and never outlives it;
- cache: list, map and counter agree, within the caps, in order of use; what is
  cached is what is committed;
- store: an order is there entirely or not at all; the error tells the caller
  whether it may retry; every call returns;
- API: "not found" is said only of orders that are not there;
- application: a signal ends the process, and the pool is closed when nobody
  uses it any more, or Shutdown has given up waiting;
- size calculator: it ends, and returns no less than the memory an order reaches;
- producer: the wait group counts what is outstanding, and main leaves nothing
  behind.

## Modules

| Module | Models |
|---|---|
| `StoreContract` | outcomes of one `OrderStore.Insert`: error class and whether the rows are there |
| `OrderStore` | the abstract store made of those outcomes, with COMMITs in doubt |
| `DBStore` | `Insert` statement by statement over a connection pool; implements `OrderStore`, and shows readers the table of `OrderReads` |
| `DBHealth` | the health checker, the database's outages, the cancel |
| `ConsumerRun` | the abstract specification of `KafkaConsumer.Run` that `App` relies on |
| `Delivery` | the abstract specification of what happens to a message and when an offset is committed |
| `Consumer` | poll loop, workers, DLQ, end of `Run`, rebalances, restarts; extends `DBHealth` and `StoreContract`, implements `ConsumerRun` and `Delivery` |
| `App` | start and shutdown of the service, composed from `ConsumerRun`, the server, its requests and the pool |
| `Producer` | the producer command |
| `SizeOf` | the size calculator and its reference definition; used by TLC only, since it is recursive |
| `ConsumerClaims` | what comments and documents say of the consumer and the code does not do |
| `OrderReads` | the abstract specification of what clients see of the service: a table that only grows, and single reads of it |
| `LRUCache` | `lru.go` |
| `OrderService` | requests, preload and new orders over the cache and the table; extends `LRUCache` and `StoreContract`, implements `OrderReads` |
| `ConsumerProofs`, `DeliveryProofs`, `ConsumerRunProofs` | theorems about the consumer |
| `ServiceProofs`, `CacheUseProofs` | theorems about the service and its cache |
| `DBStoreProofs`, `AppProofs`, `ProducerProofs` | theorems about the store, the application, the producer command |
| `MCConsumer`, `MCOrderService`, `MCDBStore`, `MCApp` | instances for TLC |

### Consumer

A message is its partition and offset; its payload is the way the code will
classify it (malformed, invalid, refused by the schema, valid) and its UID.
`PollTop` .. `SendJob` are the poll goroutine between two points where others
can interfere: the loop head with the read of the health flag, the call of
Pause or Resume, the Poll, the blocking send. `ManageResume` takes the
assignment and resumes it in one step; the pause comes after the code's sleep,
so it is a step after the read of the flag. A rebalance is served inside Poll
and makes the client continue from the committed offset. `Take` is the receive
and the decoding, `Attempt` one turn of the retry loop (`ProcessOutcomes` is
validation and the contract of `Insert`), `ResultToCommit` and
`ResultConnFailed` are `handleProcessingResult`, `Commit` is `CommitMessage`
with its logged error. `Panic` may strike at any point of the processing when
`CanPanic` is set. The end of `Run` waits for the workers only, as the code
does. `Restart` is a crash, or the start after an end: what Kafka and the
database hold survives, the rest is lost.

`lostVia` is a history variable: it records for each message at which of four
places (`LossPoints`) the code let go of it without storing it. It guards
nothing, so it restricts no behaviour; it is what makes "not lost silently"
sayable.

`Delivery` tells the same story without goroutines and client: a message is
waiting, held, queued for the DLQ, settled or lost, and offsets are committed.
Its steps say what the consumer may do with a message: only a worker hands it to
the DLQ, what is settled is never let go, nothing goes back to waiting, and a
commit is made for a message that was dealt with and passes none that waits. A
lost message may still be settled, by a redelivery or by another message with its
UID. `Fate` is the refinement mapping; `Stop` is the end of the DLQ producer, with
the process or before it.

### Health checker

`HcPing` and `HcApply` are separate, so that a stale result can be applied. The
load of `wasHealthy` and the store after it are one step, as explained in the
module.

### Store

`DBStore` has one action per statement. PostgreSQL is modelled by what the code
relies on: uncommitted rows are invisible, the unique index makes an insert
wait for an open one of the same UID, a broken connection may leave the
transaction open for a while (`orphans`), and a COMMIT that was sent may be
applied although its answer is lost. `Contract` is the refinement mapping to
`OrderStore`; a transaction is there one step. `Blocked` are the two waits of a
call: for a connection, and for the index entry of its UID. `OrderTable` is what a
reader gets out of the four tables; `CommitsAddRows` says that it changes only as
the table of `OrderReads` does, by one whole order under a UID that had none.

`Consumer` and `OrderService` use the outcomes of `StoreContract` directly.
`OrderService` has the COMMIT that is applied after its call has returned as an
action of its own, `LateCommit`, since readers and the preload can see the
difference. `Consumer` decides it when the call returns: a worker looks at the
table only through an insert, and while the COMMIT is in doubt an insert of the
same UID waits.

### Service

A request is `Request`, `Lookup`, `Query` or `QueryFails`, `Fill`, `Finish`, with
anything in between. `table` is the result of the joins; by `AllOrNothing` of
`DBStore` an order is in it entirely or not at all. `recent` is the order of
`updated_at`, which is `NOW()`, the start of the transaction: a row that becomes
visible takes any place in it (`AddRow`). `ranking` is `recent` as Preload's query
saw it; rows may be committed while Preload inserts. `usedSince` is a history variable for the LRU property: the pairs of
UIDs of which the first was used after the last use of the second. `AnswerAtOnce` is the
home page and the answers of `orderView` that need no order. `Render` is the page, or a
500 if its template fails or the handler panics. An order's `size` is what
`SizeOf` computes for it: in the instance the sizes are those of orders with one,
two and three items (`SizesAreComputed`).

`OrderReads` has no cache: a request arrives, is answered by one read of the table
at a moment before its answer, and leaves. `ReadState` and `Shown` are the
refinement mapping: a request is pending until its answer is there, and shows
nothing before. A hit is the read; so is a query that finds nothing or fails, and,
for one that finds the row, the insert into the cache, which comes later.

### Size calculator

A Go value is a record of its kind, its type's size and its parts. The heap holds
structs and the arrays behind slices; a pointer goes to one of them, or to a field
or an element, and a struct has the address of its first field. The map `visited`,
which the Go code shares by reference, is passed on and returned. The code looks an
address up only when it follows a pointer, so a pointer into an array that a slice
also reaches makes it count the element again; an order has such a pointer, the one
of `time.Location` into its zones. The reference `DeepSize` adds up the memory
cells reachable from a value. `SizeOfCovers` compares the two over every graph of a
struct and an array of two parts each: the size is never less, and equal where
nothing is reached in two ways but by pointers to whole variables. It could be less
if a pointer to a first field came before one to its struct; no order has one, and
the property excludes it. Also left out are types whose slices or maps contain
themselves without a pointer. The calculator keeps no state, so `order_service`
evaluates it only where `App.New` finds an empty table.

### Application

`App` has the main goroutine (`New` to `Return`), the server's goroutine (`Listen`,
`Bind`, `ServeReturns`, and `Fatal`, the Fatalw that follows an error of Start some time
later), the connections and the consumer. A signal before
`Notify` kills the process, one after it is kept, further ones are swallowed, as
the channel and `signal.Notify` make it. `net/http` is external: Shutdown sets a
flag that the server and the connections look at, closes the listener, and
returns when no connection is busy or its context has ended. The consumer is
not modelled again: `App` extends `ConsumerRun`, whose three variables say whether the
context is cancelled, whether `Run` has returned and whether some worker is inside
an insert. `ImplementsConsumerRun` in `Consumer` is the refinement mapping.

### Producer command

One sender at a time: main in its loops, then the goroutine of the file. `Adding`
and `Place` are separate, so that reports and the signal come in between. `WaitStep`
is `WaitGroup.Wait` in two halves, since a waiter that was let go looks at the
counter again and panics if it has been raised. `PlaceFails` is a full queue.

## Runs

| Run | Shows |
|---|---|
| `consumer_faults` | two workers, two attempts, an outage, a cancel and a crash anywhere, a buffer of two: `NoSilentLoss`, the inductive invariant `DeliveryInv`, `NoSelfConflict`, refinement of `ConsumerRun` and of `Delivery` |
| `consumer_rebalance` | two partitions moved around, panics, refused and invalid orders: `TypeOK`, `PauseFlagsAgree`, `CommitOnlyAfterHandling` |
| `consumer_live` | `ShutdownTerminates`, `EveryMessageReached`, `ResumesAfterOutage`, `OutageNoticed` |
| `order_service` | two requests, four orders, three UIDs, a cache of two entries, COMMITs applied late: the cache and answer properties, refinement of `OrderReads`; `SizeOfCovers` |
| `db_store` | three callers, two connections: the inductive invariant `StoreInv`, `AllOrNothing`, `NoCircularWait`, `InsertReturns`, refinement of `OrderStore`, `CommitsAddRows` |
| `app_shutdown` | a signal at any point, two connections whose handlers may hang: the inductive invariant `ShutdownInv`, `WorkersSpared`, `RequestsSpared`, `ShutdownCompletes`, `SignalEndsProcess` |
| `producer` | four messages, of which any are refused, fail or stay unread, and a signal: `CounterExact`, `MainLeavesNothing`, `ProducerEnds` |
| `claim_*` | counterexamples to five statements of comments, documents and messages, below |

Bounds. Two messages of one partition, two workers and a buffer of two are
enough for a commit to overtake a message that is held, queued ahead or being sent;
in `consumer_faults` the second one is undecodable, so that it is committed while
the first is retried, given up or delivered again;
two partitions for an assignment that changes while another stays. One outage,
one restart and one or two rebalances (the first of which is the initial
assignment) let each be combined with everything else; two attempts let a retry
follow a broken call. `MaxOutages`, `MaxRebalances` and `MaxRestarts` bound the
environment only, and the theorems do not depend on their values. For the cache
a third UID forces evictions, and a second, larger order under a known UID tries the
unchecked size. In `db_store` three orders share a UID: two the schema accepts, with one item and
with two, so that one is committed while the other waits for the index entry,
and one it refuses after its first row; one connection is missing for three
callers. In
`app_shutdown` one connection may hang while the other begins a new request. In
`producer` two messages of each loop let a message be placed while another is
reported on, in either loop. Workers and
requests are interchangeable, and symmetry is used in the safety runs.

Fairness. Each goroutine keeps running (weak fairness of its steps): Go's
scheduler is preemptive. Strong fairness is assumed where the code only retries:
Resume, tried in each round, succeeds in the end, and a Poll that could deliver
again and again does (`consumer_live`); PostgreSQL's lock queue is first come,
first served, `database/sql` gives a free connection to a waiter it picks at random,
so that none is passed over for ever but with probability zero, and the server
ends an abandoned transaction in the end (`db_store`). In `app_shutdown` an insert ends and the consumer returns once it is
cancelled (strong fairness of `ReturnRun`; `ShutdownTerminates` of `Consumer` is what
justifies it), and nothing is assumed of handlers: the code gives them no time
limit. In `producer` Kafka reports on every message it took, after its
delivery timeout at the latest. Nothing is assumed of outages, cancels, rebalances, restarts or
errors. `EveryMessageReached` and the two health properties are conditional on
the database and the assignment becoming stable.

Every property of a passing run has a mutant, a changed definition that a
plausible mistake in the code corresponds to, for which TLC finds the property
violated.

### Findings

- `claim_resend`: a message given up on a connection error is not resent once a
  later message of its partition is committed (`workers.go:172`).
- `claim_in_flight`: a shutdown does not finish messages in flight; it cancels
  their inserts (`workers.go:112`).
- `claim_dlq`: a message that could not be put into the DLQ is committed all
  the same (`workers.go:217`).
- `claim_outage`: in an outage a valid order may be sent to the DLQ and
  committed, since not every connection error is recognised (`errors.go:34`).
- `claim_signal`: a signal to the producer command may end in a panic instead of
  a flush: the sender is not stopped, and reuses the wait group that the signal
  goroutine is being let go from (`cmd/producer/main.go:78`).

Noticed beside: the comment of `CachingOrderService.ProcessNewOrder` says that a
new order is added to the cache on success, and the code that did so is
commented out (`cache.go:63`); `SetMaxOpenConns` and `SetMaxIdleConns` get each
other's numbers (`app.go:54`); the server's time limits are read from
`read_timeout_s`, `write_timeout_s` and `idle_timeout_s`, but documented and given
defaults as `read_timeout` and so on, so they are never set, and the DLQ's
`delivery_timeout` and `linger` of the example file are not read either
(`config.go:24`, `config.go:99`).

## Proofs

`ConsumerProofs` proves, for any partitions, log, workers, bounds and any buffer of
at least one message (the default is 8; an unbuffered channel is not covered):

- `TypeCorrect`: `Spec => []TypeOK`;
- `NoSilentLossHolds` and `CommitOnlyAfterHandlingHolds`, both under
  `MaxRetries > 0`: with `max_retries` 0 the code commits a message it never
  processed, and both are false;
- `DeliveryInvHolds`, the invariant behind the two, under the same assumption;
- `PauseFlagsAgreeHolds`.

`NoSilentLoss` is not inductive: `Commit` moves the offset to just above the
message a worker holds, so one must know that everything below that message is
accounted for. `DeliveryInv` therefore follows a message on its way: what lies
below the client's position is accounted for, queued or being sent
(`ReadAccounted`); what lies below the message being sent is accounted for or
queued (`SendInOrder`); what lies below a queued message is accounted for or
queued ahead of it (`JobsInOrder`), because the channel is first in, first out;
so what lies below a message that reaches a worker is accounted for
(`HeldInOrder`), and stays so, because settled messages stay settled and a held
one is let go only as settled or at a loss point. A rebalance sets the position
back to the committed offset, where `NoSilentLoss` itself is the hypothesis.

`DeliveryProofs` proves, for the same constants:

- `DeliveryRefined`, under `MaxRetries > 0`: `Consumer` implements `Delivery`. Given
  `DeliveryInv` each step of the consumer is mapped to one abstract step or to
  none: polling in a pause and giving up on a connection error to `LetGo`, a receive
  to `TakeUp`, an attempt and a delivery report to `Settle`, `sendToDLQ` to
  `HandToDLQ` or `LetGo`, the end of the DLQ producer and a restart to `Stop`, a
  commit to `CommitUpTo`, whose guard is what `HeldInOrder` and
  `CommitOnlyAfterHandling` say of a worker at its commit.
- `NoSelfConflictHolds`, for any `MaxRetries`. That an attempt finds no row of its own
  is not inductive. `OnceInv` adds, for a process that has joined its group once,
  that a message which was read lies below the client's position and is in one
  place only (being sent, queued, or with one worker), and that the order of a
  message which was not read, or whose processing has not ended, is not stored. An
  attempt that stores the order ends the loop, because the one error that is
  retried, `ErrConnectionFailed`, is returned only if nothing was committed
  (`FreshOutcomes`; of `DBStore` this is `StoreContractHolds`). `UniqueUids` is a
  hypothesis of the property: with two messages of one UID `ErrAlreadyExists` is
  the right answer.

`ServiceProofs` proves, for any orders, requests and caps (`entry_amount_cap` not
negative):

- `LRUConsistent`: `lru.go` alone keeps list, map and counter consistent and
  within the cap (`MoveFacts`, `PushFacts`, `ReplaceFacts` and `EvictFacts` say
  what its list operations do);
- `CacheCoherentHolds`, `EntrySizeBoundedHolds`, `AnswersMatchStoreHolds` and
  `CacheConsistentHolds` from `ServiceInv`: rows are never changed once there, so
  what a request or the preload has read stays true until it is used. The size
  bound is a consequence: an order inserted under a known key is the row, and
  so is the cached one.

`CacheUseProofs` proves, for the same constants:

- `RecencyKeptHolds`. The list is sorted by the last use because each operation of
  `lru.go` that records a use leaves the used key in front and the others in the
  order they had (`MoveOrder`, `PushOrder`), and eviction cuts the list at its back
  (`PrefixOrder`). `CacheConsistent`, by which the keys of the list are distinct, is
  needed for the move.
- `PreloadKeepsLatestHolds`, from `PreloadProgress`: while Preload runs nobody else
  uses the cache, what it has still to insert are the last ones of the latest
  orders, and there are no more entries than it has inserted, so that with
  `preload_size` within the cap nothing is evicted (`InsertAdds`). Rows committed
  meanwhile do not disturb it: they change no row there is (`GrowProgress`).
- `ServiceTypeCorrect`: `OrderService`'s `TypeOK`.
- `OrderReadsHolds`: `OrderService` implements `OrderReads`, so that a client cannot
  tell the cache from the table. A hit is a read of the table because of
  `CacheCoherent`; what a query has read is still the row when it has been cached
  because rows are only added (`AddRowFacts`, `NewRow`). All the rest, evictions and the
  preload included, maps to no step, a restart to `CutOff`.

`ConsumerRunProofs` proves `RunContract`: `Consumer` implements `ConsumerRun`, under
`Workers # {}`. With `worker_count` 0 `Run` returns at once, before any cancel. The
invariant behind it says that when `Run` is past its wait every worker has left,
that a worker leaves only after a cancel, and that one that has left holds no
message, so that none is inside an insert.

`AppProofs` proves `ShutdownInvHolds`, `WorkersSparedHolds` and `RequestsSparedHolds` for
any set of connections. `ShutdownInv` carries what each
wait has established past the later ones: after Shutdown the listener is closed,
and unless it timed out every connection is closed and none can be opened; after
`wg.Wait` both goroutines are done. Together with `RunContract` this says of the
whole program that no worker uses a closed pool.

`ProducerProofs` proves `ProducerTypeCorrect` (the counter of the wait group never goes
below zero), `CounterExactHolds` and `MainLeavesNothingHolds` for any number of messages. `ProducerInv` adds that nobody adds to the counter once main
has passed its wait.

`DBStoreProofs` proves, for any finite set of callers, any orders and any pool of at
least one connection (0, which means no limit, is not covered):

- `StoreInvHolds` and `AllOrNothingHolds`;
- `StoreContractHolds`: `DBStore` implements `OrderStore`;
- `NoCircularWaitHolds`;
- `CommitsAddRowsHolds`.

`AllOrNothing` is not inductive: a COMMIT publishes what a transaction has written,
so `StoreInv` says, for each point of `Insert`, exactly which rows that is
(`WrittenSoFar`) and that an abandoned transaction whose COMMIT was sent has them
all (`OrphanSound`). That a UID stays unique rests on `UidsHeldOnce`: of the committed
orders and the open transactions, at most one has it, because an insert waits for
the open ones before it looks at the committed ones. For the refinement the same
facts show that COMMIT, answered or not, is the one step that takes effect, and
that a call that returned `ErrConnectionFailed` or `ErrAlreadyExists` has left
nothing that could still be committed.

`NoCircularWait` holds because the two waits are taken in one order. A transaction
that holds the index entry of a UID is past its only wait for one (`HolderRuns`,
`UidWaitsForHolder`); a call that waits for the pool waits for calls that have a
connection, of which `busy` is the number by `StoreInv` (`PoolWaitsForConnected`), and
each of these runs or waits for such a holder. It is the safety half of `InsertReturns`,
for any pool. `CommitsAddRows` follows from the refinement: a step of `OrderStore` adds
at most one stored order (`ContractAddsOne`), the only one of its UID by `AllOrNothing`
(`TheOnlyOne`). With `OrderReadsHolds` it closes the argument for the whole read path:
transactions give readers the table that `OrderService` takes for granted.

Only model-checked: liveness (`ShutdownTerminates`, `EveryMessageReached`,
`ResumesAfterOutage`, `OutageNoticed`, `InsertReturns`, `ShutdownCompletes`, `SignalEndsProcess`,
`ProducerEnds`), which is out of the prover's reach; `SizeOfCovers`, whose operators are recursive.

## Not modelled

Times (back-off, intervals, timeouts) are arbitrary delays. Left out, for the
reasons `PROJECT.json` gives: a call of the Kafka client after or during its
Close, whose effect only the client library knows; the lag monitor, metrics and
logging, which nothing reads; the validation rules, which are tags of a
third-party validator; what templates contain; reading the configuration, whose values are
the constants.

## Plan

Done: `DBHealth`, `StoreContract`, `Consumer` with its claims and proofs; `LRUCache`,
`OrderService` and proofs; `OrderStore`, `DBStore` and proofs; `ConsumerRun`, `App` and
proofs; `Producer` and proofs; `SizeOf`; `Delivery` and the proof that `Consumer` implements
it; `OrderReads`, the proof that `OrderService` implements it and that `DBStore` provides its
table. Every safety property of a run is proved, but for `SizeOfCovers`.

Left: a COMMIT applied late in `Consumer`, where only the moment at which a message
counts as settled would change; the lag computation, whose result nothing reads.
