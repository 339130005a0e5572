# Specifications of the market data pipeline and the fraud detector

TLA+ specifications of this repository's own logic, TLC runs that check them on
small instances, and TLAPS proofs of the properties that matter most.

The repository holds two programs. `src/data_ingestion` keeps a WebSocket to the
Upbit exchange open, turns its frames into protobuf messages and publishes them
to Kafka, all in one asyncio event loop. `src/pyflink_examples/fraud_detection`
is a Flink job around one keyed process function.

Paths below are relative to the repository unless they end in `.tla` or `.cfg`.

## Inventory

| Component | State | Operations | What makes it correct |
|---|---|---|---|
| `ConnectionState` (`domain/models/connection_state.py`) | none: five states and a transition matrix | `is_valid_transition`, `validate_transition` | callers stay inside the matrix |
| `BaseWebSocketConnector` (`infrastructure/connectors/base_websocket.py`) | `_state`, `_websocket`, `_reconnect_attempts`, `_connect_lock`, `_connecting_task` | `connect`, `disconnect`, `stream_market_data`, `_handle_connection_closed`, `_cleanup` | one attempt at a time, a lock that is always released, a bounded reconnection, one socket |
| `UpbitWebSocketConnector` (`upbit_connector.py`) | `_subscriptions` | `_send_subscription_message`, `subscribe`, `_parse_message`, `_convert_to_market_data_messages` | whatever was subscribed is subscribed again, once, on every connection |
| `MarketDataMessage`, `ExchangeConfig`, `create_upbit_config` | immutable values | constructor, `code`, `validate` | codes are normalised once; published messages obey the rules |
| `IngestionService` (`application/services/ingestion_service.py`) | `_running`, `_lock`, `_background_task`, `_consecutive_failures` | `start`, `stop`, `_consume_and_publish`, the protobuf conversion | one loop, ended and flushed by `stop` |
| `stream_market_data` (`application/use_cases`) | its position | validate, start, sleep, stop | the process ends clean |
| `protobuf_mapper` (`infrastructure/serialization`) | none | `json_to_trade_proto`, `json_to_orderbook_proto` | a faithful conversion |
| `KafkaProducerAdapter` (`infrastructure/kafka/kafka_producer.py`) | `_producer` and librdkafka's queue | `publish` with retries, `flush`, `close` | `publish` returns for what was produced, once |
| `FraudDetector` (`pyflink_examples/fraud_detection`) | `flag_state`, `timer_state`, Flink's timers | `process_element`, `on_timer`, `_clean_up` | an alert for a large transaction within a minute of a small one, and for nothing else |
| Fraud job (`fraud_detection/job.py`) | the position in its collection, a detector per key | source, `key_by`, `process`, `print` | accounts do not mix; nothing is left at the end |
| Examples, scripts, generated code | | | not modelled, see below |

How they interact: the use case builds a connector and a publisher and gives
them to the service. The service's background task iterates over the connector's
stream; the stream calls `connect`, which takes the lock, runs the subclass's
`_send_subscription_message` and may be joined or waited for by other tasks; a
lost connection is handled inside the stream, without the lock. Each message
goes through the filter and the conversion to `publish`, whose failures the
service counts.

What is hard here: every `await` is a point where another task may act. The
state is read before and used after an await in `connect` (joining an attempt),
in the reconnection (which sleeps), in `stop` (which waits for a loop with the
lock released) and in `publish` (which sleeps between retries). Any await may be
cancelled, and `CancelledError` passes every `except Exception`. In the fraud
detector it is the order of elements, watermarks and timers. `PROJECT.json`
lists these as hazards, at their lines.

## Modules

| Module | Models | Grain |
|---|---|---|
| `ConnectionState` | the states and the matrix | constants |
| `ConnectionLifecycle` | the abstract promise of a connector: one flight, CONNECTED only from a flight | specification that `BaseWebSocket` implements |
| `BaseWebSocket` | connector, lock, tasks, sockets | one action from one await, or one call into another method, to the next |
| `UpbitConnector` | the subscription registry over an abstract socket: one attempt at a time, which may end anywhere | specification that `UpbitOverWebSocket` implements; one action per send |
| `UpbitOverWebSocket` | the connector as it runs: `BaseWebSocket` extended, with the registry of `UpbitConnector` (INSTANCE) | as `BaseWebSocket`, an attempt's sends one by one |
| `MarketMessages` | the conversion of one frame, and the mapper beside it | operators, no state |
| `IngestionService` | `start`, `stop` and loops over an abstract connector and publisher | one action per await |
| `MessagePublisher` | the abstract promise of a publisher: a message is taken or refused, at one moment | specification that `KafkaProducer` implements |
| `KafkaProducer` | publishers, librdkafka's queue, `flush`, `close` | one action per attempt |
| `StreamMarketData` | the process of the use case: `IngestionService` (INSTANCE, one caller, one loop), `KafkaProducer` as the publisher of that loop, `MarketMessages` for its frames | as its parts |
| `FraudDetector` | one account, its timers and the watermark | one action per element, watermark or passing of time |
| `FraudJob` | the job: a collection read in order, one `FraudDetector` (INSTANCE) for each account | one action per element, and the end of the input |
| `*_proofs` | theorems, one module for each component | |
| `MC*` | instances for TLC | |

State and actions against the code:

- `BaseWebSocket`. The variables carry the names of the attributes; `running`,
  `pc`, `awaits` and `outcome` are the event loop. A task keeps control
  (`running = t`) until it awaits; the labels it stops at meanwhile are not seen
  by others, so the code between two awaits is atomic although the model splits
  it by method. `Connect`, `ConnBody`, `OpenSucceeds`, `SubscribeSucceeds`,
  `ConnFail`, `LeaveConnect` are `connect()`; `DiscBody`, `DiscClosed` are
  `disconnect()`; `Loop`, `Receive`, `RecvRaises` are the stream; `Handler`,
  `Retry`, `BackoffEnds`, `RetryFailed`, `GiveUp` the reconnection. A task that
  subscribes awaits the socket it opened, which another may close meanwhile:
  `SubscribeSucceeds` needs it open. `Cancel` is `Task.cancel` at any await,
  `CancelQueued` in the lock's queue. `asyncio.Lock` is a FIFO queue.
- `UpbitConnector`. `subscriptions` is the dict in insertion order. An attempt
  begins with `SendAll` and seeds (`TradeSeeded`, `OrderbookSeeded`) or resends
  (`ResendNext`), and ends with all sent or with `SendingEnds`: a send raises,
  the attempt is cancelled, its socket is dropped, or `Subscribe` added to the
  dict while the attempt iterates over it, which Python answers with
  RuntimeError. What was sent on a socket is forgotten with it (`SocketLost`).
  A `subscribe()` ends with its send (`SubscribeSent`), with the socket, or
  because its task is cancelled in the send (`SubscribeCancelled`): the entry
  stays in the dict, may or may not have reached the exchange, and nothing sends
  it before the next connection. `abandoned` remembers such tickets until then.
- `UpbitOverWebSocket`. `Opened`, `SendsNext`, `Subscribed` and `SendingFails`
  are the steps of an attempt's task with what they do to the registry;
  `Parsed` is `_parse_message` on a frame of the stream; every other step of
  `BaseWebSocket` does to the registry only what it does to the socket
  (`Follow`). `Subscribe` is `subscribe()` by any task, which may be cancelled
  like the others.
- `IngestionService`. `loop[i]` is the i-th background task; only the last is
  `_background_task`. `StopLocked` releases the lock before `LoopEnded` or
  `StopTimesOut`, so a `start()` may run in between. The consumption loop reads
  `self._connector.config`, an attribute the port and `BaseWebSocketConnector`
  do not have and the connectors of the tests have: `connectorHasConfig` is
  either. Without it the loop raises on its first message.
- `StreamMarketData`. `Validate`, `Start`, `Leave`, `Stop` are the use case and
  `Interrupt` its cancellation, once: asleep, or in `start()`, where a cancelled
  `connect()` leaves its socket open if it had one (`socketLeft`;
  `base_websocket.py:126-153`, as `Cancel` of `BaseWebSocket` has it) and `stop()`
  finds nothing to stop. `Deliver(frame)` is a frame on its way through
  parser, converter and filter; it makes `message` and calls the adapter's
  `publish`. `Publish` is a step of that call and, when the call ends, the
  loop's answer to how it ended; `CancelLoop` cancels it in its sleep.
  `FlushAdapter` is the flush of `stop`. The use case never closes its adapter:
  `AdapterChanges` closes it at any time all the same, as the owner of a shared
  adapter would, so that a flush and a publish that meet a closed adapter are
  seen too. The use case builds an `UpbitWebSocketConnector`
  (`stream_market_data.py:57`), which has no `config`: `UseCaseSpec` is the process
  over that one, whose loop never publishes anything. `ProcessSpec` is over either,
  so that what the pipeline would publish can be checked with a connector like
  that of the service's tests. A JSON object is a function from the keys it has
  to values, so `dict.get` is `Get`.
- `KafkaProducer`. Only the sleep between attempts gives other tasks a turn;
  `produce`, `poll` and `flush` block the loop. `Answer` is the broker, in any
  order.
- `FraudDetector`. Flink's timers are a set of times; a watermark fires all due.
- `FraudJob`. `Process` gives an element to the detector of `KeyOf` it and
  prints the alert. The job assigns no timestamps and no watermarks, so the one
  watermark is the one Flink sends when a bounded input ends, and no timer fires
  earlier. `AlertsOfEachAccount` therefore leaves open whether a large
  transaction long after a small one is printed, and `AlertsWithinMinute` says
  what `docs/fraud_detection_guide.md:111` says of it.

## Runs

| Run | Expect | Shows | Instance and why it is enough |
|---|---|---|---|
| `ws_safety` | pass | lock, flight marker, queue, no cycle of awaits, transitions on the failure path, the stream's socket, refinement of `ConnectionLifecycle` | two callers and the stream, all cancellable, two sockets, limit 2: a holder, a waiter and a third that joins; an attempt that fails, is retried and given up |
| `ws_liveness` | pass | `disconnect()` comes back; a loss is resolved | the same tasks, one socket, limit 1, no symmetry, no cancellation |
| `connector` | pass | while CONNECTED every subscription is on the socket or on its way, unless its `subscribe()` was cancelled on this socket (`ServedWhenConnected`), once (`SentOncePerSocket`); refinement of `UpbitConnector` | a caller, the stream and a subscriber, all cancellable, two sockets, limit 1, a registry of up to three: longer than the seeds, and growing while it is resent |
| `service` | pass | `NoOrphanLoop`, `FlushAfterLoop`, `FailuresBounded`, `StopReturns` | two callers, two loops, limit 2 (the code's is 10): a stop that waits while a start makes a new loop, and loops that share the counter |
| `stream` | pass | `PublishedAsMapped`, `OnlyValidPublished`; `FailuresInARow`: the service's counter is what the adapter did; `AcceptedOnce`; refinement of `MessagePublisher`; `NothingUnsentAtEnd`, `QuietAtEnd`; `InterruptEnds`, `PublishEnds` | six requests (empty, three cases of a KRW code, another market, both); trades and books with every combination of a missing, null, zero, textual, past or future time, and one frame of each other oddity; three messages, a queue of one, two attempts, two failures: the queue is full whenever it holds anything, and the loop can count, reset and give up |
| `fraud` | pass | `FlagExpires`, `TimersDue`, `AlertsSound`; `FreshFraudAlerts`: a large transaction right after a small one is alerted while all small ones are recent | four transactions over two minutes of two units: two small ones, a stale timer, and a large one |
| `fraud_job` | pass | `AlertsOfEachAccount`: only founded alerts, every certain one, once and in order; `SampleAlerts`, `NothingLeftInState` | the sample data of the job, and every collection of up to three transactions of two accounts, within a minute or further apart |
| `ws_reconnect` | violation | the reconnection takes down a connection made while it slept and opens a second socket | |
| `upbit_seed` | violation | a first attempt that fails after the trade subscription is stored never subscribes to order books | |
| `service_stop` | violation | `stop()` re-raises the loop's exception and neither flushes nor disconnects | |
| `fraud_missed` | violation | the timer of an earlier small transaction clears the flag of a later one | |
| `fraud_minute` | violation | the job alerts a large transaction however long after a small one | the collections of `fraud_job` of up to two transactions |

The five violations are disagreements with what the repository says of itself;
`PROJECT.json` quotes the lines under `findings`. The other properties hold. The
hazards of `PROJECT.json` whose note says so name behaviours that are reachable
in the models and worth knowing, but have no run, because the texts only give an
example, disagree with each other or promise nothing:

- a `connect()` that joins a failed attempt and returns, and a `disconnect()`
  that raises after a cancelled `connect()`, against examples of the port;
- a `start()` cancelled in `connect()` whose socket stays open, which `stop()`
  does not close (`socketLeft`);
- a use case that sleeps on after its loop ended; and, because its connector has
  no `config`, one whose loop always does, so that nothing is ever published;
- order books without levels: `ingestion_service.py:298` reads them from `asks` and
  `bids`, keys no frame of Upbit has, where `protobuf_mapper` and
  `src/proto/market_data.proto:38` say `orderbook_units`. `PublishedAsMapped`
  excepts the levels. The use case's own loop never gets that far;
- a medium transaction between a small and a large one: step 3 of the docstring
  of `process_element` (`fraud_detector.py:73`) has it start over, the condition at
  line 113 and the comment above it keep the flag. `PassOther` is the code;
  no property that passes says whether the large one is alerted.

`ReadsOwnSocket` is about the runs in which no task was cancelled. With a
cancellation it does not hold: a cancelled attempt leaves its socket open, a
stream that had joined an earlier attempt may be reading it, and the next
attempt puts another socket in its place without closing it. That takes three
callers, of whom one is cancelled (TLC then finds it after 19 steps), and
`ws_safety` has two; with the hypothesis the proof covers any number.

The bounds: `MaxStarts`, `MaxSubscriptions`, `MaxMessages`, `MaxTransactions`,
`MaxTime` limit how often the environment acts, never what the code does;
`AttemptCap` saturates a counter that the code lets grow when there is no limit.
`StreamMarketData` is interrupted once. Deadlock is not checked where the system
ends by itself (`stream`).

Symmetry is used in the safety runs of the connector only, over callers and
sockets that are alike.

## Fairness

- `BaseWebSocket`: strong fairness of each task's step. A step is enabled only
  while no other task has control, so it is enabled again and again rather than
  continuously, and asyncio runs ready tasks in turn. Opening, closing and
  sending end, because `websockets` gives them timeouts; `recv()` on a closed
  socket raises. Nobody has to call, cancel or send anything.
- `IngestionService`: strong fairness of the steps of `start` and `stop`, whose
  waits end: the lock is handed over in turn and `wait_for` has a timeout. The
  loop is not assumed to make progress.
- `StreamMarketData`: the same of the use case's own steps, and weak fairness of
  a `publish()` that is under way: its attempts do not wait and its sleep ends.
  The broker need never answer, and frames need never come.
- `KafkaProducer` states the fairness of its publishers for an adapter on its
  own (`FairSpec`); it is checked as part of `StreamMarketData`.
- `FraudDetector` and `FraudJob` promise nothing under fairness.

## Proofs

All theorems are about the specification without fairness, for every value of
the constants that satisfies the modules' named assumptions (distinct task and
socket identities, positive limits, at least one market configured, well-formed
collections; for the frames of `StreamMarketData`, that a time is a number, a
text or null, and that these are told apart). Every invariant and action
property that a passing run checks is stated by a theorem.

`BaseWebSocket_proofs`:

- `TypeCorrect`: `TypeOK`, with one lemma per move of the event loop (`Move`,
  `Continue`, `Suspend`, `Finish`) and one step per action.
- `LockInvariant`: none of `LockDiscipline`, `SingleFlight`,
  `NoFlightWhileConnected` is inductive alone. Whether a task may clear the
  marker depends on its holding the lock, and that CONNECTED has no flight
  depends on nobody else being inside the section that makes it. Their
  conjunction with the types, `LockInv`, is: a task in its critical section is
  the only one there, it alone changes the marker, and the step that enters
  CONNECTED is the step in which it leaves. From it follow `LockSafe`,
  `SingleFlightSafe`, `ConnectedIsQuiet` and `DoubleCheckIsDead`.
- `AwaitsAcyclic`: no set of tasks awaits its own members. A task starts to
  await only the one in flight, which awaits nobody (`LockInv`), so a new edge
  never closes a cycle.
- `AttemptInvariant`: `AttemptInv` adds to `LockInv` in which states an attempt
  finds the connector. The stream's reconnection changes the state without the
  lock, so that is not the attempt's own doing: it is CONNECTING, or FAILED once
  the stream gave up, and then the stream is over. `FailuresAreLegal` and the
  refinement `LifecycleImplemented` (`Spec => ImplementsLifecycle`) follow.
- `QueueIsExact`: `LockQueueExact` is inductive with the types; the lemmas say
  what joining, leaving and being cancelled do to a sequence without repetition.
- `StreamReadsOwnSocket`: `SocketInv` adds where an open socket of the
  connector comes from (`Accounted`): a connection that is up, an attempt that
  will keep or close it, or the stream on its way to close or replace it. No
  attempt can then overwrite the socket the stream reads.

`UpbitConnector_proofs`: `RegistryInv` says which tickets the attempt still has
to send, that every other is on the socket or being sent by its `subscribe()`
(`Covered`), and that these are disjoint (`Apart`); it is needed because
`RestoredWhenUp` and `SentOnce` say nothing of an attempt that is half done.
What a cancelled `subscribe()` left is `abandoned`, and counts as covered on its
own socket only, since every new socket starts with none.
`RegistryRestored` and `RegistrySendsOnce` follow.

`UpbitOverWebSocket_proofs` takes these theorems over: `UpbitIsAConnector` says
that the connector's behaviours are behaviours of `BaseWebSocket`, so that all
theorems above hold of it; `UpbitInv` relates the registry's one attempt to the
one task that subscribes (`AttemptsAgree`, which needs `LockInv`) and says over
which socket it sends (`SendsOnOwn`). From it `RegistryImplemented`
(`UpbitSpec => ImplementsRegistry`), `ConnectedIsServed`, `SendsOncePerSocket`
and `UpbitTypes`.

`IngestionService_proofs`: `ControlInv` adds to `NoOrphanLoop` that loops are
created in order and that there is room for each `start()` under way, that
`start()` connects with the lock, and that a `stop()` past its wait waited for a
loop that has ended. From it `LoopsHaveOwners` and `FlushIsLast`, and with the
cardinality of the loops that raised `FailuresStayBounded` and `TypeCorrect`.

`KafkaProducer_proofs`: `ProducerInv` adds to `AcceptedOnce` that a `publish()`
that goes on has an attempt left and a message whose outcome is open: that is
why a second `produce()` of it, or one out of order, is impossible. From it
`TypeCorrect`, `PublishedOnce`, and `PublisherImplemented`
(`Spec => ImplementsPublisher`): `produce()` is the moment at which a message is
taken, and each other end of `publish()` the moment at which it is refused, of a
message that is neither taken nor refused yet. `ClosedIsFinal`
(`NothingAfterClose`) needs no invariant.

`FraudDetector_proofs`: `TimerInv` adds to the types that the watermark is
behind the stream's time until the input ends. Without it a timer could be
registered that has already been passed and `TimersDue` would not be preserved.
From it: `TypeCorrect`, `FlagAlwaysExpires`, `TimersAlwaysDue`. `AlertInv` adds
what the flag remembers of the history: set, there is a small transaction that
no large one has followed; cleared although there is one, some small transaction
is more than a minute old. From it `AlertsHaveCause` and `FreshFraudCaught`.

`FraudJob_proofs`: `AccountsKeptApart` says that what the job does with one
account is a behaviour of `FraudDetector`: the element of another key leaves it
alone, and the end of the input is its last watermark. So what is proved of the
detector holds of every account of the job: `AlertsOfAccount` and
`AccountLeavesNothing`. What the job prints does not follow account by account:
`AlertsOfEachAccount` speaks of positions in the collection, and the state of
the detectors says nothing of those. `JobInv` therefore adds three parts, over
what has been read so far: `FlagsRemember`, a flag is set exactly while a small
transaction of its account has no large one after it, which holds until the
input ends because no timer fires before; and `FlagsExpire`, a flag has a
registered timer, without which the last watermark would leave it set; and
`PrintedExactly`, which large transactions have been printed without watermarks,
stronger than `AlertsOfEachAccount` and not promised by any text. From it
`TypeCorrect`, `AlertsCorrect`, `NothingLeft`, and with the sample data written
out `SampleCorrect`.

`StreamMarketData_proofs` is about the whole process. `AdapterImplemented` and
`ServiceImplemented` say that it is a behaviour of `KafkaProducer` and of
`IngestionService` with one caller and one loop, so that what is proved of those
holds of it: `ProcessPublishesOnce`, `ProcessPublishes`, `ProcessRespectsClose`,
and part of the types (`ProcessTypeCorrect`). The second refinement needs
`ProcessInv`: an interruption inside `start()` is a failed start of the service
only because nothing is connected yet (`Running`). `LoopPublishes` says that the
loop is publishing exactly while a call of the adapter is under way; the other
parts of `ProcessInv` are each the inductive form of one property:

- `Control`, `Running`, `SocketLeft`, `Stopping` tie the position of the use
  case to that of its task in the service, to the loop's end and to what an
  interrupted `start()` left: `EndsQuietly`.
- `FlushIsLast`: from the flush of `stop()` on no loop lives that could add to
  the queue, which the broker can then only shorten: `FlushSpeaksForEnd`.
- `FailuresCounted`: since some call that was accepted, or since the first, the
  counter counts all calls that ended. `FailuresInARow` takes the last such call;
  the invariant leaves open which, so that a step need not compare maxima:
  `FailuresAgree`.
- `MessageChecked`: the message under way was made of a frame that passed the
  parser and both conversions, for markets that were accepted.
  `PublishedIsValid` and `TwoConvertersAgree` then no longer speak of steps, only
  of the operators of `MarketMessages`; their lemmas (`SameFigure`, `SameTime`,
  `TradeWithCode`, ...) compare the two converters field by field.

`UseCaseNeverPublishes` is about `UseCaseSpec`: with `LoopPublishes`, a loop that
may not read `config` never calls the adapter.

Only model-checked: the liveness properties (`DisconnectCompletes`,
`LossIsResolved`, `StopReturns`, `InterruptEnds`, `PublishEnds`), because
fairness and ENABLED are out of the prover's reach. Nothing here needs induction
over data, which would be too: the modules declare no recursive operator.

## Not modelled

- The length of the backoff delay, the time in `last_message_at`, logging,
  counters that are only reported, metrics: no property depends on them.
- `StateTransitionTracker`: no code uses it. `domain/exceptions.py` and
  `ports/*.py` only declare what the models use as the outcome of a step.
- The validation of URLs and numbers in `ExchangeConfig`: it guards what are
  constants here. Equality, hashing and formatting of `MarketDataMessage`.
- `json_utils`: a choice between JSON libraries.
- Delivery reports in `KafkaProducerAdapter` that only log, and the order in
  which the broker stores messages: outside the repository.
- Several loops over one Kafka adapter, and the real connector below the
  service: each pair is composed (`UpbitOverWebSocket`, `StreamMarketData`), all
  of them together would be too large to check, so the service sees the
  connector through the abstract connection of `IngestionService`.
- In the Flink job, the maps from tuples to objects and back, the wording of an
  alert, and a parallelism above 1, which the job does not use.
- The examples, the scripts, the generated protobuf code.

## Plan

Done: all modules above. What is left:

1. An abstract service (stopped, running) that `IngestionService` implements,
   with the refinement checked and proved.
2. Several loops over one adapter, proved rather than checked, from the two
   refinements of `StreamMarketData`.
