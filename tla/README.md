# TLA+ models of the tempular analytics service

The analytics service (`src/analytics`) consumes sensor messages from RabbitMQ,
retries and dead-letters those its handler rejects, and runs a WebSocket server
for publish/subscribe clients. This directory models its concurrent parts, the
life of the process that joins them and the way it gets its settings, checks
them with TLC, and proves their safety for every value of the constants with
TLAPS: every invariant and action property of a passing run is proved.

## 1. The system

| Component | Source | State | Operations |
|---|---|---|---|
| RabbitMQ consumer | `consumer.rs` | one channel shared by two loops; per loop the consumer stream, the delivery in hand and the retry counter | `start_consuming`, `consume_dlq`, `handle_with_retry`, the message handler |
| AMQP topology | `consumer.rs` (`new`, `bind_topic`) | exchange, queues and bindings on the broker | five awaited declarations in a row |
| WebSocket server | `websocket.rs` | listener; per connection a task with a split stream | `new`, `start`, `handle_tcp_stream` |
| PubSubHandler | `websocket.rs` | per connection the set of subscribed topics | `on_connect`, `handle_message`, `on_disconnect` |
| ConcurrentHandler | `websocket.rs` (tests) | two atomics shared by all connections | `on_connect`, `on_disconnect` |
| Message router | `messaging.rs` | topic -> senders, in a sharded `DashMap` | `subscribe`, `publish`, `cleanup` |
| Lifecycle | `main.rs`, `shutdown.rs` | a broadcast channel, three join handles, the installed signal handlers | start-up, spawning, signals, `try_join!` |
| AtomicCounter | `analytics.rs` | one `AtomicUsize` | `increment`, `decrement`, `get` |
| Configuration | `config.rs`, `setup` in `main.rs` | none after start-up | `dotenv`, `AppConfig::new`, `url` |
| Errors, logging | `errors.rs`, `logging.rs` | none | error enums, subscriber set-up |

`main` reads the configuration, connects to the broker and declares the
topology; any failure ends it. It then spawns the two consumer loops, the
WebSocket server and the signal task. These share nothing but the shutdown
broadcast channel, and the two loops share the AMQP channel. `main` waits for the
three join handles and ignores what the tasks returned. The router is
created for each connection and used by nobody yet (`#[allow(unused)]`); it
is modelled as the library it is written to be.

What is hard here, and what makes each part correct:

- **Consumer.** A crash, a closed channel or a broker restart may come between
  any two awaits: between declarations, while a delivery is backed off, between
  the handler's success and the ack. Deliveries in hand are then stale,
  settlements fail or are lost on the wire, and messages come back. Correct
  means: nothing is lost without having been processed; only messages whose
  retries are used up are dead-lettered; the two loops never work on one message;
  redelivery causes no second processing within a run; poison messages
  block neither the queue nor the shutdown.
- **WebSocket server.** Many detached tasks, peers that stall, reset or
  disappear, and an accept loop that shares a `select!` with shutdown. Correct
  means: answers are the parsed messages in order; subscriptions follow the
  messages; every task ends with its connection and tells its handler; no message
  ends a connection; the server stops when told to.
- **Router.** `publish` suspends with a shard's read guard in hand, while
  `subscribe` and `cleanup` block a thread on the write lock. Correct means:
  lists do not change under an iteration; open receivers get every message
  since they subscribed, once and in order per publisher; a cleanup that returns
  has removed the receivers dropped before it; every publish ends.
- **Lifecycle.** Signals come before, between and after the registrations of
  their handlers, tasks fail or panic while others have work in hand, and the
  broadcast may precede a task's first poll. Correct means: deliveries in hand
  are finished, nobody stops untold, nobody that lives misses the broadcast, no
  failure passes for a shutdown while a task still runs, and a signal ends the process.
- **ConcurrentHandler, AtomicCounter.** Lock-free updates decided on values
  that are out of date, and a counter that wraps in both directions. Correct
  means: the maximum is the true peak and its loop ends; what wrapped comes back.
- **Configuration.** Three layers, names split at `_`, variables merged in the
  order of a hash map, texts parsed as numbers on the way. Correct means: each
  field has the value of the first source that sets it, and start-up fails if a
  source cannot be read or the port is no number, and not otherwise.

`PROJECT.json` lists the hazards line by line with the properties that cover
them.

## 2. Modules

| Module | What it is |
|---|---|
| `RabbitConsumer` | topology, both loops, the retries, the broker's side of one channel, faults |
| `DeadLetterContract` | what the service promises about a message, without channels, retries or runs' inner steps |
| `MCRabbitConsumer` | instances for TLC |
| `RabbitConsumerProofs` | the inductive invariant, the safety theorems, and that `RabbitConsumer` implements `DeadLetterContract` |
| `WebSocketServer`, `MCWebSocketServer` | accept loop, connection tasks, PubSubHandler, peers |
| `WebSocketServerProofs` | the server's inductive invariant and safety theorems |
| `MessageRouter`, `MCMessageRouter` | router, shard locks, worker threads |
| `TopicContract` | what the router promises about a message, without locks, lists, channels or positions |
| `MessageRouterProofs` | the router's inductive invariant, its safety theorems, and that it implements `TopicContract` |
| `Selection`, `SelectionLemmas` | selecting from a list (what `retain` does), and what it gives for lists of any length |
| `AppLifecycle`, `MCAppLifecycle` | `main`, signals, the tasks as a whole |
| `AppLifecycleProofs` | its inductive invariant and safety theorems |
| `ConnectionTracker`, `MCConnectionTracker` | the two atomics of ConcurrentHandler, one action per atomic operation |
| `ConnectionTrackerProofs` | its inductive invariant and theorems |
| `AtomicCounter`, `MCAtomicCounter` | the wrapping counter under the workloads of its tests |
| `AtomicCounterProofs` | its inductive invariant and theorems |
| `AppConfig`, `MCAppConfig` | sources, their merging, deserialization |
| `AppConfigProofs` | its inductive invariant and theorems |

### RabbitConsumer

The broker's part is external: two queues (`ready`, and `unacked` for what is delivered and not
settled), frames on the wire (`acks`, `nacks`), the declared entities
(`topology`) and the channel (`chan`). The names `Main` and `Dlq` stand for a
loop and the queue it consumes. The process has its progress through `main`
(`phase`), the place of each loop (`pc`), its deliveries (`inbox`, the head in
hand), what its stream yields next (`stream`) and the local `retries`.

| Code | Action |
|---|---|
| `new`, `bind_topic` | `Start`, then one `Declare` per awaited declaration; `SetupFails` for the `?` |
| `tokio::spawn` of both loops | `SpawnConsumers` |
| `basic_consume` | `BasicConsume` |
| `Some(..) = consumer.next()` | `Take` (a delivery), `ReceiveError` (an error) |
| `handle_message` in either loop | `HandleOk`, `HandleErr`, followed by what `AfterSuccess` and `AfterFailure` say |
| backoff `sleep` | `Wake` |
| `ack`, `nack` | `Settle`: the frame is sent, or lost with a closed channel |
| `Ok(_) = shutdown.recv()` | `StopOnShutdown` |
| `else` of `select!` | `StopOnElse`: only when both patterns have failed |
| signal task | `SendShutdown` |
| return of `main` | `ReleaseChannel`, `Exit`; `Crash` at any time |

Messages are model values. `Malformed` ones are rejected by every call of the
handler (the payload is not UTF-8, the only error of `SensorMessageHandler`);
`Flaky` ones may be rejected or accepted by each call, for any other
implementation of `MessageHandler`. `Transient` ones, published at QoS 0, are
not persisted by the broker. Publishing before the binding exists, or restarting the
broker with transient messages in it, loses messages outside the service's
control: that is `brokerLost`, kept apart from everything the service does.
`handledIn` and `strikes` are history variables; no action reads them in a
guard. The exit does not wait for the WebSocket server: the exit may happen at
any time after both loops have ended, or never.

### DeadLetterContract

A message is `new`, `queued`, `dead`, `removed` or `lost`. It is removed only
after a handler has processed it and never processed after that, it moves to
the dead-letter queue and never back. The refinement mapping `Place` looks
only at which queue holds the message; `handledIn` maps to `done`.

### WebSocketServer

`Bind` is `WebSocketServer::new`; `Accept`, `AcceptFails` and `Stop` are the
branches of `start`'s `select!`; the remaining actions of `Server` end the
process. A task (`Task(c)`) goes through the handshake, `on_connect`
(`Connect`), turns of the receive loop (`Handle`, then `Send` or `SendFails` if
there is an answer) and `Disconnect` with `on_disconnect`. The peer (`Peer(c)`)
dials, sends frames and closes, breaks or resets the connection.

A frame is a record of its kind and topics. `AfterMessage` is the control flow
of `handle_message`: what parses is echoed, everything else gets no answer,
and a handler error does not end the connection. The entry of a connection in
`state.connections` is `active` and `subscribed`. Every connection's state has
its own `connections` map, so no task sees another one's.

### MessageRouter

`publish` is `Publish` (the lookup that takes the read guard) followed by one
`Send` per listed sender; `Guarded(shard)` says that some call of `publish` has
not returned. `CallSubscribe` and `CallCleanup` are calls that may have to
wait, `Subscribe` and `CleanShard` the steps under the write lock. A waiting
call occupies its worker thread (`Blocked`); when all are occupied no task
runs (`FreeWorker`). A receiver's owner (`Task`) cannot read while it is
inside `subscribe`. `closed` remembers the receivers that were dropped when
`cleanup` was last called. `Selected` is `Vec::retain`; it is a recursive function in
place of the library's `SelectSeq`, of which nothing can be proved, and
`SelectedIsSelectSeq` compares the two on all short lists when TLC runs the router.

### TopicContract

Receivers join and leave. `Announce` decides at once who gets a message: the
members of the topic at that moment; `Deliver` gives it to one of them, and a
publisher starts no other message before it owes this one to nobody. The
mapping: a receiver is a member while it is `open`, its inbox is what it has
read and what waits in its channel, and a publisher owes its message to the open
receivers behind its position. Calls that wait, `Receive` and the whole of
`cleanup` are stutters; so is a failed `send` to a receiver that has left.

### AppLifecycle

`main` is the step `main()` is at: the fallible ones (`StartUp`,
`StartUpFails`), a `Spawn` for each task, which subscribes the task's receiver
before it first runs, and `Join` or `JoinError`. The three joined tasks are
abstracted to `Begin`, `Stop`, `Panic` and, for the two loops, a delivery in hand
(`Deliver`, `Settle`), during which no `select!` listens. `handle_shutdown_signals`
is `Register` (one handler after the other, `RegisterFails` for its `expect`)
and `Broadcast`, whose `expect` panics if no receiver is left. `Signals` is the
sequence of registrations: two on Linux and macOS, one elsewhere.

`unread` is the broadcast in the receivers; `Senders` says when the channel is
closed, which is never before `main()` returns. External are `Arrive` (a signal
kills the process unless its handler is installed, and never again once it
is), `Panic` and what the end of `main` does to the tasks that are left (`End`).
`RabbitConsumer` and `WebSocketServer` have the detail of the tasks; their
`SendShutdown`, `Signal`, `ReleaseChannel` and `ProcessExits` are what this
module's `Broadcast` and `End` look like from inside.

### ConnectionTracker and AtomicCounter

Every operation on an atomic is one action: `FetchAdd`, `Load`,
`CompareExchange` (one turn of the `while`, with both outcomes), `Connected`
(the loop's end) and `Disconnect`; the locals `active` and `max` are state,
since other tasks run between two operations. A connection whose send fails is
never counted down (`SendFails`), as in `WebSocketServer`.

`AtomicCounter` has `increment` and `decrement` on a `value` that wraps at
`USIZE_MAX`, under the workloads of the three concurrent tests: pairs, random
operations, half incrementing and half decrementing.

### AppConfig

`Setup` is `dotenv()`: variables that are set are left alone, and any error, a
`.env` that is missing or one that does not parse, ends start-up. `Build` reads
the file, `MergeVariable(n)` sets the path of one prefixed variable in the merged
values, in any order, since the `config` crate collects them in a hash map.
`Deserialize` fills in defaults and converts the port.

A text is one value; `Reprint` is what `try_parsing` and the conversion back to
a String make of it. A variable's name is the sequence of its words, so that
`Path` does what the prefix and the separator do: `APP_RABBITMQ_QUEUE_NAME`
becomes `rabbitmq.queue.name`, which is no field. The merged values are a tree:
`Merged` drops what is above and below the path it sets, so that a variable
`APP_RABBITMQ` replaces the table of five fields by a text, and
`APP_RABBITMQ_HOST_X` a text by a table. Either makes deserialization fail
(`WrongShape`), unless a variable merged later puts it right. A field without
such conflicts is `Clear`. Left out are names with small letters, which the crate
treats alike, and names with two `_` in a row.

## 3. Runs

| Run | Checks | Expected |
|---|---|---|
| `consumer` | `TypeOK`, `AtLeastOnce`, `DeadLetteredOnlyAfterRetries`, `OneLoopPerMessage`, `NoReprocessingInRun`, `ConsumerInv`, `ImplementsContract`, `MainQueueDrains`, `ConsumersStop` | pass |
| `closed_channel` | `ClosedChannelStops` | violated |
| `server_connections` | `TypeOK`, `SubscriptionsFollowMessages`, `EchoesInOrder`, `DisconnectNotified`, `MessagesDealtWith`, `ServerStops`, `TasksEnd` | pass |
| `server_send_failure` | `EveryDisconnectNotified` | violated |
| `server_accept_error` | `EveryConnectionServed` | violated |
| `router` | `TypeOK`, `ListedOnce`, `NoGapsNoRepeats`, `CleanupRemovesDropped`, `ListStable`, `ImplementsContract`, `DeliversToAll` | pass |
| `router_self_deadlock` | `DeliversToAll` | violated |
| `lifecycle` | `TypeOK`, `DeliveriesFinish`, `StopsOnlyWhenTold`, `NobodyLeftUntold`, `CompleteForAReason`, `SignalEndsProcess` | pass |
| `tracker` | `TypeOK`, `ActiveCounts`, `MaxIsPeak`, `ConnectEnds` | pass |
| `counter` | `ValueIsNet`, `EndsAtZero`, `PairsNeverWrap` | pass |
| `configuration` | `Precedence`, `FailsForAReason` | pass |
| `queue_name` | `VariablesSetTheirFields` | violated |

Deadlock is not checked: every model has bounds that end it, and the process
may have stopped for good.

### Bounds

- *Consumer.* The two messages that can hold up a loop, one malformed and one
  flaky and transient (a flaky message may do all that an accepted one does),
  `MAX_RETRIES = 2` (the code has 3; two is the least for which a backoff and a
  second call exist), two runs of the process, two faults. That reaches a crash
  or broker restart during set-up of the first run, redelivery in the second,
  and a second fault while a redelivered copy is stale. The theorems cover every
  other value, 3 included. `SenderMayDrop = TRUE` adds the closed broadcast
  channel (in `main` it cannot close, `main` keeps a sender; the loops are
  written for any embedding).
- *Server.* Two connections and two topics. One peer sends up to two messages of
  every kind (which adds, overlaps, removes, echoes and makes the handler fail),
  the other one, and may stop reading. Longer sequences are covered by the theorems
  `SubscriptionsAreRight` and `EchoesAreInOrder`. Tasks share no handler state, in
  the code as in the model: more connections add nothing but their interleaving.
- *Router.* Two publishers, two receivers, channels of capacity one, so that a
  full channel is the common case; two messages per publisher; one topic in the
  second of two shards, so that `cleanup` can be overtaken on its way. Two cases
  the code allows are outside this run. With three worker threads, two receivers
  and one cleaner can block two threads at most while a guard is held, so that
  threads are never used up; and each receiver has a task of its own. Both are
  assumptions of `DeliversToAll`, which is false without either: with fewer
  threads, subscribers that wait for the write lock leave none to run the receiver
  the lock is waiting for, and `router_self_deadlock` (two topics on one
  shard, both receivers of one task) shows what happens without the second.
  The safety properties do not depend on them: the theorems hold for any number
  of threads and any owners.
- *Lifecycle.* Both Unix signals, every start-up step, registration and joined
  task may fail or panic. Nothing is cut off: the state space is finite.
- *Tracker.* Three connections: one that is late, one that overtakes it and one
  that leaves. *Counter.* Four threads, four operations each, and a counter that
  wraps after 4, so that it wraps in both directions.
- *Configuration.* Three variables in the environment and three in `.env` (a
  String, the port in both, the two-word field, one variable above a field and
  one below), four paths in the file, each set to a name or to a number
  with a leading zero; `.env` and the file may each be missing or not parse.
  `queue_name` has the documented variables of two fields, in either source.

### Fairness

- Tasks on tokio's runtime that can go on are polled again: weak fairness of
  every task action. A handler call and a backoff sleep end.
- `select!` polls its branches in random order, so a shutdown that stays ready
  is picked even if deliveries are always ready too; it is not ready while a
  delivery is being handled, hence strong fairness of `StopOnShutdown`.
- The broker delivers what stays or keeps coming back ready (strong, per
  message) and reads the frames it was sent.
- No fairness for publishing, starting, faults, signals, dialling, sending,
  hanging up, accept errors or process exit; none for a handshake or a send while the peer may stall.
- Router: a thread that waits for a write lock gets it once it stays free. It is not
  assumed to get one that is only freed now and then: DashMap lets readers pass a
  waiting writer, so publishers that overlap without end can starve `subscribe`
  and `cleanup`, and no property claims that these return. tokio's channel
  serves waiting senders in order, and owners of receivers read.
- Lifecycle: `main()` and the signal task run on; a delivery in hand is settled in the
  end; strong fairness of `Stop`, as above. No fairness for signals, deliveries,
  failures and panics. Tracker: `on_connect` runs on once it was called;
  connections may stay open.

### What the violated runs show

1. `closed_channel`: a channel that closes leaves both loops pending; the `else`
   branch written for it cannot be taken while `main` holds the sender.
2. `server_send_failure`: a failed send skips `on_disconnect`.
3. `server_accept_error`: after one failed `accept()` the server accepts nobody.
4. `router_self_deadlock`: subscribing from a task whose channel is full can
   deadlock with a publisher.
5. `queue_name`: the documented `APP_RABBITMQ_QUEUE_NAME` (`config.rs:17`,
   `.env.example:5`) does not set `queue_name`.

Further differences between documentation and code need no run to be seen, and
the modules state what the code does: a data point reaches its own sender only
(`websocket.rs:414`, documented at 257 and 265); a channel has room for 2048
messages (`messaging.rs:8`), not 32 (52, 71); the `RABBITMQ_HOST` of the compose
file lacks the prefix and has no effect (`dev.docker-compose.yml:9`);
a `.env` that does not parse is reported as not found (`main.rs:73`);
`main()` logs a complete shutdown also if all three tasks have failed
(`main.rs:68`), the second case of `CompleteForAReason`.

## 4. Proofs

`RabbitConsumerProofs` proves `Spec => []ConsumerInv` (theorem
`ConsumerInvariant`) for any `Messages`, `MAX_RETRIES`, `MaxStarts` and
`MaxFaults` that satisfy `ConsumerAssumption`, and from it `TypeCorrect`,
`NothingIsLost`, `DeadLettersUsedUpTheirRetries`, `NeverInBothLoops` and
`NeverReprocessedInOneRun`.

None of the properties is inductive alone. That a nack loses nothing needs the
dead-letter route to be there, which needs the order of declarations and the
channel that goes with a broker restart (`TopologyInv`). That an ack removes
only processed messages needs each frame to belong to a delivery of this
channel (`CustodyInv`), and each copy in a task on an open channel to be an unsettled
delivery (`CopiesInv`). That a processed message does not come back needs
`HandledInv` about the frames on the wire, and dead-lettering after exactly
`MAX_RETRIES` failures relates `retries`, `strikes` and the loop's place
(`StrikesInv`). `PhaseInv` ties the tasks to the process and the channel. The
proof has one lemma per part of the invariant, with a step for each action
that can disturb it.

`ConsumerImplementsContract` is `Spec => ImplementsContract`: initial states
map to initial states; under the invariant each action is a step of the
contract or a stutter (`Publish` accepts or rejects, `BrokerAck` removes,
`BrokerNack` dead-letters, `HandleOk` processes, `BrokerRestart` loses a set).

`WebSocketServerProofs` proves `Spec => []ServerInv` for any connections,
topics and frames, and from it `ServerTypeCorrect`, `SubscriptionsAreRight` and
`DisconnectsAreNotified`. `SubscriptionsFollowMessages` and `DisconnectNotified`
need `TaskInv`: a connection has no entry and no handled message before
`on_connect` (which sets the topics to none), and a task that is sending has
an answer in hand. The lemmas `LastMention` and `NoMention` say what appending
one message does to the last mention of a topic. `EchoesAreInOrder` needs
`EchoInv`: what was answered, with the answer in hand, is what parsed of the
messages handled, kept by `SelectedAppend`.

`AppLifecycleProofs` proves `Spec => []LifecycleInv` for any list of signals.
`StopsOnlyWhenTold` needs `ToldInv` and `EndInv`: the broadcast comes once, and
nothing runs after `main()`, so that its sender is always there. `NobodyLeftUntold`
needs `SpawnedInv`: the signal task is spawned last, when every receiver is
subscribed. `DeliveriesFinish` is kept by `EndInv` (a signal that kills is one whose
handler is missing; `main()` fails before it spawns), and `CompleteForAReason`
needs `StopsOnlyWhenTold`.

`ConnectionTrackerProofs` proves `Spec => []TrackerInv` for any finite set of
connections; `MaximumInv` is its core: whoever holds the peak and has not
recorded it is still in the loop, with a local maximum that is not larger than
the shared one. `MaximumGrows` is an action property from the same invariant.
`AtomicCounterProofs` proves that `value` and `net` differ by a whole number of
laps, and counts the threads between the two operations of a pair.
`CounterEndsAtZero` counts, in the split workload, the threads of either half
that are done: `net` is their difference, and a bijection makes the halves equal.
`MaxGrows` is stated by a theorem only, no run checks it.

`MessageRouterProofs` proves `Spec => []RouterInv` for any tasks, topics, shards,
worker threads and capacities that satisfy `RouterAssumption`, and from it:

- `ListsAreStable`, `ChannelsBounded` and `RouterTypeCorrect`: the guard of a
  publisher's shard excludes both writers, and a publisher's own counter types
  the message it sends (`PublishersInv`, `ChannelsInv`, `ListsInv`).
- `ReceiversAreListedOnce` needs `ListedInv`: a list has only receivers of its
  topic that were registered, without duplicates, so that a new one is not
  in it yet, and `retain` keeps that (`SelectedValues`, `SelectedDistinct`).
- `DeliveryIsExact` (`NoGapsNoRepeats`) is inductive with `ListedInv`, and with
  nothing having reached a receiver before it is registered. A send takes one
  turn of one receiver (`SendDue`), which is where `ListedInv` is needed: listed
  twice, a receiver would get a message twice.
- `RouterImplementsContract`: one lemma for each action that the contract sees
  (`SubscribeRefines`, `DropRefines`, `PublishRefines`, `SendRefines`), and a
  stutter for each other one.
- `CleanupIsComplete` (`CleanupRemovesDropped`) needs `CleanedInv`: a receiver that
  was dropped when `cleanup` was called stays dropped, is not registered again, and
  is in no list of a shard that has been passed.

`SelectionLemmas` is about data and not about steps: that exactly one list is
the selection from a given one, and what appending does to it. The library's
induction theorems take an operator, which cannot be instantiated here; the
lemmas go round that with properties given as *sets* of naturals
(`NaturalsByStep`) and of lists (`ListsByAppend`), from the well-foundedness of
`<` on the naturals.

`AppConfigProofs` proves `Spec => []ConfigInv` for any texts, variables and file
paths within `ConfigAssumption`: `StagesInv` says what each phase has behind it,
and `Merging` that for a field that is `Clear` the merged values hold what its
variable says once it is merged, and what the file says before (`Said`, kept by
`MergeStep`: a variable sets one path, and touches no other clear field).
`FirstSourceWins` and `StartUpFails` follow by `SourcesSay`. All rests on
`VariableOfField`: a prefixed name that has the path of a field is the
documented one.

Nothing is assumed besides the named assumptions on the constants
(`ConsumerAssumption`, `ServerAssumption`, `RouterAssumption`,
`LifecycleAssumption`, `TrackerAssumption`, `CounterAssumption`,
`ConfigAssumption`), which TLC evaluates in each run.

Model-checked only: the liveness properties (`MainQueueDrains`, `ConsumersStop`,
`MessagesDealtWith`, `ServerStops`, `TasksEnd`, `DeliversToAll`,
`SignalEndsProcess`, `ConnectEnds`), since fairness and
`ENABLED` are beyond the prover, and the properties of the runs that are
violated.

## 5. Not modelled

- `errors.rs` and `logging.rs` have no state that changes: which operation fails
  is in the modules of those operations, installing the subscriber is a start-up
  step of `AppLifecycle`. Log texts are left out.
- `url()` of the configuration is string formatting. A port that is a number but
  does not fit 16 bits is not told apart from one that is no number.
- The probabilities of the random counter test, hence its tolerance.
- `ConcurrentHandler::handle_message`, which echoes.
- JSON and UTF-8 in detail: a frame parses or does not, a payload is valid or
  not. Numeric values of data points play no role in any decision.
- WebSocket control frames beyond "no answer": tungstenite answers pings by itself.
- The counter `messages_received`: it is logged only.
- Elapsed time: a sleep is a step that may take any time.
- Memory: neither the broker's push without prefetch nor growing queues are
  bounded by the code.

## 6. What is left

1. `RabbitConsumer` and `WebSocketServer` composed with `AppLifecycle`: their
   shutdown steps as refinements of its `Broadcast`, `Stop` and `End`.
2. A contract for one client's session with the server (callbacks, answers and
   subscriptions) and the proof that `WebSocketServer` implements it.
