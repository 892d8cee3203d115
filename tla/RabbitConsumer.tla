---------------------------- MODULE RabbitConsumer ----------------------------
(***************************************************************************)
(* The RabbitMQ side of the analytics service (consumer.rs): the topology  *)
(* that RabbitMQConsumer::new declares, the two consumer loops             *)
(* start_consuming and consume_dlq, handle_with_retry, and the broker they *)
(* talk to over one channel.  The process may crash, the channel may fail  *)
(* and the broker may restart between any two steps.                       *)
(***************************************************************************)
EXTENDS Naturals, Sequences

CONSTANTS
  Messages,       \* what producers publish under a key matching sensors.#
  Malformed,      \* those every handler call rejects (payload is not UTF-8)
  Flaky,          \* those a handler call may reject or accept
  Transient,      \* those published at QoS 0, which the broker never writes to disk
  MAX_RETRIES,    \* the constant of start_consuming
  SenderMayDrop,  \* whether the embedding program may drop shutdown_tx early
  MaxStarts,      \* bound: how often the process is started
  MaxFaults       \* bound: crashes, channel failures and broker restarts together

ASSUME ConsumerAssumption ==
  /\ Malformed \cup Flaky \cup Transient \subseteq Messages
  /\ MAX_RETRIES \in Nat \ {0}
  /\ SenderMayDrop \in BOOLEAN
  /\ MaxStarts \in Nat /\ MaxFaults \in Nat

Main == "mqtt_consumer"   \* the loop of start_consuming, on the main queue
Dlq  == "dlq_consumer"    \* the loop of consume_dlq, on the dead-letter queue
Consumers == {Main, Dlq}  \* each also names the queue it consumes

VARIABLES
  \* the broker
  published,   \* messages producers have published
  brokerLost,  \* messages the broker itself discarded
  ready,       \* per queue, messages waiting for a consumer
  unacked,     \* per queue, messages delivered and not yet settled
  acks, nacks, \* per queue, basic.ack and basic.nack frames still on the wire
  topology,    \* the entities declared on the broker
  \* the process
  phase,       \* how far main() has come
  chan,        \* the one channel both consumers share
  pc,          \* where each consumer task is
  inbox,       \* per task, deliveries not yet dealt with; the head is the one in hand
  stream,      \* what the consumer stream yields once its deliveries are used up
  retries,     \* the local of handle_with_retry
  signal,      \* the shutdown broadcast channel
  \* history and bounds
  handledIn,   \* the process run that last handled each message, 0 for none
  strikes,     \* handler failures of each message in its latest main-queue delivery
  starts, faults

queueVars   == <<ready, unacked, acks, nacks>>
brokerVars  == <<published, brokerLost, queueVars, topology>>
taskVars    == <<pc, inbox, stream, retries>>
historyVars == <<handledIn, strikes>>
boundVars   == <<starts, faults>>
vars == <<brokerVars, phase, chan, taskVars, signal, historyVars, boundVars>>

SetupPhases == {"exchange_declare", "declare_dlq", "bind_dlq", "declare_queue", "bind_topic"}
Working == {"handle", "backoff", "ack", "nack"}
PCs == {"off", "consume", "select", "done"} \cup Working

Elements(s) == {s[i] : i \in 1..Len(s)}
Distinct(s) == \A i, j \in 1..Len(s) : s[i] = s[j] => i = j
Everywhere(v) == [c \in Consumers |-> v]
NoMessages  == Everywhere({})
InBroker(m) == \E c \in Consumers : m \in ready[c] \cup unacked[c]

Init ==
  /\ published = {} /\ brokerLost = {} /\ topology = {}
  /\ ready = NoMessages /\ unacked = NoMessages
  /\ acks = NoMessages /\ nacks = NoMessages
  /\ phase = "down" /\ chan = "closed" /\ signal = "waiting"
  /\ pc = Everywhere("off") /\ inbox = Everywhere(<<>>) /\ stream = Everywhere("none")
  /\ retries = 0
  /\ handledIn = [m \in Messages |-> 0] /\ strikes = [m \in Messages |-> 0]
  /\ starts = 0 /\ faults = 0
-----------------------------------------------------------------------------
(* The broker, as consumer.rs configures and uses it. *)

DeadLetterRoute == {"exchange_declare", "declare_dlq", "bind_dlq"}

\* A message reaches the main queue through its binding to amq.topic.
Publish(m) ==
  /\ m \notin published
  /\ published' = published \cup {m}
  /\ IF "bind_topic" \in topology
     THEN ready' = [ready EXCEPT ![Main] = @ \cup {m}] /\ UNCHANGED brokerLost
     ELSE brokerLost' = brokerLost \cup {m} /\ UNCHANGED ready
  /\ UNCHANGED <<unacked, acks, nacks, topology, phase, chan, taskVars, signal, historyVars, boundVars>>

\* No basic_qos is ever sent, so the broker pushes without a prefetch limit.
Deliver(c, m) ==
  /\ chan = "open" /\ stream[c] = "live"
  /\ m \in ready[c]
  /\ ready' = [ready EXCEPT ![c] = @ \ {m}]
  /\ unacked' = [unacked EXCEPT ![c] = @ \cup {m}]
  /\ inbox' = [inbox EXCEPT ![c] = Append(@, m)]
  /\ UNCHANGED <<published, brokerLost, acks, nacks, topology, phase, chan, pc, stream, retries,
                 signal, historyVars, boundVars>>

\* Two plausible mistakes in the flags below.
NackDropped(c) == FALSE
NackLoops(c)   == TRUE

\* The requeue flag the two loops give to basic.nack.
NackRequeues(c) == c = Dlq

BrokerAck(c, m) ==
  /\ m \in acks[c]
  /\ acks' = [acks EXCEPT ![c] = @ \ {m}]
  /\ unacked' = [unacked EXCEPT ![c] = @ \ {m}]
  /\ UNCHANGED <<published, brokerLost, ready, nacks, topology, phase, chan, taskVars, signal,
                 historyVars, boundVars>>

\* A message refused without requeue goes where the queue's dead-letter
\* arguments point; without that exchange and its binding it just vanishes.
BrokerNack(c, m) ==
  /\ m \in nacks[c]
  /\ nacks' = [nacks EXCEPT ![c] = @ \ {m}]
  /\ unacked' = [unacked EXCEPT ![c] = @ \ {m}]
  /\ IF NackRequeues(c) THEN ready' = [ready EXCEPT ![c] = @ \cup {m}]
     ELSE IF c = Main /\ DeadLetterRoute \subseteq topology
     THEN ready' = [ready EXCEPT ![Dlq] = @ \cup {m}]
     ELSE UNCHANGED ready
  /\ UNCHANGED <<published, brokerLost, acks, topology, phase, chan, taskVars, signal, historyVars, boundVars>>

\* When the channel is gone the broker requeues whatever was not settled, and
\* frames it had not received are lost.
Disconnect(kept) ==
  /\ chan' = "closed"
  /\ ready' = [c \in Consumers |-> (ready[c] \cup unacked[c]) \cap kept]
  /\ unacked' = NoMessages /\ acks' = NoMessages /\ nacks' = NoMessages

\* The stream of a live consumer then yields one error and ends.
StreamFails ==
  stream' = [c \in Consumers |-> IF stream[c] = "live" THEN "failed" ELSE stream[c]]

Fault == faults < MaxFaults /\ faults' = faults + 1

ChannelLost ==
  /\ chan = "open" /\ Fault /\ Disconnect(Messages) /\ StreamFails
  /\ UNCHANGED <<published, brokerLost, topology, phase, pc, inbox, retries, signal, historyVars, starts>>

\* The queues are durable; the dead-letter exchange is not, and its binding goes with it.
SurvivesRestart(entity) == entity \notin {"exchange_declare", "bind_dlq"}

BrokerRestart ==
  /\ topology # {} /\ Fault /\ Disconnect(Messages \ Transient) /\ StreamFails
  /\ topology' = {e \in topology : SurvivesRestart(e)}
  /\ brokerLost' = brokerLost \cup {m \in Transient : InBroker(m)}
  /\ UNCHANGED <<published, phase, pc, inbox, retries, signal, historyVars, starts>>
-----------------------------------------------------------------------------
(* Starting and ending the process. *)

ProcessEnds ==
  /\ phase' = "down"
  /\ pc' = Everywhere("off") /\ inbox' = Everywhere(<<>>) /\ stream' = Everywhere("none")
  /\ Disconnect(Messages)
  /\ UNCHANGED <<published, brokerLost, topology, retries, signal, historyVars, starts>>

\* main() connects and creates the channel; a new broadcast channel is made.
Start ==
  /\ phase = "down" /\ starts < MaxStarts
  /\ starts' = starts + 1
  /\ phase' = "exchange_declare" /\ chan' = "open" /\ signal' = "waiting"
  /\ UNCHANGED <<brokerVars, taskVars, historyVars, faults>>

\* A mistake: a process that skips the dead-letter route when the durable queue is already there.
DeclareUnlessQueue(entity, next) ==
  /\ phase = entity /\ chan = "open"
  /\ topology' = IF "declare_queue" \in topology /\ entity \in DeadLetterRoute
                 THEN topology ELSE topology \cup {entity}
  /\ phase' = next
  /\ UNCHANGED <<published, brokerLost, queueVars, chan, taskVars, signal, historyVars, boundVars>>

\* One awaited declaration of RabbitMQConsumer::new or bind_topic.
Declare(entity, next) ==
  /\ phase = entity /\ chan = "open"
  /\ topology' = topology \cup {entity}
  /\ phase' = next
  /\ UNCHANGED <<published, brokerLost, queueVars, chan, taskVars, signal, historyVars, boundVars>>

\* main() spawns both loops; each first sends basic.consume.
SpawnConsumers ==
  /\ phase = "spawn"
  /\ phase' = "running"
  /\ pc' = Everywhere("consume")
  /\ UNCHANGED <<brokerVars, chan, inbox, stream, retries, signal, historyVars, boundVars>>

Setup ==
  \/ Declare("exchange_declare", "declare_dlq")
  \/ Declare("declare_dlq", "bind_dlq")
  \/ Declare("bind_dlq", "declare_queue")
  \/ Declare("declare_queue", "bind_topic")
  \/ Declare("bind_topic", "spawn")
  \/ SpawnConsumers

\* A declaration that fails propagates through `?` and ends main().
SetupFails ==
  /\ phase \in SetupPhases /\ chan = "closed"
  /\ ProcessEnds /\ UNCHANGED faults

Crash == phase # "down" /\ Fault /\ ProcessEnds

AllDone == \A c \in Consumers : pc[c] = "done"

\* The last task to finish drops the last handle on the channel, which closes it.
ReleaseChannel ==
  /\ AllDone /\ chan = "open"
  /\ Disconnect(Messages)
  /\ UNCHANGED <<published, brokerLost, topology, phase, taskVars, signal, historyVars, boundVars>>

\* try_join! returns once every task has; their inner results are ignored.
Exit ==
  /\ AllDone /\ chan = "closed"
  /\ ProcessEnds /\ UNCHANGED faults
-----------------------------------------------------------------------------
(* The two consumer loops. *)

BasicConsume(c) ==
  /\ pc[c] = "consume"
  /\ IF chan = "open"
     THEN pc' = [pc EXCEPT ![c] = "select"] /\ stream' = [stream EXCEPT ![c] = "live"]
     ELSE pc' = [pc EXCEPT ![c] = "done"] /\ UNCHANGED stream
  /\ UNCHANGED <<brokerVars, phase, chan, inbox, retries, signal, historyVars, boundVars>>

\* select! picks the delivery branch; the main loop enters handle_with_retry.
Take(c) ==
  /\ pc[c] = "select" /\ inbox[c] # <<>>
  /\ pc' = [pc EXCEPT ![c] = "handle"]
  /\ IF c = Main
     THEN retries' = 0 /\ strikes' = [strikes EXCEPT ![Head(inbox[c])] = 0]
     ELSE UNCHANGED <<retries, strikes>>
  /\ UNCHANGED <<brokerVars, phase, chan, inbox, stream, signal, handledIn, boundVars>>

\* Mistakes in what follows a call: the trailing Ok(()) of handle_with_retry
\* reached, the limit off by one either way, a processed dead letter requeued.
AfterFailureOkAtEnd(c, n) == IF c = Dlq THEN "nack" ELSE IF n = MAX_RETRIES THEN "ack" ELSE "backoff"
AfterFailureEarly(c, n)   == IF c = Dlq \/ n + 1 >= MAX_RETRIES THEN "nack" ELSE "backoff"
AfterFailureLate(c, n)    == IF c = Dlq \/ n > MAX_RETRIES THEN "nack" ELSE "backoff"
AfterSuccessNackDlq(c)    == IF c = Dlq THEN "nack" ELSE "ack"

\* What the loops do with a handler's result; n counts the failures so far.
AfterSuccess(c)    == "ack"
AfterFailure(c, n) == IF c = Dlq \/ n = MAX_RETRIES THEN "nack" ELSE "backoff"

HandleOk(c) ==
  /\ pc[c] = "handle" /\ Head(inbox[c]) \notin Malformed
  /\ handledIn' = [handledIn EXCEPT ![Head(inbox[c])] = starts]
  /\ pc' = [pc EXCEPT ![c] = AfterSuccess(c)]
  /\ UNCHANGED <<brokerVars, phase, chan, inbox, stream, retries, signal, strikes, boundVars>>

\* A mistake: a failing call that refuses the delivery at once and still retries it.
HandleErrNackingEarly(c) ==
  /\ pc[c] = "handle" /\ Head(inbox[c]) \in Malformed \cup Flaky
  /\ pc' = [pc EXCEPT ![c] = AfterFailure(c, retries + 1)]
  /\ retries' = IF c = Main THEN retries + 1 ELSE retries
  /\ nacks' = [nacks EXCEPT ![c] = @ \cup ({Head(inbox[c])} \cap unacked[c])]
  /\ UNCHANGED <<published, brokerLost, ready, unacked, acks, topology, phase, chan, inbox, stream,
                 signal, historyVars, boundVars>>

HandleErr(c) ==
  /\ pc[c] = "handle" /\ Head(inbox[c]) \in Malformed \cup Flaky
  /\ pc' = [pc EXCEPT ![c] = AfterFailure(c, retries + 1)]
  /\ IF c = Main
     THEN retries' = retries + 1 /\ strikes' = [strikes EXCEPT ![Head(inbox[c])] = @ + 1]
     ELSE UNCHANGED <<retries, strikes>>
  /\ UNCHANGED <<brokerVars, phase, chan, inbox, stream, signal, handledIn, boundVars>>

\* The exponential backoff is over: the while loop calls the handler again.
Wake(c) ==
  /\ pc[c] = "backoff"
  /\ pc' = [pc EXCEPT ![c] = "handle"]
  /\ UNCHANGED <<brokerVars, phase, chan, inbox, stream, retries, signal, historyVars, boundVars>>

\* Settling a delivery: on a closed channel ack and nack fail, which is only logged.
Settle(c) ==
  LET m == Head(inbox[c]) IN
  /\ pc[c] \in {"ack", "nack"}
  /\ pc' = [pc EXCEPT ![c] = "select"]
  /\ inbox' = [inbox EXCEPT ![c] = Tail(@)]
  /\ acks'  = IF chan = "open" /\ pc[c] = "ack"  THEN [acks EXCEPT ![c] = @ \cup {m}] ELSE acks
  /\ nacks' = IF chan = "open" /\ pc[c] = "nack" THEN [nacks EXCEPT ![c] = @ \cup {m}] ELSE nacks
  /\ UNCHANGED <<published, brokerLost, ready, unacked, topology, phase, chan, stream, retries,
                 signal, historyVars, boundVars>>

\* The error item of a broken stream is logged and the loop goes round.
ReceiveError(c) ==
  /\ pc[c] = "select" /\ inbox[c] = <<>> /\ stream[c] = "failed"
  /\ stream' = [stream EXCEPT ![c] = "ended"]
  /\ UNCHANGED <<brokerVars, phase, chan, pc, inbox, retries, signal, historyVars, boundVars>>

\* The task returns: its prefetched deliveries are dropped with the stream.
LoopEnds(c) ==
  /\ pc' = [pc EXCEPT ![c] = "done"]
  /\ inbox' = [inbox EXCEPT ![c] = <<>>]
  /\ stream' = [stream EXCEPT ![c] = "none"]
  /\ UNCHANGED <<brokerVars, phase, chan, retries, signal, historyVars, boundVars>>

\* A mistake: a select! biased towards deliveries.
StopWhenIdle(c) == pc[c] = "select" /\ signal = "sent" /\ ready[c] \cup unacked[c] = {} /\ LoopEnds(c)

\* select! picks the shutdown branch, even if deliveries wait.
StopOnShutdown(c) == pc[c] = "select" /\ signal = "sent" /\ LoopEnds(c)

\* The else branch: the stream has ended and every sender is gone, so both
\* patterns fail.  As long as a sender lives, recv() just stays pending.
StopOnElse(c) ==
  /\ pc[c] = "select" /\ inbox[c] = <<>> /\ stream[c] = "ended"
  /\ signal = "closed"
  /\ LoopEnds(c)

\* handle_shutdown_signals broadcasts on the first SIGTERM or SIGINT.
SendShutdown ==
  /\ phase = "running" /\ signal = "waiting" /\ signal' = "sent"
  /\ UNCHANGED <<brokerVars, phase, chan, taskVars, historyVars, boundVars>>

DropSender ==
  /\ SenderMayDrop
  /\ phase = "running" /\ signal = "waiting" /\ signal' = "closed"
  /\ UNCHANGED <<brokerVars, phase, chan, taskVars, historyVars, boundVars>>
-----------------------------------------------------------------------------
Broker ==
  \/ \E m \in Messages : Publish(m)
  \/ \E c \in Consumers, m \in Messages : Deliver(c, m) \/ BrokerAck(c, m) \/ BrokerNack(c, m)
  \/ ChannelLost
  \/ BrokerRestart

Lifecycle ==
  \/ Start \/ Setup \/ SetupFails \/ Crash \/ ReleaseChannel \/ Exit
  \/ SendShutdown \/ DropSender

Task(c) ==
  \/ BasicConsume(c) \/ Take(c) \/ HandleOk(c) \/ HandleErr(c) \/ Wake(c) \/ Settle(c)
  \/ ReceiveError(c) \/ StopOnShutdown(c) \/ StopOnElse(c)

Next == Broker \/ Lifecycle \/ \E c \in Consumers : Task(c)

Spec == Init /\ [][Next]_vars

\* A task the runtime keeps polling always gets on; handler calls and backoff
\* sleeps end; the broker delivers what is ready and reads the frames it is
\* sent.  select! tries its branches in random order, so a shutdown that is
\* ready again and again is picked in the end.  Publishing, starting, faults
\* and signals are the environment's choice.
Fairness ==
  /\ WF_vars(Setup) /\ WF_vars(SetupFails)
  /\ \A c \in Consumers :
       /\ WF_vars(BasicConsume(c)) /\ WF_vars(Take(c)) /\ WF_vars(HandleOk(c) \/ HandleErr(c))
       /\ WF_vars(Wake(c)) /\ WF_vars(Settle(c)) /\ WF_vars(ReceiveError(c))
       /\ SF_vars(StopOnShutdown(c)) /\ WF_vars(StopOnElse(c))
       /\ \A m \in Messages : /\ SF_vars(Deliver(c, m))
                              /\ WF_vars(BrokerAck(c, m)) /\ WF_vars(BrokerNack(c, m))

FairSpec == Spec /\ Fairness
-----------------------------------------------------------------------------
(* Properties. *)

Held(c) == ready[c] \cup unacked[c]
Handled(m) == handledIn[m] # 0
HandledThisRun(m) == handledIn[m] = starts /\ starts # 0
Copies(c) == Elements(inbox[c])

\* Every variable keeps its type; the retry counter of handle_with_retry never
\* passes MAX_RETRIES.
TypeOK ==
  /\ published \in SUBSET Messages /\ brokerLost \in SUBSET Messages
  /\ ready \in [Consumers -> SUBSET Messages] /\ unacked \in [Consumers -> SUBSET Messages]
  /\ acks \in [Consumers -> SUBSET Messages] /\ nacks \in [Consumers -> SUBSET Messages]
  /\ topology \in SUBSET SetupPhases
  /\ phase \in SetupPhases \cup {"down", "spawn", "running"}
  /\ chan \in {"open", "closed"}
  /\ pc \in [Consumers -> PCs]
  /\ inbox \in [Consumers -> Seq(Messages)]
  /\ stream \in [Consumers -> {"none", "live", "failed", "ended"}]
  /\ retries \in 0..MAX_RETRIES
  /\ signal \in {"waiting", "sent", "closed"}
  /\ handledIn \in [Messages -> 0..starts]
  /\ strikes \in [Messages -> 0..MAX_RETRIES]
  /\ starts \in 0..MaxStarts /\ faults \in 0..MaxFaults

\* A message the broker took in stays there until a handler has processed it,
\* whatever crashes, lost frames, lost channels and broker restarts come
\* between: the loops ack only after success, and a nack always finds the
\* dead-letter exchange that RabbitMQConsumer::new declared.
AtLeastOnce ==
  \A m \in published \ brokerLost : InBroker(m) \/ Handled(m)

\* A message in the dead-letter queue got there by MAX_RETRIES failures in a
\* row within one delivery; failures in deliveries that a lost channel cut
\* short do not count, and one that succeeded never ends there.
DeadLetteredOnlyAfterRetries ==
  \A m \in Held(Dlq) : strikes[m] = MAX_RETRIES

\* The two loops never hold the same message, not even a stale copy left over
\* from a channel that has failed.
OneLoopPerMessage == Copies(Main) \cap Copies(Dlq) = {}

\* Within one run of the process a message that a handler has processed is not
\* handed to a handler again: duplicates only come from an earlier run.
NoReprocessingInRun ==
  \A c \in Consumers, m \in Messages :
    HandledThisRun(m) =>
      /\ m \in Elements(inbox[c]) => m = Head(inbox[c]) /\ pc[c] = "ack"
      /\ chan = "open" => m \notin ready[c]

\* What the two loops and the broker keep true of each other at every step; the
\* properties above follow from it, and no step can break it.
PhaseInv ==
  /\ phase # "running" =>
       \A c \in Consumers : /\ pc[c] = "off" /\ inbox[c] = <<>> /\ stream[c] = "none"
                           /\ unacked[c] = {}
  /\ phase = "down" => chan = "closed"
  /\ phase # "down" => starts # 0
  /\ chan = "closed" => \A c \in Consumers : unacked[c] = {} /\ stream[c] # "live"
  /\ \A c \in Consumers : pc[c] \in {"consume", "done"} => inbox[c] = <<>> /\ stream[c] = "none"

\* On an open channel everything new() has declared so far is still there.
TopologyInv ==
  chan = "open" =>
    /\ phase # "exchange_declare" => "exchange_declare" \in topology
    /\ phase \notin {"exchange_declare", "declare_dlq"} => "declare_dlq" \in topology
    /\ phase \notin {"exchange_declare", "declare_dlq", "bind_dlq"} => "bind_dlq" \in topology

\* A message is in one place of the broker, and settled by one frame.
CustodyInv ==
  /\ brokerLost \subseteq published
  /\ \A c \in Consumers : /\ Held(c) \subseteq published \ brokerLost
                          /\ ready[c] \cap unacked[c] = {}
                          /\ acks[c] \cup nacks[c] \subseteq unacked[c]
                          /\ acks[c] \cap nacks[c] = {}
  /\ Held(Main) \cap Held(Dlq) = {}

\* A task holds copies of unsettled deliveries, each once.
CopiesInv ==
  /\ \A c \in Consumers :
       /\ Distinct(inbox[c])
       /\ Copies(c) \subseteq Held(c) \cup brokerLost
       /\ chan = "open" => Copies(c) \subseteq unacked[c] \ (acks[c] \cup nacks[c])
       /\ pc[c] \in Working => inbox[c] # <<>>
  /\ OneLoopPerMessage

\* Only processed messages are acknowledged, and those come back in no way.
HandledInv ==
  /\ AtLeastOnce
  /\ NoReprocessingInRun
  /\ \A m \in Messages : Handled(m) => m \in published
  /\ \A c \in Consumers : /\ pc[c] = "ack" => HandledThisRun(Head(inbox[c]))
                          /\ \A m \in acks[c] : HandledThisRun(m)
                          /\ \A m \in nacks[c] : ~HandledThisRun(m)

\* The main loop refuses a delivery exactly when its retries are used up.
StrikesInv ==
  /\ DeadLetteredOnlyAfterRetries
  /\ \A m \in nacks[Main] : strikes[m] = MAX_RETRIES
  /\ pc[Main] = "nack" => strikes[Head(inbox[Main])] = MAX_RETRIES
  /\ pc[Main] \in {"handle", "backoff"} =>
       strikes[Head(inbox[Main])] = retries /\ retries < MAX_RETRIES

ConsumerInv ==
  /\ TypeOK /\ PhaseInv /\ TopologyInv /\ CustodyInv /\ CopiesInv /\ HandledInv /\ StrikesInv

\* Where the contract sees a message.
Place ==
  [m \in Messages |->
     IF m \notin published    THEN "new"
     ELSE IF m \in brokerLost THEN "lost"
     ELSE IF m \in Held(Main) THEN "queued"
     ELSE IF m \in Held(Dlq)  THEN "dead"
     ELSE "removed"]

Contract == INSTANCE DeadLetterContract WITH Runs <- 1..MaxStarts, place <- Place, done <- handledIn

\* The two loops over the broker implement the dead-letter contract.
ImplementsContract == Contract!ContractSpec

\* Neither a malformed message nor one that keeps failing blocks the main queue:
\* as long as the channel is up and nobody asks to stop, every message leaves it.
MainQueueDrains ==
  \A m \in Messages :
    (phase = "running" /\ chan = "open" /\ m \in Held(Main))
      ~> (m \notin Held(Main) \/ chan = "closed" \/ signal # "waiting")

Stopped(c) == pc[c] \in {"done", "off"}

\* A loop ends after a shutdown signal, whether it is backing off, holds
\* prefetched messages, faces a dead-letter queue that refills as fast as it is
\* read, or has lost its channel; and it ends when its stream is over and no
\* sender is left.
ConsumersStop ==
  \A c \in Consumers :
    (phase = "running" /\ (signal = "sent" \/ (signal = "closed" /\ chan = "closed")))
      ~> Stopped(c)

\* What the else branch of both loops says: a channel that closes unexpectedly
\* stops the loop.
ClosedChannelStops ==
  \A c \in Consumers : (phase = "running" /\ chan = "closed") ~> Stopped(c)
===============================================================================
