----------------------------- MODULE MessageRouter -----------------------------
(***************************************************************************)
(* The topic router of messaging.rs: MessageRouter over a sharded DashMap  *)
(* of bounded mpsc senders.  publish keeps the read guard of its topic's   *)
(* shard across every send().await, while subscribe and cleanup take the   *)
(* write lock of a shard by blocking their worker thread.                  *)
(***************************************************************************)
EXTENDS Naturals, Sequences, FiniteSets, Selection

CONSTANTS
  Publishers,          \* tasks that call publish
  Receivers,           \* the receivers that calls of subscribe return
  Topics, NoTopic,
  TopicOf,             \* the topic each receiver subscribes to
  Task,                \* the task that owns each receiver
  ShardOf,             \* the shard of the map that holds each topic
  Shards,              \* how many shards the map has
  WORKERS,             \* worker threads of the runtime
  CHANNEL_BUFFER_SIZE, \* capacity of a receiver's channel
  MaxPublish           \* bound: messages per publisher and topic

ASSUME RouterAssumption ==
  /\ NoTopic \notin Topics
  /\ TopicOf \in [Receivers -> Topics]
  /\ ShardOf \in [Topics -> 1..Shards]
  /\ Shards \in Nat \ {0} /\ WORKERS \in Nat \ {0} /\ CHANNEL_BUFFER_SIZE \in Nat \ {0}
  /\ MaxPublish \in Nat

\* The n-th message of a publisher on the topic of the receiver that holds it.
Message == [from : Publishers, n : 1..MaxPublish]

VARIABLES
  subscribers,  \* per topic, the receivers whose senders it lists; empty for no entry
  rx,           \* each receiver: "none", "subscribing", "open" or "dropped"
  channel,      \* the messages in each receiver's channel
  topic,        \* what each publisher is publishing on, NoTopic between calls
  next,         \* the position each publisher has reached in its topic's list
  cleaner,      \* the shard cleanup is about to retain, 0 when it is not running
  count,        \* history: messages each publisher has published on each topic
  since,        \* history: count of its topic when each receiver was registered
  received,     \* history: messages each receiver has read
  closed        \* history: receivers that were dropped when the last cleanup was called

vars == <<subscribers, rx, channel, topic, next, cleaner, count, since, received, closed>>

Init ==
  /\ subscribers = [t \in Topics |-> <<>>]
  /\ rx = [r \in Receivers |-> "none"] /\ channel = [r \in Receivers |-> <<>>]
  /\ topic = [p \in Publishers |-> NoTopic] /\ next = [p \in Publishers |-> 1]
  /\ cleaner = 0
  /\ count = [p \in Publishers |-> [t \in Topics |-> 0]]
  /\ since = [r \in Receivers |-> [p \in Publishers |-> 0]]
  /\ received = [r \in Receivers |-> <<>>] /\ closed = {}
-----------------------------------------------------------------------------
(* Locks and threads. *)

Publishing(p) == topic[p] # NoTopic

\* A mistake: a publisher that does not keep its guard while it waits.
NeverGuarded(shard) == FALSE

\* The guard of get() lives until publish returns.
Guarded(shard) == \E p \in Publishers : Publishing(p) /\ ShardOf[topic[p]] = shard

\* Who waits for a write lock does so inside a synchronous call.
Blocked ==
  {Task[r] : r \in {q \in Receivers : rx[q] = "subscribing" /\ Guarded(ShardOf[TopicOf[q]])}}
    \cup (IF cleaner # 0 /\ Guarded(cleaner) THEN {"cleanup"} ELSE {})

FreeWorker == Cardinality(Blocked) < WORKERS

\* The owner of a receiver can run it: it is not inside a call of subscribe.
Runs(r) == FreeWorker /\ \A q \in Receivers : Task[q] = Task[r] => rx[q] # "subscribing"
-----------------------------------------------------------------------------
(* subscribe, and what tasks do with a receiver. *)

CallSubscribe(r) ==
  /\ Runs(r) /\ rx[r] = "none"
  /\ rx' = [rx EXCEPT ![r] = "subscribing"]
  /\ UNCHANGED <<subscribers, channel, topic, next, cleaner, count, since, received, closed>>

Subscribe(r) ==
  /\ rx[r] = "subscribing" /\ ~Guarded(ShardOf[TopicOf[r]])
  /\ rx' = [rx EXCEPT ![r] = "open"]
  /\ subscribers' = [subscribers EXCEPT ![TopicOf[r]] = Append(@, r)]
  /\ since' = [since EXCEPT ![r] = [p \in Publishers |-> count[p][TopicOf[r]]]]
  /\ UNCHANGED <<channel, topic, next, cleaner, count, received, closed>>

Receive(r) ==
  /\ Runs(r) /\ rx[r] = "open" /\ channel[r] # <<>>
  /\ received' = [received EXCEPT ![r] = Append(@, Head(channel[r]))]
  /\ channel' = [channel EXCEPT ![r] = Tail(@)]
  /\ UNCHANGED <<subscribers, rx, topic, next, cleaner, count, since, closed>>

DropReceiver(r) ==
  /\ Runs(r) /\ rx[r] = "open"
  /\ rx' = [rx EXCEPT ![r] = "dropped"] /\ channel' = [channel EXCEPT ![r] = <<>>]
  /\ UNCHANGED <<subscribers, topic, next, cleaner, count, since, received, closed>>
-----------------------------------------------------------------------------
(* publish. *)

\* Without an entry for the topic the message is dropped at once.
Publish(p, t) ==
  /\ FreeWorker /\ ~Publishing(p) /\ count[p][t] < MaxPublish
  /\ count' = [count EXCEPT ![p][t] = @ + 1]
  /\ IF subscribers[t] # <<>>
     THEN topic' = [topic EXCEPT ![p] = t] /\ next' = [next EXCEPT ![p] = 1]
     ELSE UNCHANGED <<topic, next>>
  /\ UNCHANGED <<subscribers, rx, channel, cleaner, since, received, closed>>

Target(p) == subscribers[topic[p]][next[p]]

\* A mistake: an unbounded channel, which always has room.
RoomOrNot(r) == TRUE

Room(r) == Len(channel[r]) < CHANNEL_BUFFER_SIZE

\* Mistakes: a failed send ends the call, or is tried again.
AfterSendStoppingOnError(p) ==
  IF next[p] = Len(subscribers[topic[p]]) \/ rx[Target(p)] = "dropped"
  THEN topic' = [topic EXCEPT ![p] = NoTopic] /\ UNCHANGED next
  ELSE next' = [next EXCEPT ![p] = @ + 1] /\ UNCHANGED topic

AfterSendRetrying(p) ==
  IF rx[Target(p)] = "dropped" THEN UNCHANGED <<topic, next>>
  ELSE IF next[p] = Len(subscribers[topic[p]])
  THEN topic' = [topic EXCEPT ![p] = NoTopic] /\ UNCHANGED next
  ELSE next' = [next EXCEPT ![p] = @ + 1] /\ UNCHANGED topic

\* The for loop goes on to the next sender; the guard goes when it ends.
AfterSend(p) ==
  IF next[p] = Len(subscribers[topic[p]])
  THEN topic' = [topic EXCEPT ![p] = NoTopic] /\ UNCHANGED next
  ELSE next' = [next EXCEPT ![p] = @ + 1] /\ UNCHANGED topic

\* One send().await: it waits for room, and fails once the receiver is dropped.
Send(p) ==
  /\ FreeWorker /\ Publishing(p)
  /\ \/ /\ rx[Target(p)] = "open" /\ Room(Target(p))
        /\ channel' = [channel EXCEPT ![Target(p)] =
                         Append(@, [from |-> p, n |-> count[p][topic[p]]])]
     \/ /\ rx[Target(p)] = "dropped"
        /\ UNCHANGED channel
  /\ AfterSend(p)
  /\ UNCHANGED <<subscribers, rx, cleaner, count, since, received, closed>>
-----------------------------------------------------------------------------
(* cleanup. *)

CallCleanup ==
  /\ FreeWorker /\ cleaner = 0
  /\ cleaner' = 1 /\ closed' = {r \in Receivers : rx[r] = "dropped"}
  /\ UNCHANGED <<subscribers, rx, channel, topic, next, count, since, received>>

\* Mistakes: dropping idle senders with the closed ones, or dropping none.
RetainsBusy(r) == rx[r] = "open" /\ channel[r] # <<>>
RetainsAll(r)  == TRUE

Retains(r) == rx[r] = "open"

\* retain visits the shards one after the other, each under its write lock.
CleanShard ==
  /\ cleaner # 0 /\ ~Guarded(cleaner)
  /\ cleaner' = IF cleaner = Shards THEN 0 ELSE cleaner + 1
  /\ subscribers' = [t \in Topics |-> IF ShardOf[t] = cleaner
                                      THEN Selected(subscribers[t], {r \in Receivers : Retains(r)})
                                      ELSE subscribers[t]]
  /\ UNCHANGED <<rx, channel, topic, next, count, since, received, closed>>
-----------------------------------------------------------------------------
Next ==
  \/ \E r \in Receivers : CallSubscribe(r) \/ Subscribe(r) \/ Receive(r) \/ DropReceiver(r)
  \/ \E p \in Publishers : Send(p) \/ \E t \in Topics : Publish(p, t)
  \/ CallCleanup \/ CleanShard

Spec == Init /\ [][Next]_vars

\* Threads that wait for a lock get it when it stays free; a lock that is only freed
\* now and then may always go to the next reader, since DashMap does not queue its
\* writers.  Senders waiting for room are served in turn, and tasks read what they
\* subscribed to.
Fairness ==
  /\ \A r \in Receivers : WF_vars(Subscribe(r)) /\ WF_vars(Receive(r))
  /\ \A p \in Publishers : SF_vars(Send(p))
  /\ WF_vars(CleanShard)

FairSpec == Spec /\ Fairness
-----------------------------------------------------------------------------
(* Properties. *)

\* Every variable keeps its type; a channel never holds more than its capacity.
TypeOK ==
  /\ subscribers \in [Topics -> Seq(Receivers)]
  /\ rx \in [Receivers -> {"none", "subscribing", "open", "dropped"}]
  /\ channel \in [Receivers -> Seq(Message)]
  /\ \A r \in Receivers : Len(channel[r]) <= CHANNEL_BUFFER_SIZE
  /\ topic \in [Publishers -> Topics \cup {NoTopic}]
  /\ next \in [Publishers -> Nat \ {0}]
  /\ cleaner \in 0..Shards
  /\ count \in [Publishers -> [Topics -> 0..MaxPublish]]
  /\ since \in [Receivers -> [Publishers -> 0..MaxPublish]]
  /\ received \in [Receivers -> Seq(Message)]
  /\ closed \in SUBSET Receivers

\* A list of senders does not change under a publisher that iterates it, even
\* while it waits for room: a receiver that is open or still has a turn to come
\* stays listed, once.
ListedOnce ==
  /\ \A r \in Receivers :
       LET places == {i \in 1..Len(subscribers[TopicOf[r]]) : subscribers[TopicOf[r]][i] = r}
       IN  /\ Cardinality(places) <= 1
           /\ rx[r] = "open" => places # {}
  /\ \A p \in Publishers : Publishing(p) => next[p] \in 1..Len(subscribers[topic[p]])

\* While publish iterates a list, waiting for room included, neither subscribe nor
\* cleanup changes it: the positions left are those of the call's beginning.
ListStable ==
  [][\A p \in Publishers :
       Publishing(p) /\ topic'[p] = topic[p] => subscribers'[topic[p]] = subscribers[topic[p]]]_vars

\* The messages of publisher p that have reached receiver r.
Reached(r, p) == Selected(received[r] \o channel[r], {m \in Message : m.from = p})

\* p is publishing to r's topic and r's turn has not come yet.
Due(r, p) ==
  /\ Publishing(p) /\ topic[p] = TopicOf[r]
  /\ \E i \in next[p]..Len(subscribers[topic[p]]) : subscribers[topic[p]][i] = r

\* An open receiver has every message that each publisher has sent to its topic
\* since it subscribed, once each and in that publisher's order, except the one
\* whose publish has not come to it yet.  Dropped receivers, a full channel and
\* cleanups in between change nothing of that.
NoGapsNoRepeats ==
  \A r \in Receivers, p \in Publishers :
    rx[r] = "open" =>
      /\ Len(Reached(r, p)) = count[p][TopicOf[r]] - since[r][p] - (IF Due(r, p) THEN 1 ELSE 0)
      /\ \A i \in 1..Len(Reached(r, p)) : Reached(r, p)[i].n = since[r][p] + i

\* What the contract sees of the router: a receiver belongs to its topic while it
\* is open, what waits in its channel is already its own, and a publisher owes its
\* message to the open receivers it has yet to come to.
Member == [r \in Receivers |-> IF rx[r] = "open" THEN "open"
                               ELSE IF rx[r] = "dropped" THEN "left" ELSE "new"]

Inbox == [r \in Receivers |-> IF rx[r] = "open" THEN received[r] \o channel[r] ELSE <<>>]

Pending == [p \in Publishers |-> {r \in Receivers : rx[r] = "open" /\ Due(r, p)}]

Contract == INSTANCE TopicContract
  WITH member <- Member, inbox <- Inbox, pending <- Pending, published <- count

\* The router implements its contract: locks, blocked threads, full channels and
\* cleanups change nothing of which receivers get which message, and when.
ImplementsContract == Contract!ContractSpec

\* publish is documented to deliver to all subscribers of the topic.
DeliversToAll ==
  \A r \in Receivers, p \in Publishers : Due(r, p) ~> (~Due(r, p) \/ rx[r] = "dropped")

\* A cleanup removes every sender whose receiver was dropped before the call: none is
\* left in a shard that it has passed, nor anywhere once it has returned, whatever is
\* published, subscribed and dropped meanwhile.
CleanupRemovesDropped ==
  \A r \in closed :
    LET list == subscribers[TopicOf[r]] IN
    cleaner = 0 \/ ShardOf[TopicOf[r]] < cleaner => \A i \in 1..Len(list) : list[i] # r
===============================================================================
