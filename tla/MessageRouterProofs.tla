--------------------------- MODULE MessageRouterProofs ---------------------------
(***************************************************************************)
(* What holds of the router for any publishers, receivers, topics, shards  *)
(* and capacities: the read guard keeps a list as it is while publish      *)
(* iterates it, a full channel makes the publisher wait, every receiver    *)
(* gets exactly what was published while it was subscribed, and the whole  *)
(* implements TopicContract.                                               *)
(***************************************************************************)
EXTENDS MessageRouter, FiniteSetTheorems, SelectionLemmas

\* What the guard of a shard depends on.
PublishersInv ==
  /\ topic \in [Publishers -> Topics \cup {NoTopic}]
  /\ count \in [Publishers -> [Topics -> 0..MaxPublish]]
  /\ \A p \in Publishers : Publishing(p) => count[p][topic[p]] \in 1..MaxPublish

ChannelsInv ==
  /\ channel \in [Receivers -> Seq(Message)]
  /\ \A r \in Receivers : Len(channel[r]) <= CHANNEL_BUFFER_SIZE

\* The types of the rest.
ListsInv ==
  /\ subscribers \in [Topics -> Seq(Receivers)]
  /\ rx \in [Receivers -> {"none", "subscribing", "open", "dropped"}]
  /\ next \in [Publishers -> Nat \ {0}]
  /\ cleaner \in 0..Shards
  /\ since \in [Receivers -> [Publishers -> 0..MaxPublish]]
  /\ received \in [Receivers -> Seq(Message)]

\* What makes a position in a list a promise: a list holds receivers of its topic
\* that have been registered, each once, and among them all that are open.
ListedInv ==
  /\ \A t \in Topics :
       /\ Distinct(subscribers[t])
       /\ \A r \in Values(subscribers[t]) : TopicOf[r] = t /\ rx[r] \in {"open", "dropped"}
  /\ \A r \in Receivers : rx[r] = "open" => r \in Values(subscribers[TopicOf[r]])
  /\ \A p \in Publishers : Publishing(p) => next[p] \in 1..Len(subscribers[topic[p]])

\* Nothing has reached a receiver before it is registered.
DeliveredInv ==
  /\ NoGapsNoRepeats
  /\ \A r \in Receivers : rx[r] \in {"none", "subscribing"} => received[r] = <<>> /\ channel[r] = <<>>

\* What a cleanup has passed holds none of the receivers it found dropped.
CleanedInv ==
  /\ closed \in SUBSET Receivers /\ \A r \in closed : rx[r] = "dropped"
  /\ CleanupRemovesDropped

RouterInv == PublishersInv /\ ChannelsInv /\ ListsInv /\ ListedInv /\ DeliveredInv /\ CleanedInv

\* At first nobody publishes and every channel is empty.
LEMMA RouterInit == Init => RouterInv
<1> SUFFICES ASSUME Init PROVE RouterInv
  OBVIOUS
<1> USE RouterAssumption DEF RouterAssumption, Init
<1>1. PublishersInv
  BY DEF PublishersInv, Publishing
<1>2. ChannelsInv
  <2>1. <<>> \in Seq(Message) /\ Len(<<>>) = 0
    OBVIOUS
  <2> QED
    BY <2>1 DEF ChannelsInv
<1>3. ListsInv
  <2>1. <<>> \in Seq(Receivers) /\ <<>> \in Seq(Message)
    OBVIOUS
  <2> QED
    BY <2>1 DEF ListsInv
<1>4. ListedInv
  <2>1. Distinct(<<>>) /\ Values(<<>>) = {}
    BY EmptySeq DEF Distinct, Values
  <2> QED
    BY <2>1 DEF ListedInv, Publishing
<1>5. DeliveredInv
  BY DEF DeliveredInv, NoGapsNoRepeats
<1>6. CleanedInv
  BY DEF CleanedInv, CleanupRemovesDropped
<1> QED
  BY <1>1, <1>2, <1>3, <1>4, <1>5, <1>6 DEF RouterInv

\* A call of publish counts its message before it takes the guard.
LEMMA PublishersStep == PublishersInv /\ [Next]_vars => PublishersInv'
<1> SUFFICES ASSUME PublishersInv, [Next]_vars PROVE PublishersInv'
  OBVIOUS
<1> USE RouterAssumption DEF RouterAssumption, PublishersInv, Publishing
<1>1. ASSUME NEW p \in Publishers, NEW t \in Topics, Publish(p, t) PROVE PublishersInv'
  <2>1. count[p][t] \in 0..MaxPublish /\ count[p][t] + 1 \in 1..MaxPublish
    BY <1>1 DEF Publish
  <2>2. count' = [count EXCEPT ![p][t] = count[p][t] + 1] /\ count'[p][t] = count[p][t] + 1
    BY <1>1 DEF Publish
  <2>3. count' \in [Publishers -> [Topics -> 0..MaxPublish]]
    BY <2>1, <2>2
  <2>4. topic' = topic \/ topic' = [topic EXCEPT ![p] = t]
    BY <1>1 DEF Publish
  <2>5. topic[p] = NoTopic
    BY <1>1 DEF Publish
  <2>6. ASSUME NEW q \in Publishers, topic'[q] # NoTopic PROVE count'[q][topic'[q]] \in 1..MaxPublish
    <3>1. CASE q = p
      BY <2>1, <2>2, <2>4, <2>5, <2>6, <3>1
    <3>2. CASE q # p
      BY <2>2, <2>4, <2>6, <3>2
    <3> QED
      BY <3>1, <3>2
  <2> QED
    BY <2>3, <2>4, <2>6
<1>2. ASSUME NEW p \in Publishers, Send(p) PROVE PublishersInv'
  <2>1. topic' = topic \/ topic' = [topic EXCEPT ![p] = NoTopic]
    BY <1>2 DEF Send, AfterSend
  <2> QED
    BY <1>2, <2>1 DEF Send
<1>3. CASE UNCHANGED <<topic, count>>
  BY <1>3
<1>4. ASSUME NEW r \in Receivers, CallSubscribe(r) \/ Subscribe(r) \/ Receive(r) \/ DropReceiver(r)
      PROVE  UNCHANGED <<topic, count>>
  BY <1>4 DEF CallSubscribe, Subscribe, Receive, DropReceiver
<1>5. CASE CallCleanup \/ CleanShard
  BY <1>3, <1>5 DEF CallCleanup, CleanShard
<1>6. CASE UNCHANGED vars
  BY <1>3, <1>6 DEF vars
<1> QED
  BY <1>1, <1>2, <1>3, <1>4, <1>5, <1>6 DEF Next

\* Nothing but a send with room for it puts a message into a channel.
LEMMA ChannelsStep == PublishersInv /\ ChannelsInv /\ [Next]_vars => ChannelsInv'
<1> SUFFICES ASSUME PublishersInv, ChannelsInv, [Next]_vars PROVE ChannelsInv'
  OBVIOUS
<1> USE RouterAssumption DEF RouterAssumption, ChannelsInv
<1>1. ASSUME NEW p \in Publishers, Send(p) PROVE ChannelsInv'
  <2> DEFINE m == [from |-> p, n |-> count[p][topic[p]]]
  <2>1. m \in Message
    BY <1>1 DEF Send, PublishersInv, Message
  <2>2. CASE UNCHANGED channel
    BY <2>2
  <2>3. CASE channel' # channel
    <3>1. channel' = [channel EXCEPT ![Target(p)] = Append(channel[Target(p)], m)] /\ Room(Target(p))
      BY <1>1, <2>3 DEF Send
    <3>2. Target(p) \in Receivers
      BY <2>3, <3>1
    <3>3. channel[Target(p)] \in Seq(Message) /\ Len(channel[Target(p)]) < CHANNEL_BUFFER_SIZE
      BY <3>1, <3>2 DEF Room
    <3>4. /\ Append(channel[Target(p)], m) \in Seq(Message)
          /\ Len(Append(channel[Target(p)], m)) = Len(channel[Target(p)]) + 1
          /\ Len(channel[Target(p)]) \in Nat
      BY <2>1, <3>3
    <3>5. Len(Append(channel[Target(p)], m)) <= CHANNEL_BUFFER_SIZE
      BY <3>3, <3>4
    <3> HIDE DEF m
    <3> QED
      BY <3>1, <3>2, <3>4, <3>5
  <2> QED
    BY <2>2, <2>3
<1>2. ASSUME NEW r \in Receivers, Receive(r) PROVE ChannelsInv'
  <2>1. channel' = [channel EXCEPT ![r] = Tail(channel[r])] /\ channel[r] # <<>>
    BY <1>2 DEF Receive
  <2>2. /\ Tail(channel[r]) \in Seq(Message)
        /\ Len(Tail(channel[r])) = Len(channel[r]) - 1
        /\ Len(channel[r]) \in Nat
    BY <2>1
  <2>3. Len(Tail(channel[r])) <= CHANNEL_BUFFER_SIZE
    BY <2>2
  <2> QED
    BY <2>1, <2>2, <2>3
<1>3. ASSUME NEW r \in Receivers, DropReceiver(r) PROVE ChannelsInv'
  <2>1. <<>> \in Seq(Message) /\ Len(<<>>) = 0
    OBVIOUS
  <2> QED
    BY <1>3, <2>1 DEF DropReceiver
<1>4. CASE UNCHANGED channel
  BY <1>4
<1>5. ASSUME NEW p \in Publishers, NEW t \in Topics, Publish(p, t) PROVE UNCHANGED channel
  BY <1>5 DEF Publish
<1>6. ASSUME NEW r \in Receivers, CallSubscribe(r) \/ Subscribe(r) PROVE UNCHANGED channel
  BY <1>6 DEF CallSubscribe, Subscribe
<1>7. CASE CallCleanup \/ CleanShard \/ UNCHANGED vars
  BY <1>4, <1>7 DEF CallCleanup, CleanShard, vars
<1> QED
  BY <1>1, <1>2, <1>3, <1>4, <1>5, <1>6, <1>7 DEF Next

\* Both writers of the map keep its topics and put receivers into its lists.
LEMMA ListsStep == PublishersInv /\ ChannelsInv /\ ListsInv /\ [Next]_vars => ListsInv'
<1> SUFFICES ASSUME PublishersInv, ChannelsInv, ListsInv, [Next]_vars PROVE ListsInv'
  OBVIOUS
<1> USE RouterAssumption DEF RouterAssumption, ListsInv
<1>1. ASSUME NEW r \in Receivers, CallSubscribe(r) PROVE ListsInv'
  BY <1>1 DEF CallSubscribe
<1>2. ASSUME NEW r \in Receivers, Subscribe(r) PROVE ListsInv'
  <2>1. TopicOf[r] \in Topics /\ subscribers[TopicOf[r]] \in Seq(Receivers)
    OBVIOUS
  <2>2. Append(subscribers[TopicOf[r]], r) \in Seq(Receivers)
    BY <2>1, AppendProperties
  <2>3. [p \in Publishers |-> count[p][TopicOf[r]]] \in [Publishers -> 0..MaxPublish]
    BY <2>1 DEF PublishersInv
  <2> QED
    BY <1>2, <2>2, <2>3 DEF Subscribe
<1>3. ASSUME NEW r \in Receivers, Receive(r) PROVE ListsInv'
  <2>1. channel[r] \in Seq(Message) /\ channel[r] # <<>>
    BY <1>3 DEF Receive, ChannelsInv
  <2>2. Append(received[r], Head(channel[r])) \in Seq(Message)
    BY <2>1, HeadTailProperties, AppendProperties
  <2> QED
    BY <1>3, <2>2 DEF Receive
<1>4. ASSUME NEW r \in Receivers, DropReceiver(r) PROVE ListsInv'
  BY <1>4 DEF DropReceiver
<1>5. ASSUME NEW p \in Publishers, NEW t \in Topics, Publish(p, t) PROVE ListsInv'
  <2>1. next' = next \/ next' = [next EXCEPT ![p] = 1]
    BY <1>5 DEF Publish
  <2>2. UNCHANGED <<subscribers, rx, cleaner, since, received>>
    BY <1>5 DEF Publish
  <2>3. next' \in [Publishers -> Nat \ {0}]
    <3>1. 1 \in Nat \ {0}
      OBVIOUS
    <3> QED
      BY <2>1, <3>1
  <2> QED
    BY <2>2, <2>3
<1>6. ASSUME NEW p \in Publishers, Send(p) PROVE ListsInv'
  BY <1>6 DEF Send, AfterSend
<1>7. CASE CallCleanup
  BY <1>7 DEF CallCleanup
<1>8. CASE CleanShard
  <2> DEFINE keep == {r \in Receivers : Retains(r)}
  <2>1. \A t \in Topics : Selected(subscribers[t], keep) \in Seq(Receivers)
    BY SelectedType
  <2>2. subscribers' = [t \in Topics |-> IF ShardOf[t] = cleaner THEN Selected(subscribers[t], keep)
                                         ELSE subscribers[t]]
    BY <1>8 DEF CleanShard
  <2> HIDE DEF keep
  <2>3. subscribers' \in [Topics -> Seq(Receivers)]
    BY <2>1, <2>2
  <2>4. cleaner' \in 0..Shards
    BY <1>8 DEF CleanShard
  <2> QED
    BY <1>8, <2>3, <2>4 DEF CleanShard
<1>9. CASE UNCHANGED vars
  BY <1>9 DEF vars
<1> QED
  BY <1>1, <1>2, <1>3, <1>4, <1>5, <1>6, <1>7, <1>8, <1>9 DEF Next

\* Where nobody publishes on the topics of a shard, changing their lists moves no
\* publisher's position.
LEMMA UnguardedLists ==
  ASSUME PublishersInv, NEW t \in Topics, ~Guarded(ShardOf[t]), NEW p \in Publishers
  PROVE  topic[p] # t
BY RouterAssumption DEF RouterAssumption, PublishersInv, Guarded, Publishing

\* A list changes at its end, by a receiver that was in no list, or by losing those
\* that are dropped, and under a publisher not at all.
LEMMA ListedStep == PublishersInv /\ ListsInv /\ ListedInv /\ [Next]_vars => ListedInv'
<1> SUFFICES ASSUME PublishersInv, ListsInv, ListedInv, [Next]_vars PROVE ListedInv'
  OBVIOUS
<1>a. TopicOf \in [Receivers -> Topics] /\ NoTopic \notin Topics
  BY RouterAssumption DEF RouterAssumption
<1>1. ASSUME NEW r \in Receivers, CallSubscribe(r) PROVE ListedInv'
  <2>1. /\ UNCHANGED <<subscribers, topic, next>> /\ rx[r] = "none"
        /\ rx' = [rx EXCEPT ![r] = "subscribing"]
    BY <1>1 DEF CallSubscribe
  <2> QED
    BY <2>1 DEF ListedInv, ListsInv, Publishing
<1>2. ASSUME NEW r \in Receivers, Subscribe(r) PROVE ListedInv'
  <2> DEFINE T == TopicOf[r]
             s == subscribers[T]
  <2>1. /\ rx[r] = "subscribing" /\ ~Guarded(ShardOf[T])
        /\ rx' = [rx EXCEPT ![r] = "open"]
        /\ subscribers' = [subscribers EXCEPT ![T] = Append(s, r)]
        /\ UNCHANGED <<topic, next>>
    BY <1>2 DEF Subscribe
  <2>2. T \in Topics /\ s \in Seq(Receivers) /\ r \notin Values(s)
    BY <1>a, <2>1 DEF ListsInv, ListedInv
  <2>3. /\ Values(Append(s, r)) = Values(s) \cup {r}
        /\ Distinct(Append(s, r))
    BY <2>2, AppendValues DEF ListedInv
  <2> HIDE DEF s, T
  <2>4. subscribers'[T] = Append(s, r) /\ \A t \in Topics \ {T} : subscribers'[t] = subscribers[t]
    BY <2>1, <2>2 DEF ListsInv
  <2>5. ASSUME NEW t \in Topics
        PROVE  /\ Distinct(subscribers'[t])
               /\ \A q \in Values(subscribers'[t]) : TopicOf[q] = t /\ rx'[q] \in {"open", "dropped"}
    <3>1. CASE t = T
      BY <2>1, <2>3, <2>4, <3>1 DEF ListedInv, ListsInv, s, T
    <3>2. CASE t # T
      BY <2>1, <2>4, <3>2 DEF ListedInv, ListsInv
    <3> QED
      BY <3>1, <3>2
  <2>6. ASSUME NEW q \in Receivers, rx'[q] = "open" PROVE q \in Values(subscribers'[TopicOf[q]])
    <3>1. CASE q = r
      BY <2>3, <2>4, <3>1 DEF T
    <3>2. CASE q # r
      <4>1. q \in Values(subscribers[TopicOf[q]]) /\ TopicOf[q] \in Topics
        BY <1>a, <2>1, <2>6, <3>2 DEF ListedInv, ListsInv
      <4> QED
        BY <2>3, <2>4, <4>1 DEF s
    <3> QED
      BY <3>1, <3>2
  <2>7. ASSUME NEW p \in Publishers, topic'[p] # NoTopic PROVE next'[p] \in 1..Len(subscribers'[topic'[p]])
    <3>1. topic[p] # T
      BY <2>1, <2>2, UnguardedLists
    <3>2. subscribers'[topic[p]] = subscribers[topic[p]]
      BY <2>1, <3>1
    <3> QED
      BY <2>1, <2>7, <3>2 DEF ListedInv, Publishing
  <2> QED
    BY <2>5, <2>6, <2>7 DEF ListedInv, Publishing
<1>3. ASSUME NEW r \in Receivers, Receive(r) PROVE ListedInv'
  BY <1>3 DEF Receive, ListedInv, Publishing
<1>4. ASSUME NEW r \in Receivers, DropReceiver(r) PROVE ListedInv'
  <2>1. UNCHANGED <<subscribers, topic, next>> /\ rx' = [rx EXCEPT ![r] = "dropped"]
    BY <1>4 DEF DropReceiver
  <2> QED
    BY <2>1 DEF ListedInv, ListsInv, Publishing
<1>5. ASSUME NEW p \in Publishers, NEW t \in Topics, Publish(p, t) PROVE ListedInv'
  <2>1. UNCHANGED <<subscribers, rx>>
    BY <1>5 DEF Publish
  <2>2. ASSUME NEW q \in Publishers, topic'[q] # NoTopic PROVE next'[q] \in 1..Len(subscribers[topic'[q]])
    <3>1. CASE subscribers[t] # <<>> /\ q = p
      <4>1. topic'[p] = t /\ next'[p] = 1
        BY <1>5, <3>1 DEF Publish, PublishersInv, ListsInv
      <4>2. Len(subscribers[t]) \in Nat \ {0}
        BY <3>1, EmptySeq DEF ListsInv
      <4> QED
        BY <3>1, <4>1, <4>2
    <3>2. CASE ~(subscribers[t] # <<>> /\ q = p)
      <4>1. topic'[q] = topic[q] /\ next'[q] = next[q]
        BY <1>5, <3>2 DEF Publish, PublishersInv, ListsInv
      <4> QED
        BY <2>2, <4>1 DEF ListedInv, Publishing
    <3> QED
      BY <3>1, <3>2
  <2> QED
    BY <2>1, <2>2 DEF ListedInv, Publishing
<1>6. ASSUME NEW p \in Publishers, Send(p) PROVE ListedInv'
  <2>1. UNCHANGED <<subscribers, rx>> /\ Publishing(p) /\ AfterSend(p)
    BY <1>6 DEF Send
  <2>2. next[p] \in 1..Len(subscribers[topic[p]]) /\ Len(subscribers[topic[p]]) \in Nat
    BY <2>1 DEF ListedInv, ListsInv, PublishersInv, Publishing
  <2>3. ASSUME NEW q \in Publishers, topic'[q] # NoTopic PROVE next'[q] \in 1..Len(subscribers[topic'[q]])
    <3>1. CASE next[p] = Len(subscribers[topic[p]])
      BY <2>1, <2>3, <3>1 DEF AfterSend, ListedInv, PublishersInv, Publishing
    <3>2. CASE next[p] # Len(subscribers[topic[p]])
      <4>1. topic' = topic /\ next' = [next EXCEPT ![p] = next[p] + 1]
        BY <2>1, <3>2 DEF AfterSend
      <4>2. next[p] + 1 \in 1..Len(subscribers[topic[p]])
        BY <2>2, <3>2
      <4> QED
        BY <2>3, <4>1, <4>2 DEF ListedInv, ListsInv, Publishing
    <3> QED
      BY <3>1, <3>2
  <2> QED
    BY <2>1, <2>3 DEF ListedInv, Publishing
<1>7. CASE CleanShard
  <2> DEFINE keep == {r \in Receivers : Retains(r)}
  <2>1. /\ ~Guarded(cleaner) /\ UNCHANGED <<rx, topic, next>>
        /\ subscribers' = [t \in Topics |-> IF ShardOf[t] = cleaner THEN Selected(subscribers[t], keep)
                                            ELSE subscribers[t]]
    BY <1>7 DEF CleanShard
  <2>2. \A r \in Receivers : rx[r] = "open" <=> r \in keep
    BY DEF Retains
  <2> HIDE DEF keep
  <2>3. ASSUME NEW t \in Topics
        PROVE  /\ Distinct(subscribers'[t])
               /\ Values(subscribers[t]) \cap keep \subseteq Values(subscribers'[t])
               /\ Values(subscribers'[t]) \subseteq Values(subscribers[t])
    <3>1. subscribers[t] \in Seq(Receivers) /\ Distinct(subscribers[t])
      BY DEF ListsInv, ListedInv
    <3>2. CASE ShardOf[t] = cleaner
      <4>1. subscribers'[t] = Selected(subscribers[t], keep)
        BY <2>1, <3>2
      <4>2. /\ Values(Selected(subscribers[t], keep)) = Values(subscribers[t]) \cap keep
            /\ Distinct(Selected(subscribers[t], keep))
        BY <3>1, SelectedValues, SelectedDistinct
      <4> QED
        BY <4>1, <4>2
    <3>3. CASE ShardOf[t] # cleaner
      <4>1. subscribers'[t] = subscribers[t]
        BY <2>1, <3>3
      <4> QED
        BY <3>1, <4>1
    <3> QED
      BY <3>2, <3>3
  <2>4. ASSUME NEW p \in Publishers, topic'[p] # NoTopic PROVE next'[p] \in 1..Len(subscribers'[topic'[p]])
    <3>1. topic[p] \in Topics /\ topic'[p] = topic[p] /\ next'[p] = next[p]
      BY <2>1, <2>4 DEF PublishersInv
    <3>2. ShardOf[topic[p]] # cleaner
      BY <2>1, <2>4, <3>1 DEF Guarded, Publishing
    <3>3. subscribers'[topic[p]] = subscribers[topic[p]]
      BY <2>1, <3>1, <3>2
    <3> QED
      BY <2>4, <3>1, <3>3 DEF ListedInv, Publishing
  <2>5. ASSUME NEW r \in Receivers, rx'[r] = "open" PROVE r \in Values(subscribers'[TopicOf[r]])
    BY <1>a, <2>1, <2>2, <2>3, <2>5 DEF ListedInv
  <2> QED
    BY <2>1, <2>3, <2>4, <2>5 DEF ListedInv, Publishing
<1>8. CASE CallCleanup \/ UNCHANGED vars
  BY <1>8 DEF CallCleanup, vars, ListedInv, Publishing
<1> QED
  BY <1>1, <1>2, <1>3, <1>4, <1>5, <1>6, <1>7, <1>8 DEF Next

\* What NoGapsNoRepeats says of one receiver and one publisher.
Delivered(r, p) ==
  rx[r] = "open" =>
    /\ Len(Reached(r, p)) = count[p][TopicOf[r]] - since[r][p] - (IF Due(r, p) THEN 1 ELSE 0)
    /\ \A i \in 1..Len(Reached(r, p)) : Reached(r, p)[i].n = since[r][p] + i

\* What reaches a receiver from a publisher is a list of messages.
LEMMA ReachedType ==
  ASSUME ChannelsInv, ListsInv, NEW r \in Receivers, NEW p
  PROVE  received[r] \o channel[r] \in Seq(Message) /\ Reached(r, p) \in Seq(Message)
BY ConcatProperties, SelectedType DEF ChannelsInv, ListsInv, Reached

\* A send takes the turn of its target, whose next turn is in another call, and of
\* nobody else.
LEMMA SendDue ==
  ASSUME PublishersInv, ListsInv, ListedInv, NEW p \in Publishers, Send(p),
         NEW target, target = Target(p)
  PROVE  /\ target \in Receivers /\ TopicOf[target] = topic[p]
         /\ Due(target, p) /\ ~Due(target, p)'
         /\ \A r \in Receivers, q \in Publishers :
              r # target \/ q # p => (Due(r, q)' <=> Due(r, q))
<1> DEFINE s == subscribers[topic[p]]
           k == next[p]
<1>1. Publishing(p) /\ topic[p] \in Topics /\ subscribers' = subscribers /\ AfterSend(p)
  BY DEF Send, PublishersInv, Publishing
<1>2. s \in Seq(Receivers) /\ Distinct(s) /\ k \in 1..Len(s) /\ Len(s) \in Nat /\ target = s[k]
  BY <1>1 DEF ListsInv, ListedInv, Target
<1>3. target \in Receivers /\ TopicOf[target] = topic[p]
  <2>1. target \in Values(s)
    BY <1>2 DEF Values
  <2> QED
    BY <1>1, <1>2, <2>1, ElementOfSeq DEF ListedInv
<1>4. CASE k = Len(s)
  <2>1. topic' = [topic EXCEPT ![p] = NoTopic] /\ next' = next
    BY <1>1, <1>4 DEF AfterSend
  <2>2. topic'[p] = NoTopic /\ \A q \in Publishers \ {p} : topic'[q] = topic[q]
    BY <2>1 DEF PublishersInv
  <2>3. Due(target, p)
    BY <1>1, <1>2, <1>3 DEF Due
  <2>4. \A r \in Receivers : r # target => ~Due(r, p)
    BY <1>2, <1>4 DEF Due
  <2>5. \A r \in Receivers : ~Due(r, p)'
    BY <2>2 DEF Due, Publishing
  <2>6. \A r \in Receivers, q \in Publishers \ {p} : Due(r, q)' <=> Due(r, q)
    BY <1>1, <2>1, <2>2 DEF Due, Publishing
  <2> QED
    BY <1>3, <2>3, <2>4, <2>5, <2>6
<1>5. CASE k # Len(s)
  <2>1. topic' = topic /\ next' = [next EXCEPT ![p] = k + 1]
    BY <1>1, <1>5 DEF AfterSend
  <2>2. next'[p] = k + 1 /\ \A q \in Publishers \ {p} : next'[q] = next[q]
    BY <2>1 DEF ListsInv
  <2>3. Due(target, p)
    BY <1>1, <1>2, <1>3 DEF Due
  <2>4. ~Due(target, p)'
    <3>1. \A i \in k + 1..Len(s) : i \in 1..Len(s) /\ i # k
      BY <1>2
    <3>2. \A i \in k + 1..Len(s) : s[i] # target
      BY <1>2, <3>1 DEF Distinct
    <3> QED
      BY <1>1, <2>1, <2>2, <3>2 DEF Due
  <2>5. ASSUME NEW r \in Receivers, r # target PROVE Due(r, p)' <=> Due(r, p)
    <3>1. (\E i \in k..Len(s) : s[i] = r) <=> (\E i \in k + 1..Len(s) : s[i] = r)
      <4>1. k..Len(s) = {k} \cup k + 1..Len(s)
        BY <1>2
      <4> QED
        BY <1>2, <2>5, <4>1
    <3> QED
      BY <1>1, <2>1, <2>2, <3>1 DEF Due, Publishing
  <2>6. \A r \in Receivers, q \in Publishers \ {p} : Due(r, q)' <=> Due(r, q)
    BY <1>1, <2>1, <2>2 DEF Due, Publishing
  <2> QED
    BY <1>3, <2>3, <2>4, <2>5, <2>6
<1> QED
  BY <1>4, <1>5

\* To an open target a send delivers the message being published, last; to others,
\* and of other publishers, it delivers nothing.
LEMMA SendReached ==
  ASSUME PublishersInv, ChannelsInv, ListsInv, NEW p \in Publishers, Send(p),
         NEW target \in Receivers, target = Target(p),
         NEW r \in Receivers, NEW q \in Publishers, rx[r] = "open",
         NEW m, m = [from |-> p, n |-> count[p][topic[p]]]
  PROVE  Reached(r, q)' = IF r = target /\ q = p THEN Append(Reached(r, q), m) ELSE Reached(r, q)
<1> DEFINE keep == {x \in Message : x.from = q}
           old == received[r] \o channel[r]
<1>1. m \in Message /\ (m \in keep <=> q = p)
  BY DEF Send, PublishersInv, Message
<1>2. old \in Seq(Message) /\ received[r] \in Seq(Message) /\ channel[r] \in Seq(Message)
  BY ReachedType DEF ListsInv, ChannelsInv
<1>3. received'[r] = received[r]
  BY DEF Send
<1> HIDE DEF keep, old
<1>4. CASE r = target
  <2>1. channel'[r] = Append(channel[r], m)
    BY <1>4 DEF Send, ChannelsInv
  <2>2. received[r] \o Append(channel[r], m) = Append(old, m)
    <3>1. Append(channel[r], m) = channel[r] \o <<m>> /\ Append(old, m) = old \o <<m>>
      BY <1>1, <1>2, AppendIsConcat
    <3>2. <<m>> \in Seq(Message)
      BY <1>1
    <3>3. received[r] \o (channel[r] \o <<m>>) = old \o <<m>>
      <4> DEFINE a == received[r]
                 b == channel[r]
                 c == <<m>>
      <4>1. a \in Seq(Message) /\ b \in Seq(Message) /\ c \in Seq(Message)
        BY <1>2, <3>2
      <4> HIDE DEF a, b, c
      <4>2. (a \o b) \o c = a \o (b \o c)
        BY <4>1, ConcatAssociative
      <4> QED
        BY <4>2 DEF a, b, c, old
    <3> QED
      BY <3>1, <3>3
  <2>3. received'[r] \o channel'[r] = Append(old, m)
    BY <1>3, <2>1, <2>2
  <2>4. Selected(Append(old, m), keep) = IF m \in keep THEN Append(Selected(old, keep), m)
                                         ELSE Selected(old, keep)
    BY <1>1, <1>2, SelectedAppend
  <2> QED
    BY <1>1, <1>4, <2>3, <2>4 DEF Reached, keep, old
<1>5. CASE r # target
  <2>1. channel'[r] = channel[r]
    BY <1>5 DEF Send, ChannelsInv
  <2> QED
    BY <1>3, <1>5, <2>1 DEF Reached
<1> QED
  BY <1>4, <1>5

\* Subscribing moves no turn, and nobody owes the new receiver anything.
LEMMA SubscribeDue ==
  ASSUME PublishersInv, NEW r \in Receivers, Subscribe(r)
  PROVE  \A p \in Publishers : ~Due(r, p) /\ \A q \in Receivers : Due(q, p)' <=> Due(q, p)
<1> SUFFICES ASSUME NEW p \in Publishers
             PROVE  ~Due(r, p) /\ \A q \in Receivers : Due(q, p)' <=> Due(q, p)
  OBVIOUS
<1>1. topic[p] # TopicOf[r]
  BY RouterAssumption, UnguardedLists DEF RouterAssumption, Subscribe
<1>2. subscribers'[topic[p]] = subscribers[topic[p]] /\ UNCHANGED <<topic, next>>
  BY <1>1 DEF Subscribe
<1> QED
  BY <1>1, <1>2 DEF Due, Publishing

\* Reading takes the first message out of the channel and nothing out of the whole.
LEMMA ReceiveKeeps ==
  ASSUME ChannelsInv, ListsInv, NEW r \in Receivers, Receive(r), NEW q \in Receivers
  PROVE  received'[q] \o channel'[q] = received[q] \o channel[q]
<1>1. /\ channel[r] # <<>> /\ received' = [received EXCEPT ![r] = Append(@, Head(channel[r]))]
      /\ channel' = [channel EXCEPT ![r] = Tail(@)]
  BY DEF Receive
<1>2. CASE q = r
  <2> DEFINE c == channel[r]
             h == Head(c)
  <2>1. c \in Seq(Message) /\ c # <<>> /\ received[r] \in Seq(Message)
    BY <1>1 DEF ChannelsInv, ListsInv
  <2> HIDE DEF c
  <2>2. h \in Message /\ Tail(c) \in Seq(Message) /\ c = <<h>> \o Tail(c)
    BY <2>1
  <2> HIDE DEF h
  <2>3. Append(received[r], h) = received[r] \o <<h>> /\ <<h>> \in Seq(Message)
    BY <2>1, <2>2, AppendIsConcat
  <2>4. (received[r] \o <<h>>) \o Tail(c) = received[r] \o c
    BY <2>1, <2>2, <2>3, ConcatAssociative
  <2>5. received'[r] = Append(received[r], h) /\ channel'[r] = Tail(c)
    BY <1>1 DEF c, h, ChannelsInv, ListsInv
  <2> QED
    BY <1>2, <2>3, <2>4, <2>5 DEF c
<1>3. CASE q # r
  BY <1>1, <1>3 DEF ChannelsInv, ListsInv
<1> QED
  BY <1>2, <1>3

\* Cleanup moves no turn: the shard it works on is nobody's.
LEMMA CleanDue ==
  ASSUME PublishersInv, CleanShard, NEW r \in Receivers, NEW p \in Publishers
  PROVE  Due(r, p)' <=> Due(r, p)
<1>1. /\ ~Guarded(cleaner) /\ UNCHANGED <<topic, next>>
      /\ \A t \in Topics : ShardOf[t] # cleaner => subscribers'[t] = subscribers[t]
  BY DEF CleanShard
<1>2. CASE Publishing(p)
  <2>1. topic[p] \in Topics /\ ShardOf[topic[p]] # cleaner
    BY <1>1, <1>2 DEF PublishersInv, Publishing, Guarded
  <2> QED
    BY <1>1, <2>1 DEF Due, Publishing
<1>3. CASE ~Publishing(p)
  BY <1>1, <1>3 DEF Due, Publishing
<1> QED
  BY <1>2, <1>3

\* Every step keeps each receiver's account with each publisher: a new message is
\* due before it is sent, sent when its turn comes, and read in the order of sending.
LEMMA DeliveredStep ==
  PublishersInv /\ ChannelsInv /\ ListsInv /\ ListedInv /\ DeliveredInv /\ [Next]_vars => DeliveredInv'
<1> SUFFICES ASSUME PublishersInv, ChannelsInv, ListsInv, ListedInv, DeliveredInv, [Next]_vars
             PROVE  DeliveredInv'
  OBVIOUS
<1>a. TopicOf \in [Receivers -> Topics] /\ NoTopic \notin Topics /\ MaxPublish \in Nat
  BY RouterAssumption DEF RouterAssumption
<1>b. \A r \in Receivers, p \in Publishers : Delivered(r, p)
  BY DEF DeliveredInv, NoGapsNoRepeats, Delivered
<1>c. ASSUME \A r \in Receivers, p \in Publishers : Delivered(r, p)',
             \A r \in Receivers : rx'[r] \in {"none", "subscribing"} => received'[r] = <<>> /\ channel'[r] = <<>>
      PROVE  DeliveredInv'
  BY <1>c DEF DeliveredInv, NoGapsNoRepeats, Delivered
\* Nothing changes for a receiver and a publisher.
<1>d. ASSUME NEW r \in Receivers, NEW p \in Publishers, rx'[r] = "open" => rx[r] = "open",
             rx'[r] = "open" => Reached(r, p)' = Reached(r, p), count'[p][TopicOf[r]] = count[p][TopicOf[r]],
             since'[r][p] = since[r][p], rx'[r] = "open" => (Due(r, p)' <=> Due(r, p))
      PROVE  Delivered(r, p)'
  BY <1>b, <1>d DEF Delivered
<1>1. ASSUME NEW r \in Receivers, CallSubscribe(r) PROVE DeliveredInv'
  <2>1. /\ rx[r] = "none" /\ rx' = [rx EXCEPT ![r] = "subscribing"]
        /\ UNCHANGED <<subscribers, channel, topic, next, count, since, received>>
    BY <1>1 DEF CallSubscribe
  <2>2. ASSUME NEW q \in Receivers, NEW p \in Publishers PROVE Delivered(q, p)'
    <3>1. Reached(q, p)' = Reached(q, p) /\ (Due(q, p)' <=> Due(q, p)) /\ (rx'[q] = "open" => rx[q] = "open")
      BY <2>1 DEF Reached, Due, Publishing, ListsInv
    <3> QED
      BY <1>d, <2>1, <3>1
  <2> QED
    BY <1>c, <2>1, <2>2 DEF DeliveredInv, ListsInv
<1>2. ASSUME NEW r \in Receivers, Subscribe(r) PROVE DeliveredInv'
  <2>1. /\ rx[r] = "subscribing" /\ ~Guarded(ShardOf[TopicOf[r]])
        /\ rx' = [rx EXCEPT ![r] = "open"]
        /\ subscribers' = [subscribers EXCEPT ![TopicOf[r]] = Append(@, r)]
        /\ since' = [since EXCEPT ![r] = [p \in Publishers |-> count[p][TopicOf[r]]]]
        /\ UNCHANGED <<channel, topic, next, count, received>>
    BY <1>2 DEF Subscribe
  <2>2. ASSUME NEW q \in Receivers, NEW p \in Publishers PROVE Due(q, p)' <=> Due(q, p)
    BY <1>2, SubscribeDue
  <2>3. ASSUME NEW q \in Receivers, NEW p \in Publishers PROVE Reached(q, p)' = Reached(q, p)
    BY <2>1 DEF Reached
  <2>4. ASSUME NEW p \in Publishers PROVE Delivered(r, p)'
    <3>1. ~Due(r, p)
      BY <1>2, SubscribeDue
    <3>2. Reached(r, p) = <<>>
      BY <2>1, EmptySeq, ConcatEmptySeq, SelectedEmpty DEF DeliveredInv, Reached
    <3>3. since'[r][p] = count[p][TopicOf[r]] /\ count[p][TopicOf[r]] \in Nat
      BY <1>a, <2>1 DEF ListsInv, PublishersInv
    <3> QED
      BY <2>1, <2>2, <2>3, <3>1, <3>2, <3>3 DEF Delivered
  <2>5. ASSUME NEW q \in Receivers, NEW p \in Publishers PROVE Delivered(q, p)'
    <3>1. CASE q = r
      BY <2>4, <3>1
    <3>2. CASE q # r
      <4>1. since'[q] = since[q] /\ rx'[q] = rx[q]
        BY <2>1, <3>2 DEF ListsInv
      <4> QED
        BY <1>d, <2>1, <2>2, <2>3, <4>1
    <3> QED
      BY <3>1, <3>2
  <2> QED
    BY <1>c, <2>1, <2>5 DEF DeliveredInv, ListsInv
<1>3. ASSUME NEW r \in Receivers, Receive(r) PROVE DeliveredInv'
  <2>1. /\ rx[r] = "open" /\ channel[r] # <<>>
        /\ received' = [received EXCEPT ![r] = Append(@, Head(channel[r]))]
        /\ channel' = [channel EXCEPT ![r] = Tail(@)]
        /\ UNCHANGED <<subscribers, rx, topic, next, count, since>>
    BY <1>3 DEF Receive
  <2>2. ASSUME NEW q \in Receivers PROVE received'[q] \o channel'[q] = received[q] \o channel[q]
    BY <1>3, ReceiveKeeps
  <2>3. ASSUME NEW q \in Receivers, NEW p \in Publishers PROVE Delivered(q, p)'
    <3>1. Reached(q, p)' = Reached(q, p)
      BY <2>2 DEF Reached
    <3>2. Due(q, p)' <=> Due(q, p)
      BY <2>1 DEF Due, Publishing
    <3> QED
      BY <1>d, <2>1, <3>1, <3>2
  <2>4. ASSUME NEW q \in Receivers, rx'[q] \in {"none", "subscribing"}
        PROVE  received'[q] = <<>> /\ channel'[q] = <<>>
    BY <2>1, <2>4 DEF DeliveredInv, ChannelsInv, ListsInv
  <2> QED
    BY <1>c, <2>3, <2>4
<1>4. ASSUME NEW r \in Receivers, DropReceiver(r) PROVE DeliveredInv'
  <2>1. /\ rx' = [rx EXCEPT ![r] = "dropped"] /\ channel' = [channel EXCEPT ![r] = <<>>]
        /\ UNCHANGED <<subscribers, topic, next, count, since, received>>
    BY <1>4 DEF DropReceiver
  <2>2. ASSUME NEW q \in Receivers, NEW p \in Publishers PROVE Delivered(q, p)'
    <3>1. CASE q = r
      BY <2>1, <3>1 DEF Delivered, ListsInv
    <3>2. CASE q # r
      <4>1. Reached(q, p)' = Reached(q, p) /\ (Due(q, p)' <=> Due(q, p)) /\ rx'[q] = rx[q]
        BY <2>1, <3>2 DEF Reached, Due, Publishing, ListsInv, ChannelsInv
      <4> QED
        BY <1>d, <2>1, <4>1
    <3> QED
      BY <3>1, <3>2
  <2> QED
    BY <1>c, <2>1, <2>2 DEF DeliveredInv, ListsInv, ChannelsInv
<1>5. ASSUME NEW p \in Publishers, NEW t \in Topics, Publish(p, t) PROVE DeliveredInv'
  <2>1. /\ UNCHANGED <<subscribers, rx, channel, since, received>> /\ topic[p] = NoTopic
        /\ count' = [count EXCEPT ![p][t] = count[p][t] + 1]
    BY <1>5 DEF Publish, Publishing
  <2>2. ASSUME NEW r \in Receivers, NEW q \in Publishers PROVE Delivered(r, q)'
    <3>1. Reached(r, q)' = Reached(r, q)
      BY <2>1 DEF Reached
    <3>2. CASE q # p
      <4>1. topic'[q] = topic[q] /\ next'[q] = next[q] /\ count'[q] = count[q]
        BY <1>5, <2>1, <3>2 DEF Publish, PublishersInv, ListsInv
      <4>2. Due(r, q)' <=> Due(r, q)
        BY <2>1, <4>1 DEF Due, Publishing
      <4> QED
        BY <1>d, <2>1, <3>1, <4>1, <4>2
    <3>3. CASE q = p /\ TopicOf[r] # t
      <4>1. count'[p][TopicOf[r]] = count[p][TopicOf[r]]
        BY <1>a, <2>1, <3>3 DEF PublishersInv
      <4>2. topic'[p] # TopicOf[r] /\ topic[p] # TopicOf[r]
        BY <1>5, <1>a, <2>1, <3>3 DEF Publish, PublishersInv
      <4>3. ~Due(r, p) /\ ~Due(r, p)'
        BY <4>2 DEF Due
      <4> QED
        BY <1>d, <2>1, <3>1, <3>3, <4>1, <4>3
    <3>4. CASE q = p /\ TopicOf[r] = t
      <4> SUFFICES ASSUME rx[r] = "open" PROVE Delivered(r, p)'
        BY <2>1, <3>4 DEF Delivered
      <4>1. PICK i \in 1..Len(subscribers[t]) : subscribers[t][i] = r
        BY <3>4 DEF ListedInv, Values
      <4>2. topic'[p] = t /\ next'[p] = 1
        <5>1. subscribers[t] # <<>>
          BY <4>1, EmptySeq
        <5> QED
          BY <1>5, <5>1 DEF Publish, PublishersInv, ListsInv
      <4>3. ~Due(r, p) /\ Due(r, p)'
        BY <1>a, <2>1, <3>4, <4>1, <4>2 DEF Due, Publishing
      <4>4. count'[p][t] = count[p][t] + 1 /\ count[p][t] \in Nat /\ since[r][p] \in Nat
        BY <2>1 DEF PublishersInv, ListsInv
      <4>5. Delivered(r, p)
        BY <1>b
      <4>6. Len(Reached(r, p)) \in Nat
        BY ReachedType, LenProperties
      <4> QED
        BY <2>1, <3>1, <3>4, <4>3, <4>4, <4>5, <4>6 DEF Delivered
    <3> QED
      BY <3>2, <3>3, <3>4
  <2> QED
    BY <1>c, <2>1, <2>2 DEF DeliveredInv
<1>6. ASSUME NEW p \in Publishers, Send(p) PROVE DeliveredInv'
  <2>1. PICK target : target = Target(p)
    OBVIOUS
  <2>2. PICK m : m = [from |-> p, n |-> count[p][topic[p]]]
    OBVIOUS
  <2>3. /\ target \in Receivers /\ TopicOf[target] = topic[p]
        /\ Due(target, p) /\ ~Due(target, p)'
        /\ \A r \in Receivers, q \in Publishers : r # target \/ q # p => (Due(r, q)' <=> Due(r, q))
    BY <1>6, <2>1, SendDue
  <2>4. UNCHANGED <<subscribers, rx, count, since, received>>
    BY <1>6 DEF Send
  <2>5. ASSUME NEW r \in Receivers, NEW q \in Publishers, rx[r] = "open"
        PROVE  Reached(r, q)' = IF r = target /\ q = p THEN Append(Reached(r, q), m) ELSE Reached(r, q)
    BY <1>6, <2>1, <2>2, <2>3, <2>5, SendReached
  <2>6. ASSUME NEW r \in Receivers, NEW q \in Publishers, r # target \/ q # p PROVE Delivered(r, q)'
    BY <1>d, <2>3, <2>4, <2>5, <2>6
  <2>7. Delivered(target, p)'
    <3> SUFFICES ASSUME rx[target] = "open" PROVE Delivered(target, p)'
      BY <2>4 DEF Delivered
    <3> DEFINE old == Reached(target, p)
               N == count[p][topic[p]]
               s == since[target][p]
    <3>1. old \in Seq(Message) /\ Len(old) \in Nat /\ N \in Nat /\ s \in Nat /\ m \in Message /\ m.n = N
      <4>1. old \in Seq(Message)
        BY <2>3, ReachedType
      <4>2. N \in 1..MaxPublish
        BY <1>6 DEF Send, PublishersInv
      <4>3. s \in 0..MaxPublish
        BY <2>3 DEF ListsInv
      <4>4. m \in Message /\ m.n = N
        BY <2>2, <4>2 DEF Message
      <4> HIDE DEF old, N, s
      <4> QED
        BY <1>a, <4>1, <4>2, <4>3, <4>4, LenProperties
    <3>2. Len(old) = N - s - 1 /\ \A i \in 1..Len(old) : old[i].n = s + i
      BY <1>b, <2>3 DEF Delivered
    <3>3. Reached(target, p)' = Append(old, m)
      BY <2>3, <2>5
    <3> HIDE DEF old
    <3>4. /\ Len(Append(old, m)) = Len(old) + 1 /\ Append(old, m)[Len(old) + 1] = m
          /\ \A i \in 1..Len(old) : Append(old, m)[i] = old[i]
      BY <3>1, AppendProperties
    <3> HIDE DEF N, s
    <3>5. Len(Append(old, m)) = N - s - 0
      BY <3>1, <3>2, <3>4
    <3>6. ASSUME NEW i \in 1..Len(Append(old, m)) PROVE Append(old, m)[i].n = s + i
      <4>1. CASE i = Len(old) + 1
        BY <3>1, <3>2, <3>4, <4>1
      <4>2. CASE i # Len(old) + 1
        <5>1. i \in 1..Len(old)
          BY <3>1, <3>4, <4>2
        <5> QED
          BY <3>2, <3>4, <5>1
      <4> QED
        BY <4>1, <4>2
    <3> QED
      BY <2>3, <2>4, <3>3, <3>5, <3>6 DEF Delivered, N, s
  <2>8. ASSUME NEW r \in Receivers, rx'[r] \in {"none", "subscribing"}
        PROVE  received'[r] = <<>> /\ channel'[r] = <<>>
    <3>1. UNCHANGED channel \/ r # target
      BY <1>6, <2>1, <2>4, <2>8 DEF Send
    <3>2. channel'[r] = channel[r]
      BY <1>6, <2>1, <3>1 DEF Send, ChannelsInv
    <3> QED
      BY <2>4, <2>8, <3>2 DEF DeliveredInv
  <2> QED
    BY <1>c, <2>6, <2>7, <2>8
<1>7. CASE CleanShard
  <2>1. UNCHANGED <<rx, channel, topic, next, count, since, received>>
    BY <1>7 DEF CleanShard
  <2>2. ASSUME NEW r \in Receivers, NEW p \in Publishers PROVE Due(r, p)' <=> Due(r, p)
    BY <1>7, CleanDue
  <2>3. ASSUME NEW r \in Receivers, NEW p \in Publishers PROVE Delivered(r, p)'
    <3>1. Reached(r, p)' = Reached(r, p)
      BY <2>1 DEF Reached
    <3> QED
      BY <1>d, <2>1, <2>2, <3>1
  <2> QED
    BY <1>c, <2>1, <2>3 DEF DeliveredInv
<1>8. CASE CallCleanup \/ UNCHANGED vars
  <2>1. UNCHANGED <<subscribers, rx, channel, topic, next, count, since, received>>
    BY <1>8 DEF CallCleanup, vars
  <2>2. ASSUME NEW r \in Receivers, NEW p \in Publishers PROVE Delivered(r, p)'
    <3>1. Reached(r, p)' = Reached(r, p) /\ (Due(r, p)' <=> Due(r, p))
      BY <2>1 DEF Reached, Due, Publishing
    <3> QED
      BY <1>d, <2>1, <3>1
  <2> QED
    BY <1>c, <2>1, <2>2 DEF DeliveredInv
<1> QED
  BY <1>1, <1>2, <1>3, <1>4, <1>5, <1>6, <1>7, <1>8 DEF Next

\* A receiver that is dropped is not listed again, and a shard is passed with the open
\* ones only.
LEMMA CleanedStep == PublishersInv /\ ListsInv /\ CleanedInv /\ [Next]_vars => CleanedInv'
<1> SUFFICES ASSUME PublishersInv, ListsInv, CleanedInv, [Next]_vars PROVE CleanedInv'
  OBVIOUS
<1>a. /\ \A r \in Receivers : TopicOf[r] \in Topics /\ ShardOf[TopicOf[r]] \in 1..Shards
      /\ Shards \in Nat \ {0}
  BY RouterAssumption DEF RouterAssumption
<1>1. CASE UNCHANGED <<subscribers, rx, cleaner, closed>>
  BY <1>1 DEF CleanedInv, CleanupRemovesDropped
<1>2. ASSUME NEW r \in Receivers, CallSubscribe(r) \/ DropReceiver(r) PROVE CleanedInv'
  <2>1. UNCHANGED <<subscribers, cleaner, closed>> /\ rx[r] # "dropped"
    BY <1>2 DEF CallSubscribe, DropReceiver
  <2>2. \A q \in Receivers : q # r => rx'[q] = rx[q]
    BY <1>2 DEF CallSubscribe, DropReceiver, ListsInv
  <2> QED
    BY <2>1, <2>2 DEF CleanedInv, CleanupRemovesDropped
<1>3. ASSUME NEW r \in Receivers, Subscribe(r) PROVE CleanedInv'
  <2>1. /\ UNCHANGED <<cleaner, closed>> /\ rx[r] = "subscribing"
        /\ rx' = [rx EXCEPT ![r] = "open"]
        /\ subscribers' = [subscribers EXCEPT ![TopicOf[r]] = Append(subscribers[TopicOf[r]], r)]
    BY <1>3 DEF Subscribe
  <2>2. r \notin closed /\ \A q \in closed : rx'[q] = "dropped"
    BY <2>1 DEF CleanedInv, ListsInv
  <2>3. ASSUME NEW q \in closed, NEW i \in 1..Len(subscribers'[TopicOf[q]]),
               \A k \in 1..Len(subscribers[TopicOf[q]]) : subscribers[TopicOf[q]][k] # q
        PROVE  subscribers'[TopicOf[q]][i] # q
    <3> DEFINE s == subscribers[TopicOf[q]]
    <3>1. q \in Receivers /\ q # r /\ s \in Seq(Receivers)
      BY <1>a, <2>2 DEF CleanedInv, ListsInv
    <3>2. CASE TopicOf[q] = TopicOf[r]
      <4>1. subscribers'[TopicOf[q]] = Append(s, r)
        BY <1>a, <2>1, <3>2 DEF ListsInv
      <4>2. Values(Append(s, r)) = Values(s) \cup {r}
        BY <3>1, AppendValues
      <4> HIDE DEF s
      <4>3. subscribers'[TopicOf[q]][i] \in Values(Append(s, r))
        BY <2>3, <4>1 DEF Values
      <4>4. q \notin Values(s)
        BY <2>3 DEF Values, s
      <4> QED
        BY <3>1, <4>2, <4>3, <4>4
    <3>3. CASE TopicOf[q] # TopicOf[r]
      BY <2>1, <2>3, <3>3
    <3> QED
      BY <3>2, <3>3
  <2> QED
    BY <2>1, <2>2, <2>3 DEF CleanedInv, CleanupRemovesDropped
<1>4. CASE CallCleanup
  <2>1. /\ closed' = {r \in Receivers : rx[r] = "dropped"} /\ cleaner' = 1 /\ UNCHANGED rx
    BY <1>4 DEF CallCleanup
  <2>2. \A r \in Receivers : ~(ShardOf[TopicOf[r]] < 1)
    BY <1>a
  <2> QED
    BY <2>1, <2>2 DEF CleanedInv, CleanupRemovesDropped
<1>5. CASE CleanShard
  <2> DEFINE keep == {r \in Receivers : Retains(r)}
  <2>1. /\ UNCHANGED <<rx, closed>> /\ cleaner # 0
        /\ cleaner' = IF cleaner = Shards THEN 0 ELSE cleaner + 1
        /\ subscribers' = [t \in Topics |-> IF ShardOf[t] = cleaner THEN Selected(subscribers[t], keep)
                                            ELSE subscribers[t]]
    BY <1>5 DEF CleanShard
  <2>2. \A r \in closed : r \in Receivers /\ r \notin keep
    BY DEF CleanedInv, Retains
  <2> HIDE DEF keep
  <2>3. ASSUME NEW r \in closed, cleaner' = 0 \/ ShardOf[TopicOf[r]] < cleaner',
               NEW i \in 1..Len(subscribers'[TopicOf[r]])
        PROVE  subscribers'[TopicOf[r]][i] # r
    <3>1. r \in Receivers /\ r \notin keep /\ TopicOf[r] \in Topics
      BY <1>a, <2>2
    <3>2. CASE ShardOf[TopicOf[r]] = cleaner
      <4>1. subscribers'[TopicOf[r]] = Selected(subscribers[TopicOf[r]], keep)
        BY <2>1, <3>1, <3>2
      <4>2. Values(Selected(subscribers[TopicOf[r]], keep)) = Values(subscribers[TopicOf[r]]) \cap keep
        BY <3>1, SelectedValues DEF ListsInv
      <4>3. subscribers'[TopicOf[r]][i] \in Values(Selected(subscribers[TopicOf[r]], keep))
        BY <2>3, <4>1 DEF Values
      <4> QED
        BY <3>1, <4>2, <4>3
    <3>3. CASE ShardOf[TopicOf[r]] # cleaner
      <4>1. subscribers'[TopicOf[r]] = subscribers[TopicOf[r]]
        BY <2>1, <3>1, <3>3
      <4>2. ShardOf[TopicOf[r]] < cleaner
        <5>1. /\ ShardOf[TopicOf[r]] \in Nat /\ ShardOf[TopicOf[r]] <= Shards
              /\ cleaner \in Nat /\ Shards \in Nat
          BY <1>a, <3>1 DEF ListsInv
        <5>2. CASE cleaner = Shards
          BY <3>3, <5>1, <5>2
        <5>3. CASE cleaner # Shards
          BY <2>1, <2>3, <3>3, <5>1, <5>3
        <5> QED
          BY <5>2, <5>3
      <4> QED
        BY <2>3, <4>1, <4>2 DEF CleanedInv, CleanupRemovesDropped
    <3> QED
      BY <3>2, <3>3
  <2> QED
    BY <2>1, <2>3 DEF CleanedInv, CleanupRemovesDropped
<1>6. ASSUME NEW r \in Receivers, Receive(r) PROVE UNCHANGED <<subscribers, rx, cleaner, closed>>
  BY <1>6 DEF Receive
<1>7. ASSUME NEW p \in Publishers, Send(p) \/ \E t \in Topics : Publish(p, t)
      PROVE  UNCHANGED <<subscribers, rx, cleaner, closed>>
  BY <1>7 DEF Send, Publish
<1>8. CASE UNCHANGED vars
  BY <1>1, <1>8 DEF vars
<1> QED
  BY <1>1, <1>2, <1>3, <1>4, <1>5, <1>6, <1>7, <1>8 DEF Next

\* The inductive invariant holds in every reachable state.
THEOREM RouterInvariant == Spec => []RouterInv
<1>1. RouterInv /\ [Next]_vars => RouterInv'
  BY PublishersStep, ChannelsStep, ListsStep, ListedStep, DeliveredStep, CleanedStep DEF RouterInv
<1> QED
  BY <1>1, RouterInit, PTL DEF Spec

\* No interleaving of sends, waiting and receiving overruns a channel: publish
\* waits for room (send().await on a bounded mpsc channel).
THEOREM ChannelsBounded ==
  Spec => [](\A r \in Receivers : Len(channel[r]) <= CHANNEL_BUFFER_SIZE)
<1>1. RouterInv => \A r \in Receivers : Len(channel[r]) <= CHANNEL_BUFFER_SIZE
  BY DEF RouterInv, ChannelsInv
<1> QED
  BY <1>1, RouterInvariant, PTL

\* Every variable keeps its type, whatever the number of tasks, topics and shards.
THEOREM RouterTypeCorrect == Spec => []TypeOK
<1>1. RouterInv => TypeOK
  BY DEF RouterInv, PublishersInv, ChannelsInv, ListsInv, CleanedInv, TypeOK
<1> QED
  BY <1>1, RouterInvariant, PTL

\* A receiver that is open is listed once, and the position of a publisher stays
\* inside the list it iterates (MessageRouter::subscribe, publish and cleanup).
THEOREM ReceiversAreListedOnce == Spec => []ListedOnce
<1>1. RouterInv => ListedOnce
  <2> SUFFICES ASSUME RouterInv PROVE ListedOnce
    OBVIOUS
  <2>1. ASSUME NEW r \in Receivers
        PROVE  LET places == {i \in 1..Len(subscribers[TopicOf[r]]) : subscribers[TopicOf[r]][i] = r}
               IN  /\ Cardinality(places) <= 1
                   /\ rx[r] = "open" => places # {}
    <3> DEFINE s == subscribers[TopicOf[r]]
               places == {i \in 1..Len(s) : s[i] = r}
    <3>1. Distinct(s)
      BY RouterAssumption DEF RouterAssumption, RouterInv, ListedInv
    <3>2. rx[r] = "open" => places # {}
      BY DEF RouterInv, ListedInv, Values
    <3>3. \A i, j \in places : i = j
      BY <3>1 DEF Distinct
    <3> HIDE DEF places
    <3>4. Cardinality(places) <= 1
      <4>1. CASE places = {}
        BY <4>1, FS_EmptySet
      <4>2. ASSUME NEW i \in places PROVE places = {i}
        BY <3>3
      <4>3. ASSUME NEW i \in places PROVE Cardinality(places) = 1
        BY <4>2, FS_Singleton
      <4> QED
        BY <4>1, <4>3
    <3> QED
      BY <3>2, <3>4 DEF places
  <2> QED
    BY <2>1 DEF ListedOnce, RouterInv, ListedInv
<1> QED
  BY <1>1, RouterInvariant, PTL

\* An open receiver has every message its topic's publishers have sent since it
\* subscribed, once each and in each publisher's order, but for the one that has yet
\* to come to it: neither waiting for room, nor receivers that are dropped, nor a
\* cleanup loses, repeats or reorders any (MessageRouter::publish).
THEOREM DeliveryIsExact == Spec => []NoGapsNoRepeats
<1>1. RouterInv => NoGapsNoRepeats
  BY DEF RouterInv, DeliveredInv
<1> QED
  BY <1>1, RouterInvariant, PTL

\* The guard of publish keeps the list of its topic as it is until it returns,
\* against subscribe and cleanup on any thread.
THEOREM ListsAreStable == Spec => ListStable
<1> DEFINE Stable ==
      \A p \in Publishers :
        Publishing(p) /\ topic'[p] = topic[p] => subscribers'[topic[p]] = subscribers[topic[p]]
<1>1. RouterInv /\ [Next]_vars => Stable
  <2> SUFFICES ASSUME RouterInv, [Next]_vars, NEW p \in Publishers, Publishing(p)
               PROVE  subscribers'[topic[p]] = subscribers[topic[p]]
    OBVIOUS
  <2>1. topic[p] \in Topics /\ Guarded(ShardOf[topic[p]])
    BY DEF RouterInv, PublishersInv, Publishing, Guarded
  <2>2. ASSUME NEW r \in Receivers, Subscribe(r) PROVE subscribers'[topic[p]] = subscribers[topic[p]]
    <3>1. TopicOf[r] # topic[p]
      BY <2>1, <2>2 DEF Subscribe
    <3> QED
      BY <2>1, <2>2, <3>1 DEF Subscribe, RouterInv
  <2>3. CASE CleanShard
    <3>1. ShardOf[topic[p]] # cleaner
      BY <2>1, <2>3 DEF CleanShard
    <3> QED
      BY <2>1, <2>3, <3>1 DEF CleanShard
  <2>4. ASSUME NEW r \in Receivers, CallSubscribe(r) \/ Receive(r) \/ DropReceiver(r)
        PROVE  UNCHANGED subscribers
    BY <2>4 DEF CallSubscribe, Receive, DropReceiver
  <2>5. ASSUME NEW q \in Publishers
        PROVE  Send(q) \/ (\E t \in Topics : Publish(q, t)) => UNCHANGED subscribers
    BY DEF Send, Publish
  <2>6. CASE CallCleanup \/ UNCHANGED vars
    BY <2>6 DEF CallCleanup, vars
  <2> QED
    BY <2>2, <2>3, <2>4, <2>5, <2>6 DEF Next
<1> QED
  BY <1>1, RouterInvariant, PTL DEF Spec, ListStable
\* A cleanup that returns has removed every sender whose receiver was dropped before
\* the call, for any shards and any calls of subscribe and publish in between
\* (MessageRouter::cleanup).
THEOREM CleanupIsComplete == Spec => []CleanupRemovesDropped
<1>1. RouterInv => CleanupRemovesDropped
  BY DEF RouterInv, CleanedInv
<1> QED
  BY <1>1, RouterInvariant, PTL
-----------------------------------------------------------------------------
(* The router implements its contract. *)

\* A step that leaves what is owed to whom leaves it to the contract, too.
LEMMA SamePending ==
  ASSUME \A r \in Receivers, p \in Publishers :
           (rx'[r] = "open" /\ Due(r, p)') <=> (rx[r] = "open" /\ Due(r, p))
  PROVE  Pending' = Pending
BY DEF Pending

\* A receiver joins when its entry is written: with an empty channel, and owed nothing.
LEMMA SubscribeRefines ==
  ASSUME RouterInv, NEW r \in Receivers, Subscribe(r)
  PROVE  Contract!Join(r)
<1>1. /\ rx[r] = "subscribing" /\ rx' = [rx EXCEPT ![r] = "open"]
      /\ UNCHANGED <<channel, count, received>>
  BY DEF Subscribe
<1>2. Member[r] = "new" /\ Member' = [Member EXCEPT ![r] = "open"]
  BY <1>1 DEF Member, RouterInv, ListsInv
<1>3. Inbox' = Inbox
  <2>1. received[r] \o channel[r] = <<>>
    BY <1>1, EmptySeq, ConcatEmptySeq DEF RouterInv, DeliveredInv
  <2> QED
    BY <1>1, <2>1 DEF Inbox, RouterInv, ListsInv
<1>4. Pending' = Pending
  <2>1. \A p \in Publishers : ~Due(r, p) /\ \A q \in Receivers : Due(q, p)' <=> Due(q, p)
    BY SubscribeDue DEF RouterInv
  <2>2. \A q \in Receivers : q # r => rx'[q] = rx[q]
    BY <1>1 DEF RouterInv, ListsInv
  <2> QED
    BY <2>1, <2>2, SamePending
<1> QED
  BY <1>1, <1>2, <1>3, <1>4 DEF Contract!Join

\* A receiver leaves when it is dropped, though its sender stays listed.
LEMMA DropRefines ==
  ASSUME RouterInv, NEW r \in Receivers, DropReceiver(r)
  PROVE  Contract!Leave(r)
<1>1. /\ rx[r] = "open" /\ rx' = [rx EXCEPT ![r] = "dropped"]
      /\ channel' = [channel EXCEPT ![r] = <<>>]
      /\ UNCHANGED <<subscribers, topic, next, count, received>>
  BY DEF DropReceiver
<1>2. rx'[r] = "dropped" /\ \A q \in Receivers : q # r => rx'[q] = rx[q] /\ channel'[q] = channel[q]
  BY <1>1 DEF RouterInv, ListsInv, ChannelsInv
<1>3. Member[r] = "open" /\ Member' = [Member EXCEPT ![r] = "left"]
  BY <1>1, <1>2 DEF Member
<1>4. Inbox' = [Inbox EXCEPT ![r] = <<>>]
  <2>1. Inbox'[r] = <<>>
    BY <1>2 DEF Inbox
  <2>2. \A q \in Receivers : q # r => Inbox'[q] = Inbox[q]
    BY <1>1, <1>2 DEF Inbox
  <2> QED
    BY <2>1, <2>2 DEF Inbox
<1>5. Pending' = [p \in Publishers |-> Pending[p] \ {r}]
  <2>1. \A q \in Receivers, p \in Publishers : Due(q, p)' <=> Due(q, p)
    BY <1>1 DEF Due, Publishing
  <2>2. \A p \in Publishers : Pending'[p] = Pending[p] \ {r}
    BY <1>2, <2>1 DEF Pending
  <2> QED
    BY <2>2 DEF Pending
<1> QED
  BY <1>1, <1>3, <1>4, <1>5 DEF Contract!Leave

\* A call of publish owes its message to the members of its topic, the whole list of
\* them and nobody else, the dropped ones excepted.
LEMMA PublishRefines ==
  ASSUME RouterInv, NEW p \in Publishers, NEW t \in Topics, Publish(p, t)
  PROVE  Contract!Announce(p, t)
<1>1. /\ topic[p] = NoTopic /\ UNCHANGED <<subscribers, rx, channel, received>>
      /\ count' = [count EXCEPT ![p][t] = count[p][t] + 1]
  BY DEF Publish, Publishing
<1>2. PublishersInv /\ ListsInv /\ ListedInv
  BY DEF RouterInv
<1>3. \A r \in Receivers : ~Due(r, p)
  BY <1>1 DEF Due, Publishing
<1>4. Pending[p] = {}
  BY <1>3 DEF Pending
<1>5. ASSUME NEW r \in Receivers, rx[r] = "open" PROVE Due(r, p)' <=> TopicOf[r] = t
  <2>1. CASE subscribers[t] = <<>>
    <3>1. topic'[p] = NoTopic
      BY <1>1, <2>1 DEF Publish
    <3>2. Values(subscribers[t]) = {}
      BY <2>1, EmptySeq DEF Values
    <3> QED
      BY <1>2, <1>5, <3>1, <3>2 DEF Due, Publishing, ListedInv
  <2>2. CASE subscribers[t] # <<>>
    <3>1. topic'[p] = t /\ next'[p] = 1 /\ t # NoTopic
      BY <1>2, <2>2, RouterAssumption DEF RouterAssumption, Publish, PublishersInv, ListsInv
    <3>2. TopicOf[r] = t => \E i \in 1..Len(subscribers[t]) : subscribers[t][i] = r
      BY <1>2, <1>5 DEF ListedInv, Values
    <3> QED
      BY <1>1, <3>1, <3>2 DEF Due, Publishing
  <2> QED
    BY <2>1, <2>2
<1>6. ASSUME NEW q \in Publishers, q # p, NEW r \in Receivers PROVE Due(r, q)' <=> Due(r, q)
  <2>1. topic'[q] = topic[q] /\ next'[q] = next[q]
    BY <1>2, <1>6 DEF Publish, PublishersInv, ListsInv
  <2> QED
    BY <1>1, <2>1 DEF Due, Publishing
<1>7. Pending' = [Pending EXCEPT ![p] = {r \in Receivers : Member[r] = "open" /\ TopicOf[r] = t}]
  <2>1. Pending'[p] = {r \in Receivers : Member[r] = "open" /\ TopicOf[r] = t}
    BY <1>1, <1>5 DEF Pending, Member
  <2>2. \A q \in Publishers : q # p => Pending'[q] = Pending[q]
    BY <1>1, <1>6 DEF Pending
  <2> QED
    BY <2>1, <2>2 DEF Pending
<1>8. Member' = Member /\ Inbox' = Inbox
  BY <1>1 DEF Member, Inbox
<1> QED
  BY <1>1, <1>4, <1>7, <1>8 DEF Contract!Announce

\* A send gives the message to the member whose turn it is; to one that has left it
\* gives nothing, and owes it nothing.
LEMMA SendRefines ==
  ASSUME RouterInv, NEW p \in Publishers, Send(p)
  PROVE  \/ \E r \in Receivers : Contract!Deliver(p, r)
         \/ UNCHANGED <<Member, Inbox, Pending, count>>
<1>1. PICK r : r = Target(p)
  OBVIOUS
<1>2. PublishersInv /\ ChannelsInv /\ ListsInv /\ ListedInv
  BY DEF RouterInv
<1>3. UNCHANGED <<rx, count, received>>
  BY DEF Send
<1>4. /\ r \in Receivers /\ TopicOf[r] = topic[p] /\ Due(r, p) /\ ~Due(r, p)'
      /\ \A s \in Receivers, q \in Publishers : s # r \/ q # p => (Due(s, q)' <=> Due(s, q))
  BY <1>1, <1>2, SendDue
<1>5. Member' = Member
  BY <1>3 DEF Member
<1>6. CASE rx[r] = "open"
  <2> DEFINE m == [from |-> p, n |-> count[p][TopicOf[r]]]
  <2>1. channel' = [channel EXCEPT ![r] = Append(channel[r], m)]
    BY <1>1, <1>4, <1>6 DEF Send
  <2>2. m \in Message
    BY <1>2, <1>4 DEF Send, PublishersInv, Message
  <2> HIDE DEF m
  <2>3. received[r] \o Append(channel[r], m) = Append(received[r] \o channel[r], m)
    <3> DEFINE a == received[r]
               b == channel[r]
               c == <<m>>
    <3>1. a \in Seq(Message) /\ b \in Seq(Message) /\ a \o b \in Seq(Message) /\ c \in Seq(Message)
      BY <1>2, <1>4, <2>2, ReachedType DEF ListsInv, ChannelsInv
    <3>2. Append(b, m) = b \o c /\ Append(a \o b, m) = (a \o b) \o c
      BY <2>2, <3>1, AppendIsConcat
    <3> HIDE DEF a, b, c
    <3>3. (a \o b) \o c = a \o (b \o c)
      BY <3>1, ConcatAssociative
    <3> QED
      BY <3>2, <3>3 DEF a, b
  <2>4. Inbox' = [Inbox EXCEPT ![r] = Append(@, m)]
    <3>1. Inbox'[r] = Append(Inbox[r], m)
      BY <1>2, <1>3, <1>4, <1>6, <2>1, <2>3 DEF Inbox, ChannelsInv
    <3>2. \A s \in Receivers : s # r => Inbox'[s] = Inbox[s]
      BY <1>2, <1>3, <2>1 DEF Inbox, ChannelsInv
    <3> QED
      BY <3>1, <3>2 DEF Inbox
  <2>5. r \in Pending[p] /\ Pending' = [Pending EXCEPT ![p] = @ \ {r}]
    <3>1. r \in Pending[p] /\ Pending'[p] = Pending[p] \ {r}
      BY <1>3, <1>4, <1>6 DEF Pending
    <3>2. \A q \in Publishers : q # p => Pending'[q] = Pending[q]
      BY <1>3, <1>4 DEF Pending
    <3> QED
      BY <3>1, <3>2 DEF Pending
  <2> QED
    BY <1>3, <1>4, <1>5, <2>4, <2>5 DEF Contract!Deliver, m
<1>7. CASE rx[r] # "open"
  <2>1. UNCHANGED channel
    BY <1>1, <1>7 DEF Send
  <2>2. Inbox' = Inbox
    BY <1>3, <2>1 DEF Inbox
  <2>3. Pending' = Pending
    BY <1>3, <1>4, <1>7, SamePending
  <2> QED
    BY <1>3, <1>5, <2>2, <2>3
<1> QED
  BY <1>6, <1>7

\* The router implements its contract: a step of it is one step of the contract, or
\* none: waiting for a lock or for room, reading and cleaning up are none.
THEOREM RouterImplementsContract == Spec => ImplementsContract
<1>1. Init => Contract!ContractInit
  <2> SUFFICES ASSUME Init PROVE Contract!ContractInit
    OBVIOUS
  <2>1. Pending = [p \in Publishers |-> {}]
    BY DEF Init, Pending
  <2> QED
    BY <2>1 DEF Init, Contract!ContractInit, Member, Inbox
<1>2. RouterInv /\ [Next]_vars => [Contract!ContractNext]_(Contract!contractVars)
  <2> SUFFICES ASSUME RouterInv, [Next]_vars
               PROVE  Contract!ContractNext \/ UNCHANGED <<Member, Inbox, Pending, count>>
    BY DEF Contract!contractVars
  <2>1. ASSUME NEW r \in Receivers, CallSubscribe(r)
        PROVE  UNCHANGED <<Member, Inbox, Pending, count>>
    <3>1. /\ rx[r] = "none" /\ rx'[r] = "subscribing"
          /\ \A q \in Receivers : q # r => rx'[q] = rx[q]
          /\ UNCHANGED <<subscribers, channel, topic, next, count, received>>
      BY <2>1 DEF CallSubscribe, RouterInv, ListsInv
    <3>2. Pending' = Pending
      <4>1. \A q \in Receivers, p \in Publishers : Due(q, p)' <=> Due(q, p)
        BY <3>1 DEF Due, Publishing
      <4> QED
        BY <3>1, <4>1, SamePending
    <3> QED
      BY <3>1, <3>2 DEF Member, Inbox
  <2>2. ASSUME NEW r \in Receivers, Receive(r)
        PROVE  UNCHANGED <<Member, Inbox, Pending, count>>
    <3>1. UNCHANGED <<subscribers, rx, topic, next, count>>
      BY <2>2 DEF Receive
    <3>2. \A q \in Receivers : received'[q] \o channel'[q] = received[q] \o channel[q]
      BY <2>2, ReceiveKeeps DEF RouterInv
    <3>3. \A q \in Receivers, p \in Publishers : Due(q, p)' <=> Due(q, p)
      BY <3>1 DEF Due, Publishing
    <3> QED
      BY <3>1, <3>2, <3>3, SamePending DEF Member, Inbox
  <2>3. CASE CleanShard
    <3>1. UNCHANGED <<rx, channel, count, received>>
      BY <2>3 DEF CleanShard
    <3>2. \A q \in Receivers, p \in Publishers : Due(q, p)' <=> Due(q, p)
      BY <2>3, CleanDue DEF RouterInv
    <3> QED
      BY <3>1, <3>2, SamePending DEF Member, Inbox
  <2>4. CASE CallCleanup \/ UNCHANGED vars
    <3>1. UNCHANGED <<subscribers, rx, channel, topic, next, count, received>>
      BY <2>4 DEF CallCleanup, vars
    <3>2. \A q \in Receivers, p \in Publishers : Due(q, p)' <=> Due(q, p)
      BY <3>1 DEF Due, Publishing
    <3> QED
      BY <3>1, <3>2, SamePending DEF Member, Inbox
  <2> QED
    BY <2>1, <2>2, <2>3, <2>4, SubscribeRefines, DropRefines, PublishRefines, SendRefines
    DEF Next, Contract!ContractNext
<1> QED
  BY <1>1, <1>2, RouterInvariant, PTL DEF Spec, ImplementsContract, Contract!ContractSpec
===============================================================================
