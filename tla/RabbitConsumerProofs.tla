------------------------- MODULE RabbitConsumerProofs -------------------------
(***************************************************************************)
(* Proofs about RabbitConsumer, for every set of messages and every bound. *)
(***************************************************************************)
EXTENDS RabbitConsumer, SequenceTheorems, TLAPS

USE ConsumerAssumption

(* Appending to a sequence: what a delivery does to an inbox. *)
LEMMA AppendElements ==
  ASSUME NEW s \in Seq(Messages), NEW m \in Messages
  PROVE  /\ Append(s, m) \in Seq(Messages) /\ Append(s, m) # <<>>
         /\ Elements(Append(s, m)) = Elements(s) \cup {m}
         /\ s # <<>> => Head(Append(s, m)) = Head(s)
<1>1. /\ Append(s, m) \in Seq(Messages) /\ Append(s, m) # <<>>
      /\ Len(Append(s, m)) = Len(s) + 1
      /\ \A i \in 1..Len(s) : Append(s, m)[i] = s[i]
      /\ Append(s, m)[Len(s) + 1] = m
  BY AppendProperties
<1>2. Len(s) \in Nat
  OBVIOUS
<1>3. Elements(Append(s, m)) = Elements(s) \cup {m}
  BY <1>1, <1>2 DEF Elements
<1>4. s # <<>> => Head(Append(s, m)) = Head(s)
  BY <1>1
<1> QED BY <1>1, <1>3, <1>4

(* Taking the head off a sequence. *)
LEMMA TailElements ==
  ASSUME NEW s \in Seq(Messages), s # <<>>
  PROVE  /\ Tail(s) \in Seq(Messages) /\ Head(s) \in Elements(s)
         /\ Elements(Tail(s)) \subseteq Elements(s)
         /\ Elements(s) \subseteq Messages
<1>1. /\ Len(s) \in Nat /\ Len(s) >= 1
      /\ Tail(s) \in Seq(Messages) /\ Len(Tail(s)) = Len(s) - 1
      /\ \A i \in 1..Len(Tail(s)) : Tail(s)[i] = s[i + 1]
      /\ Head(s) = s[1]
  BY HeadTailProperties
<1>2. Elements(Tail(s)) \subseteq Elements(s)
  BY <1>1 DEF Elements
<1> QED BY <1>1, <1>2 DEF Elements

(* The head of a sequence without repetitions does not come back in its tail. *)
LEMMA DistinctTail ==
  ASSUME NEW s \in Seq(Messages), s # <<>>,
         Distinct(s)
  PROVE  /\ Head(s) \notin Elements(Tail(s))
         /\ Distinct(Tail(s))
<1>1. /\ Len(s) \in Nat /\ Len(s) >= 1
      /\ Len(Tail(s)) = Len(s) - 1
      /\ \A i \in 1..Len(Tail(s)) : Tail(s)[i] = s[i + 1]
      /\ Head(s) = s[1]
  BY HeadTailProperties
<1> QED BY <1>1 DEF Elements, Distinct

(* Appending something new keeps a sequence free of repetitions. *)
LEMMA DistinctAppend ==
  ASSUME NEW s \in Seq(Messages), NEW m \in Messages, m \notin Elements(s),
         Distinct(s)
  PROVE  Distinct(Append(s, m))
<1>1. /\ Len(s) \in Nat
      /\ Len(Append(s, m)) = Len(s) + 1
      /\ \A i \in 1..Len(s) : Append(s, m)[i] = s[i]
      /\ Append(s, m)[Len(s) + 1] = m
  BY AppendProperties
<1> QED BY <1>1 DEF Elements, Distinct

(* The empty inbox. *)
LEMMA EmptyInbox == Elements(<<>>) = {} /\ Distinct(<<>>)
BY DEF Elements, Distinct

\* What an inbox looks like: its head, if any, occurs in it once.
InboxFact(k) ==
  /\ inbox[k] \in Seq(Messages) /\ Elements(inbox[k]) \subseteq Messages
  /\ inbox[k] # <<>> =>
       /\ Head(inbox[k]) \in Messages /\ Head(inbox[k]) \in Elements(inbox[k])
       /\ Tail(inbox[k]) \in Seq(Messages)
       /\ Elements(Tail(inbox[k])) \subseteq Elements(inbox[k])
       /\ Head(inbox[k]) \notin Elements(Tail(inbox[k]))
       /\ Distinct(Tail(inbox[k]))

(* InboxFact follows from the invariant for both tasks. *)
LEMMA InboxFacts ==
  ASSUME TypeOK, CopiesInv
  PROVE  \A k \in Consumers : InboxFact(k)
<1> SUFFICES ASSUME NEW k \in Consumers PROVE InboxFact(k)
  OBVIOUS
<1>1. inbox[k] \in Seq(Messages) /\ Distinct(inbox[k])
  BY DEF TypeOK, CopiesInv
<1>2. Elements(inbox[k]) \subseteq Messages
  BY <1>1 DEF Elements
<1> QED BY <1>1, <1>2, TailElements, DistinctTail DEF InboxFact

-----------------------------------------------------------------------------
(* Every action keeps ConsumerInv; abbreviations are expanded throughout. *)

USE DEF brokerVars, queueVars, taskVars, historyVars, boundVars, Held, Copies, HandledThisRun,
        Handled, InBroker, NoMessages, Everywhere, Consumers, Main, Dlq, Working, PCs, SetupPhases

(* Publishing adds a message that nobody has handled yet. *)
LEMMA PublishKeepsInv ==
  ASSUME ConsumerInv, NEW m \in Messages, Publish(m)
  PROVE  ConsumerInv'
<1> USE DEF Publish
<1>1. TypeOK /\ PhaseInv /\ TopologyInv /\ CustodyInv /\ CopiesInv /\ HandledInv /\ StrikesInv
  BY DEF ConsumerInv
<1>2. TypeOK'
  BY <1>1 DEF TypeOK
<1>3. PhaseInv'
  BY <1>1 DEF PhaseInv
<1>4. TopologyInv'
  BY <1>1 DEF TopologyInv
<1>5. CustodyInv'
  BY <1>1 DEF CustodyInv, TypeOK
<1>6. CopiesInv'
  <2>1. \A k \in Consumers : Held(k) \cup brokerLost \subseteq Held(k)' \cup brokerLost'
    BY <1>1 DEF TypeOK
  <2> QED BY <1>1, <2>1 DEF CopiesInv, OneLoopPerMessage
<1>7. HandledInv'
  <2>1. AtLeastOnce'
    BY <1>1 DEF HandledInv, AtLeastOnce, TypeOK
  <2>2. NoReprocessingInRun'
    BY <1>1 DEF HandledInv, NoReprocessingInRun, TypeOK
  <2> QED BY <1>1, <2>1, <2>2 DEF HandledInv
<1>8. StrikesInv'
  BY <1>1 DEF StrikesInv, DeadLetteredOnlyAfterRetries, TypeOK
<1> QED BY <1>2, <1>3, <1>4, <1>5, <1>6, <1>7, <1>8 DEF ConsumerInv

(* A delivery moves a message from ready to unacked and appends it to one inbox. *)
LEMMA DeliverKeepsInv ==
  ASSUME ConsumerInv, NEW c \in Consumers, NEW m \in Messages, Deliver(c, m)
  PROVE  ConsumerInv'
<1> USE DEF Deliver
<1>1. TypeOK /\ PhaseInv /\ TopologyInv /\ CustodyInv /\ CopiesInv /\ HandledInv /\ StrikesInv
  BY DEF ConsumerInv
<1>2. m \in ready[c] /\ chan = "open" /\ m \notin unacked[c] /\ m \notin Elements(inbox[c])
  BY <1>1 DEF CustodyInv, CopiesInv
<1>3. inbox'[c] = Append(inbox[c], m) /\ \A k \in Consumers : k # c => inbox'[k] = inbox[k]
  BY <1>1 DEF TypeOK
<1>4. /\ Elements(inbox'[c]) = Elements(inbox[c]) \cup {m} /\ Distinct(inbox'[c])
      /\ inbox[c] # <<>> => Head(inbox'[c]) = Head(inbox[c])
      /\ inbox'[c] # <<>> /\ inbox'[c] \in Seq(Messages)
  <2>1. inbox[c] \in Seq(Messages) /\ Distinct(inbox[c])
    BY <1>1 DEF TypeOK, CopiesInv
  <2> QED BY <1>2, <1>3, <2>1, AppendElements, DistinctAppend
<1>5. /\ \A k \in Consumers : Held(k)' = Held(k)
      /\ \A k \in Consumers : k # c => unacked'[k] = unacked[k] /\ ready'[k] = ready[k]
      /\ unacked'[c] = unacked[c] \cup {m} /\ ready'[c] = ready[c] \ {m}
  BY <1>1 DEF TypeOK
<1>6. TypeOK'
  BY <1>1, <1>3 DEF TypeOK
<1>7. PhaseInv'
  BY <1>1 DEF PhaseInv
<1>8. TopologyInv'
  BY <1>1 DEF TopologyInv
<1>9. CustodyInv'
  BY <1>1, <1>5 DEF CustodyInv
<1>10. CopiesInv'
  <2>1. OneLoopPerMessage'
    BY <1>1, <1>4 DEF CopiesInv, OneLoopPerMessage, CustodyInv
  <2>2. m \notin acks[c] \cup nacks[c]
    BY <1>1 DEF CustodyInv
  <2>3. ASSUME NEW k \in Consumers
        PROVE  /\ Distinct(inbox'[k])
               /\ Elements(inbox'[k]) \subseteq Held(k)' \cup brokerLost'
               /\ Elements(inbox'[k]) \subseteq unacked'[k] \ (acks'[k] \cup nacks'[k])
               /\ pc'[k] \in Working => inbox'[k] # <<>>
    <3>1. CASE k = c
      BY <1>1, <1>4, <1>5, <2>2 DEF CopiesInv
    <3>2. CASE k # c
      BY <1>1, <3>2 DEF CopiesInv
    <3> QED BY <3>1, <3>2
  <2> QED BY <2>1, <2>3 DEF CopiesInv
<1>11. HandledInv'
  <2>1. AtLeastOnce'
    BY <1>1, <1>5 DEF HandledInv, AtLeastOnce
  <2>2. ASSUME NEW k \in Consumers, NEW n \in Messages, HandledThisRun(n)
        PROVE  /\ n \in Elements(inbox'[k]) => n = Head(inbox'[k]) /\ pc'[k] = "ack"
               /\ n \notin ready'[k]
    <3>1. n \in Elements(inbox[k]) => n = Head(inbox[k]) /\ pc[k] = "ack" /\ inbox[k] # <<>>
      BY <1>1, <2>2, EmptyInbox DEF HandledInv, NoReprocessingInRun
    <3>2. n \notin ready[k]
      BY <1>1, <2>2 DEF HandledInv, NoReprocessingInRun
    <3>3. CASE k = c
      BY <1>4, <3>1, <3>2
    <3>4. CASE k # c
      BY <3>1, <3>2, <3>4
    <3> QED BY <3>3, <3>4
  <2>3. NoReprocessingInRun'
    BY <2>2 DEF NoReprocessingInRun
  <2>4. \A k \in Consumers : pc[k] = "ack" => Head(inbox'[k]) = Head(inbox[k])
    BY <1>1 DEF CopiesInv
  <2> QED BY <1>1, <2>1, <2>3, <2>4 DEF HandledInv
<1>12. StrikesInv'
  <2>1. \A k \in Consumers : pc[k] \in Working => Head(inbox'[k]) = Head(inbox[k])
    BY <1>1 DEF CopiesInv
  <2> QED BY <1>1, <2>1 DEF StrikesInv, DeadLetteredOnlyAfterRetries
<1> QED BY <1>6, <1>7, <1>8, <1>9, <1>10, <1>11, <1>12 DEF ConsumerInv

(* The broker forgets a message whose handler has succeeded. *)
LEMMA BrokerAckKeepsInv ==
  ASSUME ConsumerInv, NEW c \in Consumers, NEW m \in Messages, BrokerAck(c, m)
  PROVE  ConsumerInv'
<1> USE DEF BrokerAck
<1>1. TypeOK /\ PhaseInv /\ TopologyInv /\ CustodyInv /\ CopiesInv /\ HandledInv /\ StrikesInv
  BY DEF ConsumerInv
<1>2. m \in unacked[c] /\ m \notin Elements(inbox[c])
  BY <1>1 DEF CustodyInv, CopiesInv, PhaseInv, TypeOK
<1>3. \A k \in Consumers : Elements(inbox[k]) \cap unacked[k] \subseteq unacked'[k]
  BY <1>2
<1>4. TypeOK'
  BY <1>1 DEF TypeOK
<1>5. PhaseInv'
  BY <1>1 DEF PhaseInv
<1>6. TopologyInv'
  BY <1>1 DEF TopologyInv
<1>7. CustodyInv'
  BY <1>1 DEF CustodyInv, TypeOK
<1>8. CopiesInv'
  BY <1>1, <1>3 DEF CopiesInv, OneLoopPerMessage
<1>9. HandledInv'
  BY <1>1 DEF HandledInv, AtLeastOnce, NoReprocessingInRun
<1>10. StrikesInv'
  BY <1>1 DEF StrikesInv, DeadLetteredOnlyAfterRetries
<1> QED BY <1>4, <1>5, <1>6, <1>7, <1>8, <1>9, <1>10 DEF ConsumerInv

(* The broker requeues or dead-letters a message no loop has a copy of any more. *)
LEMMA BrokerNackKeepsInv ==
  ASSUME ConsumerInv, NEW c \in Consumers, NEW m \in Messages, BrokerNack(c, m)
  PROVE  ConsumerInv'
<1> USE DEF BrokerNack, NackRequeues, DeadLetterRoute
<1>1. TypeOK /\ PhaseInv /\ TopologyInv /\ CustodyInv /\ CopiesInv /\ HandledInv /\ StrikesInv
  BY DEF ConsumerInv
<1>2. \A k \in Consumers : InboxFact(k)
  BY InboxFacts, <1>1
<1>3. TypeOK'
  BY <1>1 DEF TypeOK
<1>4. PhaseInv'
  BY <1>1 DEF PhaseInv
<1>5. TopologyInv'
  BY <1>1 DEF TopologyInv
<1>6. CustodyInv'
  BY <1>1 DEF CustodyInv, TypeOK
<1>7. CopiesInv'
  BY <1>1, <1>2 DEF CopiesInv, OneLoopPerMessage, TypeOK, PhaseInv, CustodyInv, InboxFact
<1>8. HandledInv'
  BY <1>1 DEF HandledInv, AtLeastOnce, NoReprocessingInRun, TypeOK, PhaseInv, OneLoopPerMessage, TopologyInv
<1>9. StrikesInv'
  BY <1>1 DEF StrikesInv, DeadLetteredOnlyAfterRetries, TypeOK, CustodyInv
<1> QED BY <1>3, <1>4, <1>5, <1>6, <1>7, <1>8, <1>9 DEF ConsumerInv

(* A lost channel requeues everything; the copies in the inboxes go stale. *)
LEMMA ChannelLostKeepsInv ==
  ASSUME ConsumerInv, ChannelLost
  PROVE  ConsumerInv'
<1> USE DEF ChannelLost, Fault, Disconnect, StreamFails
<1>1. TypeOK /\ PhaseInv /\ TopologyInv /\ CustodyInv /\ CopiesInv /\ HandledInv /\ StrikesInv
  BY DEF ConsumerInv
<1>2. TypeOK'
  BY <1>1 DEF TypeOK
<1>3. PhaseInv'
  BY <1>1 DEF PhaseInv
<1>4. TopologyInv'
  BY DEF TopologyInv
<1>5. CustodyInv'
  BY <1>1 DEF CustodyInv
<1>6. CopiesInv'
  BY <1>1 DEF CopiesInv, OneLoopPerMessage, TypeOK
<1>7. HandledInv'
  BY <1>1 DEF HandledInv, AtLeastOnce, NoReprocessingInRun, TypeOK
<1>8. StrikesInv'
  BY <1>1 DEF StrikesInv, DeadLetteredOnlyAfterRetries
<1> QED BY <1>2, <1>3, <1>4, <1>5, <1>6, <1>7, <1>8 DEF ConsumerInv

(* A broker restart also loses transient messages and the dead-letter exchange. *)
LEMMA BrokerRestartKeepsInv ==
  ASSUME ConsumerInv, BrokerRestart
  PROVE  ConsumerInv'
<1> USE DEF BrokerRestart, Fault, Disconnect, StreamFails, SurvivesRestart
<1>1. TypeOK /\ PhaseInv /\ TopologyInv /\ CustodyInv /\ CopiesInv /\ HandledInv /\ StrikesInv
  BY DEF ConsumerInv
<1>2. TypeOK'
  <2>1. topology' \in SUBSET SetupPhases /\ brokerLost' \in SUBSET Messages
    BY <1>1 DEF TypeOK
  <2> QED BY <1>1, <2>1 DEF TypeOK
<1>3. PhaseInv'
  BY <1>1 DEF PhaseInv
<1>4. TopologyInv'
  BY DEF TopologyInv
<1>5. CustodyInv'
  BY <1>1 DEF CustodyInv
<1>6. CopiesInv'
  BY <1>1, EmptyInbox DEF CopiesInv, OneLoopPerMessage, TypeOK, CustodyInv
<1>7. HandledInv'
  BY <1>1 DEF HandledInv, AtLeastOnce, NoReprocessingInRun, TypeOK
<1>8. StrikesInv'
  BY <1>1 DEF StrikesInv, DeadLetteredOnlyAfterRetries
<1> QED BY <1>2, <1>3, <1>4, <1>5, <1>6, <1>7, <1>8 DEF ConsumerInv

(* A new run of the process starts with empty inboxes and a fresh run number. *)
LEMMA StartKeepsInv ==
  ASSUME ConsumerInv, Start
  PROVE  ConsumerInv'
<1> USE DEF Start
<1>1. TypeOK /\ PhaseInv /\ TopologyInv /\ CustodyInv /\ CopiesInv /\ HandledInv /\ StrikesInv
  BY DEF ConsumerInv
<1>2. TypeOK'
  BY <1>1 DEF TypeOK
<1>3. PhaseInv'
  BY <1>1 DEF PhaseInv, TypeOK
<1>4. TopologyInv'
  BY DEF TopologyInv
<1>5. CustodyInv'
  BY <1>1 DEF CustodyInv
<1>6. CopiesInv'
  BY <1>1 DEF CopiesInv, OneLoopPerMessage, PhaseInv
<1>7. HandledInv'
  BY <1>1 DEF HandledInv, AtLeastOnce, NoReprocessingInRun, TypeOK, PhaseInv, CustodyInv
<1>8. StrikesInv'
  BY <1>1 DEF StrikesInv, DeadLetteredOnlyAfterRetries
<1> QED BY <1>2, <1>3, <1>4, <1>5, <1>6, <1>7, <1>8 DEF ConsumerInv

(* Each declaration is made before the ones that rely on it. *)
LEMMA SetupKeepsInv ==
  ASSUME ConsumerInv, Setup
  PROVE  ConsumerInv'
<1> USE DEF Setup, Declare, SpawnConsumers
<1>1. TypeOK /\ PhaseInv /\ TopologyInv /\ CustodyInv /\ CopiesInv /\ HandledInv /\ StrikesInv
  BY DEF ConsumerInv
<1>2. \A k \in Consumers : InboxFact(k)
  BY InboxFacts, <1>1
<1>3. TypeOK'
  BY <1>1, <1>2, EmptyInbox DEF TypeOK, InboxFact
<1>4. PhaseInv'
  BY <1>1 DEF PhaseInv
<1>5. TopologyInv'
  BY <1>1 DEF TopologyInv
<1>6. CustodyInv'
  BY <1>1 DEF CustodyInv
<1>7. CopiesInv'
  BY <1>1 DEF CopiesInv, OneLoopPerMessage, PhaseInv
<1>8. HandledInv'
  BY <1>1 DEF HandledInv, AtLeastOnce, NoReprocessingInRun, PhaseInv
<1>9. StrikesInv'
  BY <1>1 DEF StrikesInv, DeadLetteredOnlyAfterRetries
<1> QED BY <1>3, <1>4, <1>5, <1>6, <1>7, <1>8, <1>9 DEF ConsumerInv

(* Whenever the process ends, everything unsettled is ready again. *)
LEMMA ProcessEndsKeepsInv ==
  ASSUME ConsumerInv, ProcessEnds, faults' \in 0..MaxFaults
  PROVE  ConsumerInv'
<1> USE DEF ProcessEnds, Disconnect
<1>1. TypeOK /\ PhaseInv /\ TopologyInv /\ CustodyInv /\ CopiesInv /\ HandledInv /\ StrikesInv
  BY DEF ConsumerInv
<1>2. TypeOK'
  BY <1>1 DEF TypeOK
<1>3. PhaseInv'
  BY DEF PhaseInv
<1>4. TopologyInv'
  BY DEF TopologyInv
<1>5. CustodyInv'
  BY <1>1 DEF CustodyInv
<1>6. CopiesInv'
  BY EmptyInbox DEF CopiesInv, OneLoopPerMessage
<1>7. HandledInv'
  BY <1>1, EmptyInbox DEF HandledInv, AtLeastOnce, NoReprocessingInRun, TypeOK
<1>8. StrikesInv'
  BY <1>1 DEF StrikesInv, DeadLetteredOnlyAfterRetries
<1> QED BY <1>2, <1>3, <1>4, <1>5, <1>6, <1>7, <1>8 DEF ConsumerInv

(* Closing the channel after both loops requeues what they had prefetched. *)
LEMMA ReleaseChannelKeepsInv ==
  ASSUME ConsumerInv, ReleaseChannel
  PROVE  ConsumerInv'
<1> USE DEF ReleaseChannel, AllDone, Disconnect
<1>1. TypeOK /\ PhaseInv /\ TopologyInv /\ CustodyInv /\ CopiesInv /\ HandledInv /\ StrikesInv
  BY DEF ConsumerInv
<1>2. TypeOK'
  BY <1>1 DEF TypeOK
<1>3. PhaseInv'
  BY <1>1 DEF PhaseInv
<1>4. TopologyInv'
  BY DEF TopologyInv
<1>5. CustodyInv'
  BY <1>1 DEF CustodyInv
<1>6. CopiesInv'
  BY <1>1 DEF CopiesInv, OneLoopPerMessage, TypeOK
<1>7. HandledInv'
  BY <1>1 DEF HandledInv, AtLeastOnce, NoReprocessingInRun, TypeOK
<1>8. StrikesInv'
  BY <1>1 DEF StrikesInv, DeadLetteredOnlyAfterRetries
<1> QED BY <1>2, <1>3, <1>4, <1>5, <1>6, <1>7, <1>8 DEF ConsumerInv

(* A loop starts with an empty inbox. *)
LEMMA BasicConsumeKeepsInv ==
  ASSUME ConsumerInv, NEW c \in Consumers, BasicConsume(c)
  PROVE  ConsumerInv'
<1> USE DEF BasicConsume
<1>1. TypeOK /\ PhaseInv /\ TopologyInv /\ CustodyInv /\ CopiesInv /\ HandledInv /\ StrikesInv
  BY DEF ConsumerInv
<1>2. \A k \in Consumers : InboxFact(k)
  BY InboxFacts, <1>1
<1>3. TypeOK'
  BY <1>1 DEF TypeOK
<1>4. PhaseInv'
  BY <1>1 DEF PhaseInv, TypeOK
<1>5. TopologyInv'
  BY <1>1 DEF TopologyInv
<1>6. CustodyInv'
  BY <1>1 DEF CustodyInv
<1>7. CopiesInv'
  BY <1>1, <1>2 DEF CopiesInv, OneLoopPerMessage, TypeOK, PhaseInv, InboxFact
<1>8. HandledInv'
  BY <1>1 DEF HandledInv, AtLeastOnce, NoReprocessingInRun, TypeOK, CustodyInv, TopologyInv
<1>9. StrikesInv'
  BY <1>1 DEF StrikesInv, DeadLetteredOnlyAfterRetries, TypeOK
<1> QED BY <1>3, <1>4, <1>5, <1>6, <1>7, <1>8, <1>9 DEF ConsumerInv

(* A new delivery starts with no strikes. *)
LEMMA TakeKeepsInv ==
  ASSUME ConsumerInv, NEW c \in Consumers, Take(c)
  PROVE  ConsumerInv'
<1> USE DEF Take
<1>1. TypeOK /\ PhaseInv /\ TopologyInv /\ CustodyInv /\ CopiesInv /\ HandledInv /\ StrikesInv
  BY DEF ConsumerInv
<1>2. \A k \in Consumers : InboxFact(k)
  BY InboxFacts, <1>1
<1>3. Head(inbox[c]) \in Messages /\ Head(inbox[c]) \in Elements(inbox[c])
  BY <1>2 DEF InboxFact
<1>4. 0 \in 0..MAX_RETRIES /\ 0 < MAX_RETRIES
  OBVIOUS
<1>5. TypeOK'
  <2>1. retries' \in 0..MAX_RETRIES
    BY <1>1 DEF TypeOK
  <2>2. strikes' \in [Messages -> 0..MAX_RETRIES]
    <3>1. CASE c = Main
      BY <1>1, <1>4, <3>1 DEF TypeOK
    <3>2. CASE c = Dlq
      BY <1>1, <3>2 DEF TypeOK
    <3> QED BY <3>1, <3>2
  <2> QED BY <1>1, <2>1, <2>2 DEF TypeOK
<1>6. PhaseInv'
  BY <1>1 DEF PhaseInv
<1>7. TopologyInv'
  BY <1>1 DEF TopologyInv
<1>8. CustodyInv'
  BY <1>1 DEF CustodyInv, PhaseInv
<1>9. CopiesInv'
  BY <1>1 DEF CopiesInv, OneLoopPerMessage
<1>10. HandledInv'
  BY <1>1 DEF HandledInv, AtLeastOnce, NoReprocessingInRun, TopologyInv
<1>11. StrikesInv'
  <2>1. CASE c = Main
    <3>1. Head(inbox[c]) \notin Held(Dlq) /\ Head(inbox[c]) \notin nacks[Main]
      BY <1>1, <1>3, <2>1 DEF CustodyInv, CopiesInv, PhaseInv, TypeOK
    <3> QED BY <1>1, <2>1, <3>1 DEF StrikesInv, DeadLetteredOnlyAfterRetries, TypeOK
  <2>2. CASE c = Dlq
    BY <1>1, <2>2 DEF StrikesInv, DeadLetteredOnlyAfterRetries
  <2> QED BY <2>1, <2>2
<1> QED BY <1>5, <1>6, <1>7, <1>8, <1>9, <1>10, <1>11 DEF ConsumerInv

(* A handler that succeeds makes the message handled in this run, and only one loop has it. *)
LEMMA HandleOkKeepsInv ==
  ASSUME ConsumerInv, NEW c \in Consumers, HandleOk(c)
  PROVE  ConsumerInv'
<1> USE DEF HandleOk, AfterSuccess
<1>1. TypeOK /\ PhaseInv /\ TopologyInv /\ CustodyInv /\ CopiesInv /\ HandledInv /\ StrikesInv
  BY DEF ConsumerInv
<1>2. \A k \in Consumers : InboxFact(k)
  BY InboxFacts, <1>1
<1>3. Head(inbox[c]) \in Messages /\ Head(inbox[c]) \in Elements(inbox[c]) /\ starts \in Nat /\ starts # 0 
  BY <1>1, <1>2 DEF InboxFact, CopiesInv, PhaseInv, TypeOK
<1>4. TypeOK'
  <2>1. handledIn' \in [Messages -> 0..starts]
    BY <1>1, <1>3 DEF TypeOK
  <2> QED BY <1>1, <2>1 DEF TypeOK
<1>5. PhaseInv'
  BY <1>1 DEF PhaseInv
<1>6. TopologyInv'
  BY <1>1 DEF TopologyInv
<1>7. CustodyInv'
  BY <1>1 DEF CustodyInv, PhaseInv
<1>8. CopiesInv'
  BY <1>1 DEF CopiesInv, OneLoopPerMessage, PhaseInv
<1>9. HandledInv'
  <2>1. /\ handledIn'[Head(inbox[c])] = starts
        /\ \A m \in Messages : m # Head(inbox[c]) => handledIn'[m] = handledIn[m]
    BY <1>1, <1>3 DEF TypeOK
  <2>2. AtLeastOnce'
    BY <1>1, <1>3 DEF HandledInv, AtLeastOnce
  <2>3. /\ \A k \in Consumers : k # c => Head(inbox[c]) \notin Elements(inbox[k])
        /\ \A k \in Consumers : chan = "open" => Head(inbox[c]) \notin ready[k]
        /\ \A k \in Consumers : Head(inbox[c]) \notin nacks[k]
        /\ Head(inbox[c]) \in published
    <3>1. \A k \in Consumers : k # c => Head(inbox[c]) \notin Elements(inbox[k])
      BY <1>1, <1>3 DEF CopiesInv, OneLoopPerMessage
    <3>2. Head(inbox[c]) \in Held(c) \cup brokerLost /\ Head(inbox[c]) \in published
      BY <1>1, <1>3 DEF CopiesInv, CustodyInv
    <3>3. CASE chan = "open"
      <4>1. Head(inbox[c]) \in unacked[c] /\ Head(inbox[c]) \notin nacks[c]
        BY <1>1, <1>3, <3>3 DEF CopiesInv
      <4> QED BY <1>1, <3>1, <4>1 DEF CustodyInv
    <3>4. CASE chan = "closed"
      <4>1. \A k \in Consumers : nacks[k] = {}
        BY <1>1, <3>4 DEF PhaseInv, CustodyInv
      <4> QED BY <3>1, <3>2, <3>4, <4>1
    <3> QED BY <1>1, <3>3, <3>4 DEF TypeOK
  <2>4. NoReprocessingInRun'
    BY <1>1, <2>3 DEF HandledInv, NoReprocessingInRun, TypeOK
  <2>5. \A m \in Messages : Handled(m)' => m \in published'
    BY <1>1, <2>3 DEF HandledInv
  <2>6. \A k \in Consumers : pc'[k] = "ack" => HandledThisRun(Head(inbox[k]))'
    BY <1>1, <1>3, <2>1 DEF HandledInv
  <2>7. \A k \in Consumers : \A m \in acks[k] : HandledThisRun(m)'
    BY <1>1 DEF HandledInv
  <2>8. \A k \in Consumers : \A m \in nacks[k] : ~HandledThisRun(m)'
    BY <1>1, <2>3 DEF HandledInv
  <2> QED BY <2>2, <2>4, <2>5, <2>6, <2>7, <2>8 DEF HandledInv
<1>10. StrikesInv'
  BY <1>1 DEF StrikesInv, DeadLetteredOnlyAfterRetries
<1> QED BY <1>4, <1>5, <1>6, <1>7, <1>8, <1>9, <1>10 DEF ConsumerInv

(* A handler failure is one more strike, and MAX_RETRIES of them end in a nack. *)
LEMMA HandleErrKeepsInv ==
  ASSUME ConsumerInv, NEW c \in Consumers, HandleErr(c)
  PROVE  ConsumerInv'
<1> USE DEF HandleErr, AfterFailure
<1>1. TypeOK /\ PhaseInv /\ TopologyInv /\ CustodyInv /\ CopiesInv /\ HandledInv /\ StrikesInv
  BY DEF ConsumerInv
<1>2. c = Main => (strikes[Head(inbox[c])] = retries /\ retries < MAX_RETRIES)
  BY <1>1 DEF StrikesInv
<1>3. c = Main => retries + 1 \in 0..MAX_RETRIES
  BY <1>1, <1>2 DEF TypeOK
<1>4. TypeOK'
  <2>1. CASE c = Main
    <3>1. strikes' = [strikes EXCEPT ![Head(inbox[c])] = strikes[Head(inbox[c])] + 1] /\ strikes[Head(inbox[c])] = retries
      BY <1>2, <2>1
    <3>2. strikes' \in [Messages -> 0..MAX_RETRIES]
      BY <1>1, <1>3, <3>1 DEF TypeOK
    <3>3. retries' \in 0..MAX_RETRIES
      BY <1>3, <2>1
    <3> QED BY <1>1, <3>2, <3>3 DEF TypeOK
  <2>2. CASE c = Dlq
    BY <1>1, <2>2 DEF TypeOK
  <2> QED BY <2>1, <2>2
<1>5. PhaseInv'
  BY <1>1 DEF PhaseInv
<1>6. TopologyInv'
  BY <1>1 DEF TopologyInv
<1>7. CustodyInv'
  BY <1>1 DEF CustodyInv
<1>8. CopiesInv'
  BY <1>1 DEF CopiesInv, OneLoopPerMessage, PhaseInv, CustodyInv
<1>9. HandledInv'
  BY <1>1 DEF HandledInv, AtLeastOnce, NoReprocessingInRun, PhaseInv, CustodyInv, CopiesInv, OneLoopPerMessage, TopologyInv
<1>10. StrikesInv'
  <2>1. CASE c = Main
    BY <1>1, <2>1 DEF StrikesInv, DeadLetteredOnlyAfterRetries, TypeOK
  <2>2. CASE c = Dlq
    BY <1>1, <2>2 DEF StrikesInv, DeadLetteredOnlyAfterRetries
  <2> QED BY <2>1, <2>2
<1> QED BY <1>4, <1>5, <1>6, <1>7, <1>8, <1>9, <1>10 DEF ConsumerInv

(* The backoff keeps the delivery and its strikes. *)
LEMMA WakeKeepsInv ==
  ASSUME ConsumerInv, NEW c \in Consumers, Wake(c)
  PROVE  ConsumerInv'
<1> USE DEF Wake
<1>1. TypeOK /\ PhaseInv /\ TopologyInv /\ CustodyInv /\ CopiesInv /\ HandledInv /\ StrikesInv
  BY DEF ConsumerInv
<1>2. TypeOK'
  BY <1>1 DEF TypeOK
<1>3. PhaseInv'
  BY <1>1 DEF PhaseInv
<1>4. TopologyInv'
  BY <1>1 DEF TopologyInv
<1>5. CustodyInv'
  BY <1>1 DEF CustodyInv
<1>6. CopiesInv'
  BY <1>1 DEF CopiesInv, OneLoopPerMessage
<1>7. HandledInv'
  BY <1>1 DEF HandledInv, AtLeastOnce, NoReprocessingInRun, TopologyInv
<1>8. StrikesInv'
  BY <1>1 DEF StrikesInv, DeadLetteredOnlyAfterRetries
<1> QED BY <1>2, <1>3, <1>4, <1>5, <1>6, <1>7, <1>8 DEF ConsumerInv

(* Settling takes the head off the inbox and puts at most one frame on the wire. *)
LEMMA SettleKeepsInv ==
  ASSUME ConsumerInv, NEW c \in Consumers, Settle(c)
  PROVE  ConsumerInv'
<1> USE DEF Settle
<1>1. TypeOK /\ PhaseInv /\ TopologyInv /\ CustodyInv /\ CopiesInv /\ HandledInv /\ StrikesInv
  BY DEF ConsumerInv
<1>2. \A k \in Consumers : InboxFact(k)
  BY InboxFacts, <1>1
<1>3. inbox[c] # <<>> /\ Head(inbox[c]) \in Messages /\ Head(inbox[c]) \in Elements(inbox[c])
  BY <1>1, <1>2 DEF InboxFact, CopiesInv
<1>4. /\ inbox'[c] = Tail(inbox[c]) /\ Elements(inbox'[c]) \subseteq Elements(inbox[c]) \ {Head(inbox[c])} /\ Distinct(inbox'[c]) /\ inbox'[c] \in Seq(Messages)
      /\ \A k \in Consumers \ {c} : inbox'[k] = inbox[k]
  BY <1>1, <1>2, <1>3 DEF InboxFact, TypeOK
<1>5. /\ chan = "open" => Head(inbox[c]) \in unacked[c] /\ Head(inbox[c]) \notin acks[c] \cup nacks[c]
      /\ pc[c] = "ack" => HandledThisRun(Head(inbox[c]))
      /\ pc[c] = "nack" => ~HandledThisRun(Head(inbox[c]))
  BY <1>1, <1>3 DEF CopiesInv, HandledInv, NoReprocessingInRun
<1>6. \A k \in Consumers :
        /\ acks'[k] \subseteq acks[k] \cup {Head(inbox[c])}
        /\ nacks'[k] \subseteq nacks[k] \cup {Head(inbox[c])}
        /\ k # c \/ chan = "closed" => (acks'[k] = acks[k] /\ nacks'[k] = nacks[k])
        /\ pc[c] = "ack" => nacks'[k] = nacks[k]
        /\ pc[c] = "nack" => acks'[k] = acks[k]
  BY <1>1
<1>7. TypeOK'
  <2>1. acks' \in [Consumers -> SUBSET Messages] /\ nacks' \in [Consumers -> SUBSET Messages]
    BY <1>1, <1>3 DEF TypeOK
  <2>2. inbox' \in [Consumers -> Seq(Messages)]
    BY <1>1, <1>4 DEF TypeOK
  <2> QED BY <1>1, <2>1, <2>2 DEF TypeOK
<1>8. PhaseInv'
  BY <1>1 DEF PhaseInv
<1>9. TopologyInv'
  BY <1>1 DEF TopologyInv
<1>10. CustodyInv'
  BY <1>1, <1>5 DEF CustodyInv
<1>11. CopiesInv'
  <2>1. OneLoopPerMessage'
    BY <1>1, <1>4 DEF CopiesInv, OneLoopPerMessage
  <2>2. ASSUME NEW k \in Consumers
        PROVE  /\ Distinct(inbox'[k])
               /\ Elements(inbox'[k]) \subseteq Held(k)' \cup brokerLost'
               /\ chan' = "open" => Elements(inbox'[k]) \subseteq unacked'[k] \ (acks'[k] \cup nacks'[k])
               /\ pc'[k] \in Working => inbox'[k] # <<>>
    BY <1>1, <1>4, <1>6 DEF CopiesInv, TypeOK
  <2> QED BY <2>1, <2>2 DEF CopiesInv
<1>12. HandledInv'
  <2>1. AtLeastOnce'
    BY <1>1 DEF HandledInv, AtLeastOnce
  <2>2. NoReprocessingInRun'
    <3>1. \A n \in Messages : HandledThisRun(n) => n \notin Elements(inbox'[c])
      BY <1>1, <1>4 DEF HandledInv, NoReprocessingInRun
    <3> QED BY <1>1, <3>1 DEF HandledInv, NoReprocessingInRun
  <2>3. \A k \in Consumers : pc'[k] = "ack" => HandledThisRun(Head(inbox[k]))'
    <3>1. \A k \in Consumers : pc'[k] = "ack" => (k # c /\ pc[k] = "ack")
      BY <1>1 DEF TypeOK
    <3>2. \A k \in Consumers : pc[k] = "ack" => HandledThisRun(Head(inbox[k]))
      BY <1>1 DEF HandledInv
    <3> QED BY <3>1, <3>2
  <2>4. \A k \in Consumers : \A m \in acks'[k] : HandledThisRun(m)'
    BY <1>1 DEF HandledInv
  <2>5. \A k \in Consumers : \A m \in nacks'[k] : ~HandledThisRun(m)'
    BY <1>1, <1>5 DEF HandledInv
  <2> QED BY <1>1, <2>1, <2>2, <2>3, <2>4, <2>5 DEF HandledInv
<1>13. StrikesInv'
  BY <1>1 DEF StrikesInv, DeadLetteredOnlyAfterRetries, TypeOK
<1> QED BY <1>7, <1>8, <1>9, <1>10, <1>11, <1>12, <1>13 DEF ConsumerInv

(* The error item of the stream changes nothing else. *)
LEMMA ReceiveErrorKeepsInv ==
  ASSUME ConsumerInv, NEW c \in Consumers, ReceiveError(c)
  PROVE  ConsumerInv'
<1> USE DEF ReceiveError
<1>1. TypeOK /\ PhaseInv /\ TopologyInv /\ CustodyInv /\ CopiesInv /\ HandledInv /\ StrikesInv
  BY DEF ConsumerInv
<1>2. TypeOK'
  BY <1>1 DEF TypeOK
<1>3. PhaseInv'
  BY <1>1 DEF PhaseInv
<1>4. TopologyInv'
  BY <1>1 DEF TopologyInv
<1>5. CustodyInv'
  BY <1>1 DEF CustodyInv
<1>6. CopiesInv'
  BY <1>1 DEF CopiesInv, OneLoopPerMessage
<1>7. HandledInv'
  BY <1>1 DEF HandledInv, AtLeastOnce, NoReprocessingInRun
<1>8. StrikesInv'
  BY <1>1 DEF StrikesInv, DeadLetteredOnlyAfterRetries
<1> QED BY <1>2, <1>3, <1>4, <1>5, <1>6, <1>7, <1>8 DEF ConsumerInv

(* A loop that ends drops the copies it had prefetched. *)
LEMMA LoopEndsKeepsInv ==
  ASSUME ConsumerInv, NEW c \in Consumers, LoopEnds(c), pc[c] = "select"
  PROVE  ConsumerInv'
<1> USE DEF LoopEnds
<1>1. TypeOK /\ PhaseInv /\ TopologyInv /\ CustodyInv /\ CopiesInv /\ HandledInv /\ StrikesInv
  BY DEF ConsumerInv
<1>2. TypeOK'
  BY <1>1 DEF TypeOK
<1>3. PhaseInv'
  BY <1>1 DEF PhaseInv, TypeOK
<1>4. TopologyInv'
  BY <1>1 DEF TopologyInv
<1>5. CustodyInv'
  BY <1>1 DEF CustodyInv
<1>6. CopiesInv'
  BY <1>1, EmptyInbox DEF CopiesInv, OneLoopPerMessage, PhaseInv, CustodyInv
<1>7. HandledInv'
  BY <1>1, EmptyInbox DEF HandledInv, AtLeastOnce, NoReprocessingInRun
<1>8. StrikesInv'
  BY <1>1 DEF StrikesInv, DeadLetteredOnlyAfterRetries
<1> QED BY <1>2, <1>3, <1>4, <1>5, <1>6, <1>7, <1>8 DEF ConsumerInv

(* Shutdown signals touch no message. *)
LEMMA SignalKeepsInv ==
  ASSUME ConsumerInv, SendShutdown \/ DropSender
  PROVE  ConsumerInv'
<1> USE DEF SendShutdown, DropSender
<1>1. TypeOK /\ PhaseInv /\ TopologyInv /\ CustodyInv /\ CopiesInv /\ HandledInv /\ StrikesInv
  BY DEF ConsumerInv
<1>2. \A k \in Consumers : InboxFact(k)
  BY InboxFacts, <1>1
<1>3. TypeOK'
  BY <1>1, <1>2, EmptyInbox DEF TypeOK, InboxFact
<1>4. PhaseInv'
  BY <1>1 DEF PhaseInv
<1>5. TopologyInv'
  BY <1>1 DEF TopologyInv
<1>6. CustodyInv'
  BY <1>1 DEF CustodyInv
<1>7. CopiesInv'
  BY <1>1 DEF CopiesInv, OneLoopPerMessage, PhaseInv, CustodyInv
<1>8. HandledInv'
  BY <1>1 DEF HandledInv, AtLeastOnce, NoReprocessingInRun, PhaseInv, CustodyInv, CopiesInv, OneLoopPerMessage, TopologyInv
<1>9. StrikesInv'
  BY <1>1 DEF StrikesInv, DeadLetteredOnlyAfterRetries, OneLoopPerMessage
<1> QED BY <1>3, <1>4, <1>5, <1>6, <1>7, <1>8, <1>9 DEF ConsumerInv

(* Stuttering steps. *)
LEMMA StutterKeepsInv ==
  ASSUME ConsumerInv, UNCHANGED vars
  PROVE  ConsumerInv'
<1> USE DEF vars
<1>1. TypeOK /\ PhaseInv /\ TopologyInv /\ CustodyInv /\ CopiesInv /\ HandledInv /\ StrikesInv
  BY DEF ConsumerInv
<1>2. TypeOK'
  BY <1>1 DEF TypeOK
<1>3. PhaseInv'
  BY <1>1 DEF PhaseInv
<1>4. TopologyInv'
  BY <1>1 DEF TopologyInv
<1>5. CustodyInv'
  BY <1>1 DEF CustodyInv
<1>6. CopiesInv'
  BY <1>1 DEF CopiesInv, OneLoopPerMessage
<1>7. HandledInv'
  BY <1>1 DEF HandledInv, AtLeastOnce, NoReprocessingInRun
<1>8. StrikesInv'
  BY <1>1 DEF StrikesInv, DeadLetteredOnlyAfterRetries
<1> QED BY <1>2, <1>3, <1>4, <1>5, <1>6, <1>7, <1>8 DEF ConsumerInv

(* The invariant holds before anything is declared or published. *)
LEMMA InitInv == Init => ConsumerInv
<1> SUFFICES ASSUME Init PROVE ConsumerInv
  OBVIOUS
<1>1. TypeOK
  BY DEF Init, TypeOK
<1>2. PhaseInv /\ TopologyInv /\ CustodyInv
  BY DEF Init, PhaseInv, TopologyInv, CustodyInv
<1>3. CopiesInv
  BY EmptyInbox DEF Init, CopiesInv, OneLoopPerMessage
<1>4. HandledInv
  BY DEF Init, HandledInv, AtLeastOnce, NoReprocessingInRun
<1>5. StrikesInv
  BY DEF Init, StrikesInv, DeadLetteredOnlyAfterRetries
<1> QED BY <1>1, <1>2, <1>3, <1>4, <1>5 DEF ConsumerInv

(* The steps of main() and of the signal handler. *)
LEMMA LifecycleKeepsInv ==
  ASSUME ConsumerInv, Lifecycle
  PROVE  ConsumerInv'
<1>1. TypeOK
  BY DEF ConsumerInv
<1>2. CASE Start
  BY <1>2, StartKeepsInv
<1>3. CASE Setup
  BY <1>3, SetupKeepsInv
<1>4. CASE SetupFails \/ Crash \/ Exit
  <2>1. ProcessEnds
    BY <1>4 DEF SetupFails, Crash, Exit
  <2>2. faults' \in 0..MaxFaults
    BY <1>1, <1>4 DEF SetupFails, Crash, Exit, Fault, TypeOK
  <2> QED BY <2>1, <2>2, ProcessEndsKeepsInv
<1>5. CASE ReleaseChannel
  BY <1>5, ReleaseChannelKeepsInv
<1>6. CASE SendShutdown \/ DropSender
  BY <1>6, SignalKeepsInv
<1> QED BY <1>2, <1>3, <1>4, <1>5, <1>6 DEF Lifecycle

(* The steps of the two loops. *)
LEMMA TaskKeepsInv ==
  ASSUME ConsumerInv, NEW c \in Consumers, Task(c)
  PROVE  ConsumerInv'
<1>1. CASE BasicConsume(c) \/ Take(c) \/ HandleOk(c) \/ HandleErr(c)
  BY <1>1, BasicConsumeKeepsInv, TakeKeepsInv, HandleOkKeepsInv, HandleErrKeepsInv
<1>2. CASE Wake(c) \/ Settle(c) \/ ReceiveError(c)
  BY <1>2, WakeKeepsInv, SettleKeepsInv, ReceiveErrorKeepsInv
<1>3. CASE StopOnShutdown(c) \/ StopOnElse(c)
  BY <1>3, LoopEndsKeepsInv DEF StopOnShutdown, StopOnElse
<1> QED BY <1>1, <1>2, <1>3 DEF Task

(* The steps of the broker and of the producers. *)
LEMMA BrokerKeepsInv ==
  ASSUME ConsumerInv, Broker
  PROVE  ConsumerInv'
<1>1. ASSUME NEW m \in Messages, Publish(m) PROVE ConsumerInv'
  BY <1>1, PublishKeepsInv
<1>2. ASSUME NEW c \in Consumers, NEW m \in Messages, Deliver(c, m) \/ BrokerAck(c, m) \/ BrokerNack(c, m)
      PROVE  ConsumerInv'
  BY <1>2, DeliverKeepsInv, BrokerAckKeepsInv, BrokerNackKeepsInv
<1> QED BY <1>1, <1>2, ChannelLostKeepsInv, BrokerRestartKeepsInv DEF Broker

-----------------------------------------------------------------------------
(* The inductive invariant of the two loops and the broker (consumer.rs) holds in
   every behaviour, for all sets of messages and all bounds. *)
THEOREM ConsumerInvariant == Spec => []ConsumerInv
<1>1. ConsumerInv /\ [Next]_vars => ConsumerInv'
  <2> SUFFICES ASSUME ConsumerInv, [Next]_vars PROVE ConsumerInv'
    OBVIOUS
  <2> QED BY BrokerKeepsInv, LifecycleKeepsInv, TaskKeepsInv, StutterKeepsInv DEF Next
<1> QED BY InitInv, <1>1, PTL DEF Spec

(* Every variable keeps its type; handle_with_retry never counts past MAX_RETRIES. *)
THEOREM TypeCorrect == Spec => []TypeOK
<1>1. ConsumerInv => TypeOK
  BY DEF ConsumerInv
<1> QED BY <1>1, ConsumerInvariant, PTL

(* What the broker took in stays there until a handler has processed it: the loops
   acknowledge only after success and new() declares the dead-letter route first. *)
THEOREM NothingIsLost == Spec => []AtLeastOnce
<1>1. ConsumerInv => AtLeastOnce
  BY DEF ConsumerInv, HandledInv
<1> QED BY <1>1, ConsumerInvariant, PTL

(* Only deliveries whose MAX_RETRIES handler calls all failed are dead-lettered. *)
THEOREM DeadLettersUsedUpTheirRetries == Spec => []DeadLetteredOnlyAfterRetries
<1>1. ConsumerInv => DeadLetteredOnlyAfterRetries
  BY DEF ConsumerInv, StrikesInv
<1> QED BY <1>1, ConsumerInvariant, PTL

(* start_consuming and consume_dlq never hold the same message at once. *)
THEOREM NeverInBothLoops == Spec => []OneLoopPerMessage
<1>1. ConsumerInv => OneLoopPerMessage
  BY DEF ConsumerInv, CopiesInv
<1> QED BY <1>1, ConsumerInvariant, PTL

(* Within one run no loop hands a processed message to a handler again. *)
THEOREM NeverReprocessedInOneRun == Spec => []NoReprocessingInRun
<1>1. ConsumerInv => NoReprocessingInRun
  BY DEF ConsumerInv, HandledInv
<1> QED BY <1>1, ConsumerInvariant, PTL
-----------------------------------------------------------------------------
(* RabbitConsumer implements DeadLetterContract: every step of the loops and the *)
(* broker is one step of the contract or leaves it unchanged.                    *)

USE DEF Place, Held, Handled, HandledThisRun, Consumers, Main, Dlq,
        brokerVars, queueVars, taskVars, historyVars, boundVars

\* A step the contract does not see.
ContractUnchanged == Place' = Place /\ handledIn' = handledIn

(* A step that keeps who holds a message keeps where the contract sees it. *)
LEMMA SamePlace ==
  ASSUME UNCHANGED <<published, brokerLost>>, \A c \in Consumers : Held(c)' = Held(c)
  PROVE  Place' = Place
OBVIOUS

(* Published messages are queued once the topic is bound, lost before. *)
LEMMA PublishRefines ==
  ASSUME ConsumerInv, NEW m \in Messages, Publish(m)
  PROVE  Contract!Accept(m) \/ Contract!Reject(m)
<1>1. TypeOK /\ CustodyInv
  BY DEF ConsumerInv
<1>2. Place[m] = "new"
  BY DEF Publish
<1>3. \A n \in Messages : n # m => Place'[n] = Place[n]
  BY <1>1 DEF Publish, TypeOK
<1>4. Place'[m] = "queued" \/ Place'[m] = "lost"
  BY <1>1 DEF Publish, TypeOK, CustodyInv
<1>5. Place' = [Place EXCEPT ![m] = "queued"] \/ Place' = [Place EXCEPT ![m] = "lost"]
  BY <1>3, <1>4
<1> QED BY <1>2, <1>5 DEF Publish, Contract!Accept, Contract!Reject, Contract!Move

(* An acknowledged message leaves the broker, and a handler had processed it. *)
LEMMA BrokerAckRefines ==
  ASSUME ConsumerInv, NEW c \in Consumers, NEW m \in Messages, BrokerAck(c, m)
  PROVE  Contract!Remove(m)
<1>1. TypeOK /\ CustodyInv /\ HandledInv
  BY DEF ConsumerInv
<1>2. m \in Held(c) /\ m \notin ready[c] /\ handledIn[m] # 0
  BY <1>1 DEF BrokerAck, CustodyInv, HandledInv
<1>3. Place[m] \in {"queued", "dead"}
  BY <1>1, <1>2 DEF CustodyInv
<1>4. Place'[m] = "removed"
  BY <1>1, <1>2 DEF BrokerAck, TypeOK, CustodyInv
<1>5. \A n \in Messages : n # m => Place'[n] = Place[n]
  BY <1>1 DEF BrokerAck, TypeOK
<1>6. Place' = [Place EXCEPT ![m] = "removed"]
  BY <1>4, <1>5
<1> QED BY <1>2, <1>3, <1>6 DEF BrokerAck, Contract!Remove, Contract!Move

(* A refused message is dead-lettered by the main loop and requeued by the other. *)
LEMMA BrokerNackRefines ==
  ASSUME ConsumerInv, NEW c \in Consumers, NEW m \in Messages, BrokerNack(c, m)
  PROVE  Contract!DeadLetter(m) \/ ContractUnchanged
<1>1. TypeOK /\ CustodyInv /\ PhaseInv /\ TopologyInv
  BY DEF ConsumerInv
<1>2. m \in unacked[c] /\ m \notin ready[c]
  BY <1>1 DEF BrokerNack, CustodyInv
<1>3. CASE c = Dlq
  <2>1. \A k \in Consumers : Held(k)' = Held(k)
    BY <1>1, <1>2, <1>3 DEF BrokerNack, NackRequeues, TypeOK
  <2> QED BY <2>1, SamePlace DEF BrokerNack, ContractUnchanged
<1>4. CASE c = Main
  <2>1. DeadLetterRoute \subseteq topology
    BY <1>1, <1>2 DEF PhaseInv, TopologyInv, TypeOK, DeadLetterRoute
  <2>2. /\ Held(Main)' = Held(Main) \ {m} /\ Held(Dlq)' = Held(Dlq) \cup {m}
        /\ UNCHANGED <<published, brokerLost>>
    BY <1>1, <1>2, <1>4, <2>1 DEF BrokerNack, NackRequeues, TypeOK
  <2>3. Place[m] = "queued" /\ Place'[m] = "dead"
    BY <1>1, <1>2, <1>4, <2>2 DEF CustodyInv
  <2>4. \A n \in Messages : n # m => Place'[n] = Place[n]
    BY <2>2
  <2>5. Place' = [Place EXCEPT ![m] = "dead"]
    BY <2>3, <2>4
  <2> QED BY <2>3, <2>5 DEF BrokerNack, Contract!DeadLetter, Contract!Move
<1> QED BY <1>3, <1>4

(* A broker restart loses the transient messages it held. *)
LEMMA BrokerRestartRefines ==
  ASSUME ConsumerInv, BrokerRestart
  PROVE  \E S \in SUBSET Messages : Contract!Lose(S)
<1>1. TypeOK /\ CustodyInv
  BY DEF ConsumerInv
<1> DEFINE S == {m \in Transient : InBroker(m)}
<1>2. S \in SUBSET Messages
  BY ConsumerAssumption
<1>3. ASSUME NEW m \in S
      PROVE  m \in published /\ Place[m] \in {"queued", "dead"}
  <2>1. m \in Messages /\ m \in Held(Main) \cup Held(Dlq)
    BY <1>2 DEF InBroker
  <2>2. m \in published /\ m \notin brokerLost
    BY <1>1, <2>1 DEF CustodyInv
  <2> QED BY <2>1, <2>2
<1>4. ASSUME NEW k \in Consumers
      PROVE  Held(k)' = Held(k) \ S
  <2>1. unacked'[k] = {} /\ ready'[k] = (ready[k] \cup unacked[k]) \cap (Messages \ Transient)
    BY DEF BrokerRestart, Disconnect, NoMessages, Everywhere
  <2>2. ready[k] \cup unacked[k] \subseteq Messages
    BY <1>1 DEF TypeOK
  <2> QED BY <2>1, <2>2 DEF InBroker
<1>5. brokerLost' = brokerLost \cup S /\ UNCHANGED <<published, handledIn>>
  BY DEF BrokerRestart
<1>6. \A m \in Messages : Place'[m] = IF m \in S THEN "lost" ELSE Place[m]
  BY <1>3, <1>4, <1>5
<1>7. Place' = [m \in Messages |-> IF m \in S THEN "lost" ELSE Place[m]]
  BY <1>6
<1> HIDE DEF S, Place
<1>8. Contract!Lose(S)
  BY <1>3, <1>5, <1>7 DEF Contract!Lose
<1> WITNESS S \in SUBSET Messages
<1> QED BY <1>8

(* A handler only ever processes a message the contract lets it process. *)
LEMMA HandleOkRefines ==
  ASSUME ConsumerInv, NEW c \in Consumers, HandleOk(c)
  PROVE  \E m \in Messages : Contract!Process(m)
<1>1. TypeOK /\ PhaseInv /\ CustodyInv /\ CopiesInv
  BY DEF ConsumerInv
<1> DEFINE m == Head(inbox[c])
<1>2. InboxFact(c) /\ inbox[c] # <<>>
  BY <1>1, InboxFacts DEF HandleOk, CopiesInv, Working
<1>3. m \in Messages /\ m \in Copies(c)
  BY <1>2 DEF InboxFact, Copies
<1>4. m \in Held(c) \cup brokerLost /\ m \in published
  BY <1>1, <1>3 DEF CopiesInv, CustodyInv
<1>5. Place[m] \notin {"new", "removed"}
  BY <1>1, <1>3, <1>4
<1>6. starts \in 1..MaxStarts
  BY <1>1 DEF HandleOk, PhaseInv, TypeOK
<1>7. Place' = Place
  BY SamePlace DEF HandleOk
<1>8. Contract!Process(m)
  BY <1>5, <1>6, <1>7 DEF HandleOk, Contract!Process
<1> QED BY <1>3, <1>8

(* Deliveries and lost channels leave every message with the queue that held it. *)
LEMMA BrokerStutters ==
  ASSUME ConsumerInv, ChannelLost \/ \E c \in Consumers, m \in Messages : Deliver(c, m)
  PROVE  ContractUnchanged
<1>1. TypeOK
  BY DEF ConsumerInv
<1>2. \A k \in Consumers : Held(k)' = Held(k)
  BY <1>1 DEF ChannelLost, Deliver, Disconnect, NoMessages, Everywhere, TypeOK
<1> QED BY <1>2, SamePlace DEF ChannelLost, Deliver, ContractUnchanged

(* The life of the process moves no message. *)
LEMMA LifecycleStutters ==
  ASSUME ConsumerInv, Lifecycle
  PROVE  ContractUnchanged
<1>1. TypeOK
  BY DEF ConsumerInv
<1>2. CASE Start \/ Setup \/ SendShutdown \/ DropSender
  BY <1>2, SamePlace DEF Start, Setup, Declare, SpawnConsumers, SendShutdown, DropSender, ContractUnchanged
<1>3. CASE SetupFails \/ Crash \/ ReleaseChannel \/ Exit
  <2>1. \A k \in Consumers : Held(k)' = Held(k)
    BY <1>1, <1>3 DEF SetupFails, Crash, ReleaseChannel, Exit, ProcessEnds, Disconnect, NoMessages, Everywhere, TypeOK
  <2> QED BY <1>3, <2>1, SamePlace DEF SetupFails, Crash, ReleaseChannel, Exit, ProcessEnds, ContractUnchanged
<1> QED BY <1>2, <1>3 DEF Lifecycle

(* The only step of a loop that the contract sees is a successful handler call. *)
LEMMA TaskRefines ==
  ASSUME ConsumerInv, NEW c \in Consumers, Task(c)
  PROVE  ContractUnchanged \/ \E m \in Messages : Contract!Process(m)
<1>1. CASE HandleOk(c)
  BY <1>1, HandleOkRefines
<1>2. CASE BasicConsume(c) \/ Take(c) \/ HandleErr(c) \/ Wake(c)
  BY <1>2, SamePlace DEF BasicConsume, Take, HandleErr, Wake, ContractUnchanged
<1>3. CASE Settle(c) \/ ReceiveError(c) \/ StopOnShutdown(c) \/ StopOnElse(c)
  BY <1>3, SamePlace DEF Settle, ReceiveError, StopOnShutdown, StopOnElse, LoopEnds, ContractUnchanged
<1> QED BY <1>1, <1>2, <1>3 DEF Task

(* The steps of the broker and of the producers. *)
LEMMA BrokerRefines ==
  ASSUME ConsumerInv, Broker
  PROVE  ContractUnchanged \/ Contract!ContractNext
<1>1. ASSUME NEW m \in Messages, Publish(m) PROVE Contract!ContractNext
  BY <1>1, PublishRefines DEF Contract!ContractNext
<1>2. ASSUME NEW c \in Consumers, NEW m \in Messages, BrokerAck(c, m) \/ BrokerNack(c, m)
      PROVE  ContractUnchanged \/ Contract!ContractNext
  BY <1>2, BrokerAckRefines, BrokerNackRefines DEF Contract!ContractNext
<1>3. CASE BrokerRestart
  BY <1>3, BrokerRestartRefines DEF Contract!ContractNext
<1> QED BY <1>1, <1>2, <1>3, BrokerStutters DEF Broker

(* The two loops over the broker keep the dead-letter contract. *)
THEOREM ConsumerImplementsContract == Spec => ImplementsContract
<1>1. Init => Contract!ContractInit
  BY DEF Init, NoMessages, Everywhere, Contract!ContractInit
<1>2. ConsumerInv /\ [Next]_vars => [Contract!ContractNext]_Contract!contractVars
  <2> SUFFICES ASSUME ConsumerInv, [Next]_vars
               PROVE  ContractUnchanged \/ Contract!ContractNext
    BY DEF ContractUnchanged, Contract!contractVars
  <2>1. ASSUME NEW c \in Consumers, Task(c) PROVE ContractUnchanged \/ Contract!ContractNext
    BY <2>1, TaskRefines DEF Contract!ContractNext
  <2>2. CASE UNCHANGED vars
    BY <2>2, SamePlace DEF vars, ContractUnchanged
  <2> QED BY <2>1, <2>2, BrokerRefines, LifecycleStutters DEF Next
<1> QED BY <1>1, <1>2, ConsumerInvariant, PTL DEF Spec, ImplementsContract, Contract!ContractSpec
===============================================================================
