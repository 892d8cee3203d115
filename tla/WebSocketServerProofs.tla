------------------------- MODULE WebSocketServerProofs -------------------------
(***************************************************************************)
(* Safety of the WebSocket server for any connections, topics and frames.  *)
(***************************************************************************)
EXTENDS WebSocketServer, SelectionLemmas

\* What ties a task to its connection's entry: only a task past on_connect has
\* one, a task that has handled nothing yet has no topics, and one that is about
\* to answer has an answer.
TaskInv ==
  /\ DisconnectNotified
  /\ \A c \in Conns :
       /\ pc[c] \in {"none", "backlog", "handshake"} => c \notin active /\ handled[c] = <<>>
       /\ pc[c] = "respond" => reply[c] # <<>>

\* What ties the responses to the messages: a task that is ready for its next
\* message has nothing left to send.
EchoInv ==
  /\ EchoesInOrder
  /\ \A c \in Conns : pc[c] \in {"none", "backlog", "handshake", "receive"} => reply[c] = <<>>

ServerInv == TypeOK /\ TaskInv /\ SubscriptionsFollowMessages /\ EchoInv

\* The topics of a frame are topics, whichever set it comes from.
LEMMA FrameType ==
  ASSUME NEW f \in Frames
  PROVE  f.topics \in SUBSET Topics
<1>1. f \in AllFrames
  BY ServerAssumption
<1>2. CASE f \in PubSubData
  BY <1>2 DEF PubSubData
<1>3. CASE f \in [kind : {"unsupported", "not_text"}, topics : {{}}]
  BY <1>3
<1> QED
  BY <1>1, <1>2, <1>3 DEF AllFrames

\* A message that mentions a topic has the last word on it.
LEMMA LastMention ==
  ASSUME NEW h \in Seq(Frames), NEW f \in Frames, NEW t \in Topics,
         f.kind \in {"subscribe", "unsubscribe"}, t \in f.topics
  PROVE  LastSubscribes(Append(h, f), t) <=> f.kind = "subscribe"
<1> DEFINE g == Append(h, f)
           n == Len(h) + 1
<1>1. Len(g) = n /\ g[n] = f /\ n \in 1..Len(g) /\ Len(h) \in Nat
  OBVIOUS
<1>2. n \in Mentions(g, t) /\ \A i \in Mentions(g, t) : i \in Nat /\ i <= n
  BY <1>1 DEF Mentions
<1>3. ASSUME NEW i \in Mentions(g, t), \A j \in Mentions(g, t) : j <= i
      PROVE  i = n
  BY <1>1, <1>2, <1>3
<1> QED
  BY <1>1, <1>2, <1>3 DEF LastSubscribes

\* A message that does not mention a topic changes nothing about it.
LEMMA NoMention ==
  ASSUME NEW h \in Seq(Frames), NEW f \in Frames, NEW t \in Topics,
         ~(f.kind \in {"subscribe", "unsubscribe"} /\ t \in f.topics)
  PROVE  LastSubscribes(Append(h, f), t) <=> LastSubscribes(h, t)
<1> DEFINE g == Append(h, f)
<1>1. /\ Len(h) \in Nat /\ Len(g) = Len(h) + 1 /\ g[Len(h) + 1] = f
      /\ \A i \in 1..Len(h) : g[i] = h[i]
  OBVIOUS
<1>2. Mentions(g, t) = Mentions(h, t)
  BY <1>1 DEF Mentions
<1>3. \A i \in Mentions(h, t) : g[i] = h[i]
  BY <1>1 DEF Mentions
<1> QED
  BY <1>2, <1>3 DEF LastSubscribes

\* on_connect has not run, nothing is handled and nobody is subscribed at first.
LEMMA InitInv == Init => ServerInv
<1> SUFFICES ASSUME Init PROVE ServerInv
  OBVIOUS
<1>1. TypeOK
  BY ServerAssumption DEF Init, TypeOK, TaskStates
<1>2. TaskInv
  BY DEF Init, TaskInv, DisconnectNotified
<1>3. SubscriptionsFollowMessages
  BY DEF Init, SubscriptionsFollowMessages, LastSubscribes, Mentions
<1>4. EchoInv
  <2>1. \A c \in Conns : sent[c] = <<>> /\ reply[c] = <<>> /\ handled[c] = <<>>
    BY DEF Init
  <2>2. <<>> \o <<>> = <<>>
    BY EmptySeq, ConcatEmptySeq
  <2> QED
    BY <2>1, <2>2, SelectedEmpty DEF EchoInv, EchoesInOrder
<1> QED
  BY <1>1, <1>2, <1>3, <1>4 DEF ServerInv

\* No step leaves the types, or the bounds on what is handled and answered.
LEMMA TypeStep == TypeOK /\ [Next]_vars => TypeOK'
<1> SUFFICES ASSUME TypeOK, [Next]_vars PROVE TypeOK'
  OBVIOUS
<1> USE DEF TypeOK, TaskStates
<1>1. CASE Signal
  BY <1>1 DEF Signal, taskVars
<1>2. CASE Bind
  BY <1>2 DEF Bind, taskVars
<1>3. CASE AcceptFails
  BY <1>3 DEF AcceptFails, taskVars
<1>4. CASE Stop
  BY <1>4 DEF Stop, taskVars
<1>5. CASE ProcessExits
  BY <1>5 DEF ProcessExits
<1>6. ASSUME NEW c \in Conns, Accept(c) PROVE TypeOK'
  BY <1>6 DEF Accept
<1>7. ASSUME NEW c \in Conns, Dial(c) PROVE TypeOK'
  BY <1>7 DEF Dial
<1>8. ASSUME NEW c \in Conns, HangUp(c) PROVE TypeOK'
  <2>1. PICK end \in {"closing", "broken", "reset"}, n \in 0..Len(incoming[c]) :
          /\ peer' = [peer EXCEPT ![c] = end]
          /\ incoming' = [incoming EXCEPT ![c] = SubSeq(@, 1, n)]
    BY <1>8 DEF HangUp
  <2>2. SubSeq(incoming[c], 1, n) \in Seq(Frames) /\ Len(SubSeq(incoming[c], 1, n)) <= Len(incoming[c])
    OBVIOUS
  <2>3. /\ peer' \in [Conns -> {"open", "closing", "broken", "reset"}]
        /\ incoming' \in [Conns -> Seq(Frames)]
    BY <2>1, <2>2
  <2>4. ASSUME NEW d \in Conns PROVE Len(incoming'[d]) <= Len(incoming[d])
    <3>1. CASE d = c
      BY <3>1, <2>1, <2>2
    <3>2. CASE d # c
      <4>1. incoming'[d] = incoming[d]
        BY <3>2, <2>1
      <4>2. Len(incoming[d]) \in Nat
        OBVIOUS
      <4> QED
        BY <4>1, <4>2
    <3> QED
      BY <3>1, <3>2
  <2>5. UNCHANGED <<listener, signal, taskVars>>
    BY <1>8 DEF HangUp
  <2>6. ASSUME NEW d \in Conns PROVE Len(handled'[d]) + Len(incoming'[d]) <= MaxFrames[d]
    <3>1. Len(handled[d]) \in Nat /\ Len(incoming[d]) \in Nat /\ Len(incoming'[d]) \in Nat
      BY <2>3
    <3> QED
      BY <3>1, <2>4, <2>5, ServerAssumption DEF taskVars
  <2> QED
    BY <2>3, <2>5, <2>6 DEF taskVars
<1>9. ASSUME NEW c \in Conns, NEW f \in Frames, Frame(c, f) PROVE TypeOK'
  <2>1. /\ incoming' = [incoming EXCEPT ![c] = Append(@, f)]
        /\ Len(handled[c]) + Len(incoming[c]) < MaxFrames[c]
        /\ UNCHANGED <<listener, signal, peer, taskVars>>
    BY <1>9 DEF Frame
  <2>2. Append(incoming[c], f) \in Seq(Frames) /\ Len(Append(incoming[c], f)) = Len(incoming[c]) + 1
    OBVIOUS
  <2>3. incoming' \in [Conns -> Seq(Frames)]
    BY <2>1, <2>2
  <2>4. ASSUME NEW d \in Conns PROVE Len(handled'[d]) + Len(incoming'[d]) <= MaxFrames[d]
    <3>1. /\ Len(handled[d]) \in Nat /\ Len(incoming[d]) \in Nat
          /\ MaxFrames[d] \in Nat /\ Len(handled[d]) + Len(incoming[d]) <= MaxFrames[d]
      BY ServerAssumption DEF ServerAssumption
    <3>2. handled'[d] = handled[d]
      BY <2>1 DEF taskVars
    <3>3. CASE d = c
      <4>1. Len(incoming'[d]) = Len(incoming[d]) + 1
        BY <2>1, <2>2, <3>3
      <4> QED
        BY <2>1, <3>1, <3>2, <3>3, <4>1
    <3>4. CASE d # c
      BY <2>1, <3>1, <3>2, <3>4
    <3> QED
      BY <3>3, <3>4
  <2> QED
    BY <2>1, <2>3, <2>4 DEF taskVars
<1>10. ASSUME NEW c \in Conns, Connect(c) PROVE TypeOK'
  BY <1>10 DEF Connect
<1>11. ASSUME NEW c \in Conns, HandshakeFails(c) PROVE TypeOK'
  BY <1>11 DEF HandshakeFails
<1>12. ASSUME NEW c \in Conns, Handle(c) PROVE TypeOK'
  <2> DEFINE f == Head(incoming[c])
             r == IF AfterMessage(f) = "respond" THEN <<f>> ELSE <<>>
  <2>1. f \in Frames /\ Tail(incoming[c]) \in Seq(Frames) /\ Len(Tail(incoming[c])) = Len(incoming[c]) - 1
    BY <1>12 DEF Handle
  <2>2. Updated(subscribed[c], f) \in SUBSET Topics
    BY <2>1, FrameType DEF Updated
  <2>3. AfterMessage(f) \in {"respond", "receive"} /\ r \in Seq(Frames) /\ Len(r) <= 1
    BY <2>1 DEF AfterMessage
  <2>4. /\ incoming' = [incoming EXCEPT ![c] = Tail(@)]
        /\ handled' = [handled EXCEPT ![c] = Append(@, f)]
        /\ subscribed' = [subscribed EXCEPT ![c] = Updated(@, f)]
        /\ pc' = [pc EXCEPT ![c] = AfterMessage(f)]
        /\ reply' = [reply EXCEPT ![c] = r]
        /\ UNCHANGED <<listener, signal, peer, active, sent>>
    BY <1>12 DEF Handle
  <2> HIDE DEF f, r
  <2>5. /\ pc' \in [Conns -> TaskStates \cup {"none", "backlog", "ended", "cancelled"}]
        /\ incoming' \in [Conns -> Seq(Frames)] /\ handled' \in [Conns -> Seq(Frames)]
        /\ reply' \in [Conns -> Seq(Frames)] /\ subscribed' \in [Conns -> SUBSET Topics]
    BY <2>1, <2>2, <2>3, <2>4
  <2>6. ASSUME NEW d \in Conns
        PROVE  /\ Len(handled'[d]) + Len(incoming'[d]) <= MaxFrames[d]
               /\ Len(sent'[d]) + Len(reply'[d]) <= Len(handled'[d])
    <3>1. CASE d = c
      <4>1. Len(handled'[c]) = Len(handled[c]) + 1 /\ Len(incoming'[c]) = Len(incoming[c]) - 1
        BY <2>1, <2>4
      <4>2. sent'[c] = sent[c] /\ Len(reply'[c]) <= 1
        BY <2>3, <2>4
      <4> QED
        BY <3>1, <4>1, <4>2, <2>5, ServerAssumption
    <3>2. CASE d # c
      BY <3>2, <2>4
    <3> QED
      BY <3>1, <3>2
  <2> QED
    BY <2>4, <2>5, <2>6
<1>13. ASSUME NEW c \in Conns, Send(c) PROVE TypeOK'
  <2>1. sent[c] \o reply[c] \in Seq(Frames) /\ Len(sent[c] \o reply[c]) = Len(sent[c]) + Len(reply[c])
    OBVIOUS
  <2> QED
    BY <1>13, <2>1 DEF Send
<1>14. ASSUME NEW c \in Conns, SendFails(c) PROVE TypeOK'
  BY <1>14 DEF SendFails
<1>15. ASSUME NEW c \in Conns, Disconnect(c) PROVE TypeOK'
  BY <1>15 DEF Disconnect
<1>16. CASE UNCHANGED vars
  BY <1>16 DEF vars, taskVars
<1> QED
  BY <1>1, <1>2, <1>3, <1>4, <1>5, <1>6, <1>7, <1>8, <1>9, <1>10, <1>11, <1>12, <1>13, <1>14, <1>15,
     <1>16 DEF Next, Server, Peer, Task

\* The entry of a connection appears after its handshake and goes with its task,
\* unless the last send failed.
LEMMA TaskStep == TypeOK /\ TaskInv /\ [Next]_vars => TaskInv'
<1> SUFFICES ASSUME TypeOK, TaskInv, [Next]_vars PROVE TaskInv'
  OBVIOUS
<1> USE DEF TypeOK, TaskInv, DisconnectNotified
<1>1. CASE Signal
  BY <1>1 DEF Signal, taskVars
<1>2. CASE Bind
  BY <1>2 DEF Bind, taskVars
<1>3. CASE AcceptFails
  BY <1>3 DEF AcceptFails, taskVars
<1>4. CASE Stop
  BY <1>4 DEF Stop, taskVars
<1>5. CASE ProcessExits
  BY <1>5 DEF ProcessExits, TaskStates
<1>6. ASSUME NEW c \in Conns, Accept(c) PROVE TaskInv'
  BY <1>6 DEF Accept
<1>7. ASSUME NEW c \in Conns, Dial(c) PROVE TaskInv'
  BY <1>7 DEF Dial
<1>8. ASSUME NEW c \in Conns, HangUp(c) PROVE TaskInv'
  BY <1>8 DEF HangUp, taskVars
<1>9. ASSUME NEW c \in Conns, NEW f \in Frames, Frame(c, f) PROVE TaskInv'
  BY <1>9 DEF Frame, taskVars
<1>10. ASSUME NEW c \in Conns, Connect(c) PROVE TaskInv'
  BY <1>10 DEF Connect
<1>11. ASSUME NEW c \in Conns, HandshakeFails(c) PROVE TaskInv'
  BY <1>11 DEF HandshakeFails
<1>12. ASSUME NEW c \in Conns, Handle(c) PROVE TaskInv'
  BY <1>12 DEF Handle, AfterMessage
<1>13. ASSUME NEW c \in Conns, Send(c) PROVE TaskInv'
  BY <1>13 DEF Send
<1>14. ASSUME NEW c \in Conns, SendFails(c) PROVE TaskInv'
  BY <1>14 DEF SendFails
<1>15. ASSUME NEW c \in Conns, Disconnect(c) PROVE TaskInv'
  BY <1>15 DEF Disconnect
<1>16. CASE UNCHANGED vars
  BY <1>16 DEF vars, taskVars
<1> QED
  BY <1>1, <1>2, <1>3, <1>4, <1>5, <1>6, <1>7, <1>8, <1>9, <1>10, <1>11, <1>12, <1>13, <1>14, <1>15,
     <1>16 DEF Next, Server, Peer, Task

\* Only a handled message changes a subscription, and just as its last mention says.
LEMMA SubscriptionStep ==
  TypeOK /\ TaskInv /\ SubscriptionsFollowMessages /\ [Next]_vars => SubscriptionsFollowMessages'
<1> SUFFICES ASSUME TypeOK, TaskInv, SubscriptionsFollowMessages, [Next]_vars
             PROVE  SubscriptionsFollowMessages'
  OBVIOUS
<1>1. ASSUME NEW c \in Conns, Connect(c) PROVE SubscriptionsFollowMessages'
  <2>1. handled[c] = <<>> /\ handled' = handled /\ subscribed' = [subscribed EXCEPT ![c] = {}]
    BY <1>1 DEF Connect, TaskInv
  <2>2. \A t \in Topics : ~LastSubscribes(handled[c], t)
    BY <2>1 DEF LastSubscribes, Mentions
  <2> QED
    BY <2>1, <2>2 DEF SubscriptionsFollowMessages, TypeOK
<1>2. ASSUME NEW c \in Conns, Handle(c) PROVE SubscriptionsFollowMessages'
  <2> DEFINE f == Head(incoming[c])
  <2>1. f \in Frames /\ handled[c] \in Seq(Frames)
    BY <1>2 DEF Handle, TypeOK
  <2>2. /\ handled' = [handled EXCEPT ![c] = Append(@, f)]
        /\ subscribed' = [subscribed EXCEPT ![c] = Updated(@, f)]
    BY <1>2 DEF Handle
  <2> HIDE DEF f
  <2>3. ASSUME NEW t \in Topics
        PROVE  t \in Updated(subscribed[c], f) <=> LastSubscribes(Append(handled[c], f), t)
    <3>1. CASE f.kind \in {"subscribe", "unsubscribe"} /\ t \in f.topics
      BY <3>1, <2>1, LastMention DEF Updated
    <3>2. CASE ~(f.kind \in {"subscribe", "unsubscribe"} /\ t \in f.topics)
      <4>1. t \in Updated(subscribed[c], f) <=> t \in subscribed[c]
        BY <3>2 DEF Updated
      <4> QED
        BY <3>2, <4>1, <2>1, NoMention DEF SubscriptionsFollowMessages
    <3> QED
      BY <3>1, <3>2
  <2>4. ASSUME NEW d \in Conns, NEW t \in Topics
        PROVE  t \in subscribed'[d] <=> LastSubscribes(handled'[d], t)
    <3>1. CASE d = c
      BY <3>1, <2>2, <2>3 DEF TypeOK
    <3>2. CASE d # c
      BY <3>2, <2>2 DEF TypeOK, SubscriptionsFollowMessages
    <3> QED
      BY <3>1, <3>2
  <2> QED
    BY <2>4 DEF SubscriptionsFollowMessages
<1>3. CASE UNCHANGED <<handled, subscribed>>
  BY <1>3 DEF SubscriptionsFollowMessages
<1>4. \/ \E c \in Conns : Connect(c) \/ Handle(c)
      \/ UNCHANGED <<handled, subscribed>>
  BY DEF Next, Server, Peer, Task, vars, taskVars, Signal, Bind, AcceptFails, Stop, ProcessExits, Accept,
         Dial, HangUp, Frame, HandshakeFails, Send, SendFails, Disconnect
<1> QED
  BY <1>1, <1>2, <1>3, <1>4

\* A message adds its echo to what is being sent when it parses, and nothing when
\* it does not; sending moves the echo to the end of what has been sent.
LEMMA EchoStep == TypeOK /\ EchoInv /\ [Next]_vars => EchoInv'
<1> SUFFICES ASSUME TypeOK, EchoInv, [Next]_vars PROVE EchoInv'
  OBVIOUS
<1> DEFINE keep == {f \in Frames : Parses(f)}
<1>1. ASSUME NEW c \in Conns, Handle(c) PROVE EchoInv'
  <2> DEFINE f == Head(incoming[c])
  <2>1. f \in Frames /\ handled[c] \in Seq(Frames) /\ sent[c] \in Seq(Frames) /\ reply[c] = <<>>
    BY <1>1 DEF Handle, TypeOK, EchoInv
  <2>2. sent[c] = Selected(handled[c], keep)
    BY <2>1, ConcatEmptySeq DEF EchoInv, EchoesInOrder
  <2>3. /\ handled' = [handled EXCEPT ![c] = Append(@, f)]
        /\ pc' = [pc EXCEPT ![c] = IF Parses(f) THEN "respond" ELSE "receive"]
        /\ reply' = [reply EXCEPT ![c] = IF Parses(f) THEN <<f>> ELSE <<>>]
        /\ sent' = sent
    BY <1>1 DEF Handle, AfterMessage
  <2> HIDE DEF f, keep
  <2>4. sent'[c] \o reply'[c] = Selected(handled'[c], keep)
    <3>1. handled'[c] = Append(handled[c], f)
      BY <2>3 DEF TypeOK
    <3>2. CASE Parses(f)
      <4>1. Selected(handled'[c], keep) = Append(sent[c], f)
        BY <2>1, <2>2, <3>1, <3>2, SelectedAppend DEF keep
      <4>2. reply'[c] = <<f>> /\ sent'[c] = sent[c]
        BY <2>3, <3>2 DEF TypeOK
      <4> QED
        BY <2>1, <4>1, <4>2, AppendIsConcat
    <3>3. CASE ~Parses(f)
      <4>1. Selected(handled'[c], keep) = sent[c]
        BY <2>1, <2>2, <3>1, <3>3, SelectedAppend DEF keep
      <4>2. reply'[c] = <<>> /\ sent'[c] = sent[c]
        BY <2>3, <3>3 DEF TypeOK
      <4> QED
        BY <2>1, <4>1, <4>2, ConcatEmptySeq
    <3> QED
      BY <3>2, <3>3
  <2>5. EchoesInOrder'
    <3> SUFFICES ASSUME NEW d \in Conns PROVE sent'[d] \o reply'[d] = Selected(handled'[d], keep)
      BY DEF EchoesInOrder, keep
    <3>1. CASE d = c
      BY <2>4, <3>1
    <3>2. CASE d # c
      BY <2>3, <3>2 DEF TypeOK, EchoInv, EchoesInOrder, keep
    <3> QED
      BY <3>1, <3>2
  <2> QED
    BY <2>3, <2>5 DEF EchoInv, TypeOK
<1>2. ASSUME NEW c \in Conns, Send(c) PROVE EchoInv'
  <2>1. /\ sent' = [sent EXCEPT ![c] = @ \o reply[c]] /\ reply' = [reply EXCEPT ![c] = <<>>]
        /\ pc' = [pc EXCEPT ![c] = "receive"] /\ handled' = handled
    BY <1>2 DEF Send
  <2>2. sent'[c] \o reply'[c] = sent[c] \o reply[c]
    <3>1. sent'[c] = sent[c] \o reply[c] /\ reply'[c] = <<>> /\ sent[c] \o reply[c] \in Seq(Frames)
      BY <2>1, ConcatProperties DEF TypeOK
    <3> QED
      BY <3>1, ConcatEmptySeq
  <2> HIDE DEF keep
  <2>3. EchoesInOrder'
    <3> SUFFICES ASSUME NEW d \in Conns PROVE sent'[d] \o reply'[d] = Selected(handled'[d], keep)
      BY DEF EchoesInOrder, keep
    <3>1. sent'[d] \o reply'[d] = sent[d] \o reply[d]
      BY <2>1, <2>2 DEF TypeOK
    <3> QED
      BY <2>1, <3>1 DEF EchoInv, EchoesInOrder, keep
  <2> QED
    BY <2>1, <2>3 DEF EchoInv, TypeOK
<1>3. ASSUME UNCHANGED <<reply, handled, sent>>,
             \A c \in Conns : pc'[c] \in {"none", "backlog", "handshake", "receive"}
                                => pc[c] \in {"none", "backlog", "handshake", "receive"}
      PROVE  EchoInv'
  BY <1>3 DEF EchoInv, EchoesInOrder
<1>4. ASSUME NEW c \in Conns, Dial(c) \/ Accept(c) \/ Connect(c) \/ HandshakeFails(c)
                                \/ SendFails(c) \/ Disconnect(c)
      PROVE  EchoInv'
  BY <1>3, <1>4 DEF Dial, Accept, Connect, HandshakeFails, SendFails, Disconnect, TypeOK
<1>5. CASE ProcessExits
  BY <1>3, <1>5 DEF ProcessExits, TaskStates
<1>6. CASE UNCHANGED <<pc, reply, handled, sent>>
  BY <1>3, <1>6
<1>7. \/ \E c \in Conns : \/ Handle(c) \/ Send(c)
                          \/ Dial(c) \/ Accept(c) \/ Connect(c) \/ HandshakeFails(c)
                          \/ SendFails(c) \/ Disconnect(c)
      \/ ProcessExits
      \/ UNCHANGED <<pc, reply, handled, sent>>
  BY DEF Next, Server, Peer, Task, vars, taskVars, Signal, Bind, AcceptFails, Stop, HangUp, Frame
<1> QED
  BY <1>1, <1>2, <1>4, <1>5, <1>6, <1>7

\* The inductive invariant of the server holds in every reachable state.
THEOREM ServerInvariant == Spec => []ServerInv
<1>1. Init => ServerInv
  BY InitInv
<1>2. ServerInv /\ [Next]_vars => ServerInv'
  BY TypeStep, TaskStep, SubscriptionStep, EchoStep DEF ServerInv
<1> QED
  BY <1>1, <1>2, PTL DEF Spec

\* Every variable keeps its type, and no message gets more than one response
\* (handle_tcp_stream).
THEOREM ServerTypeCorrect == Spec => []TypeOK
<1>1. ServerInv => TypeOK
  BY DEF ServerInv
<1> QED
  BY <1>1, ServerInvariant, PTL

\* A client is subscribed to exactly the topics whose last mention was in a
\* subscribe message (PubSubHandler::handle_message), however many it has sent.
THEOREM SubscriptionsAreRight == Spec => []SubscriptionsFollowMessages
<1>1. ServerInv => SubscriptionsFollowMessages
  BY DEF ServerInv
<1> QED
  BY <1>1, ServerInvariant, PTL

\* The responses of a connection are the messages that parse, echoed once each and
\* in order; only the last may still be on its way (handle_tcp_stream with
\* PubSubHandler::handle_message).
THEOREM EchoesAreInOrder == Spec => []EchoesInOrder
<1>1. ServerInv => EchoesInOrder
  BY DEF ServerInv, EchoInv
<1> QED
  BY <1>1, ServerInvariant, PTL

\* A task that has ended has called on_disconnect, unless its last send failed
\* (handle_tcp_stream).
THEOREM DisconnectsAreNotified == Spec => []DisconnectNotified
<1>1. ServerInv => DisconnectNotified
  BY DEF ServerInv, TaskInv
<1> QED
  BY <1>1, ServerInvariant, PTL
===============================================================================
