---------------------------- MODULE WebSocketServer ----------------------------
(***************************************************************************)
(* The WebSocket side of the analytics service (websocket.rs): the accept  *)
(* loop WebSocketServer::start, one detached task per connection running   *)
(* handle_tcp_stream, and the PubSubHandler those tasks call.  Peers come  *)
(* and go, send what they like and may stop reading; accepting may fail;   *)
(* the process may exit while connections are open.                        *)
(***************************************************************************)
EXTENDS Naturals, Sequences, Selection

CONSTANTS
  Conns,          \* the TCP connections peers open, each served by one task
  Topics,
  Frames,         \* what a peer may send: a subset of AllFrames
  SlowPeers,      \* connections whose peer may stop reading what it is sent
  AcceptMayFail,  \* whether accept() may return an error (aborted peer, no descriptors)
  MaxFrames       \* bound: frames sent on each connection

\* A JSON message of PubSubData, or one of the two kinds that get no answer:
\* "unsupported" (a control frame, or text that does not parse) and "not_text"
\* (a binary frame that is not UTF-8, which makes the handler return an error).
PubSubData == [kind : {"subscribe", "unsubscribe", "data_point"}, topics : SUBSET Topics]
AllFrames  == PubSubData \cup [kind : {"unsupported", "not_text"}, topics : {{}}]

ASSUME ServerAssumption ==
  /\ Frames \subseteq AllFrames
  /\ SlowPeers \subseteq Conns
  /\ AcceptMayFail \in BOOLEAN
  /\ MaxFrames \in [Conns -> Nat]

VARIABLES
  listener,    \* the accept loop: "unbound", "accepting", "deaf", "stopped", "gone"
  signal,      \* the shutdown broadcast channel
  pc,          \* where each connection and its task are
  peer,        \* what the other end of each connection does
  incoming,    \* frames on their way to each task
  reply,       \* the response each task is sending, as a sequence of at most one
  active,      \* connections whose handler saw on_connect and not yet on_disconnect
  subscribed,  \* subscribed_topics of each connection's entry
  handled,     \* history: frames handle_message was called with
  sent         \* history: responses sent

taskVars == <<pc, reply, active, subscribed, handled, sent>>
vars == <<listener, signal, peer, incoming, taskVars>>

TaskStates == {"handshake", "receive", "respond"}

Init ==
  /\ listener = "unbound" /\ signal = "waiting"
  /\ pc = [c \in Conns |-> "none"] /\ peer = [c \in Conns |-> "open"]
  /\ incoming = [c \in Conns |-> <<>>] /\ reply = [c \in Conns |-> <<>>]
  /\ active = {} /\ subscribed = [c \in Conns |-> {}]
  /\ handled = [c \in Conns |-> <<>>] /\ sent = [c \in Conns |-> <<>>]
-----------------------------------------------------------------------------
(* The peers. *)

\* The connection waits in the backlog of the bound socket.
Dial(c) ==
  /\ listener \in {"accepting", "deaf"} /\ pc[c] = "none"
  /\ pc' = [pc EXCEPT ![c] = "backlog"]
  /\ UNCHANGED <<listener, signal, peer, incoming, reply, active, subscribed, handled, sent>>

Frame(c, f) ==
  /\ c \in active /\ peer[c] = "open"
  /\ Len(handled[c]) + Len(incoming[c]) < MaxFrames[c]
  /\ incoming' = [incoming EXCEPT ![c] = Append(@, f)]
  /\ UNCHANGED <<listener, signal, peer, taskVars>>

\* The peer closes, breaks the protocol or resets the connection; a reset may
\* also discard what was still on its way.
HangUp(c) ==
  /\ pc[c] # "none" /\ peer[c] = "open"
  /\ \E end \in {"closing", "broken", "reset"}, n \in 0..Len(incoming[c]) :
       /\ end # "reset" => n = Len(incoming[c])
       /\ peer' = [peer EXCEPT ![c] = end]
       /\ incoming' = [incoming EXCEPT ![c] = SubSeq(@, 1, n)]
  /\ UNCHANGED <<listener, signal, taskVars>>
-----------------------------------------------------------------------------
(* WebSocketServer::new and start. *)

\* Binding fails when the address is taken; main() ignores the error.
Bind ==
  /\ listener = "unbound"
  /\ listener' \in {"accepting", "stopped"}
  /\ UNCHANGED <<signal, peer, incoming, taskVars>>

Accept(c) ==
  /\ listener = "accepting" /\ pc[c] = "backlog"
  /\ pc' = [pc EXCEPT ![c] = "handshake"]
  /\ UNCHANGED <<listener, signal, peer, incoming, reply, active, subscribed, handled, sent>>

\* The pattern Ok((stream, peer)) does not match an error: select! disables the
\* branch and waits for the other one.
AcceptFails ==
  /\ AcceptMayFail
  /\ listener = "accepting" /\ \E c \in Conns : pc[c] = "backlog"
  /\ listener' = "deaf"
  /\ UNCHANGED <<signal, peer, incoming, taskVars>>

\* A mistake: the shutdown branch written as Ok(_) = recv().
StopOnSignalOnly ==
  /\ listener \in {"accepting", "deaf"} /\ signal = "sent"
  /\ listener' = "stopped"
  /\ UNCHANGED <<signal, peer, incoming, taskVars>>

\* The pattern _ = recv() also matches the error of a closed channel.
Stop ==
  /\ listener \in {"accepting", "deaf"} /\ signal # "waiting"
  /\ listener' = "stopped"
  /\ UNCHANGED <<signal, peer, incoming, taskVars>>

\* When main() returns the runtime drops the connection tasks where they are.
ProcessExits ==
  /\ listener = "stopped" /\ listener' = "gone"
  /\ pc' = [c \in Conns |-> IF pc[c] \in TaskStates THEN "cancelled" ELSE pc[c]]
  /\ UNCHANGED <<signal, peer, incoming, reply, active, subscribed, handled, sent>>

Signal ==
  /\ signal = "waiting" /\ signal' \in {"sent", "closed"}
  /\ UNCHANGED <<listener, peer, incoming, taskVars>>
-----------------------------------------------------------------------------
(* handle_tcp_stream and the PubSubHandler it calls. *)

\* accept_async succeeds and on_connect inserts a fresh entry.
Connect(c) ==
  /\ pc[c] = "handshake"
  /\ pc' = [pc EXCEPT ![c] = "receive"]
  /\ active' = active \cup {c} /\ subscribed' = [subscribed EXCEPT ![c] = {}]
  /\ UNCHANGED <<listener, signal, peer, incoming, reply, handled, sent>>

HandshakeFails(c) ==
  /\ pc[c] = "handshake" /\ peer[c] # "open"
  /\ pc' = [pc EXCEPT ![c] = "ended"]
  /\ UNCHANGED <<listener, signal, peer, incoming, reply, active, subscribed, handled, sent>>

\* A mistake: subscribing replaces the topics of an earlier message.
UpdatedReplacing(topics, f) ==
  IF f.kind = "subscribe" THEN f.topics
  ELSE IF f.kind = "unsubscribe" THEN topics \ f.topics ELSE topics

\* What a message does to the entry's subscribed_topics; a data point only warns.
Updated(topics, f) ==
  IF f.kind = "subscribe" THEN topics \cup f.topics
  ELSE IF f.kind = "unsubscribe" THEN topics \ f.topics ELSE topics

Parses(f) == f.kind \in {"subscribe", "unsubscribe", "data_point"}

\* Mistakes: a data point returns before the echo, a handler error ends the task.
AfterMessageNoDataEcho(f) == IF f.kind \in {"subscribe", "unsubscribe"} THEN "respond" ELSE "receive"
AfterMessageErrorEnds(f)  == IF Parses(f) THEN "respond" ELSE IF f.kind = "not_text" THEN "ended" ELSE "receive"

\* handle_message echoes what parses; all else, an error included, gets no answer.
AfterMessage(f) == IF Parses(f) THEN "respond" ELSE "receive"

\* One turn of the loop up to the send.
Handle(c) ==
  LET f == Head(incoming[c]) IN
  /\ pc[c] = "receive" /\ incoming[c] # <<>>
  /\ incoming' = [incoming EXCEPT ![c] = Tail(@)]
  /\ handled' = [handled EXCEPT ![c] = Append(@, f)]
  /\ subscribed' = [subscribed EXCEPT ![c] = Updated(@, f)]
  /\ pc' = [pc EXCEPT ![c] = AfterMessage(f)]
  /\ reply' = [reply EXCEPT ![c] = IF AfterMessage(f) = "respond" THEN <<f>> ELSE <<>>]
  /\ UNCHANGED <<listener, signal, peer, active, sent>>

\* A mistake: the task goes on sending what it has sent.
SendAgain(c) ==
  /\ pc[c] = "respond" /\ peer[c] # "reset" /\ Len(sent[c]) <= MaxFrames[c]
  /\ sent' = [sent EXCEPT ![c] = @ \o reply[c]]
  /\ UNCHANGED <<listener, signal, peer, incoming, pc, reply, active, subscribed, handled>>

Send(c) ==
  /\ pc[c] = "respond" /\ peer[c] # "reset"
  /\ pc' = [pc EXCEPT ![c] = "receive"]
  /\ sent' = [sent EXCEPT ![c] = @ \o reply[c]] /\ reply' = [reply EXCEPT ![c] = <<>>]
  /\ UNCHANGED <<listener, signal, peer, incoming, active, subscribed, handled>>

\* A failed send returns at once: the handler sees no on_disconnect.
SendFails(c) ==
  /\ pc[c] = "respond" /\ peer[c] # "open"
  /\ pc' = [pc EXCEPT ![c] = "ended"]
  /\ UNCHANGED <<listener, signal, peer, incoming, reply, active, subscribed, handled, sent>>

\* A mistake: an error from the stream is logged and the loop goes on.
StreamOverOnClose(c) == incoming[c] = <<>> /\ peer[c] = "closing"

\* The stream ends, or yields an error, at which the loop breaks.
StreamOver(c) == incoming[c] = <<>> /\ peer[c] # "open"

\* A mistake: returning from the task on a receive error.
DisconnectUnlessError(c) ==
  /\ pc[c] = "receive" /\ StreamOver(c)
  /\ pc' = [pc EXCEPT ![c] = "ended"]
  /\ active' = IF peer[c] = "closing" THEN active \ {c} ELSE active
  /\ UNCHANGED <<listener, signal, peer, incoming, reply, subscribed, handled, sent>>

\* on_disconnect removes the entry.
Disconnect(c) ==
  /\ pc[c] = "receive" /\ StreamOver(c)
  /\ pc' = [pc EXCEPT ![c] = "ended"] /\ active' = active \ {c}
  /\ UNCHANGED <<listener, signal, peer, incoming, reply, subscribed, handled, sent>>
-----------------------------------------------------------------------------
Peer(c) == Dial(c) \/ HangUp(c) \/ \E f \in Frames : Frame(c, f)

Server == Bind \/ AcceptFails \/ Stop \/ ProcessExits \/ \E c \in Conns : Accept(c)

Task(c) ==
  Connect(c) \/ HandshakeFails(c) \/ Handle(c) \/ Send(c) \/ SendFails(c) \/ Disconnect(c)

Next == Signal \/ Server \/ \E c \in Conns : Peer(c) \/ Task(c)

Spec == Init /\ [][Next]_vars

\* The runtime polls every task that can go on and the accept loop takes its
\* ready branches in random order.  A handshake waits for the peer, and so does
\* a send to a peer that has stopped reading: neither is fair.
Fairness ==
  /\ WF_vars(Bind) /\ WF_vars(Stop)
  /\ \A c \in Conns : /\ WF_vars(Accept(c)) /\ WF_vars(HandshakeFails(c)) /\ WF_vars(Handle(c))
                      /\ WF_vars(SendFails(c)) /\ WF_vars(Disconnect(c))
  /\ \A c \in Conns \ SlowPeers : WF_vars(Send(c))

FairSpec == Spec /\ Fairness
-----------------------------------------------------------------------------
(* Properties. *)

\* Every variable keeps its type; no message gets more than one response.
TypeOK ==
  /\ listener \in {"unbound", "accepting", "deaf", "stopped", "gone"}
  /\ signal \in {"waiting", "sent", "closed"}
  /\ pc \in [Conns -> TaskStates \cup {"none", "backlog", "ended", "cancelled"}]
  /\ peer \in [Conns -> {"open", "closing", "broken", "reset"}]
  /\ incoming \in [Conns -> Seq(Frames)] /\ handled \in [Conns -> Seq(Frames)]
  /\ reply \in [Conns -> Seq(Frames)] /\ sent \in [Conns -> Seq(Frames)]
  /\ active \in SUBSET Conns /\ subscribed \in [Conns -> SUBSET Topics]
  /\ \A c \in Conns : /\ Len(handled[c]) + Len(incoming[c]) <= MaxFrames[c]
                      /\ Len(sent[c]) + Len(reply[c]) <= Len(handled[c])

\* The places of the messages of h that mention topic t, and what the last one says.
Mentions(h, t) ==
  {i \in 1..Len(h) : h[i].kind \in {"subscribe", "unsubscribe"} /\ t \in h[i].topics}

LastSubscribes(h, t) ==
  \E i \in Mentions(h, t) : h[i].kind = "subscribe" /\ \A j \in Mentions(h, t) : j <= i

\* A client is subscribed to exactly the topics whose last mention, in all it
\* has sent on this connection, was in a subscribe message.
SubscriptionsFollowMessages ==
  \A c \in Conns, t \in Topics : t \in subscribed[c] <=> LastSubscribes(handled[c], t)

\* The responses are the messages that parse, echoed once each and in the order
\* they came in; only the last may be missing, while it is being sent.
EchoesInOrder ==
  \A c \in Conns : sent[c] \o reply[c] = Selected(handled[c], {f \in Frames : Parses(f)})

\* A task that has ended has told its handler so, unless its last send failed.
DisconnectNotified ==
  \A c \in Conns : pc[c] = "ended" /\ c \in active => reply[c] # <<>> /\ peer[c] # "open"

\* A peer that reads gets all its messages dealt with, whatever it sends (one that
\* the handler fails on included), and also after the accept loop has stopped.
MessagesDealtWith ==
  \A c \in Conns \ SlowPeers :
    c \in active ~> (\/ incoming[c] = <<>> /\ pc[c] = "receive"
                     \/ peer[c] # "open" \/ listener = "gone")

\* The server task ends after a shutdown signal, and when no sender is left,
\* even if accepting has failed.
ServerStops == signal # "waiting" ~> listener \in {"stopped", "gone"}

\* No task outlives its connection: when the peer is gone its task ends.
TasksEnd ==
  \A c \in Conns \ SlowPeers :
    (pc[c] \in TaskStates /\ peer[c] # "open") ~> pc[c] \in {"ended", "cancelled"}

\* on_disconnect is documented as called when an existing connection is
\* terminated.
EveryDisconnectNotified == \A c \in Conns : pc[c] = "ended" => c \notin active

\* start() is documented to spawn a task for each connection.
EveryConnectionServed ==
  \A c \in Conns : pc[c] = "backlog" ~> (pc[c] # "backlog" \/ signal # "waiting")
===============================================================================
