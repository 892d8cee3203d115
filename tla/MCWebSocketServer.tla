-------------------------- MODULE MCWebSocketServer --------------------------
(* Instances of WebSocketServer for TLC. *)
EXTENDS WebSocketServer, TLC

CONSTANTS c1, c2, t1, t2

Subscribe(S)   == [kind |-> "subscribe", topics |-> S]
Unsubscribe(S) == [kind |-> "unsubscribe", topics |-> S]
DataPoint(t)   == [kind |-> "data_point", topics |-> {t}]
Unsupported    == [kind |-> "unsupported", topics |-> {}]
NotText        == [kind |-> "not_text", topics |-> {}]

\* Every kind of message, two topics.
MixedFrames == {Subscribe({t1}), Subscribe({t2}), Unsubscribe({t1, t2}), DataPoint(t1), NotText}

\* Connections whose interleavings matter more than what they carry.
FewFrames == {DataPoint(t1), NotText}

\* One connection changes its subscriptions more than once, the other gets in its way.
UnevenFrames == c1 :> 2 @@ c2 :> 1

OneFrame == [c \in Conns |-> 1]
===============================================================================
