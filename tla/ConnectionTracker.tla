--------------------------- MODULE ConnectionTracker ---------------------------
(***************************************************************************)
(* ConcurrentHandler (websocket.rs), a WebSocketHandler whose connections  *)
(* share two atomics without a lock: how many are active, and the most     *)
(* there have been.  Its two callbacks run in one task per connection.     *)
(***************************************************************************)
EXTENDS Naturals, FiniteSets

CONSTANTS
  Conns,         \* connections, each accepted at most once
  SendsMayFail,  \* whether a failed send may end a task without on_disconnect
  USIZE_MAX      \* the largest value of an atomic

ASSUME TrackerAssumption ==
  /\ IsFiniteSet(Conns)
  /\ SendsMayFail \in BOOLEAN
  /\ USIZE_MAX \in Nat /\ Cardinality(Conns) <= USIZE_MAX

VARIABLES
  active_connections, max_connections,  \* the atomics
  pc,      \* "new", in on_connect ("load" or "loop"), "connected", "closed" or "lost"
  active,  \* on_connect's local: the count with this connection
  max,     \* on_connect's local: the maximum as last read
  peak     \* history: the largest value of active_connections

vars == <<active_connections, max_connections, pc, active, max, peak>>

Init ==
  /\ active_connections = 0 /\ max_connections = 0
  /\ pc = [c \in Conns |-> "new"]
  /\ active = [c \in Conns |-> 0] /\ max = [c \in Conns |-> 0]
  /\ peak = 0
-----------------------------------------------------------------------------
(* on_connect *)

FetchAdd(c) ==
  /\ pc[c] = "new"
  /\ pc' = [pc EXCEPT ![c] = "load"]
  /\ active_connections' = IF active_connections = USIZE_MAX THEN 0 ELSE active_connections + 1
  /\ active' = [active EXCEPT ![c] = active_connections + 1]
  /\ peak' = IF active_connections' > peak THEN active_connections' ELSE peak
  /\ UNCHANGED <<max_connections, max>>

Load(c) ==
  /\ pc[c] = "load"
  /\ pc' = [pc EXCEPT ![c] = "loop"]
  /\ max' = [max EXCEPT ![c] = max_connections]
  /\ UNCHANGED <<active_connections, max_connections, active, peak>>

\* A mistake: max is not read again when the exchange fails.
ExchangeForgetting(c) ==
  /\ pc[c] = "loop" /\ active[c] > max[c]
  /\ max_connections' = IF max_connections = max[c] THEN active[c] ELSE max_connections
  /\ UNCHANGED <<active_connections, pc, active, max, peak>>

\* One turn of the loop.  A success leaves max as it is: the next turn's
\* exchange fails, reads what is there, and ends the loop.
CompareExchange(c) ==
  /\ pc[c] = "loop" /\ active[c] > max[c]
  /\ IF max_connections = max[c]
     THEN max_connections' = active[c] /\ UNCHANGED max
     ELSE max' = [max EXCEPT ![c] = max_connections] /\ UNCHANGED max_connections
  /\ UNCHANGED <<active_connections, pc, active, peak>>

\* A mistake: the exchange is tried once at most.
ConnectedUnchecked(c) ==
  /\ pc[c] = "loop"
  /\ pc' = [pc EXCEPT ![c] = "connected"]
  /\ UNCHANGED <<active_connections, max_connections, active, max, peak>>

Connected(c) ==
  /\ pc[c] = "loop" /\ active[c] <= max[c]
  /\ pc' = [pc EXCEPT ![c] = "connected"]
  /\ UNCHANGED <<active_connections, max_connections, active, max, peak>>
-----------------------------------------------------------------------------
(* on_disconnect, which the server skips after a failed send. *)

\* A mistake: on_disconnect is also called after a failed handshake.
DisconnectAnyway(c) ==
  /\ pc[c] \in {"new", "connected"}
  /\ pc' = [pc EXCEPT ![c] = "closed"]
  /\ active_connections' = IF active_connections = 0 THEN USIZE_MAX ELSE active_connections - 1
  /\ UNCHANGED <<max_connections, active, max, peak>>

Disconnect(c) ==
  /\ pc[c] = "connected"
  /\ pc' = [pc EXCEPT ![c] = "closed"]
  /\ active_connections' = IF active_connections = 0 THEN USIZE_MAX ELSE active_connections - 1
  /\ UNCHANGED <<max_connections, active, max, peak>>

SendFails(c) ==
  /\ SendsMayFail /\ pc[c] = "connected"
  /\ pc' = [pc EXCEPT ![c] = "lost"]
  /\ UNCHANGED <<active_connections, max_connections, active, max, peak>>
-----------------------------------------------------------------------------
OnConnect(c) == FetchAdd(c) \/ Load(c) \/ CompareExchange(c) \/ Connected(c)

Next == \E c \in Conns : OnConnect(c) \/ Disconnect(c) \/ SendFails(c)

Spec == Init /\ [][Next]_vars

\* on_connect runs on once the task has been accepted; connections may stay open.
FairSpec == Spec /\ \A c \in Conns : WF_vars(OnConnect(c))
-----------------------------------------------------------------------------
(* Properties. *)

Connecting == {c \in Conns : pc[c] \in {"load", "loop"}}
Open       == {c \in Conns : pc[c] \in {"load", "loop", "connected"}}
Lost       == {c \in Conns : pc[c] = "lost"}

TypeOK ==
  /\ active_connections \in 0..USIZE_MAX /\ max_connections \in 0..USIZE_MAX
  /\ pc \in [Conns -> {"new", "load", "loop", "connected", "closed", "lost"}]
  /\ active \in [Conns -> 0..USIZE_MAX] /\ max \in [Conns -> 0..USIZE_MAX]
  /\ peak \in 0..USIZE_MAX

\* The count is that of the open connections, plus one for ever for each one
\* lost in a send; it never wraps.
ActiveCounts == active_connections = Cardinality(Open \cup Lost)

\* Whatever the interleaving of loads and exchanges, the maximum is the true peak
\* once nobody is inside on_connect, and never more than it before.
MaxIsPeak == max_connections <= peak /\ (Connecting = {} => max_connections = peak)

\* A late exchange never lowers the maximum.
MaxGrows == [][max_connections' >= max_connections]_vars

\* The loop of on_connect ends: other connections cannot make it spin for ever.
ConnectEnds == \A c \in Conns : (pc[c] = "load") ~> (pc[c] \notin {"load", "loop"})
===============================================================================
