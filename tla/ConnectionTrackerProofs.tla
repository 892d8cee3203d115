------------------------ MODULE ConnectionTrackerProofs ------------------------
(***************************************************************************)
(* The two atomics of ConcurrentHandler for any set of connections.        *)
(***************************************************************************)
EXTENDS ConnectionTracker, FiniteSetTheorems, TLAPS

Counted == Open \cup Lost

\* What a connection has read of the maximum is not more than it is now, and
\* whoever raised the count to the peak is still on its way to recording it.
MaximumInv ==
  /\ max_connections <= peak
  /\ \A c \in Conns : active[c] <= peak /\ max[c] <= max_connections
  /\ max_connections < peak => \E c \in Connecting : active[c] = peak

TrackerInv == TypeOK /\ ActiveCounts /\ MaximumInv

\* A connection that is not counted yet leaves room for one more.
LEMMA RoomForOne ==
  ASSUME ActiveCounts, NEW c \in Conns, c \notin Counted
  PROVE  /\ IsFiniteSet(Counted) /\ Cardinality(Counted) \in Nat
         /\ active_connections + 1 <= USIZE_MAX
<1>1. IsFiniteSet(Conns) /\ Counted \subseteq Conns /\ Counted \cup {c} \subseteq Conns
  BY TrackerAssumption DEF TrackerAssumption, Counted, Open, Lost
<1>2. /\ IsFiniteSet(Counted) /\ Cardinality(Counted) \in Nat
      /\ Cardinality(Counted \cup {c}) = Cardinality(Counted) + 1
  BY <1>1, FS_Subset, FS_CardinalityType, FS_AddElement
<1>3. Cardinality(Counted \cup {c}) <= Cardinality(Conns) /\ Cardinality(Conns) \in Nat
  BY <1>1, FS_Subset, FS_CardinalityType
<1> QED
  BY <1>2, <1>3, TrackerAssumption DEF TrackerAssumption, ActiveCounts, Counted

\* A connection that is counted makes the count positive.
LEMMA SomebodyCounted ==
  ASSUME ActiveCounts, NEW c \in Counted
  PROVE  /\ IsFiniteSet(Counted) /\ Cardinality(Counted) \in Nat
         /\ active_connections > 0
<1>1. IsFiniteSet(Conns) /\ Counted \subseteq Conns
  BY TrackerAssumption DEF TrackerAssumption, Counted, Open, Lost
<1>2. IsFiniteSet(Counted) /\ Cardinality(Counted) \in Nat
  BY <1>1, FS_Subset, FS_CardinalityType
<1>3. Cardinality(Counted) # 0
  BY <1>2, FS_EmptySet
<1> QED
  BY <1>2, <1>3 DEF ActiveCounts, Counted

\* Nobody is connected at first.
LEMMA InitInv == Init => TrackerInv
<1> SUFFICES ASSUME Init PROVE TrackerInv
  OBVIOUS
<1>1. TypeOK /\ MaximumInv
  BY TrackerAssumption DEF TrackerAssumption, Init, TypeOK, MaximumInv
<1>2. ActiveCounts
  <2>1. Open \cup Lost = {}
    BY DEF Init, Open, Lost
  <2> QED
    BY <2>1, FS_EmptySet DEF Init, ActiveCounts
<1> QED
  BY <1>1, <1>2 DEF TrackerInv

\* The addition of on_connect counts the connection, and may set a new peak.
LEMMA FetchAddStep ==
  ASSUME TrackerInv, NEW c \in Conns, FetchAdd(c)
  PROVE  TrackerInv'
<1> USE DEF TrackerInv, TypeOK, FetchAdd
<1>1. c \notin Counted
  BY DEF Counted, Open, Lost
<1>2. /\ IsFiniteSet(Counted) /\ Cardinality(Counted) \in Nat
      /\ active_connections + 1 <= USIZE_MAX
  BY <1>1, RoomForOne
<1>3. active_connections' = active_connections + 1 /\ active'[c] = active_connections'
      /\ active_connections' \in 0..USIZE_MAX
  BY <1>2, TrackerAssumption DEF TrackerAssumption
<1>4. peak' \in 0..USIZE_MAX /\ peak' >= peak /\ peak' >= active_connections'
      /\ (peak' = peak \/ peak' = active_connections')
  BY <1>3, TrackerAssumption DEF TrackerAssumption
<1>5. TypeOK'
  BY <1>3, <1>4
<1>6. ActiveCounts'
  <2>1. Counted' = Counted \cup {c}
    BY DEF Counted, Open, Lost
  <2> QED
    <3>1. Cardinality(Counted') = Cardinality(Counted) + 1
      BY <1>1, <1>2, <2>1, FS_AddElement
    <3> QED
      BY <1>3, <3>1 DEF ActiveCounts, Counted
<1>7. MaximumInv'
  <2>1. max_connections' <= peak'
    BY <1>4, TrackerAssumption DEF TrackerAssumption, MaximumInv
  <2>2. ASSUME NEW d \in Conns PROVE active'[d] <= peak' /\ max'[d] <= max_connections'
    <3>1. CASE d = c
      BY <3>1, <1>3, <1>4 DEF MaximumInv
    <3>2. CASE d # c
      <4>1. active'[d] = active[d] /\ max'[d] = max[d] /\ max_connections' = max_connections
        BY <3>2
      <4>2. active[d] <= peak /\ max[d] <= max_connections
        BY DEF MaximumInv
      <4>3. active[d] \in Nat /\ peak \in Nat /\ peak' \in Nat
        BY <1>4, TrackerAssumption DEF TrackerAssumption
      <4> QED
        BY <4>1, <4>2, <4>3, <1>4
    <3> QED
      BY <3>1, <3>2
  <2>3. ASSUME max_connections' < peak' PROVE \E d \in Connecting' : active'[d] = peak'
    <3>1. CASE peak' = active_connections'
      BY <3>1, <1>3 DEF Connecting
    <3>2. CASE peak' = peak
      <4>1. PICK d \in Connecting : active[d] = peak
        BY <2>3, <3>2 DEF MaximumInv
      <4>2. d # c /\ d \in Connecting'
        BY <4>1 DEF Connecting
      <4> QED
        BY <3>2, <4>1, <4>2 DEF Connecting
    <3> QED
      BY <1>4, <3>1, <3>2
  <2> QED
    BY <2>1, <2>2, <2>3 DEF MaximumInv
<1> QED
  BY <1>5, <1>6, <1>7

\* Reading and exchanging leave the count alone; the exchange records no more than
\* the peak, and what it overwrites is less.
LEMMA MaximumStep ==
  ASSUME TrackerInv, NEW c \in Conns, Load(c) \/ CompareExchange(c) \/ Connected(c)
  PROVE  TrackerInv' /\ max_connections' >= max_connections
<1> USE DEF TrackerInv, TypeOK
<1>1. UNCHANGED <<active_connections, active, peak>>
  BY DEF Load, CompareExchange, Connected
<1>2. ActiveCounts'
  <2>1. Open' = Open /\ Lost' = Lost
    BY DEF Load, CompareExchange, Connected, Open, Lost
  <2> QED
    BY <1>1, <2>1 DEF ActiveCounts
<1>3. /\ max_connections' \in 0..USIZE_MAX /\ max_connections' >= max_connections
      /\ max_connections' <= peak
  BY TrackerAssumption DEF TrackerAssumption, Load, CompareExchange, Connected, MaximumInv
<1>4. ASSUME NEW d \in Conns PROVE max'[d] \in 0..USIZE_MAX /\ max'[d] <= max_connections'
  <2>1. max'[d] = max[d] \/ max'[d] = max_connections
    BY DEF Load, CompareExchange, Connected
  <2> QED
    BY <1>3, <2>1, TrackerAssumption DEF TrackerAssumption, MaximumInv
<1>5. TypeOK'
  BY <1>1, <1>3, <1>4 DEF Load, CompareExchange, Connected
<1>6. ASSUME max_connections' < peak PROVE \E d \in Connecting' : active'[d] = peak
  <2>1. max_connections < peak
    BY <1>3, <1>6, TrackerAssumption DEF TrackerAssumption
  <2>2. PICK d \in Connecting : active[d] = peak
    BY <2>1 DEF MaximumInv
  <2>3. ~(Connected(c) /\ d = c)
    BY <1>6, <2>1, <2>2, TrackerAssumption DEF TrackerAssumption, Connected, Connecting, MaximumInv
  <2>4. d \in Connecting'
    BY <2>2, <2>3 DEF Load, CompareExchange, Connected, Connecting
  <2> QED
    BY <1>1, <2>2, <2>4
<1>7. MaximumInv'
  BY <1>1, <1>3, <1>4, <1>6 DEF MaximumInv
<1> QED
  BY <1>2, <1>3, <1>5, <1>7

\* The end of a connection touches the count only, and a lost one not even that.
LEMMA EndStep ==
  ASSUME TrackerInv, NEW c \in Conns, Disconnect(c) \/ SendFails(c)
  PROVE  TrackerInv'
<1> USE DEF TrackerInv, TypeOK
<1>1. /\ pc[c] = "connected" /\ c \in Counted
      /\ UNCHANGED <<max_connections, active, max, peak>>
  BY DEF Disconnect, SendFails, Counted, Open
<1>2. /\ IsFiniteSet(Counted) /\ Cardinality(Counted) \in Nat
      /\ active_connections > 0
  BY <1>1, SomebodyCounted
<1>3. TypeOK' /\ ActiveCounts'
  <2>1. CASE Disconnect(c)
    <3>1. Counted' = Counted \ {c}
      BY <2>1, <1>1 DEF Disconnect, Counted, Open, Lost
    <3>2. active_connections' = active_connections - 1
      BY <2>1, <1>2 DEF Disconnect
    <3>3. ActiveCounts'
      BY <1>1, <1>2, <3>1, <3>2, FS_RemoveElement DEF ActiveCounts, Counted
    <3>4. TypeOK'
      BY <2>1, <1>1, <1>2, <3>2, TrackerAssumption DEF TrackerAssumption, Disconnect
    <3> QED
      BY <3>3, <3>4
  <2>2. CASE SendFails(c)
    <3>1. Counted' = Counted
      BY <2>2, <1>1 DEF SendFails, Counted, Open, Lost
    <3> QED
      BY <2>2, <3>1 DEF SendFails, ActiveCounts, Counted
  <2> QED
    BY <2>1, <2>2
<1>4. Connecting' = Connecting
  BY <1>1 DEF Disconnect, SendFails, Connecting
<1>5. MaximumInv'
  BY <1>1, <1>4 DEF MaximumInv
<1> QED
  BY <1>3, <1>5

\* Every step keeps the invariant, and none lowers the maximum.
LEMMA TrackerStep == TrackerInv /\ [Next]_vars => TrackerInv' /\ max_connections' >= max_connections
<1> SUFFICES ASSUME TrackerInv, [Next]_vars PROVE TrackerInv' /\ max_connections' >= max_connections
  OBVIOUS
<1>1. ASSUME NEW c \in Conns, FetchAdd(c) PROVE TrackerInv' /\ max_connections' >= max_connections
  <2>1. max_connections' = max_connections /\ max_connections \in Nat
    BY <1>1, TrackerAssumption DEF TrackerAssumption, FetchAdd, TrackerInv, TypeOK
  <2>2. TrackerInv'
    BY <1>1, FetchAddStep
  <2> QED
    BY <2>1, <2>2
<1>2. ASSUME NEW c \in Conns, Load(c) \/ CompareExchange(c) \/ Connected(c)
      PROVE  TrackerInv' /\ max_connections' >= max_connections
  BY <1>2, MaximumStep
<1>3. ASSUME NEW c \in Conns, Disconnect(c) \/ SendFails(c)
      PROVE  TrackerInv' /\ max_connections' >= max_connections
  BY <1>3, EndStep, TrackerAssumption DEF TrackerAssumption, Disconnect, SendFails, TrackerInv, TypeOK
<1>4. CASE UNCHANGED vars
  <2>1. Open' = Open /\ Lost' = Lost /\ Connecting' = Connecting
    BY <1>4 DEF vars, Open, Lost, Connecting
  <2>2. TypeOK' /\ ActiveCounts' /\ MaximumInv'
    BY <1>4, <2>1 DEF vars, TrackerInv, TypeOK, ActiveCounts, MaximumInv
  <2>3. max_connections' >= max_connections
    BY <1>4, TrackerAssumption DEF TrackerAssumption, vars, TrackerInv, TypeOK
  <2> QED
    BY <2>2, <2>3 DEF TrackerInv
<1> QED
  BY <1>1, <1>2, <1>3, <1>4 DEF Next, OnConnect

\* The inductive invariant of the tracker holds in every reachable state.
THEOREM TrackerInvariant == Spec => []TrackerInv
<1> QED
  BY InitInv, TrackerStep, PTL DEF Spec

\* on_connect and on_disconnect count the open connections and those lost in a
\* send, so that the subtraction never wraps.
THEOREM CountIsRight == Spec => []ActiveCounts
<1>1. TrackerInv => ActiveCounts
  BY DEF TrackerInv
<1> QED
  BY <1>1, TrackerInvariant, PTL

\* The lock-free maximum of on_connect is the true peak when everybody has left it.
THEOREM MaximumIsPeak == Spec => []MaxIsPeak
<1>1. TrackerInv => MaxIsPeak
  BY TrackerAssumption DEF TrackerAssumption, TrackerInv, TypeOK, MaximumInv, MaxIsPeak
<1> QED
  BY <1>1, TrackerInvariant, PTL

\* compare_exchange never lowers the maximum, however late it comes.
THEOREM MaximumGrows == Spec => MaxGrows
<1>1. TrackerInv /\ [Next]_vars => [max_connections' >= max_connections]_vars
  BY TrackerStep
<1> QED
  BY <1>1, TrackerInvariant, PTL DEF Spec, MaxGrows
===============================================================================
