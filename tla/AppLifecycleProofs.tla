--------------------------- MODULE AppLifecycleProofs ---------------------------
(***************************************************************************)
(* Safety of the process's life for any list of signals, whichever tasks   *)
(* may panic and whether or not registering handlers may fail.             *)
(***************************************************************************)
EXTENDS AppLifecycle, TLAPS

\* How far main() is says which tasks exist, and the signal task is the last.
SpawnedInv ==
  /\ main \in {"dotenv", "logging", "config", "connect", "bind_topic"}
       => \A t \in Tasks : task[t] = "none"
  /\ main \in {"dlq", "websocket", "signals", "join"} => task["consumer"] # "none"
  /\ main \in {"websocket", "signals", "join"} => task["dlq"] # "none"
  /\ main \in {"signals", "join"} => task["websocket"] # "none"
  /\ main \in DOMAIN After => task["signals"] = "none"
  /\ task["signals"] # "none" => \A t \in Joined : task[t] # "none"

\* Who has heard of the shutdown did so after the only broadcast.
ToldInv ==
  /\ unread # {} => sent
  /\ sent => task["signals"] \notin {"none", "ready"}
  /\ StopsOnlyWhenTold

\* Nothing runs any more after the end, and only the end cuts tasks off.
EndInv ==
  /\ Over => \A t \in Tasks : ~Live(t)
  /\ cutoff # {} => Over
  /\ DeliveriesFinish

LifecycleInv ==
  TypeOK /\ SpawnedInv /\ ToldInv /\ EndInv /\ NobodyLeftUntold /\ CompleteForAReason

\* At first nothing is spawned, registered or told.
LEMMA InitInv == Init => LifecycleInv
<1> SUFFICES ASSUME Init PROVE LifecycleInv
  OBVIOUS
<1> USE DEF Init, Tasks, Joined, Consumers
<1>1. TypeOK
  <2>1. 0 \in 0..Len(Signals)
    BY LifecycleAssumption DEF LifecycleAssumption
  <2>2. main \in DOMAIN After
    BY DEF After
  <2> QED
    BY <2>1, <2>2 DEF TypeOK
<1>2. SpawnedInv /\ ToldInv
  BY DEF SpawnedInv, ToldInv, StopsOnlyWhenTold, After
<1>3. EndInv /\ NobodyLeftUntold
  BY DEF EndInv, Over, Live, DeliveriesFinish, NobodyLeftUntold
<1>4. CompleteForAReason
  BY DEF CompleteForAReason
<1> QED
  BY <1>1, <1>2, <1>3, <1>4 DEF LifecycleInv

\* No step leaves the types.
LEMMA TypeStep == TypeOK /\ [Next]_vars => TypeOK'
<1> SUFFICES ASSUME TypeOK, [Next]_vars PROVE TypeOK'
  OBVIOUS
<1> USE LifecycleAssumption DEF TypeOK, Tasks, Joined, Consumers
<1>1. CASE StartUp
  BY <1>1 DEF StartUp, After
<1>2. CASE StartUpFails
  BY <1>2 DEF StartUpFails, End, Live
<1>3. CASE Join
  BY <1>3 DEF Join, End, Live
<1>4. CASE JoinError
  BY <1>4 DEF JoinError, End, Live
<1>5. ASSUME NEW t \in Tasks, Spawn(t) PROVE TypeOK'
  BY <1>5 DEF Spawn, After
<1>6. CASE SignalTask
  <2>1. CASE Register
    BY <2>1 DEF Register
  <2>2. CASE RegisterFails
    BY <2>2 DEF RegisterFails, Becomes
  <2>3. CASE Broadcast
    BY <2>3 DEF Broadcast
  <2> QED
    BY <1>6, <2>1, <2>2, <2>3 DEF SignalTask
<1>7. ASSUME NEW t \in Joined, Begin(t) \/ Stop(t) \/ Panic(t) PROVE TypeOK'
  <2>1. \E state \in {"running", "err", "ok", "panicked"} : task' = [task EXCEPT ![t] = state]
    BY <1>7 DEF Begin, Stop, Panic, Becomes
  <2>2. unread' \subseteq unread /\ UNCHANGED <<main, registered, caught, sent, arrived, cutoff>>
    BY <1>7 DEF Begin, Stop, Panic, Becomes
  <2> QED
    BY <2>1, <2>2
<1>8. ASSUME NEW c \in Consumers, Deliver(c) \/ Settle(c) PROVE TypeOK'
  BY <1>8 DEF Deliver, Settle, Becomes
<1>9. ASSUME NEW i \in 1..Len(Signals), Arrive(Signals[i]) PROVE TypeOK'
  <2>1. arrived' \subseteq {Signals[j] : j \in 1..Len(Signals)} /\ arrived \subseteq arrived'
        /\ Signals[i] \in arrived'
    BY <1>9 DEF Arrive
  <2>2. CASE Signals[i] \in Handled
    BY <1>9, <2>1, <2>2 DEF Arrive
  <2>3. CASE Signals[i] \notin Handled
    BY <1>9, <2>1, <2>3 DEF Arrive, End, Live
  <2> QED
    BY <2>2, <2>3
<1>10. CASE UNCHANGED vars
  BY <1>10 DEF vars
<1> QED
  BY <1>1, <1>2, <1>3, <1>4, <1>5, <1>6, <1>7, <1>8, <1>9, <1>10 DEF Next, Main

\* main() spawns in order, and no step makes a spawned task unspawned.
LEMMA SpawnedStep == TypeOK /\ SpawnedInv /\ [Next]_vars => SpawnedInv'
<1> SUFFICES ASSUME TypeOK, SpawnedInv, [Next]_vars PROVE SpawnedInv'
  OBVIOUS
<1> USE DEF TypeOK, SpawnedInv, Tasks, Joined, Consumers, After
<1>1. CASE StartUp
  BY <1>1 DEF StartUp
<1>2. CASE StartUpFails
  BY <1>2 DEF StartUpFails, End, Live
<1>3. CASE Join
  BY <1>3 DEF Join, End, Live
<1>4. CASE JoinError
  BY <1>4 DEF JoinError, End, Live
<1>5. ASSUME NEW t \in Tasks, Spawn(t) PROVE SpawnedInv'
  BY <1>5 DEF Spawn
<1>6. CASE SignalTask
  BY <1>6 DEF SignalTask, Register, RegisterFails, Becomes, Broadcast
<1>7. ASSUME NEW t \in Joined, Begin(t) \/ Stop(t) \/ Panic(t) PROVE SpawnedInv'
  BY <1>7 DEF Begin, Stop, Panic, Becomes
<1>8. ASSUME NEW c \in Consumers, Deliver(c) \/ Settle(c) PROVE SpawnedInv'
  BY <1>8 DEF Deliver, Settle, Becomes
<1>9. ASSUME NEW i \in 1..Len(Signals), Arrive(Signals[i]) PROVE SpawnedInv'
  BY <1>9 DEF Arrive, End, Live
<1>10. CASE UNCHANGED vars
  BY <1>10 DEF vars
<1> QED
  BY <1>1, <1>2, <1>3, <1>4, <1>5, <1>6, <1>7, <1>8, <1>9, <1>10 DEF Next, Main

\* Only the broadcast tells anybody: before the end main() has a sender, so that
\* no receiver finds the channel closed.
LEMMA ToldStep == LifecycleInv /\ [Next]_vars => ToldInv'
<1> SUFFICES ASSUME LifecycleInv, [Next]_vars PROVE ToldInv'
  OBVIOUS
<1> USE DEF LifecycleInv, TypeOK, ToldInv, StopsOnlyWhenTold, Tasks, Joined, Consumers
<1>1. CASE StartUp
  BY <1>1 DEF StartUp
<1>2. CASE StartUpFails
  BY <1>2 DEF StartUpFails, End
<1>3. CASE Join
  BY <1>3 DEF Join, End
<1>4. CASE JoinError
  BY <1>4 DEF JoinError, End
<1>5. ASSUME NEW t \in Tasks, Spawn(t) PROVE ToldInv'
  BY <1>5 DEF Spawn, SpawnedInv, After
<1>6. CASE SignalTask
  <2>1. CASE Register
    BY <2>1 DEF Register
  <2>2. CASE RegisterFails
    BY <2>2 DEF RegisterFails, Becomes
  <2>3. CASE Broadcast
    <3>1. ~sent /\ \A t \in Joined : task[t] # "ok"
      BY <2>3 DEF Broadcast
    <3> QED
      BY <2>3, <3>1 DEF Broadcast
  <2> QED
    BY <1>6, <2>1, <2>2, <2>3 DEF SignalTask
<1>7. ASSUME NEW t \in Joined, Begin(t) \/ Stop(t) \/ Panic(t) PROVE ToldInv'
  <2>1. CASE Stop(t)
    <3>1. ~Over
      BY <2>1 DEF Stop, EndInv, Live
    <3>2. t \in unread
      BY <2>1, <3>1 DEF Stop, Hears, Senders
    <3> QED
      BY <2>1, <3>2 DEF Stop
  <2>2. CASE Begin(t) \/ Panic(t)
    BY <2>2 DEF Begin, Panic, Becomes
  <2> QED
    BY <1>7, <2>1, <2>2
<1>8. ASSUME NEW c \in Consumers, Deliver(c) \/ Settle(c) PROVE ToldInv'
  BY <1>8 DEF Deliver, Settle, Becomes
<1>9. ASSUME NEW i \in 1..Len(Signals), Arrive(Signals[i]) PROVE ToldInv'
  BY <1>9 DEF Arrive, End
<1>10. CASE UNCHANGED vars
  BY <1>10 DEF vars
<1> QED
  BY <1>1, <1>2, <1>3, <1>4, <1>5, <1>6, <1>7, <1>8, <1>9, <1>10 DEF Next, Main

\* A task at work is cut off by an unhandled signal or a panic, never otherwise.
LEMMA EndStep == LifecycleInv /\ [Next]_vars => EndInv'
<1> SUFFICES ASSUME LifecycleInv, [Next]_vars PROVE EndInv'
  OBVIOUS
<1> USE DEF LifecycleInv, TypeOK, EndInv, DeliveriesFinish, Over, Live, Tasks, Joined, Consumers
<1>1. CASE StartUp
  BY <1>1 DEF StartUp, After
<1>2. CASE StartUpFails
  BY <1>2 DEF StartUpFails, End, SpawnedInv, After
<1>3. CASE Join
  BY <1>3 DEF Join, End
<1>4. CASE JoinError
  BY <1>4 DEF JoinError, End
<1>5. ASSUME NEW t \in Tasks, Spawn(t) PROVE EndInv'
  BY <1>5 DEF Spawn, After
<1>6. CASE SignalTask
  <2>1. ~Over /\ cutoff = {}
    BY <1>6 DEF SignalTask, Register, RegisterFails, Broadcast
  <2> QED
    BY <1>6, <2>1 DEF SignalTask, Register, RegisterFails, Becomes, Broadcast
<1>7. ASSUME NEW t \in Joined, Begin(t) \/ Stop(t) \/ Panic(t) PROVE EndInv'
  BY <1>7 DEF Begin, Stop, Panic, Becomes
<1>8. ASSUME NEW c \in Consumers, Deliver(c) \/ Settle(c) PROVE EndInv'
  BY <1>8 DEF Deliver, Settle, Becomes
<1>9. ASSUME NEW i \in 1..Len(Signals), Arrive(Signals[i]) PROVE EndInv'
  <2>1. CASE Signals[i] \in Handled
    BY <1>9, <2>1 DEF Arrive
  <2>2. CASE Signals[i] \notin Handled
    <3>1. registered # Len(Signals)
      BY <2>2 DEF Handled
    <3> QED
      BY <1>9, <2>2, <3>1 DEF Arrive, End
  <2> QED
    BY <2>1, <2>2
<1>10. CASE UNCHANGED vars
  BY <1>10 DEF vars
<1> QED
  BY <1>1, <1>2, <1>3, <1>4, <1>5, <1>6, <1>7, <1>8, <1>9, <1>10 DEF Next, Main

\* Every receiver is subscribed before the signal task exists.
LEMMA UntoldStep == LifecycleInv /\ [Next]_vars => NobodyLeftUntold'
<1> SUFFICES ASSUME LifecycleInv, [Next]_vars PROVE NobodyLeftUntold'
  OBVIOUS
<1> USE DEF LifecycleInv, TypeOK, NobodyLeftUntold, Live, Tasks, Joined, Consumers
<1>1. CASE StartUp
  BY <1>1 DEF StartUp
<1>2. CASE StartUpFails
  BY <1>2 DEF StartUpFails, End
<1>3. CASE Join
  BY <1>3 DEF Join, End
<1>4. CASE JoinError
  BY <1>4 DEF JoinError, End
<1>5. ASSUME NEW t \in Tasks, Spawn(t) PROVE NobodyLeftUntold'
  BY <1>5 DEF Spawn, SpawnedInv, After
<1>6. CASE SignalTask
  <2>1. CASE Register
    BY <2>1 DEF Register
  <2>2. CASE RegisterFails
    BY <2>2 DEF RegisterFails, Becomes
  <2>3. CASE Broadcast
    BY <2>3 DEF Broadcast, Subscribed, SpawnedInv
  <2> QED
    BY <1>6, <2>1, <2>2, <2>3 DEF SignalTask
<1>7. ASSUME NEW t \in Joined, Begin(t) \/ Stop(t) \/ Panic(t) PROVE NobodyLeftUntold'
  BY <1>7 DEF Begin, Stop, Panic, Becomes
<1>8. ASSUME NEW c \in Consumers, Deliver(c) \/ Settle(c) PROVE NobodyLeftUntold'
  BY <1>8 DEF Deliver, Settle, Becomes
<1>9. ASSUME NEW i \in 1..Len(Signals), Arrive(Signals[i]) PROVE NobodyLeftUntold'
  BY <1>9 DEF Arrive, End
<1>10. CASE UNCHANGED vars
  BY <1>10 DEF vars
<1> QED
  BY <1>1, <1>2, <1>3, <1>4, <1>5, <1>6, <1>7, <1>8, <1>9, <1>10 DEF Next, Main

\* Join needs all three results, and those that are Ok were told to stop.
LEMMA CompleteStep == LifecycleInv /\ [Next]_vars => CompleteForAReason'
<1> SUFFICES ASSUME LifecycleInv, [Next]_vars PROVE CompleteForAReason'
  OBVIOUS
<1> USE DEF LifecycleInv, TypeOK, CompleteForAReason, Tasks, Joined, Consumers
<1>1. CASE StartUp
  BY <1>1 DEF StartUp, After
<1>2. CASE StartUpFails
  BY <1>2 DEF StartUpFails, End
<1>3. CASE Join
  BY <1>3 DEF Join, End, Live, ToldInv, StopsOnlyWhenTold
<1>4. CASE JoinError
  BY <1>4 DEF JoinError, End
<1>5. ASSUME NEW t \in Tasks, Spawn(t) PROVE CompleteForAReason'
  BY <1>5 DEF Spawn, After
<1>6. CASE SignalTask
  BY <1>6 DEF SignalTask, Register, RegisterFails, Becomes, Broadcast, EndInv, Over, Live
<1>7. ASSUME NEW t \in Joined, Begin(t) \/ Stop(t) \/ Panic(t) PROVE CompleteForAReason'
  BY <1>7 DEF Begin, Stop, Panic, Becomes
<1>8. ASSUME NEW c \in Consumers, Deliver(c) \/ Settle(c) PROVE CompleteForAReason'
  BY <1>8 DEF Deliver, Settle, Becomes
<1>9. ASSUME NEW i \in 1..Len(Signals), Arrive(Signals[i]) PROVE CompleteForAReason'
  BY <1>9 DEF Arrive, End
<1>10. CASE UNCHANGED vars
  BY <1>10 DEF vars
<1> QED
  BY <1>1, <1>2, <1>3, <1>4, <1>5, <1>6, <1>7, <1>8, <1>9, <1>10 DEF Next, Main

\* The inductive invariant of the process holds in every reachable state.
THEOREM LifecycleInvariant == Spec => []LifecycleInv
<1>1. Init => LifecycleInv
  BY InitInv
<1>2. LifecycleInv /\ [Next]_vars => LifecycleInv'
  BY TypeStep, SpawnedStep, ToldStep, EndStep, UntoldStep, CompleteStep DEF LifecycleInv
<1> QED
  BY <1>1, <1>2, PTL DEF Spec

\* Every variable keeps its type, and no handler is registered beyond the last.
THEOREM LifecycleTypeCorrect == Spec => []TypeOK
<1>1. LifecycleInv => TypeOK
  BY DEF LifecycleInv
<1> QED
  BY <1>1, LifecycleInvariant, PTL

\* With the handlers of handle_shutdown_signals in place, main() does not end
\* while a consumer has a delivery in hand unless a task panicked.
THEOREM DeliveriesAreFinished == Spec => []DeliveriesFinish
<1>1. LifecycleInv => DeliveriesFinish
  BY DEF LifecycleInv, EndInv
<1> QED
  BY <1>1, LifecycleInvariant, PTL

\* No loop and no server stops well before the shutdown is broadcast (main's own
\* sender keeps the channel open).
THEOREM NobodyStopsEarly == Spec => []StopsOnlyWhenTold
<1>1. LifecycleInv => StopsOnlyWhenTold
  BY DEF LifecycleInv, ToldInv
<1> QED
  BY <1>1, LifecycleInvariant, PTL

\* The send of handle_shutdown_signals panics only when all three tasks have ended.
THEOREM SendReachesWhoIsLeft == Spec => []NobodyLeftUntold
<1>1. LifecycleInv => NobodyLeftUntold
  BY DEF LifecycleInv
<1> QED
  BY <1>1, LifecycleInvariant, PTL

\* The process ends well after a broadcast, or when all three tasks have failed.
THEOREM EndsForAReason == Spec => []CompleteForAReason
<1>1. LifecycleInv => CompleteForAReason
  BY DEF LifecycleInv
<1> QED
  BY <1>1, LifecycleInvariant, PTL
===============================================================================
