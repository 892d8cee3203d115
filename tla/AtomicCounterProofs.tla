-------------------------- MODULE AtomicCounterProofs --------------------------
(***************************************************************************)
(* The counter for any number of threads and operations and any width.     *)
(***************************************************************************)
EXTENDS AtomicCounter, FiniteSetTheorems, FunctionTheorems, TLAPS

M == USIZE_MAX + 1

Between == {t \in Threads : left[t] % 2 = 1}

\* The operations done so far by the threads that increment in the split test
\* (parity 0), and by those that decrement (parity 1).
Done(parity) == {d \in Threads \X (1..OPERATIONS) : d[1] % 2 = parity /\ left[d[1]] < d[2]}

\* How often the counter has wrapped, upwards less downwards.
Laps == \E k \in Int : net = value + k * M

CounterInv ==
  /\ TypeOK /\ Laps
  /\ workload = "pairs" => net = Cardinality(Between)
  /\ workload = "split" => net = Cardinality(Done(0)) - Cardinality(Done(1))

\* Two numbers in range that differ by whole laps are equal.
LEMMA NoLap ==
  ASSUME NEW v \in 0..USIZE_MAX, NEW n \in 0..USIZE_MAX, NEW k \in Int, n = v + k * M
  PROVE  n = v
<1>1. USIZE_MAX \in Nat /\ M \in Nat /\ v < M /\ n < M
  BY CounterAssumption DEF CounterAssumption, M
<1>2. CASE k >= 1
  <2>1. k * M >= M
    <3>1. (k - 1) * M >= 0
      BY <1>1, <1>2
    <3> QED
      BY <1>1, <3>1
  <2> QED
    BY <1>1, <2>1
<1>3. CASE k <= -1
  <2>1. k * M <= -M
    <3>1. (k + 1) * M <= 0
      BY <1>1, <1>3
    <3> QED
      BY <1>1, <3>1
  <2> QED
    BY <1>1, <2>1
<1>4. CASE k = 0
  BY <1>1, <1>4
<1> QED
  BY <1>2, <1>3, <1>4

\* A thread in a pair leaves it by its decrement and enters one by its increment.
LEMMA PairStep ==
  ASSUME TypeOK, workload = "pairs", NEW t \in Threads, Operation(t)
  PROVE  /\ MayIncrement(t) => t \notin Between /\ Between' = Between \cup {t}
         /\ MayDecrement(t) => t \in Between /\ Between' = Between \ {t}
<1>1. /\ left[t] \in Nat /\ left'[t] = left[t] - 1
      /\ \A u \in Threads : u # t => left'[u] = left[u]
  BY CounterAssumption DEF Operation, TypeOK
<1>2. left'[t] % 2 = 1 <=> left[t] % 2 = 0
  BY <1>1
<1>3. left[t] % 2 = 0 <=> left[t] % 2 # 1
  BY <1>1
<1> QED
  BY <1>1, <1>2, <1>3 DEF MayIncrement, MayDecrement, PairIncrement, Between

\* There are finitely many operations.
LEMMA DoneFinite ==
  ASSUME NEW parity
  PROVE  IsFiniteSet(Done(parity)) /\ Cardinality(Done(parity)) \in Nat
<1>1. IsFiniteSet(Threads) /\ IsFiniteSet(1..OPERATIONS)
  <2>1. 0 \in Int /\ N - 1 \in Int /\ 1 \in Int /\ OPERATIONS \in Int
    BY CounterAssumption DEF CounterAssumption
  <2> QED
    BY <2>1, FS_Interval DEF Threads
<1>2. IsFiniteSet(Threads \X (1..OPERATIONS))
  BY <1>1, FS_Product
<1> QED
  BY <1>2, FS_Subset, FS_CardinalityType DEF Done

\* An operation of a thread is one more of its kind, and none of the other.
LEMMA SplitStep ==
  ASSUME TypeOK, NEW t \in Threads, Operation(t), NEW parity \in {0, 1}
  PROVE  Cardinality(Done(parity)') =
           Cardinality(Done(parity)) + (IF t % 2 = parity THEN 1 ELSE 0)
<1>1. /\ left[t] \in 1..OPERATIONS /\ left'[t] = left[t] - 1 /\ OPERATIONS \in Nat
      /\ \A u \in Threads : left[u] \in Nat /\ (u # t => left'[u] = left[u])
  BY CounterAssumption DEF CounterAssumption, Operation, TypeOK
<1>2. \A i \in 1..OPERATIONS : left'[t] < i <=> left[t] < i \/ i = left[t]
  BY <1>1
<1>3. CASE t % 2 = parity
  <2>1. Done(parity)' = Done(parity) \cup {<<t, left[t]>>} /\ <<t, left[t]>> \notin Done(parity)
    BY <1>1, <1>2, <1>3 DEF Done
  <2> QED
    BY <1>3, <2>1, DoneFinite, FS_AddElement
<1>4. CASE t % 2 # parity
  <2>1. Done(parity)' = Done(parity)
    BY <1>1, <1>4 DEF Done
  <2> QED
    BY <1>4, <2>1, DoneFinite
<1> QED
  BY <1>3, <1>4

\* When all have been joined, as many have incremented as have decremented: each
\* thread with an even number is followed by one with an odd number.
LEMMA SplitBalanced ==
  ASSUME TypeOK, Joined
  PROVE  Cardinality(Done(0)) = Cardinality(Done(1))
<1> DEFINE f == [d \in Done(0) |-> <<d[1] + 1, d[2]>>]
<1>1. N \in Nat /\ N % 2 = 0 /\ \A t \in Threads : t \in Nat /\ t <= N - 1 /\ left[t] = 0
  BY CounterAssumption DEF CounterAssumption, Threads, Joined
<1>2. \A t \in Threads : t % 2 = 0 => t + 1 \in Threads /\ (t + 1) % 2 = 1
  BY <1>1 DEF Threads
<1>3. \A t \in Threads : t % 2 = 1 => t - 1 \in Threads /\ (t - 1) % 2 = 0 /\ (t - 1) + 1 = t
  BY <1>1 DEF Threads
<1>4. ASSUME NEW d \in Done(0) PROVE <<d[1] + 1, d[2]>> \in Done(1)
  BY <1>1, <1>2 DEF Done
<1>5. ASSUME NEW d \in Done(0), NEW e \in Done(0), f[d] = f[e] PROVE d = e
  <2>1. d[1] + 1 = e[1] + 1 /\ d[2] = e[2] /\ d[1] \in Nat /\ e[1] \in Nat
    BY <1>1, <1>5 DEF Done
  <2>2. d = <<d[1], d[2]>> /\ e = <<e[1], e[2]>>
    BY DEF Done
  <2>3. d[1] = e[1]
    BY <2>1
  <2> QED
    BY <2>1, <2>2, <2>3
<1>6. ASSUME NEW e \in Done(1) PROVE \E d \in Done(0) : f[d] = e
  <2>1. <<e[1] - 1, e[2]>> \in Done(0)
    BY <1>1, <1>3 DEF Done
  <2>2. f[<<e[1] - 1, e[2]>>] = <<(e[1] - 1) + 1, e[2]>>
    BY <2>1
  <2>3. e = <<e[1], e[2]>> /\ (e[1] - 1) + 1 = e[1]
    BY <1>3 DEF Done
  <2> QED
    BY <2>1, <2>2, <2>3
<1>7. f \in Bijection(Done(0), Done(1))
  <2>1. f \in [Done(0) -> Done(1)]
    BY <1>4
  <2> HIDE DEF f
  <2> QED
    BY <1>5, <1>6, <2>1, Fun_IsBij
<1>8. ExistsBijection(Done(0), Done(1))
  BY <1>7 DEF ExistsBijection
<1> QED
  BY <1>8, DoneFinite, FS_Bijection

\* No thread has begun at first.
LEMMA InitInv == Init => CounterInv
<1> SUFFICES ASSUME Init PROVE CounterInv
  OBVIOUS
<1>1. TypeOK
  BY CounterAssumption DEF CounterAssumption, Init, TypeOK
<1>2. Laps
  <2>1. net = value + 0 * M
    BY CounterAssumption DEF CounterAssumption, Init, M
  <2> QED
    BY <2>1 DEF Laps
<1>3. net = Cardinality(Between)
  <2>1. Between = {}
    BY CounterAssumption DEF CounterAssumption, Init, Between
  <2> QED
    BY <2>1, FS_EmptySet DEF Init
<1>4. net = Cardinality(Done(0)) - Cardinality(Done(1))
  <2>1. Done(0) = {} /\ Done(1) = {}
    BY CounterAssumption DEF CounterAssumption, Init, Done
  <2> QED
    BY <2>1, FS_EmptySet DEF Init
<1> QED
  BY <1>1, <1>2, <1>3, <1>4 DEF CounterInv

\* Every operation moves counter and integer together, up to a lap.
LEMMA CounterStep == CounterInv /\ [Next]_vars => CounterInv'
<1> SUFFICES ASSUME CounterInv, [Next]_vars PROVE CounterInv'
  OBVIOUS
<1>1. USIZE_MAX \in Nat /\ N \in Nat /\ OPERATIONS \in Nat /\ value \in 0..USIZE_MAX /\ net \in Int
  BY CounterAssumption DEF CounterAssumption, CounterInv, TypeOK
<1>2. PICK k \in Int : net = value + k * M
  BY DEF CounterInv, Laps
<1>3. IsFiniteSet(Between) /\ Cardinality(Between) \in Nat
  <2>1. IsFiniteSet(Threads)
    BY <1>1, FS_Interval DEF Threads
  <2> QED
    BY <2>1, FS_Subset, FS_CardinalityType DEF Between
<1>4. ASSUME NEW t \in Threads, Operation(t)
      PROVE  left' \in [Threads -> 0..OPERATIONS] /\ workload' = workload
  BY <1>1, <1>4 DEF Operation, CounterInv, TypeOK
<1>5. ASSUME NEW t \in Threads, increment(t) PROVE CounterInv'
  <2>1. value' \in 0..USIZE_MAX /\ net' \in Int
    BY <1>1, <1>5 DEF increment, Added
  <2>2. Laps'
    <3>1. CASE value = USIZE_MAX
      <4>1. net' = value' + (k + 1) * M
        BY <1>1, <1>2, <1>5, <3>1 DEF increment, Added, M
      <4> QED
        BY <4>1 DEF Laps, M
    <3>2. CASE value # USIZE_MAX
      <4>1. net' = value' + k * M
        BY <1>1, <1>2, <1>5, <3>2 DEF increment, Added, M
      <4> QED
        BY <4>1 DEF Laps, M
    <3> QED
      BY <3>1, <3>2
  <2>3. ASSUME workload = "pairs" PROVE net' = Cardinality(Between')
    BY <1>1, <1>3, <1>5, <2>3, PairStep, FS_AddElement DEF increment, CounterInv
  <2>4. ASSUME workload = "split" PROVE net' = Cardinality(Done(0)') - Cardinality(Done(1)')
    <3>1. t % 2 = 0 /\ Operation(t) /\ net' = net + 1
      BY <1>5, <2>4 DEF increment, MayIncrement, SplitIncrement, Threads
    <3>2. /\ Cardinality(Done(0)') = Cardinality(Done(0)) + 1
          /\ Cardinality(Done(1)') = Cardinality(Done(1)) + 0
      BY <3>1, SplitStep DEF CounterInv
    <3> QED
      BY <2>4, <3>1, <3>2, DoneFinite DEF CounterInv
  <2> QED
    BY <1>4, <1>5, <2>1, <2>2, <2>3, <2>4 DEF increment, CounterInv, TypeOK
<1>6. ASSUME NEW t \in Threads, decrement(t) PROVE CounterInv'
  <2>1. value' \in 0..USIZE_MAX /\ net' \in Int
    BY <1>1, <1>6 DEF decrement, Subtracted
  <2>2. Laps'
    <3>1. CASE value = 0
      <4>1. net' = value' + (k - 1) * M
        BY <1>1, <1>2, <1>6, <3>1 DEF decrement, Subtracted, M
      <4> QED
        BY <4>1 DEF Laps, M
    <3>2. CASE value # 0
      <4>1. net' = value' + k * M
        BY <1>1, <1>2, <1>6, <3>2 DEF decrement, Subtracted, M
      <4> QED
        BY <4>1 DEF Laps, M
    <3> QED
      BY <3>1, <3>2
  <2>3. ASSUME workload = "pairs" PROVE net' = Cardinality(Between')
    BY <1>1, <1>3, <1>6, <2>3, PairStep, FS_RemoveElement DEF decrement, CounterInv
  <2>4. ASSUME workload = "split" PROVE net' = Cardinality(Done(0)') - Cardinality(Done(1)')
    <3>1. t % 2 = 1 /\ Operation(t) /\ net' = net - 1
      BY <1>6, <2>4 DEF decrement, MayDecrement, MayIncrement, SplitIncrement, Threads
    <3>2. /\ Cardinality(Done(0)') = Cardinality(Done(0)) + 0
          /\ Cardinality(Done(1)') = Cardinality(Done(1)) + 1
      BY <3>1, SplitStep DEF CounterInv
    <3> QED
      BY <2>4, <3>1, <3>2, DoneFinite DEF CounterInv
  <2> QED
    BY <1>4, <1>6, <2>1, <2>2, <2>3, <2>4 DEF decrement, CounterInv, TypeOK
<1>7. CASE UNCHANGED vars
  BY <1>7 DEF vars, CounterInv, TypeOK, Laps, M, Between, Done
<1> QED
  BY <1>5, <1>6, <1>7 DEF Next

\* The inductive invariant of the counter holds in every reachable state.
THEOREM CounterInvariant == Spec => []CounterInv
<1> QED
  BY InitInv, CounterStep, PTL DEF Spec

\* Wrapping loses nothing: whenever increments less decrements (AtomicCounter) fit a
\* usize, the counter is that number, even if it has been below zero on the way.
THEOREM ValueIsRight == Spec => []ValueIsNet
<1>1. CounterInv => ValueIsNet
  BY NoLap DEF CounterInv, TypeOK, Laps, ValueIsNet
<1> QED
  BY <1>1, CounterInvariant, PTL

\* In test_concurrent_increment_decrement the counter is the number of threads
\* between their two operations, hence zero when they are joined.
THEOREM PairsAreCounted == Spec => []PairsNeverWrap
<1>1. ASSUME CounterInv, workload = "pairs", N <= USIZE_MAX
      PROVE  value = Cardinality(Between)
  <2>1. N \in Nat /\ USIZE_MAX \in Nat
    BY CounterAssumption DEF CounterAssumption
  <2>2. IsFiniteSet(Threads) /\ Cardinality(Threads) = N
    BY <2>1, FS_Interval DEF Threads
  <2>3. Cardinality(Between) \in Nat /\ Cardinality(Between) <= N
    BY <2>2, FS_Subset, FS_CardinalityType DEF Between
  <2>4. net = Cardinality(Between) /\ net \in 0..USIZE_MAX
    BY <1>1, <2>1, <2>3 DEF CounterInv
  <2> QED
    BY <1>1, <2>4, NoLap DEF CounterInv, TypeOK, Laps
<1>2. CounterInv => PairsNeverWrap
  BY <1>1 DEF PairsNeverWrap, Between
<1> QED
  BY <1>2, CounterInvariant, PTL

\* When the threads of test_concurrent_increment_decrement and of
\* test_concurrent_high_contention have been joined, the counter is back at zero:
\* any number of threads and operations, in any order, wrapping on the way or not.
THEOREM CounterEndsAtZero == Spec => []EndsAtZero
<1>1. ASSUME CounterInv, Joined, workload # "random" PROVE net = 0
  <2>1. CASE workload = "pairs"
    <3>1. Between = {}
      BY <1>1 DEF Between, Joined
    <3> QED
      BY <1>1, <2>1, <3>1, FS_EmptySet DEF CounterInv
  <2>2. CASE workload = "split"
    BY <1>1, <2>2, SplitBalanced, DoneFinite DEF CounterInv
  <2> QED
    BY <1>1, <2>1, <2>2 DEF CounterInv, TypeOK
<1>2. CounterInv => EndsAtZero
  <2>1. 0 \in 0..USIZE_MAX
    BY CounterAssumption DEF CounterAssumption
  <2> QED
    BY <1>1, <2>1, NoLap DEF CounterInv, TypeOK, Laps, EndsAtZero
<1> QED
  BY <1>2, CounterInvariant, PTL
===============================================================================
