----------------------------- MODULE AtomicCounter -----------------------------
(***************************************************************************)
(* AtomicCounter (analytics.rs): an AtomicUsize without a lower or upper   *)
(* bound of its own, under the concurrent tasks its tests run on it.       *)
(***************************************************************************)
EXTENDS Integers, FiniteSets

CONSTANTS
  N,          \* num_threads, an even number
  OPERATIONS, \* operations of each thread, an even number
  USIZE_MAX   \* the largest value of the counter

ASSUME CounterAssumption ==
  /\ N \in Nat \ {0} /\ N % 2 = 0
  /\ OPERATIONS \in Nat /\ OPERATIONS % 2 = 0
  /\ USIZE_MAX \in Nat \ {0}

Threads == 0..(N - 1)

VARIABLES
  value,     \* the atomic
  workload,  \* what the threads do: "pairs", "random" or "split"
  left,      \* operations each thread has still to do
  net        \* history: increments less decrements, an integer

vars == <<value, workload, left, net>>

Init ==
  /\ value = 0 /\ net = 0
  /\ workload \in {"pairs", "random", "split"}
  /\ left = [t \in Threads |-> OPERATIONS]
-----------------------------------------------------------------------------
\* fetch_add and fetch_sub wrap around, in every build.
Added == IF value = USIZE_MAX THEN 0 ELSE value + 1

\* A mistake: a subtraction that stops at zero.
SubtractedSaturating == IF value = 0 THEN 0 ELSE value - 1

Subtracted == IF value = 0 THEN USIZE_MAX ELSE value - 1

\* A mistake: each pair begins with its decrement.
PairIncrementSecond(t) == left[t] % 2 = 1

\* Each turn of the loop is an increment, then a decrement.
PairIncrement(t) == left[t] % 2 = 0

\* Threads with an even number only increment, the others only decrement.
SplitIncrement(t) == t % 2 = 0

MayIncrement(t) ==
  \/ workload = "random"
  \/ workload = "pairs" /\ PairIncrement(t)
  \/ workload = "split" /\ SplitIncrement(t)

MayDecrement(t) == workload = "random" \/ ~MayIncrement(t)

Operation(t) ==
  /\ left[t] > 0 /\ left' = [left EXCEPT ![t] = @ - 1]
  /\ UNCHANGED workload

increment(t) ==
  /\ MayIncrement(t) /\ Operation(t)
  /\ value' = Added /\ net' = net + 1

decrement(t) ==
  /\ MayDecrement(t) /\ Operation(t)
  /\ value' = Subtracted /\ net' = net - 1

Next == \E t \in Threads : increment(t) \/ decrement(t)

Spec == Init /\ [][Next]_vars
-----------------------------------------------------------------------------
(* Properties. *)

\* The types, which the proofs use.
TypeOK ==
  /\ value \in 0..USIZE_MAX /\ net \in Int
  /\ workload \in {"pairs", "random", "split"}
  /\ left \in [Threads -> 0..OPERATIONS]

Joined == \A t \in Threads : left[t] = 0

\* The counter is the integer it stands for whenever that fits: what wrapped
\* below zero comes back, in whatever order the threads ran.
ValueIsNet == net \in 0..USIZE_MAX => value = net

\* The assertions of the tests: equally many increments and decrements leave zero.
EndsAtZero == Joined /\ workload # "random" => value = 0

\* Threads that decrement only what they have incremented never make it wrap: it
\* counts the threads between their two operations.
PairsNeverWrap ==
  workload = "pairs" /\ N <= USIZE_MAX
    => value = Cardinality({t \in Threads : left[t] % 2 = 1})
===============================================================================
