-------------------------- MODULE DeadLetterContract --------------------------
(***************************************************************************)
(* What the analytics service promises about each message, independently   *)
(* of channels, retries, acknowledgements and restarts:                    *)
(*   - a message leaves the broker for good only after a handler has       *)
(*     processed it, and nobody processes it after that;                   *)
(*   - it moves from the queue to the dead-letter queue and never back.    *)
(* The broker may lose a message by itself (no binding yet, or a message   *)
(* that was never written to disk): that is "lost", never "removed".       *)
(***************************************************************************)
EXTENDS Naturals

CONSTANTS
  Messages,
  Runs      \* the runs of the process, numbered from 1

VARIABLES
  place,   \* where each message is
  done     \* the run whose handler last processed each message, 0 for none

contractVars == <<place, done>>

Places == {"new", "queued", "dead", "removed", "lost"}

ContractTypeOK ==
  /\ place \in [Messages -> Places]
  /\ done \in [Messages -> Runs \cup {0}]

ContractInit ==
  /\ place = [m \in Messages |-> "new"]
  /\ done = [m \in Messages |-> 0]

Move(m, from, to) ==
  /\ place[m] \in from
  /\ place' = [place EXCEPT ![m] = to]

Accept(m)     == Move(m, {"new"}, "queued") /\ UNCHANGED done
Reject(m)     == Move(m, {"new"}, "lost") /\ UNCHANGED done
DeadLetter(m) == Move(m, {"queued"}, "dead") /\ UNCHANGED done
Remove(m)     == done[m] # 0 /\ Move(m, {"queued", "dead"}, "removed") /\ UNCHANGED done

Process(m) ==
  /\ place[m] \notin {"new", "removed"}
  /\ \E r \in Runs : done' = [done EXCEPT ![m] = r]
  /\ UNCHANGED place

Lose(S) ==
  /\ \A m \in S : place[m] \in {"queued", "dead"}
  /\ place' = [m \in Messages |-> IF m \in S THEN "lost" ELSE place[m]]
  /\ UNCHANGED done

ContractNext ==
  \/ \E m \in Messages : \/ Accept(m) \/ Reject(m) \/ DeadLetter(m)
                         \/ Remove(m) \/ Process(m)
  \/ \E S \in SUBSET Messages : Lose(S)

ContractSpec == ContractInit /\ [][ContractNext]_contractVars
===============================================================================
