------------------------------ MODULE AppLifecycle ------------------------------
(***************************************************************************)
(* The life of the process (main.rs, shutdown.rs): main() starts up step   *)
(* by step, spawns the two consumer loops, the WebSocket server and the    *)
(* signal task, and joins the first three.  What the loops and the server  *)
(* do is abstracted to being at work or not; RabbitConsumer and            *)
(* WebSocketServer have the detail.                                        *)
(***************************************************************************)
EXTENDS Naturals, Sequences

CONSTANTS
  Signals,          \* the signals handled, in the order of their registration
  HandlersMayFail,  \* whether registering a handler may fail
  MayPanic          \* joined tasks that may panic (a bug in a library or a handler)

Consumers == {"consumer", "dlq"}
Joined    == Consumers \cup {"websocket"}
Tasks     == Joined \cup {"signals"}

ASSUME LifecycleAssumption ==
  /\ Len(Signals) \in Nat \ {0} /\ Signals \in Seq(STRING)
  /\ HandlersMayFail \in BOOLEAN
  /\ MayPanic \subseteq Joined

\* What main() does after each of its steps; a step named after a task spawns it.
After ==
  [dotenv |-> "logging", logging |-> "config", config |-> "connect",
   connect |-> "bind_topic", bind_topic |-> "consumer", consumer |-> "dlq",
   dlq |-> "websocket", websocket |-> "signals", signals |-> "join"]

VARIABLES
  main,        \* the step main() is at, or how the process ended: "ok", "err", "killed"
  task,        \* "none", "ready" (not polled yet), "running", "busy" (a delivery
               \* in hand), "ok", "err", "panicked", "dropped" (with the runtime)
  registered,  \* how many handlers the operating system has; they stay for good
  caught,      \* signals the signal task can receive
  unread,      \* tasks with the broadcast message in their receiver
  sent,        \* history: the signal task has broadcast
  arrived,     \* history: signals the process got
  cutoff       \* history: consumers that ended with a delivery in hand

vars == <<main, task, registered, caught, unread, sent, arrived, cutoff>>

Init ==
  /\ main = "dotenv" /\ task = [t \in Tasks |-> "none"]
  /\ registered = 0 /\ caught = {} /\ unread = {}
  /\ sent = FALSE /\ arrived = {} /\ cutoff = {}
-----------------------------------------------------------------------------
Over    == main \in {"ok", "err", "killed"}
Live(t) == task[t] \in {"ready", "running", "busy"}
Handled == {Signals[i] : i \in 1..registered}

\* When main() returns the runtime drops the remaining tasks where they are.
End(how) ==
  /\ main' = how
  /\ task' = [t \in Tasks |-> IF Live(t) THEN "dropped" ELSE task[t]]
  /\ cutoff' = {t \in Consumers : task[t] = "busy"}
  /\ UNCHANGED <<registered, caught, unread, sent>>

Becomes(t, state) ==
  /\ task' = [task EXCEPT ![t] = state]
  /\ UNCHANGED <<main, registered, caught, unread, sent, arrived, cutoff>>
-----------------------------------------------------------------------------
(* main() *)

\* Every start-up step ends in "?".
StartUp ==
  /\ main \in DOMAIN After \ Tasks
  /\ main' = After[main]
  /\ UNCHANGED <<task, registered, caught, unread, sent, arrived, cutoff>>

StartUpFails ==
  /\ main \in DOMAIN After \ Tasks
  /\ End("err") /\ UNCHANGED arrived

\* The receiver is subscribed before the task first runs.
Spawn(t) ==
  /\ main = t
  /\ main' = After[t] /\ task' = [task EXCEPT ![t] = "ready"]
  /\ UNCHANGED <<registered, caught, unread, sent, arrived, cutoff>>

\* A mistake: main() waits for one of the three only.
JoinAny ==
  /\ main = "join" /\ \E t \in Joined : task[t] \in {"ok", "err"}
  /\ End("ok") /\ UNCHANGED arrived

\* try_join! looks at join errors only: what the tasks returned is ignored.
Join ==
  /\ main = "join" /\ \A t \in Joined : task[t] \in {"ok", "err"}
  /\ End("ok") /\ UNCHANGED arrived

\* The first panic ends the wait, and the process.
JoinError ==
  /\ main = "join" /\ \E t \in Joined : task[t] = "panicked"
  /\ End("err") /\ UNCHANGED arrived

Main == StartUp \/ StartUpFails \/ Join \/ JoinError \/ \E t \in Tasks : Spawn(t)
-----------------------------------------------------------------------------
(* The joined tasks. *)

\* A mistake: only the signal task has a sender.
SignalTaskSender == {t \in {"signals"} : task[t] \in {"none", "ready"}}

\* main() keeps its sender until it returns.
Senders == {t \in {"signals"} : task[t] = "ready"} \cup (IF Over THEN {} ELSE {"main"})

\* The broadcast is there to read, or the channel is closed.
Hears(t) == t \in unread \/ Senders = {}

\* basic_consume, or bind.
Begin(t) ==
  /\ t \in Joined /\ task[t] = "ready"
  /\ \E state \in {"running", "err"} : Becomes(t, state)

Deliver(c) == task[c] = "running" /\ Becomes(c, "busy")
Settle(c)  == task[c] = "busy" /\ Becomes(c, "running")

\* Only a select! hears the shutdown.
Stop(t) ==
  /\ t \in Joined /\ task[t] = "running" /\ Hears(t)
  /\ task' = [task EXCEPT ![t] = "ok"] /\ unread' = unread \ {t}
  /\ UNCHANGED <<main, registered, caught, sent, arrived, cutoff>>

Panic(t) ==
  /\ t \in MayPanic /\ task[t] \in {"running", "busy"}
  /\ Becomes(t, "panicked")
-----------------------------------------------------------------------------
(* Signals: handle_shutdown_signals. *)

\* A mistake: receivers subscribed by the tasks themselves.
SubscribedOnceRunning(t) == task[t] \in {"running", "busy"}

Subscribed(t) == Live(t)

\* Without a handler a signal kills the process; with one it never does again.
Arrive(s) ==
  /\ ~Over /\ arrived' = arrived \cup {s}
  /\ IF s \in Handled
     THEN /\ caught' = caught \cup {s}
          /\ UNCHANGED <<main, task, registered, unread, sent, cutoff>>
     ELSE End("killed")

\* A mistake: one registration too many.
RegisterBeyond ==
  /\ task["signals"] = "ready" /\ registered <= Len(Signals)
  /\ registered' = registered + 1
  /\ UNCHANGED <<main, task, caught, unread, sent, arrived, cutoff>>

Register ==
  /\ task["signals"] = "ready" /\ registered < Len(Signals)
  /\ registered' = registered + 1
  /\ UNCHANGED <<main, task, caught, unread, sent, arrived, cutoff>>

RegisterFails ==
  /\ HandlersMayFail
  /\ task["signals"] = "ready" /\ registered < Len(Signals)
  /\ Becomes("signals", "panicked")

\* send() fails, and expect() panics, when no receiver is left.
Broadcast ==
  LET receivers == {t \in Joined : Subscribed(t)} IN
  /\ task["signals"] = "ready" /\ registered = Len(Signals) /\ caught # {}
  /\ task' = [task EXCEPT !["signals"] = IF receivers = {} THEN "panicked" ELSE "ok"]
  /\ unread' = receivers /\ sent' = (receivers # {})
  /\ UNCHANGED <<main, registered, caught, arrived, cutoff>>

SignalTask == Register \/ RegisterFails \/ Broadcast
-----------------------------------------------------------------------------
Next ==
  \/ Main \/ SignalTask
  \/ \E t \in Joined : Begin(t) \/ Stop(t) \/ Panic(t)
  \/ \E c \in Consumers : Deliver(c) \/ Settle(c)
  \/ \E i \in 1..Len(Signals) : Arrive(Signals[i])

Spec == Init /\ [][Next]_vars

\* The runtime polls every task that can go on, and a delivery is settled in the
\* end.  A select! picks a ready shutdown at last (strong: it is not ready while
\* a delivery is handled).  Nothing makes a signal arrive or anything fail.
Fairness ==
  /\ WF_vars(Main) /\ WF_vars(SignalTask)
  /\ \A t \in Joined : WF_vars(Begin(t)) /\ SF_vars(Stop(t))
  /\ \A c \in Consumers : WF_vars(Settle(c))

FairSpec == Spec /\ Fairness
-----------------------------------------------------------------------------
(* Properties. *)

TypeOK ==
  /\ main \in DOMAIN After \cup {"join", "ok", "err", "killed"}
  /\ task \in [Tasks -> {"none", "ready", "running", "busy", "ok", "err", "panicked", "dropped"}]
  /\ registered \in 0..Len(Signals)
  /\ caught \subseteq arrived /\ arrived \subseteq {Signals[i] : i \in 1..Len(Signals)}
  /\ unread \subseteq Joined
  /\ sent \in BOOLEAN /\ cutoff \subseteq Consumers

\* Once the handlers are there, no signal and no other task's end interrupts a
\* consumer that has a delivery in hand; only a panic does.
DeliveriesFinish ==
  (registered = Len(Signals) /\ cutoff # {}) => \E t \in Joined : task[t] = "panicked"

\* A loop or the server ends well only after the shutdown was broadcast.
StopsOnlyWhenTold ==
  \A t \in Joined : task[t] = "ok" => sent

\* The expect() on the broadcast panics only when there is nobody left to tell:
\* a caught signal is never lost, however early it comes.
NobodyLeftUntold ==
  (registered = Len(Signals) /\ task["signals"] = "panicked")
    => \A t \in Joined : ~Live(t) /\ task[t] # "none"

\* A signal ends the process, whatever start-up, tasks and other signals do.
\* The exception: its handler is in place, and the next one's registration panicked.
SignalEndsProcess ==
  \A i \in 1..Len(Signals) :
    (Signals[i] \in arrived) ~>
      (Over \/ (i <= registered /\ registered < Len(Signals) /\ task["signals"] = "panicked"))

\* "Application shutdown complete": main() returns Ok only if a shutdown was broadcast
\* or all three tasks have returned an error.  What ends it sooner, such as a panic of
\* one task, makes it return an error.
CompleteForAReason == main = "ok" => sent \/ \A t \in Joined : task[t] = "err"
===============================================================================
