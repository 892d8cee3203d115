----------------------------- MODULE TopicContract -----------------------------
(***************************************************************************)
(* What the router promises, without locks, lists, channels or positions:  *)
(* a message goes to exactly the receivers that were members of its topic  *)
(* when it was published and have not left, each once; a publisher ends    *)
(* with one message before it starts the next; nobody who joins later, or  *)
(* on another topic, sees it.                                              *)
(***************************************************************************)
EXTENDS Naturals, Sequences

CONSTANTS
  Publishers, Receivers, Topics,
  TopicOf      \* the topic each receiver joins

VARIABLES
  member,      \* each receiver: "new", "open" or "left"
  inbox,       \* the messages an open receiver has been given
  pending,     \* the receivers each publisher has still to give its message to
  published    \* the messages each publisher has published on each topic

contractVars == <<member, inbox, pending, published>>

ContractInit ==
  /\ member = [r \in Receivers |-> "new"]
  /\ inbox = [r \in Receivers |-> <<>>]
  /\ pending = [p \in Publishers |-> {}]
  /\ published = [p \in Publishers |-> [t \in Topics |-> 0]]

Join(r) ==
  /\ member[r] = "new"
  /\ member' = [member EXCEPT ![r] = "open"]
  /\ UNCHANGED <<inbox, pending, published>>

\* Who leaves reads nothing more and keeps nobody waiting.
Leave(r) ==
  /\ member[r] = "open"
  /\ member' = [member EXCEPT ![r] = "left"]
  /\ inbox' = [inbox EXCEPT ![r] = <<>>]
  /\ pending' = [p \in Publishers |-> pending[p] \ {r}]
  /\ UNCHANGED published

Announce(p, t) ==
  /\ pending[p] = {}
  /\ published' = [published EXCEPT ![p][t] = @ + 1]
  /\ pending' = [pending EXCEPT ![p] = {r \in Receivers : member[r] = "open" /\ TopicOf[r] = t}]
  /\ UNCHANGED <<member, inbox>>

Deliver(p, r) ==
  /\ r \in pending[p]
  /\ inbox' = [inbox EXCEPT ![r] = Append(@, [from |-> p, n |-> published[p][TopicOf[r]]])]
  /\ pending' = [pending EXCEPT ![p] = @ \ {r}]
  /\ UNCHANGED <<member, published>>

ContractNext ==
  \/ \E r \in Receivers : Join(r) \/ Leave(r)
  \/ \E p \in Publishers : (\E t \in Topics : Announce(p, t)) \/ (\E r \in Receivers : Deliver(p, r))

ContractSpec == ContractInit /\ [][ContractNext]_contractVars
===============================================================================
