---------------------------- MODULE MCMessageRouter ----------------------------
(* Instances of MessageRouter for TLC. *)
EXTENDS MessageRouter

CONSTANTS p1, p2, r1, r2, a, b

\* Two receivers of one topic, each with a task of its own.
OneTopic  == [r \in Receivers |-> a]
OwnTask   == [r \in Receivers |-> r]

\* Two topics that share a shard, and one task that subscribes to both.
TwoTopics == [r \in Receivers |-> IF r = r1 THEN a ELSE b]
OneTask   == [r \in Receivers |-> r1]

\* Selected against the library's SelectSeq, on all short lists.
ASSUME SelectedIsSelectSeq ==
  \A s \in UNION {[1..n -> 1..3] : n \in 0..5}, keep \in SUBSET (1..3) :
    Selected(s, keep) = SelectSeq(s, LAMBDA x : x \in keep)

\* All topics in the shard that cleanup comes to last, or in the only one.
LastShard == [t \in Topics |-> Shards]
OneShard  == [t \in Topics |-> 1]
===============================================================================
