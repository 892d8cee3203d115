------------------------------ MODULE Selection ------------------------------
(***************************************************************************)
(* Selection on lists: what Vec::retain leaves of a list, and what a task  *)
(* that skips some of its messages makes of them.  It is SelectSeq with    *)
(* the condition given as a set, by a recursive function, so that facts    *)
(* about it can be proved (SelectionLemmas).                               *)
(***************************************************************************)
EXTENDS Naturals, Sequences

\* The elements of s that are in keep, in their order.
Selected(s, keep) ==
  LET upTo[i \in 0..Len(s)] ==
        IF i = 0 THEN <<>>
        ELSE IF s[i] \in keep THEN Append(upTo[i - 1], s[i])
        ELSE upTo[i - 1]
  IN  upTo[Len(s)]
===============================================================================
