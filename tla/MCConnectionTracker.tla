-------------------------- MODULE MCConnectionTracker --------------------------
(* Instances of ConnectionTracker for TLC. *)
EXTENDS ConnectionTracker

CONSTANTS c1, c2, c3
===============================================================================
