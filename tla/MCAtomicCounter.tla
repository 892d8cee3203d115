---------------------------- MODULE MCAtomicCounter ----------------------------
(* An instance of AtomicCounter for TLC, whose counter wraps early. *)
EXTENDS AtomicCounter
===============================================================================
