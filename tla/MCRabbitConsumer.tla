--------------------------- MODULE MCRabbitConsumer ---------------------------
(* Instances of RabbitConsumer for TLC. *)
EXTENDS RabbitConsumer

CONSTANTS bad, flaky
===============================================================================
