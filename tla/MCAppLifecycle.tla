----------------------------- MODULE MCAppLifecycle -----------------------------
(* Instances of AppLifecycle for TLC. *)
EXTENDS AppLifecycle

\* Linux and macOS; every other platform has one signal.
Unix == <<"SIGTERM", "SIGINT">>

AllJoined == Joined
===============================================================================
