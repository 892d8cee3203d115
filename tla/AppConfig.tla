------------------------------- MODULE AppConfig -------------------------------
(***************************************************************************)
(* How the service gets its settings (main.rs setup, config.rs): the       *)
(* process's environment completed from .env, an optional file "config",   *)
(* and defaults.  A text is one value; a variable's name is the sequence   *)
(* of its words, which "_" separates.                                      *)
(***************************************************************************)
EXTENDS Naturals, Sequences

CONSTANTS
  Texts,        \* values in the sources, besides the defaults
  Numbers,      \* those that are port numbers
  Reprint,      \* a text parsed as boolean, integer or float and printed again
  EnvNames,     \* variables that may be set in the environment
  DotenvNames,  \* and in .env
  FilePaths,    \* what the file may set
  NoFile, Malformed

VarNames == EnvNames \cup DotenvNames

\* The fields of both structs; only the port is not a String.
Port   == <<"websocket", "port">>
Queue  == <<"rabbitmq", "queue_name">>
Fields ==
  {<<"rabbitmq", "host">>, <<"rabbitmq", "port">>, <<"rabbitmq", "username">>,
   <<"rabbitmq", "password">>, Queue, <<"websocket", "host">>, Port}

Default ==
  [f \in Fields |->
    CASE f = <<"rabbitmq", "host">>  -> "localhost"
      [] f = <<"rabbitmq", "port">>  -> "5672"
      [] f = <<"websocket", "host">> -> "127.0.0.1"
      [] f = Port                    -> "8080"
      [] f = Queue                   -> "analytics"
      [] OTHER                       -> "guest"]

\* The words of names: those of the fields, and one that stands for any other.
Lower ==
  [RABBITMQ |-> "rabbitmq", WEBSOCKET |-> "websocket", HOST |-> "host", PORT |-> "port",
   USERNAME |-> "username", PASSWORD |-> "password", QUEUE |-> "queue", NAME |-> "name",
   ANY |-> "any"]

Prefixed(name) == Len(name) > 1 /\ name[1] = "APP"

\* The prefix is cut off, and every further "_" goes one table deeper.
Path(name) == [i \in 1..Len(name) - 1 |-> Lower[name[i + 1]]]

\* One path is the other, or leads to it.
Comparable(p, q) == \A i \in DOMAIN p \cap DOMAIN q : p[i] = q[i]

\* Sources set some of their variables or paths; a file sets no path and one inside it.
Maps(S) == UNION {[T -> Texts] : T \in SUBSET S}
Files   == {g \in Maps(FilePaths) : \A p, q \in DOMAIN g : Comparable(p, q) => p = q}

ASSUME ConfigAssumption ==
  /\ Numbers \subseteq Texts /\ Reprint \in [Texts -> STRING]
  /\ FilePaths \subseteq Seq(STRING) /\ VarNames \subseteq Seq(STRING)
  /\ \A n \in VarNames : Prefixed(n) => \A i \in 2..Len(n) : n[i] \in DOMAIN Lower
  /\ {NoFile, Malformed} \cap (Maps(DotenvNames) \cup Files) = {} /\ NoFile # Malformed

VARIABLES
  env, dotenv, file,  \* the sources: the environment the process got, .env, "config"
  phase,              \* "setup", "build", "merge", "ready" or "failed"
  environ,            \* the process's environment
  todo,               \* variables still to be merged
  source,             \* the merged sources, a function from paths
  config              \* the AppConfig

vars == <<env, dotenv, file, phase, environ, todo, source, config>>

Init ==
  /\ env \in Maps(EnvNames)
  /\ dotenv \in Maps(DotenvNames) \cup {NoFile, Malformed}
  /\ file \in Files \cup {NoFile, Malformed}
  /\ phase = "setup" /\ environ = env
  /\ todo = {} /\ source = <<>> /\ config = Default
-----------------------------------------------------------------------------
Fails ==
  /\ phase' = "failed"
  /\ UNCHANGED <<env, dotenv, file, environ, todo, source, config>>

Content(s) == IF s \in {NoFile, Malformed} THEN <<>> ELSE s

\* What f does not set is taken from g.
Completed(f, g) == [x \in DOMAIN f \cup DOMAIN g |-> IF x \in DOMAIN f THEN f[x] ELSE g[x]]

\* dotenv() leaves variables alone that are set.
CompletedFromDotenv == Completed(env, Content(dotenv))

\* A mistake: going on without a .env, as with dotenv().ok().
SetupTolerant ==
  /\ phase = "setup"
  /\ environ' = CompletedFromDotenv /\ phase' = "build"
  /\ UNCHANGED <<env, dotenv, file, todo, source, config>>

\* setup(): any error of dotenv() ends it, a .env that does not parse like one that
\* is missing (of the former the lines before the bad one have been set by then).
Setup ==
  /\ phase = "setup"
  /\ IF dotenv \in {NoFile, Malformed} THEN Fails
     ELSE /\ environ' = CompletedFromDotenv /\ phase' = "build"
          /\ UNCHANGED <<env, dotenv, file, todo, source, config>>

\* The first source is the file, which need not be there.
Build ==
  /\ phase = "build"
  /\ IF file = Malformed THEN Fails
     ELSE /\ source' = Content(file) /\ todo' = {n \in DOMAIN environ : Prefixed(n)}
          /\ phase' = "merge"
          /\ UNCHANGED <<env, dotenv, file, environ, config>>

\* A mistake: the sources added in the other order.
MergedUnlessSet(s, p, text) ==
  IF p \in DOMAIN s THEN s
  ELSE [q \in {x \in DOMAIN s : ~Comparable(x, p)} \cup {p} |-> IF q = p THEN text ELSE s[q]]

\* Setting a path replaces what was there: a text above it becomes a table, and a
\* table that is given a text loses what was in it.
Merged(s, p, text) ==
  [q \in {x \in DOMAIN s : ~Comparable(x, p)} \cup {p} |-> IF q = p THEN text ELSE s[q]]

\* The second source, Environment, with try_parsing: its variables are collected in
\* a hash map, so that they are merged in any order.
MergeVariable(n) ==
  /\ phase = "merge" /\ n \in todo
  /\ source' = Merged(source, Path(n), Reprint[environ[n]]) /\ todo' = todo \ {n}
  /\ UNCHANGED <<env, dotenv, file, phase, environ, config>>

\* A text that stands for a number, whether the source has parsed it or not.
IsNumber(text) == text \in Numbers \cup {Reprint[n] : n \in Numbers}
Number(text)   == IF text \in Numbers THEN Reprint[text] ELSE text

\* A text where a table belongs, or a table where a field does.
WrongShape == \E p \in DOMAIN source, f \in Fields : p # f /\ Comparable(p, f)

\* The one field that is no String; a String takes a value of any type.
WrongType == Port \in DOMAIN source /\ ~IsNumber(source[Port])

\* What no source sets has its default, what is no field is ignored.
Deserialize ==
  /\ phase = "merge" /\ todo = {}
  /\ IF WrongShape \/ WrongType THEN Fails
     ELSE /\ config' = [f \in Fields |-> IF f \notin DOMAIN source THEN Default[f]
                                         ELSE IF f = Port THEN Number(source[f]) ELSE source[f]]
          /\ phase' = "ready"
          /\ UNCHANGED <<env, dotenv, file, environ, todo, source>>

Next == Setup \/ Build \/ (\E n \in VarNames : MergeVariable(n)) \/ Deserialize

Spec == Init /\ [][Next]_vars
-----------------------------------------------------------------------------
(* Properties. *)

\* The variables that the documentation of config.rs lists.
Variable(f) ==
  CASE f = <<"rabbitmq", "host">>       -> <<"APP", "RABBITMQ", "HOST">>
    [] f = <<"rabbitmq", "port">>       -> <<"APP", "RABBITMQ", "PORT">>
    [] f = <<"rabbitmq", "username">>   -> <<"APP", "RABBITMQ", "USERNAME">>
    [] f = <<"rabbitmq", "password">>   -> <<"APP", "RABBITMQ", "PASSWORD">>
    [] f = Queue                        -> <<"APP", "RABBITMQ", "QUEUE", "NAME">>
    [] f = <<"websocket", "host">>      -> <<"APP", "WEBSOCKET", "HOST">>
    [] f = Port                         -> <<"APP", "WEBSOCKET", "PORT">>

\* The types, for the proofs.
TypeOK ==
  /\ env \in Maps(EnvNames) /\ environ \in Maps(VarNames)
  /\ dotenv \in Maps(DotenvNames) \cup {NoFile, Malformed}
  /\ file \in Files \cup {NoFile, Malformed}
  /\ phase \in {"setup", "build", "merge", "ready", "failed"}
  /\ todo \in SUBSET VarNames
  /\ DOMAIN config = Fields

\* What is set anywhere: the paths of prefixed variables, and those in the file.
SetPaths ==
  {Path(n) : n \in {m \in DOMAIN env \cup DOMAIN Content(dotenv) : Prefixed(m)}}
    \cup DOMAIN Content(file)

\* Nothing is set above or below a field: the variable APP_RABBITMQ would replace the
\* table of five fields by a text, and APP_RABBITMQ_HOST_ANY a text by a table.
Clear(f) == \A p \in SetPaths : Comparable(p, f) => p = f

\* The value of a field in the first source that sets it: the environment, .env or
\* the file; none if all leave it to the default.  A variable counts for a field if
\* its path is that of the field.
Winning(f) ==
  LET v == Variable(f) IN
  IF Path(v) = f /\ v \in DOMAIN env THEN {Reprint[env[v]]}
  ELSE IF Path(v) = f /\ v \in DOMAIN Content(dotenv) THEN {Reprint[dotenv[v]]}
  ELSE IF f \in DOMAIN Content(file) THEN {file[f]} ELSE {}

\* Every field has the value of the first source that sets it, or else its default,
\* in whatever order the variables are merged; a number for the port, text otherwise.
Precedence ==
  phase = "ready" =>
    \A f \in Fields :
      Clear(f) =>
        /\ \A text \in Winning(f) : config[f] = IF f = Port THEN Number(text) ELSE text
        /\ Winning(f) = {} => config[f] = Default[f]

\* Start-up never gets past a .env that is missing or does not parse, or past a file
\* that does not.  Otherwise it fails for a port that is no number in the source that
\* wins (one in a source that is overridden is harmless), and for nothing else unless
\* something is set above or below a field.
FailsForAReason ==
  LET unreadable == dotenv \in {NoFile, Malformed} \/ file = Malformed
      badPort    == \E text \in Winning(Port) : ~IsNumber(text)
  IN  phase \in {"ready", "failed"} =>
        /\ unreadable => phase = "failed"
        /\ (\A f \in Fields : Clear(f)) => (phase = "failed" <=> unreadable \/ badPort)

\* config.rs and .env.example document a variable for every field.
VariablesSetTheirFields ==
  phase = "ready" =>
    \A f \in Fields :
      LET v == Variable(f) IN
      v \in DOMAIN env =>
        config[f] = IF f = Port THEN Number(Reprint[env[v]]) ELSE Reprint[env[v]]
===============================================================================
