------------------------------ MODULE MCAppConfig ------------------------------
(* Instances of AppConfig for TLC. *)
EXTENDS AppConfig, TLC

\* A number with leading zeros, and a name.
SomeTexts   == {"007", "rabbitmq"}
SomeNumbers == {"007"}
SomeReprint == "007" :> "7" @@ "rabbitmq" :> "rabbitmq"

\* A String and the port, and a variable for the table around the String.
SomeEnvNames ==
  {<<"APP", "RABBITMQ", "HOST">>, <<"APP", "RABBITMQ">>, <<"APP", "WEBSOCKET", "PORT">>}

\* The two-word field, too, and a variable for something inside the String.
SomeDotenvNames ==
  {<<"APP", "RABBITMQ", "QUEUE", "NAME">>, <<"APP", "WEBSOCKET", "PORT">>,
   <<"APP", "RABBITMQ", "HOST", "ANY">>}

SomePaths == {<<"rabbitmq", "host">>, <<"rabbitmq", "queue_name">>, Port, <<"websocket">>}

\* The variables that config.rs documents for two of the fields.
DocumentedNames == {Variable(Queue), Variable(Port)}
===============================================================================
