---------------------------- MODULE AppConfigProofs ----------------------------
(***************************************************************************)
(* Which value wins, and why start-up fails, for any texts, any variables, *)
(* merged in any order, and any paths in the file.                         *)
(***************************************************************************)
EXTENDS AppConfig, SequenceTheorems, TLAPS

-----------------------------------------------------------------------------
(* Names of variables and paths of fields. *)

\* The words of the fields, and which word stands for which part of a name.
LEMMA Words ==
  /\ DOMAIN Lower = {"RABBITMQ", "WEBSOCKET", "HOST", "PORT", "USERNAME", "PASSWORD", "QUEUE", "NAME", "ANY"}
  /\ Lower["RABBITMQ"] = "rabbitmq" /\ Lower["WEBSOCKET"] = "websocket"
  /\ Lower["HOST"] = "host" /\ Lower["PORT"] = "port"
  /\ Lower["USERNAME"] = "username" /\ Lower["PASSWORD"] = "password"
  /\ Lower["QUEUE"] = "queue" /\ Lower["NAME"] = "name" /\ Lower["ANY"] = "any"
BY DEF Lower

\* A path of two words comes from a name of three.
LEMMA PathOfTwo ==
  ASSUME NEW n \in VarNames, Prefixed(n), NEW a, NEW b, Path(n) = <<a, b>>
  PROVE  /\ n = <<"APP", n[2], n[3]>>
         /\ Lower[n[2]] = a /\ Lower[n[3]] = b
         /\ n[2] \in DOMAIN Lower /\ n[3] \in DOMAIN Lower
<1>1. Len(n) \in Nat /\ n \in Seq(STRING) /\ \A i \in 2..Len(n) : n[i] \in DOMAIN Lower
  BY ConfigAssumption DEF ConfigAssumption
<1>2. Len(n) = 3
  <2>1. DOMAIN Path(n) = 1..Len(n) - 1
    BY DEF Path
  <2>2. DOMAIN <<a, b>> = 1..2
    OBVIOUS
  <2> QED
    BY <1>1, <2>1, <2>2
<1>3. Lower[n[2]] = a /\ Lower[n[3]] = b
  <2>1. Path(n)[1] = Lower[n[2]] /\ Path(n)[2] = Lower[n[3]]
    BY <1>2 DEF Path
  <2> QED
    BY <2>1
<1>4. n = <<"APP", n[2], n[3]>>
  BY <1>1, <1>2, SeqEqual DEF Prefixed
<1> QED
  BY <1>1, <1>2, <1>3, <1>4

\* A name of three words has their path.
LEMMA PathOfThree ==
  ASSUME NEW a, NEW b
  PROVE  Path(<<"APP", a, b>>) = <<Lower[a], Lower[b]>> /\ Prefixed(<<"APP", a, b>>)
<1>1. Len(<<"APP", a, b>>) = 3 /\ 3 - 1 = 2 /\ 3 > 1
  OBVIOUS
<1>2. Path(<<"APP", a, b>>) = [i \in 1..2 |-> Lower[<<"APP", a, b>>[i + 1]]]
  BY <1>1 DEF Path
<1>3. [i \in 1..2 |-> Lower[<<"APP", a, b>>[i + 1]]] = <<Lower[a], Lower[b]>>
  OBVIOUS
<1> QED
  BY <1>1, <1>2, <1>3 DEF Prefixed

\* A field is set by its documented variable, if that has its path, and by no other.
LEMMA VariableOfField ==
  ASSUME NEW f \in Fields, NEW n \in VarNames
  PROVE  Prefixed(n) /\ Path(n) = f <=> Path(Variable(f)) = f /\ n = Variable(f)
<1>1. CASE f = <<"rabbitmq", "host">>
  <2>1. Variable(f) = <<"APP", "RABBITMQ", "HOST">>
    BY <1>1 DEF Variable, Queue, Port
  <2> QED
    BY <1>1, <2>1, Words, PathOfTwo, PathOfThree
<1>2. CASE f = <<"rabbitmq", "port">>
  <2>1. Variable(f) = <<"APP", "RABBITMQ", "PORT">>
    BY <1>2 DEF Variable, Queue, Port
  <2> QED
    BY <1>2, <2>1, Words, PathOfTwo, PathOfThree
<1>3. CASE f = <<"rabbitmq", "username">>
  <2>1. Variable(f) = <<"APP", "RABBITMQ", "USERNAME">>
    BY <1>3 DEF Variable, Queue, Port
  <2> QED
    BY <1>3, <2>1, Words, PathOfTwo, PathOfThree
<1>4. CASE f = <<"rabbitmq", "password">>
  <2>1. Variable(f) = <<"APP", "RABBITMQ", "PASSWORD">>
    BY <1>4 DEF Variable, Queue, Port
  <2> QED
    BY <1>4, <2>1, Words, PathOfTwo, PathOfThree
<1>5. CASE f = <<"websocket", "host">>
  <2>1. Variable(f) = <<"APP", "WEBSOCKET", "HOST">>
    BY <1>5 DEF Variable, Queue, Port
  <2> QED
    BY <1>5, <2>1, Words, PathOfTwo, PathOfThree
<1>6. CASE f = Port
  <2>1. Variable(f) = <<"APP", "WEBSOCKET", "PORT">>
    BY <1>6 DEF Variable, Queue, Port
  <2> QED
    BY <1>6, <2>1, Words, PathOfTwo, PathOfThree DEF Port
<1>7. CASE f = Queue
  <2>1. Variable(f) = <<"APP", "RABBITMQ", "QUEUE", "NAME">>
    BY <1>7 DEF Variable, Queue, Port
  <2>2. DOMAIN Path(Variable(f)) = 1..3 /\ DOMAIN Queue = 1..2
    BY <2>1 DEF Path, Queue
  <2>3. Path(Variable(f)) # f
    BY <1>7, <2>2
  <2>4. ~(Prefixed(n) /\ Path(n) = f)
    BY <1>7, PathOfTwo, Words DEF Queue
  <2> QED
    BY <2>3, <2>4
<1> QED
  BY <1>1, <1>2, <1>3, <1>4, <1>5, <1>6, <1>7 DEF Fields

\* Completing one environment from another gives an environment.
LEMMA CompletedType ==
  ASSUME NEW S, NEW R, NEW f \in Maps(S), NEW g \in Maps(R)
  PROVE  Completed(f, g) \in Maps(S \cup R)
<1>1. PICK T \in SUBSET S, U \in SUBSET R : f \in [T -> Texts] /\ g \in [U -> Texts]
  BY DEF Maps
<1>2. Completed(f, g) \in [T \cup U -> Texts]
  BY <1>1 DEF Completed
<1>3. T \cup U \in SUBSET (S \cup R)
  OBVIOUS
<1> QED
  BY <1>2, <1>3 DEF Maps
-----------------------------------------------------------------------------
(* The invariant. *)

\* setup() has completed the environment, from a .env that was there and parsed.
Completing == dotenv \notin {NoFile, Malformed} /\ environ = CompletedFromDotenv

\* What the merged sources say of a field: its variable, once it is merged, or the file.
Said(f) ==
  LET v == Variable(f) IN
  IF Path(v) = f /\ v \in DOMAIN environ \ todo
  THEN f \in DOMAIN source /\ source[f] = Reprint[environ[v]]
  ELSE IF f \in DOMAIN Content(file) THEN f \in DOMAIN source /\ source[f] = file[f]
  ELSE f \notin DOMAIN source

\* Merging adds no path of its own, and a field that is clear is left to its variable.
Merging ==
  /\ Completing /\ file # Malformed
  /\ \A n \in todo : n \in DOMAIN environ /\ Prefixed(n)
  /\ DOMAIN source \subseteq SetPaths
  /\ \A f \in Fields : Clear(f) => Said(f)

\* What each phase has behind it.
StagesInv ==
  /\ phase = "build" => Completing
  /\ phase = "merge" => Merging
  /\ phase = "ready" =>
       /\ Merging /\ todo = {} /\ ~WrongShape /\ ~WrongType
       /\ config = [f \in Fields |-> IF f \notin DOMAIN source THEN Default[f]
                                     ELSE IF f = Port THEN Number(source[f]) ELSE source[f]]
  /\ phase = "failed" =>
       \/ dotenv \in {NoFile, Malformed} \/ file = Malformed
       \/ Merging /\ todo = {} /\ (WrongShape \/ WrongType)

ConfigInv == TypeOK /\ StagesInv

\* Before setup() there is the environment that the process was given.
LEMMA ConfigInit == Init => ConfigInv
<1> SUFFICES ASSUME Init PROVE ConfigInv
  OBVIOUS
<1>1. DOMAIN Default = Fields
  BY DEF Default
<1>2. Maps(EnvNames) \subseteq Maps(VarNames)
  BY DEF Maps, VarNames
<1> QED
  BY <1>1, <1>2 DEF Init, ConfigInv, TypeOK, StagesInv

\* What is set where, and by whom, does not change while the sources are merged.
LEMMA SourcesStay ==
  ASSUME UNCHANGED <<env, dotenv, file, environ>>
  PROVE  /\ SetPaths' = SetPaths /\ Content(file)' = Content(file)
         /\ \A f : Clear(f)' <=> Clear(f)
         /\ Completing' <=> Completing
BY DEF SetPaths, Content, Clear, Completing, CompletedFromDotenv

\* Each variable of the environment comes from one of its two sources.
LEMMA VariablesOfEnviron ==
  ASSUME TypeOK, Completing
  PROVE  /\ DOMAIN environ = DOMAIN env \cup DOMAIN dotenv /\ DOMAIN environ \subseteq VarNames
         /\ \A x \in DOMAIN env : environ[x] = env[x]
         /\ \A x \in DOMAIN dotenv : x \notin DOMAIN env => environ[x] = dotenv[x]
         /\ \A n \in DOMAIN environ : Prefixed(n) => Path(n) \in SetPaths
<1>1. Content(dotenv) = dotenv
  BY DEF Completing, Content
<1>2. environ = Completed(env, dotenv)
  BY <1>1 DEF Completing, CompletedFromDotenv
<1>3. DOMAIN environ = DOMAIN env \cup DOMAIN dotenv
  BY <1>2 DEF Completed
<1>4. DOMAIN environ \subseteq VarNames
  BY DEF TypeOK, Maps
<1> QED
  BY <1>1, <1>2, <1>3, <1>4 DEF Completed, SetPaths

\* Merging a variable gives its field its text, and leaves clear fields of others alone.
LEMMA MergeStep ==
  ASSUME TypeOK, Merging, NEW n \in VarNames, MergeVariable(n)
  PROVE  Merging'
<1> DEFINE p == Path(n)
<1>1. /\ n \in todo /\ n \in DOMAIN environ /\ Prefixed(n) /\ p \in SetPaths
  BY VariablesOfEnviron DEF Merging, MergeVariable
<1>2. /\ UNCHANGED <<env, dotenv, file, environ>> /\ todo' = todo \ {n}
      /\ source' = Merged(source, p, Reprint[environ[n]])
  BY DEF MergeVariable
<1> HIDE DEF p
<1>3. /\ DOMAIN source' = {x \in DOMAIN source : ~Comparable(x, p)} \cup {p}
      /\ source'[p] = Reprint[environ[n]]
      /\ \A q \in DOMAIN source' : q # p => source'[q] = source[q]
  BY <1>2 DEF Merged
<1>4. DOMAIN source' \subseteq SetPaths
  BY <1>1, <1>3 DEF Merging
<1>5. ASSUME NEW f \in Fields, Clear(f) PROVE Said(f)'
  <2>1. Said(f)
    BY <1>5 DEF Merging
  <2>2. CASE p = f
    <3>1. Path(Variable(f)) = f /\ n = Variable(f)
      BY <1>1, <2>2, VariableOfField DEF p
    <3>2. Variable(f)' = Variable(f) /\ n \in DOMAIN environ \ todo'
      BY <1>1, <1>2
    <3> QED
      BY <1>2, <1>3, <2>2, <3>1, <3>2 DEF Said
  <2>3. CASE p # f
    <3>1. ~Comparable(f, p)
      BY <1>1, <1>5, <2>3 DEF Clear, Comparable
    <3>2. /\ f \in DOMAIN source' <=> f \in DOMAIN source
          /\ f \in DOMAIN source => source'[f] = source[f]
      BY <1>3, <2>3, <3>1
    <3>3. Path(Variable(f)) = f => Variable(f) # n
      BY <1>1, <2>3, VariableOfField DEF p
    <3>4. Content(file)' = Content(file)
      BY <1>2, SourcesStay
    <3> QED
      BY <1>2, <2>1, <3>2, <3>3, <3>4 DEF Said
  <2> QED
    BY <2>2, <2>3
<1> QED
  BY <1>2, <1>4, <1>5, SourcesStay DEF Merging

\* Each step of start-up works on what the one before it has left.
LEMMA ConfigStep == ConfigInv /\ [Next]_vars => ConfigInv'
<1> SUFFICES ASSUME ConfigInv, [Next]_vars PROVE ConfigInv'
  OBVIOUS
<1> USE DEF ConfigInv
<1>1. CASE Setup
  <2>1. CASE dotenv \in {NoFile, Malformed}
    BY <1>1, <2>1 DEF Setup, Fails, TypeOK, StagesInv
  <2>2. CASE dotenv \notin {NoFile, Malformed}
    <3>1. /\ phase' = "build" /\ environ' = CompletedFromDotenv
          /\ UNCHANGED <<env, dotenv, file, todo, config>>
      BY <1>1, <2>2 DEF Setup
    <3>2. environ' \in Maps(VarNames)
      BY <2>2, <3>1, CompletedType DEF TypeOK, CompletedFromDotenv, Content, VarNames
    <3>3. CompletedFromDotenv' = CompletedFromDotenv
      BY <3>1 DEF CompletedFromDotenv, Content
    <3> QED
      BY <2>2, <3>1, <3>2, <3>3 DEF TypeOK, StagesInv, Completing
  <2> QED
    BY <2>1, <2>2
<1>2. CASE Build
  <2>1. CASE file = Malformed
    BY <1>2, <2>1 DEF Build, Fails, TypeOK, StagesInv
  <2>2. CASE file # Malformed
    <3>1. /\ phase = "build" /\ phase' = "merge" /\ source' = Content(file)
          /\ todo' = {n \in DOMAIN environ : Prefixed(n)}
          /\ UNCHANGED <<env, dotenv, file, environ, config>>
      BY <1>2, <2>2 DEF Build
    <3>2. Completing /\ DOMAIN environ \subseteq VarNames
      BY <3>1, VariablesOfEnviron DEF StagesInv
    <3>3. TypeOK'
      BY <3>1, <3>2 DEF TypeOK
    <3>4. DOMAIN source' \subseteq SetPaths
      BY <3>1 DEF SetPaths
    <3>5. ASSUME NEW f \in Fields PROVE Said(f)'
      <4>1. Path(Variable(f)) = f /\ Variable(f) \in DOMAIN environ => Variable(f) \in todo'
        BY <3>1, <3>2, VariableOfField
      <4>2. f \in DOMAIN Content(file) => Content(file)[f] = file[f]
        <5>1. DOMAIN <<>> = {}
          OBVIOUS
        <5> QED
          BY <5>1 DEF Content
      <4> QED
        BY <3>1, <4>1, <4>2, SourcesStay DEF Said
    <3>6. Merging'
      BY <2>2, <3>1, <3>2, <3>4, <3>5, SourcesStay DEF Merging
    <3> QED
      BY <3>1, <3>3, <3>6 DEF StagesInv
  <2> QED
    BY <2>1, <2>2
<1>3. ASSUME NEW n \in VarNames, MergeVariable(n) PROVE ConfigInv'
  <2>1. Merging'
    BY <1>3, MergeStep DEF StagesInv, MergeVariable
  <2>2. TypeOK'
    BY <1>3 DEF MergeVariable, TypeOK
  <2> QED
    BY <1>3, <2>1, <2>2 DEF MergeVariable, StagesInv
<1>4. CASE Deserialize
  <2>1. phase = "merge" /\ todo = {} /\ UNCHANGED <<env, dotenv, file, environ, todo, source>>
    BY <1>4 DEF Deserialize, Fails
  <2>2. Merging' /\ (WrongType' <=> WrongType) /\ (WrongShape' <=> WrongShape)
    BY <2>1, SourcesStay DEF StagesInv, Merging, Said, WrongType, WrongShape, IsNumber
  <2>3. CASE WrongShape \/ WrongType
    BY <1>4, <2>1, <2>2, <2>3 DEF Deserialize, Fails, TypeOK, StagesInv
  <2>4. CASE ~(WrongShape \/ WrongType)
    <3>1. /\ phase' = "ready"
          /\ config' = [f \in Fields |-> IF f \notin DOMAIN source THEN Default[f]
                                         ELSE IF f = Port THEN Number(source[f]) ELSE source[f]]
      BY <1>4, <2>4 DEF Deserialize
    <3>2. DOMAIN config' = Fields
      BY <3>1
    <3> QED
      BY <2>1, <2>2, <2>4, <3>1, <3>2 DEF TypeOK, StagesInv
  <2> QED
    BY <2>3, <2>4
<1>5. CASE UNCHANGED vars
  BY <1>5, SourcesStay DEF vars, TypeOK, StagesInv, Merging, Said, WrongType, WrongShape, IsNumber
<1> QED
  BY <1>1, <1>2, <1>3, <1>4, <1>5 DEF Next

\* The inductive invariant holds in every reachable state.
THEOREM ConfigInvariant == Spec => []ConfigInv
BY ConfigInit, ConfigStep, PTL DEF Spec
-----------------------------------------------------------------------------
(* The properties. *)

\* With all variables merged, the merged sources say of a clear field what the first
\* source says that sets it.
LEMMA SourcesSay ==
  ASSUME TypeOK, Merging, todo = {}, NEW f \in Fields, Clear(f)
  PROVE  /\ \A text \in Winning(f) : f \in DOMAIN source /\ source[f] = text
         /\ Winning(f) = {} => f \notin DOMAIN source
<1> DEFINE v == Variable(f)
<1>1. Said(f) /\ Completing
  BY DEF Merging
<1>2. Content(dotenv) = dotenv
  BY <1>1 DEF Completing, Content
<1>3. /\ DOMAIN environ = DOMAIN env \cup DOMAIN dotenv
      /\ v \in DOMAIN env => environ[v] = env[v]
      /\ v \in DOMAIN dotenv /\ v \notin DOMAIN env => environ[v] = dotenv[v]
  BY <1>1, VariablesOfEnviron
<1> HIDE DEF v
<1>4. CASE Path(v) = f /\ v \in DOMAIN env
  BY <1>1, <1>3, <1>4 DEF Said, Winning, v
<1>5. CASE Path(v) = f /\ v \notin DOMAIN env /\ v \in DOMAIN dotenv
  BY <1>1, <1>2, <1>3, <1>5 DEF Said, Winning, v
<1>6. CASE ~(Path(v) = f /\ (v \in DOMAIN env \/ v \in DOMAIN dotenv))
  BY <1>1, <1>2, <1>3, <1>6 DEF Said, Winning, v
<1> QED
  BY <1>4, <1>5, <1>6

\* Every field has the value of the first source that sets it, for any names of
\* variables and in whatever order they are merged, unless one of them is set above
\* or below the field (AppConfig::new, Environment::with_prefix and separator).
THEOREM FirstSourceWins == Spec => []Precedence
<1>1. ConfigInv => Precedence
  <2> SUFFICES ASSUME ConfigInv, phase = "ready", NEW f \in Fields, Clear(f)
               PROVE  /\ \A text \in Winning(f) : config[f] = IF f = Port THEN Number(text) ELSE text
                      /\ Winning(f) = {} => config[f] = Default[f]
    BY DEF Precedence
  <2>1. TypeOK /\ Merging /\ todo = {}
    BY DEF ConfigInv, StagesInv
  <2>2. config[f] = IF f \notin DOMAIN source THEN Default[f]
                    ELSE IF f = Port THEN Number(source[f]) ELSE source[f]
    BY DEF ConfigInv, StagesInv
  <2> QED
    BY <2>1, <2>2, SourcesSay
<1> QED
  BY <1>1, ConfigInvariant, PTL

\* Start-up fails on a .env that is missing or does not parse and on such a file; with
\* nothing set above or below a field, it fails besides for a port that is no number
\* in the source that wins, and for nothing else (setup, AppConfig::new).
THEOREM StartUpFails == Spec => []FailsForAReason
<1>1. ConfigInv => FailsForAReason
  <2> DEFINE unreadable == dotenv \in {NoFile, Malformed} \/ file = Malformed
             badPort    == \E text \in Winning(Port) : ~IsNumber(text)
             clear      == \A f \in Fields : Clear(f)
  <2> SUFFICES ASSUME ConfigInv, phase \in {"ready", "failed"}
               PROVE  /\ unreadable => phase = "failed"
                      /\ clear => (phase = "failed" <=> unreadable \/ badPort)
    BY DEF FailsForAReason
  <2>1. Merging => ~unreadable
    BY DEF Merging, Completing
  <2>2. ASSUME Merging, todo = {}, clear PROVE WrongShape \/ WrongType <=> badPort
    <3>1. ~WrongShape
      BY <2>2 DEF WrongShape, Merging, Clear
    <3>2. Port \in Fields
      BY DEF Port, Fields
    <3>3. /\ \A text \in Winning(Port) : Port \in DOMAIN source /\ source[Port] = text
          /\ Winning(Port) = {} => Port \notin DOMAIN source
      BY <2>2, <3>2, SourcesSay DEF ConfigInv
    <3> QED
      BY <3>1, <3>3 DEF WrongType
  <2> HIDE DEF unreadable, badPort, clear
  <2>3. CASE phase = "ready"
    BY <2>1, <2>2, <2>3 DEF ConfigInv, StagesInv
  <2>4. CASE phase = "failed"
    <3>1. unreadable \/ (Merging /\ todo = {} /\ (WrongShape \/ WrongType))
      BY <2>4 DEF ConfigInv, StagesInv, unreadable
    <3> QED
      BY <2>2, <2>4, <3>1
  <2> QED
    BY <2>3, <2>4
<1> QED
  BY <1>1, ConfigInvariant, PTL
===============================================================================
