--------------------------- MODULE DiagnosticProofs ---------------------------
(***************************************************************************)
(* Theorems about the tests of proxies, for any tests under way at once,   *)
(* ports, markers and deadlines, whether or not files can be removed.      *)
(***************************************************************************)
EXTENDS Diagnostic, TLAPS

-----------------------------------------------------------------------------
(* The invariant.                                                           *)

\* What a test has on the machine fits its step: a port from its reservation on, an engine from the spawn to the
\* drop, a reservation before the spawn, a listener only while the engine runs.
Placed(t) ==
    /\ call[t].step \in {"clean", "reserve", "build", "log", "spawn", "wait"} => call[t].own
    /\ call[t].step \in {"build", "log", "spawn", "wait", "ask"} => call[t].port \in Ports
    /\ engine[t] # "none" =>
          call[t].step \in {"wait", "ask", "drop"} /\ call[t].own /\ call[t].port \in Ports
    /\ \A p \in Ports : /\ listener[p] = t => engine[t] = "listening"
                        /\ reserved[p] = t => call[t].step \in {"build", "log", "spawn"}

\* Once its log is created, the words in it are this call's engine's; an answer has
\* words of no other, and one that is read came over a connection to an engine.
Said(t) ==
    /\ call[t].own /\ call[t].step \in {"spawn", "wait", "ask"} =>
          \A w \in log[t] : w[1] = "own"
    /\ \A w \in call[t].words : w[1] = "own"
    /\ call[t].step # "drop" => call[t].class = "none" /\ call[t].words = {}
    /\ call[t].class = "read" => call[t].words = {} /\ call[t].via \notin {None, Stranger}
    /\ call[t].step = "ask" => /\ call[t].stage > 1 => call[t].via # None
                               /\ call[t].stage > 2 => call[t].via # Stranger

Apart == \A p \in Ports : reserved[p] = None \/ listener[p] = None

Inv == TypeOK /\ Apart /\ \A t \in Tests : Placed(t) /\ Said(t)

LEMMA InvGivesProperties == Inv => EngineEndsWithCall /\ OwnWords
  BY DEF Inv, Apart, Placed, Said, EngineEndsWithCall, OwnWords, At

-----------------------------------------------------------------------------
(* What a fault is called.                                                  *)

LEMMA Names == /\ DOMAIN Order = 1..6 /\ \A n \in 1..6 : Order[n] \in Classes
               /\ "read" \notin Classes /\ "none" \notin Classes
  BY DEF Order, Classes, Logged

LEMMA Least ==
    ASSUME NEW S, S \subseteq 1..6, S # {}
    PROVE  \E n \in S : \A m \in S : n <= m
<1>1. CASE 1 \in S
  BY <1>1
<1>2. CASE 1 \notin S /\ 2 \in S
  BY <1>2
<1>3. CASE 1 \notin S /\ 2 \notin S /\ 3 \in S
  BY <1>3
<1>4. CASE 1 \notin S /\ 2 \notin S /\ 3 \notin S /\ 4 \in S
  BY <1>4
<1>5. CASE 1 \notin S /\ 2 \notin S /\ 3 \notin S /\ 4 \notin S /\ 5 \in S
  BY <1>5
<1>6. CASE 1 \notin S /\ 2 \notin S /\ 3 \notin S /\ 4 \notin S /\ 5 \notin S
  <2>1. \A m \in S : m = 6
    BY <1>6
  <2>2. 6 \in S
    BY <2>1
  <2>3. \A m \in S : 6 <= m
    BY <2>1
  <2> QED
    BY <2>2, <2>3
<1> QED
  BY <1>1, <1>2, <1>3, <1>4, <1>5, <1>6

LEMMA ClassifyType == ASSUME NEW words PROVE Classify(words) \in Classes
<1> DEFINE named == {n \in DOMAIN Order : \E w \in words : w[2] = Order[n]}
           first == CHOOSE n \in named : \A m \in named : n <= m
<1>1. CASE named = {}
  BY <1>1 DEF Classify, Classes
<1>2. CASE named # {}
  <2>1. named \subseteq 1..6
    BY Names
  <2>2. \E n \in named : \A m \in named : n <= m
    <3> HIDE DEF named
    <3> QED
      BY <1>2, <2>1, Least
  <2>3. first \in named
    <3> HIDE DEF named
    <3> QED
      BY <2>2 DEF first
  <2>4. Order[first] \in Classes
    <3> HIDE DEF first, named
    <3> QED
      BY <2>1, <2>3, Names
  <2> QED
    BY <1>2, <2>4 DEF Classify
<1> QED
  BY <1>1, <1>2

LEMMA StageFaultType ==
    ASSUME NEW s \in 1..Len(Stages) PROVE StageFault(s) \subseteq Classes
  BY DEF StageFault, Stages, IoFault, Reply, Classes, Logged, Order

LEMMA LateType == ASSUME NEW s PROVE Late(s) \in Classes
  BY DEF Late, Stages, Classes, Logged, Order

-----------------------------------------------------------------------------
(* What a step does to a call.                                              *)

\* A step of one test keeps what is known of the others.
LEMMA OneTest ==
    ASSUME Inv, NEW t \in Tests, TypeOK', Apart', Placed(t)', Said(t)',
           \A u \in Tests \ {t} :
              /\ call'[u] = call[u] /\ engine'[u] = engine[u] /\ log'[u] = log[u]
              /\ \A p \in Ports : /\ reserved'[p] = u => reserved[p] = u
                                  /\ listener'[p] = u => listener[p] = u
    PROVE  Inv'
<1>1. ASSUME NEW u \in Tests, u # t PROVE Placed(u)' /\ Said(u)'
  <2>1. /\ call'[u] = call[u] /\ engine'[u] = engine[u] /\ log'[u] = log[u]
        /\ \A p \in Ports : /\ reserved'[p] = u => reserved[p] = u
                            /\ listener'[p] = u => listener[p] = u
    BY <1>1
  <2>2. Placed(u) /\ Said(u)
    BY DEF Inv
  <2> QED
    BY <2>1, <2>2 DEF Placed, Said
<1> QED
  BY <1>1 DEF Inv

LEMMA SetEffect ==
    ASSUME TypeOK, NEW t \in Tests, NEW c \in Calls, Set(t, c)
    PROVE  /\ call' \in [Tests -> Calls] /\ call'[t] = c
           /\ \A u \in Tests \ {t} : call'[u] = call[u]
  BY DEF TypeOK, Set

LEMMA GoEffect ==
    ASSUME TypeOK, NEW t \in Tests, NEW step \in Steps, Go(t, step)
    PROVE  /\ call' \in [Tests -> Calls]
           /\ \A u \in Tests \ {t} : call'[u] = call[u]
           /\ call'[t].step = step /\ call'[t].own = call[t].own
           /\ call'[t].port = call[t].port /\ call'[t].class = call[t].class
           /\ call'[t].words = call[t].words
<1> DEFINE c == [call[t] EXCEPT !.step = step]
<1>1. call[t] \in Calls
  BY DEF TypeOK
<1>2. /\ c \in Calls /\ c.step = step /\ c.own = call[t].own /\ c.port = call[t].port
      /\ c.class = call[t].class /\ c.words = call[t].words
  BY <1>1 DEF Calls
<1>3. Set(t, c)
  BY DEF Go
<1> HIDE DEF c
<1> QED
  BY <1>2, <1>3, SetEffect

LEMMA ReportEffect ==
    ASSUME TypeOK, NEW t \in Tests, NEW class \in Classes \cup {"read"},
           NEW words \in SUBSET Words, Report(t, class, words)
    PROVE  /\ call' \in [Tests -> Calls]
           /\ \A u \in Tests \ {t} : call'[u] = call[u]
           /\ call'[t].step = "drop" /\ call'[t].own = call[t].own
           /\ call'[t].port = call[t].port /\ call'[t].via = call[t].via
           /\ call'[t].class = class /\ call'[t].words = words
<1> DEFINE c == [call[t] EXCEPT !.step = "drop", !.stage = 1, !.left = 0,
                                !.class = class, !.words = words]
<1>1. 0 \in 0..Budget /\ 1 \in 1..Len(Stages) /\ "drop" \in Steps
  BY DiagnosticAssumption DEF Stages, Steps
<1>2. call[t] \in Calls
  BY DEF TypeOK
<1>3. /\ c \in Calls /\ c.step = "drop" /\ c.own = call[t].own /\ c.port = call[t].port
      /\ c.via = call[t].via /\ c.class = class /\ c.words = words
  BY <1>1, <1>2 DEF Calls
<1> HIDE DEF c
<1>4. Set(t, c)
  BY DEF Report, c
<1> QED
  BY <1>3, <1>4, SetEffect

\* A fault of a temporary engine carries the words of its log.
LEMMA FaultEffect ==
    ASSUME Inv, NEW t \in Tests, NEW class \in Classes, Fault(t, class),
           call[t].step \in {"wait", "ask"}
    PROVE  /\ call' \in [Tests -> Calls]
           /\ \A u \in Tests \ {t} : call'[u] = call[u]
           /\ call'[t].step = "drop" /\ call'[t].own = call[t].own
           /\ call'[t].port = call[t].port /\ call'[t].class # "read"
           /\ \A w \in call'[t].words : w[1] = "own"
<1>1. CASE call[t].own /\ log[t] # {}
  <2>1. log[t] \in SUBSET Words /\ \A w \in log[t] : w[1] = "own"
    BY <1>1 DEF Inv, TypeOK, Said
  <2>2. Report(t, Classify(log[t]), log[t]) /\ Classify(log[t]) \in Classes
    BY <1>1, ClassifyType DEF Fault
  <2>3. TypeOK
    BY DEF Inv
  <2> QED
    BY <2>1, <2>2, <2>3, ReportEffect, Names
<1>2. CASE ~(call[t].own /\ log[t] # {})
  <2>1. Report(t, class, {}) /\ {} \in SUBSET Words /\ TypeOK
    BY <1>2 DEF Fault, Inv
  <2> QED
    BY <2>1, ReportEffect, Names
<1> QED
  BY <1>1, <1>2

\* A call that only goes on: the machine and the files stay.
LEMMA CallOnly ==
    ASSUME Inv, NEW t \in Tests, UNCHANGED <<engine, files, machine>>,
           call' \in [Tests -> Calls], \A u \in Tests \ {t} : call'[u] = call[u],
           Placed(t)', Said(t)'
    PROVE  Inv'
<1>1. TypeOK' /\ Apart'
  BY DEF Inv, TypeOK, Apart, files, machine
<1> QED
  BY <1>1, OneTest DEF files, machine

LEMMA Fallen ==
    ASSUME Inv, NEW t \in Tests, NEW class \in Classes, Fault(t, class),
           call[t].step \in {"wait", "ask"}, UNCHANGED <<engine, files, machine>>
    PROVE  Inv'
<1>1. /\ call' \in [Tests -> Calls]
      /\ \A u \in Tests \ {t} : call'[u] = call[u]
      /\ call'[t].step = "drop" /\ call'[t].own = call[t].own
      /\ call'[t].port = call[t].port /\ call'[t].class # "read"
      /\ \A w \in call'[t].words : w[1] = "own"
  BY FaultEffect
<1>2. Placed(t)'
  BY <1>1 DEF Inv, Placed, files, machine
<1>3. Said(t)'
  BY <1>1 DEF Said
<1> QED
  BY <1>1, <1>2, <1>3, CallOnly

\* The engine, the files or the machine of one test: what else a step must show.
LEMMA OneMachine ==
    ASSUME Inv, NEW t \in Tests, call' \in [Tests -> Calls],
           \A u \in Tests \ {t} : call'[u] = call[u],
           UNCHANGED engine \/ \E e \in {"none", "starting", "listening", "dead"} :
                                  engine' = [engine EXCEPT ![t] = e],
           UNCHANGED config \/ \E k \in {"none", "old", "own"} : config' = [config EXCEPT ![t] = k],
           UNCHANGED log \/ \E words \in SUBSET Words : log' = [log EXCEPT ![t] = words],
           UNCHANGED listener \/ listener' = Unbind(t),
           UNCHANGED reserved \/ reserved' = Release(t),
           Placed(t)', Said(t)'
    PROVE  Inv'
<1>1. /\ engine' \in [Tests -> {"none", "starting", "listening", "dead"}]
      /\ \A u \in Tests \ {t} : engine'[u] = engine[u]
  BY DEF Inv, TypeOK
<1>2. config' \in [Tests -> {"none", "old", "own"}]
  BY DEF Inv, TypeOK
<1>3. log' \in [Tests -> SUBSET Words] /\ \A u \in Tests \ {t} : log'[u] = log[u]
  <2>1. CASE UNCHANGED log
    BY <2>1 DEF Inv, TypeOK
  <2>2. ASSUME NEW words \in SUBSET Words, log' = [log EXCEPT ![t] = words]
        PROVE  log' \in [Tests -> SUBSET Words] /\ \A u \in Tests \ {t} : log'[u] = log[u]
    BY <2>2 DEF Inv, TypeOK
  <2> QED
    BY <2>1, <2>2
<1>4. /\ listener' \in [Ports -> Answerers]
      /\ \A p \in Ports : listener'[p] \in {listener[p], None}
  BY DEF Inv, TypeOK, Unbind, Answerers
<1>5. /\ reserved' \in [Ports -> Tests \cup {None}]
      /\ \A p \in Ports : reserved'[p] \in {reserved[p], None}
  BY DEF Inv, TypeOK, Release
<1>6. None \notin Tests
  BY DiagnosticAssumption
<1>7. TypeOK'
  BY <1>1, <1>2, <1>3, <1>4, <1>5 DEF TypeOK
<1>8. Apart'
  BY <1>4, <1>5 DEF Inv, Apart
<1> QED
  BY <1>1, <1>3, <1>4, <1>5, <1>6, <1>7, <1>8, OneTest

LEMMA RemovalEffect ==
    ASSUME NEW t \in Tests, RemoveFiles(t)
    PROVE  /\ UNCHANGED config \/ config' = [config EXCEPT ![t] = "none"]
           /\ UNCHANGED log \/ log' = [log EXCEPT ![t] = {}]
  BY DEF RemoveFiles, files

-----------------------------------------------------------------------------
(* The steps of a call.                                                     *)

LEMMA IdleCall == Idle \in Calls /\ \A b \in 0..Budget : [Idle EXCEPT !.step = "ask", !.left = b] \in Calls
<1>1. 0 \in 0..Budget /\ 1 \in 1..Len(Stages)
  BY DiagnosticAssumption DEF Stages
<1>2. Idle \in Calls
  BY <1>1 DEF Idle, Calls, Steps, Answerers, Words
<1> QED
  BY <1>2 DEF Calls, Steps

LEMMA BeginKeeps ==
    ASSUME Inv, NEW t \in Tests, NEW c \in Calls, Begin(t, c),
           c.step \in {"ask", "clean"}, c.own <=> c.step = "clean",
           c.step = "ask" => c.port \in Ports, c.class = "none", c.words = {}, c.stage = 1
    PROVE  Inv'
<1>1. /\ call' \in [Tests -> Calls] /\ call'[t] = c
      /\ \A u \in Tests \ {t} : call'[u] = call[u]
  BY SetEffect DEF Begin, Inv
<1>2. UNCHANGED <<engine, files, machine>> /\ call[t].step = "idle"
  BY DEF Begin, At
<1>3. /\ engine[t] = "none"
      /\ \A p \in Ports : listener[p] # t /\ reserved[p] # t
  BY <1>2 DEF Inv, Placed
<1>4. Placed(t)'
  BY <1>1, <1>2, <1>3 DEF Placed, files, machine
<1>5. Said(t)'
  <2>1. c.own /\ c.step \in {"spawn", "wait", "ask"} => \A w \in log'[t] : w[1] = "own"
    OBVIOUS
  <2> QED
    BY <1>1, <2>1 DEF Said
<1> QED
  BY <1>1, <1>2, <1>4, <1>5, CallOnly

LEMMA BeginningKeeps ==
    ASSUME Inv, NEW t \in Tests, TestAlone(t) \/ \E p \in Ports : TestLive(t, p)
    PROVE  Inv'
<1>1. CASE TestAlone(t)
  <2> DEFINE c == [Idle EXCEPT !.step = "clean", !.own = TRUE]
  <2>1. c \in Calls
    BY IdleCall DEF Calls, Steps
  <2>2. c.step = "clean" /\ c.own /\ c.class = "none" /\ c.words = {} /\ c.stage = 1
    BY IdleCall DEF Idle
  <2>3. Begin(t, c)
    BY <1>1 DEF TestAlone
  <2> HIDE DEF c
  <2> QED
    BY <2>1, <2>2, <2>3, BeginKeeps
<1>2. ASSUME NEW p \in Ports, TestLive(t, p) PROVE Inv'
  <2> DEFINE a == [Idle EXCEPT !.step = "ask", !.left = Budget]
             c == [a EXCEPT !.port = p]
  <2>1. a \in Calls
    <3>1. Budget \in 0..Budget
      BY DiagnosticAssumption
    <3> QED
      BY <3>1, IdleCall
  <2>2. c \in Calls
    BY <2>1 DEF Calls
  <2>3. c.step = "ask" /\ ~c.own /\ c.port \in Ports /\ c.class = "none" /\ c.words = {} /\ c.stage = 1
    BY <2>1 DEF Idle, Calls
  <2>4. Begin(t, c)
    BY <1>2 DEF TestLive, Asking
  <2> HIDE DEF c
  <2> QED
    BY <2>2, <2>3, <2>4, BeginKeeps
<1> QED
  BY <1>1, <1>2

\* A call that reports from before the spawn leaves no engine and no reservation.
LEMMA RefusedKeeps ==
    ASSUME Inv, NEW t \in Tests, NEW class \in Classes, Refused(t, class),
           call[t].step \in {"reserve", "build", "log", "spawn"},
           UNCHANGED engine, UNCHANGED listener,
           UNCHANGED config \/ \E k \in {"none", "old", "own"} : config' = [config EXCEPT ![t] = k],
           UNCHANGED log \/ \E words \in SUBSET Words : log' = [log EXCEPT ![t] = words]
    PROVE  Inv'
<1>1. Report(t, class, {}) /\ {} \in SUBSET Words /\ TypeOK /\ reserved' = Release(t)
  BY DEF Refused, Inv
<1>2. /\ call' \in [Tests -> Calls]
      /\ \A u \in Tests \ {t} : call'[u] = call[u]
      /\ call'[t].step = "drop" /\ call'[t].class = class /\ call'[t].words = {}
  BY <1>1, ReportEffect
<1>3. /\ engine[t] = "none" /\ \A p \in Ports : listener[p] # t
      /\ \A p \in Ports : reserved'[p] # t
  BY <1>1, DiagnosticAssumption DEF Inv, Placed, Release
<1>4. Placed(t)'
  BY <1>2, <1>3 DEF Placed
<1>5. Said(t)'
  BY <1>2, Names DEF Said
<1> QED
  BY <1>1, <1>2, <1>4, <1>5, OneMachine

LEMMA CleanKeeps == ASSUME Inv, NEW t \in Tests, Clean(t) PROVE Inv'
<1>1. /\ call' \in [Tests -> Calls]
      /\ \A u \in Tests \ {t} : call'[u] = call[u]
      /\ call'[t].step = "reserve" /\ call'[t].own = call[t].own
      /\ call'[t].class = call[t].class /\ call'[t].words = call[t].words
  BY GoEffect DEF Clean, Inv, Steps
<1>2. call[t].step = "clean"
  BY DEF Clean, At
<1>3. Placed(t)' /\ Said(t)'
  BY <1>1, <1>2 DEF Clean, Inv, Placed, Said, machine
<1>4. /\ UNCHANGED config \/ config' = [config EXCEPT ![t] = "none"]
      /\ UNCHANGED log \/ log' = [log EXCEPT ![t] = {}]
  BY RemovalEffect DEF Clean
<1>5. UNCHANGED <<engine, listener, reserved>>
  BY DEF Clean, machine
<1> QED
  BY <1>1, <1>3, <1>4, <1>5, OneMachine

LEMMA ReserveKeeps == ASSUME Inv, NEW t \in Tests, Reserve(t) PROVE Inv'
<1>1. call[t].step = "reserve" /\ UNCHANGED <<engine, config, log, listener>>
  BY DEF Reserve, At, files
<1>2. CASE Refused(t, "engine")
  <2>1. "engine" \in Classes
    BY DEF Classes
  <2> QED
    BY <1>1, <1>2, <2>1, RefusedKeeps
<1>3. ASSUME NEW p \in Ports, Free(p), reserved' = [reserved EXCEPT ![p] = t],
             Set(t, [call[t] EXCEPT !.step = "build", !.port = p])
      PROVE  Inv'
  <2> DEFINE c == [call[t] EXCEPT !.step = "build", !.port = p]
  <2>1. /\ c \in Calls /\ c.step = "build" /\ c.own = call[t].own /\ c.port = p
        /\ c.class = call[t].class /\ c.words = call[t].words
    <3>1. call[t] \in Calls /\ "build" \in Steps /\ p \in Ports \cup {None}
      BY DEF Inv, TypeOK, Steps
    <3> QED
      BY <3>1 DEF Calls
  <2> HIDE DEF c
  <2>2. /\ call' \in [Tests -> Calls] /\ call'[t] = c
        /\ \A u \in Tests \ {t} : call'[u] = call[u]
    BY <1>3, <2>1, SetEffect DEF c, Inv
  <2>3. Placed(t)' /\ Said(t)'
    BY <1>1, <2>1, <2>2 DEF Inv, Placed, Said
  <2>4. /\ reserved' \in [Ports -> Tests \cup {None}]
        /\ \A q \in Ports : reserved'[q] = IF q = p THEN t ELSE reserved[q]
    BY <1>3 DEF Inv, TypeOK
  <2>5. TypeOK' /\ Apart'
    BY <1>1, <1>3, <2>2, <2>4 DEF Inv, TypeOK, Apart, Free
  <2> QED
    BY <1>1, <2>2, <2>3, <2>4, <2>5, OneTest
<1> QED
  BY <1>2, <1>3 DEF Reserve

LEMMA BuildKeeps == ASSUME Inv, NEW t \in Tests, Build(t) PROVE Inv'
<1>1. call[t].step = "build" /\ UNCHANGED <<engine, log, listener>>
  BY DEF Build, At
<1>2. CASE Refused(t, "config") /\ config' \in {config, [config EXCEPT ![t] = "own"]}
  <2>1. "config" \in Classes
    BY DEF Classes, Logged, Order
  <2> QED
    BY <1>1, <1>2, <2>1, RefusedKeeps
<1>3. CASE Go(t, "log") /\ config' = [config EXCEPT ![t] = "own"] /\ UNCHANGED reserved
  <2>1. /\ call' \in [Tests -> Calls]
        /\ \A u \in Tests \ {t} : call'[u] = call[u]
        /\ call'[t].step = "log" /\ call'[t].own = call[t].own
        /\ call'[t].port = call[t].port /\ call'[t].class = call[t].class
        /\ call'[t].words = call[t].words
    BY <1>3, GoEffect DEF Inv, Steps
  <2>2. Placed(t)' /\ Said(t)'
    BY <1>1, <1>3, <2>1 DEF Inv, Placed, Said
  <2> QED
    BY <1>1, <1>3, <2>1, <2>2, OneMachine
<1> QED
  BY <1>2, <1>3 DEF Build

LEMMA CreateLogKeeps == ASSUME Inv, NEW t \in Tests, CreateLog(t) PROVE Inv'
<1>1. call[t].step = "log" /\ UNCHANGED <<engine, config, listener>>
  BY DEF CreateLog, At
<1>2. CASE Refused(t, "engine") /\ UNCHANGED log
  <2>1. "engine" \in Classes
    BY DEF Classes
  <2> QED
    BY <1>1, <1>2, <2>1, RefusedKeeps
<1>3. CASE log' = [log EXCEPT ![t] = Created(@)] /\ Go(t, "spawn") /\ UNCHANGED reserved
  <2>1. /\ call' \in [Tests -> Calls]
        /\ \A u \in Tests \ {t} : call'[u] = call[u]
        /\ call'[t].step = "spawn" /\ call'[t].own = call[t].own
        /\ call'[t].port = call[t].port /\ call'[t].class = call[t].class
        /\ call'[t].words = call[t].words
    BY <1>3, GoEffect DEF Inv, Steps
  <2>2. log' = [log EXCEPT ![t] = {}] /\ log'[t] = {}
    BY <1>3 DEF Created, Inv, TypeOK
  <2>3. Placed(t)' /\ Said(t)'
    BY <1>1, <1>3, <2>1, <2>2 DEF Inv, Placed, Said
  <2> QED
    BY <1>1, <1>3, <2>1, <2>2, <2>3, OneMachine
<1> QED
  BY <1>2, <1>3 DEF CreateLog

LEMMA SpawnKeeps == ASSUME Inv, NEW t \in Tests, Spawn(t) PROVE Inv'
<1>1. call[t].step = "spawn" /\ UNCHANGED listener
  BY DEF Spawn, At
<1>2. CASE Refused(t, "engine") /\ RemoveFiles(t) /\ UNCHANGED engine
  <2>1. "engine" \in Classes
    BY DEF Classes
  <2> QED
    BY <1>1, <1>2, <2>1, RemovalEffect, RefusedKeeps
<1>3. CASE /\ engine' = [engine EXCEPT ![t] = "starting"] /\ reserved' = Release(t)
           /\ Set(t, [call[t] EXCEPT !.step = "wait", !.left = Budget])
           /\ UNCHANGED files
  <2> DEFINE c == [call[t] EXCEPT !.step = "wait", !.left = Budget]
  <2>1. /\ c \in Calls /\ c.step = "wait" /\ c.own = call[t].own /\ c.port = call[t].port
        /\ c.class = call[t].class /\ c.words = call[t].words
    <3>1. call[t] \in Calls /\ "wait" \in Steps /\ Budget \in 0..Budget
      BY DiagnosticAssumption DEF Inv, TypeOK, Steps
    <3> QED
      BY <3>1 DEF Calls
  <2> HIDE DEF c
  <2>2. /\ call' \in [Tests -> Calls] /\ call'[t] = c
        /\ \A u \in Tests \ {t} : call'[u] = call[u]
    BY <1>3, <2>1, SetEffect DEF c, Inv
  <2>3. engine'[t] = "starting" /\ \A p \in Ports : reserved'[p] # t /\ listener[p] # t
    BY <1>1, <1>3, DiagnosticAssumption DEF Inv, TypeOK, Placed, Release
  <2>4. Placed(t)'
    BY <1>1, <2>1, <2>2, <2>3 DEF Inv, Placed
  <2>5. Said(t)'
    BY <1>1, <1>3, <2>1, <2>2 DEF Inv, Said, files
  <2> QED
    BY <1>1, <1>3, <2>2, <2>4, <2>5, OneMachine DEF files
<1> QED
  BY <1>2, <1>3 DEF Spawn

-----------------------------------------------------------------------------
(* Waiting and asking.                                                      *)

LEMMA ReadyKeeps == ASSUME Inv, NEW t \in Tests, Ready(t) PROVE Inv'
<1> DEFINE a == [Idle EXCEPT !.step = "ask", !.left = Budget]
           c == [[a EXCEPT !.own = TRUE] EXCEPT !.port = call[t].port]
<1>1. a \in Calls /\ call[t].port \in Ports \cup {None}
  <2>1. Budget \in 0..Budget
    BY DiagnosticAssumption
  <2>2. call[t] \in Calls
    BY DEF Inv, TypeOK
  <2> QED
    BY <2>1, <2>2, IdleCall DEF Calls
<1>2. c \in Calls
  BY <1>1 DEF Calls
<1>3. /\ c.step = "ask" /\ c.own /\ c.port = call[t].port /\ c.class = "none" /\ c.words = {}
      /\ c.stage = 1
  BY DEF Idle
<1>4. Set(t, c)
  BY DEF Ready, Asking
<1> HIDE DEF c
<1>5. /\ call' \in [Tests -> Calls] /\ call'[t] = c
      /\ \A u \in Tests \ {t} : call'[u] = call[u]
  BY <1>2, <1>4, SetEffect DEF Inv
<1>6. UNCHANGED <<engine, files, machine>> /\ call[t].step = "wait"
  BY DEF Ready, At
<1>7. Placed(t)' /\ Said(t)'
  BY <1>3, <1>5, <1>6 DEF Inv, Placed, Said, files, machine
<1> QED
  BY <1>5, <1>6, <1>7, CallOnly

LEMMA AdvanceKeeps == ASSUME Inv, NEW t \in Tests, Advance(t) PROVE Inv'
<1> DEFINE via == Answering(t)
           c == [call[t] EXCEPT !.stage = @ + 1, !.via = via]
<1>1. call[t] \in Calls /\ call[t].stage + 1 \in 1..Len(Stages)
  <2>1. call[t] \in Calls /\ call[t].stage < Len(Stages)
    BY DEF Advance, Inv, TypeOK
  <2>2. call[t].stage \in 1..Len(Stages)
    BY <2>1 DEF Calls
  <2> QED
    BY <2>1, <2>2 DEF Stages
<1>2. /\ call[t].step = "ask" /\ via # None /\ call[t].via # Stranger
      /\ call[t].stage > 1 => call[t].via = via
  BY DEF Advance, At
<1>3. via \in Answerers
  <2>1. call[t].port \in Ports
    BY <1>2 DEF Inv, Placed
  <2> QED
    BY <2>1 DEF Answering, Inv, TypeOK
<1> HIDE DEF via
<1>4. /\ c \in Calls /\ c.stage = call[t].stage + 1 /\ c.via = via /\ c.step = call[t].step
      /\ c.own = call[t].own /\ c.port = call[t].port /\ c.class = call[t].class
      /\ c.words = call[t].words
  BY <1>1, <1>3 DEF Calls
<1>5. Set(t, c)
  BY DEF Advance, via
<1> HIDE DEF c
<1>6. /\ call' \in [Tests -> Calls] /\ call'[t] = c
      /\ \A u \in Tests \ {t} : call'[u] = call[u]
  BY <1>4, <1>5, SetEffect DEF Inv
<1>7. UNCHANGED <<engine, files, machine>>
  BY DEF Advance
<1>8. Placed(t)'
  BY <1>2, <1>4, <1>6, <1>7 DEF Inv, Placed, files, machine
<1>9. Said(t)'
  <2>1. call[t].stage \in Nat
    BY <1>1 DEF Calls, Stages
  <2>2. c.stage > 2 => via # Stranger
    BY <1>2, <1>4, <2>1
  <2> QED
    BY <1>2, <1>4, <1>6, <1>7, <2>2 DEF Inv, Said, files
<1> QED
  BY <1>6, <1>7, <1>8, <1>9, CallOnly

LEMMA ReadsKeeps == ASSUME Inv, NEW t \in Tests, Reads(t) PROVE Inv'
<1>1. PICK class \in {"read", "reading"} : Report(t, class, {})
  BY DEF Reads
<1>2. class \in Classes \cup {"read"} /\ {} \in SUBSET Words /\ TypeOK
  BY DEF Classes, Inv
<1>3. /\ call' \in [Tests -> Calls]
      /\ \A u \in Tests \ {t} : call'[u] = call[u]
      /\ call'[t].step = "drop" /\ call'[t].own = call[t].own
      /\ call'[t].port = call[t].port /\ call'[t].via = call[t].via
      /\ call'[t].words = {}
  BY <1>1, <1>2, ReportEffect
<1>4. call[t].via \notin {None, Stranger}
  <2>1. call[t].step = "ask" /\ Stages[call[t].stage] = "body" /\ call[t] \in Calls
    BY DEF Reads, At, Inv, TypeOK
  <2>2. call[t].stage \in 1..4
    BY <2>1 DEF Calls, Stages
  <2>3. call[t].stage = 4
    BY <2>1, <2>2 DEF Stages
  <2> QED
    BY <2>1, <2>3 DEF Inv, Said
<1>5. UNCHANGED <<engine, files, machine>> /\ call[t].step = "ask"
  BY DEF Reads, At
<1>6. Placed(t)'
  BY <1>3, <1>5 DEF Inv, Placed, files, machine
<1>7. Said(t)'
  BY <1>3, <1>4 DEF Said
<1> QED
  BY <1>3, <1>5, <1>6, <1>7, CallOnly

LEMMA FaultsKeep == ASSUME Inv, NEW t \in Tests, NotReady(t) \/ Fails(t) \/ Expires(t) PROVE Inv'
<1>1. CASE NotReady(t)
  <2>1. "engine" \in Classes
    BY DEF Classes
  <2> QED
    BY <1>1, <2>1, Fallen DEF NotReady, At
<1>2. CASE Fails(t)
  <2>1. call[t].stage \in 1..Len(Stages)
    BY DEF Inv, TypeOK, Calls
  <2>2. PICK class \in StageFault(call[t].stage) : Fault(t, class)
    BY <1>2 DEF Fails
  <2>3. class \in Classes
    BY <2>1, <2>2, StageFaultType
  <2> QED
    BY <1>2, <2>2, <2>3, Fallen DEF Fails, At
<1>3. CASE Expires(t)
  BY <1>3, LateType, Fallen DEF Expires, At
<1> QED
  BY <1>1, <1>2, <1>3

LEMMA TickKeeps == ASSUME Inv, NEW t \in Tests, Tick(t) PROVE Inv'
<1> DEFINE c == [call[t] EXCEPT !.left = Remaining(@)]
<1>1. call[t] \in Calls /\ call[t].left - 1 \in 0..Budget
  <2>1. call[t] \in Calls /\ call[t].left > 0
    BY DEF Tick, Inv, TypeOK
  <2>2. call[t].left \in 0..Budget
    BY <2>1 DEF Calls
  <2> QED
    BY <2>1, <2>2, DiagnosticAssumption
<1>2. /\ c \in Calls /\ c.stage = call[t].stage /\ c.via = call[t].via /\ c.step = call[t].step
      /\ c.own = call[t].own /\ c.port = call[t].port /\ c.class = call[t].class
      /\ c.words = call[t].words
  BY <1>1 DEF Calls, Remaining
<1>3. Set(t, c)
  BY DEF Tick
<1> HIDE DEF c
<1>4. /\ call' \in [Tests -> Calls] /\ call'[t] = c
      /\ \A u \in Tests \ {t} : call'[u] = call[u]
  BY <1>2, <1>3, SetEffect DEF Inv
<1>5. UNCHANGED <<engine, files, machine>>
  BY DEF Tick
<1>6. Placed(t)'
  BY <1>2, <1>4, <1>5 DEF Inv, Placed, files, machine
<1>7. Said(t)'
  BY <1>2, <1>4, <1>5 DEF Inv, Said, files
<1> QED
  BY <1>4, <1>5, <1>6, <1>7, CallOnly

\* The call ends with nothing of its own left on the machine.
LEMMA EndsKeep == ASSUME Inv, NEW t \in Tests, Drop(t) \/ Return(t) PROVE Inv'
<1>1. Set(t, Idle) /\ call[t].step = "drop"
  BY DEF Drop, Return, At
<1>2. /\ call' \in [Tests -> Calls] /\ call'[t] = Idle
      /\ \A u \in Tests \ {t} : call'[u] = call[u]
  BY <1>1, IdleCall, SetEffect DEF Inv
<1>3. Idle.step = "idle" /\ Idle.class = "none" /\ Idle.words = {}
  BY DEF Idle
<1>4. Said(t)'
  BY <1>2, <1>3 DEF Said
<1>5. CASE Drop(t)
  <2>1. /\ engine' = [engine EXCEPT ![t] = "none"] /\ listener' = Unbind(t) /\ UNCHANGED reserved
        /\ UNCHANGED config \/ config' = [config EXCEPT ![t] = "none"]
        /\ UNCHANGED log \/ log' = [log EXCEPT ![t] = {}]
    BY <1>5, RemovalEffect DEF Drop
  <2>2. engine'[t] = "none" /\ \A p \in Ports : listener'[p] # t /\ reserved'[p] # t
    BY <1>1, <2>1, DiagnosticAssumption DEF Inv, TypeOK, Placed, Unbind
  <2>3. Placed(t)'
    BY <1>2, <1>3, <2>2 DEF Placed
  <2> QED
    BY <1>2, <1>4, <2>1, <2>3, OneMachine
<1>6. CASE Return(t)
  <2>1. engine[t] = "none" /\ UNCHANGED <<engine, files, machine>>
    BY <1>6 DEF Return, Owns
  <2>2. Placed(t)'
    BY <1>1, <1>2, <1>3, <2>1 DEF Inv, Placed, files, machine
  <2> QED
    BY <1>2, <1>4, <2>1, <2>2, CallOnly
<1> QED
  BY <1>5, <1>6

-----------------------------------------------------------------------------
(* The engine, and the others.                                              *)

LEMMA BindsKeeps == ASSUME Inv, NEW t \in Tests, EngineBinds(t) PROVE Inv'
<1> DEFINE p == call[t].port
<1>1. /\ engine[t] = "starting" /\ Free(p) /\ UNCHANGED <<call, config, log, reserved>>
      /\ engine' = [engine EXCEPT ![t] = "listening"]
      /\ listener' = [listener EXCEPT ![p] = t]
  BY DEF EngineBinds, files
<1>2. p \in Ports
  BY <1>1 DEF Inv, Placed
<1> HIDE DEF p
<1>3. /\ listener' \in [Ports -> Answerers]
      /\ \A q \in Ports : listener'[q] = IF q = p THEN t ELSE listener[q]
  BY <1>1, <1>2 DEF Inv, TypeOK, Answerers
<1>4. /\ engine' \in [Tests -> {"none", "starting", "listening", "dead"}]
      /\ \A u \in Tests : engine'[u] = IF u = t THEN "listening" ELSE engine[u]
  BY <1>1 DEF Inv, TypeOK
<1>5. TypeOK'
  BY <1>1, <1>3, <1>4 DEF Inv, TypeOK
<1>6. Apart'
  BY <1>1, <1>2, <1>3 DEF Inv, Apart, Free
<1>7. Placed(t)' /\ Said(t)'
  BY <1>1, <1>3, <1>4 DEF Inv, Placed, Said
<1> QED
  BY <1>1, <1>3, <1>4, <1>5, <1>6, <1>7, OneTest

LEMMA FailsKeeps == ASSUME Inv, NEW t \in Tests, EngineFails(t) PROVE Inv'
<1>1. PICK m \in SUBSET Markers : log' = [log EXCEPT ![t] = @ \cup ({"own"} \X m)]
  BY DEF EngineFails
<1> DEFINE words == log[t] \cup ({"own"} \X m)
<1>2. words \in SUBSET Words
  BY DEF Inv, TypeOK, Words
<1>3. log' = [log EXCEPT ![t] = words] /\ log'[t] = words
  BY <1>1 DEF Inv, TypeOK
<1>4. \A w \in words : w \in log[t] \/ w[1] = "own"
  OBVIOUS
<1> HIDE DEF words
<1>5. /\ engine[t] \in {"starting", "listening"} /\ engine' = [engine EXCEPT ![t] = "dead"]
      /\ listener' = Unbind(t) /\ UNCHANGED <<call, config, reserved>>
  BY DEF EngineFails
<1>6. engine'[t] = "dead" /\ \A p \in Ports : listener'[p] # t
  BY <1>5, DiagnosticAssumption DEF Inv, TypeOK, Unbind
<1>7. Placed(t)'
  BY <1>5, <1>6 DEF Inv, Placed
<1>8. Said(t)'
  BY <1>3, <1>4, <1>5 DEF Inv, Said
<1>9. call' \in [Tests -> Calls] /\ \A u \in Tests \ {t} : call'[u] = call[u]
  BY <1>5 DEF Inv, TypeOK
<1> QED
  BY <1>2, <1>3, <1>5, <1>7, <1>8, <1>9, OneMachine

LEMMA SaysKeeps == ASSUME Inv, NEW t \in Tests, EngineSays(t) PROVE Inv'
<1>1. PICK m \in Markers : log' = [log EXCEPT ![t] = @ \cup {<<"own", m>>}]
  BY DEF EngineSays
<1> DEFINE words == log[t] \cup {<<"own", m>>}
<1>2. words \in SUBSET Words
  BY DEF Inv, TypeOK, Words
<1>3. log' = [log EXCEPT ![t] = words] /\ log'[t] = words
  BY <1>1 DEF Inv, TypeOK
<1>4. \A w \in words : w \in log[t] \/ w[1] = "own"
  OBVIOUS
<1> HIDE DEF words
<1>5. UNCHANGED <<call, engine, config, listener, reserved>>
  BY DEF EngineSays, machine
<1>6. Placed(t)'
  BY <1>5 DEF Inv, Placed
<1>7. Said(t)'
  BY <1>3, <1>4, <1>5 DEF Inv, Said
<1>8. call' \in [Tests -> Calls] /\ \A u \in Tests \ {t} : call'[u] = call[u]
  BY <1>5 DEF Inv, TypeOK
<1> QED
  BY <1>2, <1>3, <1>5, <1>6, <1>7, <1>8, OneMachine

LEMMA OthersKeep == ASSUME Inv, NEW p \in Ports, Others(p) PROVE Inv'
<1>1. UNCHANGED <<call, engine, config, log, reserved>>
  BY DEF Others, files
<1>2. PICK x \in {None, Profile, Stranger} : /\ listener' = [listener EXCEPT ![p] = x]
                                             /\ Free(p) \/ x = None
  BY DEF Others
<1>3. /\ listener' \in [Ports -> Answerers]
      /\ \A q \in Ports : listener'[q] = IF q = p THEN x ELSE listener[q]
  BY <1>2 DEF Inv, TypeOK, Answerers
<1>4. TypeOK'
  BY <1>1, <1>3 DEF Inv, TypeOK
<1>5. Apart'
  BY <1>1, <1>2, <1>3 DEF Inv, Apart, Free
<1>6. ASSUME NEW t \in Tests PROVE Placed(t)' /\ Said(t)'
  <2>1. t # x
    BY DiagnosticAssumption
  <2> QED
    BY <1>1, <1>3, <2>1 DEF Inv, Placed, Said
<1> QED
  BY <1>4, <1>5, <1>6 DEF Inv

\* A program that ends takes its calls with it; its engines are nobody's.
LEMMA QuitKeeps == ASSUME Inv, Quit PROVE Inv'
<1>1. call' \in [Tests -> Calls] /\ \A t \in Tests : call'[t] = Idle
  BY IdleCall DEF Quit
<1>2. /\ engine' \in [Tests -> {"none", "starting", "listening", "dead"}]
      /\ \A t \in Tests : engine'[t] = "none"
  BY DEF Quit
<1>3. reserved' \in [Ports -> Tests \cup {None}] /\ \A p \in Ports : reserved'[p] = None
  BY DEF Quit
<1>4. /\ listener' \in [Ports -> Answerers]
      /\ \A p \in Ports : listener'[p] \notin Tests
  BY DiagnosticAssumption DEF Quit, Inv, TypeOK, Answerers
<1>5. config' \in [Tests -> {"none", "old", "own"}]
  BY DEF Quit, Inv, TypeOK
<1>6. log' \in [Tests -> SUBSET Words]
  <2>1. ASSUME NEW t \in Tests PROVE {<<"old", w[2]>> : w \in log[t]} \in SUBSET Words
    BY DEF Inv, TypeOK, Words
  <2> QED
    BY <2>1 DEF Quit
<1>7. TypeOK' /\ Apart'
  BY <1>1, <1>2, <1>3, <1>4, <1>5, <1>6 DEF TypeOK, Apart
<1>8. Idle.step = "idle" /\ Idle.class = "none" /\ Idle.words = {}
  BY DEF Idle
<1>9. ASSUME NEW t \in Tests PROVE Placed(t)' /\ Said(t)'
  BY <1>1, <1>2, <1>3, <1>4, <1>8, DiagnosticAssumption DEF Placed, Said
<1> QED
  BY <1>7, <1>9 DEF Inv

-----------------------------------------------------------------------------
(* Every step keeps the invariant.                                          *)

LEMMA StepKeeps == Inv /\ [Next]_vars => Inv'
<1> SUFFICES ASSUME Inv, [Next]_vars PROVE Inv'
  OBVIOUS
<1>1. CASE UNCHANGED vars
  BY <1>1 DEF vars, files, machine, Inv, TypeOK, Apart, Placed, Said
<1>2. ASSUME NEW t \in Tests, Work(t) PROVE Inv'
  BY <1>2, CleanKeeps, ReserveKeeps, BuildKeeps, CreateLogKeeps, SpawnKeeps, FaultsKeep, TickKeeps,
     EndsKeep DEF Work
<1> QED
  BY <1>1, <1>2, QuitKeeps, OthersKeep, BeginningKeeps, ReadyKeeps, AdvanceKeeps, FaultsKeep,
     ReadsKeeps, BindsKeeps, FailsKeeps, SaysKeeps DEF Next

LEMMA Invariant == Spec => []Inv
<1>1. Init => Inv
  <2> SUFFICES ASSUME Init PROVE Inv
    OBVIOUS
  <2>1. TypeOK /\ Apart
    BY IdleCall DEF Init, TypeOK, Apart, Answerers
  <2>2. Idle.step = "idle" /\ Idle.class = "none" /\ Idle.words = {}
    BY DEF Idle
  <2>3. ASSUME NEW t \in Tests PROVE Placed(t) /\ Said(t)
    BY <2>2, DiagnosticAssumption DEF Init, Placed, Said
  <2> QED
    BY <2>1, <2>3 DEF Inv
<1> QED
  BY <1>1, StepKeeps, PTL DEF Spec

\* Nothing of a test outlives its call, whatever fails and wherever (TemporaryEngine's
\* drop, diagnostic.rs:321), and no port is reserved and bound at once.
THEOREM EnginesEnd == Spec => []EngineEndsWithCall
  BY Invariant, InvGivesProperties, PTL

\* A fault is never explained in an earlier engine's words, and an address is only
\* read over a connection to an engine (engine.rs:22, create_log).
THEOREM WordsAreOwn == Spec => []OwnWords
  BY Invariant, InvGivesProperties, PTL

==============================================================================
