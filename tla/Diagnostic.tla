------------------------------- MODULE Diagnostic ------------------------------
(***************************************************************************)
(* Testing a proxy: one request through an engine, and what came back           *)
(* (crates/runtime/src/diagnostic.rs, diagnostic/engine.rs, diagnostic/         *)
(* transport.rs, xray.rs, ports.rs; crates/app/src/proxy_tester.rs).            *)
(*                                                                         *)
(* A test runs on a worker of its own, in a directory of its own.  It asks the   *)
(* engine of a running profile, or starts a temporary one: files, port, process, *)
(* greeting, request, and everything put away again.  Tests under way at once    *)
(* share the machine's ports; between the release of a reservation and the       *)
(* engine's own bind, a port is anyone's.                                        *)
(***************************************************************************)
EXTENDS Integers, Sequences, FiniteSets

CONSTANTS
    Tests,
    Ports,
    None,
    Profile,       \* a running profile's engine
    Stranger,      \* a program that is no SOCKS server, or an engine nobody owns
    Markers,       \* the classes an engine's words can name in this instance
    RemovalFails,  \* whether a file may refuse to go
    Budget         \* bound: instants of each deadline

Order == <<"config", "auth", "dns", "unreachable", "timeout", "tls">>
Logged == {Order[n] : n \in DOMAIN Order}
Classes == Logged \cup {"engine", "http", "reading", "other"}

ASSUME DiagnosticAssumption ==
    /\ Cardinality({None, Profile, Stranger}) = 3 /\ Tests \cap {None, Profile, Stranger} = {}
    /\ Markers \subseteq Logged /\ None \notin Ports
    /\ RemovalFails \in BOOLEAN /\ Budget \in Nat \ {0}

Stages == <<"connect", "handshake", "headers", "body">>

VARIABLES
    call,      \* a test's call: where it is, its port, deadline and conversation, its answer
    engine,    \* the process of the engine it started
    config,    \* the file with the credentials: absent, this call's or an earlier one's
    log,       \* what the engine's log says, and whose engine said it
    reserved,  \* ports a test holds for its engine
    listener   \* who has bound a port

vars == <<call, engine, config, log, reserved, listener>>
files == <<config, log>>
machine == <<reserved, listener>>

Steps == {"idle", "clean", "reserve", "build", "log", "spawn", "wait", "ask", "drop"}
Answerers == Tests \cup {None, Profile, Stranger}
Words == {"old", "own"} \X Markers
Calls == [step : Steps, own : BOOLEAN, port : Ports \cup {None}, left : 0..Budget,
          stage : 1..Len(Stages), via : Answerers,
          class : Classes \cup {"none", "read"}, words : SUBSET Words]

TypeOK ==
    /\ call \in [Tests -> Calls]
    /\ engine \in [Tests -> {"none", "starting", "listening", "dead"}]
    /\ config \in [Tests -> {"none", "old", "own"}] /\ log \in [Tests -> SUBSET Words]
    /\ reserved \in [Ports -> Tests \cup {None}] /\ listener \in [Ports -> Answerers]

Idle == [step |-> "idle", own |-> FALSE, port |-> None, left |-> 0, stage |-> 1, via |-> None,
         class |-> "none", words |-> {}]

Init ==
    /\ call = [t \in Tests |-> Idle] /\ engine = [t \in Tests |-> "none"]
    /\ config = [t \in Tests |-> "none"] /\ log = [t \in Tests |-> {}]
    /\ reserved = [p \in Ports |-> None] /\ listener = [p \in Ports |-> None]

At(t, step) == call[t].step = step
Set(t, c) == call' = [call EXCEPT ![t] = c]
Go(t, step) == Set(t, [call[t] EXCEPT !.step = step])

-----------------------------------------------------------------------------
(* What a failure is called *)

\* classify_engine_log: the first class whose marker the log holds, whatever the order
\* of its lines; a log with words and no marker is carried as it is.
Classify(words) ==
    LET named == {n \in DOMAIN Order : \E w \in words : w[2] = Order[n]}
    IN IF named = {} THEN "other" ELSE Order[CHOOSE n \in named : \A m \in named : n <= m]

\* io_fault, class_for_reply, and what each stage of the conversation adds to them: a
\* wrong version or address kind, an unusable method, a refused CONNECT; headers that
\* end early, never, or without a status, a 401 or 407, any other status; an answer
\* declared longer than a line.
IoFault == {"unreachable", "other"}
Reply == {"unreachable", "timeout", "config", "other"}
StageFault(s) ==
    CASE Stages[s] = "connect" -> {"engine"}
      [] Stages[s] = "handshake" -> IoFault \cup {"config", "auth"} \cup Reply
      [] Stages[s] = "headers" -> IoFault \cup {"reading", "auth", "http"}
      [] Stages[s] = "body" -> IoFault \cup {"reading"}

\* A connection that is not accepted in time is the engine's; everything later that
\* runs out of time is a timeout.
Late(s) == IF Stages[s] = "connect" THEN "engine" ELSE "timeout"

-----------------------------------------------------------------------------
(* Beginning a call *)

Report(t, class, words) ==
    Set(t, [call[t] EXCEPT !.step = "drop", !.stage = 1, !.left = 0,
                           !.class = class, !.words = words])

\* A fault of a temporary engine is named by its log, when there is one.
Fault(t, class) ==
    IF call[t].own /\ log[t] # {} THEN Report(t, Classify(log[t]), log[t]) ELSE Report(t, class, {})

Begin(t, c) ==
    /\ At(t, "idle") /\ Set(t, c)
    /\ UNCHANGED <<engine, files, machine>>

Asking == [Idle EXCEPT !.step = "ask", !.left = Budget]
TestLive(t, p) == listener[p] = Profile /\ Begin(t, [Asking EXCEPT !.port = p])
TestAlone(t) == Begin(t, [Idle EXCEPT !.step = "clean", !.own = TRUE])

\* Best effort: a directory that refuses keeps both.
RemoveFiles(t) ==
    \/ log' = [log EXCEPT ![t] = {}] /\ config' = [config EXCEPT ![t] = "none"]
    \/ RemovalFails /\ UNCHANGED files

\* What an earlier call left under the same name.
Clean(t) ==
    /\ At(t, "clean") /\ RemoveFiles(t) /\ Go(t, "reserve")
    /\ UNCHANGED <<engine, machine>>

Free(p) == reserved[p] = None /\ listener[p] = None
Release(t) == [p \in Ports |-> IF reserved[p] = t THEN None ELSE reserved[p]]
Unbind(t) == [p \in Ports |-> IF listener[p] = t THEN None ELSE listener[p]]
Refused(t, class) == Report(t, class, {}) /\ reserved' = Release(t)

Reserve(t) ==
    /\ At(t, "reserve")
    /\ \/ \E p \in Ports :
            /\ Free(p) /\ reserved' = [reserved EXCEPT ![p] = t]
            /\ Set(t, [call[t] EXCEPT !.step = "build", !.port = p])
       \/ Refused(t, "engine")
    /\ UNCHANGED <<engine, files, listener>>

\* The builder validates, and writes; a write that fails part way leaves what it wrote.
Build(t) ==
    /\ At(t, "build")
    /\ \/ Go(t, "log") /\ config' = [config EXCEPT ![t] = "own"] /\ UNCHANGED reserved
       \/ Refused(t, "config") /\ config' \in {config, [config EXCEPT ![t] = "own"]}
    /\ UNCHANGED <<engine, log, listener>>

Created_Appends(words) == words
Created(words) == {}
CreateLog(t) ==
    /\ At(t, "log")
    /\ \/ log' = [log EXCEPT ![t] = Created(@)] /\ Go(t, "spawn") /\ UNCHANGED reserved
       \/ Refused(t, "engine") /\ UNCHANGED log
    /\ UNCHANGED <<engine, config, listener>>

\* The reservation goes at the handoff.
Spawn(t) ==
    /\ At(t, "spawn")
    /\ \/ /\ engine' = [engine EXCEPT ![t] = "starting"] /\ reserved' = Release(t)
          /\ Set(t, [call[t] EXCEPT !.step = "wait", !.left = Budget])
          /\ UNCHANGED files
       \/ Refused(t, "engine") /\ RemoveFiles(t) /\ UNCHANGED engine
    /\ UNCHANGED <<listener>>

-----------------------------------------------------------------------------
(* The engine, its port, and the others *)

EngineBinds(t) ==
    /\ engine[t] = "starting" /\ Free(call[t].port)
    /\ engine' = [engine EXCEPT ![t] = "listening"]
    /\ listener' = [listener EXCEPT ![call[t].port] = t]
    /\ UNCHANGED <<call, files, reserved>>

\* The configuration, the port or the upstream is refused; it may say so.
EngineFails(t) ==
    /\ engine[t] \in {"starting", "listening"}
    /\ engine' = [engine EXCEPT ![t] = "dead"] /\ listener' = Unbind(t)
    /\ \E m \in SUBSET Markers : log' = [log EXCEPT ![t] = @ \cup ({"own"} \X m)]
    /\ UNCHANGED <<call, config, reserved>>

EngineSays(t) ==
    /\ engine[t] = "listening" /\ At(t, "ask")
    /\ \E m \in Markers : log' = [log EXCEPT ![t] = @ \cup {<<"own", m>>}]
    /\ UNCHANGED <<call, engine, config, machine>>

\* A profile starts or stops, another program takes a port or gives it back.
Others(p) ==
    /\ \/ Free(p) /\ listener' \in {[listener EXCEPT ![p] = x] : x \in {Profile, Stranger}}
       \/ listener[p] \in {Profile, Stranger} /\ listener' = [listener EXCEPT ![p] = None]
    /\ UNCHANGED <<call, engine, files, reserved>>

-----------------------------------------------------------------------------
(* Waiting and asking *)

Answering(t) == listener[call[t].port]

\* wait_ready: a live child, and a listener that answers the greeting.
Ready(t) ==
    /\ At(t, "wait") /\ engine[t] # "dead" /\ call[t].left > 0
    /\ Answering(t) \in Tests \cup {Profile}
    /\ Set(t, [Asking EXCEPT !.own = TRUE, !.port = call[t].port])
    /\ UNCHANGED <<engine, files, machine>>

NotReady(t) ==
    /\ At(t, "wait") /\ (engine[t] = "dead" \/ call[t].left = 0)
    /\ Fault(t, "engine")
    /\ UNCHANGED <<engine, files, machine>>

\* A stage is through.  The connection is the listener's of its moment, and stays its.
Advance(t) ==
    /\ At(t, "ask") /\ call[t].left > 0 /\ call[t].stage < Len(Stages)
    /\ Answering(t) # None /\ (call[t].stage > 1 => call[t].via = Answering(t))
    /\ call[t].via # Stranger
    /\ Set(t, [call[t] EXCEPT !.stage = @ + 1, !.via = Answering(t)])
    /\ UNCHANGED <<engine, files, machine>>

Fails(t) ==
    /\ At(t, "ask") /\ call[t].left > 0
    /\ \E class \in StageFault(call[t].stage) : Fault(t, class)
    /\ UNCHANGED <<engine, files, machine>>

\* The body is whole: an address in it is the reading, and none is a fault the log has
\* no say in.
Reads(t) ==
    /\ At(t, "ask") /\ call[t].left > 0 /\ Stages[call[t].stage] = "body"
    /\ call[t].via = Answering(t)
    /\ \E class \in {"read", "reading"} : Report(t, class, {})
    /\ UNCHANGED <<engine, files, machine>>

\* Time passes, whether or not a byte came meanwhile: one deadline for the whole call.
Remaining_Renewed(left) == Budget
Remaining(left) == left - 1
Tick(t) ==
    /\ call[t].step \in {"wait", "ask"} /\ call[t].left > 0
    /\ Set(t, [call[t] EXCEPT !.left = Remaining(@)])
    /\ UNCHANGED <<engine, files, machine>>

Expires(t) ==
    /\ At(t, "ask") /\ call[t].left = 0
    /\ Fault(t, Late(call[t].stage))
    /\ UNCHANGED <<engine, files, machine>>

\* What the call owns goes on its way out, a fault or a reading alike: once the engine
\* is spawned, TemporaryEngine::drop takes the tree, the child and both files.
Owns_Ready(t) == engine[t] = "listening"
Owns(t) == engine[t] # "none"
Drop(t) ==
    /\ At(t, "drop") /\ Owns(t) /\ engine' = [engine EXCEPT ![t] = "none"] /\ listener' = Unbind(t)
    /\ RemoveFiles(t) /\ Set(t, Idle)
    /\ UNCHANGED <<reserved>>

Return(t) == At(t, "drop") /\ ~Owns(t) /\ Set(t, Idle) /\ UNCHANGED <<engine, files, machine>>

\* The program ends, or is killed, with its workers under way: nothing of theirs is
\* dropped.  An engine leads a process group of its own and lives on; what the files
\* hold is an earlier call's from now on.
Quit ==
    /\ call' = [t \in Tests |-> Idle]
    /\ engine' = [t \in Tests |-> "none"] /\ reserved' = [p \in Ports |-> None]
    /\ listener' = [p \in Ports |-> IF listener[p] \in Tests THEN Stranger ELSE listener[p]]
    /\ config' = [t \in Tests |-> IF config[t] = "own" THEN "old" ELSE config[t]]
    /\ log' = [t \in Tests |-> {<<"old", w[2]>> : w \in log[t]}]

\* What the worker does by itself, without waiting for anyone.
Work(t) ==
    \/ Clean(t) \/ Reserve(t) \/ Build(t) \/ CreateLog(t) \/ Spawn(t)
    \/ NotReady(t) \/ Tick(t) \/ Expires(t) \/ Drop(t) \/ Return(t)

Next ==
    \/ Quit \/ \E p \in Ports : Others(p)
    \/ \E t \in Tests :
         \/ TestAlone(t) \/ Work(t) \/ Ready(t) \/ Advance(t) \/ Fails(t) \/ Reads(t)
         \/ EngineBinds(t) \/ EngineFails(t) \/ EngineSays(t)
         \/ \E p \in Ports : TestLive(t, p)

\* A worker runs, and its clock does.
Fairness == \A t \in Tests : WF_vars(Work(t))

Spec == Init /\ [][Next]_vars /\ Fairness

-----------------------------------------------------------------------------
(* Properties *)

\* Nothing of a test outlives its call while the program runs: not its engine, not a
\* listener of it, not its reservation (diagnostic.rs:321 "it never outlives its
\* diagnostic"); and a port is never its reservation's and a listener's at once.
EngineEndsWithCall ==
    /\ TypeOK
    /\ \A t \in Tests : At(t, "idle") =>
         /\ engine[t] = "none"
         /\ \A p \in Ports : listener[p] # t /\ reserved[p] # t
    /\ \A p \in Ports : reserved[p] = None \/ listener[p] = None

\* The engine's words in a fault are of this call's engine, whatever an earlier one
\* left under the same name, and a reading is never explained by a log
\* (engine.rs:22 "A previous run's words must not be read back as this one's").
OwnWords ==
    \A t \in Tests :
        /\ \A w \in call[t].words : w[1] = "own"
        /\ call[t].class = "read" => call[t].words = {} /\ call[t].via \notin {None, Stranger}

\* Every test is answered, whoever stays silent or drips.
TestEnds == \A t \in Tests : (~At(t, "idle")) ~> At(t, "idle")

\* What the documentation promises of the credentials (diagnostic.rs:35): false of the
\* code, which leaves the file behind when the log beside it cannot be created.
CredentialsGo == \A t \in Tests : At(t, "idle") => config[t] # "own"

\* False of the code: the greeting tells an engine from a stranger, not from another
\* engine that took the port first.
AnsweredByOwn == \A t \in Tests : call[t].class = "read" /\ call[t].own => call[t].via = t
=============================================================================
