---------------------------------- MODULE Exit ----------------------------------
(***************************************************************************)
(* How a copy of the program begins and ends (crates/app/src/main.rs,         *)
(* instance.rs, signal.rs, exit.rs, ui/lifecycle.rs and the channel of        *)
(* crates/runtime/src/supervisor/channel.rs): one copy per data directory,    *)
(* the question a close asks, the window that hides behind a tray icon, and   *)
(* the exits - the window's, the tray's and a signal's - which may overlap    *)
(* and which share one supervisor thread and one bounded queue.  What the     *)
(* thread does with a command is in Supervisor, what a recovery does with a   *)
(* record in Journal; here each is one step per browser.                      *)
(***************************************************************************)
EXTENDS Integers, Sequences, SequencesExt

CONSTANTS
    Copies,      \* the times the program is launched on one data directory
    Profiles,
    Nobody,      \* who manages a browser no copy manages
    QueueCap,    \* EVENT_CAPACITY, the capacity of the command queue
    MaxClicks    \* bound: commands the window sends

ASSUME ExitAssumption == Nobody \notin Copies /\ QueueCap \in Nat \ {0} /\ MaxClicks \in Nat

Exits == {"background", "keep", "all"}
Modes == Exits \cup {"ask"}
Agents == {"main", "signal"}
Reasons == {"killed", "refused", "grace", "second"}

VARIABLES
    at,       \* where the main thread of each copy is
    lock,     \* the copy that holds instance.lock
    browser,  \* per profile: the process, who manages it, and its record
    stored,   \* the exit mode in the config file
    mode,     \* per copy: the exit mode it knows
    ui,       \* per copy: the window and what it knows
    queue,    \* per copy: the commands the supervisor thread has not taken
    thread,   \* per copy: the supervisor thread
    slot,     \* per copy: whether the thread's handle is still to be taken
    pc,       \* per copy and agent: how far its shutdown is
    clicks,   \* bound
    hurried   \* history: copies that ended before their thread, and how

vars == <<at, lock, browser, stored, mode, ui, queue, thread, slot, pc, clicks, hurried>>
settings == <<stored, mode>>
window == <<settings, ui>>
runtime == <<queue, thread, slot>>
bounds == <<clicks, hurried>>

NoBrowser == [up |-> FALSE, owner |-> Nobody, record |-> "none"]
Closed == [shown |-> FALSE, tray |-> FALSE, dialog |-> FALSE, exit |-> "none"]

TypeOK ==
    /\ at \in [Copies -> {"none", "lock", "storage", "recover", "assembled", "window",
                          "handover", "shutdown", "ended"}]
    /\ lock \in Copies \cup {Nobody}
    /\ browser \in [Profiles -> [up : BOOLEAN, owner : Copies \cup {Nobody},
                                 record : {"none", "plain", "left"}]]
    /\ stored \in Modes /\ mode \in [Copies -> Modes]
    /\ ui \in [Copies -> [shown : BOOLEAN, tray : BOOLEAN, dialog : BOOLEAN,
                          exit : {"none", "keep", "all"}]]
    /\ \A c \in Copies : Len(queue[c]) <= QueueCap
    /\ thread \in [Copies -> {"none", "running", "stopping", "done"}]
    /\ slot \in [Copies -> BOOLEAN]
    /\ pc \in [Copies -> [Agents -> {"idle", "take", "send", "sendOnly", "wait"}]]
    /\ clicks \in 0..MaxClicks /\ hurried \subseteq Copies \X Reasons

Init ==
    /\ at = [c \in Copies |-> "none"] /\ lock = Nobody
    /\ browser = [p \in Profiles |-> NoBrowser]
    /\ stored \in {"ask", "background"} /\ mode = [c \in Copies |-> "ask"]
    /\ ui = [c \in Copies |-> Closed]
    /\ queue = [c \in Copies |-> <<>>] /\ thread = [c \in Copies |-> "none"]
    /\ slot = [c \in Copies |-> FALSE]
    /\ pc = [c \in Copies |-> [a \in Agents |-> "idle"]]
    /\ clicks = 0 /\ hurried = {}

Live(c) == at[c] \notin {"none", "ended"}
Mine(c) == {p \in Profiles : browser[p].owner = c}

\* The process ends: the kernel gives the lock back, threads and window go, and
\* the children stay without a parent.
Ends(c) ==
    /\ at' = [at EXCEPT ![c] = "ended"]
    /\ lock' = IF lock = c THEN Nobody ELSE lock
    /\ browser' = [p \in Profiles |->
                      IF browser[p].owner = c THEN [browser[p] EXCEPT !.owner = Nobody]
                      ELSE browser[p]]
    /\ ui' = [ui EXCEPT ![c] = Closed]
    /\ queue' = [queue EXCEPT ![c] = <<>>] /\ thread' = [thread EXCEPT ![c] = "none"]
    /\ slot' = [slot EXCEPT ![c] = FALSE]
    /\ pc' = [pc EXCEPT ![c] = [a \in Agents |-> "idle"]]
    /\ UNCHANGED <<settings, clicks>>

-----------------------------------------------------------------------------
(* From the command line to the window.                                     *)

\* --version, --help, a refused argument and --diagnostics end here; the
\* settings are read before the lock is asked for.
Launch(c) ==
    /\ at[c] = "none"
    /\ \/ at' = [at EXCEPT ![c] = "ended"] /\ UNCHANGED mode
       \/ at' = [at EXCEPT ![c] = "lock"] /\ mode' = [mode EXCEPT ![c] = stored]
    /\ UNCHANGED <<lock, browser, stored, ui, runtime, pc, bounds>>

Free_Unread(c) == TRUE
Free(c) == lock = Nobody

\* Held by another copy, or the directory cannot be locked at all: the copy
\* ends.
Acquire(c) ==
    /\ at[c] = "lock"
    /\ \/ /\ Free(c) /\ lock' = c /\ at' = [at EXCEPT ![c] = "storage"]
          /\ UNCHANGED <<browser, window, runtime, pc, bounds>>
       \/ Ends(c) /\ UNCHANGED hurried

OpenStorage(c) ==
    /\ at[c] = "storage"
    /\ \/ at' = [at EXCEPT ![c] = "recover"]
          /\ UNCHANGED <<lock, browser, window, runtime, pc, bounds>>
       \/ Ends(c) /\ UNCHANGED hurried

\* recover_orphans: a marked session is adopted, an unmarked one is stopped,
\* whoever started it.
RecoverSession(c, p) ==
    /\ at[c] = "recover" /\ browser[p].record # "none" /\ browser[p].owner # c
    /\ browser' = [browser EXCEPT ![p] =
          IF browser[p].up /\ browser[p].record = "left" THEN [@ EXCEPT !.owner = c]
          ELSE NoBrowser]
    /\ UNCHANGED <<at, lock, window, runtime, pc, bounds>>

\* The supervisor's thread, the services and the window's state.  A signal that
\* comes before the handlers are installed kills the program.
Assemble(c) ==
    /\ at[c] = "recover" /\ \A p \in Profiles : browser[p].record # "none" => p \in Mine(c)
    /\ at' = [at EXCEPT ![c] = "assembled"]
    /\ thread' = [thread EXCEPT ![c] = "running"] /\ slot' = [slot EXCEPT ![c] = TRUE]
    /\ UNCHANGED <<lock, browser, window, queue, pc, bounds>>

\* What earlier runs left is put back and told, the handlers are installed, the
\* window opens.
OpenWindow(c) ==
    /\ at[c] = "assembled" /\ at' = [at EXCEPT ![c] = "window"]
    /\ ui' = [ui EXCEPT ![c].shown = TRUE]
    /\ UNCHANGED <<lock, browser, settings, runtime, pc, bounds>>

Startup(c) ==
    Launch(c) \/ Acquire(c) \/ OpenStorage(c) \/ Assemble(c) \/ OpenWindow(c)
    \/ \E p \in Profiles : RecoverSession(c, p)

-----------------------------------------------------------------------------
(* The supervisor thread.                                                   *)

Disconnected(c) == thread[c] \notin {"running", "stopping"}
Room_Unbounded(c) == TRUE
Room(c) == Len(queue[c]) < QueueCap

\* release_all: marked, and nobody's until a recovery adopts it.
Release_Unmarked(c) == [p \in Profiles |->
    IF p \in Mine(c) THEN [browser[p] EXCEPT !.owner = Nobody] ELSE browser[p]]
Release(c) == [p \in Profiles |->
    IF p \in Mine(c) THEN [browser[p] EXCEPT !.owner = Nobody, !.record = "left"]
    ELSE browser[p]]

\* Taking a start, a stop or the release; a shutdown stops what is left, one
\* session after another.
Takes(c) ==
    /\ thread[c] = "running" /\ queue[c] # <<>>
    /\ queue' = [queue EXCEPT ![c] = Tail(@)]
    /\ LET command == Head(queue[c]) IN
       CASE command[1] = "start" ->
              /\ browser' = [browser EXCEPT ![command[2]] =
                    IF @.up THEN @ ELSE [up |-> TRUE, owner |-> c, record |-> "plain"]]
              /\ UNCHANGED thread
         [] command[1] = "stop" ->
              /\ browser' = [browser EXCEPT ![command[2]] = IF @.owner = c THEN NoBrowser ELSE @]
              /\ UNCHANGED thread
         [] command[1] = "release" ->
              /\ browser' = Release(c)
              /\ thread' = [thread EXCEPT ![c] = "done"]
         [] OTHER -> thread' = [thread EXCEPT ![c] = "stopping"] /\ UNCHANGED browser
    /\ UNCHANGED <<at, lock, window, slot, pc, bounds>>

CleanUp(c) ==
    /\ thread[c] = "stopping"
    /\ \/ \E p \in Mine(c) : browser' = [browser EXCEPT ![p] = NoBrowser] /\ UNCHANGED thread
       \/ Mine(c) = {} /\ thread' = [thread EXCEPT ![c] = "done"] /\ UNCHANGED browser
    /\ UNCHANGED <<at, lock, window, queue, slot, pc, bounds>>

Thread(c) == Takes(c) \/ CleanUp(c)

\* A browser ends by itself; the poll of its copy, if there is one, clears it.
BrowserDies(p) ==
    /\ browser[p].up
    /\ browser' = [browser EXCEPT ![p] =
          IF @.owner # Nobody THEN NoBrowser ELSE [@ EXCEPT !.up = FALSE]]
    /\ UNCHANGED <<at, lock, window, runtime, pc, bounds>>

-----------------------------------------------------------------------------
(* The window.                                                              *)

\* try_send: a full queue refuses the command at once.
Click(c, command) ==
    /\ at[c] = "window" /\ ui[c].shown /\ clicks < MaxClicks
    /\ clicks' = clicks + 1
    /\ queue' = IF Room(c) /\ ~Disconnected(c) THEN [queue EXCEPT ![c] = Append(@, command)]
                ELSE queue
    /\ UNCHANGED <<at, lock, browser, window, thread, slot, pc, hurried>>

\* A desktop that refuses the icon keeps the window.
EnterBackground_Blind(c) == ui' = [ui EXCEPT ![c].shown = FALSE, ![c].dialog = FALSE]
EnterBackground(c) ==
    \/ ui' = [ui EXCEPT ![c].tray = TRUE, ![c].shown = FALSE, ![c].dialog = FALSE]
    \/ ~ui[c].tray /\ ui' = [ui EXCEPT ![c].dialog = FALSE]

\* leave: only "keep running" has something to say before the window loop ends.
Leave(c, exit) ==
    IF exit = "background" THEN EnterBackground(c) /\ UNCHANGED <<at, pc>>
    ELSE /\ ui' = [ui EXCEPT ![c].dialog = FALSE, ![c].exit = exit]
         /\ at' = [at EXCEPT ![c] = IF exit = "keep" THEN "handover" ELSE "shutdown"]
         /\ pc' = IF exit = "keep" THEN pc ELSE [pc EXCEPT ![c]["main"] = "take"]

\* The close button and Quit: a remembered mode is carried out, "ask" is asked.
DecideExit(c) ==
    /\ at[c] = "window" /\ ui[c].shown /\ ~ui[c].dialog
    /\ IF mode[c] = "ask"
       THEN ui' = [ui EXCEPT ![c].dialog = TRUE] /\ UNCHANGED <<at, pc>>
       ELSE Leave(c, mode[c])
    /\ UNCHANGED <<lock, browser, settings, runtime, bounds>>

\* An answer is carried out whether or not it could be remembered.
Answer(c, exit, remember) ==
    /\ at[c] = "window" /\ ui[c].shown /\ ui[c].dialog
    /\ Leave(c, exit)
    /\ IF remember THEN stored' = exit /\ mode' = [mode EXCEPT ![c] = exit]
       ELSE UNCHANGED settings
    /\ UNCHANGED <<lock, browser, runtime, bounds>>

Dismiss(c) ==
    /\ at[c] = "window" /\ ui[c].shown /\ ui[c].dialog
    /\ ui' = [ui EXCEPT ![c].dialog = FALSE]
    /\ UNCHANGED <<at, lock, browser, settings, runtime, pc, bounds>>

TrayShow(c) == ui' = [ui EXCEPT ![c].shown = TRUE] /\ UNCHANGED <<at, pc>>
TrayQuit(c) == Leave(c, "all")

\* The icon posts what was clicked, and the window's tick takes it.
TrayEvent(c) ==
    /\ at[c] = "window" /\ ui[c].tray /\ (TrayShow(c) \/ TrayQuit(c))
    /\ UNCHANGED <<lock, browser, settings, runtime, bounds>>

\* release_all waits for room in the queue, for HANDOVER_TIMEOUT at most; a
\* release that was not taken is a line in the log.
HandOver_Skipped(c) ==
    /\ at[c] = "handover"
    /\ at' = [at EXCEPT ![c] = "shutdown"] /\ pc' = [pc EXCEPT ![c]["main"] = "take"]
    /\ UNCHANGED <<lock, browser, window, queue, thread, slot, bounds>>
HandOver(c) ==
    /\ at[c] = "handover"
    /\ \/ Room(c) /\ ~Disconnected(c) /\ queue' = [queue EXCEPT ![c] = Append(@, <<"release">>)]
          /\ UNCHANGED hurried
       \/ (~Room(c) \/ Disconnected(c))
          /\ UNCHANGED queue /\ hurried' = hurried \cup {<<c, "refused">>}
    /\ at' = [at EXCEPT ![c] = "shutdown"] /\ pc' = [pc EXCEPT ![c]["main"] = "take"]
    /\ UNCHANGED <<lock, browser, window, thread, slot, clicks>>

Window(c) ==
    \/ DecideExit(c) \/ Dismiss(c) \/ TrayEvent(c) \/ HandOver(c)
    \/ \E p \in Profiles, what \in {"start", "stop"} : Click(c, <<what, p>>)
    \/ \E exit \in Exits, remember \in BOOLEAN : Answer(c, exit, remember)

-----------------------------------------------------------------------------
(* shutdown, by the main thread after the window loop and by the thread that *)
(* reads the signals.                                                        *)

\* The handle is taken before the command is sent.
TakeHandle(c, a) ==
    /\ pc[c][a] = "take"
    /\ pc' = [pc EXCEPT ![c][a] = IF slot[c] THEN "send" ELSE "sendOnly"]
    /\ slot' = [slot EXCEPT ![c] = FALSE]
    /\ UNCHANGED <<at, lock, browser, window, queue, thread, bounds>>

\* A blocking send; it fails at once when the thread has ended.
Send(c, a) ==
    /\ pc[c][a] = "send" /\ (Room(c) \/ Disconnected(c))
    /\ queue' = IF Disconnected(c) THEN queue ELSE [queue EXCEPT ![c] = Append(@, <<"shutdown">>)]
    /\ pc' = [pc EXCEPT ![c][a] = "wait"]
    /\ UNCHANGED <<at, lock, browser, window, thread, slot, bounds>>

\* "Another exit path is already reclaiming; do not wait twice."
SendOnly(c, a) ==
    /\ pc[c][a] = "sendOnly" /\ (Room(c) \/ Disconnected(c))
    /\ Ends(c) /\ hurried' = hurried \cup {<<c, "second">>}

Waited(c, a) ==
    /\ pc[c][a] = "wait" /\ thread[c] = "done"
    /\ Ends(c) /\ UNCHANGED hurried

GraceOver_Never(c, a) == FALSE /\ UNCHANGED vars
GraceOver(c, a) ==
    /\ pc[c][a] = "wait" /\ thread[c] # "done"
    /\ Ends(c) /\ hurried' = hurried \cup {<<c, "grace">>}

Shutdown(c, a) ==
    TakeHandle(c, a) \/ Send(c, a) \/ SendOnly(c, a) \/ Waited(c, a) \/ GraceOver(c, a)

\* The first signal is the only one that is read.
Signal(c) ==
    /\ at[c] \in {"window", "handover", "shutdown"} /\ pc[c]["signal"] = "idle"
    /\ pc' = [pc EXCEPT ![c]["signal"] = "take"]
    /\ UNCHANGED <<at, lock, browser, window, runtime, bounds>>

\* Killed, or signalled before the handlers were installed.
Killed(c) == Live(c) /\ Ends(c) /\ hurried' = hurried \cup {<<c, "killed">>}

Next ==
    \/ \E c \in Copies :
          \/ Startup(c) \/ Thread(c) \/ Window(c) \/ Signal(c) \/ Killed(c)
          \/ \E a \in Agents : Shutdown(c, a)
    \/ \E p \in Profiles : BrowserDies(p)

\* The main and the signal thread run; nothing is assumed of the supervisor's.
Spec ==
    /\ Init /\ [][Next]_vars
    /\ \A c \in Copies : WF_vars(HandOver(c)) /\ \A a \in Agents : WF_vars(Shutdown(c, a))

-----------------------------------------------------------------------------
(* Properties.                                                              *)

\* A recovery reads every record in the directory as a previous run's: no other
\* copy that is running manages a browser while one recovers.
RecoversTheDead ==
    /\ TypeOK
    /\ \A c \in Copies, p \in Profiles :
        at[c] = "recover" => browser[p].owner \in {c, Nobody}

\* There is always a way back to a window and out of the program: it is on the
\* screen, or its icon is in the tray.
WindowReachable == \A c \in Copies : at[c] = "window" => ui[c].shown \/ ui[c].tray

\* A browser nobody manages is marked as left on purpose, unless some copy was
\* killed or an exit stopped waiting: a finished exit leaves nothing by accident.
NothingLeftByAccident ==
    hurried = {} => \A p \in Profiles :
        browser[p].up /\ browser[p].owner = Nobody => browser[p].record = "left"

\* A copy that was told to leave the browsers running, and could say so, stops
\* none of them: the shutdown that always follows finds nothing.
KeepMeansKeep ==
    [][\A c \in Copies, p \in Profiles :
          (/\ ui[c].exit = "keep" /\ pc[c]["signal"] = "idle" /\ ~\E e \in hurried : e[1] = c
           /\ at[c] = "shutdown" /\ browser[p].owner = c
           /\ \A i \in DOMAIN queue[c] : queue[c][i] # <<"stop", p>>)
          => ~(thread[c] = "stopping" /\ browser'[p] = NoBrowser)]_vars

\* An exit that finds room in the queue ends, whatever the supervisor thread
\* does and however many exits overlap.
ExitEnds ==
    \A c \in Copies : (at[c] = "shutdown" /\ Room(c)) ~> at[c] = "ended"

\* "Ask the supervisor to reclaim every child, then give it a bounded moment"
\* (main.rs:467): an exit that leaves children has waited for the thread.
ExitsWait ==
    [][\A c \in Copies :
          Mine(c) # {} /\ at[c] = "shutdown" /\ at'[c] = "ended" =>
              thread[c] = "done" \/ hurried' \cap {<<c, "killed">>, <<c, "grace">>} # {}]_vars

=============================================================================
