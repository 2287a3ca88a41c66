------------------------------ MODULE Supervisor ------------------------------
(***************************************************************************)
(* One run of the runtime supervisor thread                                *)
(* (crates/runtime/src/supervisor.rs and supervisor/start.rs) with the     *)
(* clients that send it commands and the browsers and Xray engines it owns.*)
(*                                                                         *)
(* The thread takes commands from a bounded channel.  While a profile is   *)
(* starting it keeps reading the channel (poll_start_commands): it serves  *)
(* what can cancel a start at once and parks the rest in pending_commands. *)
(* Between two points at which the thread looks at the channel or at a     *)
(* process everything it does is one step.                                 *)
(*                                                                         *)
(* A command carries its place in the order of sends, which is also the    *)
(* request_id of a launch.  Both queues are first-in first-out and only    *)
(* ever appended to, so a queue is the set of its commands and its front   *)
(* is the one with the least number.                                       *)
(***************************************************************************)
EXTENDS Integers, FiniteSets

CONSTANTS
    Profiles,      \* the profiles the clients start and stop
    Proxied,       \* those whose launch goes through an Xray engine
    LeftRunning,   \* those an earlier run may have left running
    NoProfile,     \* "no profile"
    QueueCap,      \* capacity of the command channel (256 in main.rs)
    Batch,         \* commands one poll may take (64 in poll_start_commands)
    Rounds,        \* readiness polls before a readiness deadline has passed
    MaxCommands    \* bound: commands the clients send in one run

ASSUME ProfileAssumption == NoProfile \notin Profiles /\ Proxied \cup LeftRunning \subseteq Profiles
ASSUME BoundAssumption ==
    QueueCap \in Nat /\ Batch \in Nat \ {0} /\ Rounds \in Nat /\ MaxCommands \in Nat

VARIABLES
    \* the command channel
    cmds,          \* commands sent and not yet taken
    open,          \* some sender still exists
    issued,        \* how many commands were sent
    \* the thread
    pending,       \* pending_commands
    down,          \* shutting_down
    pc,            \* where the thread is
    resume,        \* where a poll of the channel returns to when not cancelled
    budget,        \* commands this poll may still take
    cur,           \* the launch in progress: its profile and its number
    tries,         \* readiness polls left before the deadline
    stops,         \* profiles a stop or a cleanup still has to stop
    victim,        \* the session a stop has taken out of active_sessions
    after,         \* where the thread goes when nothing is left to stop
    owed,          \* the acknowledgement a stop taken during a start owes
    \* the sessions, their processes and their files
    held,          \* how the session of a profile is held, if there is one
    stopFailed,    \* sessions with stop_failed set
    browser,       \* the browser process of a profile
    xray,          \* the Xray process of a profile
    record,        \* profiles with a session record on disk
    marked,        \* records that say left_running
    config,        \* profiles with a temporary Xray config on disk
    \* what the window reads
    snap,          \* RuntimeSnapshot.state
    acked,         \* RuntimeSnapshot.acknowledged_start
    \* history, read by no action
    lastStop,      \* number of the last Stop taken for a profile
    runs,          \* number of the launch a session came from
    leaving,       \* a ReleaseAll was accepted before any ShutdownAll or hang-up
    released       \* profiles whose sessions release_all gave up

channel == <<cmds, open, issued>>
launch == <<resume, budget, cur, tries>>
stopping == <<stops, victim, after, owed>>
thread == <<pending, down, pc, launch, stopping>>
sessions == <<held, stopFailed>>
processes == <<browser, xray>>
disk == <<record, marked, config>>
published == <<snap, acked>>
history == <<lastStop, runs, leaving, released>>
vars == <<channel, thread, sessions, processes, disk, published, history>>

-----------------------------------------------------------------------------
Launches == {"start", "restart"}
Numbers == 1..MaxCommands

Command == [op : Launches \cup {"stop"}, p : Profiles, n : Numbers]
           \cup [op : {"release", "shutdown"}, p : {NoProfile}, n : Numbers]

\* "exited" is dead and not yet waited for or noticed, "foreign" a pid that now
\* names a process the record does not describe.  The exit status only decides
\* whether a crash is reported and is left out.
ProcessState == {"none", "live", "exited", "foreign"}
Gone(state) == state \in {"exited", "foreign"}

\* A profile without a snapshot reads as Stopped, and Crashed is overwritten in
\* the step that publishes it.
SnapState == {"Starting", "Running", "Stopping", "Stopped", "Failed"}

StartPcs == {"prepare", "xray", "spawn", "probe", "confirm"}
PollPcs == {"poll", "recv"}
Pcs == {"idle", "tail", "start", "cancel", "stop", "drain", "kill", "done"}
       \cup StartPcs \cup PollPcs

Idle == [p |-> NoProfile, n |-> 0]

ThreadTypeOK ==
    /\ pending \subseteq Command /\ down \in BOOLEAN
    /\ pc \in Pcs /\ resume \in StartPcs
    /\ budget \in 0..Batch /\ tries \in 0..Rounds
    /\ cur \in [p : Profiles \cup {NoProfile}, n : 0..MaxCommands]
    /\ stops \subseteq Profiles /\ victim \in Profiles \cup {NoProfile}
    /\ after \in {"tail", "start", "recv", "cancel", "idle", "done"}
    /\ owed \in [p : Profiles \cup {NoProfile}, n : 0..MaxCommands]

SessionsTypeOK ==
    /\ held \in [Profiles -> {"none", "owned", "adopted"}]
    /\ stopFailed \subseteq Profiles
    /\ browser \in [Profiles -> ProcessState]
    /\ xray \in [Profiles -> ProcessState]
    /\ record \subseteq Profiles /\ marked \subseteq Profiles /\ config \subseteq Profiles
    /\ snap \in [Profiles -> SnapState]

TypeOK ==
    /\ cmds \subseteq Command /\ open \in BOOLEAN /\ issued \in 0..MaxCommands
    /\ ThreadTypeOK /\ SessionsTypeOK
    /\ acked \in [Profiles -> 0..MaxCommands]
    /\ lastStop \in [Profiles -> 0..MaxCommands]
    /\ runs \in [Profiles -> 0..MaxCommands]
    /\ leaving \in BOOLEAN /\ released \subseteq Profiles

\* active_sessions: a session being stopped is out of the table.
Active == {p \in Profiles : held[p] # "none"} \ {victim}

Larger(a, b) == IF a >= b THEN a ELSE b
Acknowledge(p, n) == acked' = [acked EXCEPT ![p] = Larger(@, n)]

-----------------------------------------------------------------------------
(* The thread is spawned after recover_orphans has installed the sessions   *)
(* an earlier run left running: no handle, a marked record, some component  *)
(* alive and none that is somebody else's.                                  *)

Init ==
    /\ cmds = {} /\ open = TRUE /\ issued = 0
    /\ pending = {} /\ down = FALSE
    /\ pc = "idle" /\ resume = "prepare" /\ budget = 0 /\ cur = Idle /\ tries = 0
    /\ stops = {} /\ victim = NoProfile /\ after = "tail" /\ owed = Idle
    /\ held \in [Profiles -> {"none", "adopted"}]
    /\ stopFailed = {}
    /\ browser \in [Profiles -> {"none", "live", "exited"}]
    /\ xray \in [Profiles -> {"none", "live", "exited"}]
    /\ \A p \in Profiles :
          /\ held[p] = "none" => browser[p] = "none" /\ xray[p] = "none"
          /\ held[p] = "adopted" =>
                /\ p \in LeftRunning
                /\ "live" \in {browser[p], xray[p]} /\ browser[p] # "none"
                /\ (xray[p] = "none") = (p \notin Proxied)
    /\ record = Active /\ marked = Active /\ config = Active \cap Proxied
    /\ snap = [p \in Profiles |-> IF p \in Active THEN "Running" ELSE "Stopped"]
    /\ acked = [p \in Profiles |-> 0]
    /\ lastStop = [p \in Profiles |-> 0] /\ runs = [p \in Profiles |-> 0]
    /\ leaving = FALSE /\ released = {}

-----------------------------------------------------------------------------
(* Clients and the operating system.                                        *)

\* try_send on the channel: refused when it is full or the thread has ended.
Send(op, p) ==
    /\ open /\ pc # "done"
    /\ issued < MaxCommands /\ Cardinality(cmds) < QueueCap
    /\ issued' = issued + 1
    /\ cmds' = cmds \cup {[op |-> op, p |-> p, n |-> issued + 1]}
    /\ leaving' = (leaving \/ (op = "release" /\ ~down /\ \A c \in cmds : c.op # "shutdown"))
    /\ UNCHANGED <<open, thread, sessions, processes, disk, published,
                   lastStop, runs, released>>

SendLaunch == \E op \in Launches, p \in Profiles : Send(op, p)
SendStop == \E p \in Profiles : Send("stop", p)
SendRelease == Send("release", NoProfile)
SendShutdown == Send("shutdown", NoProfile)

\* The last sender is dropped.
HangUp ==
    /\ open /\ open' = FALSE
    /\ UNCHANGED <<cmds, issued, thread, sessions, processes, disk, published, history>>

BrowserExits(p) ==
    /\ pc # "done" /\ browser[p] = "live" /\ browser' = [browser EXCEPT ![p] = "exited"]
    /\ UNCHANGED <<channel, thread, sessions, xray, disk, published, history>>

XrayExits(p) ==
    /\ pc # "done" /\ xray[p] = "live" /\ xray' = [xray EXCEPT ![p] = "exited"]
    /\ UNCHANGED <<channel, thread, sessions, browser, disk, published, history>>

\* The pid of a process nobody holds a handle to is reused, or free again.
Recycled(state, state2) ==
    \/ state = "exited" /\ state2 = "foreign"
    \/ state = "foreign" /\ state2 = "exited"

PidRecycled(p) ==
    /\ pc # "done" /\ held[p] = "adopted"
    /\ \E state \in {"exited", "foreign"} :
          \/ Recycled(browser[p], state) /\ browser' = [browser EXCEPT ![p] = state]
             /\ UNCHANGED xray
          \/ Recycled(xray[p], state) /\ xray' = [xray EXCEPT ![p] = state]
             /\ UNCHANGED browser
    /\ UNCHANGED <<channel, thread, sessions, disk, published, history>>

Environment ==
    \/ SendLaunch \/ SendStop \/ SendRelease \/ SendShutdown \/ HangUp
    \/ \E p \in Profiles : BrowserExits(p) \/ XrayExits(p) \/ PidRecycled(p)

-----------------------------------------------------------------------------
(* Sessions ending.                                                         *)

\* An owned child is always stopped.  An adopted one is re-identified first:
\* a foreign pid is refused and a live one may not die.
MustSurvive(p, state) == held[p] = "adopted" /\ state = "foreign"
MaySurvive(p, state) == held[p] = "adopted" /\ state \in {"live", "foreign"}

Ended(state) == IF state = "none" THEN "none" ELSE "exited"

\* stop_session from the two kills on, for the sessions S: the files and the
\* session go when both components did, otherwise the session is put back.
KillAll(S) ==
    \E survB \in SUBSET S, survX \in SUBSET S :
    LET failed == survB \cup survX
        over == S \ failed
    IN  /\ \A p \in S :
              /\ MustSurvive(p, browser[p]) => p \in survB
              /\ MustSurvive(p, xray[p]) => p \in survX
        /\ \A p \in survB : MaySurvive(p, browser[p])
        /\ \A p \in survX : MaySurvive(p, xray[p])
        /\ browser' = [p \in Profiles |-> IF p \in over THEN "none"
                          ELSE IF p \in failed \ survB THEN Ended(browser[p])
                          ELSE browser[p]]
        /\ xray' = [p \in Profiles |-> IF p \in over THEN "none"
                          ELSE IF p \in failed \ survX THEN Ended(xray[p])
                          ELSE xray[p]]
        /\ held' = [p \in Profiles |-> IF p \in over THEN "none" ELSE held[p]]
        /\ stopFailed' = (stopFailed \ over) \cup failed
        /\ record' = record \ over /\ marked' = marked \ over
        /\ config' = config \ over
        /\ snap' = [p \in Profiles |-> IF p \in over THEN "Stopped"
                          ELSE IF p \in failed THEN "Running" ELSE snap[p]]

\* The sessions a poll finds with a component gone; one whose stop failed is
\* left alone until somebody stops it again.
Exited_BrowserOnly == {p \in Active \ stopFailed : Gone(browser[p])}
Exited == {p \in Active \ stopFailed : Gone(browser[p]) \/ Gone(xray[p])}

\* poll_active_sessions
Reap == KillAll(Exited)

\* The poll after a handled command, and the one a quiet tick ends with.
TailPoll ==
    /\ pc = "tail" /\ pc' = "idle"
    /\ Reap
    /\ UNCHANGED <<channel, pending, down, launch, stopping, acked, history>>

QuietTick ==
    /\ pc = "idle" /\ ~down /\ open /\ cmds = {} /\ pending = {}
    /\ Exited # {} /\ Reap
    /\ UNCHANGED <<channel, thread, acked, history>>

\* The graceful wait polls the other sessions while the browser closes.
DrainPoll ==
    /\ pc = "drain" /\ ~Gone(browser[victim])
    /\ Exited # {} /\ Reap
    /\ UNCHANGED <<channel, thread, acked, history>>

\* stop_profile of one profile of stops: a session leaves the table and its
\* browser, if alive, is asked to close; the request may not get through.
StopNext(p) ==
    /\ pc = "stop" /\ p \in stops
    /\ IF p \in Active
       THEN /\ victim' = p
            /\ \/ pc' = "drain" /\ ~Gone(browser[p])
               \/ pc' = "kill"
            /\ snap' = [snap EXCEPT ![p] = "Stopping"]
            /\ UNCHANGED stops
       ELSE /\ stops' = stops \ {p}
            /\ snap' = [snap EXCEPT ![p] = "Stopped"]
            /\ UNCHANGED <<pc, victim>>
    /\ UNCHANGED <<channel, pending, down, launch, after, owed, sessions,
                   processes, disk, acked, history>>

\* The browser closed, or two seconds passed.
DrainEnds ==
    /\ pc = "drain" /\ pc' = "kill"
    /\ UNCHANGED <<channel, pending, down, launch, stopping, sessions, processes,
                   disk, published, history>>

Kill ==
    /\ pc = "kill" /\ pc' = "stop"
    /\ KillAll({victim})
    /\ victim' = NoProfile /\ stops' = stops \ {victim}
    /\ UNCHANGED <<channel, pending, down, launch, after, owed, acked, history>>

\* A stop taken during a start acknowledges the launches it threw away.
StopsDone ==
    /\ pc = "stop" /\ stops = {} /\ pc' = after
    /\ IF owed.p = NoProfile THEN UNCHANGED acked ELSE Acknowledge(owed.p, owed.n)
    /\ owed' = Idle /\ after' = "tail"
    /\ cmds' = IF after = "done" THEN {} ELSE cmds
    /\ UNCHANGED <<open, issued, pending, down, launch, stops, victim,
                   sessions, processes, disk, snap, history>>

Stopper == TailPoll \/ QuietTick \/ DrainPoll \/ DrainEnds \/ Kill \/ StopsDone
           \/ \E p \in Profiles : StopNext(p)

-----------------------------------------------------------------------------
(* The command loop.                                                        *)

\* pending_commands first, then the channel.
IsFront(c) ==
    /\ c \in (IF pending # {} THEN pending ELSE cmds)
    /\ \A d \in (IF pending # {} THEN pending ELSE cmds) : c.n <= d.n

Pop(c) == pending' = pending \ {c} /\ cmds' = cmds \ {c}

HandleStart(c) ==
    /\ pc = "idle" /\ ~down /\ IsFront(c) /\ c.op = "start"
    /\ Pop(c)
    /\ cur' = [p |-> c.p, n |-> c.n] /\ pc' = "start"
    /\ UNCHANGED <<open, issued, down, resume, budget, tries, stopping, sessions,
                   processes, disk, published, history>>

HandleStop(c) ==
    /\ pc = "idle" /\ ~down /\ IsFront(c) /\ c.op = "stop"
    /\ Pop(c)
    /\ stops' = {c.p} /\ after' = "tail" /\ pc' = "stop"
    /\ lastStop' = [lastStop EXCEPT ![c.p] = c.n]
    /\ UNCHANGED <<open, issued, down, launch, victim, owed, sessions, processes,
                   disk, published, runs, leaving, released>>

HandleRestart(c) ==
    /\ pc = "idle" /\ ~down /\ IsFront(c) /\ c.op = "restart"
    /\ Pop(c)
    /\ cur' = [p |-> c.p, n |-> c.n]
    /\ stops' = {c.p} /\ after' = "start" /\ pc' = "stop"
    /\ UNCHANGED <<open, issued, down, resume, budget, tries, victim, owed,
                   sessions, processes, disk, published, history>>

PublishReleased_Silent == UNCHANGED snap
PublishReleased ==
    snap' = [p \in Profiles |-> IF p \in Active THEN "Stopped" ELSE snap[p]]

\* release_all: every session is marked, a mark may fail to be written, and
\* every handle is given up.
HandleRelease(c) ==
    /\ pc = "idle" /\ ~down /\ IsFront(c) /\ c.op = "release"
    /\ cmds' = cmds \ {c} /\ pending' = {} /\ down' = TRUE
    /\ \E written \in SUBSET (Active \cap record) : marked' = marked \cup written
    /\ held' = [p \in Profiles |-> "none"] /\ stopFailed' = {}
    /\ PublishReleased
    /\ released' = Active
    /\ UNCHANGED <<open, issued, pc, launch, stopping, processes, record, config,
                   acked, lastStop, runs, leaving>>

\* cleanup_all, then `next'.
Cleanup_Nothing(next) == stops' = {} /\ after' = next /\ pc' = "stop"
Cleanup(next) == stops' = Active /\ after' = next /\ pc' = "stop"

HandleShutdown(c) ==
    /\ pc = "idle" /\ ~down /\ IsFront(c) /\ c.op = "shutdown"
    /\ cmds' = cmds \ {c} /\ pending' = {} /\ down' = TRUE
    /\ Cleanup("idle")
    /\ UNCHANGED <<open, issued, launch, victim, owed, sessions, processes, disk,
                   published, history>>

\* The loop is left, and whatever is still in the table is stopped.
LeaveLoop ==
    /\ pc = "idle"
    /\ down \/ (~open /\ cmds = {} /\ pending = {})
    /\ Cleanup("done")
    /\ UNCHANGED <<channel, pending, down, launch, victim, owed, sessions,
                   processes, disk, published, history>>

CommandLoop ==
    \/ LeaveLoop
    \/ \E c \in cmds \cup pending : HandleStart(c) \/ HandleStop(c) \/ HandleRestart(c)
                                    \/ HandleRelease(c) \/ HandleShutdown(c)

-----------------------------------------------------------------------------
(* A start.                                                                 *)

\* poll_start_commands: poll the sessions, then take up to Batch commands.
\* A poll that is not cancelled returns to `next'.
PollThen(next) == pc' = "poll" /\ resume' = next

\* start_profile returns, and its locals go.
StartOver ==
    /\ cur' = Idle /\ pc' = "tail"
    /\ resume' = "prepare" /\ budget' = 0 /\ tries' = 0

EndChildren_BrowserOnly ==
    browser' = [browser EXCEPT ![cur.p] = "none"] /\ UNCHANGED xray
EndChildren ==
    /\ browser' = [browser EXCEPT ![cur.p] = "none"]
    /\ xray' = [xray EXCEPT ![cur.p] = "none"]

\* Dropping the attempt: the children, the config and the record go, the
\* launch is over and its number acknowledged.
GiveUp(state) ==
    /\ EndChildren
    /\ config' = config \ {cur.p} /\ record' = record \ {cur.p}
    /\ marked' = marked \ {cur.p}
    /\ snap' = [snap EXCEPT ![cur.p] = state]
    /\ Acknowledge(cur.p, cur.n)
    /\ StartOver
    /\ UNCHANGED <<channel, pending, down, stopping, sessions, history>>

MayStart_Unchecked == TRUE
MayStart == cur.p \notin Active

\* A profile that has a session is only warned about.
StartRefused ==
    /\ pc = "start" /\ ~MayStart
    /\ Acknowledge(cur.p, cur.n)
    /\ StartOver
    /\ UNCHANGED <<channel, pending, down, stopping, sessions, processes, disk,
                   snap, history>>

StartBegins ==
    /\ pc = "start" /\ MayStart
    /\ snap' = [snap EXCEPT ![cur.p] = "Starting"]
    /\ PollThen("prepare")
    /\ UNCHANGED <<channel, pending, down, budget, cur, tries, stopping, sessions,
                   processes, disk, acked, history>>

BeginPoll ==
    /\ pc = "poll" /\ pc' = "recv" /\ budget' = Batch
    /\ Reap
    /\ UNCHANGED <<channel, pending, down, resume, cur, tries, stopping, acked, history>>

\* One try_recv of the batch.
Receives(c) ==
    /\ pc = "recv" /\ budget > 0 /\ c \in cmds /\ \A d \in cmds : c.n <= d.n
    /\ cmds' = cmds \ {c} /\ budget' = budget - 1

\* Shutting down: everything queued is dropped, everything running stopped and
\* the start called off.
Abandon_StayUp == pending' = {} /\ UNCHANGED down /\ Cleanup("cancel")
Abandon == pending' = {} /\ down' = TRUE /\ Cleanup("cancel")

PollShutdown(c) ==
    /\ Receives(c) /\ c.op = "shutdown"
    /\ Abandon
    /\ UNCHANGED <<open, issued, resume, cur, tries, victim, owed, sessions,
                   processes, disk, published, history>>

PollDisconnected ==
    /\ pc = "recv" /\ budget > 0 /\ cmds = {} /\ ~open
    /\ Abandon
    /\ UNCHANGED <<channel, resume, budget, cur, tries, victim, owed, sessions,
                   processes, disk, published, history>>

\* A stop throws away the launches of its profile that are parked, and calls
\* off the start if it is that profile's.
Parked_StartsOnly(p) == {c \in pending : c.op = "start" /\ c.p = p}
Parked(p) == {c \in pending : c.op \in Launches /\ c.p = p}

Unpark_Nothing(p) == UNCHANGED pending
Unpark(p) == pending' = pending \ Parked(p)

PollStop(c) ==
    /\ Receives(c) /\ c.op = "stop"
    /\ Unpark(c.p)
    /\ lastStop' = [lastStop EXCEPT ![c.p] = c.n]
    /\ IF c.p = cur.p
       THEN pc' = "cancel" /\ UNCHANGED <<stops, after, owed>>
       ELSE /\ stops' = {c.p} /\ after' = "recv" /\ pc' = "stop"
            /\ \E n \in {0} \cup {d.n : d \in Parked(c.p)} :
                  /\ \A d \in Parked(c.p) : n >= d.n
                  /\ owed' = [p |-> c.p, n |-> n]
    /\ UNCHANGED <<open, issued, down, resume, cur, tries, victim, sessions,
                   processes, disk, published, runs, leaving, released>>

\* A second start of the profile that is starting is warned about and dropped;
\* a restart of it calls the start off and waits its turn.
PollDuplicate(c) ==
    /\ Receives(c) /\ c.op = "start" /\ c.p = cur.p
    /\ UNCHANGED <<open, issued, pending, down, pc, resume, cur, tries, stopping,
                   sessions, processes, disk, published, history>>

PollRestart(c) ==
    /\ Receives(c) /\ c.op = "restart" /\ c.p = cur.p
    /\ pending' = pending \cup {c} /\ pc' = "cancel"
    /\ UNCHANGED <<open, issued, down, resume, cur, tries, stopping, sessions,
                   processes, disk, published, history>>

PollPark(c) ==
    /\ Receives(c)
    /\ c.op = "release" \/ (c.op \in Launches /\ c.p # cur.p)
    /\ pending' = pending \cup {c}
    /\ UNCHANGED <<open, issued, down, pc, resume, cur, tries, stopping, sessions,
                   processes, disk, published, history>>

PollReturns ==
    /\ pc = "recv" /\ (budget = 0 \/ (cmds = {} /\ open)) /\ pc' = resume
    /\ budget' = 0
    /\ UNCHANGED <<channel, pending, down, resume, cur, tries, stopping, sessions,
                   processes, disk, published, history>>

PollCommands ==
    \/ BeginPoll \/ PollDisconnected \/ PollReturns
    \/ \E c \in cmds : PollShutdown(c) \/ PollStop(c) \/ PollDuplicate(c)
                       \/ PollRestart(c) \/ PollPark(c)

\* begin_attempt: no Xray is needed, or its config is written and it is spawned.
PrepareDirect ==
    /\ pc = "prepare" /\ cur.p \notin Proxied
    /\ PollThen("spawn")
    /\ UNCHANGED <<channel, pending, down, budget, cur, tries, stopping, sessions,
                   processes, disk, published, history>>

PrepareProxied ==
    /\ pc = "prepare" /\ cur.p \in Proxied
    /\ config' = config \cup {cur.p}
    /\ xray' = [xray EXCEPT ![cur.p] = "live"]
    /\ tries' = Rounds /\ PollThen("xray")
    /\ UNCHANGED <<channel, pending, down, budget, cur, stopping, sessions, browser,
                   record, marked, published, history>>

\* wait_ready: the engine answers the greeting, or not yet.
XrayAnswers ==
    /\ pc = "xray" /\ tries > 0 /\ xray[cur.p] = "live"
    /\ PollThen("spawn")
    /\ UNCHANGED <<channel, pending, down, budget, cur, tries, stopping, sessions,
                   processes, disk, published, history>>

Countdown_Unchecked == tries' = tries - 1
Countdown_Never == tries > 0 /\ UNCHANGED tries
Countdown == tries > 0 /\ tries' = tries - 1

\* A readiness round without an answer, of Xray or of the browser.
NotYet ==
    /\ \/ pc = "xray" /\ xray[cur.p] = "live"
       \/ pc = "probe" /\ browser[cur.p] = "live" /\ ~Gone(xray[cur.p])
    /\ Countdown /\ PollThen(pc)
    /\ UNCHANGED <<channel, pending, down, budget, cur, stopping, sessions,
                   processes, disk, published, history>>

\* Chromium is spawned; the record may fail to be written.
SpawnBrowser ==
    /\ pc = "spawn"
    /\ browser' = [browser EXCEPT ![cur.p] = "live"]
    /\ record' \in {record, record \cup {cur.p}}
    /\ tries' = Rounds /\ PollThen("probe")
    /\ UNCHANGED <<channel, pending, down, budget, cur, stopping, sessions, xray,
                   marked, config, published, history>>

ChildrenLive == browser[cur.p] = "live" /\ ~Gone(xray[cur.p])

ProbeAnswers ==
    /\ pc = "probe" /\ tries > 0 /\ ChildrenLive
    /\ PollThen("confirm")
    /\ UNCHANGED <<channel, pending, down, budget, cur, tries, stopping, sessions,
                   processes, disk, published, history>>

\* Both children are looked at once more before the session is published.
StartSucceeds ==
    /\ pc = "confirm" /\ ChildrenLive
    /\ held' = [held EXCEPT ![cur.p] = "owned"]
    /\ runs' = [runs EXCEPT ![cur.p] = cur.n]
    /\ snap' = [snap EXCEPT ![cur.p] = "Running"]
    /\ Acknowledge(cur.p, cur.n)
    /\ StartOver
    /\ UNCHANGED <<channel, pending, down, stopping, stopFailed, processes, disk,
                   lastStop, leaving, released>>

\* Ports, capabilities, plan and spawns can fail, the probe can fail at any
\* round, a child can be gone and the deadline can have passed.
StartFails ==
    /\ \/ pc \in {"prepare", "spawn", "probe"}
       \/ pc = "xray" /\ (tries = 0 \/ Gone(xray[cur.p]))
       \/ pc = "confirm" /\ ~ChildrenLive
    /\ GiveUp("Failed")

StartCancelled == pc = "cancel" /\ GiveUp("Stopped")

Starter ==
    \/ StartRefused \/ StartBegins \/ PrepareDirect \/ PrepareProxied \/ XrayAnswers
    \/ NotYet \/ SpawnBrowser \/ ProbeAnswers \/ StartSucceeds \/ StartFails
    \/ StartCancelled

-----------------------------------------------------------------------------
Supervise == Stopper \/ CommandLoop \/ PollCommands \/ Starter
Next == Environment \/ Supervise

\* The thread is always scheduled, and each of its waits has a deadline.
Spec == Init /\ [][Next]_vars /\ WF_vars(Supervise)

-----------------------------------------------------------------------------
(* Properties.                                                              *)

\* The thread is in a stop or a cleanup; in a launch, stops made for it and
\* during it included; in a launch past the "already running" check.
InStop == pc \in {"stop", "drain", "kill"}
InStart ==
    \/ pc \in StartPcs \cup PollPcs \cup {"start", "cancel"}
    \/ InStop /\ after \in {"start", "recv", "cancel"}
Attempting == InStart /\ "start" \notin {pc, after}

\* What the thread answers for: its sessions, the one being stopped included,
\* the attempt in progress, and what it gave up on purpose.
Accounted(p) == held[p] # "none" \/ (Attempting /\ cur.p = p) \/ p \in released

\* No process, session record or credentials file outlives what owns it: a
\* failed, cancelled or overtaken start, a stop and a reaping each clean up all
\* four, whatever they interleave with (StartAttempt::drop, stop_session).
NothingStray ==
    \A p \in Profiles :
        (browser[p] # "none" \/ xray[p] # "none" \/ p \in record \cup config)
            => Accounted(p)

\* Chromium is spawned for a profile only when no browser of an earlier session
\* can still hold its data directory, one that would not die included.
DirectoryFree ==
    pc = "spawn" => held[cur.p] = "none" /\ browser[cur.p] = "none"

\* The published state is the state of the table: Running is a session that is
\* in it, Stopping the one being taken out, Starting the launch in progress, so
\* a window never sees Stopped or Failed over something that still runs.
SnapshotTells ==
    \A p \in Profiles :
        /\ (snap[p] = "Running") = (p \in Active)
        /\ (snap[p] = "Stopping") = (victim = p)
        /\ (snap[p] = "Starting") => (Attempting /\ cur.p = p)

\* An acknowledged launch is over: neither queued, parked nor in progress, so a
\* window that gives the profile free on the acknowledgement is not overtaken
\* by a launch it thought finished (acknowledge_start, RuntimeSnapshot).
AckIsFinal ==
    /\ \A c \in cmds \cup pending : c.op \in Launches => c.n > acked[c.p]
    /\ InStart => cur.n > acked[cur.p]

\* A stop wins over every launch sent before it, wherever that launch was when
\* the stop was taken: parked, in its readiness wait, or a session.
StopWins ==
    /\ \A c \in pending : c.op \in Launches => c.n > lastStop[c.p]
    /\ pc \in StartPcs \cup PollPcs => cur.n > lastStop[cur.p]
    /\ \A p \in Active \ stops : held[p] = "owned" => runs[p] > lastStop[p]

\* When the thread has ended nothing is left behind but the sessions it gave up
\* on purpose and those that could not be stopped, whose files are kept.
ExitLeavesNothing ==
    pc = "done" => \A p \in Profiles :
        \/ p \in released
        \/ p \in stopFailed /\ p \in record
        \/ browser[p] = "none" /\ xray[p] = "none" /\ p \notin record \cup config

\* An Xray that died takes its browser down: no proxied browser keeps running
\* without its tunnel, during the start as well as after it.
TunnelLost(p) == Gone(xray[p]) /\ browser[p] = "live"
DeadTunnelEndsBrowser ==
    \A p \in Profiles : TunnelLost(p) ~>
        (~TunnelLost(p) \/ p \in stopFailed \/ p \in released)

\* A start is decided: the profile does not stay in Starting.
StartIsDecided == \A p \in Profiles : snap[p] = "Starting" ~> snap[p] # "Starting"

\* A release, a shutdown or a lost channel ends the thread, however many starts,
\* stops and commands are under way.
ThreadEnds ==
    (~open \/ \E c \in cmds : c.op \in {"release", "shutdown"}) ~> pc = "done"

-----------------------------------------------------------------------------
(* What the repository says of the thread and its code does not do.         *)

\* "gives up its handles without stopping anything" (docs/exit-modes.md:16): a
\* release that was accepted is the exit, and no cleanup stops a session after
\* it.
ReleaseIsTheExit ==
    leaving /\ pc = "stop" /\ after \in {"cancel", "idle", "done"} => stops = {}

\* "Last start/restart fully handled or cancelled by the supervisor"
\* (facade.rs:8): every launch the channel accepted is acknowledged in the end,
\* unless the thread is told to end.
EveryLaunchAcknowledged ==
    \A p \in Profiles, n \in Numbers :
        (\E c \in cmds : c.op \in Launches /\ c.p = p /\ c.n = n)
            ~> (acked[p] >= n \/ down \/ ~open)

\* "could not be stopped and is still running" (supervisor.rs:399-402): a session
\* that is put back as Running after its stop has a process that lives.
PutBackIsLive ==
    [][\A p \in Profiles : p \in stopFailed' \ stopFailed =>
          browser'[p] = "live" \/ xray'[p] = "live"]_vars

=============================================================================
