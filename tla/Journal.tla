-------------------------------- MODULE Journal --------------------------------
(***************************************************************************)
(* The session records (crates/runtime/src/journal.rs) over several runs of *)
(* the program: what a start writes, what a release marks, what a crash      *)
(* leaves, and what the recovery of the next run stops, adopts or leaves     *)
(* alone.  The commands and the readiness waits of one run are in            *)
(* Supervisor; here a run is what its sessions do to processes and files,    *)
(* and the operating system reuses pids and may reboot.                      *)
(*                                                                           *)
(* A process is named by a pid and its start time.  The start time is the    *)
(* count of ticks since boot on Linux and absolute on Windows.               *)
(***************************************************************************)
EXTENDS Integers, FiniteSets

CONSTANTS
    Profiles, Proxied,   \* the profiles, and those launched through an Xray
    Pids,                \* process identifiers
    Somebody,            \* whose a process is that is not ours
    Nobody,              \* whose a free pid is
    Worlds,              \* the platforms of the instance, see world
    WritesFail,          \* a record may fail to be written or marked
    Most                 \* bounds, by world: the start times handed out between
                         \* two boots, the runs, crashes and reboots, and strangers

ASSUME NameAssumption ==
    /\ Proxied \subseteq Profiles /\ Nobody \notin Profiles
    /\ Somebody # Nobody /\ Somebody \notin Profiles \X {"browser", "xray"}
ASSUME BoundAssumption ==
    /\ Most \in [Worlds -> [born : Nat, runs : Nat, mishaps : Nat, strangers : Nat]]
    /\ WritesFail \in BOOLEAN /\ Worlds \subseteq {"clear", "unix", "windows"}

VARIABLES
    world,     \* "clear" is Unix where every process can be identified and dies
    proc,      \* the process behind each pid
    clock,     \* start times handed out since the boot
    record,    \* the session records on disk
    config,    \* profiles with a temporary Xray config on disk
    mode,      \* what the program is doing
    table,     \* sessions and the start in progress
    todo,      \* records the recovery, or sessions the exit, still has to treat
    job,       \* the stop in progress
    bounds,    \* runs, mishaps and strangers so far
    unresolved,\* profiles whose record the recovery of this run reported and left
    \* history, read by no action
    struck,    \* whose processes a journal::stop killed in the place of another's
    purpose,   \* profiles whose session the last run to hold it left on purpose
    excused,   \* processes a crash or a failed write left without a record
    orphaned   \* processes of an unresolved record the next start wrote over

os == <<world, proc, clock>>
files == <<record, config>>
history == <<struck, purpose, excused, orphaned>>
vars == <<os, files, mode, table, todo, job, bounds, unresolved, history>>

-----------------------------------------------------------------------------
Comps == {"browser", "xray"}
Owners == (Profiles \X Comps) \cup {Somebody}
Free == [who |-> Nobody, born |-> 0, up |-> FALSE]

\* ProcessRecord: a pid and the start time read when it was captured.
Ids == [pid : Pids, born : Nat \ {0}]
NoId == [pid |-> Nobody, born |-> 0]
Triple == [browser : Ids \cup {NoId}, xray : Ids \cup {NoId}]
NoRecord == [browser |-> NoId, xray |-> NoId, left |-> FALSE]
NoSession == [browser |-> NoId, xray |-> NoId, how |-> "none"]
NoJob == [p |-> Nobody, comps |-> {}, stage |-> "next", failed |-> FALSE]

\* On Windows the identity is rechecked at the kill and children are in a job;
\* a process may be unidentifiable, or refuse to die, except in a clear world.
Windows == world = "windows"
Obscure == world # "clear"

TypeOK ==
    /\ world \in Worlds
    /\ proc \in [Pids -> [who : Owners, born : Nat \ {0}, up : BOOLEAN] \cup {Free}]
    /\ clock \in Nat
    /\ \A p \in Profiles :
          /\ record[p].browser \in Ids \cup {NoId} /\ record[p].xray \in Ids \cup {NoId}
          /\ record[p].browser = NoId => record[p] = NoRecord
          /\ (record[p].xray # NoId) = (record[p] # NoRecord /\ p \in Proxied)
          /\ table[p].how \in {"none", "starting", "spawned", "owned", "adopted"}
          /\ table[p].how = "none" => table[p] = NoSession
    /\ config \subseteq Proxied
    /\ mode \in {"off", "recover", "run", "release", "shutdown"}
    /\ todo \subseteq Profiles
    /\ job.p \in Profiles \cup {Nobody} /\ job.comps \subseteq Comps
    /\ job.stage \in {"next", "asked", "killed"}
    /\ purpose \subseteq Profiles

Recorded == {p \in Profiles : record[p] # NoRecord}
Sessions == {p \in Profiles : table[p].how \in {"owned", "adopted"}}
Starting == {p \in Profiles : table[p].how \in {"starting", "spawned"}}

\* The process an identity was captured from.
Alive(id) == id # NoId /\ proc[id.pid].up /\ proc[id.pid].born = id.born
Ours(p, c) == {pid \in Pids : proc[pid].up /\ proc[pid].who = <<p, c>>}

Init ==
    /\ world \in Worlds
    /\ proc = [pid \in Pids |-> Free] /\ clock = 0
    /\ record = [p \in Profiles |-> NoRecord] /\ config = {}
    /\ mode = "off" /\ table = [p \in Profiles |-> NoSession] /\ todo = {} /\ job = NoJob
    /\ bounds = [runs |-> 0, mishaps |-> 0, strangers |-> 0]
    /\ unresolved = {} /\ struck = {} /\ purpose = {} /\ excused = {} /\ orphaned = {}

-----------------------------------------------------------------------------
(* Processes.                                                               *)

Born(pid, who) ==
    /\ proc[pid] = Free /\ clock < Most[world].born
    /\ clock' = clock + 1 /\ UNCHANGED world
    /\ proc' = [proc EXCEPT ![pid] = [who |-> who, born |-> clock + 1, up |-> TRUE]]

\* A child whose handle is held keeps its pid until it is waited for.
Handles(p) == IF table[p].how = "adopted" THEN {}
              ELSE {table[p].browser, table[p].xray} \ {NoId}
Held(pid) == \E p \in Profiles : \E id \in Handles(p) : id.pid = pid

Without(S) == [pid \in Pids |-> IF pid \in S THEN Free ELSE proc[pid]]

StrangerAppears(pid) ==
    /\ Born(pid, Somebody)
    /\ bounds.strangers < Most[world].strangers
    /\ bounds' = [bounds EXCEPT !.strangers = @ + 1]
    /\ UNCHANGED <<files, mode, table, todo, job, unresolved, history>>

Dies(pid) ==
    /\ proc[pid].up
    /\ proc' = IF Held(pid) THEN [proc EXCEPT ![pid].up = FALSE] ELSE Without({pid})
    /\ UNCHANGED <<world, clock, files, mode, table, todo, job, bounds, unresolved, history>>

\* ProcessReading and verdict: absent, or the instance with the recorded start
\* time, or another one, unless nothing can be learned.
Describes(id) == proc[id.pid].born = id.born
Verdicts(id) ==
    IF id = NoId \/ ~proc[id.pid].up THEN {"gone"}
    ELSE {IF Describes(id) THEN "ours" ELSE "foreign"}
         \cup (IF Obscure THEN {"unreadable"} ELSE {})

-----------------------------------------------------------------------------
(* journal::stop, of one component after the other.                         *)

JobId == LET c == IF "browser" \in job.comps THEN "browser" ELSE "xray"
         IN  IF mode = "recover" THEN record[job.p][c] ELSE table[job.p][c]
Component(failed) ==
    job' = [job EXCEPT !.comps = @ \ {IF "browser" \in @ THEN "browser" ELSE "xray"},
                       !.stage = "next", !.failed = @ \/ failed]

\* The verdict is taken again before anything is asked of the process.
StopAsks ==
    /\ job.p # Nobody /\ job.comps # {} /\ job.stage = "next"
    /\ mode = "recover" \/ table[job.p].how = "adopted"
    /\ \E v \in Verdicts(JobId) :
          CASE v = "gone" -> Component(FALSE)
            [] v = "ours" -> job' = [job EXCEPT !.stage = "asked"]
            [] OTHER -> Component(TRUE)
    /\ UNCHANGED <<os, files, mode, table, todo, bounds, unresolved, history>>

StopGone_Unwaited ==
    /\ job.stage \in {"asked", "killed"}
    /\ Component(FALSE)
    /\ UNCHANGED <<os, files, mode, table, todo, bounds, unresolved, history>>

\* wait_gone: nothing answers to the pid any more.
StopGone ==
    /\ job.stage \in {"asked", "killed"} /\ ~proc[JobId.pid].up
    /\ Component(FALSE)
    /\ UNCHANGED <<os, files, mode, table, todo, bounds, unresolved, history>>

\* The grace is over.  On Unix the group that has the pid now is killed; on
\* Windows the start time is compared once more.
Killable_Unchecked == TRUE
Killable == Windows => Describes(JobId)

StopKills_OfOurs ==
    /\ job.stage = "asked" /\ Describes(JobId)
    /\ struck' = struck \cup ({proc[JobId.pid].who} \ ({job.p} \X Comps))
    /\ proc' = Without({JobId.pid})
    /\ job' = [job EXCEPT !.stage = "killed"]
    /\ UNCHANGED <<world, clock, files, mode, table, todo, bounds, unresolved, purpose, excused, orphaned>>
StopKills ==
    /\ job.stage = "asked" /\ proc[JobId.pid].up
    /\ IF Killable
       THEN \/ /\ struck' = struck \cup ({proc[JobId.pid].who} \ ({job.p} \X Comps))
               /\ proc' = Without({JobId.pid})
               /\ job' = [job EXCEPT !.stage = "killed"]
            \/ Obscure /\ Component(TRUE) /\ UNCHANGED <<struck, proc>>
       ELSE Component(TRUE) /\ UNCHANGED <<struck, proc>>
    /\ UNCHANGED <<world, clock, files, mode, table, todo, bounds, unresolved, purpose, excused, orphaned>>

\* Something still answers to the pid when the second grace is over.
StopSurvived ==
    /\ job.stage = "killed" /\ proc[JobId.pid].up
    /\ Component(TRUE)
    /\ UNCHANGED <<os, files, mode, table, todo, bounds, unresolved, history>>

\* terminate_owned: the handle is the authority.
StopOwned ==
    /\ job.p # Nobody /\ job.comps # {} /\ job.stage = "next"
    /\ mode # "recover" /\ table[job.p].how = "owned"
    /\ Component(FALSE)
    /\ proc' = IF JobId = NoId THEN proc ELSE Without({JobId.pid})
    /\ table' = IF "browser" \in job.comps THEN [table EXCEPT ![job.p].browser = NoId]
                ELSE [table EXCEPT ![job.p].xray = NoId]
    /\ UNCHANGED <<world, clock, files, mode, todo, bounds, unresolved, history>>

\* The config before the record: it is the record that leads to it.
RemoveFiles_RecordOnly(p) ==
    record' = [record EXCEPT ![p] = NoRecord] /\ UNCHANGED config
RemoveFiles(p) ==
    record' = [record EXCEPT ![p] = NoRecord] /\ config' = config \ {p}

\* Every component is gone, or the session stays and its files with it.
JobEnds ==
    /\ job.p # Nobody /\ job.comps = {} /\ job' = NoJob
    /\ todo' = todo \ {job.p}
    /\ IF job.failed
       THEN /\ unresolved' = IF mode = "recover" THEN unresolved \cup {job.p}
                             ELSE unresolved
            /\ UNCHANGED <<record, config, table, purpose>>
       ELSE /\ RemoveFiles(job.p)
            /\ purpose' = purpose \ {job.p}
            /\ table' = [table EXCEPT ![job.p] = NoSession]
            /\ UNCHANGED unresolved
    /\ UNCHANGED <<os, mode, bounds, struck, excused, orphaned>>

Stop == StopAsks \/ StopGone \/ StopKills \/ StopSurvived \/ StopOwned \/ JobEnds

-----------------------------------------------------------------------------
(* recover, before the first command.                                       *)

Boot ==
    /\ mode = "off" /\ bounds.runs < Most[world].runs
    /\ mode' = "recover" /\ todo' = Recorded
    /\ bounds' = [bounds EXCEPT !.runs = @ + 1]
    /\ UNCHANGED <<os, files, table, job, unresolved, history>>

\* install_adopted: the session is in the table again; its record still says
\* it was left running.
Adopt(p) ==
    table' = [table EXCEPT ![p] =
        [browser |-> record[p].browser, xray |-> record[p].xray,
         how |-> "adopted"]]

\* One record: reported and left alone when some component is somebody else's
\* or cannot be identified, removed when nothing runs, adopted when it is
\* marked, stopped otherwise.
RecoverWith(p, browser, xray) ==
    LET blocked == {browser, xray} \cap {"foreign", "unreadable"} # {}
        running == {c \in Comps : (IF c = "browser" THEN browser ELSE xray) = "ours"}
    IN  \/ /\ blocked
           /\ todo' = todo \ {p} /\ unresolved' = unresolved \cup {p}
           /\ UNCHANGED <<files, table, job, purpose>>
        \/ /\ ~blocked /\ running = {}
           /\ RemoveFiles(p)
           /\ todo' = todo \ {p} /\ purpose' = purpose \ {p}
           /\ UNCHANGED <<table, job, unresolved>>
        \/ /\ ~blocked /\ running # {} /\ record[p].left
           /\ Adopt(p) /\ todo' = todo \ {p}
           /\ UNCHANGED <<files, job, unresolved, purpose>>
        \/ /\ ~blocked /\ running # {} /\ ~record[p].left
           /\ job' = [p |-> p, comps |-> running, stage |-> "next", failed |-> FALSE]
           /\ UNCHANGED <<files, table, todo, unresolved, purpose>>

RecoverOne(p) ==
    /\ mode = "recover" /\ job = NoJob /\ p \in todo
    /\ \E browser \in Verdicts(record[p].browser), xray \in Verdicts(record[p].xray) :
          RecoverWith(p, browser, xray)
    /\ UNCHANGED <<os, mode, bounds, struck, excused, orphaned>>

RecoverEnds ==
    /\ mode = "recover" /\ todo = {} /\ job = NoJob
    /\ mode' = "run"
    /\ UNCHANGED <<os, files, table, todo, job, bounds, unresolved, history>>

Recover == Boot \/ RecoverEnds \/ \E p \in Profiles : RecoverOne(p)

-----------------------------------------------------------------------------
(* Sessions of a run.                                                       *)

Calm == mode = "run" /\ job = NoJob

\* begin_attempt up to the spawn of Xray: the credentials are written first.
StartXray(p) ==
    /\ Calm /\ Starting = {} /\ table[p].how = "none" /\ p \in Proxied
    /\ \E pid \in Pids :
          /\ Born(pid, <<p, "xray">>)
          /\ table' = [table EXCEPT ![p] = [browser |-> NoId, how |-> "starting",
                          xray |-> [pid |-> pid, born |-> clock + 1]]]
    /\ config' = config \cup {p}
    /\ UNCHANGED <<record, mode, todo, job, bounds, unresolved, history>>

SpawnBrowser(p) ==
    /\ Calm
    /\ \/ p \in Proxied /\ table[p].how = "starting" /\ table[p].browser = NoId
       \/ p \notin Proxied /\ Starting = {} /\ table[p].how = "none"
    /\ \E pid \in Pids :
          /\ Born(pid, <<p, "browser">>)
          /\ table' = [table EXCEPT ![p] = [browser |-> [pid |-> pid, born |-> clock + 1],
                          xray |-> table[p].xray, how |-> "starting"]]
    /\ UNCHANGED <<files, mode, todo, job, bounds, unresolved, history>>

RecordOf_BrowserOnly(p) == [browser |-> table[p].browser, xray |-> NoId, left |-> FALSE]
RecordOf(p) == [browser |-> table[p].browser, xray |-> table[p].xray, left |-> FALSE]
Named(r) == {id.pid : id \in {r.browser, r.xray} \ {NoId}}

\* A write that fails is a warning; what was there before stays until the
\* session ends, or its start fails.  Nothing looks at what was there.
Lost(p) == IF p \in unresolved THEN {<<p, id>> : id \in {record[p].browser, record[p].xray}}
           ELSE {}
WriteRecord(p) ==
    /\ Calm /\ table[p].how = "starting" /\ table[p].browser # NoId
    /\ table' = [table EXCEPT ![p].how = "spawned"]
    /\ \/ record' = [record EXCEPT ![p] = RecordOf(p)] /\ UNCHANGED excused
       \/ WritesFail /\ excused' = excused \cup {<<p, table[p].browser>>, <<p, table[p].xray>>}
          /\ UNCHANGED record
    /\ orphaned' = orphaned \cup Lost(p)
    /\ UNCHANGED <<os, config, mode, todo, job, bounds, unresolved, struck, purpose>>

StartSucceeds(p) ==
    /\ Calm /\ table[p].how = "spawned"
    /\ table' = [table EXCEPT ![p].how = "owned"] /\ purpose' = purpose \ {p}
    /\ UNCHANGED <<os, files, mode, todo, job, bounds, unresolved, struck, excused, orphaned>>

\* StartAttempt::drop: children, config, and whatever record is there once the
\* write was tried.
Rollback(p) == record' = IF table[p].how = "spawned"
                         THEN [record EXCEPT ![p] = NoRecord] ELSE record

StartFails(p) ==
    /\ Calm /\ p \in Starting
    /\ proc' = Without(Named(table[p]))
    /\ config' = config \ {p}
    /\ Rollback(p)
    /\ table' = [table EXCEPT ![p] = NoSession]
    /\ UNCHANGED <<world, clock, mode, todo, job, bounds, unresolved, history>>

\* A stop, or a poll that found a component gone.
StopSession(p) ==
    /\ \/ Calm
       \/ mode = "shutdown" /\ job = NoJob /\ p \in todo
    /\ p \in Sessions
    /\ mode = "run" => Starting = {}
    /\ job' = [p |-> p, comps |-> {c \in Comps : table[p][c] # NoId}, stage |-> "next",
               failed |-> FALSE]
    /\ UNCHANGED <<os, files, mode, table, todo, bounds, unresolved, history>>

Session == \E p \in Profiles :
    \/ StartXray(p) \/ SpawnBrowser(p) \/ WriteRecord(p) \/ StartSucceeds(p)
    \/ StartFails(p) \/ StopSession(p)

-----------------------------------------------------------------------------
(* The ends of a run.                                                       *)

Leave(how) ==
    /\ Calm /\ Starting = {}
    /\ mode' = how /\ todo' = Sessions
    /\ UNCHANGED <<os, files, table, job, bounds, unresolved, history>>

\* mark_left_running and the release of the handles, of one session.  A record
\* that is missing or cannot be rewritten is left as it is.
Mark_Unread(p) == record' = [record EXCEPT ![p].left = TRUE] /\ purpose' = purpose \cup {p}
Mark_Forgotten(p) == UNCHANGED record /\ purpose' = purpose \cup {p}
Mark(p) ==
    IF record[p] = NoRecord THEN UNCHANGED <<record, purpose>>
    ELSE \/ record' = [record EXCEPT ![p].left = TRUE] /\ purpose' = purpose \cup {p}
         \/ WritesFail /\ UNCHANGED <<record, purpose>>

\* Giving a handle up also lets go of the pid of a child that is dead.
LetGo(p) == proc' = Without({pid \in Named(table[p]) : ~proc[pid].up})

ReleaseOne(p) ==
    /\ mode = "release" /\ p \in todo
    /\ Mark(p) /\ LetGo(p)
    /\ todo' = todo \ {p} /\ table' = [table EXCEPT ![p] = NoSession]
    /\ UNCHANGED <<world, clock, config, mode, job, bounds, unresolved, struck, excused, orphaned>>

LeaveEnds ==
    /\ mode \in {"release", "shutdown"} /\ todo = {} /\ job = NoJob
    /\ mode' = "off" /\ table' = [p \in Profiles |-> NoSession] /\ unresolved' = {}
    /\ UNCHANGED <<os, files, todo, job, bounds, history>>

\* Killed outright.  The children survive, except those in a Windows job.
Ended == IF Windows THEN UNION {Named(table[p]) : p \in {q \in Profiles : Handles(q) # {}}}
         ELSE {pid \in Pids : Held(pid) /\ ~proc[pid].up}

Crash ==
    /\ mode # "off" /\ bounds.mishaps < Most[world].mishaps
    /\ bounds' = [bounds EXCEPT !.mishaps = @ + 1]
    /\ proc' = Without(Ended)
    /\ mode' = "off" /\ table' = [p \in Profiles |-> NoSession] /\ todo' = {} /\ job' = NoJob
    /\ unresolved' = {}
    /\ excused' = excused \cup {<<p, id>> : p \in {q \in Profiles : table[q].how = "starting"},
                                            id \in UNION {Handles(q) : q \in Starting}}
    /\ purpose' = purpose \ {p \in Profiles : table[p].how # "none"}
    /\ UNCHANGED <<world, clock, files, struck, orphaned>>

\* The machine restarts: every process ends; on Linux the ticks start over.
Reboot ==
    /\ bounds.mishaps < Most[world].mishaps
    /\ bounds' = [bounds EXCEPT !.mishaps = @ + 1]
    /\ proc' = [pid \in Pids |-> Free] /\ clock' = IF Windows THEN clock ELSE 0
    /\ mode' = "off" /\ table' = [p \in Profiles |-> NoSession] /\ todo' = {} /\ job' = NoJob
    /\ unresolved' = {}
    /\ excused' = {<<p, NoId>> : p \in {e[1] : e \in excused} \cup Starting} /\ purpose' = {}
    /\ orphaned' = {}
    /\ UNCHANGED <<world, files, struck>>

Exit == Leave("release") \/ Leave("shutdown") \/ LeaveEnds \/ \E p \in Profiles : ReleaseOne(p)
Mishap == Crash \/ Reboot \/ \E pid \in Pids : StrangerAppears(pid) \/ Dies(pid)

Program == Recover \/ Stop \/ Session \/ Exit
Next == Program \/ Mishap

\* The recovery runs on the thread that starts the program; every wait of a
\* stop has a deadline.
Spec == Init /\ [][Next]_vars /\ WF_vars(Stop \/ RecoverEnds \/ \E p \in Profiles : RecoverOne(p))

-----------------------------------------------------------------------------
(* Properties.                                                              *)

\* Nobody's process is killed in the place of one that was recorded, however
\* pids are reused between and during runs, where the identity is rechecked.
OnlyOurs == Windows => struck = {}

\* The temporary config holds credentials: when no run, record or lost engine
\* answers for it, it is gone.
NoStrayCredentials ==
    \A p \in config :
        \/ table[p].how # "none" \/ p \in Recorded
        \/ \E e \in excused : e[1] = p

\* Every live process of ours is in the table or named, instance and all, by
\* the record the next recovery reads; the only ones that are not are those a
\* crash took before their record, those whose record could not be written, and
\* those whose record the recovery left and the profile's next start wrote over.
\* What is killed on the strength of a record is what it names, and the
\* credentials go with the last thing that answers for them.
Accounted(p, c, pid) ==
    LET id == [pid |-> pid, born |-> proc[pid].born]
    IN  table[p][c] = id \/ record[p][c] = id \/ <<p, id>> \in excused \cup orphaned
CustodyKept ==
    /\ TypeOK
    /\ OnlyOurs
    /\ NoStrayCredentials
    /\ ~Obscure =>
        \A p \in Profiles, c \in Comps : \A pid \in Ours(p, c) : Accounted(p, c, pid)

\* A record is removed only when nothing it names is left to find: not before
\* its processes are gone, and by a start that fails over an older one only when
\* the recovery had reported that one and left it.
RecordOutlivesProcess ==
    [][\A p \in Profiles : ~Obscure /\ p \in Recorded /\ record'[p] = NoRecord =>
          \A id \in {record[p].browser, record[p].xray} :
              id # NoId /\ <<p, id>> \notin orphaned /\ proc[id.pid].up
              /\ proc[id.pid].who \in {p} \X Comps =>
                  ~(proc[id.pid].born = id.born
                    /\ proc'[id.pid] = proc[id.pid])]_vars

\* A session left on purpose is not stopped by the recovery of the next run.
PurposeHonoured == mode = "recover" /\ job.p # Nobody => job.p \notin purpose

\* The recovery reaches the first command.
RecoveryEnds == mode = "recover" ~> mode # "recover"

-----------------------------------------------------------------------------
(* What the repository says of the journal and its code does not do.        *)

\* "what a record left by a crash means" (journal.rs:84) decides that the next
\* start stops the session: a session a crash left is never adopted.
CrashIsReclaimed ==
    [][\A p \in Profiles : table[p].how = "none" /\ table'[p].how = "adopted" =>
          p \in purpose]_vars

\* "the record stays readable either way" (journal.rs:18): a record that names a
\* live process is never written over by one that does not.
RecordStays ==
    [][\A p \in Profiles, c \in Comps :
          Alive(record[p][c]) /\ Alive(record[p][c])' /\ record'[p] # NoRecord
             => record'[p][c] = record[p][c]]_vars

\* "otherwise leave a browser running that no later run can find"
\* (start.rs:392): what a crash leaves running is named by a record.
CrashLeavesRecord == excused = {}

\* "nothing else can be the process this record captured" (journal.rs:436): who
\* has the recorded pid and start time is whom the record is about.
SameInstance ==
    \A p \in Profiles, c \in Comps :
        Alive(record[p][c]) => proc[record[p][c].pid].who = <<p, c>>

=============================================================================
