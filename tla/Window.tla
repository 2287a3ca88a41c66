--------------------------------- MODULE Window --------------------------------
(***************************************************************************)
(* The window's state: what a click starts, what holds a profile meanwhile,    *)
(* and the answers that come back from workers (crates/app/src/state,          *)
(* ui/workers.rs, maintenance.rs; crates/application/src/operations.rs,        *)
(* coordination.rs, runtime_service.rs).  Everything here is one thread's,     *)
(* except the workers: a proxy test, a verification, a browser-data copy and   *)
(* a maintenance task answer whenever they like, or never.  The supervisor     *)
(* thread (module Supervisor) is seen through the commands sent to it and the  *)
(* snapshot it publishes.                                                      *)
(*                                                                         *)
(* Every handler that refreshes the rows refreshes them here too (Refreshed).  *)
(***************************************************************************)
EXTENDS Integers, Sequences, FiniteSets, SequencesExt, Functions

CONSTANTS
    Profiles,
    Proxies,
    Direct,       \* a profile without a proxy; also: nothing pending
    QueueCap,     \* the command channel's capacity
    MaxClicks     \* bound: what the user does, in all

ASSUME WindowAssumption ==
    /\ Direct \notin Proxies /\ IsFiniteSet(Profiles)
    /\ QueueCap \in Nat \ {0} /\ MaxClicks \in Nat

Exits == Proxies \cup {Direct}
Hows == {"start", "restart"}
Configurations == UNION {[S -> Exits] : S \in SUBSET Profiles}
NoReading == [task |-> 0, of |-> 0]
NoPending == [proxy |-> Direct, how |-> "start"]

VARIABLES
    stored,    \* the profiles in storage, each with the proxy it leaves by
    rows,      \* the same, as the window last read them
    def,       \* the proxies in storage: a definition's number, 0 when there is none
    lease,     \* Operations: what each profile is held for
    pending,   \* the starts that wait for a proxy's answer
    queued,    \* the starts sent and not acknowledged, by request number
    tests,     \* proxy_tests with proxy_tasks: the task under way for each proxy, or 0
    readings,  \* verifications with verification_tasks, and the session each is about
    jobs,      \* the workers: proxy tests and verifications in flight
    copying,   \* the profiles a browser-data copy's Held carries
    job,       \* the maintenance marker and its worker
    inbox,     \* the command channel
    launch,    \* the start the supervisor is busy with, or None
    session,   \* the published snapshots
    count,     \* the numbers given to starts, tests and readings
    clicks,    \* bound
    orphans    \* history: profiles deleted while their browser ran

window == <<rows, lease, pending, queued, tests, readings, job>>
vars == <<stored, def, window, jobs, copying, inbox, launch, session, count, clicks, orphans>>
runtime == <<inbox, launch, session>>

None == [kind |-> "none"]
Tested == [proxy : Exits, def : Nat]
Unasked == [proxy |-> Direct, def |-> 0]
Commands == [kind : Hows, id : Profiles, request : Nat, through : Tested, asked : Tested]
            \cup [kind : {"stop"}, id : Profiles]

TypeOK ==
    /\ stored \in Configurations /\ rows \in Configurations
    /\ def \in [Proxies -> Nat]
    /\ lease \in [Profiles -> {"none", "starting", "copying"}]
    /\ pending \in [Profiles -> [proxy : Exits, how : Hows]]
    /\ queued \in [Profiles -> Nat]
    /\ tests \in [Proxies -> Nat]
    /\ readings \in [Profiles -> [task : Nat, of : Nat]]
    /\ jobs \subseteq [kind : {"test"}, task : Nat, proxy : Proxies, asked : Tested]
               \cup [kind : {"reading"}, task : Nat, id : Profiles, of : Nat]
    /\ copying \in SUBSET Profiles
    /\ job \in [kind : {"none", "import", "restore"}, at : {"worker", "answered"}]
    /\ inbox \in Seq(Commands) /\ Len(inbox) <= QueueCap
    /\ launch \in Commands \cup {None}
    /\ session \in [Profiles -> [state : {"down", "moving", "running"}, ack : Nat,
                                 through : Tested]]
    /\ count \in [starts : Nat, tests : Nat, readings : Nat] /\ clicks \in 0..MaxClicks
    /\ orphans \subseteq Profiles

Init ==
    /\ stored \in [Profiles -> Exits] /\ rows = stored
    /\ def = [x \in Proxies |-> 1]
    /\ lease = [p \in Profiles |-> "none"]
    /\ pending = [p \in Profiles |-> NoPending]
    /\ queued = [p \in Profiles |-> 0]
    /\ tests = [x \in Proxies |-> 0] /\ readings = [p \in Profiles |-> NoReading]
    /\ jobs = {} /\ copying = {} /\ job = [kind |-> "none", at |-> "answered"]
    /\ inbox = <<>> /\ launch = None
    /\ session = [p \in Profiles |-> [state |-> "down", ack |-> 0, through |-> Unasked]]
    /\ count = [starts |-> 0, tests |-> 0, readings |-> 0] /\ clicks = 0
    /\ orphans = {}

-----------------------------------------------------------------------------
(* Leases.  The installation's is derived: exclusive from the click of a restore *)
(* to the end of its worker, shared for as long as a copy runs, and for the      *)
(* length of a call by everything that writes, which nothing here interrupts.    *)

Exclusive == job.kind = "restore" /\ job.at = "worker"
Shared == copying # {}

Waiting == {p \in Profiles : pending[p].proxy # Direct}
Queued == {p \in Profiles : queued[p] # 0}
Running(p) == session[p].state = "running"
Active(p) == p \in Waiting \cup Queued \/ session[p].state # "down"
ActiveRows == {p \in DOMAIN rows : Active(p)}

\* Operations::free: matched by operation.
Freed(l, S) == [p \in Profiles |-> IF p \in S /\ l[p] = "starting" THEN "none" ELSE l[p]]

Without(pe, S) == [p \in Profiles |-> IF p \in S THEN NoPending ELSE pe[p]]

\* refresh_runtime at the end of a handler that left pe, qu and le: what the
\* supervisor acknowledged is given back, and a check older than CHECK_LEASE is
\* called off; one that this handler made is not that old.
Acknowledged_AnyAnswer(qu) == {p \in DOMAIN rows : qu[p] # 0 /\ session[p].state # "moving"}
Acknowledged(qu) == {p \in DOMAIN rows : qu[p] # 0 /\ session[p].ack >= qu[p]}
Expired_Never(pe) == {{}}
Expired(pe) == SUBSET {p \in Profiles : pe[p].proxy # Direct /\ pe[p] = pending[p]}
Refreshed(pe, qu, le) ==
    \E late \in Expired(pe) :
        /\ pending' = Without(pe, late)
        /\ queued' = [p \in Profiles |-> IF p \in Acknowledged(qu) THEN 0 ELSE qu[p]]
        /\ lease' = Freed(le, late \cup Acknowledged(qu))

\* drain_events, and the tick's own refresh_runtime.
Tick ==
    /\ Refreshed(pending, queued, lease)
    /\ UNCHANGED <<stored, def, rows, tests, readings, job, jobs, copying, runtime, count, orphans>>

-----------------------------------------------------------------------------
(* Opening a profile *)

\* RuntimeService::launch_params: the records as storage holds them now.
Through(p) == [proxy |-> stored[p], def |-> IF stored[p] = Direct THEN 0 ELSE def[stored[p]]]
Launchable(p) == p \in DOMAIN stored

\* try_send refuses what the channel has no room for.
Room_Unbounded == QueueCap + 1
Room == QueueCap - Len(inbox)

\* queue_opening of a set of profiles, one after another, each with the lease it
\* holds: the commands the channel takes, and the leases of those it refuses.
Send(S, how, asked) ==
    \E able \in SetToSeqs({p \in S : Launchable(p)}) :
        LET sent == IF Len(able) <= Room THEN able ELSE SubSeq(able, 1, Room)
            number == [p \in Range(sent) |-> count.starts + CHOOSE i \in 1..Len(sent) : sent[i] = p]
        IN  /\ count' = [count EXCEPT !.starts = @ + Len(sent)]
            /\ inbox' = inbox \o [i \in 1..Len(sent) |->
                   [kind |-> how[sent[i]], id |-> sent[i], request |-> number[sent[i]],
                    through |-> Through(sent[i]), asked |-> asked]]
            /\ readings' = [p \in Profiles |-> IF p \in Range(sent) /\ how[p] = "restart"
                                               THEN NoReading ELSE readings[p]]
            /\ Refreshed(Without(pending, S),
                         [p \in Profiles |-> IF p \in Range(sent) THEN number[p] ELSE queued[p]],
                         Freed([p \in Profiles |-> IF p \in S THEN "starting" ELSE lease[p]],
                               S \ Range(sent)))

\* begin_starting: a shared lease for the call, and the profile's.
MayStart(p) == ~Exclusive /\ lease[p] = "none"

\* begin_opening, nothing to ask.
OpenDirect(p, how) ==
    /\ MayStart(p) /\ p \in DOMAIN rows /\ rows[p] = Direct
    /\ Send({p}, [q \in {p} |-> how], Unasked)
    /\ UNCHANGED <<stored, def, rows, tests, job, jobs, copying, launch, session, orphans>>

\* live_port_for: an engine that is up for a profile of this proxy is asked
\* instead of a new one, and forwards where it did when it was started.
Engines(x) == {session[q].through : q \in {q \in DOMAIN rows : Running(q) /\ rows[q] = x}} \ {Unasked}
Asks(x) == IF Engines(x) = {} THEN {[proxy |-> x, def |-> def[x]]} ELSE Engines(x)

\* begin_proxy_test.
Testable(x) == tests[x] = 0 /\ def[x] # 0
BeginTest(x) ==
    /\ Testable(x)
    /\ count' = [count EXCEPT !.tests = @ + 1]
    /\ tests' = [tests EXCEPT ![x] = count.tests + 1]
    /\ \E asked \in Asks(x) :
          jobs' = jobs \cup {[kind |-> "test", task |-> count.tests + 1, proxy |-> x, asked |-> asked]}

\* begin_opening of a profile with a proxy: it waits for the test that is under
\* way or for one of its own; a proxy that cannot be tested gives it back at once.
OpenProxied(p, how) ==
    /\ MayStart(p) /\ p \in DOMAIN rows /\ rows[p] # Direct
    /\ \/ tests[rows[p]] # 0 /\ UNCHANGED <<tests, jobs, count>>
       \/ BeginTest(rows[p])
    /\ pending' = [pending EXCEPT ![p] = [proxy |-> rows[p], how |-> how]]
    /\ lease' = [lease EXCEPT ![p] = "starting"]
    /\ UNCHANGED <<stored, def, rows, queued, readings, job, copying, runtime, orphans>>

OnTest(x) ==
    /\ BeginTest(x)
    /\ UNCHANGED <<stored, def, rows, lease, pending, queued, readings, job, copying, runtime, orphans>>

\* complete_proxy_test and finish_proxy_test: an answer nobody asked for any more
\* is dropped; the others decide the starts that waited for them.  A worker that
\* dies never answers.
Answers(j, x) == tests[x] = j.task
TestAnswered(j) ==
    LET x == j.proxy
        waiting == {p \in Profiles : pending[p].proxy = x}
    IN  /\ j \in jobs /\ j.kind = "test"
        /\ jobs' = jobs \ {j}
        /\ \/ ~Answers(j, x) /\ UNCHANGED <<pending, queued, lease, tests, readings, count, inbox>>
           \/ /\ Answers(j, x)
              /\ tests' = [tests EXCEPT ![x] = 0]
              /\ \/ Send(waiting, [p \in waiting |-> pending[p].how], j.asked)
                 \/ /\ pending' = Without(pending, waiting)
                    /\ lease' = Freed(lease, waiting)
                    /\ UNCHANGED <<queued, readings, count, inbox>>
        /\ UNCHANGED <<stored, def, rows, job, copying, launch, session, orphans>>

\* stop: a start that waits is called off; anything else is the supervisor's.
OnStop(p) ==
    /\ \/ /\ p \in Waiting
          /\ Refreshed(Without(pending, {p}), queued, Freed(lease, {p}))
          /\ UNCHANGED <<readings, inbox>>
       \/ /\ p \notin Waiting /\ Room > 0
          /\ inbox' = Append(inbox, [kind |-> "stop", id |-> p])
          /\ readings' = [readings EXCEPT ![p] = NoReading]
          /\ Refreshed(pending, queued, lease)
    /\ UNCHANGED <<stored, def, rows, tests, job, jobs, copying, launch, session, count, orphans>>

-----------------------------------------------------------------------------
(* Verification *)

\* begin_verification, with the session the row shows.
OnVerify(p) ==
    /\ p \in DOMAIN rows /\ Running(p) /\ readings[p].task = 0
    /\ count' = [count EXCEPT !.readings = @ + 1]
    /\ readings' = [readings EXCEPT ![p] = [task |-> count.readings + 1, of |-> 0]]
    /\ jobs' = jobs \cup {[kind |-> "reading", task |-> count.readings + 1, id |-> p,
                           of |-> session[p].ack]}
    /\ UNCHANGED <<stored, def, rows, lease, pending, queued, tests, job, copying, runtime, orphans>>

\* complete_verification: the reading is kept when it is the one asked for last
\* and the browser it was read from still runs.
Current_Running(j) == Running(j.id)
Current(j) == Running(j.id) /\ session[j.id].ack = j.of
ReadingAnswered(j) ==
    /\ j \in jobs /\ j.kind = "reading"
    /\ jobs' = jobs \ {j}
    /\ readings' = IF readings[j.id].task # j.task THEN readings
                   ELSE [readings EXCEPT ![j.id] =
                            IF Current(j) THEN [task |-> 0, of |-> j.of] ELSE NoReading]
    /\ UNCHANGED <<stored, def, rows, lease, pending, queued, tests, job, copying, runtime, count,
                   orphans>>

-----------------------------------------------------------------------------
(* Records.  Each call takes a shared lease, and is refused during a restore. *)

\* A profile names no proxy that is not stored: the database refuses it.
Known(x, d) == x # Direct => d[x] # 0

\* delete_profile: refused while a start is queued, not while a browser runs.
Deletable_Queued(p) == ~Exclusive
Deletable(p) == ~Exclusive /\ p \notin Queued
OnDelete(p) ==
    /\ p \in DOMAIN stored /\ Deletable(p)
    /\ stored' = Restrict(stored, DOMAIN stored \ {p})
    /\ rows' = stored'
    /\ readings' = [readings EXCEPT ![p] = NoReading]
    /\ Refreshed(Without(pending, {p}), queued, IF p \in Waiting THEN Freed(lease, {p}) ELSE lease)
    /\ orphans' = IF session[p].state = "down" THEN orphans ELSE orphans \cup {p}
    /\ UNCHANGED <<def, tests, job, jobs, copying, runtime, count>>

\* update_profile, with the proxy the form chose.
OnSaveProfile(p, x) ==
    /\ p \in DOMAIN stored /\ ~Exclusive /\ stored[p] # x
    /\ Known(x, def)
    /\ stored' = [stored EXCEPT ![p] = x] /\ rows' = stored'
    /\ readings' = [readings EXCEPT ![p] = NoReading]
    /\ Refreshed(pending, queued, lease)
    /\ UNCHANGED <<def, tests, job, jobs, copying, runtime, count, orphans>>

\* forget_proxy_test, which calls off the starts that wait for it.
Forgets(x) ==
    LET waiting == {p \in Profiles : pending[p].proxy = x}
    IN  /\ tests' = [tests EXCEPT ![x] = 0]
        /\ pending' = Without(pending, waiting) /\ lease' = Freed(lease, waiting)

\* update_proxy, and delete_proxy, which a profile's use of it refuses.
OnSaveProxy(x) ==
    /\ ~Exclusive /\ def[x] # 0
    /\ def' = [def EXCEPT ![x] = @ + 1]
    /\ Forgets(x)
    /\ UNCHANGED <<stored, rows, queued, readings, job, jobs, copying, runtime, count, orphans>>
OnDeleteProxy(x) ==
    /\ ~Exclusive /\ def[x] # 0 /\ x \notin Range(stored)
    /\ def' = [def EXCEPT ![x] = 0]
    /\ Forgets(x)
    /\ UNCHANGED <<stored, rows, queued, readings, job, jobs, copying, runtime, count, orphans>>

-----------------------------------------------------------------------------
(* The whole installation *)

\* begin_import only takes the marker; begin_export and begin_redetect do the
\* same, for workers that change none of this, and are not told apart from it.
Begins(kind) ==
    /\ job.kind = "none"
    /\ job' = [kind |-> kind, at |-> "worker"]
    /\ UNCHANGED <<stored, def, rows, tests, readings, jobs, copying, runtime, count, orphans>>
OnImport == Begins("import") /\ UNCHANGED <<lease, pending, queued>>

\* begin_restore.
Idle == ActiveRows = {} /\ \A p \in Profiles : lease[p] = "none"
OnRestore ==
    /\ Idle /\ ~Exclusive /\ ~Shared
    /\ Begins("restore") /\ Refreshed(pending, queued, lease)

\* run_import adds the records the file has and storage has not, one call at a
\* time, each under a shared lease; run_restore replaces them all at once.
ImportAdds(p, x) ==
    /\ job = [kind |-> "import", at |-> "worker"] /\ p \notin DOMAIN stored
    /\ Known(x, def)
    /\ stored' = [q \in DOMAIN stored \cup {p} |-> IF q = p THEN x ELSE stored[q]]
    /\ UNCHANGED <<def, window, jobs, copying, runtime, count, orphans>>
Redefined == {d \in [Proxies -> UNION {{0, def[x], def[x] + 1} : x \in Proxies}] :
                 \A x \in Proxies : d[x] \in {0, def[x], def[x] + 1}}
RunRestore ==
    /\ job = [kind |-> "restore", at |-> "worker"]
    /\ \E d \in Redefined, c \in Configurations :
          /\ \A p \in DOMAIN c : Known(c[p], d)
          /\ stored' = c /\ def' = d
    /\ job' = [job EXCEPT !.at = "answered"]
    /\ UNCHANGED <<rows, lease, pending, queued, tests, readings, jobs, copying, runtime, count,
                   orphans>>

\* A worker ends, with its work done, refused or failed: a restore's lease goes
\* with it, before its answer is applied.
WorkDone ==
    /\ job.kind # "none" /\ job.at = "worker"
    /\ job' = [job EXCEPT !.at = "answered"]
    /\ UNCHANGED <<stored, def, rows, lease, pending, queued, tests, readings, jobs, copying,
                   runtime, count, orphans>>

\* finish_maintenance: rows are read again after an import or a restore, and a
\* restore's answer forgets what was known of the proxies and the browsers.
Finish ==
    /\ job.kind # "none" /\ job.at = "answered"
    /\ job' = [job EXCEPT !.kind = "none"]
    /\ rows' = stored
    /\ \/ job.kind = "restore" /\ tests' = [x \in Proxies |-> 0]
          /\ readings' = [p \in Profiles |-> NoReading]
       \/ UNCHANGED <<tests, readings>>
    /\ UNCHANGED <<stored, def, lease, pending, queued, jobs, copying, runtime, count, orphans>>

\* browser_data_job: every stored profile, or none.
OnCopy ==
    /\ ~Exclusive /\ copying = {} /\ DOMAIN stored # {}
    /\ ActiveRows = {} /\ \A p \in DOMAIN stored : lease[p] = "none"
    /\ copying' = DOMAIN stored
    /\ lease' = [p \in Profiles |-> IF p \in DOMAIN stored THEN "copying" ELSE lease[p]]
    /\ UNCHANGED <<stored, def, rows, pending, queued, tests, readings, job, jobs, runtime, count,
                   orphans>>

\* The worker drops its Held when the copy returned, failed or panicked.
CopyEnds ==
    /\ copying # {} /\ copying' = {}
    /\ lease' = [p \in Profiles |-> IF p \in copying /\ lease[p] = "copying" THEN "none" ELSE lease[p]]
    /\ UNCHANGED <<stored, def, rows, pending, queued, tests, readings, job, jobs, runtime, count,
                   orphans>>

-----------------------------------------------------------------------------
(* The supervisor thread, as the window can see it *)

Put(p, state, ack, through) ==
    session' = [session EXCEPT ![p] = [state |-> state, through |-> through,
                                       ack |-> IF ack > @.ack THEN ack ELSE @.ack]]
Undisturbed == UNCHANGED <<stored, def, window, jobs, copying, count, orphans>>

\* A command is taken when no start is under way; a second start of a running
\* profile is only acknowledged.
Take ==
    /\ inbox # <<>> /\ launch = None
    /\ inbox' = Tail(inbox)
    /\ LET c == Head(inbox) IN
       \/ /\ c.kind = "stop" /\ UNCHANGED launch
          /\ Put(c.id, "down", 0, Unasked)
       \/ /\ c.kind = "start" /\ Running(c.id) /\ UNCHANGED launch
          /\ Put(c.id, "running", c.request, session[c.id].through)
       \/ /\ c.kind = "restart" \/ (c.kind = "start" /\ ~Running(c.id))
          /\ launch' = c /\ Put(c.id, "moving", 0, Unasked)
    /\ Undisturbed

\* A start is decided, or called off by the stop behind it.
Decide ==
    /\ launch # None /\ launch' = None
    /\ \/ Put(launch.id, "running", launch.request, launch.through) /\ UNCHANGED inbox
       \/ Put(launch.id, "down", launch.request, Unasked) /\ UNCHANGED inbox
       \/ /\ inbox # <<>> /\ Head(inbox) = [kind |-> "stop", id |-> launch.id]
          /\ inbox' = Tail(inbox) /\ Put(launch.id, "down", launch.request, Unasked)
    /\ Undisturbed

BrowserEnds(p) ==
    /\ Running(p) /\ Put(p, "down", 0, Unasked)
    /\ UNCHANGED <<inbox, launch>> /\ Undisturbed

Thread == Take \/ Decide \/ \E p \in Profiles : BrowserEnds(p)

-----------------------------------------------------------------------------

\* What can be clicked; rows that are out of date disable nothing here.
OpenProfile(p) == \E how \in Hows : OpenDirect(p, how) \/ OpenProxied(p, how)
RowMenu(p) == OnStop(p) \/ OnDelete(p) \/ OnVerify(p)
ProfileForm(p) == \E x \in Exits : OnSaveProfile(p, x)
ProxyMenu(x) == OnTest(x) \/ OnDeleteProxy(x)
ProxyForm(x) == OnSaveProxy(x)
Settings == OnImport \/ OnRestore \/ OnCopy

\* The queues the tick drains, and the workers that fill them.
Workers ==
    \/ \E j \in jobs : TestAnswered(j) \/ ReadingAnswered(j)
    \/ \E p \in Profiles, x \in Exits : ImportAdds(p, x)
    \/ RunRestore \/ WorkDone \/ CopyEnds \/ Finish

User ==
    /\ clicks < MaxClicks /\ clicks' = clicks + 1
    /\ \/ \E p \in Profiles : OpenProfile(p) \/ RowMenu(p) \/ ProfileForm(p)
       \/ \E x \in Proxies : ProxyMenu(x) \/ ProxyForm(x)
       \/ Settings
Next == User \/ (UNCHANGED clicks /\ (Workers \/ Tick \/ Thread))

\* The tick comes every second, with a check's age among what it looks at; the
\* supervisor decides what it was sent; a maintenance worker, which only reads and
\* writes local files, ends, and its answer is drained.  No other worker is trusted
\* to answer.
TimesOut == \A p \in Waiting : pending'[p] = NoPending
Spec == /\ Init /\ [][Next]_vars
        /\ WF_vars(UNCHANGED clicks /\ Take) /\ WF_vars(UNCHANGED clicks /\ Decide)
        /\ WF_vars(UNCHANGED clicks /\ Tick /\ TimesOut)
        /\ WF_vars(UNCHANGED clicks /\ (WorkDone \/ Finish))

-----------------------------------------------------------------------------
(* Properties *)

\* A copy never meets a browser, a start or a restore at work on its profiles,
\* and a restore never meets any of them: not the ones whose start is only in
\* the queue either.  A profile deleted while its browser ran is out of sight.
Untouched(p) ==
    /\ session[p].state = "down" /\ (launch # None => launch.id # p)
    /\ \A i \in 1..Len(inbox) : inbox[i].kind \in Hows => inbox[i].id # p
CopyIsAlone ==
    /\ copying # {} => ~Exclusive /\ \A p \in copying \ orphans : Untouched(p)
    /\ Exclusive => \A p \in Profiles \ orphans : Untouched(p)

\* A profile is held for a start exactly while one waits for its proxy or for
\* the supervisor, and for a copy exactly while the copy runs: no error path,
\* cancellation or late answer leaks a lease or gives away somebody else's; and
\* the leases do what they are for.
LeaseMatchesWork ==
    /\ TypeOK
    /\ CopyIsAlone
    /\ \A p \in Profiles : lease[p] = "starting" <=> p \in Waiting \cup Queued
    /\ \A p \in Profiles : lease[p] = "copying" <=> p \in copying
    /\ Waiting \cap Queued = {} /\ Queued \subseteq DOMAIN stored

\* A reading lands on a row only while the browser it was read from runs: not
\* the one before it, however late the worker answers.
ReadingFits ==
    [][\A p \in Profiles : readings'[p].task = 0 /\ readings'[p].of # 0 /\ readings[p].task # 0 =>
            Running(p) /\ readings'[p].of = session[p].ack]_vars

\* Every start pressed ends: its profile is given back though no worker answers.
StartEnds == \A p \in Profiles : lease[p] = "starting" ~> lease[p] # "starting"

\* "The command is not queued until one request has come back through the same
\* engine the profile would use" (state/profiles.rs).
GateHolds == \A i \in 1..Len(inbox) :
    inbox[i].kind \in Hows => inbox[i].asked = inbox[i].through

\* A reading shown is of the browser that runs now.
ReadingIsCurrent == \A p \in Profiles :
    Running(p) /\ readings[p].of # 0 => readings[p].of = session[p].ack

\* Every browser that runs has a row to stop it from.
BrowserHasRow == \A p \in Profiles : Running(p) => p \in DOMAIN stored
=============================================================================
