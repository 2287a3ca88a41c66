# Fingerprint browser: TLA+ models, checks and proofs

This directory models what is hard to test in the program: what happens to
browsers, Xray engines, session records, credentials files, leases, tables,
downloads, settings and forms while commands, deaths, deadlines, workers' answers
and exits interleave. All paths below are relative to the repository's `crates/`.

## 1. The system

A desktop window (`app`) edits browser profiles kept in SQLite (`storage`,
through the services of `application`), and starts each of them as a Chromium
with its own data directory, fingerprint and, for some proxies, a private Xray
engine. One *supervisor thread* (`runtime`) owns every process. The window
never touches a process: it sends commands through a bounded channel and reads
snapshots and events back.

| Component | State it keeps | Operations | Talks to |
|---|---|---|---|
| Runtime supervisor (`runtime/src/supervisor*`) | `active_sessions`, `pending_commands`, `shutting_down`, the launch in progress, the published snapshots | start, stop, restart, release, shutdown; readiness polls; reaping; adopting at start | channel (in), snapshots and events (out), processes, journal |
| Session journal (`runtime/src/journal.rs`) | one record per session on disk, `left_running` marks | write, mark, remove, recover, stop an adopted pid | supervisor, the process table |
| Xray engine (`runtime/src/xray.rs`) | a child process, a temporary config holding credentials | spawn, wait until the inbound answers | supervisor, diagnostics |
| Ports, planning, capabilities, DevTools, process control (`runtime/src/ports.rs`, `planner.rs`, `cdp.rs`, `process.rs`, ...) | none, or an operating-system handle | pure plans, system calls | supervisor |
| Diagnostics, egress, verification, status page (`runtime/src/diagnostic*`, `egress.rs`, `verify.rs`, `status.rs`) | a temporary engine, a token per profile | measure, conclude, serve | workers of the window |
| Process lifetimes (`app/src/main.rs`, `exit.rs`, `signal.rs`, `reclaim.rs`, `ui/lifecycle.rs`) | how the program was asked to leave | release or shut down, wait for the thread, exit | supervisor |
| Instance lock (`app/src/instance.rs`) | one file lock per data directory | acquire, drop | the operating system |
| Window state (`app/src/state/*`) | a row per profile, leases, jobs of workers | launch, stop, verify, test a proxy, delete, refresh | supervisor, services, workers |
| Operation coordination (`application/src/operations.rs`, `coordination.rs`) | leases per profile, one lease of the installation | take, free, exclude | window, services |
| Browser data transfer (`application/src/browser_data.rs`) | staged and displaced directories, an ownership record | copy, put in place, recover | file system |
| Configuration backup, import, restore (`application/src/restore.rs`, ...) | none | plan, apply | storage |
| Services and storage (`application/src/*_service.rs`, `storage`) | profiles, proxies, cores | create, edit, delete, reorder | SQLite |
| Domain (`domain`) | none | validation, URI parsing | everyone |
| Downloads, settings, log file (`app/src/releases.rs`, `settings.rs`, `log_file.rs`, ...) | files | download, resolve, append | file system |
| User interface (`app/src/ui`, editors, text) | forms | rendering | window state |

### What is hard, and what makes each part correct

* **Supervisor.** The thread is sequential but never waits for one thing: while
  a profile starts it reads the channel at every readiness round, serves stops
  and shutdowns in the middle of the start, parks the rest, and while one
  browser closes it reaps the others. Correct means: no process, record or
  credentials file without an owner; never two browsers on one data directory;
  a stop beats every launch sent before it; an acknowledgement is final; the
  published state is that of the table; a dead Xray takes its browser down; a
  start is decided; an exit ends the thread and leaves nothing.
* **Journal.** Crashes between a spawn and a record, pids that name somebody else,
  records that could not be decided. Correct means: a process is stopped only when
  it is certainly ours, and never forgotten while it runs.
* **Exit.** Two copies of the program on one directory, a bounded queue, a signal
  during an exit. Correct means: a recovery meets no live copy's browsers, there is
  always a way back to a window, "keep" keeps, an exit ends.
* **Window.** Answers of workers and snapshots that are older than the row they
  land on; leases that must be held from the check to the acknowledgement.
* **Configuration.** Workers that read all of it while the window writes, and files
  from elsewhere. Correct means: nothing dangles, nothing kept is changed, nothing is
  deleted for a file that cannot be stored, and silence means success.
* **Browser data.** Two renames and a crash at any point. Correct means: the
  data is the old or the new, whole, and a recovery never removes the only copy.
* **Downloads.** A kill or a failure at any file operation. Correct means: what is
  recorded is whole, and the dialog does not stay busy.
* **Diagnostics.** A port that is anybody's between a reservation and a bind, silent
  and dripping peers. Correct means: nothing outlives the test, its words are its
  own engine's, and it ends.
* **Identity.** Claims that a launch cannot make, engines replaced in place, pages
  that never answer. Correct means: silence proves what a check reads back, a warning is
  due and given, and a browser is not accused of what was never asked.
* **Settings and screen.** Files moved between starts, forms answered late. Correct
  means: what the page shows is what the next start does, as long as a save says truly
  whether it happened, no start costs a setting, and an answer reaches the form that
  asked.

`PROJECT.json` lists each hazard at its line with the properties that cover it,
or the reason why none does.

## 2. Modules

| Module | What it models | Composed with | Run |
|---|---|---|---|
| `Supervisor` | one run of the supervisor thread | | `supervisor`, `supervisor_live` |
| `Journal` | session records over several runs | takes the thread's sessions as single steps | `journal` |
| `Exit` | copies of the program from command line to end | takes recovery and thread as single steps | `exit` |
| `Window` | leases, gates and late answers | the supervisor through channel and snapshot | `window` |
| `Config` | tables, services, export, import, restore | | `config` |
| `BrowserData` | copying data directories | implements `AtomicReplace` | `browser_data` |
| `Downloads` | cores and engines from the catalogue to the record | | `downloads` |
| `Diagnostic` | testing a proxy | | `diagnostic`, `credentials_left` |
| `Identity` | launch plan, read-back, status page | | `identity` |
| `Shell` | `Settings` (files and controls) with `Screen` (pages, dialogs, forms) | extends both | `shell` |

Each `MC...` module gives its module a small instance; `SupervisorProofs`,
`JournalProofs`, `WindowProofs`, `BrowserDataIdentityProofs`, `ConfigDownloadsProofs`,
`ExitProofs`, `DiagnosticProofs` and `ShellProofs` hold the theorems. Two of them are
about two modules each, which have nothing in common and whose names therefore differ.

What is left: a statement of what `Journal` and `Window` assume of the supervisor as
abstract specifications that `Supervisor` implements. Today that correspondence
is by construction: each names the code it takes as one step.

## 3. `Supervisor`

### State and code

| Model | Code |
|---|---|
| `cmds`, `open`, `issued` | the crossbeam channel of `main.rs`; a command carries its place in the order of sends, which for a launch is `StartParams.request_id` |
| `pending`, `down` | `pending_commands`, `shutting_down` |
| `pc`, `resume`, `budget`, `tries`, `cur` | where `run`, `start_profile` and `poll_start_commands` are; the launch's profile and number; the messages a poll may still take; the deadline of `wait_ready` and of the DevTools probe as a count of rounds |
| `stops`, `victim`, `after`, `owed` | `stop_session` and `cleanup_all`: the profiles still to stop, the session taken out of the table, where the call returns to, the acknowledgement it publishes |
| `held`, `stopFailed` | `active_sessions` with `Held::Owned`/`Held::Adopted` and `stop_failed` |
| `browser`, `xray` | the processes: live, exited (dead and not yet waited for or noticed), foreign (the pid is somebody else's) |
| `record`, `marked`, `config` | session records, their `left_running`, temporary Xray configs |
| `snap`, `acked` | `RuntimeSnapshot.state` and `.acknowledged_start` |
| `lastStop`, `runs`, `leaving`, `released` | history the properties speak of; no action reads it |

The granularity is the thread's own: between two looks at the channel or at a
process everything is one action. Both queues are first-in first-out and only
appended to, so they are sets ordered by number. `Environment` holds the
clients (in any order, which is more than the window does), browsers and
engines that end at any time, and pids of adopted processes that are reused.

* `CommandLoop` is `run` and `handle_command`; `Starter` is `start_profile` with
  `begin_attempt`, `SpawnBrowser` and the readiness waits; `PollCommands` is
  `poll_start_commands`, one action per arm of its match; `Stopper` is
  `stop_session` cut at its graceful wait, and `poll_active_sessions`.
* `KillAll` is the end of `stop_session` for one session or for all those one
  poll finds dead: each component is killed or survives (only an adopted one may),
  and files, session and snapshot follow from that.
* `Init` is the state after `recover_orphans`: any of `LeftRunning` adopted, with
  some component alive. Records an earlier run left undecided are not in it; they
  belong to `Journal`.

Left out: events (dropped when nobody drains them, and read by no state), the
exit status (it only chooses whether a crash is reported; `Crashed` is
overwritten in the step that publishes it), wording, and ports.

### Runs

| Run | Checks | Instance |
|---|---|---|
| `supervisor` | `NothingStray`, `DirectoryFree`, `SnapshotTells`, `AckIsFinal`, `StopWins`, `ExitLeavesNothing` | two profiles, one proxied and possibly adopted, channel of 2, batch of 2, one readiness round, three commands; about a million states |
| `supervisor_live` | `DeadTunnelEndsBrowser`, `StartIsDecided`, `ThreadEnds` | the same with two commands |

Why these bounds: one profile of each kind (direct, proxied, adopted) gives the
thread every branch; two let one start while another is stopped, parked, reaped
or drained. Three commands are a launch in progress, one parked and one that
overtakes it, which is the deepest nesting the code has (a start, a stop inside
its poll, a cleanup after it). A channel of 2 is full while a third command is
wanted, a batch of 2 can end before the channel is empty, and one round gives
each deadline a state before and a state after. The thread ends in every exit,
so deadlock is not checked.

**Fairness.** `WF_vars(Supervise)`: the operating system schedules the thread,
and each of its waits has a deadline, so it is never disabled for ever inside a
start or a stop. Nothing is assumed of clients, browsers, engines or pids.

### What the code does not promise

The module states three properties that are false of the code; no run lists them.

* `ReleaseIsTheExit`: a release that arrives while a profile starts is parked
  (`start.rs:498`); the shutdown that `main` sends when the window has closed is
  served at once, clears what is parked and stops every session. The user asked
  for the browsers to stay, and they go.
* `EveryLaunchAcknowledged`: a start received while its own profile is starting is
  dropped without acknowledgement (`start.rs:487`). The window's lease keeps it from
  sending that second start; another client of the facade is not kept from it,
  and the facade's promise (`facade.rs:8`) has no such condition.
* `PutBackIsLive`: a session adopted by pid whose browser or engine pid was reused is
  reported as "still running" and put back as Running with neither process alive
  (`supervisor.rs:390-404`). It is a safe answer, but not a true one.

### Proofs

`SupervisorProofs` proves, for every set of profiles, every
channel capacity, batch, number of rounds and of commands, from the two
assumptions in `Supervisor` only (`ProfileAssumption`, `BoundAssumption`):

| Theorem | States |
|---|---|
| `TypeCorrect` | `Spec => []TypeOK` |
| `NothingIsStray` | `Spec => []NothingStray` |
| `DirectoryIsFree` | `Spec => []DirectoryFree` |
| `EndLeavesNothing` | `Spec => []ExitLeavesNothing` |
| `AcknowledgedIsOver` | `Spec => []AckIsFinal` |
| `StopsWin` | `Spec => []StopWins` |
| `SnapshotsTell` | `Spec => []SnapshotTells` |

None of the invariants is inductive by itself: `SnapshotTells` is, given the first
two of the three that the proofs use:

* `TypeInv` is `TypeOK` with `Control`: which of the thread's locals are in use at
  which program counter (a launch has a profile, a stop has a return point, a
  session being stopped is in the table).
* `Custody` adds what a launch may already have made at each point of
  `start_profile`, that a release is the last thing the loop does, and that
  `cleanup_all` still has every session it must stop on its list. `KillAllEffect`
  says once what the end of a stop does to one profile; every action that stops
  or reaps cites it.
* `Order` says that the front of a queue is its least number, that the launch in
  progress is older than everything parked and in the channel, that
  acknowledgements and stops taken are no newer than it, and that a session comes
  from a launch later than its profile's last stop or is about to be stopped.

They were checked with TLC as invariants of the `supervisor` instance before they
were proved. Every step has one case per action.

Model-checked only: the liveness properties, which need `ENABLED` and are out of the prover's reach.

## 4. `BrowserData`

### State and code

| Model | Code (`application/src/browser_data.rs`) |
|---|---|
| `place`, `staged`, `displaced` | what is at a directory's own path, at its `.partial` and at its `.old` sibling |
| `owner` | its `copy-owner.json`: none, created and not yet written (`torn`), valid |
| `pc`, `dir`, `side` | where `transfer`, `claim`, `copy_tree`, `commit` or `recover` is; the destination; the `Direction` |
| `caller` | which of the four calls of `recover` runs: at startup, before a copy, after a failed copy, after a commit |
| `todo`, `skipped` | the profiles still to recover or to copy, and those `plan` passes over |
| `browsing`, `run`, `crashes` | the browsers, and the history that tells one content from another |

Every profile has two directories, its own and the one in the backup; a transfer
in either direction copies each to its counterpart. What a directory holds is the
set of browser runs that wrote in it, so a copy, an old version and a mixture are
different values; a tree that is not whole is `Partial` and something the program
did not make is `Foreign`. A browser's writes count as one, when it starts: nothing
copies or moves a directory while its browser runs.

The granularity is the file operation. A rename and the creation of a file are
atomic; the copy of a tree and the removal of a tree take two steps, so that a kill
or a failure can find them half done. Each operation has its failure: `ClaimFails`,
`CopyFails`, `CommitFails`, `SwapFails`, `ClearFails`, `CannotPutBack`. `Crash` is a
kill, or an exit of the program while the worker copies: what was written stays (loss
of power is not modelled, the code syncs only the record), and browsers may
outlive it. `Start` is the recovery `main` makes before the window opens.

`PutBackFails` names the sides on which the rename that puts a displaced directory
back, in `commit` and in `recover`, may fail. The code has nothing left to try then.
In the backup that is harmless, and the run lets it happen there; of a profile's own
directory it breaks what is said below, so run and theorems assume it away.

The leases of `app/src/state` and `operations.rs` are guards here: a browser starts
only when no transfer runs, a transfer only when no browser does. Left out: the
refusals of `plan` for paths that overlap (they come before the first write) and the
recovery's skip of directories that do (`browser_data.rs:133`), profiles that are added or deleted, and the wording of reports.

### Runs

| Run | Checks | Instance |
|---|---|---|
| `browser_data` | `DataIsInPlace`, `ReplacesAtomically`, `ForeignIsKept`, `WorkEnds` | one profile, two browser runs, two kills, put-backs failing in the backup |

A second browser run tells a restored directory from the one that was there before
it, and a second kill falls in the recovery of the first. That several profiles in
one transfer do not disturb each other is what the theorems below add. The program
may be off for ever, so deadlock is not checked.

**Fairness.** `WF_vars(Work)`: the thread that copies and the main thread before the
window are scheduled, and every tree is finite. `WorkEnds` is what gives the
leases of all profiles back.

### What the code does not promise

The module states the first and the last; with the second the run fails.

* `NeverNeither`: if both renames fail, `commit` reports the same error as when the
  first was undone (`browser_data.rs:487-503`), with nothing at the destination; the
  error's documentation rules that out.
* `ReplacesAtomically`, with `"own" \in PutBackFails`: after a put-back that failed, at
  startup or in `commit`, only a log line says so and the profile can be started.
  Chromium makes a fresh directory, and from then on the displaced one is a leftover
  that the next recovery removes.
* `SkippedHaveNoData`: only destinations are recovered. A restore from a backup whose copy
  was killed between its renames finds no directory at the source and reports the
  profile as one without data, while the data is beside it.

### Proofs

`BrowserDataIdentityProofs` proves, for any profiles, browser runs and kills:

| Theorem | States |
|---|---|
| `TransferTypes` | `Spec => []TypeOK` |
| `ForeignStays` | `Spec => ForeignIsKept` |
| `DataStaysInPlace` | `"own" \notin PutBackFails` implies `Spec => []DataIsInPlace` |
| `TransferIsAtomic` | `"own" \notin PutBackFails` implies `Spec => ReplacesAtomically` |

`TypeOK` is not inductive: that what is put in place is whole depends on what the
record claims and on how far the program is. `Inv` adds `Owned` (what siblings can
be there with and without a valid record; a displaced tree is whole while nothing
has its place), `Progress` (what each program counter has already established of
the destination) and `Sourced` (what is still to be copied exists, on the side that
is not written). `Healed` says of a profile whose data is aside that the
program is off, has yet to recover it, or is between the two renames; it is
inductive only if that profile's own directory can be put back, which is where the
theorems take their assumption from. For the refinement, `StepIsAtomic` shows of every action that it
is `Browse`, `Replace` or a stutter of `AtomicReplace` under the mapping `Data`.

Model-checked only: `WorkEnds`.

## 5. `Journal`

| Model | Code (`runtime/src/journal.rs`, `supervisor.rs`, `process*`) |
|---|---|
| `proc`, `clock`, `world` | the process table: whose a pid is, its start time, whether it is up; the platform, and whether it tells everything of a process |
| `record`, `config` | `session.json` per profile (browser, engine, `left_running`) and the temporary engine config |
| `mode`, `table`, `todo`, `job` | recovering, running or leaving; the sessions and the start in progress; what is still to treat; the `stop` in progress |
| `unresolved` | the profiles whose record this run's recovery reported and left alone |
| `struck`, `purpose`, `excused`, `orphaned` | history: whom a `stop` killed in the place of another's, sessions left on purpose, processes a crash or a failed write left without a record, processes of an unresolved record that a start wrote over |

`Recover` is `recover` with one record at a time and `stop` cut where it waits;
`Session` is a start (engine, browser, record, success or rollback) and a stop;
`Exit` is a release or a shutdown; `Mishap` is a crash, a reboot, a stranger's process
and a death. A start time is ticks since boot, so a reboot can repeat one with its pid.

Run `journal`: `CustodyKept`, `PurposeHonoured`, `RecordOutlivesProcess`,
`RecoveryEnds`; one profile behind an engine, three pids, a crash or a reboot and a
stranger, on Unix where everything can be identified, Unix where not, and Windows; 1.4
million states. Three pids are a browser, an engine and whoever reuses a pid; three
runs (elsewhere than on a clear Unix) are a crash, its recovery and the run that meets
what that recovery left; on a clear Unix two runs and five start times are two whole
starts of the profile whose old engine lives on beside a stranger. The program may be
off for ever, so deadlock is not checked. What belongs to the supervisor's concurrency
is in `Supervisor`, so a session's own steps are whole here. **Fairness:** the recovery
runs on the thread that starts the program and its waits have deadlines.

`CustodyKept` on a platform that cannot identify every process says only what it
says of files and kills: an undecided record may be kept for ever there, by design.

Not promised by the code: `RecordStays` (a start writes over a kept record that still
names a live process, `start.rs:419`, against "the record stays readable either
way", `journal.rs:18`; when the start fails, its rollback removes the record whether
its own write landed or not, `start.rs:428-430`, and what the recovery had reported is lost;
the processes it happens to are `orphaned`, and the two safety properties except
exactly those), `CrashLeavesRecord` (an engine spawned before its record,
`start.rs:338`), `SameInstance` (after a reboot pid and ticks can coincide) and
`CrashIsReclaimed` (an adopted record keeps `left_running`, so a crash after the
adoption reads as another release).

### Proofs

`JournalProofs` proves, for every set of profiles, of pids and of platforms and every
bound, from `NameAssumption` and `BoundAssumption` of `Journal`:

| Theorem | States |
|---|---|
| `JournalInvariant` | `Spec => []Inv` |
| `CustodyIsKept` | `Spec => []CustodyKept`, `OnlyOurs` and `NoStrayCredentials` included |
| `PurposeIsHonoured` | `Spec => []PurposeHonoured` |
| `RecordsOutliveProcesses` | `Spec => RecordOutlivesProcess` |

`CustodyKept` is not inductive. What `Inv` adds, and why:

* `Modes`, `JobPlace`: which sessions and which stop a phase of the program can have;
  the stop of a recovery is that of an unmarked record still to treat.
* `TableRecorded`: what a running session holds, its record names. A release and a crash
  forget the table; the record must do.
* `RecordHeld`: once a record was treated, what it names the session holds, unless it
  is unresolved or orphaned. The end of a stop and the rollback of a start remove the
  record; the table must do. Looking for this one showed that a start after an
  unresolved recovery loses a process, which the bounds of the run had hidden.
* `TickedOff`: what a stop has ticked off without a failure is gone.
* `Vouched`: a running session has a record or lost it to a failed write.
* `Identity`, `Born0`: what a child's handle holds is nobody else's process, and on
  Windows nor is what a record names: start times are not handed out again. `OnlyOurs`
  needs it, with the second reading at the kill.
* `Marked`: a session left on purpose has its mark until a start succeeds it.

There is one lemma per action; `RecoverOne`, `WriteRecord` and `StopOwned` carry most of the
argument. TLC checked `Inv` first, as an invariant of smaller instances.
`RecoveryEnds` stays with TLC: it is liveness under fairness.

## 6. `Exit`

| Model | Code (`app/src/main.rs`, `instance.rs`, `exit.rs`, `signal.rs`, `tray.rs`, `ui/lifecycle.rs`) |
|---|---|
| `at`, `lock` | where each copy's main thread is; the holder of `instance.lock` |
| `stored`, `mode`, `ui` | the exit mode in the file and as the copy knows it; window, tray icon, question, answer |
| `queue`, `thread`, `slot`, `pc` | the bounded command queue, the supervisor thread, the handle that one exit takes, how far the main and the signal thread's `shutdown` are |
| `browser` | per profile: up, whose, marked or plain record |

Run `exit`: `RecoversTheDead`, `WindowReachable`, `NothingLeftByAccident`,
`KeepMeansKeep`, `ExitEnds`; two copies on one directory, one profile, a queue of two
(full with two commands), two clicks; a quarter of a million states. **Fairness:** the
main thread and the signal thread run. Nothing is assumed of the supervisor thread:
`ExitEnds` is about the deadline. It asks for room in the queue because the send that
precedes the wait is a blocking one (`main.rs:473`): with a full queue and a stuck
thread an exit really hangs.

Not promised: `ExitsWait` (a second exit does not wait for the first, which may be the
signal thread's; when the window's `main` returns the process ends over it).

**Proved** in `ExitProofs`, for any copies, profiles, queue and clicks, from
`ExitAssumption`: all four safety properties (`OneCopyRecovers`, `LeftOnPurpose`,
`AlwaysReachable`, `KeepKeeps`). The invariant `Inv` is the types with `Locked` (a copy
holds the lock exactly while it works on the directory) and `Served` (a thread belongs to
such a copy, and one that is done owns no browser): recovery is safe because any other
owner would have to hold the same lock. `KeepKeeps` needs `AllKeep`: after the answer to
keep, the release stands in the queue before any shutdown, so by the time the thread
stops, no browser is its own. `ExitEnds` is model-checked only.

## 7. `Window`

| Model | Code (`app/src/state/*`, `ui/workers.rs`, `application/src/operations.rs`, `coordination.rs`) |
|---|---|
| `stored`, `rows`, `def` | the profiles and proxies in storage, and the rows as last read |
| `lease`, `pending`, `queued` | `Operations`; the starts waiting for a proxy's answer; those sent and not acknowledged |
| `tests`, `readings`, `jobs` | the task under way per proxy and profile, and the workers |
| `copying`, `job` | a browser-data copy's profiles; the maintenance marker |
| `inbox`, `launch`, `session` | the supervisor as the window meets it: channel, busy launch, snapshot |

One action per handler: start, restart, stop, test, verify, edit, delete, import,
restore, copy, the tick that drains answers and times out. Run `window`:
`LeaseMatchesWork`, `ReadingFits`, `StartEnds`; two profiles, one proxy, a queue of
one, four actions of the user: a start, what invalidates it, and two to tell the stale
answer from the new. **Fairness:** the tick comes every second with its expiry, the
supervisor decides what it was sent, a maintenance worker (local files) ends. A
proxy test or a verification may never answer.

Abstractions: a row's own copy of the snapshot is read as the snapshot; a button the
window disables may still be pressed, since the handlers check again; an export and a
re-detection hold what an import holds, and a copy of browser data asks that no other
is under way, where the code takes the leases of the profiles stored (`configuration.rs:473`).

Not promised: `ReadingIsCurrent` (a reading stays on its row until the next one,
`state/profiles.rs:331`), `BrowserHasRow` (a profile deleted by a restore or an
import's replacement while its browser runs, `state/profiles.rs:167` against
`configuration.rs:319`), `GateHolds` (a proxy edited while its answer is awaited).

### Proofs

`WindowProofs` proves `LeaseMatchesWork` (with the types) and `ReadingFits` for any
proxies, any capacity of the channel, any number of clicks and any **finite** set of
profiles: a sending puts its profiles in an order, which only a finite set has.

`LeaseMatchesWork` is not inductive. That a lease matches what waits and what is queued
says nothing about the channel, and the danger is there: a refresh takes a start off the
queue when the snapshot acknowledges its number, and if an older number could
acknowledge a younger start, the lease would be given back with the start still to come,
and a copy could begin beside it. The invariant `Inv` adds:

* `Commanded`: a start in the channel or with the supervisor is *due*, that is, its
  profile is queued under its own number and the snapshot has acknowledged less; and no
  two of them are for the same profile. A stop behind a start is not counted, so a start
  may be called off.
* `Numbered`: numbers queued and acknowledged have been given out, so the next is above
  them all.
* `Visible`: what is queued is stored, and a browser that is up has a row, or is still
  queued, or was deleted while it ran (`orphans`). It is what makes the look at the
  rows in `begin_restore` and `browser_data_job` enough.
* `Alone`: during a restore no lease is held and nothing with a row is up; a copied
  profile's browser is down.

`DueIsQueued` draws the consequence: whoever has a start under way holds its lease. Most
handlers only give leases back, read rows again or add records; `SettlesKeeps` is proved
once for them and each is shown to be such a step (`RefreshSettles`, `CallOffSettles`,
`AsideKeeps`). The sending (`SendKeeps`), the deletion, the restore's worker, the start of
a copy and the supervisor's steps (`PutKeeps`) are proved by themselves.
`StartEnds` is liveness and stays with TLC.

## 8. `Config`

The database is three tables; a service call is one step (the connection is behind a
mutex), an import or a restore is a sequence of them with a file, a plan and a report,
beside which the window writes. `task` is the maintenance worker with what it has
read, `saves` the workers that probe a core between their check and their write. A table
that cannot be read ends the task with what it has done so far (`Unreadable`).

Run `config`: `NeverDangles`, `SilenceMeansAll`, `RestoreLands`, `ImportKeeps`; two
cores, one proxy, two profiles, an empty and a filled start, six files (another
machine's, one without credentials, and hand-edited ones that dangle, repeat an
identifier or blank a name) and the installation's own export; two edits and two tasks;
2.4 million states. An edit before and one inside a task are what a race needs; a
second task meets the export of the first. No liveness: a worker here may stop anywhere
(`Crash`), and deadlock is not checked.

Abstractions: an export's file is replaced or left, and the answer, which may be an error
in both cases (`atomic_file.rs:22`), is not told apart; a field rule of a profile "may
refuse" it; identifiers are drawn from the
set nobody minted; one directory rule stands for the path checks; the JSON is its
records, each at its place in the file (a list is a function from places, so that taking
one row off leaves the others where they were).

### Proofs

`ConfigDownloadsProofs` proves all four properties for any identifiers (finitely many,
as UUIDs are), any files that parse, any configuration whose references resolve, and any
number of clicks and tasks: `ConfigAssumption`.

* `NothingDangles`. `Holds` is what the database keeps of itself: every write is shown to
  keep it (`CoreStored` to `ProfileRemoved`), and a restore's transaction to make it from
  the file (`ReplacementFacts`).
* `RestoresLand`. Between the decision and the write the plan is the accepted file with
  its directories repaired (`Restoring`): so the transaction's own checks cannot refuse
  it, and afterwards the tables are the file's.
* `ImportOnlyAdds`. What is still to be written was not there when the tables were read
  (`Sorted`, `New`), and the profiles' insert refuses an identifier that came since.
* `SilenceIsEverything`. While nobody else writes and the report is empty, each row of
  the file is stored as the file has it or still in the plan (`Silent`, `Left`); a row
  leaves the plan by being stored or by being named. It holds per place in the file, not
  per identifier: a file may hold one twice, which is why the property asks that cores
  and proxies do not repeat, since their insert is an upsert.

`Inv` joins the three for whatever task is under way; `Worked` is that part, proved once
for each way a task moves (`FileRead`, `CoresRead`, `Decided`, `CoreAdded`, `Replaced`,
...) and for another's write beside it (`Disturbed`), and the steps are put together
from those.

Not promised: `DeletedStaysDeleted` (a core deleted between the probe of an update or
re-detection and its upsert comes back, `core_service.rs:195`, `:226`). Met while
modelling and outside the properties: two additions of one executable can both pass
the duplicate check; a panic in a worker leaves the maintenance marker up.

## 9. `Downloads`

`kind` says which of the two downloads a behaviour is about (they share nothing).
`disk` is what an asset left (`.part`, file, program), `slot`/`worker`/`answer` the
download in flight, `adding`/`probed`/`recorded` the registration of a core or the
setting of an engine. Every file operation has its failure, and `Restart` is a kill or
an end at any point. HTTP, archive formats and progress are outcomes. Each asset has a
program of its own; in the code two assets of one release are unpacked side by side in
one directory.

Run `downloads`: `RecordedWhole`, `DownloadsEnd`; two releases, three downloads, so that
one asset can be repeated while another is recorded. **Fairness:** every wait of a
worker is bounded (connection, headers, body), a catalogue request as well, and the
window drains its channels every tick.

Proved in `ConfigDownloadsProofs`, for any releases and any number of downloads:
`WholeIsRecorded`, `DownloadsSpec => []RecordedWhole`. The invariant adds what connects disk,
worker and records: a program whose asset came down once is whole from the moment its
worker says usable to the row that names it, because nothing else writes in its place
(`Chain`). `DownloadsEnd` is only model-checked.

Not promised: `RecordedStaysWhole`. A second download of an asset in use removes its
AppImage or unpacks over it, and a failure then leaves half a program recorded.

## 10. `Diagnostic`

`call` is a test's worker: step, port, what is left of its deadline, stage of the
conversation, answer; `engine`, `config`, `log` what its temporary engine has;
`reserved` and `listener` the machine's ports. A stranger may take a port between
the release of a reservation and the engine's bind, peers may stay silent or drip, and
a removal may fail.

Run `diagnostic`: `EngineEndsWithCall`, `OwnWords`, `TestEnds`; two tests, one port to
quarrel about, one instant per deadline; half a million states. Run
`credentials_left`: `CredentialsGo` is violated. `TemporaryEngine::start` writes the
configuration first and returns early when the log beside it cannot be created;
nothing owns the file yet, so nothing removes it, which `diagnostic.rs:32` rules out.
**Fairness:** a worker and its clock run.

Not promised: `AnsweredByOwn` (the greeting tells an engine from a stranger, not from
another engine that took the port). Left out: the configuration fault of a target that
does not parse (`diagnostic.rs:192`). An engine that a killed run left on the port is a
stranger that never answers. An earlier log can only be met through a reused pid,
since the name counts up within a process. A program that ends during a test leaves its
engine and files to nobody.

**Proved** in `DiagnosticProofs`, for any tests, ports, markers and deadlines, from
`DiagnosticAssumption`: `EnginesEnd` and `WordsAreOwn`. The invariant ties what a test
has on the machine to its step (`Placed`: a reservation only from `reserve` to `spawn`,
an engine only from the spawn to the drop, a listener only while its engine runs) and
says whose words its log holds from the creation of the log on (`Said`), with the peers
a conversation may have reached by each stage; `OneTest` says once that a step of one
test leaves the others as they are. `TestEnds` is model-checked only.

## 11. `Identity`

`stored` is the profile and the core as the window knows them, `disk` the engine's
files, `session` the running browser with what its launch emitted and warned of,
`check` the read-back under way, `page` the thread of the session's status page. A
version is read from manifests, version directories and the program itself; switches
follow the major; a check copies profile and core, opens its own page, reads, asks for
the address and compares. The profile may be edited, the engine replaced, the core
probed again and the program restarted meanwhile (`Reopen`, between checks).

Run `identity`: `SilenceIsProof`, `WarningsAreRight`, `NothingHangs`; three profiles and
four layouts chosen so that each rule of the plan is met on both sides of each measured
major, two addresses, one change; a third of a million states. **Fairness:** the worker
of a check and the page's thread run with their deadlines.

What silence proves is what a check reads back. `Asks` has every switch of
`serialize_fingerprint_args`; `verify` holds no reading against five of them, which
`Unverified` names: the seed, the brand's version, the locale (`--lang`; the language a
page sees follows `--accept-lang`, which is read), noise, and the exclusions. Of these
`SilenceIsProof` says nothing, and of the rest it has one exception, a list of languages
that is not reported (`verify.rs:420`). Of the list, its first language is what is
compared. A brand and its version are one claim (`ClaimOf`): an engine without the brand
gets neither switch, and the warning names the brand.

A check asks for each page it opened to be closed and does not look at the outcome
(`verify.rs:619`, `egress.rs:204`), and an opening that times out may have made a page
(`cdp.rs:427`): either may leave a page behind (`Behind`), which stays until its browser
ends. `NothingHangs` therefore says that no page is left whose closing was not asked for,
not that none is left.

Not promised: `StaleMajorIsWarned` (a core updated in place keeps the major it was
probed at). A profile edited while it runs is compared with its new claims. An address
read may outlast the deadline of the request that asked for it. Left out: the discovery
of cores on the disk, the reading of the system's proxy, the page's HTML, a debugging
port that another program takes over; a running browser is the session as the supervisor
has it, where the code reads the row's copy of the snapshot (`state/profiles.rs:63`).

### Proofs

`BrowserDataIdentityProofs` proves both invariants for any profiles and installations of
the kinds `Fingerprint` and `Layout` list, any addresses and any number of changes
(`IdentityAssumption`). The majors stay the three of `Majors`, one on each side of what
the rules compare with.

* The rules are facts of their own: a profile asks for eleven switches and for each with
  one value (`AsksAre`, `AskIs`, `OneValue`), an engine shows what it was asked
  (`ShownAsked`), whatever is asked and can be read back is claimed or warned of
  (`AskedIsClaimed`), and whatever is claimed would be shown (`ClaimIsShown`).
* `IdentityInv` is what the steps keep: a browser's warning is the one of the profile and
  major it was launched with (`LaunchSaid`), however these are edited since; and what a
  check has found is what its reading shows of the claims it copied, and of the address
  once that was asked (`FoundIsRead`). The second is inductive only with what a failed
  check is: one that has read nothing and goes straight to its end.
* `SilenceProves` and `WarningsHold` put the two together; neither property is inductive,
  since neither says anything of a check that is not done.

Model-checked only: `NothingHangs`.

## 12. `Settings`, `Screen`, `Shell`

`Settings`: `disk` is what each file holds (the directory's, the one a variable names,
the older one in the platform's directory), `run` what a start read and where its move
of the older file stands. Four stored fields stand for the nine, one per way of
resolving. `Screen`: page, stack of dialogs, core form with its worker, global keys.
A save replaces the file and then memory; it may be refused before the file is in place,
or after, when the directory cannot be synced (`atomic_file.rs:22`), and then memory and
page keep the old value (`Store`). That closing a dialog tells its form is the component
library's, which is not in this repository, also when the program closes it itself, as
Escape does (`ui/mod.rs:618`): `Closes` assumes it, and `FormIsAnswered` rests on it. `Shell` is both,
with the controls that write settings and the closing of the window.

Run `shell`: `PageTellsNextStart`, `NothingIsLost`, `FormIsAnswered`; one document that
decides every field, three environments, two starts, one hand edit, two saves (one
refused with its file in place, one after it), five clicks (open the form, save, cancel,
open, save: the least that lets an old answer meet a new form); 2.1 million states. There
is no fairness: nothing here must happen.

`PageTellsNextStart` has the exception that refusal makes: the page shows what it showed
and the next start resolves what the refused save left, until a save succeeds. Where a
value comes from is checked of the two settings a variable may decide. It is not of the
switch of the status page, whose row says the file's for any word the file holds, also
one that decides nothing (`settings.rs:816`).

### Proofs

`ShellProofs` proves all three properties, for any clicks, starts, edits and saves.

* `FormsAreAnswered`. The invariant adds to the property what it rests on: only the
  exit's question opens over another dialog, so a core form is always the bottom one and
  is told when it goes, and the numbers of saves are no larger than the last one given.
* `PagesTell` (`PageTellsNextStart`) and `StartsLoseNothing` (`NothingIsLost`). The
  invariant is `Kept`: what each file may hold; the page's values are `Resolve` of what
  the process holds (`Shown`); what a start in the same environment would read now is
  what this one holds, or what a refused save left there, but for the directory a file
  names (`Unaltered`, `Alike`), unless somebody touched the files; and where the move stands (`Moving`): before the write the
  older file is still what is read, after it the new one holds the same. The property
  alone is not inductive, since it says nothing of a start that is still moving a file,
  nor that the directory is the one field a save drops. One lemma per way a file is found
  (`ReadFacts`, `MovesFacts`, `DocIsRead`) and one that every control stores what it
  shows (`ControlStores`) carry the steps.

`SettingsAssumption` says what the constants are: `Words` is what a field may hold, the
words this build knows among them, and documents, typed paths and variables are made of
those; the environment's data directory is one of the two the model has.

Not promised, and outside the properties: a hand edit made while the program runs is
overwritten by the next save (against `settings.rs:17`); a start with another data
directory moves an older file that names none; `--diagnostics` and a refused second copy
load the settings, and so may move them, before the lock (`main.rs:115`); a word the
build does not know is shown as the file's while the default decides; the answer of a
core's check that comes while the exit question is over its form closes the question
and leaves the form, so a second save registers the core twice (`ui/cores.rs:717`);
repeated close clicks stack questions; a worker that panics leaves its form checking.

## 13. Proved and only model-checked

Every invariant and every action property the passing runs check is also a theorem,
proved for every value of the constants from the named assumptions of their modules, two
of `BrowserData`'s also from the condition section 4 states.
What stays with TLC, on the instances above only, is liveness, which needs `ENABLED`:
`DeadTunnelEndsBrowser`, `StartIsDecided`, `ThreadEnds`, `WorkEnds`, `RecoveryEnds`,
`ExitEnds`, `StartEnds`, `DownloadsEnd`, `TestEnds` and `NothingHangs`; and the
counterexample of `credentials_left`.

## 14. Not modelled

* The engine's configuration document: a pure function of the proxy; a property of it
  would restate it field by field. Parsing of proxy addresses: character work.
* The log file and the report read from it: best effort, read by no decision. Met while
  reading: `log_file_error` is never cleared though later lines are written again
  (`state/activity.rs:166`).
* Layout, wording, the text catalogue, the fields of the other forms, the log's view.
* Loopback ports as the kernel keeps them: `Diagnostic` has the race of a temporary
  engine; the same race of a session's inbound (`start.rs:336`) ends as a start that
  fails, which `Supervisor` has.
* Event delivery from the supervisor to the window: no state depends on it.
* SQLite, the kernel, Chromium, Xray and the component library are external; the maps
  in `PROJECT.json` mark what stands for them.
