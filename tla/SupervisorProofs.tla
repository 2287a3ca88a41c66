--------------------------- MODULE SupervisorProofs ---------------------------
(***************************************************************************)
(* Theorems about every run of the supervisor, for any set of profiles and *)
(* any capacity, batch, deadline and number of commands: custody of the    *)
(* processes, the order of commands, and the published snapshot.           *)
(***************************************************************************)
EXTENDS Supervisor, TLAPS

-----------------------------------------------------------------------------
(* The control state: what the thread's locals hold at each of its places.  *)

Control ==
    /\ IF InStart THEN cur \in [p : Profiles, n : Numbers] ELSE cur = Idle
    /\ IF pc \in {"drain", "kill"}
       THEN victim \in stops /\ held[victim] # "none"
       ELSE victim = NoProfile
    /\ ~InStop => stops = {} /\ after = "tail"
    /\ owed # Idle => InStop /\ after = "recv" /\ owed.p \in Profiles

TypeInv == TypeOK /\ Control

-----------------------------------------------------------------------------
(* Custody: who holds the processes and the files of a profile.             *)

\* The browser of the launch in progress is not spawned yet.
BeforeSpawn ==
    \/ pc \in {"prepare", "xray", "spawn"}
    \/ (pc \in PollPcs \/ after = "recv") /\ resume \in {"prepare", "xray", "spawn"}

AttemptHolds ==
    /\ Attempting => held[cur.p] = "none"
    /\ BeforeSpawn => browser[cur.p] = "none"

\* After a release there is no session and no launch, nor will there be.
ReleaseIsLast ==
    released # {} => /\ down /\ ~InStart
                     /\ \A p \in Profiles : held[p] = "none"

\* The cleanup that ends the thread leaves only sessions that would not stop,
\* and those are adopted and described by their records.
CleanupCovers ==
    /\ InStop /\ after = "done" => Active \subseteq stops \cup stopFailed
    /\ pc = "done" => Active \subseteq stopFailed
    /\ \A p \in Profiles : held[p] = "adopted" => p \in record
    /\ \A p \in stopFailed : held[p] = "adopted"

Custody == AttemptHolds /\ ReleaseIsLast /\ CleanupCovers /\ NothingStray

\* The commands nobody has taken up.
Queued == cmds \cup pending

-----------------------------------------------------------------------------
(* Type correctness.                                                        *)

\* Ending the sessions of any set of profiles keeps the sessions well typed.
LEMMA KillAllTypes ==
    ASSUME SessionsTypeOK, NEW S \in SUBSET Profiles, KillAll(S)
    PROVE  SessionsTypeOK'
  BY DEF SessionsTypeOK, KillAll, ProcessState, SnapState, Ended

\* What ending sessions does to one profile: nothing, everything, or the
\* session is put back.
Untouched(p) ==
    /\ held'[p] = held[p] /\ browser'[p] = browser[p] /\ xray'[p] = xray[p]
    /\ snap'[p] = snap[p]
    /\ p \in stopFailed' <=> p \in stopFailed
    /\ p \in record' <=> p \in record
    /\ p \in config' <=> p \in config

Over(p) ==
    /\ held'[p] = "none" /\ browser'[p] = "none" /\ xray'[p] = "none"
    /\ snap'[p] = "Stopped"
    /\ p \notin stopFailed' /\ p \notin record' /\ p \notin config'

PutBack(p) ==
    /\ held[p] = "adopted" /\ held'[p] = "adopted" /\ p \in stopFailed'
    /\ snap'[p] = "Running"
    /\ p \in record' <=> p \in record

LEMMA KillAllEffect ==
    ASSUME SessionsTypeOK, NEW S \in SUBSET Profiles, KillAll(S), NEW p \in Profiles
    PROVE  IF p \in S THEN Over(p) \/ PutBack(p) ELSE Untouched(p)
<1>1. PICK survB \in SUBSET S, survX \in SUBSET S :
        LET failed == survB \cup survX
            over == S \ failed
        IN  /\ \A q \in survB : MaySurvive(q, browser[q])
            /\ \A q \in survX : MaySurvive(q, xray[q])
            /\ browser' = [q \in Profiles |-> IF q \in over THEN "none"
                              ELSE IF q \in failed \ survB THEN Ended(browser[q])
                              ELSE browser[q]]
            /\ xray' = [q \in Profiles |-> IF q \in over THEN "none"
                              ELSE IF q \in failed \ survX THEN Ended(xray[q])
                              ELSE xray[q]]
            /\ held' = [q \in Profiles |-> IF q \in over THEN "none" ELSE held[q]]
            /\ stopFailed' = (stopFailed \ over) \cup failed
            /\ record' = record \ over /\ config' = config \ over
            /\ snap' = [q \in Profiles |-> IF q \in over THEN "Stopped"
                              ELSE IF q \in failed THEN "Running" ELSE snap[q]]
  BY DEF KillAll
<1>2. CASE p \in survB \cup survX
  <2>1. held[p] = "adopted"
    BY <1>1, <1>2 DEF MaySurvive
  <2> QED
    BY <1>1, <1>2, <2>1 DEF PutBack
<1>3. CASE p \in S \ (survB \cup survX)
  BY <1>1, <1>3 DEF Over
<1>4. CASE p \notin S
  BY <1>1, <1>4 DEF Untouched
<1> QED
  BY <1>2, <1>3, <1>4

LEMMA InitTypes == Init => TypeOK
<1> SUFFICES ASSUME Init PROVE TypeOK
  OBVIOUS
<1>1. cmds = {} /\ open \in BOOLEAN /\ issued \in 0..MaxCommands
  BY BoundAssumption DEF Init
<1>2. pending \subseteq Command /\ down \in BOOLEAN /\ pc \in Pcs /\ resume \in StartPcs
  BY DEF Init, Pcs, StartPcs
<1>3. /\ budget \in 0..Batch /\ tries \in 0..Rounds
      /\ cur \in [p : Profiles \cup {NoProfile}, n : 0..MaxCommands]
      /\ owed \in [p : Profiles \cup {NoProfile}, n : 0..MaxCommands]
  BY BoundAssumption DEF Init, Idle
<1>4. /\ stops \subseteq Profiles /\ victim \in Profiles \cup {NoProfile}
      /\ after \in {"tail", "start", "recv", "cancel", "idle", "done"}
  BY DEF Init
<1>5. SessionsTypeOK
  BY DEF Init, SessionsTypeOK, ProcessState, SnapState, Active
<1>6. [p \in Profiles |-> 0] \in [Profiles -> 0..MaxCommands]
  BY BoundAssumption
<1>7. /\ acked = [p \in Profiles |-> 0] /\ lastStop = [p \in Profiles |-> 0]
      /\ runs = [p \in Profiles |-> 0]
      /\ leaving \in BOOLEAN /\ released \subseteq Profiles
  BY DEF Init
<1> QED
  BY <1>1, <1>2, <1>3, <1>4, <1>5, <1>6, <1>7 DEF TypeOK, ThreadTypeOK

LEMMA EnvironmentTypes == TypeOK /\ Environment => TypeOK'
<1> SUFFICES ASSUME TypeOK, Environment PROVE TypeOK'
  OBVIOUS
<1> USE BoundAssumption
<1>1. ASSUME NEW op, NEW p, [op |-> op, p |-> p, n |-> issued + 1] \in Command,
             Send(op, p)
      PROVE  TypeOK'
  BY <1>1 DEF Send, TypeOK, thread, launch, stopping, sessions, processes, disk,
              published, ThreadTypeOK, SessionsTypeOK
<1>2. CASE SendLaunch \/ SendStop
  <2>1. PICK op \in Launches \cup {"stop"}, p \in Profiles : Send(op, p)
    BY <1>2 DEF SendLaunch, SendStop
  <2>2. issued + 1 \in Numbers
    BY <2>1 DEF Send, TypeOK, Numbers
  <2> QED
    BY <1>1, <2>1, <2>2 DEF Command
<1>3. CASE SendRelease \/ SendShutdown
  <2>1. PICK op \in {"release", "shutdown"} : Send(op, NoProfile)
    BY <1>3 DEF SendRelease, SendShutdown
  <2>2. issued + 1 \in Numbers
    BY <2>1 DEF Send, TypeOK, Numbers
  <2> QED
    BY <1>1, <2>1, <2>2 DEF Command
<1>4. CASE HangUp
  BY <1>4 DEF HangUp, TypeOK, thread, launch, stopping, sessions, processes, disk,
              published, history, ThreadTypeOK, SessionsTypeOK
<1>5. ASSUME NEW p \in Profiles, BrowserExits(p) \/ XrayExits(p) \/ PidRecycled(p)
      PROVE  TypeOK'
  BY <1>5 DEF BrowserExits, XrayExits, PidRecycled, TypeOK, channel, thread, launch,
              stopping, sessions, disk, published, history, ThreadTypeOK,
              SessionsTypeOK, ProcessState
<1> QED
  BY <1>2, <1>3, <1>4, <1>5 DEF Environment

\* The steps that end sessions.
LEMMA StopperTypes == TypeInv /\ Stopper => TypeOK'
<1> SUFFICES ASSUME TypeInv, Stopper PROVE TypeOK'
  OBVIOUS
<1> USE DEF TypeInv, TypeOK
<1>1. \A S \in SUBSET Profiles : KillAll(S) => SessionsTypeOK'
  BY KillAllTypes
<1>2. Exited \subseteq Profiles
  BY DEF Exited, Active
<1>3. CASE TailPoll
  BY <1>1, <1>2, <1>3 DEF TailPoll, Reap, channel, launch, stopping, history,
                          ThreadTypeOK, Pcs
<1>4. CASE QuietTick \/ DrainPoll
  BY <1>1, <1>2, <1>4 DEF QuietTick, DrainPoll, Reap, channel, thread, launch, stopping,
                          history, ThreadTypeOK
<1>5. CASE DrainEnds
  BY <1>5 DEF DrainEnds, channel, launch, stopping, sessions, processes, disk,
              published, history, ThreadTypeOK, SessionsTypeOK, Pcs
<1>6. CASE Kill
  <2>1. victim \in Profiles
    BY <1>6 DEF Kill, Control, ThreadTypeOK
  <2> QED
    BY <1>1, <1>6, <2>1 DEF Kill, channel, launch, history, ThreadTypeOK, Pcs
<1>7. CASE StopsDone
  <2>1. owed' \in [p : Profiles \cup {NoProfile}, n : 0..MaxCommands]
    BY <1>7, BoundAssumption DEF StopsDone, Idle
  <2>2. acked' \in [Profiles -> 0..MaxCommands]
    BY <1>7 DEF StopsDone, Acknowledge, Larger, ThreadTypeOK
  <2> QED
    BY <1>7, <2>1, <2>2 DEF StopsDone, launch, sessions, processes, disk, history,
                            ThreadTypeOK, SessionsTypeOK, Pcs, PollPcs
<1>8. ASSUME NEW p \in Profiles, StopNext(p) PROVE TypeOK'
  BY <1>8 DEF StopNext, channel, launch, sessions, processes, disk, history,
              ThreadTypeOK, SessionsTypeOK, Pcs, SnapState
<1> QED
  BY <1>3, <1>4, <1>5, <1>6, <1>7, <1>8 DEF Stopper

\* The steps that take a command at the top of the loop.
LEMMA CommandLoopTypes == TypeInv /\ CommandLoop => TypeOK'
<1> SUFFICES ASSUME TypeInv, CommandLoop PROVE TypeOK'
  OBVIOUS
<1> USE DEF TypeInv, TypeOK, ThreadTypeOK
<1>1. Active \subseteq Profiles
  BY DEF Active
<1>2. CASE LeaveLoop
  BY <1>1, <1>2 DEF LeaveLoop, Cleanup, channel, launch, sessions, processes, disk,
                    published, history, SessionsTypeOK, Pcs
<1>3. ASSUME NEW c \in Queued,
             HandleStart(c) \/ HandleStop(c) \/ HandleRestart(c)
             \/ HandleRelease(c) \/ HandleShutdown(c)
      PROVE  TypeOK'
  <2>1. c \in Command /\ c.n \in 0..MaxCommands
    BY BoundAssumption DEF Queued, Command, Numbers
  <2>2. c.op \notin {"release", "shutdown"} => c.p \in Profiles
    BY <2>1 DEF Command
  <2>3. CASE HandleStart(c)
    BY <2>1, <2>2, <2>3 DEF HandleStart, Pop, stopping, sessions, processes, disk,
                            published, history, SessionsTypeOK, Pcs
  <2>4. CASE HandleStop(c)
    BY <2>1, <2>2, <2>4 DEF HandleStop, Pop, launch, sessions, processes, disk,
                            published, SessionsTypeOK, Pcs
  <2>5. CASE HandleRestart(c)
    BY <2>1, <2>2, <2>5 DEF HandleRestart, Pop, sessions, processes, disk,
                            published, history, SessionsTypeOK, Pcs
  <2>6. CASE HandleRelease(c)
    BY <1>1, <2>6 DEF HandleRelease, PublishReleased, launch, stopping, processes,
                      SessionsTypeOK, SnapState
  <2>7. CASE HandleShutdown(c)
    BY <1>1, <2>7 DEF HandleShutdown, Cleanup, launch, sessions, processes, disk,
                      published, history, SessionsTypeOK, Pcs
  <2> QED
    BY <1>3, <2>3, <2>4, <2>5, <2>6, <2>7
<1> QED
  BY <1>2, <1>3 DEF CommandLoop, Queued

\* The steps of a poll of the channel.
LEMMA PollTypes == TypeInv /\ PollCommands => TypeOK'
<1> SUFFICES ASSUME TypeInv, PollCommands PROVE TypeOK'
  OBVIOUS
<1> USE DEF TypeInv, TypeOK, ThreadTypeOK
<1>1. Active \subseteq Profiles /\ Exited \subseteq Profiles
  BY DEF Active, Exited
<1>2. CASE BeginPoll
  <2>1. SessionsTypeOK'
    BY <1>1, <1>2, KillAllTypes DEF BeginPoll, Reap
  <2> QED
    BY <1>2, <2>1, BoundAssumption DEF BeginPoll, channel, stopping, history, Pcs, PollPcs
<1>3. CASE PollDisconnected
  BY <1>1, <1>3 DEF PollDisconnected, Abandon, Cleanup, channel, sessions, processes,
                    disk, published, history, SessionsTypeOK, Pcs
<1>4. CASE PollReturns
  BY <1>4, BoundAssumption DEF PollReturns, channel, stopping, sessions, processes, disk,
                               published, history, SessionsTypeOK, Pcs
<1>5. ASSUME NEW c \in cmds,
             PollShutdown(c) \/ PollStop(c) \/ PollDuplicate(c) \/ PollRestart(c)
             \/ PollPark(c)
      PROVE  TypeOK'
  <2>1. c \in Command /\ c.n \in 0..MaxCommands
    BY BoundAssumption DEF Command, Numbers
  <2>2. c.op \notin {"release", "shutdown"} => c.p \in Profiles
    BY <2>1 DEF Command
  <2>3. cmds' \subseteq Command /\ budget' \in 0..Batch
    BY <1>5, BoundAssumption DEF PollShutdown, PollStop, PollDuplicate, PollRestart,
                                 PollPark, Receives
  <2>4. CASE PollShutdown(c)
    BY <1>1, <2>3, <2>4 DEF PollShutdown, Abandon, Cleanup, sessions, processes, disk,
                            published, history, SessionsTypeOK, Pcs
  <2>5. CASE PollStop(c)
    <3>1. lastStop' \in [Profiles -> 0..MaxCommands] /\ pending' \subseteq Command
      BY <2>1, <2>5 DEF PollStop, Unpark
    <3>2. /\ owed' \in [p : Profiles \cup {NoProfile}, n : 0..MaxCommands]
          /\ stops' \subseteq Profiles /\ pc' \in Pcs
          /\ after' \in {"tail", "start", "recv", "cancel", "idle", "done"}
      <4>1. \A d \in Parked(c.p) : d.n \in 0..MaxCommands
        BY BoundAssumption DEF Parked, Command, Numbers
      <4>2. {0} \cup {d.n : d \in Parked(c.p)} \subseteq 0..MaxCommands
        BY <4>1, BoundAssumption
      <4> QED
        BY <2>2, <2>5, <4>2 DEF PollStop, Receives, Pcs
    <3> QED
      BY <2>3, <2>5, <3>1, <3>2 DEF PollStop, sessions, processes, disk, published,
                                    SessionsTypeOK
  <2>6. CASE PollDuplicate(c)
    BY <2>3, <2>6 DEF PollDuplicate, stopping, sessions, processes, disk, published,
                      history, SessionsTypeOK
  <2>7. CASE PollRestart(c)
    BY <2>1, <2>3, <2>7 DEF PollRestart, stopping, sessions, processes, disk, published,
                            history, SessionsTypeOK, Pcs
  <2>8. CASE PollPark(c)
    BY <2>1, <2>3, <2>8 DEF PollPark, stopping, sessions, processes, disk, published,
                            history, SessionsTypeOK
  <2> QED
    BY <1>5, <2>4, <2>5, <2>6, <2>7, <2>8
<1> QED
  BY <1>2, <1>3, <1>4, <1>5 DEF PollCommands

\* The steps of a start.
LEMMA StarterTypes == TypeInv /\ Starter => TypeOK'
<1> SUFFICES ASSUME TypeInv, Starter PROVE TypeOK'
  OBVIOUS
<1> USE DEF TypeInv, TypeOK, ThreadTypeOK
<1>1. cur \in [p : Profiles, n : Numbers] /\ cur.n \in 0..MaxCommands
  <2>1. InStart
    BY DEF Starter, StartRefused, StartBegins, PrepareDirect, PrepareProxied,
           XrayAnswers, NotYet, SpawnBrowser, ProbeAnswers, StartSucceeds, StartFails,
           StartCancelled, InStart, StartPcs
  <2> QED
    BY <2>1, BoundAssumption DEF Control, Numbers
<1>2. acked' = acked \/ Acknowledge(cur.p, cur.n) => acked' \in [Profiles -> 0..MaxCommands]
  BY <1>1 DEF Acknowledge, Larger
<1>3. StartOver => /\ pc' \in Pcs /\ resume' \in StartPcs /\ budget' \in 0..Batch
                   /\ tries' \in 0..Rounds
                   /\ cur' \in [p : Profiles \cup {NoProfile}, n : 0..MaxCommands]
  BY BoundAssumption DEF StartOver, Pcs, StartPcs, Idle
<1>4. \A next \in StartPcs : PollThen(next) => pc' \in Pcs /\ resume' \in StartPcs
  BY DEF PollThen, Pcs, PollPcs
<1>5. CASE StartRefused
  BY <1>2, <1>3, <1>5 DEF StartRefused, channel, stopping, sessions, processes, disk,
                          history, SessionsTypeOK
<1>6. CASE StartBegins
  BY <1>4, <1>6 DEF StartBegins, channel, stopping, sessions, processes, disk, history,
                    SessionsTypeOK, SnapState, StartPcs
<1>7. CASE PrepareDirect \/ XrayAnswers \/ ProbeAnswers
  <2>1. pc' \in Pcs /\ resume' \in StartPcs
    BY <1>4, <1>7 DEF PrepareDirect, XrayAnswers, ProbeAnswers, StartPcs
  <2> QED
    BY <1>7, <2>1 DEF PrepareDirect, XrayAnswers, ProbeAnswers, channel, stopping,
              sessions, processes, disk, published, history, SessionsTypeOK
<1>8. CASE PrepareProxied
  BY <1>1, <1>4, <1>8, BoundAssumption
  DEF PrepareProxied, channel, stopping, sessions, published, history, SessionsTypeOK,
      ProcessState, StartPcs
<1>9. CASE NotYet
  <2>1. pc \in StartPcs /\ tries' \in 0..Rounds
    BY <1>9, BoundAssumption DEF NotYet, Countdown, StartPcs
  <2> QED
    BY <1>4, <1>9, <2>1 DEF NotYet, channel, stopping, sessions, processes, disk,
                            published, history, SessionsTypeOK
<1>10. CASE SpawnBrowser
  BY <1>1, <1>4, <1>10, BoundAssumption
  DEF SpawnBrowser, channel, stopping, sessions, published, history, SessionsTypeOK,
      ProcessState, StartPcs
<1>11. CASE StartSucceeds
  <2>1. runs' \in [Profiles -> 0..MaxCommands]
    BY <1>1, <1>11 DEF StartSucceeds
  <2> QED
    BY <1>1, <1>2, <1>3, <1>11, <2>1
    DEF StartSucceeds, channel, stopping, processes, disk, SessionsTypeOK, SnapState
<1>12. CASE StartFails \/ StartCancelled
  <2>1. PICK state \in {"Failed", "Stopped"} : GiveUp(state)
    BY <1>12 DEF StartFails, StartCancelled
  <2>2. SessionsTypeOK'
    BY <1>1, <2>1 DEF GiveUp, EndChildren, sessions, SessionsTypeOK, ProcessState,
                      SnapState
  <2> QED
    BY <1>2, <1>3, <2>1, <2>2 DEF GiveUp, channel, stopping, history
<1> QED
  BY <1>5, <1>6, <1>7, <1>8, <1>9, <1>10, <1>11, <1>12 DEF Starter

-----------------------------------------------------------------------------
(* The control state.                                                       *)

LEMMA InitControl == Init => Control
  BY DEF Init, Control, InStart, InStop, StartPcs, PollPcs, Idle

LEMMA EnvironmentControl == TypeInv /\ Environment => Control'
<1> SUFFICES ASSUME TypeInv, Environment PROVE Control'
  OBVIOUS
<1>1. UNCHANGED <<thread, sessions>>
  BY DEF Environment, SendLaunch, SendStop, SendRelease, SendShutdown, Send, HangUp,
         BrowserExits, XrayExits, PidRecycled
<1> QED
  BY <1>1 DEF TypeInv, Control, InStart, InStop, thread, launch, stopping, sessions, Idle

\* A reaping of the sessions in the table leaves the one being stopped alone.
LEMMA ReapKeepsVictim ==
    ASSUME TypeInv, Reap, victim \in Profiles
    PROVE  held'[victim] = held[victim]
  BY KillAllEffect DEF TypeInv, TypeOK, Reap, Exited, Active, Untouched

LEMMA StopperControl == TypeInv /\ Stopper => Control'
<1> SUFFICES ASSUME TypeInv, Stopper PROVE Control'
  OBVIOUS
<1> USE DEF TypeInv, Control, InStart, InStop
<1>1. CASE TailPoll
  BY <1>1 DEF TailPoll, launch, stopping, StartPcs, PollPcs, Idle
<1>2. CASE QuietTick
  BY <1>2 DEF QuietTick, thread, launch, stopping, StartPcs, PollPcs, Idle
<1>3. CASE DrainPoll
  <2>1. held'[victim] = held[victim]
    BY <1>3, ReapKeepsVictim DEF DrainPoll, TypeOK, ThreadTypeOK
  <2> QED
    BY <1>3, <2>1 DEF DrainPoll, thread, launch, stopping, StartPcs, PollPcs, Idle
<1>4. CASE DrainEnds
  BY <1>4 DEF DrainEnds, launch, stopping, sessions, StartPcs, PollPcs, Idle
<1>5. CASE Kill
  BY <1>5 DEF Kill, launch, StartPcs, PollPcs, Idle
<1>6. CASE StopsDone
  BY <1>6 DEF StopsDone, launch, TypeOK, ThreadTypeOK, StartPcs, PollPcs, Idle
<1>7. ASSUME NEW p \in Profiles, StopNext(p) PROVE Control'
  BY <1>7 DEF StopNext, Active, launch, sessions, StartPcs, PollPcs, Idle
<1> QED
  BY <1>1, <1>2, <1>3, <1>4, <1>5, <1>6, <1>7 DEF Stopper

LEMMA CommandLoopControl == TypeInv /\ CommandLoop => Control'
<1> SUFFICES ASSUME TypeInv, CommandLoop PROVE Control'
  OBVIOUS
<1> USE DEF TypeInv, Control, InStart, InStop, StartPcs, PollPcs, Idle
<1>1. CASE LeaveLoop
  BY <1>1 DEF LeaveLoop, Cleanup, launch
<1>2. ASSUME NEW c \in Queued,
             HandleStart(c) \/ HandleStop(c) \/ HandleRestart(c)
             \/ HandleRelease(c) \/ HandleShutdown(c)
      PROVE  Control'
  <2>1. c.op \in Launches => [p |-> c.p, n |-> c.n] \in [p : Profiles, n : Numbers]
    BY DEF Queued, TypeOK, ThreadTypeOK, Command, Launches
  <2>2. CASE HandleStart(c) \/ HandleRestart(c)
    BY <2>1, <2>2 DEF HandleStart, HandleRestart, stopping, Launches
  <2>3. CASE HandleStop(c) \/ HandleShutdown(c)
    BY <2>3 DEF HandleStop, HandleShutdown, Cleanup, launch
  <2>4. CASE HandleRelease(c)
    BY <2>4 DEF HandleRelease, launch, stopping
  <2> QED
    BY <1>2, <2>2, <2>3, <2>4
<1> QED
  BY <1>1, <1>2 DEF CommandLoop, Queued

LEMMA PollControl == TypeInv /\ PollCommands => Control'
<1> SUFFICES ASSUME TypeInv, PollCommands PROVE Control'
  OBVIOUS
<1> USE DEF TypeInv, Control, InStart, InStop, StartPcs, PollPcs
<1>1. CASE BeginPoll
  BY <1>1 DEF BeginPoll, stopping, Idle
<1>2. CASE PollDisconnected
  BY <1>2 DEF PollDisconnected, Abandon, Cleanup, Idle
<1>3. CASE PollReturns
  BY <1>3 DEF PollReturns, stopping, TypeOK, ThreadTypeOK, Idle
<1>4. ASSUME NEW c \in cmds,
             PollShutdown(c) \/ PollStop(c) \/ PollDuplicate(c) \/ PollRestart(c)
             \/ PollPark(c)
      PROVE  Control'
  <2>1. CASE PollShutdown(c)
    BY <2>1 DEF PollShutdown, Receives, Abandon, Cleanup, Idle
  <2>2. CASE PollStop(c)
    <3>1. c.p \in Profiles
      BY <2>2 DEF PollStop, TypeOK, Command
    <3> QED
      BY <2>2, <3>1 DEF PollStop, Receives
  <2>3. CASE PollDuplicate(c)
    BY <2>3 DEF PollDuplicate, Receives, stopping, Idle
  <2>4. CASE PollRestart(c)
    BY <2>4 DEF PollRestart, Receives, stopping, Idle
  <2>5. CASE PollPark(c)
    BY <2>5 DEF PollPark, Receives, stopping, Idle
  <2> QED
    BY <1>4, <2>1, <2>2, <2>3, <2>4, <2>5
<1> QED
  BY <1>1, <1>2, <1>3, <1>4 DEF PollCommands

LEMMA StarterControl == TypeInv /\ Starter => Control'
<1> SUFFICES ASSUME TypeInv, Starter PROVE Control'
  OBVIOUS
<1> USE DEF TypeInv, Control, InStart, InStop, StartPcs, PollPcs, Idle
<1>1. CASE StartRefused \/ StartSucceeds \/ StartFails \/ StartCancelled
  BY <1>1 DEF StartRefused, StartSucceeds, StartFails, StartCancelled, GiveUp, StartOver,
              stopping
<1>2. CASE StartBegins \/ PrepareDirect \/ PrepareProxied \/ XrayAnswers \/ NotYet
           \/ SpawnBrowser \/ ProbeAnswers
  BY <1>2 DEF StartBegins, PrepareDirect, PrepareProxied, XrayAnswers, NotYet,
              SpawnBrowser, ProbeAnswers, PollThen, stopping
<1> QED
  BY <1>1, <1>2 DEF Starter

LEMMA StutterTypes == TypeInv /\ UNCHANGED vars => TypeInv'
  BY DEF vars, channel, thread, launch, stopping, sessions, processes, disk, published,
         history, TypeInv, TypeOK, ThreadTypeOK, SessionsTypeOK, Control, InStart, InStop,
         Idle

LEMMA StepTypes == TypeInv /\ [Next]_vars => TypeInv'
  BY EnvironmentTypes, StopperTypes, CommandLoopTypes, PollTypes, StarterTypes,
     EnvironmentControl, StopperControl, CommandLoopControl, PollControl, StarterControl,
     StutterTypes
  DEF TypeInv, Next, Supervise

LEMMA TypeInvariant == Spec => []TypeInv
<1>1. Init => TypeInv
  BY InitTypes, InitControl DEF TypeInv
<1> QED
  BY <1>1, StepTypes, PTL DEF Spec

\* Every variable of the supervisor, its locals and its published snapshots keep
\* their type in every run (RuntimeSupervisor and the locals of start_profile).
THEOREM TypeCorrect == Spec => []TypeOK
<1>1. TypeInv => TypeOK
  BY DEF TypeInv
<1> QED
  BY <1>1, TypeInvariant, PTL

-----------------------------------------------------------------------------
(* Custody.                                                                 *)

LEMMA InitCustody == Init => Custody
<1> SUFFICES ASSUME Init PROVE Custody
  OBVIOUS
<1>1. AttemptHolds /\ ReleaseIsLast
  BY DEF Init, AttemptHolds, ReleaseIsLast, Attempting, InStart, InStop, BeforeSpawn,
         StartPcs, PollPcs
<1>2. CleanupCovers
  BY ProfileAssumption DEF Init, CleanupCovers, InStop, Active
<1>3. NothingStray
  <2>1. \A p \in Profiles : held[p] = "none" =>
           browser[p] = "none" /\ xray[p] = "none" /\ p \notin record \cup config
    BY ProfileAssumption DEF Init, Active
  <2> QED
    BY <2>1 DEF NothingStray, Accounted
<1> QED
  BY <1>1, <1>2, <1>3 DEF Custody

LEMMA EnvironmentCustody == TypeInv /\ Custody /\ Environment => Custody'
<1> SUFFICES ASSUME TypeInv, Custody, Environment PROVE Custody'
  OBVIOUS
<1>1. UNCHANGED <<thread, sessions, disk, released>>
  BY DEF Environment, SendLaunch, SendStop, SendRelease, SendShutdown, Send, HangUp,
         BrowserExits, XrayExits, PidRecycled, history
<1> DEFINE Kept(p) == /\ browser'[p] = "none" <=> browser[p] = "none"
                      /\ xray'[p] = "none" <=> xray[p] = "none"
<1>2. \A p \in Profiles : Kept(p)
  <2>1. CASE UNCHANGED processes
    BY <2>1 DEF processes
  <2>2. ASSUME NEW p \in Profiles, BrowserExits(p) \/ XrayExits(p) \/ PidRecycled(p)
        PROVE  \A q \in Profiles : Kept(q)
    BY <2>2 DEF BrowserExits, XrayExits, PidRecycled, Recycled, TypeInv, TypeOK,
                SessionsTypeOK
  <2> QED
    BY <2>1, <2>2 DEF Environment, SendLaunch, SendStop, SendRelease, SendShutdown, Send,
                      HangUp
<1> USE <1>1, <1>2 DEF Custody, thread, launch, stopping, sessions, disk
<1>3. AttemptHolds'
  BY DEF AttemptHolds, Attempting, InStart, InStop, BeforeSpawn, TypeInv, Control,
         StartPcs, PollPcs
<1>4. ReleaseIsLast' /\ CleanupCovers'
  BY DEF ReleaseIsLast, CleanupCovers, InStart, InStop, Active
<1>5. NothingStray'
  BY DEF NothingStray, Accounted, Attempting, InStart, InStop
<1> QED
  BY <1>3, <1>4, <1>5

\* Ending a set of sessions takes nothing from any other owner.
LEMMA KillAllCustody ==
    ASSUME TypeInv, Custody, NEW S \in SUBSET Profiles, KillAll(S),
           \A p \in S : held[p] # "none",
           Attempting => Attempting' /\ cur' = cur, released' = released
    PROVE  /\ NothingStray'
           /\ \A p \in Profiles : held[p] = "none" => Untouched(p)
           /\ \A p \in Profiles : held'[p] = "adopted" => p \in record'
           /\ \A p \in stopFailed' : held'[p] = "adopted"
<1>1. \A p \in Profiles : IF p \in S THEN Over(p) \/ PutBack(p) ELSE Untouched(p)
  BY KillAllEffect DEF TypeInv, TypeOK
<1>2. \A p \in Profiles : held[p] = "none" => Untouched(p)
  BY <1>1
<1>3. NothingStray'
  <2> SUFFICES ASSUME NEW p \in Profiles,
                      browser'[p] # "none" \/ xray'[p] # "none" \/ p \in record' \cup config'
               PROVE  Accounted(p)'
    BY DEF NothingStray
  <2>1. CASE Over(p)
    BY <2>1 DEF Over
  <2>2. CASE PutBack(p)
    BY <2>2 DEF PutBack, Accounted
  <2>3. CASE Untouched(p)
    <3>1. Accounted(p)
      BY <2>3 DEF Untouched, Custody, NothingStray
    <3> QED
      BY <2>3, <3>1 DEF Untouched, Accounted
  <2> QED
    BY <1>1, <2>1, <2>2, <2>3
<1>4. \A p \in Profiles : /\ held'[p] = "adopted" => p \in record'
                          /\ p \in stopFailed' => held'[p] = "adopted"
  <2> SUFFICES ASSUME NEW p \in Profiles
               PROVE  /\ held'[p] = "adopted" => p \in record'
                      /\ p \in stopFailed' => held'[p] = "adopted"
    OBVIOUS
  <2>1. /\ held[p] = "adopted" => p \in record
        /\ p \in stopFailed => held[p] = "adopted"
    BY DEF Custody, CleanupCovers
  <2>2. CASE Over(p)
    BY <2>2 DEF Over
  <2>3. CASE PutBack(p)
    BY <2>1, <2>3 DEF PutBack
  <2>4. CASE Untouched(p)
    BY <2>1, <2>4 DEF Untouched
  <2> QED
    BY <1>1, <2>2, <2>3, <2>4
<1>5. stopFailed' \subseteq Profiles
  BY KillAllTypes DEF TypeInv, TypeOK, SessionsTypeOK
<1> QED
  BY <1>2, <1>3, <1>4, <1>5

LEMMA ReapCustody ==
    ASSUME TypeInv, Custody, Reap, UNCHANGED <<cur, stops, victim, after, released, down>>,
           Attempting' <=> Attempting, InStart' <=> InStart, BeforeSpawn' => BeforeSpawn,
           InStop' <=> InStop, pc' = "done" => pc = "done"
    PROVE  Custody'
<1>1. Exited \subseteq Profiles /\ \A p \in Exited : held[p] # "none"
  BY DEF Exited, Active
<1>2. /\ NothingStray'
      /\ \A p \in Profiles : held[p] = "none" => Untouched(p)
      /\ \A p \in Profiles : held'[p] = "adopted" => p \in record'
      /\ \A p \in stopFailed' : held'[p] = "adopted"
  BY <1>1, KillAllCustody DEF Reap
<1>3. AttemptHolds'
  <2>1. InStart => cur.p \in Profiles
    BY DEF TypeInv, Control
  <2>2. Attempting => InStart
    BY DEF Attempting
  <2>3. BeforeSpawn => Attempting
    BY DEF BeforeSpawn, Attempting, InStart, InStop, TypeInv, Control, StartPcs, PollPcs
  <2> QED
    BY <1>2, <2>1, <2>2, <2>3 DEF AttemptHolds, Custody, Untouched
<1>4. ReleaseIsLast'
  BY <1>2 DEF ReleaseIsLast, Custody, Untouched
<1>5. CleanupCovers'
  <2>1. \A p \in Profiles : IF p \in Exited THEN Over(p) \/ PutBack(p) ELSE Untouched(p)
    BY <1>1, KillAllEffect DEF Reap, TypeInv, TypeOK
  <2>2. \A p \in Active' : p \in Active /\ (p \in stopFailed => p \in stopFailed')
    BY <2>1 DEF Active, Exited, Over, PutBack, Untouched
  <2> QED
    BY <1>2, <2>2 DEF CleanupCovers, Custody
<1> QED
  BY <1>2, <1>3, <1>4, <1>5 DEF Custody

LEMMA StopperCustody == TypeInv /\ Custody /\ Stopper => Custody'
<1> SUFFICES ASSUME TypeInv, Custody, Stopper PROVE Custody'
  OBVIOUS
<1>1. CASE TailPoll \/ QuietTick \/ DrainPoll
  <2>1. Reap /\ UNCHANGED <<cur, stops, victim, after, released, down>>
    BY <1>1 DEF TailPoll, QuietTick, DrainPoll, thread, launch, stopping, history
  <2>2. /\ Attempting' <=> Attempting
        /\ InStart' <=> InStart
        /\ BeforeSpawn' => BeforeSpawn
        /\ InStop' <=> InStop
        /\ pc' = "done" => pc = "done"
    BY <1>1 DEF TailPoll, QuietTick, DrainPoll, thread, launch, stopping, Attempting,
                InStart, BeforeSpawn, InStop, TypeInv, Control, StartPcs, PollPcs
  <2> QED
    BY <2>1, <2>2, ReapCustody
<1>2. CASE DrainEnds
  <2>1. UNCHANGED <<cur, stops, victim, after, resume, sessions, processes, disk, released, down>>
    BY <1>2 DEF DrainEnds, launch, stopping, history
  <2>2. Attempting' = Attempting /\ InStart' = InStart /\ InStop' = InStop
        /\ BeforeSpawn' = BeforeSpawn /\ pc' # "done"
    BY <1>2, <2>1 DEF DrainEnds, Attempting, InStart, InStop, BeforeSpawn, StartPcs, PollPcs
  <2> QED
    BY <2>1, <2>2 DEF Custody, AttemptHolds, ReleaseIsLast, CleanupCovers, NothingStray,
                      Accounted, Active, sessions, processes, disk
<1>3. CASE Kill
  <2>1. /\ victim \in Profiles /\ victim \in stops /\ held[victim] # "none"
        /\ KillAll({victim})
        /\ UNCHANGED <<cur, after, resume, released, down>>
        /\ victim' = NoProfile /\ stops' = stops \ {victim} /\ pc = "kill" /\ pc' = "stop"
    BY <1>3 DEF Kill, launch, history, TypeInv, TypeOK, ThreadTypeOK, Control
  <2>2. Attempting' = Attempting /\ InStart' = InStart /\ BeforeSpawn' = BeforeSpawn
    BY <2>1 DEF Attempting, InStart, InStop, BeforeSpawn, StartPcs, PollPcs
  <2>3. /\ NothingStray'
        /\ \A p \in Profiles : held[p] = "none" => Untouched(p)
        /\ \A p \in Profiles : held'[p] = "adopted" => p \in record'
        /\ \A p \in stopFailed' : held'[p] = "adopted"
    BY <2>1, <2>2, KillAllCustody
  <2>4. AttemptHolds'
    <3>1. Attempting => cur.p \in Profiles
      BY DEF Attempting, TypeInv, Control
    <3>2. BeforeSpawn => Attempting
      BY DEF BeforeSpawn, Attempting, InStart, InStop, TypeInv, Control, StartPcs, PollPcs
    <3> QED
      BY <2>1, <2>2, <2>3, <3>1, <3>2 DEF AttemptHolds, Custody, Untouched
  <2>5. ReleaseIsLast'
    BY <2>1, <2>2, <2>3 DEF ReleaseIsLast, Custody, Untouched
  <2>6. CleanupCovers'
    <3>1. \A p \in Profiles : IF p = victim THEN Over(p) \/ PutBack(p) ELSE Untouched(p)
      BY <2>1, KillAllEffect DEF TypeInv, TypeOK
    <3>2. \A p \in Active' : IF p = victim THEN p \in stopFailed'
                             ELSE p \in Active /\ (p \in stopFailed => p \in stopFailed')
      BY <3>1 DEF Active, Over, PutBack, Untouched
    <3> QED
      BY <2>1, <2>3, <3>2 DEF CleanupCovers, Custody, InStop
  <2> QED
    BY <2>3, <2>4, <2>5, <2>6 DEF Custody
<1>4. CASE StopsDone
  <2>1. /\ UNCHANGED <<cur, stops, victim, resume, sessions, processes, disk, released, down>>
        /\ pc = "stop" /\ stops = {} /\ pc' = after /\ after' = "tail"
    BY <1>4 DEF StopsDone, launch, history
  <2>2. InStart' = InStart /\ Attempting' = Attempting /\ (BeforeSpawn' => BeforeSpawn)
    BY <2>1 DEF Attempting, InStart, InStop, BeforeSpawn, TypeInv, TypeOK, ThreadTypeOK,
                StartPcs, PollPcs
  <2> QED
    BY <2>1, <2>2 DEF Custody, AttemptHolds, ReleaseIsLast, CleanupCovers, NothingStray,
                      Accounted, Active, InStop, TypeInv, TypeOK, ThreadTypeOK, sessions,
                      processes, disk
<1>5. ASSUME NEW p \in Profiles, StopNext(p) PROVE Custody'
  <2>1. /\ UNCHANGED <<cur, after, resume, sessions, processes, disk, released, down>>
        /\ pc = "stop" /\ pc' \in {"stop", "drain", "kill"}
        /\ IF p \in Active THEN victim' = p /\ stops' = stops
           ELSE stops' = stops \ {p} /\ victim' = victim
    BY <1>5 DEF StopNext, launch, history
  <2>2. InStart' = InStart /\ Attempting' = Attempting /\ BeforeSpawn' = BeforeSpawn
        /\ InStop' = InStop
    BY <2>1 DEF Attempting, InStart, InStop, BeforeSpawn, StartPcs, PollPcs
  <2>3. Active' \subseteq Active /\ (p \notin Active => Active' = Active)
    BY <2>1, ProfileAssumption DEF Active, sessions, TypeInv, Control
  <2>4. CleanupCovers'
    BY <2>1, <2>2, <2>3 DEF Custody, CleanupCovers, sessions, disk
  <2> QED
    BY <2>1, <2>2, <2>4 DEF Custody, AttemptHolds, ReleaseIsLast, NothingStray,
                            Accounted, sessions, processes, disk
<1> QED
  BY <1>1, <1>2, <1>3, <1>4, <1>5 DEF Stopper

\* A step that moves neither processes, sessions nor files.
LEMMA QuietCustody ==
    ASSUME TypeInv, Custody, UNCHANGED <<sessions, processes, disk, victim, released>>,
           Attempting' => held[cur'.p] = "none",
           BeforeSpawn' => browser[cur'.p] = "none",
           \A p \in Profiles : Attempting /\ cur.p = p /\ held[p] = "none" =>
               \/ Attempting' /\ cur'.p = p
               \/ browser[p] = "none" /\ xray[p] = "none" /\ p \notin record \cup config,
           released # {} => down' /\ ~InStart',
           InStop' /\ after' = "done" => Active \subseteq stops' \cup stopFailed,
           pc' # "done"
    PROVE  Custody'
<1>1. AttemptHolds' /\ ReleaseIsLast' /\ CleanupCovers'
  BY DEF AttemptHolds, ReleaseIsLast, CleanupCovers, Custody, Active, sessions,
         processes, disk
<1>2. NothingStray'
  BY DEF NothingStray, Accounted, Custody, sessions, processes, disk
<1> QED
  BY <1>1, <1>2 DEF Custody

LEMMA CommandLoopCustody == TypeInv /\ Custody /\ CommandLoop => Custody'
<1> SUFFICES ASSUME TypeInv, Custody, CommandLoop PROVE Custody'
  OBVIOUS
<1>1. pc = "idle" /\ ~InStart /\ ~Attempting /\ victim = NoProfile
  BY DEF CommandLoop, LeaveLoop, HandleStart, HandleStop, HandleRestart, HandleRelease,
         HandleShutdown, InStart, InStop, Attempting, StartPcs, PollPcs, TypeInv, Control
<1>2. CASE LeaveLoop
  <2>1. /\ UNCHANGED <<sessions, processes, disk, victim, released, down, cur>>
        /\ pc' = "stop" /\ after' = "done" /\ stops' = Active
    BY <1>2 DEF LeaveLoop, Cleanup, launch, history
  <2>2. ~InStart' /\ ~Attempting' /\ ~BeforeSpawn'
    BY <2>1 DEF InStart, InStop, Attempting, BeforeSpawn, StartPcs, PollPcs
  <2> QED
    BY <1>1, <2>1, <2>2, QuietCustody DEF Custody, ReleaseIsLast
<1>3. ASSUME NEW c \in Queued, HandleRelease(c) PROVE Custody'
  <2>1. /\ UNCHANGED <<processes, record, config, victim, cur, stops, after, pc>>
        /\ held' = [p \in Profiles |-> "none"] /\ down' /\ released' = Active
        /\ stopFailed' = {}
    BY <1>3 DEF HandleRelease, launch, stopping
  <2>2. ~InStart' /\ ~Attempting' /\ ~BeforeSpawn'
    BY <1>1, <1>3, <2>1 DEF HandleRelease, launch, InStart, InStop, Attempting, BeforeSpawn,
                            StartPcs, PollPcs, TypeInv, Control
  <2>3. released = {}
    BY <1>3 DEF HandleRelease, Custody, ReleaseIsLast
  <2>4. \A p \in Profiles : Accounted(p) => p \in released'
    BY <1>1, <2>1, <2>3, ProfileAssumption DEF Accounted, Active
  <2>5. NothingStray'
    BY <2>1, <2>4 DEF NothingStray, Accounted, Custody, processes
  <2>6. AttemptHolds' /\ ReleaseIsLast' /\ CleanupCovers'
    BY <1>1, <2>1, <2>2 DEF AttemptHolds, ReleaseIsLast, CleanupCovers, Active, InStop
  <2> QED
    BY <2>5, <2>6 DEF Custody
<1>4. ASSUME NEW c \in Queued,
             HandleStart(c) \/ HandleStop(c) \/ HandleRestart(c) \/ HandleShutdown(c)
      PROVE  Custody'
  <2>1. /\ UNCHANGED <<sessions, processes, disk, victim, released>>
        /\ ~down
    BY <1>4 DEF HandleStart, HandleStop, HandleRestart, HandleShutdown, stopping, history
  <2>2. ~Attempting' /\ ~BeforeSpawn' /\ after' # "done" /\ pc' # "done"
    BY <1>1, <1>4 DEF HandleStart, HandleStop, HandleRestart, HandleShutdown, Cleanup,
                      stopping, InStart, InStop, Attempting, BeforeSpawn, StartPcs,
                      PollPcs, TypeInv, Control
  <2> QED
    BY <1>1, <2>1, <2>2, QuietCustody DEF Custody, ReleaseIsLast
<1> QED
  BY <1>2, <1>3, <1>4 DEF CommandLoop, Queued

LEMMA PollCustody == TypeInv /\ Custody /\ PollCommands => Custody'
<1> SUFFICES ASSUME TypeInv, Custody, PollCommands PROVE Custody'
  OBVIOUS
<1>1. CASE BeginPoll
  <2>1. Reap /\ UNCHANGED <<cur, stops, victim, after, released, down, resume>>
    BY <1>1 DEF BeginPoll, stopping, history
  <2>2. /\ Attempting' <=> Attempting
        /\ InStart' <=> InStart
        /\ BeforeSpawn' => BeforeSpawn
        /\ InStop' <=> InStop
        /\ pc' # "done"
    BY <1>1, <2>1 DEF BeginPoll, Attempting, InStart, BeforeSpawn, InStop, StartPcs, PollPcs
  <2> QED
    BY <2>1, <2>2, ReapCustody
<1>2. ASSUME PollDisconnected \/ PollReturns
             \/ \E c \in cmds : PollShutdown(c) \/ PollStop(c) \/ PollDuplicate(c)
                                \/ PollRestart(c) \/ PollPark(c)
      PROVE  Custody'
  <2>1. /\ pc = "recv" /\ after = "tail"
        /\ UNCHANGED <<sessions, processes, disk, victim, released, cur, resume>>
    BY <1>2 DEF PollDisconnected, PollReturns, PollShutdown, PollStop, PollDuplicate,
                PollRestart, PollPark, Receives, stopping, history, InStop, TypeInv, Control
  <2>2. \/ pc' \in {"recv", "cancel"} /\ after' = "tail"
        \/ pc' = "stop" /\ after' \in {"recv", "cancel"}
        \/ pc' = resume /\ after' = "tail"
    BY <1>2, <2>1 DEF PollDisconnected, PollReturns, PollShutdown, PollStop,
                      PollDuplicate, PollRestart, PollPark, Abandon, Cleanup, stopping
  <2>3. Attempting /\ Attempting' /\ InStart /\ (BeforeSpawn' => BeforeSpawn)
        /\ after' # "done" /\ pc' # "done"
    BY <2>1, <2>2 DEF Attempting, InStart, InStop, BeforeSpawn, StartPcs, PollPcs,
                      TypeInv, TypeOK, ThreadTypeOK
  <2> QED
    BY <2>1, <2>3, QuietCustody DEF Custody, AttemptHolds, ReleaseIsLast
<1> QED
  BY <1>1, <1>2 DEF PollCommands

\* A launch that is given up takes its children and its files with it.
LEMMA GiveUpCustody ==
    ASSUME TypeInv, Custody, NEW state, Attempting, ~InStop, GiveUp(state)
    PROVE  Custody'
<1>1. /\ cur.p \in Profiles /\ held[cur.p] = "none" /\ released = {}
      /\ after = "tail" /\ victim = NoProfile
  BY DEF TypeInv, Control, Custody, AttemptHolds, ReleaseIsLast, Attempting, InStop
<1>2. /\ UNCHANGED <<after, stops, victim, held, stopFailed, released, down>>
      /\ pc' = "tail"
      /\ browser' = [browser EXCEPT ![cur.p] = "none"]
      /\ xray' = [xray EXCEPT ![cur.p] = "none"]
      /\ config' = config \ {cur.p} /\ record' = record \ {cur.p}
  BY DEF GiveUp, StartOver, EndChildren, stopping, sessions, history
<1>3. ~InStart' /\ ~Attempting' /\ ~BeforeSpawn' /\ ~InStop'
  BY <1>1, <1>2 DEF InStart, InStop, Attempting, BeforeSpawn, StartPcs, PollPcs
<1>4. NothingStray'
  BY <1>1, <1>2 DEF NothingStray, Accounted, Custody, TypeInv, TypeOK, SessionsTypeOK
<1>5. AttemptHolds' /\ ReleaseIsLast' /\ CleanupCovers'
  BY <1>1, <1>2, <1>3 DEF AttemptHolds, ReleaseIsLast, CleanupCovers, Custody
<1> QED
  BY <1>4, <1>5 DEF Custody

LEMMA StarterCustody == TypeInv /\ Custody /\ Starter => Custody'
<1> SUFFICES ASSUME TypeInv, Custody, Starter PROVE Custody'
  OBVIOUS
<1>1. /\ pc \in StartPcs \cup {"start", "cancel"}
      /\ InStart /\ ~InStop /\ after = "tail" /\ stops = {} /\ victim = NoProfile
      /\ cur.p \in Profiles /\ released = {}
  <2>1. pc \in StartPcs \cup {"start", "cancel"}
    BY DEF Starter, StartRefused, StartBegins, PrepareDirect, PrepareProxied,
           XrayAnswers, NotYet, SpawnBrowser, ProbeAnswers, StartSucceeds, StartFails,
           StartCancelled, StartPcs
  <2>2. InStart /\ ~InStop
    BY <2>1 DEF InStart, InStop, StartPcs
  <2> QED
    BY <2>1, <2>2 DEF TypeInv, Control, Custody, ReleaseIsLast, StartPcs
<1>2. CASE StartRefused
  <2>1. /\ UNCHANGED <<sessions, processes, disk, victim, released, stops, after, down>>
        /\ pc = "start" /\ pc' = "tail"
    BY <1>2 DEF StartRefused, StartOver, stopping, history
  <2>2. ~Attempting /\ ~Attempting' /\ ~BeforeSpawn' /\ ~InStart' /\ ~InStop'
    BY <1>1, <2>1 DEF Attempting, BeforeSpawn, InStart, InStop, StartPcs, PollPcs
  <2> QED
    BY <1>1, <2>1, <2>2, QuietCustody
<1>3. CASE StartBegins
  <2>1. /\ UNCHANGED <<sessions, processes, disk, victim, released, stops, after, down, cur>>
        /\ pc = "start" /\ pc' = "poll" /\ cur.p \notin Active
    BY <1>3 DEF StartBegins, MayStart, PollThen, stopping, history
  <2>2. ~Attempting /\ ~InStop' /\ pc' # "done"
    BY <1>1, <2>1 DEF Attempting, InStop
  <2>3. held[cur.p] = "none"
    BY <1>1, <2>1, ProfileAssumption DEF Active
  <2>4. browser[cur.p] = "none"
    BY <1>1, <2>2, <2>3 DEF Custody, NothingStray, Accounted
  <2> QED
    BY <1>1, <2>1, <2>2, <2>3, <2>4, QuietCustody
<1>4. ASSUME pc \in StartPcs PROVE Attempting /\ held[cur.p] = "none"
  BY <1>1, <1>4 DEF Attempting, StartPcs, Custody, AttemptHolds
<1>5. CASE PrepareDirect \/ XrayAnswers \/ ProbeAnswers \/ NotYet
  <2>1. /\ UNCHANGED <<sessions, processes, disk, victim, released, stops, after, down, cur>>
        /\ pc \in StartPcs /\ pc' = "poll"
        /\ resume' \in {"xray", "spawn"} => pc \in {"prepare", "xray"}
        /\ resume' # "prepare"
    BY <1>5 DEF PrepareDirect, XrayAnswers, ProbeAnswers, NotYet, PollThen, stopping, history,
                StartPcs
  <2>2. Attempting' /\ (BeforeSpawn' => BeforeSpawn) /\ ~InStop' /\ pc' # "done"
    BY <1>1, <2>1 DEF Attempting, BeforeSpawn, InStart, InStop, PollPcs
  <2> QED
    BY <1>1, <1>4, <2>1, <2>2, QuietCustody DEF Custody, AttemptHolds
<1>6. CASE PrepareProxied
  <2>1. /\ UNCHANGED <<sessions, browser, record, victim, released, stops, after, down, cur>>
        /\ pc = "prepare" /\ pc' = "poll"
        /\ config' = config \cup {cur.p} /\ xray' = [xray EXCEPT ![cur.p] = "live"]
    BY <1>6 DEF PrepareProxied, PollThen, stopping, history
  <2>2. Attempting /\ held[cur.p] = "none" /\ Attempting' /\ ~InStop' /\ pc' # "done"
        /\ BeforeSpawn
    BY <1>1, <1>4, <2>1 DEF Attempting, InStart, InStop, PollPcs, StartPcs, BeforeSpawn
  <2>3. NothingStray'
    BY <1>1, <2>1, <2>2 DEF NothingStray, Accounted, Custody, sessions, TypeInv, TypeOK,
                            SessionsTypeOK
  <2>4. AttemptHolds' /\ ReleaseIsLast' /\ CleanupCovers'
    BY <1>1, <2>1, <2>2 DEF AttemptHolds, ReleaseIsLast, CleanupCovers, Custody, sessions
  <2> QED
    BY <2>3, <2>4 DEF Custody
<1>7. CASE SpawnBrowser
  <2>1. /\ UNCHANGED <<sessions, xray, config, victim, released, stops, after, down, cur>>
        /\ pc = "spawn" /\ pc' = "poll" /\ resume' = "probe"
        /\ browser' = [browser EXCEPT ![cur.p] = "live"]
        /\ record' \in {record, record \cup {cur.p}}
    BY <1>7 DEF SpawnBrowser, PollThen, stopping, history
  <2>2. Attempting /\ held[cur.p] = "none" /\ Attempting' /\ ~InStop' /\ pc' # "done"
        /\ ~BeforeSpawn'
    BY <1>1, <1>4, <2>1 DEF Attempting, InStart, InStop, PollPcs, StartPcs, BeforeSpawn
  <2>3. NothingStray'
    BY <1>1, <2>1, <2>2 DEF NothingStray, Accounted, Custody, sessions, TypeInv, TypeOK,
                            SessionsTypeOK
  <2>4. AttemptHolds' /\ ReleaseIsLast' /\ CleanupCovers'
    BY <1>1, <2>1, <2>2 DEF AttemptHolds, ReleaseIsLast, CleanupCovers, Custody, sessions
  <2> QED
    BY <2>3, <2>4 DEF Custody
<1>8. CASE StartSucceeds
  <2>1. /\ UNCHANGED <<processes, disk, victim, released, stops, after, down, stopFailed>>
        /\ pc = "confirm" /\ pc' = "tail"
        /\ held' = [held EXCEPT ![cur.p] = "owned"]
    BY <1>8 DEF StartSucceeds, StartOver, stopping, history
  <2>2. ~Attempting' /\ ~BeforeSpawn' /\ ~InStart' /\ ~InStop'
    BY <1>1, <2>1 DEF Attempting, BeforeSpawn, InStart, InStop, StartPcs, PollPcs
  <2>3. held \in [Profiles -> {"none", "owned", "adopted"}]
    BY DEF TypeInv, TypeOK, SessionsTypeOK
  <2>4. NothingStray'
    <3>1. \A p \in Profiles : Accounted(p) => Accounted(p)'
      BY <1>1, <2>1, <2>3 DEF Accounted
    <3> QED
      BY <2>1, <3>1 DEF NothingStray, Custody, processes, disk
  <2>5. AttemptHolds' /\ ReleaseIsLast' /\ CleanupCovers'
    BY <1>1, <1>4, <2>1, <2>2, <2>3
       DEF AttemptHolds, ReleaseIsLast, CleanupCovers, Custody, disk, StartPcs
  <2> QED
    BY <2>4, <2>5 DEF Custody
<1>9. CASE StartFails \/ StartCancelled
  <2>1. PICK state : GiveUp(state)
    BY <1>9 DEF StartFails, StartCancelled
  <2>2. Attempting
    BY <1>1, <1>9 DEF StartFails, StartCancelled, Attempting
  <2> QED
    BY <1>1, <2>1, <2>2, GiveUpCustody
<1> QED
  BY <1>2, <1>3, <1>5, <1>6, <1>7, <1>8, <1>9 DEF Starter

LEMMA StutterCustody == TypeInv /\ Custody /\ UNCHANGED vars => Custody'
  BY DEF vars, channel, thread, launch, stopping, sessions, processes, disk, published,
         history, Custody, AttemptHolds, ReleaseIsLast, CleanupCovers, NothingStray,
         Accounted, Attempting, InStart, InStop, BeforeSpawn, Active

\* Custody is inductive relative to type correctness.
LEMMA CustodyInvariant == Spec => []Custody
<1>1. Init => Custody
  BY InitCustody
<1>2. TypeInv /\ Custody /\ [Next]_vars => Custody'
  BY EnvironmentCustody, StopperCustody, CommandLoopCustody, PollCustody, StarterCustody,
     StutterCustody DEF Next, Supervise
<1> QED
  BY <1>1, <1>2, TypeInvariant, PTL DEF Spec

\* Whatever a start, a stop, a reaping and a release interleave with, every
\* process, record and credentials file has an owner: a session, the launch in
\* progress, or the release that gave it up (StartAttempt::drop, stop_session).
THEOREM NothingIsStray == Spec => []NothingStray
  BY CustodyInvariant, PTL DEF Custody

\* A browser is only ever spawned into a data directory that no earlier session
\* of the profile still holds (start_profile's check of active_sessions).
THEOREM DirectoryIsFree == Spec => []DirectoryFree
<1>1. TypeInv /\ Custody => DirectoryFree
  <2> SUFFICES ASSUME TypeInv, Custody, pc = "spawn"
               PROVE  held[cur.p] = "none" /\ browser[cur.p] = "none"
    BY DEF DirectoryFree
  <2>1. Attempting /\ BeforeSpawn
    BY DEF Attempting, InStart, InStop, BeforeSpawn, StartPcs, TypeInv, Control
  <2> QED
    BY <2>1 DEF Custody, AttemptHolds
<1> QED
  BY <1>1, CustodyInvariant, TypeInvariant, PTL

\* The thread ends with nothing left behind but what it gave up on purpose and
\* what would not stop, whose record is kept (cleanup_all, release_all).
THEOREM EndLeavesNothing == Spec => []ExitLeavesNothing
<1>1. TypeInv /\ Custody => ExitLeavesNothing
  <2> SUFFICES ASSUME TypeInv, Custody, pc = "done", NEW p \in Profiles
               PROVE  \/ p \in released
                      \/ p \in stopFailed /\ p \in record
                      \/ browser[p] = "none" /\ xray[p] = "none" /\ p \notin record \cup config
    BY DEF ExitLeavesNothing
  <2>1. ~Attempting /\ victim = NoProfile
    BY DEF Attempting, InStart, InStop, StartPcs, PollPcs, TypeInv, Control
  <2>2. CASE held[p] = "none"
    BY <2>1, <2>2 DEF Custody, NothingStray, Accounted
  <2>3. CASE held[p] # "none"
    <3>1. p \in stopFailed
      BY <2>1, <2>3, ProfileAssumption DEF Active, Custody, CleanupCovers
    <3>2. held[p] = "adopted" /\ p \in record
      BY <3>1 DEF Custody, CleanupCovers
    <3> QED
      BY <3>1, <3>2
  <2> QED
    BY <2>2, <2>3
<1> QED
  BY <1>1, CustodyInvariant, TypeInvariant, PTL

-----------------------------------------------------------------------------
(* The order of launches and stops: an acknowledged launch is over, and a   *)
(* stop wins over every earlier launch.  Both rest on the numbers of        *)
(* commands: whatever is still queued is above whatever was dealt with.     *)

QueuesOrdered ==
    /\ \A c \in Queued : c.n <= issued
    /\ \A c \in Queued, d \in Queued : c.n = d.n => c = d
    /\ \A c \in pending, d \in cmds : c.n < d.n

\* The launch in progress was sent before everything that is queued.
LaunchIsOldest == InStart => cur.n <= issued /\ \A c \in Queued : cur.n < c.n

PastIsIssued == \A p \in Profiles : acked[p] <= issued /\ lastStop[p] <= issued

\* What a stop during a start will acknowledge is no longer queued.
OwedIsOver ==
    owed # Idle => /\ owed.p # cur.p /\ owed.n <= issued
                   /\ \A c \in Queued : c.op \in Launches /\ c.p = owed.p => c.n > owed.n

\* A launch that was not called off is later than the last stop of its profile.
StopIsOver ==
    /\ \A c \in Queued : c.op \in Launches => c.n > lastStop[c.p]
    /\ InStart /\ pc # "cancel" /\ after # "cancel" => cur.n > lastStop[cur.p]

SessionsAreLater == \A p \in Active \ stops : held[p] = "owned" => runs[p] > lastStop[p]

Order == /\ QueuesOrdered /\ LaunchIsOldest /\ PastIsIssued
         /\ OwedIsOver /\ AckIsFinal /\ StopIsOver /\ SessionsAreLater

-----------------------------------------------------------------------------
(* What the queues and the locals are made of.                              *)

LEMMA Integral ==
    ASSUME TypeInv
    PROVE  /\ issued \in Nat
           /\ \A c \in Queued : c \in Command /\ c.n \in Nat \ {0}
           /\ \A p \in Profiles : acked[p] \in Nat /\ lastStop[p] \in Nat /\ runs[p] \in Nat
           /\ InStart => cur.p \in Profiles /\ cur.n \in Nat \ {0}
           /\ owed.n \in Nat
<1> USE BoundAssumption
<1>1. \A c \in Queued : c \in Command /\ c.n \in Nat \ {0}
  BY DEF Queued, TypeInv, TypeOK, ThreadTypeOK, Command, Numbers
<1>2. \A p \in Profiles : acked[p] \in Nat /\ lastStop[p] \in Nat /\ runs[p] \in Nat
  BY DEF TypeInv, TypeOK
<1>3. InStart => cur.p \in Profiles /\ cur.n \in Nat \ {0}
  BY DEF TypeInv, Control, Numbers
<1>4. issued \in Nat /\ owed.n \in Nat
  BY DEF TypeInv, TypeOK, ThreadTypeOK
<1> QED
  BY <1>1, <1>2, <1>3, <1>4

LEMMA LaunchesHaveProfiles == \A c \in Command : c.op \in Launches \cup {"stop"} => c.p \in Profiles
  BY DEF Command, Launches

\* The command the loop takes is the oldest.
LEMMA FrontIsLeast ==
    ASSUME TypeInv, Order, NEW c, IsFront(c)
    PROVE  c \in Queued /\ \A d \in Queued \ {c} : c.n < d.n
<1>1. \A d \in Queued : d.n \in Nat
  BY Integral
<1> QED
  BY <1>1 DEF IsFront, Order, QueuesOrdered, Queued

\* The command a poll receives is later than what is parked, and the oldest of
\* what is still in the channel.
LEMMA ReceivedIsNext ==
    ASSUME TypeInv, Order, NEW c, Receives(c)
    PROVE  /\ c \in cmds /\ \A d \in pending : d.n < c.n
           /\ \A d \in cmds' : d \in cmds /\ c.n < d.n
<1>1. \A d \in Queued : d.n \in Nat
  BY Integral
<1> QED
  BY <1>1 DEF Receives, Order, QueuesOrdered, Queued

-----------------------------------------------------------------------------
(* Preservation.                                                            *)

\* A step that deals with no number: commands may be dropped, the launch ends
\* or goes on, sessions end.
LEMMA SettledOrder ==
    ASSUME TypeInv, Order, cmds' \subseteq cmds, pending' \subseteq pending,
           UNCHANGED <<issued, owed, acked, lastStop, runs>>,
           InStart' => InStart /\ cur' = cur,
           owed # Idle => cur' = cur,
           InStart' /\ pc' # "cancel" /\ after' # "cancel" => pc # "cancel" /\ after # "cancel",
           \A p \in Active' \ stops' : held'[p] = "owned" => p \in Active \ stops /\ held[p] = "owned"
    PROVE  Order'
<1>1. Queued' \subseteq Queued
  BY DEF Queued
<1>2. QueuesOrdered'
  BY <1>1 DEF QueuesOrdered, Order
<1>3. LaunchIsOldest' /\ PastIsIssued'
  BY <1>1 DEF LaunchIsOldest, PastIsIssued, Order
<1>4. OwedIsOver'
  BY <1>1 DEF OwedIsOver, Order
<1>5. AckIsFinal'
  BY <1>1 DEF AckIsFinal, Order, Queued
<1>6. StopIsOver'
  BY <1>1 DEF StopIsOver, Order
<1>7. SessionsAreLater'
  BY DEF SessionsAreLater, Order
<1> QED
  BY <1>2, <1>3, <1>4, <1>5, <1>6, <1>7 DEF Order

LEMMA InitOrder == Init => Order
<1> SUFFICES ASSUME Init PROVE Order
  OBVIOUS
<1>1. Queued = {} /\ ~InStart /\ owed = Idle /\ issued = 0 /\ pending = {} /\ cmds = {}
  BY DEF Init, Queued, InStart, InStop, StartPcs, PollPcs
<1>2. \A p \in Profiles : acked[p] = 0 /\ lastStop[p] = 0 /\ held[p] # "owned"
  BY DEF Init
<1> QED
  BY <1>1, <1>2 DEF Order, QueuesOrdered, LaunchIsOldest, PastIsIssued, OwedIsOver,
                    AckIsFinal, StopIsOver, SessionsAreLater, Active

LEMMA EnvironmentOrder == TypeInv /\ Order /\ Environment => Order'
<1> SUFFICES ASSUME TypeInv, Order, Environment PROVE Order'
  OBVIOUS
<1>1. UNCHANGED <<thread, held, acked, lastStop, runs>>
  BY DEF Environment, SendLaunch, SendStop, SendRelease, SendShutdown, Send, HangUp,
         BrowserExits, XrayExits, PidRecycled, sessions, published, history
<1>2. UNCHANGED <<InStart, Active, stops, pc, after, owed, cur, pending>>
  BY <1>1 DEF thread, launch, stopping, InStart, InStop, Active
<1>3. CASE UNCHANGED <<cmds, issued>>
  BY <1>1, <1>2, <1>3, SettledOrder
<1>4. ASSUME NEW op, NEW p, op \in Launches => p \in Profiles, Send(op, p) PROVE Order'
  <2>1. PICK m : /\ m = [op |-> op, p |-> p, n |-> issued + 1]
                 /\ cmds' = cmds \cup {m} /\ issued' = issued + 1
    BY <1>4 DEF Send
  <2>2. m.n = issued + 1 /\ Queued' = Queued \cup {m}
    BY <1>2, <2>1 DEF Queued
  <2>3. m.op \in Launches => m.p \in Profiles
    BY <1>4, <2>1
  <2>4. QueuesOrdered'
    BY <1>2, <2>1, <2>2, Integral DEF QueuesOrdered, Order, Queued
  <2>5. LaunchIsOldest' /\ PastIsIssued'
    BY <1>1, <1>2, <2>1, <2>2, Integral DEF LaunchIsOldest, PastIsIssued, Order
  <2>6. OwedIsOver'
    BY <1>2, <2>1, <2>2, Integral DEF OwedIsOver, Order
  <2>7. AckIsFinal'
    BY <1>1, <1>2, <2>1, <2>2, <2>3, Integral DEF AckIsFinal, PastIsIssued, Order, Queued
  <2>8. StopIsOver'
    BY <1>1, <1>2, <2>1, <2>2, <2>3, Integral DEF StopIsOver, PastIsIssued, Order
  <2>9. SessionsAreLater'
    BY <1>1, <1>2 DEF SessionsAreLater, Order
  <2> QED
    BY <2>4, <2>5, <2>6, <2>7, <2>8, <2>9 DEF Order
<1>5. CASE SendLaunch \/ SendStop
  BY <1>4, <1>5 DEF SendLaunch, SendStop
<1>6. CASE SendRelease \/ SendShutdown
  <2>1. "release" \notin Launches /\ "shutdown" \notin Launches
    BY DEF Launches
  <2> QED
    BY <1>4, <1>6, <2>1 DEF SendRelease, SendShutdown
<1>7. CASE HangUp \/ \E p \in Profiles : BrowserExits(p) \/ XrayExits(p) \/ PidRecycled(p)
  BY <1>3, <1>7 DEF HangUp, BrowserExits, XrayExits, PidRecycled, channel
<1> QED
  BY <1>5, <1>6, <1>7 DEF Environment

\* Reaping touches sessions only to end them.
LEMMA ReapSessions ==
    ASSUME TypeInv, Reap, victim' = victim
    PROVE  \A p \in Active' : p \in Active /\ held'[p] = held[p]
<1>1. Exited \subseteq Profiles
  BY DEF Exited, Active
<1>2. \A p \in Profiles : IF p \in Exited THEN Over(p) \/ PutBack(p) ELSE Untouched(p)
  BY <1>1, KillAllEffect DEF Reap, TypeInv, TypeOK
<1> QED
  BY <1>2 DEF Active, Over, PutBack, Untouched

LEMMA StopperOrder == TypeInv /\ Order /\ Stopper => Order'
<1> SUFFICES ASSUME TypeInv, Order, Stopper PROVE Order'
  OBVIOUS
<1>1. CASE TailPoll \/ QuietTick \/ DrainPoll
  <2>1. Reap /\ UNCHANGED <<cmds, pending, issued, owed, acked, lastStop, runs, cur, stops,
                            victim, after>>
    BY <1>1 DEF TailPoll, QuietTick, DrainPoll, channel, thread, launch, stopping, history
  <2>2. (InStart' => InStart) /\ (pc = "cancel" => pc' = "cancel" \/ ~InStart')
    BY <1>1, <2>1 DEF TailPoll, QuietTick, DrainPoll, thread, InStart, InStop, StartPcs, PollPcs
  <2> QED
    BY <2>1, <2>2, ReapSessions, SettledOrder
<1>2. CASE DrainEnds
  <2>1. /\ UNCHANGED <<cmds, pending, issued, owed, acked, lastStop, runs, cur, stops, victim,
                       after, held>>
        /\ pc = "drain" /\ pc' = "kill"
    BY <1>2 DEF DrainEnds, channel, launch, stopping, sessions, published, history
  <2>2. (InStart' => InStart) /\ Active' = Active
    BY <2>1 DEF InStart, InStop, Active, StartPcs, PollPcs
  <2> QED
    BY <2>1, <2>2, SettledOrder
<1>3. CASE Kill
  <2>1. /\ victim \in Profiles /\ victim \in stops /\ KillAll({victim})
        /\ UNCHANGED <<cmds, pending, issued, owed, acked, lastStop, runs, cur, after>>
        /\ victim' = NoProfile /\ stops' = stops \ {victim} /\ pc = "kill" /\ pc' = "stop"
    BY <1>3 DEF Kill, channel, launch, history, TypeInv, TypeOK, ThreadTypeOK, Control
  <2>2. InStart' => InStart
    BY <2>1 DEF InStart, InStop, StartPcs, PollPcs
  <2>3. \A p \in Profiles : IF p = victim THEN Over(p) \/ PutBack(p) ELSE Untouched(p)
    BY <2>1, KillAllEffect DEF TypeInv, TypeOK
  <2>4. \A p \in Active' \ stops' : held'[p] = "owned" => p \in Active \ stops /\ held[p] = "owned"
    BY <2>1, <2>3 DEF Active, Over, PutBack, Untouched
  <2> QED
    BY <2>1, <2>2, <2>4, SettledOrder
<1>4. ASSUME NEW p \in Profiles, StopNext(p) PROVE Order'
  <2>1. /\ UNCHANGED <<cmds, pending, issued, owed, acked, lastStop, runs, cur, after, held>>
        /\ pc = "stop" /\ pc' \in {"stop", "drain", "kill"}
        /\ IF p \in Active THEN victim' = p /\ stops' = stops
           ELSE stops' = stops \ {p} /\ victim' = victim
    BY <1>4 DEF StopNext, channel, launch, sessions, history
  <2>2. InStart' => InStart
    BY <2>1 DEF InStart, InStop, StartPcs, PollPcs
  <2>3. Active' \ stops' \subseteq Active \ stops
    BY <2>1, ProfileAssumption DEF Active, TypeInv, Control
  <2> QED
    BY <2>1, <2>2, <2>3, SettledOrder
<1>5. CASE StopsDone
  <2>1. /\ UNCHANGED <<pending, issued, lastStop, runs, cur, stops, victim, held>>
        /\ cmds' \subseteq cmds /\ pc = "stop" /\ pc' = after /\ after' = "tail" /\ owed' = Idle
        /\ IF owed.p = NoProfile THEN acked' = acked ELSE Acknowledge(owed.p, owed.n)
    BY <1>5 DEF StopsDone, launch, sessions, history
  <2>2. (InStart' => InStart) /\ Active' = Active /\ Queued' \subseteq Queued
    BY <2>1 DEF InStart, InStop, StartPcs, PollPcs, Active, Queued, TypeInv, TypeOK,
                ThreadTypeOK
  <2>3. \A p \in Profiles : acked'[p] = acked[p] \/ (owed # Idle /\ p = owed.p /\ acked'[p] = owed.n)
    BY <2>1 DEF Acknowledge, Larger, TypeInv, TypeOK, Idle
  <2>4. QueuesOrdered' /\ LaunchIsOldest'
    BY <2>1, <2>2 DEF QueuesOrdered, LaunchIsOldest, Order
  <2>5. PastIsIssued'
    BY <2>1, <2>3 DEF PastIsIssued, OwedIsOver, Order
  <2>6. OwedIsOver' /\ SessionsAreLater'
    BY <2>1, <2>2 DEF OwedIsOver, SessionsAreLater, Order
  <2>7. AckIsFinal'
    <3>1. \A c \in Queued : c.op \in Launches => c.p \in Profiles
      BY Integral, LaunchesHaveProfiles
    <3> QED
      BY <2>1, <2>2, <2>3, <3>1, Integral DEF AckIsFinal, OwedIsOver, Order, Queued
  <2>8. StopIsOver'
    BY <2>1, <2>2 DEF StopIsOver, Order
  <2> QED
    BY <2>4, <2>5, <2>6, <2>7, <2>8 DEF Order
<1> QED
  BY <1>1, <1>2, <1>3, <1>4, <1>5 DEF Stopper

LEMMA CommandLoopOrder == TypeInv /\ Order /\ CommandLoop => Order'
<1> SUFFICES ASSUME TypeInv, Order, CommandLoop PROVE Order'
  OBVIOUS
<1>1. pc = "idle" /\ ~InStart /\ victim = NoProfile /\ owed = Idle /\ stops = {}
  BY DEF CommandLoop, LeaveLoop, HandleStart, HandleStop, HandleRestart, HandleRelease,
         HandleShutdown, InStart, InStop, StartPcs, PollPcs, TypeInv, Control
<1>2. CASE LeaveLoop
  <2>1. /\ UNCHANGED <<cmds, pending, issued, owed, acked, lastStop, runs, cur, held, victim>>
        /\ pc' = "stop" /\ after' = "done"
    BY <1>2 DEF LeaveLoop, Cleanup, channel, launch, sessions, published, history
  <2>2. ~InStart' /\ Active' = Active
    BY <2>1 DEF InStart, InStop, StartPcs, PollPcs, Active
  <2> QED
    BY <1>1, <2>1, <2>2, SettledOrder
<1>3. ASSUME NEW c \in Queued, HandleRelease(c) \/ HandleShutdown(c) PROVE Order'
  <2>1. /\ UNCHANGED <<issued, owed, acked, lastStop, runs, cur>>
        /\ cmds' \subseteq cmds /\ pending' = {}
    BY <1>3 DEF HandleRelease, HandleShutdown, launch, stopping, published, history
  <2>2. ~InStart'
    BY <1>1, <1>3 DEF HandleRelease, HandleShutdown, Cleanup, stopping, InStart, InStop,
                      StartPcs, PollPcs
  <2>3. \A p \in Active' : held'[p] = "owned" => p \in Active /\ held[p] = "owned"
    BY <1>3 DEF HandleRelease, HandleShutdown, Active, sessions, stopping
  <2> QED
    BY <1>1, <2>1, <2>2, <2>3, SettledOrder
<1>4. ASSUME NEW c \in Queued, HandleStart(c) \/ HandleStop(c) \/ HandleRestart(c)
      PROVE  Order'
  <2>1. /\ IsFront(c) /\ Pop(c) /\ c.op \in Launches \cup {"stop"}
        /\ UNCHANGED <<issued, acked, runs, held, victim, owed>>
    BY <1>4 DEF HandleStart, HandleStop, HandleRestart, stopping, sessions, published,
                history, Launches
  <2>2. /\ c \in Command /\ c.p \in Profiles /\ c.n \in Nat \ {0}
        /\ Queued' = Queued \ {c} /\ \A d \in Queued' : c.n < d.n
    BY <2>1, FrontIsLeast, Integral, LaunchesHaveProfiles DEF Pop, Queued
  <2>3. Active' = Active /\ owed' = Idle
    BY <1>1, <2>1 DEF Active
  <2>4. QueuesOrdered' /\ OwedIsOver'
    BY <2>1, <2>2, <2>3 DEF QueuesOrdered, OwedIsOver, Order, Pop
  <2>5. c.n <= issued
    BY <2>1, <2>2 DEF QueuesOrdered, Order
  <2>6. CASE HandleStop(c)
    <3>1. /\ lastStop' = [lastStop EXCEPT ![c.p] = c.n] /\ stops' = {c.p}
          /\ pc' = "stop" /\ after' = "tail"
      BY <2>6 DEF HandleStop
    <3>2. ~InStart'
      BY <3>1 DEF InStart, InStop, StartPcs, PollPcs
    <3>3. \A p \in Profiles : lastStop'[p] = IF p = c.p THEN c.n ELSE lastStop[p]
      BY <3>1 DEF TypeInv, TypeOK
    <3>4. LaunchIsOldest' /\ PastIsIssued'
      BY <2>1, <2>5, <3>2, <3>3 DEF LaunchIsOldest, PastIsIssued, Order
    <3>5. AckIsFinal'
      BY <2>1, <2>2, <3>2 DEF AckIsFinal, Order, Queued
    <3>6. StopIsOver'
      <4>1. \A d \in Queued : d.op \in Launches => d.p \in Profiles
        BY Integral, LaunchesHaveProfiles
      <4> QED
        BY <2>2, <3>2, <3>3, <4>1 DEF StopIsOver, Order
    <3>7. SessionsAreLater'
      BY <1>1, <2>1, <2>3, <3>1, <3>3 DEF SessionsAreLater, Order, Active
    <3> QED
      BY <2>4, <3>4, <3>5, <3>6, <3>7 DEF Order
  <2>7. CASE HandleStart(c) \/ HandleRestart(c)
    <3>1. /\ lastStop' = lastStop /\ c.op \in Launches
          /\ cur' = [p |-> c.p, n |-> c.n]
      BY <2>7 DEF HandleStart, HandleRestart, history, Launches
    <3>2. LaunchIsOldest' /\ PastIsIssued'
      BY <2>1, <2>2, <2>5, <3>1 DEF LaunchIsOldest, PastIsIssued, Order
    <3>3. AckIsFinal'
      BY <2>1, <2>2, <3>1 DEF AckIsFinal, Order, Queued
    <3>4. StopIsOver'
      BY <2>2, <3>1 DEF StopIsOver, Order
    <3>5. SessionsAreLater'
      BY <1>1, <2>1, <2>3, <3>1 DEF SessionsAreLater, Order
    <3> QED
      BY <2>4, <3>2, <3>3, <3>4, <3>5 DEF Order
  <2> QED
    BY <1>4, <2>6, <2>7
<1> QED
  BY <1>2, <1>3, <1>4 DEF CommandLoop, Queued

LEMMA PollOrder == TypeInv /\ Custody /\ Order /\ PollCommands => Order'
<1> SUFFICES ASSUME TypeInv, Custody, Order, PollCommands PROVE Order'
  OBVIOUS
<1>1. CASE BeginPoll
  <2>1. /\ Reap
        /\ UNCHANGED <<cmds, pending, issued, owed, acked, lastStop, runs, cur, stops, victim,
                       after>>
        /\ pc = "poll" /\ pc' = "recv"
    BY <1>1 DEF BeginPoll, channel, stopping, history
  <2>2. InStart' /\ InStart /\ after = "tail"
    BY <2>1 DEF InStart, InStop, PollPcs, TypeInv, Control
  <2> QED
    BY <2>1, <2>2, ReapSessions, SettledOrder
<1>2. ASSUME pc = "recv"
      PROVE  /\ InStart /\ after = "tail" /\ owed = Idle /\ stops = {} /\ victim = NoProfile
             /\ held[cur.p] = "none"
  <2>1. InStart /\ ~InStop
    BY <1>2 DEF InStart, InStop, PollPcs
  <2> QED
    BY <1>2, <2>1 DEF TypeInv, Control, Custody, AttemptHolds, Attempting
<1>3. ASSUME PollDisconnected \/ PollReturns
             \/ \E c \in cmds : PollShutdown(c) \/ PollDuplicate(c)
      PROVE  Order'
  <2>1. /\ UNCHANGED <<issued, owed, acked, lastStop, runs, cur, held, victim>> /\ pc = "recv"
        /\ cmds' \subseteq cmds /\ pending' \subseteq pending
        /\ stops \subseteq stops'
    BY <1>2, <1>3 DEF PollDisconnected, PollReturns, PollShutdown, PollDuplicate, Receives,
                      Abandon, Cleanup, channel, stopping, sessions, published, history
  <2>2. Active' = Active
    BY <2>1 DEF Active
  <2> QED
    BY <1>2, <2>1, <2>2, SettledOrder
<1>4. ASSUME NEW c \in cmds, PollStop(c) \/ PollRestart(c) \/ PollPark(c) PROVE Order'
  <2>1. /\ Receives(c) /\ pc = "recv"
        /\ UNCHANGED <<issued, acked, runs, held, victim, cur>>
    BY <1>4 DEF PollStop, PollRestart, PollPark, Receives, stopping, sessions, published,
                history
  <2>2. Active' = Active
    BY <2>1 DEF Active
  <2>3. /\ c.n \in Nat \ {0} /\ c \in Command
        /\ \A d \in pending : d.n < c.n
        /\ cmds' = cmds \ {c}
        /\ \A d \in cmds' : c.n < d.n
    BY <2>1, ReceivedIsNext, Integral DEF Receives, Queued
  <2>4. cur.n < c.n /\ c.n <= issued
    BY <1>2, <2>1 DEF LaunchIsOldest, QueuesOrdered, Order, Queued
  <2>5. CASE PollRestart(c) \/ PollPark(c)
    <3>1. /\ pending' = pending \cup {c} /\ Queued' = Queued
          /\ UNCHANGED <<owed, lastStop, stops, after>>
          /\ pc' \in {"recv", "cancel"}
      BY <2>1, <2>3, <2>5 DEF PollRestart, PollPark, stopping, history, Queued
    <3>2. InStart'
      BY <1>2, <2>1, <3>1 DEF InStart, InStop, PollPcs
    <3>3. QueuesOrdered'
      BY <2>1, <2>3, <3>1, Integral DEF QueuesOrdered, Order, Queued
    <3>4. LaunchIsOldest' /\ PastIsIssued' /\ OwedIsOver'
      BY <1>2, <2>1, <3>1 DEF LaunchIsOldest, PastIsIssued, OwedIsOver, Order
    <3>5. AckIsFinal'
      BY <1>2, <2>1, <3>1 DEF AckIsFinal, Order, Queued
    <3>6. StopIsOver' /\ SessionsAreLater'
      BY <1>2, <2>1, <2>2, <3>1 DEF StopIsOver, SessionsAreLater, Order
    <3> QED
      BY <3>3, <3>4, <3>5, <3>6 DEF Order
  <2>6. CASE PollStop(c)
    <3>1. /\ pending' = pending \ Parked(c.p)
          /\ lastStop' = [lastStop EXCEPT ![c.p] = c.n]
          /\ c.p \in Profiles
      BY <2>3, <2>6, LaunchesHaveProfiles DEF PollStop, Unpark
    <3>2. Queued' \subseteq Queued
          /\ \A d \in Queued' : d.op \in Launches /\ d.p = c.p => c.n < d.n
      BY <2>3, <3>1 DEF Queued, Parked
    <3>3. \A p \in Profiles : lastStop'[p] = IF p = c.p THEN c.n ELSE lastStop[p]
      BY <3>1 DEF TypeInv, TypeOK
    <3>4. QueuesOrdered'
      BY <2>1, <2>3, <3>1, <3>2 DEF QueuesOrdered, Order, Queued
    <3>5. LaunchIsOldest' /\ PastIsIssued'
      BY <1>2, <2>1, <2>4, <3>2, <3>3 DEF LaunchIsOldest, PastIsIssued, Order
    <3>6. AckIsFinal'
      BY <1>2, <2>1, <3>2 DEF AckIsFinal, Order, Queued
    <3>7. \A d \in Queued : d.op \in Launches => d.p \in Profiles
      BY Integral, LaunchesHaveProfiles
    <3>8. CASE c.p = cur.p
      <4>1. pc' = "cancel" /\ UNCHANGED <<stops, after, owed>>
        BY <2>6, <3>8 DEF PollStop
      <4>2. OwedIsOver'
        BY <1>2, <2>1, <4>1 DEF OwedIsOver, Idle
      <4>3. StopIsOver'
        BY <3>2, <3>3, <3>7, <4>1 DEF StopIsOver, Order
      <4>4. SessionsAreLater'
        BY <1>2, <2>1, <2>2, <3>3, <3>8, <4>1 DEF SessionsAreLater, Order, Active
      <4> QED
        BY <3>4, <3>5, <3>6, <4>2, <4>3, <4>4 DEF Order
    <3>9. CASE c.p # cur.p
      <4>1. PICK n \in {0} \cup {d.n : d \in Parked(c.p)} : owed' = [p |-> c.p, n |-> n]
        BY <2>6, <3>9 DEF PollStop
      <4>2. stops' = {c.p} /\ pc' = "stop" /\ after' = "recv"
        BY <2>6, <3>9 DEF PollStop
      <4>3. n \in Nat /\ n < c.n
        BY <2>3, <4>1, Integral DEF Parked, Queued
      <4>4. OwedIsOver'
        <5>1. owed'.p = c.p /\ owed'.n = n
          BY <4>1
        <5>2. \A d \in Queued' : d.n \in Nat
          BY <3>2, Integral
        <5> QED
          BY <2>1, <2>3, <2>4, <3>2, <3>9, <4>3, <5>1, <5>2, Integral DEF OwedIsOver
      <4>5. StopIsOver'
        BY <1>2, <2>1, <3>2, <3>3, <3>7, <3>9, <4>2, Integral DEF StopIsOver, Order
      <4>6. SessionsAreLater'
        BY <1>2, <2>1, <2>2, <3>3, <4>2 DEF SessionsAreLater, Order, Active
      <4> QED
        BY <3>4, <3>5, <3>6, <4>4, <4>5, <4>6 DEF Order
    <3> QED
      BY <3>8, <3>9
  <2> QED
    BY <1>4, <2>5, <2>6
<1> QED
  BY <1>1, <1>3, <1>4 DEF PollCommands

LEMMA StarterOrder == TypeInv /\ Order /\ Starter => Order'
<1> SUFFICES ASSUME TypeInv, Order, Starter PROVE Order'
  OBVIOUS
<1>1. /\ pc \in StartPcs \cup {"start", "cancel"}
      /\ InStart /\ after = "tail" /\ stops = {} /\ owed = Idle
  <2>1. pc \in StartPcs \cup {"start", "cancel"}
    BY DEF Starter, StartRefused, StartBegins, PrepareDirect, PrepareProxied,
           XrayAnswers, NotYet, SpawnBrowser, ProbeAnswers, StartSucceeds, StartFails,
           StartCancelled, StartPcs
  <2>2. InStart /\ ~InStop
    BY <2>1 DEF InStart, InStop, StartPcs
  <2> QED
    BY <2>1, <2>2 DEF TypeInv, Control
<1>2. CASE StartBegins \/ PrepareDirect \/ PrepareProxied \/ XrayAnswers \/ NotYet
           \/ SpawnBrowser \/ ProbeAnswers
  <2>1. /\ UNCHANGED <<cmds, pending, issued, owed, acked, lastStop, runs, cur, stops, victim,
                       held>>
        /\ pc # "cancel"
    BY <1>2 DEF StartBegins, PrepareDirect, PrepareProxied, XrayAnswers, NotYet, SpawnBrowser,
                ProbeAnswers, channel, stopping, sessions, published, history
  <2>2. Active' = Active
    BY <2>1 DEF Active
  <2> QED
    BY <1>1, <2>1, <2>2, SettledOrder
<1>3. CASE StartRefused \/ StartSucceeds \/ StartFails \/ StartCancelled
  <2>1. /\ UNCHANGED <<cmds, pending, issued, owed, lastStop, stops, victim, after>>
        /\ Acknowledge(cur.p, cur.n) /\ pc' = "tail"
    BY <1>3 DEF StartRefused, StartSucceeds, StartFails, StartCancelled, GiveUp, StartOver,
                channel, stopping, history
  <2>2. ~InStart' /\ Queued' = Queued /\ cur.p \in Profiles /\ cur.n \in Nat
    BY <1>1, <2>1, Integral DEF InStart, InStop, StartPcs, PollPcs, Queued
  <2>3. \A p \in Profiles : acked'[p] = acked[p] \/ (p = cur.p /\ acked'[p] = cur.n)
    BY <2>1 DEF Acknowledge, Larger, TypeInv, TypeOK
  <2>4. QueuesOrdered' /\ LaunchIsOldest' /\ OwedIsOver' /\ StopIsOver'
    BY <1>1, <2>1, <2>2 DEF QueuesOrdered, LaunchIsOldest, OwedIsOver, StopIsOver, Order
  <2>5. PastIsIssued'
    BY <1>1, <2>1, <2>3 DEF PastIsIssued, LaunchIsOldest, Order
  <2>6. AckIsFinal'
    <3>1. \A d \in Queued : d.op \in Launches => d.p \in Profiles
      BY Integral, LaunchesHaveProfiles
    <3> QED
      BY <1>1, <2>1, <2>2, <2>3, <3>1 DEF AckIsFinal, LaunchIsOldest, Order, Queued
  <2>7. SessionsAreLater'
    <3>1. CASE StartSucceeds
      <4>1. /\ pc = "confirm"
            /\ held' = [held EXCEPT ![cur.p] = "owned"]
            /\ runs' = [runs EXCEPT ![cur.p] = cur.n]
        BY <3>1 DEF StartSucceeds
      <4>2. cur.n > lastStop[cur.p]
        BY <1>1, <4>1 DEF StopIsOver, Order
      <4> QED
        BY <2>1, <2>2, <4>1, <4>2 DEF SessionsAreLater, Order, Active, TypeInv, TypeOK,
                                      SessionsTypeOK
    <3>2. CASE StartRefused \/ StartFails \/ StartCancelled
      <4>1. UNCHANGED <<held, runs>>
        BY <3>2 DEF StartRefused, StartFails, StartCancelled, GiveUp, sessions, history
      <4> QED
        BY <2>1, <4>1 DEF SessionsAreLater, Order, Active
    <3> QED
      BY <1>3, <3>1, <3>2
  <2> QED
    BY <2>4, <2>5, <2>6, <2>7 DEF Order
<1> QED
  BY <1>2, <1>3 DEF Starter

LEMMA StutterOrder == TypeInv /\ Order /\ UNCHANGED vars => Order'
<1> SUFFICES ASSUME TypeInv, Order, UNCHANGED vars PROVE Order'
  OBVIOUS
<1>1. UNCHANGED <<cmds, pending, issued, owed, acked, lastStop, runs, cur, stops, victim, held,
                  pc, after>>
  BY DEF vars, channel, thread, launch, stopping, sessions, published, history
<1>2. InStart' = InStart /\ Active' = Active
  BY <1>1 DEF InStart, InStop, Active
<1> QED
  BY <1>1, <1>2, SettledOrder

LEMMA OrderInvariant == Spec => []Order
<1>1. Init => Order
  BY InitOrder
<1>2. TypeInv /\ Custody /\ Order /\ [Next]_vars => Order'
  BY EnvironmentOrder, StopperOrder, CommandLoopOrder, PollOrder, StarterOrder, StutterOrder
  DEF Next, Supervise
<1> QED
  BY <1>1, <1>2, TypeInvariant, CustodyInvariant, PTL DEF Spec

-----------------------------------------------------------------------------
(* Theorems.                                                                *)

\* A launch that was acknowledged is neither queued, parked nor in progress: the
\* window may give its profile free (acknowledge_start, RuntimeSnapshot).
THEOREM AcknowledgedIsOver == Spec => []AckIsFinal
<1>1. Order => AckIsFinal
  BY DEF Order
<1> QED
  BY <1>1, OrderInvariant, PTL

\* A stop wins over every launch of its profile sent before it, whether it finds
\* that launch parked, in progress or running (stop_profile and the stop branch of
\* poll_start_commands).
THEOREM StopsWin == Spec => []StopWins
<1>1. TypeInv /\ Order => StopWins
  <2> SUFFICES ASSUME TypeInv, Order PROVE StopWins
    OBVIOUS
  <2>1. ASSUME pc \in StartPcs \cup PollPcs PROVE cur.n > lastStop[cur.p]
    <3>1. InStart /\ ~InStop /\ pc # "cancel"
      BY <2>1 DEF InStart, InStop, StartPcs, PollPcs
    <3> QED
      BY <3>1 DEF Order, StopIsOver, TypeInv, Control
  <2> QED
    BY <2>1 DEF StopWins, Order, StopIsOver, SessionsAreLater, Queued
<1> QED
  BY <1>1, OrderInvariant, TypeInvariant, PTL

-----------------------------------------------------------------------------
(* What the window reads of the supervisor is what the supervisor has.      *)
(* Relative to TypeInv and Custody, SnapshotTells is inductive.             *)

Known == TypeInv /\ Custody /\ SnapshotTells

\* A step that changes neither the table nor what is published, and ends no launch.
Quiet ==
    /\ UNCHANGED <<held, victim, snap>>
    /\ Attempting => Attempting' /\ cur' = cur

LEMMA QuietTells == Known /\ Quiet => SnapshotTells'
  BY DEF Known, Quiet, SnapshotTells, Active

\* Ending the sessions of S, where whatever is taken out of the table is in S.
LEMMA KillAllTells ==
    ASSUME Known, NEW S \in SUBSET Profiles, KillAll(S),
           \A p \in S : held[p] # "none",
           victim' = victim \/ (victim' = NoProfile /\ S = {victim}),
           victim' = victim => victim \notin S,
           Attempting => Attempting' /\ cur' = cur
    PROVE  SnapshotTells'
<1> SUFFICES ASSUME NEW p \in Profiles
             PROVE  /\ (snap'[p] = "Running") = (p \in Active')
                    /\ (snap'[p] = "Stopping") = (victim' = p)
                    /\ (snap'[p] = "Starting") => (Attempting' /\ cur'.p = p)
  BY DEF SnapshotTells
<1>1. IF p \in S THEN Over(p) \/ PutBack(p) ELSE Untouched(p)
  BY KillAllEffect DEF Known, TypeInv, TypeOK
<1>2. p # NoProfile
  BY ProfileAssumption
<1>3. /\ (snap[p] = "Running") = (p \in Active)
      /\ (snap[p] = "Stopping") = (victim = p)
      /\ (snap[p] = "Starting") => (Attempting /\ cur.p = p)
  BY DEF Known, SnapshotTells
<1>4. CASE p \in S
  <2>1. victim' # p
    BY <1>2, <1>4
  <2>2. CASE Over(p)
    BY <2>1, <2>2 DEF Over, Active
  <2>3. CASE PutBack(p)
    BY <2>1, <2>3 DEF PutBack, Active
  <2> QED
    BY <1>1, <1>4, <2>2, <2>3
<1>5. CASE p \notin S
  <2>1. Untouched(p) /\ ((victim' = p) = (victim = p))
    BY <1>1, <1>2, <1>5
  <2> QED
    BY <1>3, <2>1 DEF Untouched, Active
<1> QED
  BY <1>4, <1>5

\* A poll reaps what is in the table, which the session being stopped is not.
LEMMA ReapTells ==
    ASSUME Known, Reap, victim' = victim, Attempting => Attempting' /\ cur' = cur
    PROVE  SnapshotTells'
<1>1. Exited \subseteq Profiles /\ victim \notin Exited /\ \A p \in Exited : held[p] # "none"
  BY DEF Exited, Active
<1> QED
  BY <1>1, KillAllTells DEF Reap

-----------------------------------------------------------------------------
(* One lemma per part of the thread.                                        *)

LEMMA InitTells == Init => SnapshotTells
<1> SUFFICES ASSUME Init, NEW p \in Profiles
             PROVE  /\ (snap[p] = "Running") = (p \in Active)
                    /\ (snap[p] = "Stopping") = (victim = p)
                    /\ (snap[p] = "Starting") => (Attempting /\ cur.p = p)
  BY DEF SnapshotTells
<1>1. snap[p] = IF p \in Active THEN "Running" ELSE "Stopped"
  BY DEF Init
<1>2. victim = NoProfile /\ p # NoProfile
  BY ProfileAssumption DEF Init
<1> QED
  BY <1>1, <1>2

LEMMA EnvironmentTells == Known /\ Environment => SnapshotTells'
<1> SUFFICES ASSUME Known, Environment PROVE Quiet
  BY QuietTells
<1>1. UNCHANGED <<thread, sessions, snap>>
  BY DEF Environment, SendLaunch, SendStop, SendRelease, SendShutdown, Send, HangUp,
         BrowserExits, XrayExits, PidRecycled, published
<1> QED
  BY <1>1 DEF Quiet, thread, launch, stopping, sessions, Attempting, InStart, InStop

LEMMA StopperTells == Known /\ Stopper => SnapshotTells'
<1> SUFFICES ASSUME Known, Stopper PROVE SnapshotTells'
  OBVIOUS
<1> USE DEF Attempting, InStart, InStop
<1>1. CASE TailPoll
  <2>1. ~Attempting /\ victim' = victim
    BY <1>1 DEF TailPoll, stopping, StartPcs, PollPcs
  <2> QED
    BY <1>1, <2>1, ReapTells DEF TailPoll
<1>2. CASE QuietTick \/ DrainPoll
  <2>1. UNCHANGED <<pc, after, victim, cur>>
    BY <1>2 DEF QuietTick, DrainPoll, thread, launch, stopping
  <2> QED
    BY <1>2, <2>1, ReapTells DEF QuietTick, DrainPoll
<1>3. CASE DrainEnds
  <2>1. Quiet
    BY <1>3 DEF DrainEnds, Quiet, launch, stopping, sessions, published, StartPcs, PollPcs
  <2> QED
    BY <2>1, QuietTells
<1>4. CASE Kill
  <2>1. victim \in Profiles /\ held[victim] # "none"
    BY <1>4 DEF Kill, Known, TypeInv, TypeOK, ThreadTypeOK, Control
  <2>2. Attempting => Attempting' /\ cur' = cur
    BY <1>4 DEF Kill, launch, StartPcs, PollPcs
  <2>3. KillAll({victim}) /\ victim' = NoProfile
    BY <1>4 DEF Kill
  <2>4. victim # NoProfile
    BY <2>1, ProfileAssumption
  <2> QED
    BY <2>1, <2>2, <2>3, <2>4, KillAllTells
<1>5. CASE StopsDone
  <2>1. Quiet
    BY <1>5 DEF StopsDone, Quiet, launch, sessions, StartPcs, PollPcs, Known, TypeInv,
                TypeOK, ThreadTypeOK
  <2> QED
    BY <2>1, QuietTells
<1>6. ASSUME NEW q \in Profiles, StopNext(q) PROVE SnapshotTells'
  <2>1. /\ victim = NoProfile /\ UNCHANGED <<held, cur, after>>
        /\ Attempting => Attempting'
    BY <1>6 DEF StopNext, Known, TypeInv, Control, launch, sessions, StartPcs, PollPcs
  <2>2. snap \in [Profiles -> SnapState]
    BY DEF Known, TypeInv, TypeOK, SessionsTypeOK
  <2> SUFFICES ASSUME NEW p \in Profiles
               PROVE  /\ (snap'[p] = "Running") = (p \in Active')
                      /\ (snap'[p] = "Stopping") = (victim' = p)
                      /\ (snap'[p] = "Starting") => (Attempting' /\ cur'.p = p)
    BY DEF SnapshotTells
  <2>3. /\ (snap[p] = "Running") = (p \in Active)
        /\ (snap[p] = "Stopping") = (victim = p)
        /\ (snap[p] = "Starting") => (Attempting /\ cur.p = p)
    BY DEF Known, SnapshotTells
  <2>4. CASE q \in Active
    <3>1. victim' = q /\ snap' = [snap EXCEPT ![q] = "Stopping"]
      BY <1>6, <2>4 DEF StopNext
    <3> QED
      BY <2>1, <2>2, <2>3, <3>1, ProfileAssumption DEF Active
  <2>5. CASE q \notin Active
    <3>1. victim' = victim /\ snap' = [snap EXCEPT ![q] = "Stopped"]
      BY <1>6, <2>5 DEF StopNext
    <3> QED
      BY <2>1, <2>2, <2>3, <2>5, <3>1, ProfileAssumption DEF Active
  <2> QED
    BY <2>4, <2>5
<1> QED
  BY <1>1, <1>2, <1>3, <1>4, <1>5, <1>6 DEF Stopper

LEMMA CommandLoopTells == Known /\ CommandLoop => SnapshotTells'
<1> SUFFICES ASSUME Known, CommandLoop PROVE SnapshotTells'
  OBVIOUS
<1>1. ~Attempting /\ victim = NoProfile
  BY DEF CommandLoop, LeaveLoop, HandleStart, HandleStop, HandleRestart, HandleRelease,
         HandleShutdown, Attempting, InStart, InStop, StartPcs, PollPcs, Known, TypeInv,
         Control
<1>2. CASE \E c \in Queued : HandleRelease(c)
  <2>1. /\ victim' = victim /\ held' = [p \in Profiles |-> "none"]
        /\ snap' = [p \in Profiles |-> IF p \in Active THEN "Stopped" ELSE snap[p]]
    BY <1>2 DEF HandleRelease, PublishReleased, stopping
  <2>2. \A p \in Profiles : /\ (snap[p] = "Running") = (p \in Active)
                            /\ snap[p] # "Stopping" /\ snap[p] # "Starting"
    BY <1>1, ProfileAssumption DEF Known, SnapshotTells
  <2> QED
    BY <1>1, <2>1, <2>2, ProfileAssumption DEF SnapshotTells, Active
<1>3. CASE ~\E c \in Queued : HandleRelease(c)
  <2>1. UNCHANGED <<held, victim, snap>>
    BY <1>3 DEF CommandLoop, Queued, LeaveLoop, HandleStart, HandleStop, HandleRestart,
                HandleShutdown, stopping, sessions, published
  <2> QED
    BY <1>1, <2>1, QuietTells DEF Quiet
<1> QED
  BY <1>2, <1>3

LEMMA PollTells == Known /\ PollCommands => SnapshotTells'
<1> SUFFICES ASSUME Known, PollCommands PROVE SnapshotTells'
  OBVIOUS
<1> USE DEF Attempting, InStart, InStop, StartPcs, PollPcs
<1>1. CASE BeginPoll
  <2>1. victim' = victim /\ cur' = cur /\ (Attempting => Attempting')
    BY <1>1 DEF BeginPoll, stopping
  <2> QED
    BY <1>1, <2>1, ReapTells DEF BeginPoll
<1>2. CASE PollDisconnected \/ PollReturns \/ \E c \in cmds : PollShutdown(c) \/ PollStop(c)
           \/ PollDuplicate(c) \/ PollRestart(c) \/ PollPark(c)
  <2>1. resume \in StartPcs /\ after # "start"
    BY <1>2 DEF PollDisconnected, PollReturns, PollShutdown, PollStop, PollDuplicate,
                PollRestart, PollPark, Receives, Known, TypeInv, TypeOK, ThreadTypeOK,
                Control
  <2>2. Quiet
    BY <1>2, <2>1 DEF Quiet, PollDisconnected, PollReturns, PollShutdown, PollStop,
                      PollDuplicate, PollRestart, PollPark, Receives, Abandon, Cleanup,
                      stopping, sessions, published
  <2> QED
    BY <2>2, QuietTells
<1> QED
  BY <1>1, <1>2 DEF PollCommands

\* A start publishes for its own profile only, which has no session while the
\* launch is under way.
LEMMA StarterTells == Known /\ Starter => SnapshotTells'
<1> SUFFICES ASSUME Known, Starter PROVE SnapshotTells'
  OBVIOUS
<1> USE DEF Attempting, InStart, InStop, StartPcs, PollPcs
<1>1. victim = NoProfile /\ victim' = NoProfile /\ after' = after /\ after = "tail"
      /\ cur.p \in Profiles
  BY DEF Starter, StartRefused, StartBegins, PrepareDirect, PrepareProxied, XrayAnswers,
         NotYet, SpawnBrowser, ProbeAnswers, StartSucceeds, StartFails, StartCancelled,
         GiveUp, stopping, Known, TypeInv, Control
<1>2. snap \in [Profiles -> SnapState] /\ held \in [Profiles -> {"none", "owned", "adopted"}]
  BY DEF Known, TypeInv, TypeOK, SessionsTypeOK
<1>3. \A p \in Profiles : /\ (snap[p] = "Running") = (held[p] # "none")
                          /\ snap[p] # "Stopping"
                          /\ (snap[p] = "Starting") => (Attempting /\ cur.p = p)
  BY <1>1, ProfileAssumption DEF Known, SnapshotTells, Active
<1>4. CASE StartRefused
  BY <1>1, <1>4, QuietTells DEF StartRefused, Quiet, sessions
<1>5. CASE PrepareDirect \/ PrepareProxied \/ XrayAnswers \/ NotYet \/ SpawnBrowser
           \/ ProbeAnswers
  <2>1. Quiet
    BY <1>1, <1>5 DEF Quiet, PrepareDirect, PrepareProxied, XrayAnswers, NotYet,
                      SpawnBrowser, ProbeAnswers, PollThen, sessions, published
  <2> QED
    BY <2>1, QuietTells
<1>6. CASE StartBegins
  <2>1. /\ snap' = [snap EXCEPT ![cur.p] = "Starting"] /\ held' = held /\ cur' = cur
        /\ held[cur.p] = "none" /\ Attempting'
    BY <1>1, <1>6, ProfileAssumption DEF StartBegins, MayStart, PollThen, sessions, Active
  <2> QED
    BY <1>1, <1>2, <1>3, <2>1, ProfileAssumption DEF SnapshotTells, Active
<1>7. CASE StartSucceeds
  <2>1. /\ snap' = [snap EXCEPT ![cur.p] = "Running"]
        /\ held' = [held EXCEPT ![cur.p] = "owned"]
    BY <1>7 DEF StartSucceeds
  <2> QED
    BY <1>1, <1>2, <1>3, <2>1, ProfileAssumption DEF SnapshotTells, Active
<1>8. CASE StartFails \/ StartCancelled
  <2>1. PICK state \in {"Failed", "Stopped"} : GiveUp(state)
    BY <1>8 DEF StartFails, StartCancelled
  <2>2. held[cur.p] = "none"
    BY <1>1, <1>8 DEF StartFails, StartCancelled, Known, Custody, AttemptHolds
  <2>3. snap' = [snap EXCEPT ![cur.p] = state] /\ held' = held
    BY <2>1 DEF GiveUp, sessions
  <2> QED
    BY <1>1, <1>2, <1>3, <2>2, <2>3, ProfileAssumption DEF SnapshotTells, Active
<1> QED
  BY <1>4, <1>5, <1>6, <1>7, <1>8 DEF Starter

LEMMA StutterTells == Known /\ UNCHANGED vars => SnapshotTells'
  BY QuietTells DEF vars, thread, launch, stopping, sessions, published, Quiet, Attempting,
                    InStart, InStop

-----------------------------------------------------------------------------
\* The window's state of a profile is the supervisor's in every run: Running is a
\* session in the table, Stopping the one being taken out, Starting the launch in
\* progress (RuntimeSnapshot, publish, stop_session, start_profile).
THEOREM SnapshotsTell == Spec => []SnapshotTells
<1>1. TypeInv /\ Custody /\ SnapshotTells /\ [Next]_vars => SnapshotTells'
  BY EnvironmentTells, StopperTells, CommandLoopTells, PollTells, StarterTells,
     StutterTells DEF Known, Next, Supervise
<1> QED
  BY InitTells, TypeInvariant, CustodyInvariant, <1>1, PTL DEF Spec

=============================================================================
