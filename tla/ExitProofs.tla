------------------------------- MODULE ExitProofs ------------------------------
(***************************************************************************)
(* Theorems about how copies of the program begin and end, for any copies, *)
(* profiles, capacity of the queue and number of clicks.                   *)
(***************************************************************************)
EXTENDS Exit, SequenceTheorems, TLAPS

-----------------------------------------------------------------------------
(* The invariant.                                                           *)

Commands == ({"start", "stop"} \X Profiles) \cup {<<"release">>, <<"shutdown">>}

\* The places where a copy has the data directory, and has a supervisor.
Serving == {"assembled", "window", "handover", "shutdown"}
Working == {"storage", "recover"} \cup Serving

\* TypeOK with the type of what is in the queue, in four parts.
Steps == {"none", "lock", "storage", "recover", "assembled", "window", "handover",
          "shutdown", "ended"}
Browser == [up : BOOLEAN, owner : Copies \cup {Nobody}, record : {"none", "plain", "left"}]
Screen == [shown : BOOLEAN, tray : BOOLEAN, dialog : BOOLEAN, exit : {"none", "keep", "all"}]

QueueType == /\ queue \in [Copies -> Seq(Commands)]
             /\ \A c \in Copies : Len(queue[c]) <= QueueCap
PlaceType == /\ at \in [Copies -> Steps] /\ lock \in Copies \cup {Nobody}
             /\ thread \in [Copies -> {"none", "running", "stopping", "done"}]
             /\ browser \in [Profiles -> Browser]
AgentType == pc \in [Copies -> [Agents -> {"idle", "take", "send", "sendOnly", "wait"}]]
OtherType == /\ stored \in Modes /\ mode \in [Copies -> Modes]
             /\ ui \in [Copies -> Screen] /\ slot \in [Copies -> BOOLEAN]
             /\ clicks \in 0..MaxClicks /\ hurried \subseteq Copies \X Reasons
Types == QueueType /\ PlaceType /\ AgentType /\ OtherType

\* The lock says which copy, if any, works on the directory.
Locked == \A c \in Copies : (at[c] \in Working) <=> (lock = c)

\* A supervisor thread is a working copy's, and one that is done has no session.
Served ==
    /\ \A c \in Copies : (thread[c] # "none") <=> (at[c] \in Serving)
    /\ \A p \in Profiles : browser[p].owner # Nobody =>
          /\ at[browser[p].owner] \in Working \ {"storage"}
          /\ thread[browser[p].owner] # "done"

Inv == Types /\ Locked /\ Served

LEMMA TypesGiveTypeOK == Types => TypeOK
  BY DEF Types, QueueType, PlaceType, AgentType, OtherType, TypeOK, Steps, Browser, Screen

-----------------------------------------------------------------------------
(* What each part depends on.                                               *)

\* Which copy works and serves, and whose a browser is, stay as they are.
LEMMA SamePlaces ==
    ASSUME Inv, PlaceType', UNCHANGED <<lock, thread>>,
           \A d \in Copies : /\ (at'[d] \in Working) <=> (at[d] \in Working)
                             /\ (at'[d] \in Serving) <=> (at[d] \in Serving)
                             /\ at'[d] = "storage" => at[d] = "storage",
           \A p \in Profiles : browser'[p].owner \in {browser[p].owner, Nobody}
    PROVE  Locked' /\ Served'
<1>1. Locked'
  BY DEF Inv, Locked
<1>2. Served'
  <2>1. ASSUME NEW p \in Profiles, browser'[p].owner # Nobody
        PROVE  at'[browser'[p].owner] \in Working \ {"storage"}
               /\ thread'[browser'[p].owner] # "done"
    <3>1. browser'[p].owner = browser[p].owner /\ browser[p].owner \in Copies
      BY <2>1 DEF Inv, Types, PlaceType, Browser
    <3> QED
      BY <2>1, <3>1 DEF Inv, Served
  <2> QED
    BY <2>1 DEF Inv, Served
<1> QED
  BY <1>1, <1>2

LEMMA AppendTypes ==
    ASSUME QueueType, NEW c \in Copies, NEW command \in Commands, Room(c),
           queue' = [queue EXCEPT ![c] = Append(@, command)]
    PROVE  QueueType'
<1>1. queue[c] \in Seq(Commands)
  BY DEF QueueType
<1>2. /\ Append(queue[c], command) \in Seq(Commands)
      /\ Len(Append(queue[c], command)) = Len(queue[c]) + 1
  BY <1>1, AppendProperties
<1>3. Len(queue[c]) < QueueCap /\ Len(queue[c]) \in Nat
  BY <1>1, LenProperties DEF Room
<1>4. Len(queue[c]) + 1 <= QueueCap
  BY <1>3, ExitAssumption
<1> DEFINE longer == Append(queue[c], command)
<1> HIDE DEF longer
<1>5. longer \in Seq(Commands) /\ Len(longer) <= QueueCap
  BY <1>2, <1>4 DEF longer
<1>6. queue' = [queue EXCEPT ![c] = longer]
  BY DEF longer
<1> QED
  BY <1>5, <1>6 DEF QueueType

LEMMA SameQueue == QueueType /\ queue' = queue => QueueType'
  BY DEF QueueType

LEMMA InitInv == Init => Inv
<1> SUFFICES ASSUME Init PROVE Inv
  OBVIOUS
<1>1. QueueType
  <2>1. <<>> \in Seq(Commands) /\ Len(<<>>) = 0
    BY EmptySeq
  <2>2. 0 <= QueueCap
    BY ExitAssumption
  <2>3. queue = [c \in Copies |-> <<>>]
    BY DEF Init
  <2> QED
    BY <2>1, <2>2, <2>3 DEF QueueType
<1>2. PlaceType /\ AgentType
  BY DEF Init, PlaceType, AgentType, Steps, Browser, NoBrowser
<1>3. OtherType
  <2>1. 0 \in 0..MaxClicks
    BY ExitAssumption
  <2> QED
    BY <2>1 DEF Init, OtherType, Closed, Screen, Modes, Exits
<1>4. Locked /\ Served
  BY ExitAssumption DEF Init, Locked, Served, Working, Serving, NoBrowser
<1> QED
  BY <1>1, <1>2, <1>3, <1>4 DEF Inv, Types

\* A process that ends gives up the lock, its sessions and its thread.
LEMMA EndsInv ==
    ASSUME Inv, NEW c \in Copies, Ends(c), hurried' \subseteq Copies \X Reasons
    PROVE  Inv'
<1> USE DEF Inv, Types
<1>1. QueueType'
  <2>1. <<>> \in Seq(Commands) /\ Len(<<>>) = 0 /\ 0 <= QueueCap
    BY EmptySeq, ExitAssumption
  <2>2. queue' = [queue EXCEPT ![c] = <<>>]
    BY DEF Ends
  <2> QED
    BY <2>1, <2>2 DEF QueueType
<1>2. PlaceType'
  <2>1. browser' \in [Profiles -> Browser]
    BY DEF Ends, PlaceType, Browser
  <2> QED
    BY <2>1 DEF Ends, PlaceType, Steps
<1>3. AgentType'
  BY DEF Ends, AgentType
<1>4. OtherType'
  BY DEF Ends, OtherType, settings, Closed, Screen
<1>5. Locked'
  BY ExitAssumption DEF Ends, Locked, PlaceType, Working, Serving
<1>6. Served'
  <2>1. /\ at' = [at EXCEPT ![c] = "ended"] /\ thread' = [thread EXCEPT ![c] = "none"]
        /\ \A p \in Profiles : browser'[p].owner # Nobody =>
              browser'[p].owner = browser[p].owner /\ browser[p].owner # c
    <3>1. \A p \in Profiles : browser'[p] = IF browser[p].owner = c
                                            THEN [browser[p] EXCEPT !.owner = Nobody]
                                            ELSE browser[p]
      BY DEF Ends
    <3> QED
      BY <3>1 DEF Ends, PlaceType, Browser
  <2>2. \A p \in Profiles : browser[p].owner \in Copies \cup {Nobody}
    BY DEF PlaceType, Browser
  <2>3. \A d \in Copies : (thread'[d] # "none") <=> (at'[d] \in Serving)
    BY <2>1 DEF Served, PlaceType, Serving
  <2>4. \A p \in Profiles : browser'[p].owner # Nobody =>
           /\ at'[browser'[p].owner] \in Working \ {"storage"}
           /\ thread'[browser'[p].owner] # "done"
    BY <2>1, <2>2 DEF Served, PlaceType
  <2> QED
    BY <2>3, <2>4 DEF Served
<1> QED
  BY <1>1, <1>2, <1>3, <1>4, <1>5, <1>6

-----------------------------------------------------------------------------
(* One lemma per part of the program.                                       *)

LEMMA StartupInv == ASSUME Inv, NEW c \in Copies, Startup(c) PROVE Inv'
<1> USE DEF Inv, Types, window, settings, runtime, bounds
<1>1. CASE Launch(c)
  <2>1. QueueType' /\ PlaceType' /\ AgentType' /\ OtherType'
    BY <1>1 DEF Launch, QueueType, PlaceType, AgentType, OtherType, Steps
  <2>2. Locked' /\ Served'
    BY <1>1, <2>1, SamePlaces DEF Launch, PlaceType, Working, Serving
  <2> QED
    BY <2>1, <2>2
<1>2. ASSUME Acquire(c) \/ OpenStorage(c), ~(Ends(c) /\ UNCHANGED hurried) PROVE Inv'
  <2>1. QueueType' /\ PlaceType' /\ AgentType' /\ OtherType'
    BY <1>2 DEF Acquire, OpenStorage, QueueType, PlaceType, AgentType, OtherType, Steps
  <2>2. Locked'
    BY <1>2, ExitAssumption DEF Acquire, OpenStorage, Free, Locked, PlaceType, Working, Serving
  <2>3. Served'
    <3>1. /\ UNCHANGED <<browser, thread>> /\ at[c] \in {"lock", "storage"}
          /\ at' = [at EXCEPT ![c] = IF at[c] = "lock" THEN "storage" ELSE "recover"]
      BY <1>2 DEF Acquire, OpenStorage
    <3>2. \A p \in Profiles : browser[p].owner # Nobody => browser[p].owner \in Copies \ {c}
      BY <3>1 DEF Served, PlaceType, Browser, Working, Serving
    <3> QED
      BY <3>1, <3>2 DEF Served, PlaceType, Working, Serving
  <2> QED
    BY <2>1, <2>2, <2>3
<1>3. ASSUME Ends(c) /\ UNCHANGED hurried PROVE Inv'
  BY <1>3, EndsInv DEF OtherType
<1>4. CASE Assemble(c)
  <2>1. QueueType' /\ PlaceType' /\ AgentType' /\ OtherType'
    BY <1>4 DEF Assemble, QueueType, PlaceType, AgentType, OtherType, Steps
  <2>2. Locked'
    BY <1>4 DEF Assemble, Locked, PlaceType, Working, Serving
  <2>3. Served'
    <3>1. /\ at[c] = "recover" /\ at' = [at EXCEPT ![c] = "assembled"]
          /\ thread' = [thread EXCEPT ![c] = "running"] /\ browser' = browser
      BY <1>4 DEF Assemble
    <3>2. \A p \in Profiles : browser[p].owner \in Copies \cup {Nobody}
      BY DEF PlaceType, Browser
    <3> QED
      BY <3>1, <3>2 DEF Served, PlaceType, Working, Serving
  <2> QED
    BY <2>1, <2>2, <2>3
<1>5. CASE OpenWindow(c)
  <2>1. QueueType' /\ PlaceType' /\ AgentType' /\ OtherType'
    BY <1>5 DEF OpenWindow, QueueType, PlaceType, AgentType, OtherType, Steps, Screen
  <2>2. Locked' /\ Served'
    BY <1>5, <2>1, SamePlaces DEF OpenWindow, PlaceType, Working, Serving
  <2> QED
    BY <2>1, <2>2
<1>6. ASSUME NEW p \in Profiles, RecoverSession(c, p) PROVE Inv'
  <2>1. /\ at[c] = "recover"
        /\ browser' = [browser EXCEPT ![p] =
              IF browser[p].up /\ browser[p].record = "left"
              THEN [browser[p] EXCEPT !.owner = c] ELSE NoBrowser]
        /\ UNCHANGED <<at, lock, thread>>
    BY <1>6 DEF RecoverSession
  <2>2. PlaceType'
    BY <2>1 DEF PlaceType, Browser, NoBrowser
  <2>3. QueueType' /\ AgentType' /\ OtherType'
    BY <1>6 DEF RecoverSession, QueueType, AgentType, OtherType
  <2>4. Locked'
    BY <2>1 DEF Locked
  <2>5. Served'
    <3>1. \A q \in Profiles : browser'[q].owner \in {browser[q].owner, c, Nobody}
      BY <2>1 DEF PlaceType, Browser, NoBrowser
    <3>2. thread[c] = "none"
      BY <2>1 DEF Served, Serving, PlaceType
    <3> QED
      BY <2>1, <3>1, <3>2 DEF Served, Working
  <2> QED
    BY <2>2, <2>3, <2>4, <2>5
<1> QED
  BY <1>1, <1>2, <1>3, <1>4, <1>5, <1>6 DEF Startup

\* What one command, and one step of a shutdown, does to the browsers.
LEMMA ThreadInv == ASSUME Inv, NEW c \in Copies, Thread(c) PROVE Inv'
<1> USE DEF Inv, Types, window, settings, runtime, bounds
<1>1. /\ thread[c] \in {"running", "stopping"}
      /\ UNCHANGED <<at, lock, stored, mode, ui, slot, pc, clicks, hurried>>
  BY DEF Thread, Takes, CleanUp
<1>2. AgentType' /\ OtherType' /\ Locked'
  BY <1>1 DEF AgentType, OtherType, Locked
<1>3. at[c] \in Serving
  BY <1>1 DEF Served
<1>4. QueueType'
  <2>1. CASE queue' = queue
    BY <2>1, SameQueue
  <2>2. ASSUME Takes(c) PROVE QueueType'
    <3>1. queue[c] \in Seq(Commands) /\ queue[c] # <<>> /\ Len(queue[c]) <= QueueCap
          /\ queue' = [queue EXCEPT ![c] = Tail(@)]
      BY <2>2 DEF Takes, QueueType
    <3>2. Tail(queue[c]) \in Seq(Commands) /\ Len(Tail(queue[c])) = Len(queue[c]) - 1
          /\ Len(queue[c]) \in Nat
      BY <3>1, HeadTailProperties, LenProperties
    <3> DEFINE shorter == Tail(queue[c])
    <3> HIDE DEF shorter
    <3>3. shorter \in Seq(Commands) /\ Len(shorter) <= QueueCap
      BY <3>1, <3>2, ExitAssumption DEF shorter
    <3>4. queue' = [queue EXCEPT ![c] = shorter]
      BY <3>1 DEF shorter
    <3> QED
      BY <3>3, <3>4 DEF QueueType
  <2> QED
    BY <2>1, <2>2 DEF Thread, CleanUp
<1>5. \/ thread' = thread /\ \E p \in Profiles, new \in Browser :
            new.owner \in {c, browser[p].owner, Nobody} /\ browser' = [browser EXCEPT ![p] = new]
      \/ thread' = thread /\ browser' = browser
      \/ thread' = [thread EXCEPT ![c] = "stopping"] /\ browser' = browser
      \/ thread' = [thread EXCEPT ![c] = "done"] /\ browser' = Release(c)
      \/ thread' = [thread EXCEPT ![c] = "done"] /\ browser' = browser /\ Mine(c) = {}
  <2>1. CASE CleanUp(c)
    <3>1. NoBrowser \in Browser /\ NoBrowser.owner = Nobody
      BY DEF NoBrowser, Browser
    <3> QED
      BY <2>1, <3>1 DEF CleanUp, Mine
  <2>2. CASE Takes(c)
    <3> DEFINE command == Head(queue[c])
    <3>1. command \in Commands
      <4>1. queue[c] \in Seq(Commands) /\ queue[c] # <<>>
        BY <2>2 DEF Takes, QueueType
      <4> QED
        BY <4>1, HeadTailProperties
    <3> HIDE DEF command
    <3>2. CASE command[1] = "start"
      <4>1. command[2] \in Profiles
        BY <3>1, <3>2 DEF Commands
      <4>2. thread' = thread
            /\ browser' = [browser EXCEPT ![command[2]] =
                  IF @.up THEN @ ELSE [up |-> TRUE, owner |-> c, record |-> "plain"]]
        BY <2>2, <3>2 DEF Takes, command
      <4>3. [up |-> TRUE, owner |-> c, record |-> "plain"] \in Browser
        BY DEF Browser
      <4> QED
        BY <4>1, <4>2, <4>3 DEF PlaceType
    <3>3. CASE command[1] = "stop"
      <4>1. command[2] \in Profiles
        BY <3>1, <3>3 DEF Commands
      <4>2. thread' = thread
            /\ browser' = [browser EXCEPT ![command[2]] =
                              IF @.owner = c THEN NoBrowser ELSE @]
        BY <2>2, <3>3 DEF Takes, command
      <4>3. NoBrowser \in Browser /\ NoBrowser.owner = Nobody
        BY DEF NoBrowser, Browser
      <4> QED
        BY <4>1, <4>2, <4>3 DEF PlaceType
    <3>4. CASE command[1] = "release"
      BY <2>2, <3>4 DEF Takes, command
    <3>5. CASE command[1] \notin {"start", "stop", "release"}
      BY <2>2, <3>5 DEF Takes, command
    <3> QED
      BY <3>2, <3>3, <3>4, <3>5
  <2> QED
    BY <2>1, <2>2 DEF Thread
<1>6. /\ browser' \in [Profiles -> Browser]
      /\ \A p \in Profiles : browser'[p].owner \in {c, browser[p].owner, Nobody}
      /\ thread'[c] = "done" => \A p \in Profiles : browser'[p].owner # c
  <2>1. CASE browser' = Release(c)
    BY <2>1, ExitAssumption DEF Release, Mine, PlaceType, Browser
  <2>2. CASE browser' # Release(c)
    BY <1>1, <1>5, <2>2 DEF PlaceType, Browser, Mine
  <2> QED
    BY <2>1, <2>2
<1>7. /\ thread'[c] \in {"running", "stopping", "done"}
      /\ \A d \in Copies \ {c} : thread'[d] = thread[d]
      /\ thread' \in [Copies -> {"none", "running", "stopping", "done"}]
  BY <1>1, <1>5 DEF PlaceType
<1>8. PlaceType'
  BY <1>1, <1>6, <1>7 DEF PlaceType
<1>9. Served'
  <2>1. \A d \in Copies : (thread'[d] # "none") <=> (at'[d] \in Serving)
    BY <1>1, <1>3, <1>7 DEF Served
  <2>2. ASSUME NEW p \in Profiles, browser'[p].owner # Nobody
        PROVE  /\ at'[browser'[p].owner] \in Working \ {"storage"}
               /\ thread'[browser'[p].owner] # "done"
    <3>1. CASE browser'[p].owner = c
      BY <1>1, <1>3, <1>6, <3>1 DEF Working, Serving
    <3>2. CASE browser'[p].owner # c
      <4>1. browser'[p].owner = browser[p].owner /\ browser[p].owner \in Copies \ {c}
        BY <1>6, <2>2, <3>2 DEF PlaceType, Browser
      <4> QED
        BY <1>1, <1>7, <2>2, <4>1 DEF Served
    <3> QED
      BY <3>1, <3>2
  <2> QED
    BY <2>1, <2>2 DEF Served
<1> QED
  BY <1>2, <1>4, <1>8, <1>9

\* A step that leaves locks, threads and browsers alone.
LEMMA AsideInv ==
    ASSUME Inv, QueueType', AgentType', OtherType', UNCHANGED <<lock, browser, thread>>,
           \/ at' = at
           \/ \E c \in Copies, to \in Serving : at[c] \in Serving /\ at' = [at EXCEPT ![c] = to]
    PROVE  Inv'
<1> USE DEF Inv, Types
<1>1. PlaceType'
  BY DEF PlaceType, Steps, Serving
<1>2. \A d \in Copies : /\ (at'[d] \in Working) <=> (at[d] \in Working)
                        /\ (at'[d] \in Serving) <=> (at[d] \in Serving)
                        /\ at'[d] = "storage" => at[d] = "storage"
  BY DEF PlaceType, Working, Serving
<1> QED
  BY <1>1, <1>2, SamePlaces

LEMMA WindowInv == ASSUME Inv, NEW c \in Copies, Window(c) PROVE Inv'
<1> USE DEF Inv, Types, window, settings, runtime, bounds
<1>1. ASSUME NEW p \in Profiles, NEW what \in {"start", "stop"}, Click(c, <<what, p>>)
      PROVE  Inv'
  <2>1. <<what, p>> \in Commands
    BY DEF Commands
  <2>2. QueueType'
    BY <1>1, <2>1, AppendTypes, SameQueue DEF Click
  <2>3. AgentType' /\ OtherType'
    BY <1>1, ExitAssumption DEF Click, AgentType, OtherType
  <2> QED
    BY <1>1, <2>2, <2>3, AsideInv DEF Click
<1>2. CASE HandOver(c)
  <2>1. <<"release">> \in Commands
    BY DEF Commands
  <2>2. QueueType'
    BY <1>2, <2>1, AppendTypes, SameQueue DEF HandOver
  <2>3. AgentType' /\ OtherType'
    BY <1>2 DEF HandOver, AgentType, Agents, OtherType, Reasons
  <2> QED
    BY <1>2, <2>2, <2>3, AsideInv DEF HandOver, Serving
<1>3. ASSUME NEW exit \in Exits, Leave(c, exit), at[c] = "window"
      PROVE  /\ ui' \in [Copies -> Screen] /\ AgentType'
             /\ \/ at' = at
                \/ \E to \in Serving : at[c] \in Serving /\ at' = [at EXCEPT ![c] = to]
  <2>1. ui' \in [Copies -> Screen]
    <3>1. CASE exit = "background"
      <4>1. CASE ui' = [ui EXCEPT ![c].tray = TRUE, ![c].shown = FALSE, ![c].dialog = FALSE]
        BY <4>1 DEF OtherType, Screen
      <4>2. CASE ui' = [ui EXCEPT ![c].dialog = FALSE]
        BY <4>2 DEF OtherType, Screen
      <4> QED
        BY <1>3, <3>1, <4>1, <4>2 DEF Leave, EnterBackground
    <3>2. CASE exit \in {"keep", "all"}
      <4>1. ui' = [ui EXCEPT ![c].dialog = FALSE, ![c].exit = exit]
        BY <1>3, <3>2 DEF Leave
      <4> QED
        BY <3>2, <4>1 DEF OtherType, Screen
    <3> QED
      BY <3>1, <3>2 DEF Exits
  <2> QED
    BY <1>3, <2>1 DEF Leave, Exits, AgentType, Agents, Serving
<1>4. CASE DecideExit(c) \/ \E exit \in Exits, remember \in BOOLEAN : Answer(c, exit, remember)
  <2>1. /\ stored' \in Modes /\ mode' \in [Copies -> Modes] /\ at[c] = "window"
        /\ UNCHANGED <<lock, browser, queue, thread, slot, clicks, hurried>>
    BY <1>4 DEF DecideExit, Answer, Modes, OtherType
  <2>2. QueueType'
    BY <2>1, SameQueue
  <2>3. ASSUME NEW exit \in Exits, Leave(c, exit) PROVE Inv'
    BY <1>3, <2>1, <2>2, <2>3, AsideInv DEF OtherType
  <2>4. ASSUME ui' = [ui EXCEPT ![c].dialog = TRUE], UNCHANGED <<at, pc>> PROVE Inv'
    BY <2>1, <2>2, <2>4, AsideInv DEF OtherType, Screen, AgentType
  <2> QED
    BY <1>4, <2>3, <2>4 DEF DecideExit, Answer, Modes, OtherType
<1>5. CASE Dismiss(c)
  <2>1. QueueType' /\ AgentType' /\ OtherType'
    BY <1>5, SameQueue DEF Dismiss, AgentType, OtherType, Screen
  <2> QED
    BY <1>5, <2>1, AsideInv DEF Dismiss
<1>6. CASE TrayEvent(c)
  <2>1. QueueType' /\ UNCHANGED <<lock, browser, thread>> /\ at[c] = "window"
    BY <1>6, SameQueue DEF TrayEvent
  <2>2. CASE TrayShow(c)
    <3>1. AgentType' /\ OtherType'
      BY <1>6, <2>2 DEF TrayEvent, TrayShow, AgentType, OtherType, Screen
    <3> QED
      BY <2>1, <2>2, <3>1, AsideInv DEF TrayShow
  <2>3. CASE TrayQuit(c)
    <3>1. Leave(c, "all") /\ "all" \in Exits
      BY <2>3 DEF TrayQuit, Exits
    <3>2. OtherType'
      BY <1>3, <1>6, <2>1, <3>1 DEF TrayEvent, OtherType
    <3> QED
      BY <1>3, <2>1, <3>1, <3>2, AsideInv
  <2> QED
    BY <1>6, <2>2, <2>3 DEF TrayEvent
<1> QED
  BY <1>1, <1>2, <1>4, <1>5, <1>6 DEF Window

LEMMA ShutdownInv ==
    ASSUME Inv, NEW c \in Copies, NEW a \in Agents, Shutdown(c, a) PROVE Inv'
<1> USE DEF Inv, Types, window, settings, runtime, bounds
<1>1. CASE TakeHandle(c, a)
  <2>1. QueueType' /\ AgentType' /\ OtherType'
    BY <1>1, SameQueue DEF TakeHandle, AgentType, OtherType
  <2> QED
    BY <1>1, <2>1, AsideInv DEF TakeHandle
<1>2. CASE Send(c, a)
  <2>1. <<"shutdown">> \in Commands
    BY DEF Commands
  <2>2. QueueType'
    BY <1>2, <2>1, AppendTypes, SameQueue DEF Send
  <2>3. AgentType' /\ OtherType'
    BY <1>2 DEF Send, AgentType, OtherType
  <2> QED
    BY <1>2, <2>2, <2>3, AsideInv DEF Send
<1>3. CASE SendOnly(c, a) \/ Waited(c, a) \/ GraceOver(c, a)
  <2>1. Ends(c) /\ hurried' \subseteq Copies \X Reasons
    BY <1>3 DEF SendOnly, Waited, GraceOver, Reasons, OtherType
  <2> QED
    BY <2>1, EndsInv
<1> QED
  BY <1>1, <1>2, <1>3 DEF Shutdown

LEMMA StepInv == Inv /\ [Next]_vars => Inv'
<1> SUFFICES ASSUME Inv, [Next]_vars PROVE Inv'
  OBVIOUS
<1> USE DEF Inv, Types, window, settings, runtime, bounds
<1>1. ASSUME NEW c \in Copies, Signal(c) PROVE Inv'
  <2>1. QueueType' /\ AgentType' /\ OtherType'
    BY <1>1, SameQueue DEF Signal, AgentType, Agents, OtherType
  <2> QED
    BY <1>1, <2>1, AsideInv DEF Signal
<1>2. ASSUME NEW c \in Copies, Killed(c) PROVE Inv'
  <2>1. Ends(c) /\ hurried' \subseteq Copies \X Reasons
    BY <1>2 DEF Killed, Reasons, OtherType
  <2> QED
    BY <2>1, EndsInv
<1>3. ASSUME NEW p \in Profiles, BrowserDies(p) PROVE Inv'
  <2>1. PlaceType' /\ UNCHANGED <<at, lock, thread>>
    BY <1>3 DEF BrowserDies, NoBrowser, PlaceType, Browser
  <2>2. \A q \in Profiles : browser'[q].owner \in {browser[q].owner, Nobody}
    BY <1>3 DEF BrowserDies, NoBrowser, PlaceType, Browser
  <2>3. QueueType' /\ AgentType' /\ OtherType'
    BY <1>3, SameQueue DEF BrowserDies, AgentType, OtherType
  <2> QED
    BY <2>1, <2>2, <2>3, SamePlaces
<1>4. CASE UNCHANGED vars
  BY <1>4 DEF vars, QueueType, PlaceType, AgentType, OtherType, Locked, Served
<1> QED
  BY <1>1, <1>2, <1>3, <1>4, StartupInv, ThreadInv, WindowInv, ShutdownInv DEF Next

LEMMA Invariant == Spec => []Inv
  BY InitInv, StepInv, PTL DEF Spec

\* However often the program is launched on a directory, killed and left, a copy
\* that recovers meets no browser of another copy that runs (instance.rs, main.rs,
\* recover_orphans).
THEOREM OneCopyRecovers == Spec => []RecoversTheDead
<1>1. Inv => RecoversTheDead
  <2> SUFFICES ASSUME Inv, NEW c \in Copies, NEW p \in Profiles, at[c] = "recover"
               PROVE  browser[p].owner \in {c, Nobody}
    BY TypesGiveTypeOK DEF Inv, RecoversTheDead
  <2>1. lock = c
    BY DEF Inv, Locked, Working
  <2>2. browser[p].owner \in Copies \cup {Nobody}
    BY DEF Inv, Types, PlaceType, Browser
  <2> QED
    BY <2>1, <2>2 DEF Inv, Locked, Served
<1> QED
  BY <1>1, Invariant, PTL

-----------------------------------------------------------------------------
(* What is left behind, and the way back.                                   *)

\* A copy that has not begun to recover has no browser.
LEMMA NoneYet ==
    ASSUME Inv, NEW c \in Copies, at[c] \in {"lock", "storage"} \/ thread[c] = "done"
    PROVE  \A p \in Profiles : browser[p].owner # c
<1> SUFFICES ASSUME NEW p \in Profiles, browser[p].owner = c PROVE FALSE
  OBVIOUS
<1> QED
  BY ExitAssumption DEF Inv, Served, Working, Serving

LEMMA EndsLeavesNothing ==
    ASSUME Inv, NothingLeftByAccident, NEW c \in Copies, Ends(c), hurried' = hurried,
           at[c] \in {"lock", "storage"} \/ thread[c] = "done"
    PROVE  NothingLeftByAccident'
<1>1. \A p \in Profiles : browser'[p] = browser[p]
  BY NoneYet DEF Ends
<1> QED
  BY <1>1 DEF NothingLeftByAccident

LEMMA StepLeavesNothing ==
    ASSUME Inv, NothingLeftByAccident, [Next]_vars PROVE NothingLeftByAccident'
<1> USE ExitAssumption DEF window, settings, runtime, bounds
<1>1. hurried # {} => hurried' # {}
  BY DEF Next, vars, Startup, Launch, Acquire, OpenStorage, RecoverSession, Assemble,
         OpenWindow, Thread, Takes, CleanUp, Window, DecideExit, Dismiss, TrayEvent,
         HandOver, Click, Answer, Signal, Killed, Shutdown, TakeHandle, Send, SendOnly,
         Waited, GraceOver, BrowserDies
<1> SUFFICES ASSUME hurried = {}, hurried' = {} PROVE NothingLeftByAccident'
  BY <1>1 DEF NothingLeftByAccident
<1>2. CASE browser' = browser
  BY <1>2 DEF NothingLeftByAccident
<1>3. ASSUME NEW c \in Copies, Acquire(c) \/ OpenStorage(c) \/ \E a \in Agents : Waited(c, a)
      PROVE  NothingLeftByAccident'
  <2>1. CASE Ends(c)
    <3>1. at[c] \in {"lock", "storage"} \/ thread[c] = "done"
      BY <1>3 DEF Acquire, OpenStorage, Waited
    <3> QED
      BY <2>1, <3>1, EndsLeavesNothing
  <2>2. CASE ~Ends(c)
    BY <1>2, <1>3, <2>2 DEF Acquire, OpenStorage, Waited
  <2> QED
    BY <2>1, <2>2
<1>4. ASSUME NEW c \in Copies, NEW p \in Profiles, RecoverSession(c, p)
      PROVE  NothingLeftByAccident'
  <2>1. browser' = [browser EXCEPT ![p] =
              IF browser[p].up /\ browser[p].record = "left"
              THEN [browser[p] EXCEPT !.owner = c] ELSE NoBrowser]
    BY <1>4 DEF RecoverSession
  <2> QED
    BY <2>1 DEF NothingLeftByAccident, NoBrowser, Inv, Types, PlaceType, Browser
<1>5. ASSUME NEW c \in Copies, CleanUp(c) PROVE NothingLeftByAccident'
  BY <1>5 DEF CleanUp, NoBrowser, NothingLeftByAccident, Inv, Types, PlaceType, Browser
<1>6. ASSUME NEW c \in Copies, Takes(c) PROVE NothingLeftByAccident'
  <2> DEFINE command == Head(queue[c])
  <2>1. CASE command[1] = "start"
    <3>1. browser' = [browser EXCEPT ![command[2]] =
              IF @.up THEN @ ELSE [up |-> TRUE, owner |-> c, record |-> "plain"]]
      BY <1>6, <2>1 DEF Takes
    <3> QED
      BY <3>1 DEF NothingLeftByAccident, Inv, Types, PlaceType, Browser
  <2>2. CASE command[1] = "stop"
    <3>1. browser' = [browser EXCEPT ![command[2]] = IF @.owner = c THEN NoBrowser ELSE @]
      BY <1>6, <2>2 DEF Takes
    <3> QED
      BY <3>1 DEF NothingLeftByAccident, NoBrowser, Inv, Types, PlaceType, Browser
  <2>3. CASE command[1] = "release"
    <3>1. browser' = Release(c)
      BY <1>6, <2>3 DEF Takes
    <3> QED
      BY <3>1 DEF Release, Mine, NothingLeftByAccident, Inv, Types, PlaceType, Browser
  <2>4. CASE command[1] \notin {"start", "stop", "release"}
    BY <1>2, <1>6, <2>4 DEF Takes
  <2> QED
    BY <2>1, <2>2, <2>3, <2>4
<1>7. ASSUME NEW p \in Profiles, BrowserDies(p) PROVE NothingLeftByAccident'
  <2>1. browser' = [browser EXCEPT ![p] =
              IF browser[p].owner # Nobody THEN NoBrowser
              ELSE [browser[p] EXCEPT !.up = FALSE]]
    BY <1>7 DEF BrowserDies
  <2> QED
    BY <2>1 DEF NothingLeftByAccident, NoBrowser, Inv, Types, PlaceType, Browser
<1> QED
  BY <1>2, <1>3, <1>4, <1>5, <1>6, <1>7
  DEF Next, vars, Startup, Launch, Assemble, OpenWindow, Thread, Window, DecideExit, Dismiss,
      TrayEvent, HandOver, Click, Answer, Signal, Killed, Shutdown, TakeHandle, Send,
      SendOnly, GraceOver

\* A copy that was not killed and did not stop waiting for its thread leaves no
\* browser that the next start would take for a crash's (release_all, shutdown).
THEOREM LeftOnPurpose == Spec => []NothingLeftByAccident
<1>1. Init => NothingLeftByAccident
  BY DEF Init, NothingLeftByAccident, NoBrowser
<1>2. Inv /\ NothingLeftByAccident /\ [Next]_vars => NothingLeftByAccident'
  BY StepLeavesNothing
<1> QED
  BY Invariant, <1>1, <1>2, PTL DEF Spec

LEMMA StepReachable ==
    ASSUME Inv, WindowReachable, [Next]_vars PROVE WindowReachable'
<1> USE DEF window, settings, runtime, bounds
<1>1. at \in [Copies -> Steps] /\ ui \in [Copies -> Screen]
  BY DEF Inv, Types, PlaceType, OtherType
<1> SUFFICES ASSUME NEW d \in Copies, at'[d] = "window"
             PROVE  ui'[d].shown \/ ui'[d].tray
  BY DEF WindowReachable
<1>2. ASSUME NEW c \in Copies, Ends(c) PROVE ui'[d].shown \/ ui'[d].tray
  BY <1>1, <1>2 DEF Ends, WindowReachable
<1>3. ASSUME UNCHANGED ui, at'[d] = at[d] PROVE ui'[d].shown \/ ui'[d].tray
  BY <1>3 DEF WindowReachable
<1>4. ASSUME NEW c \in Copies, OpenWindow(c) PROVE ui'[d].shown \/ ui'[d].tray
  BY <1>1, <1>4 DEF OpenWindow, WindowReachable, Screen
<1>5. ASSUME NEW c \in Copies, NEW exit \in Exits, Leave(c, exit), at[c] = "window"
      PROVE  ui'[d].shown \/ ui'[d].tray
  <2>1. CASE exit = "background"
    BY <1>1, <1>5, <2>1 DEF Leave, EnterBackground, WindowReachable, Screen
  <2>2. CASE exit # "background"
    BY <1>1, <1>5, <2>2 DEF Leave, WindowReachable
  <2> QED
    BY <2>1, <2>2
<1>6. ASSUME NEW c \in Copies, NEW b \in BOOLEAN, ui' = [ui EXCEPT ![c].dialog = b], at' = at
      PROVE  ui'[d].shown \/ ui'[d].tray
  BY <1>1, <1>6 DEF WindowReachable, Screen
<1>7. ASSUME NEW c \in Copies, DecideExit(c) PROVE ui'[d].shown \/ ui'[d].tray
  BY <1>5, <1>6, <1>7 DEF DecideExit, Exits, Modes, Inv, Types, OtherType
<1>8. ASSUME NEW c \in Copies, NEW exit \in Exits, NEW remember \in BOOLEAN,
             Answer(c, exit, remember)
      PROVE  ui'[d].shown \/ ui'[d].tray
  BY <1>5, <1>8 DEF Answer
<1>9. ASSUME NEW c \in Copies, Dismiss(c) PROVE ui'[d].shown \/ ui'[d].tray
  BY <1>6, <1>9 DEF Dismiss
<1>10. ASSUME NEW c \in Copies, TrayEvent(c) PROVE ui'[d].shown \/ ui'[d].tray
  <2>1. CASE TrayShow(c)
    BY <1>1, <2>1 DEF TrayShow, WindowReachable, Screen
  <2>2. CASE TrayQuit(c)
    BY <1>5, <1>10, <2>2 DEF TrayEvent, TrayQuit, Exits
  <2> QED
    BY <1>10, <2>1, <2>2 DEF TrayEvent
<1>11. ASSUME NEW c \in Copies, Acquire(c) \/ OpenStorage(c)
       PROVE  ui'[d].shown \/ ui'[d].tray
  <2>1. CASE Ends(c)
    BY <1>2, <2>1
  <2>2. CASE ~Ends(c)
    <3>1. (UNCHANGED ui /\ at'[d] = at[d]) \/ (UNCHANGED ui /\ at'[d] # "window")
      BY <1>1, <1>11, <2>2 DEF Acquire, OpenStorage
    <3> QED
      BY <1>3, <3>1
  <2> QED
    BY <2>1, <2>2
<1>12. ASSUME NEW c \in Copies, Launch(c) \/ Assemble(c) \/ HandOver(c)
       PROVE  ui'[d].shown \/ ui'[d].tray
  <2>1. UNCHANGED ui /\ at'[d] = at[d]
    BY <1>1, <1>12 DEF Launch, Assemble, HandOver
  <2> QED
    BY <1>3, <2>1
<1>13. ASSUME NEW c \in Copies, NEW a \in Agents, Shutdown(c, a)
       PROVE  ui'[d].shown \/ ui'[d].tray
  BY <1>2, <1>3, <1>13 DEF Shutdown, TakeHandle, Send, SendOnly, Waited, GraceOver
<1>14. ASSUME NEW c \in Copies, Killed(c) PROVE ui'[d].shown \/ ui'[d].tray
  BY <1>2, <1>14 DEF Killed
<1>15. ASSUME NEW c \in Copies,
              Thread(c) \/ Signal(c) \/ \E p \in Profiles : RecoverSession(c, p)
       PROVE  ui'[d].shown \/ ui'[d].tray
  BY <1>3, <1>15 DEF Thread, Takes, CleanUp, Signal, RecoverSession
<1>16. ASSUME NEW c \in Copies, \E p \in Profiles, what \in {"start", "stop"} :
                 Click(c, <<what, p>>)
       PROVE  ui'[d].shown \/ ui'[d].tray
  BY <1>3, <1>16 DEF Click
<1>17. ASSUME NEW p \in Profiles, BrowserDies(p) PROVE ui'[d].shown \/ ui'[d].tray
  BY <1>3, <1>17 DEF BrowserDies
<1>18. CASE UNCHANGED vars
  BY <1>3, <1>18 DEF vars
<1> QED
  BY <1>4, <1>7, <1>8, <1>9, <1>10, <1>11, <1>12, <1>13, <1>14, <1>15, <1>16, <1>17, <1>18
  DEF Next, Startup, Window

\* The window never hides without an icon to bring it back (enter_background).
THEOREM AlwaysReachable == Spec => []WindowReachable
<1>1. Init => WindowReachable
  BY DEF Init, WindowReachable
<1>2. Inv /\ WindowReachable /\ [Next]_vars => WindowReachable'
  BY StepReachable
<1> QED
  BY Invariant, <1>1, <1>2, PTL DEF Spec

-----------------------------------------------------------------------------
(* "Keep running" keeps.                                                    *)

Asked(q) == \E i \in 1..Len(q) : q[i] = <<"shutdown">>
ReleaseFirst(q) ==
    \E i \in 1..Len(q) : q[i] = <<"release">> /\ \A j \in 1..(i - 1) : q[j] # <<"shutdown">>

LEMMA NothingAsked == ~Asked(<<>>)
  BY DEF Asked

LEMMA AppendAsked ==
    ASSUME NEW q \in Seq(Commands), NEW w \in Commands
    PROVE  /\ ~Asked(q) /\ w # <<"shutdown">> => ~Asked(Append(q, w))
           /\ ~Asked(q) /\ w = <<"release">> => ReleaseFirst(Append(q, w))
           /\ ReleaseFirst(q) => ReleaseFirst(Append(q, w))
<1>1. /\ Len(Append(q, w)) = Len(q) + 1 /\ Len(q) \in Nat
      /\ \A i \in 1..Len(q) : Append(q, w)[i] = q[i]
      /\ Append(q, w)[Len(q) + 1] = w
  BY AppendProperties, LenProperties
<1> DEFINE longer == Append(q, w)
<1> HIDE DEF longer
<1>2. /\ Len(longer) = Len(q) + 1 /\ Len(q) \in Nat
      /\ \A i \in 1..Len(q) : longer[i] = q[i]
      /\ longer[Len(q) + 1] = w
  BY <1>1 DEF longer
<1>3. ~Asked(q) /\ w # <<"shutdown">> => ~Asked(longer)
  <2> SUFFICES ASSUME w # <<"shutdown">>, NEW i \in 1..Len(longer),
                      longer[i] = <<"shutdown">>
               PROVE  Asked(q)
    BY DEF Asked
  <2>1. i # Len(q) + 1
    BY <1>2
  <2>2. i \in 1..Len(q) /\ q[i] = <<"shutdown">>
    BY <1>2, <2>1
  <2> QED
    BY <2>2 DEF Asked
<1>4. ~Asked(q) /\ w = <<"release">> => ReleaseFirst(longer)
  <2> SUFFICES ASSUME ~Asked(q), w = <<"release">> PROVE ReleaseFirst(longer)
    OBVIOUS
  <2> DEFINE last == Len(q) + 1
  <2>1. last \in 1..Len(longer) /\ longer[last] = <<"release">>
    BY <1>2
  <2>2. \A j \in 1..(last - 1) : longer[j] # <<"shutdown">>
    BY <1>2 DEF Asked
  <2> HIDE DEF last
  <2> QED
    BY <2>1, <2>2 DEF ReleaseFirst
<1>5. ReleaseFirst(q) => ReleaseFirst(longer)
  <2> SUFFICES ASSUME NEW i \in 1..Len(q), q[i] = <<"release">>,
                      \A j \in 1..(i - 1) : q[j] # <<"shutdown">>
               PROVE  ReleaseFirst(longer)
    BY DEF ReleaseFirst
  <2>1. i \in 1..Len(longer) /\ longer[i] = <<"release">>
    BY <1>2
  <2>2. \A j \in 1..(i - 1) : longer[j] # <<"shutdown">>
    BY <1>2
  <2> QED
    BY <2>1, <2>2 DEF ReleaseFirst
<1> QED
  BY <1>3, <1>4, <1>5 DEF longer

LEMMA TailAsked ==
    ASSUME NEW q \in Seq(Commands), q # <<>>
    PROVE  /\ ~Asked(q) => ~Asked(Tail(q)) /\ Head(q) # <<"shutdown">>
           /\ ReleaseFirst(q) /\ Head(q) # <<"release">> =>
                 ReleaseFirst(Tail(q)) /\ Head(q) # <<"shutdown">>
<1> DEFINE rest == Tail(q)
<1>1. /\ Len(q) \in Nat \ {0} /\ Head(q) = q[1] /\ Len(rest) = Len(q) - 1
      /\ \A i \in 1..(Len(q) - 1) : rest[i] = q[i + 1]
  BY HeadTailProperties, LenProperties, EmptySeq
<1> HIDE DEF rest
<1>2. ~Asked(q) => ~Asked(rest) /\ Head(q) # <<"shutdown">>
  BY <1>1 DEF Asked
<1>3. ReleaseFirst(q) /\ Head(q) # <<"release">> =>
         ReleaseFirst(rest) /\ Head(q) # <<"shutdown">>
  <2> SUFFICES ASSUME NEW i \in 1..Len(q), q[i] = <<"release">>, Head(q) # <<"release">>,
                      \A j \in 1..(i - 1) : q[j] # <<"shutdown">>
               PROVE  ReleaseFirst(rest) /\ Head(q) # <<"shutdown">>
    BY DEF ReleaseFirst
  <2>1. i > 1
    BY <1>1
  <2>2. i - 1 \in 1..Len(rest) /\ rest[i - 1] = <<"release">>
    BY <1>1, <2>1
  <2>3. ASSUME NEW j \in 1..((i - 1) - 1)
        PROVE  rest[j] # <<"shutdown">>
    <3>1. j \in 1..(Len(q) - 1) /\ j + 1 \in 1..(i - 1)
      BY <1>1, <2>1
    <3>2. rest[j] = q[j + 1]
      BY <1>1, <3>1
    <3> QED
      BY <3>1, <3>2
  <2>4. Head(q) # <<"shutdown">>
    BY <1>1, <2>1
  <2> DEFINE k == i - 1
  <2>5. k \in 1..Len(rest) /\ rest[k] = <<"release">>
    BY <2>2
  <2>6. \A j \in 1..(k - 1) : rest[j] # <<"shutdown">>
    BY <2>3
  <2> HIDE DEF k
  <2> QED
    BY <2>4, <2>5, <2>6 DEF ReleaseFirst
<1> QED
  BY <1>2, <1>3 DEF rest

\* A copy that was told to keep the browsers, and could say so.
Kept(c) == ui[c].exit = "keep" /\ pc[c]["signal"] = "idle" /\ ~\E e \in hurried : e[1] = c

\* Nobody asks for a shutdown before the exit of the window or a signal, and the
\* release is queued in between.
Keeping(c) ==
    /\ pc[c]["main"] # "idle" => at[c] = "shutdown"
    /\ at[c] # "shutdown" /\ pc[c]["signal"] = "idle" =>
          ~Asked(queue[c]) /\ thread[c] # "stopping"
    /\ ui[c].exit = "keep" => at[c] \in {"handover", "shutdown"}
    /\ at[c] = "shutdown" /\ Kept(c) =>
          thread[c] = "done" \/ (thread[c] = "running" /\ ReleaseFirst(queue[c]))
AllKeep == \A c \in Copies : Keeping(c)

LEMMA SameKeeping ==
    ASSUME NEW d \in Copies, Keeping(d), hurried \subseteq hurried',
           at'[d] = at[d], pc'[d] = pc[d], queue'[d] = queue[d], thread'[d] = thread[d],
           ui'[d].exit = ui[d].exit
    PROVE  Keeping(d)'
  BY DEF Keeping, Kept

LEMMA EndsKeeping ==
    ASSUME Inv, AllKeep, NEW c \in Copies, Ends(c), hurried \subseteq hurried',
           NEW d \in Copies
    PROVE  Keeping(d)'
<1> USE DEF Inv, Types, QueueType, PlaceType, AgentType, OtherType
<1>1. CASE d = c
  BY <1>1, NothingAsked DEF Ends, Keeping, Kept, Closed, Agents
<1>2. CASE d # c
  BY <1>2, SameKeeping DEF Ends, AllKeep
<1> QED
  BY <1>1, <1>2

LEMMA StartupKeeping ==
    ASSUME Inv, AllKeep, NEW c \in Copies, Startup(c), NEW d \in Copies PROVE Keeping(d)'
<1> USE DEF Inv, Types, QueueType, PlaceType, AgentType, OtherType, window, settings,
            runtime, bounds
<1>1. CASE Ends(c) /\ UNCHANGED hurried
  BY <1>1, EndsKeeping
<1>2. ASSUME ~(Ends(c) /\ UNCHANGED hurried), ~\E p \in Profiles : RecoverSession(c, p)
      PROVE  Keeping(d)'
  <2>1. /\ UNCHANGED <<pc, queue, hurried>>
        /\ at[c] # "shutdown" /\ at[c] # "handover"
        /\ \E to \in Steps \ {"shutdown"} : at' = [at EXCEPT ![c] = to]
        /\ thread' = thread \/ thread' = [thread EXCEPT ![c] = "running"]
        /\ ui'[d].exit = ui[d].exit
    <3>1. CASE Launch(c) \/ Acquire(c) \/ OpenStorage(c)
      <4>1. UNCHANGED <<pc, queue, hurried, thread, ui>> /\ at[c] \in {"none", "lock", "storage"}
        BY <1>2, <3>1 DEF Launch, Acquire, OpenStorage
      <4>2. \E to \in Steps \ {"shutdown"} : at' = [at EXCEPT ![c] = to]
        BY <1>2, <3>1 DEF Launch, Acquire, OpenStorage, Steps
      <4> QED
        BY <4>1, <4>2
    <3>2. CASE Assemble(c)
      BY <3>2 DEF Assemble, Steps
    <3>3. CASE OpenWindow(c)
      <4>1. ui'[d].exit = ui[d].exit
        BY <3>3 DEF OpenWindow, Screen
      <4> QED
        BY <3>3, <4>1 DEF OpenWindow, Steps
    <3> QED
      BY <1>2, <3>1, <3>2, <3>3 DEF Startup
  <2>2. CASE d = c
    BY <2>1, <2>2 DEF AllKeep, Keeping, Kept
  <2>3. CASE d # c
    BY <2>1, <2>3, SameKeeping DEF AllKeep
  <2> QED
    BY <2>2, <2>3
<1>3. ASSUME NEW p \in Profiles, RecoverSession(c, p) PROVE Keeping(d)'
  BY <1>3, SameKeeping DEF RecoverSession, AllKeep
<1> QED
  BY <1>1, <1>2, <1>3

LEMMA ThreadKeeping ==
    ASSUME Inv, AllKeep, NEW c \in Copies, Thread(c), NEW d \in Copies PROVE Keeping(d)'
<1> USE DEF Inv, Types, QueueType, PlaceType, AgentType, OtherType, window, settings,
            runtime, bounds
<1>1. UNCHANGED <<at, ui, pc, hurried>>
  BY DEF Thread, Takes, CleanUp
<1>2. CASE d # c
  <2>1. queue'[d] = queue[d] /\ thread'[d] = thread[d]
    BY <1>2 DEF Thread, Takes, CleanUp
  <2> QED
    BY <1>1, <2>1, SameKeeping DEF AllKeep
<1>3. CASE d = c /\ CleanUp(c)
  <2>1. thread[c] = "stopping" /\ queue' = queue /\ thread'[c] \in {"stopping", "done"}
    BY <1>3 DEF CleanUp
  <2> QED
    BY <1>1, <1>3, <2>1 DEF AllKeep, Keeping, Kept
<1>4. CASE d = c /\ Takes(c)
  <2>1. /\ thread[c] = "running" /\ queue[c] \in Seq(Commands) /\ queue[c] # <<>>
        /\ queue'[c] = Tail(queue[c])
    BY <1>4 DEF Takes
  <2>2. Head(queue[c]) \in Commands
    BY <2>1, HeadTailProperties
  <2>3. \/ Head(queue[c]) = <<"release">> /\ thread'[c] = "done"
        \/ Head(queue[c]) = <<"shutdown">> /\ thread'[c] = "stopping"
        \/ Head(queue[c]) \notin {<<"release">>, <<"shutdown">>} /\ thread'[c] = "running"
    <3> DEFINE command == Head(queue[c])
    <3>1. \/ command[1] \in {"start", "stop"} /\ command \notin {<<"release">>, <<"shutdown">>}
          \/ command = <<"release">> /\ command[1] = "release"
          \/ command = <<"shutdown">> /\ command[1] = "shutdown"
      <4> HIDE DEF command
      <4>1. command \in Commands
        BY <2>2 DEF command
      <4> QED
        BY <4>1 DEF Commands
    <3>2. CASE command[1] \in {"start", "stop"} /\ command \notin {<<"release">>, <<"shutdown">>}
      BY <1>4, <2>1, <3>2 DEF Takes
    <3>3. CASE command = <<"release">> /\ command[1] = "release"
      BY <1>4, <3>3 DEF Takes
    <3>4. CASE command = <<"shutdown">> /\ command[1] = "shutdown"
      BY <1>4, <3>4 DEF Takes
    <3> QED
      BY <3>1, <3>2, <3>3, <3>4
  <2>4. /\ ~Asked(queue[c]) => ~Asked(queue'[c]) /\ Head(queue[c]) # <<"shutdown">>
        /\ ReleaseFirst(queue[c]) /\ Head(queue[c]) # <<"release">> =>
              ReleaseFirst(queue'[c]) /\ Head(queue[c]) # <<"shutdown">>
    BY <2>1, TailAsked
  <2>5. <<"release">> # <<"shutdown">>
    OBVIOUS
  <2> HIDE DEF Inv, Types, QueueType, PlaceType, AgentType, OtherType
  <2>6. Keeping(c)
    BY DEF AllKeep
  <2>7. pc'[c] = pc[c] /\ at'[c] = at[c] /\ ui'[c] = ui[c] /\ hurried' = hurried
    BY <1>1
  <2> QED
    BY <1>4, <2>1, <2>3, <2>4, <2>5, <2>6, <2>7 DEF Keeping, Kept
<1> QED
  BY <1>2, <1>3, <1>4 DEF Thread

LEMMA WindowKeeping ==
    ASSUME Inv, AllKeep, NEW c \in Copies, Window(c), NEW d \in Copies PROVE Keeping(d)'
<1> USE DEF Inv, Types, QueueType, PlaceType, AgentType, OtherType, window, settings,
            runtime, bounds
<1>1. ASSUME NEW p \in Profiles, NEW what \in {"start", "stop"}, Click(c, <<what, p>>)
      PROVE  Keeping(d)'
  <2>1. /\ at[c] = "window" /\ UNCHANGED <<at, ui, pc, thread, hurried>>
        /\ queue' = queue \/ queue' = [queue EXCEPT ![c] = Append(@, <<what, p>>)]
    BY <1>1 DEF Click
  <2>2. <<what, p>> \in Commands /\ <<what, p>> # <<"shutdown">>
    BY DEF Commands
  <2>3. Asked(queue'[c]) => Asked(queue[c])
    <3>1. ~Asked(queue[c]) => ~Asked(Append(queue[c], <<what, p>>))
      BY <2>2, AppendAsked
    <3> QED
      BY <2>1, <3>1
  <2>4. CASE d = c
    BY <2>1, <2>3, <2>4 DEF AllKeep, Keeping, Kept
  <2>5. CASE d # c
    BY <2>1, <2>5, SameKeeping DEF AllKeep
  <2> QED
    BY <2>4, <2>5
<1>2. CASE HandOver(c)
  <2>1. /\ at[c] = "handover" /\ UNCHANGED <<ui, thread>> /\ hurried \subseteq hurried'
        /\ at' = [at EXCEPT ![c] = "shutdown"]
        /\ pc' = [pc EXCEPT ![c]["main"] = "take"]
    BY <1>2 DEF HandOver
  <2>2. CASE d # c
    BY <1>2, <2>1, <2>2, SameKeeping DEF HandOver, AllKeep
  <2>3. CASE d = c
    <3>1. pc'[c]["signal"] = pc[c]["signal"]
      BY <2>1 DEF Agents
    <3>2. \/ /\ queue'[c] = Append(queue[c], <<"release">>)
             /\ thread[c] \in {"running", "stopping"}
          \/ <<c, "refused">> \in hurried'
      BY <1>2 DEF HandOver, Disconnected
    <3>3. ASSUME Kept(c)' PROVE thread'[c] = "running" /\ ReleaseFirst(queue'[c])
      <4>1. <<c, "refused">> \notin hurried' /\ pc[c]["signal"] = "idle"
        BY <3>1, <3>3 DEF Kept
      <4>2. ~Asked(queue[c]) /\ thread[c] # "stopping"
        BY <2>1, <4>1 DEF AllKeep, Keeping
      <4>3. <<"release">> \in Commands
        BY DEF Commands
      <4>4. ReleaseFirst(Append(queue[c], <<"release">>))
        BY <4>2, <4>3, AppendAsked
      <4> QED
        BY <2>1, <3>2, <4>1, <4>2, <4>4
    <3> HIDE DEF Inv, Types, QueueType, PlaceType, AgentType, OtherType
    <3>4. at'[c] = "shutdown"
      BY <2>1 DEF Inv, Types, PlaceType
    <3> QED
      BY <2>3, <3>3, <3>4 DEF Keeping
  <2> QED
    BY <2>2, <2>3
<1>3. ASSUME NEW exit \in Exits, Leave(c, exit), at[c] = "window",
             UNCHANGED <<queue, thread, hurried>>
      PROVE  Keeping(d)'
  <2>1. CASE d # c
    <3>1. at'[d] = at[d] /\ pc'[d] = pc[d] /\ ui'[d] = ui[d]
      BY <1>3, <2>1 DEF Leave, EnterBackground
    <3> QED
      BY <1>3, <3>1, SameKeeping DEF AllKeep
  <2>2. CASE d = c
    <3>1. ui[c].exit # "keep"
      BY <1>3 DEF AllKeep, Keeping
    <3>2. CASE exit = "background"
      <4>1. at'[c] = at[c] /\ pc'[c] = pc[c] /\ ui'[c].exit = ui[c].exit
        BY <1>3, <3>2 DEF Leave, EnterBackground, Screen
      <4> QED
        BY <1>3, <2>2, <4>1, SameKeeping DEF AllKeep
    <3>3. CASE exit = "keep"
      <4>1. at'[c] = "handover" /\ pc'[c] = pc[c]
        BY <1>3, <3>3 DEF Leave
      <4> QED
        BY <1>3, <2>2, <4>1 DEF AllKeep, Keeping
    <3>4. CASE exit = "all"
      <4>1. at'[c] = "shutdown" /\ ui'[c].exit = "all"
        BY <1>3, <3>4 DEF Leave, Screen
      <4> QED
        BY <2>2, <4>1 DEF Keeping, Kept
    <3> QED
      BY <3>2, <3>3, <3>4 DEF Exits
  <2> QED
    BY <2>1, <2>2
<1>4. ASSUME NEW b \in BOOLEAN,
             ui' = [ui EXCEPT ![c].dialog = b] \/ ui' = [ui EXCEPT ![c].shown = b],
             UNCHANGED <<at, pc, queue, thread, hurried>>
      PROVE  Keeping(d)'
  <2>1. CASE ui' = [ui EXCEPT ![c].dialog = b]
    <3>1. ui'[d].exit = ui[d].exit
      BY <2>1 DEF Screen
    <3> QED
      BY <1>4, <3>1, SameKeeping DEF AllKeep
  <2>2. CASE ui' = [ui EXCEPT ![c].shown = b]
    <3>1. ui'[d].exit = ui[d].exit
      BY <2>2 DEF Screen
    <3> QED
      BY <1>4, <3>1, SameKeeping DEF AllKeep
  <2> QED
    BY <1>4, <2>1, <2>2
<1>5. CASE DecideExit(c)
  BY <1>3, <1>4, <1>5 DEF DecideExit, Exits, Modes
<1>6. ASSUME NEW exit \in Exits, NEW remember \in BOOLEAN, Answer(c, exit, remember)
      PROVE  Keeping(d)'
  BY <1>3, <1>6 DEF Answer
<1>7. CASE Dismiss(c)
  BY <1>4, <1>7 DEF Dismiss
<1>8. CASE TrayEvent(c)
  BY <1>3, <1>4, <1>8 DEF TrayEvent, TrayShow, TrayQuit, Exits
<1> QED
  BY <1>1, <1>2, <1>5, <1>6, <1>7, <1>8 DEF Window

LEMMA ShutdownKeeping ==
    ASSUME Inv, AllKeep, NEW c \in Copies, NEW a \in Agents, Shutdown(c, a), NEW d \in Copies
    PROVE  Keeping(d)'
<1> USE DEF Inv, Types, QueueType, PlaceType, AgentType, OtherType, window, settings,
            runtime, bounds
<1>1. CASE SendOnly(c, a) \/ Waited(c, a) \/ GraceOver(c, a)
  BY <1>1, EndsKeeping DEF SendOnly, Waited, GraceOver
<1>2. ASSUME TakeHandle(c, a) \/ Send(c, a) PROVE Keeping(d)'
  <2>1. /\ UNCHANGED <<at, ui, thread, hurried>> /\ pc[c][a] \in {"take", "send"}
        /\ \E to \in {"send", "sendOnly", "wait"} : pc' = [pc EXCEPT ![c][a] = to]
        /\ \/ queue' = queue
           \/ queue' = [queue EXCEPT ![c] = Append(@, <<"shutdown">>)]
    BY <1>2 DEF TakeHandle, Send
  <2>2. CASE d # c
    BY <2>1, <2>2, SameKeeping DEF AllKeep
  <2>3. CASE d = c
    <3>1. ReleaseFirst(queue[c]) => ReleaseFirst(queue'[c])
      <4>1. <<"shutdown">> \in Commands
        BY DEF Commands
      <4>2. ReleaseFirst(queue[c]) => ReleaseFirst(Append(queue[c], <<"shutdown">>))
        BY <4>1, AppendAsked
      <4> QED
        BY <2>1, <4>2
    <3>2. CASE a = "signal"
      <4>1. pc'[c]["signal"] # "idle" /\ pc'[c]["main"] = pc[c]["main"]
        BY <2>1, <3>2 DEF Agents
      <4> QED
        BY <2>1, <2>3, <4>1 DEF AllKeep, Keeping, Kept
    <3>3. CASE a = "main"
      <4>1. at[c] = "shutdown" /\ pc'[c]["signal"] = pc[c]["signal"]
        BY <2>1, <3>3 DEF Agents, AllKeep, Keeping
      <4> QED
        BY <2>1, <2>3, <3>1, <4>1 DEF AllKeep, Keeping, Kept
    <3> QED
      BY <3>2, <3>3 DEF Agents
  <2> QED
    BY <2>2, <2>3
<1> QED
  BY <1>1, <1>2 DEF Shutdown

LEMMA StepKeeping == Inv /\ AllKeep /\ [Next]_vars => AllKeep'
<1> SUFFICES ASSUME Inv, AllKeep, [Next]_vars, NEW d \in Copies PROVE Keeping(d)'
  BY DEF AllKeep
<1> USE DEF window, settings, runtime, bounds
<1>1. ASSUME NEW c \in Copies, Signal(c) PROVE Keeping(d)'
  <2>1. /\ UNCHANGED <<at, ui, queue, thread, hurried>>
        /\ pc' = [pc EXCEPT ![c]["signal"] = "take"]
    BY <1>1 DEF Signal
  <2>2. CASE d = c
    <3>1. pc'[c]["signal"] # "idle" /\ pc'[c]["main"] = pc[c]["main"]
      BY <2>1 DEF Inv, Types, AgentType, Agents
    <3> QED
      BY <2>1, <2>2, <3>1 DEF AllKeep, Keeping, Kept
  <2>3. CASE d # c
    BY <2>1, <2>3, SameKeeping DEF AllKeep
  <2> QED
    BY <2>2, <2>3
<1>2. ASSUME NEW c \in Copies, Killed(c) PROVE Keeping(d)'
  BY <1>2, EndsKeeping DEF Killed
<1>3. ASSUME NEW p \in Profiles, BrowserDies(p) PROVE Keeping(d)'
  BY <1>3, SameKeeping DEF BrowserDies, AllKeep
<1>4. CASE UNCHANGED vars
  BY <1>4, SameKeeping DEF vars, AllKeep
<1> QED
  BY <1>1, <1>2, <1>3, <1>4, StartupKeeping, ThreadKeeping, WindowKeeping, ShutdownKeeping
  DEF Next

\* Whoever answers "keep running" finds every browser again: the release reaches the
\* thread before any shutdown, unless a signal overtakes the window or the queue
\* refuses it (leave, hand_over, release_all, shutdown).
THEOREM KeepKeeps == Spec => KeepMeansKeep
<1>1. Init => AllKeep
  BY NothingAsked DEF Init, AllKeep, Keeping, Kept, Closed, Agents
<1>2. AllKeep /\ [Next]_vars =>
        [\A c \in Copies, p \in Profiles :
          (/\ ui[c].exit = "keep" /\ pc[c]["signal"] = "idle" /\ ~\E e \in hurried : e[1] = c
           /\ at[c] = "shutdown" /\ browser[p].owner = c
           /\ \A i \in DOMAIN queue[c] : queue[c][i] # <<"stop", p>>)
          => ~(thread[c] = "stopping" /\ browser'[p] = NoBrowser)]_vars
  BY DEF AllKeep, Keeping, Kept
<1> QED
  BY Invariant, <1>1, <1>2, StepKeeping, PTL DEF Spec, KeepMeansKeep

==============================================================================
