----------------------------- MODULE JournalProofs -----------------------------
(***************************************************************************)
(* What a session record promises, proved for every set of profiles, pids   *)
(* and platforms, and for any number of runs, crashes and reboots.          *)
(*                                                                         *)
(* The argument follows one live process of one profile.  Where every       *)
(* process can be identified it is in the table, or named by the record, or *)
(* one of the losses the model counts; a step takes the table or the record *)
(* away only when the others still answer for the process, or when it is    *)
(* dead.  Elsewhere what is kept is the identity: on Windows no two         *)
(* processes share a pid and a start time.                                  *)
(***************************************************************************)
EXTENDS Journal, TLAPS

-----------------------------------------------------------------------------
(* Types.                                                                   *)

Id == Ids \cup {NoId}
Processes == [who : Owners, born : Nat \ {0}, up : BOOLEAN] \cup {Free}
Records == [browser : Id, xray : Id, left : BOOLEAN]
Hows == {"none", "starting", "spawned", "owned", "adopted"}
Entries == [browser : Id, xray : Id, how : Hows]
Jobs == [p : Profiles \cup {Nobody}, comps : SUBSET Comps,
         stage : {"next", "asked", "killed"}, failed : BOOLEAN]

Running == {"spawned", "owned", "adopted"}

Machine == world \in Worlds /\ proc \in [Pids -> Processes] /\ clock \in Nat
Disk == record \in [Profiles -> Records] /\ config \subseteq Proxied
Memory ==
    /\ table \in [Profiles -> Entries] /\ job \in Jobs
    /\ mode \in {"off", "recover", "run", "release", "shutdown"}
    /\ todo \subseteq Profiles /\ purpose \subseteq Profiles

\* A record names a browser, and an engine exactly for a proxied profile.
RecordShape(p) ==
    /\ record[p].browser = NoId => record[p] = NoRecord
    /\ (record[p].xray # NoId) = (record[p] # NoRecord /\ p \in Proxied)

\* So does the entry of a start that has spawned its browser.
EntryShape(p) ==
    /\ table[p].how = "none" => table[p] = NoSession
    /\ table[p].how \in {"starting", "spawned"} =>
          /\ (table[p].xray # NoId) = (p \in Proxied)
          /\ p \in Proxied \/ table[p].browser # NoId
    /\ table[p].how = "spawned" => table[p].browser # NoId
Shapes == \A p \in Profiles : RecordShape(p) /\ EntryShape(p)

-----------------------------------------------------------------------------
(* Modes and the stop in progress.                                          *)

Source(c) == IF mode = "recover" THEN record[job.p][c] ELSE table[job.p][c]

Quiet == \A p \in Profiles : table[p].how \notin {"starting", "spawned"}
Modes ==
    /\ mode = "off" => job = NoJob /\ \A p \in Profiles : table[p].how = "none"
    /\ mode \in {"recover", "release", "shutdown"} => Quiet
    /\ mode = "recover" =>
          \A p \in todo : table[p].how = "none" /\ record[p] # NoRecord
JobPlace ==
    /\ job.p = Nobody => job = NoJob
    /\ job.p # Nobody =>
          \/ mode = "recover" /\ job.p \in todo /\ ~record[job.p].left
          \/ mode \in {"run", "shutdown"} /\ table[job.p].how \in {"owned", "adopted"}
    /\ job.stage # "next" => job.comps # {} /\ JobId # NoId

-----------------------------------------------------------------------------
(* Custody.                                                                 *)

Of(p, pid) == proc[pid].up /\ proc[pid].who \in {p} \X Comps
IdOf(pid) == [pid |-> pid, born |-> proc[pid].born]

\* A running session has a record, or lost it to a failed write.
Vouched ==
    \A p \in Profiles : table[p].how \in Running =>
        record[p] # NoRecord \/ \E e \in excused : e[1] = p

\* What a running session holds its record names.
TableRecorded ==
    \A p \in Profiles, c \in Comps, pid \in Pids :
        table[p].how \in Running /\ Of(p, pid) /\ table[p][c] = IdOf(pid) =>
            record[p][c] = IdOf(pid) \/ <<p, IdOf(pid)>> \in excused

\* Once a record was treated, what it names the session holds, or the recovery
\* has reported it.
Treated(p) == mode \in {"run", "shutdown"} \/ (mode = "recover" /\ p \notin todo)
RecordHeld ==
    \A p \in Profiles, c \in Comps, pid \in Pids :
        Treated(p) /\ Of(p, pid) /\ record[p][c] = IdOf(pid) =>
            \/ \E d \in Comps : table[p][d] = IdOf(pid)
            \/ <<p, IdOf(pid)>> \in orphaned
            \/ table[p].how \notin Running /\ p \in unresolved

\* What a stop has ticked off without a failure is gone.
TickedOff ==
    job.p # Nobody /\ ~job.failed =>
        \A c \in Comps \ job.comps, pid \in Pids :
            ~(Of(job.p, pid) /\ Source(c) = IdOf(pid))

Everyone ==
    \A p \in Profiles, c \in Comps, pid \in Pids :
        proc[pid].up /\ proc[pid].who = <<p, c>> => Accounted(p, c, pid)
Custody == ~Obscure => Everyone /\ TableRecorded /\ RecordHeld /\ TickedOff

\* An identity of this boot: nobody else has it.  What a child's handle holds
\* is one; a record is one where start times are never handed out again.
Genuine(p, c, id) ==
    id # NoId => id.born <= clock
                 /\ (proc[id.pid].born = id.born => proc[id.pid].who = <<p, c>>)
Born0 == \A pid \in Pids : proc[pid].born <= clock
Identity ==
    \A p \in Profiles, c \in Comps :
        /\ Windows => Genuine(p, c, record[p][c])
        /\ Windows \/ table[p].how # "adopted" => Genuine(p, c, table[p][c])

\* A session left on purpose keeps its mark until a start succeeds it.
Marked ==
    /\ \A p \in purpose : record[p] # NoRecord /\ table[p].how # "spawned" => record[p].left
    /\ mode = "recover" /\ job.p # Nobody => job.p \notin purpose

Inv ==
    /\ Machine /\ Disk /\ Memory /\ Shapes
    /\ Modes /\ JobPlace
    /\ Vouched /\ NoStrayCredentials
    /\ Custody
    /\ Born0 /\ Identity /\ OnlyOurs
    /\ Marked

-----------------------------------------------------------------------------
(* Lemmas on processes and identities.                                      *)

\* What a slot of the process table holds.
LEMMA SlotFacts ==
    ASSUME Machine, NEW pid \in Pids
    PROVE  /\ proc[pid] \in Processes /\ proc[pid].born \in Nat /\ proc[pid].up \in BOOLEAN
           /\ proc[pid].up => proc[pid].born # 0 /\ IdOf(pid) \in Ids /\ IdOf(pid) # NoId
           /\ IdOf(pid).pid = pid /\ IdOf(pid).born = proc[pid].born
<1>1. proc[pid] \in Processes
  BY DEF Machine
<1>2. /\ proc[pid].born \in Nat /\ proc[pid].up \in BOOLEAN
      /\ proc[pid].up => proc[pid].born # 0
  <2>1. CASE proc[pid] = Free
    BY <2>1 DEF Free
  <2>2. CASE proc[pid] \in [who : Owners, born : Nat \ {0}, up : BOOLEAN]
    BY <2>2
  <2>3. QED
    BY <1>1, <2>1, <2>2 DEF Processes
<1>3. IdOf(pid).pid = pid /\ IdOf(pid).born = proc[pid].born
  BY DEF IdOf
<1>4. proc[pid].up => IdOf(pid) \in Ids /\ IdOf(pid) # NoId
  BY <1>2 DEF IdOf, Ids, NoId
<1>5. QED
  BY <1>1, <1>2, <1>3, <1>4

\* The fields of records, entries and identities.
LEMMA FieldFacts ==
    ASSUME Disk, Memory, NEW p \in Profiles, NEW c \in Comps
    PROVE  /\ record[p] \in Records /\ record[p][c] \in Id /\ record[p].left \in BOOLEAN
           /\ table[p] \in Entries /\ table[p][c] \in Id /\ table[p].how \in Hows
           /\ record[p].browser \in Id /\ record[p].xray \in Id
           /\ table[p].browser \in Id /\ table[p].xray \in Id
<1>1. record[p] \in Records /\ table[p] \in Entries
  BY DEF Disk, Memory
<1>2. c = "browser" \/ c = "xray"
  BY DEF Comps
<1>3. QED
  BY <1>1, <1>2 DEF Records, Entries

LEMMA IdFacts ==
    ASSUME NEW id \in Id
    PROVE  id # NoId => id \in Ids /\ id.pid \in Pids /\ id.born \in Nat /\ id.born # 0
BY DEF Id, Ids, NoId

\* No live process is added but a stranger's.
Kept == \A pid \in Pids : proc'[pid].up => proc'[pid] = proc[pid] \/ proc'[pid].who = Somebody

LEMMA KeptOf ==
    ASSUME Kept, NEW p \in Profiles, NEW pid \in Pids, Of(p, pid)'
    PROVE  Of(p, pid) /\ IdOf(pid)' = IdOf(pid) /\ proc'[pid] = proc[pid]
BY NameAssumption DEF Kept, Of, IdOf, Comps

LEMMA KeptOwner ==
    ASSUME Kept, NEW p \in Profiles, NEW c \in Comps, NEW pid \in Pids,
           proc'[pid].up, proc'[pid].who = <<p, c>>
    PROVE  /\ proc[pid].up /\ proc[pid].who = <<p, c>> /\ proc'[pid].born = proc[pid].born
           /\ Of(p, pid) /\ proc'[pid] = proc[pid]
<1>1. <<p, c>> # Somebody
  BY NameAssumption DEF Comps
<1>2. proc'[pid] = proc[pid]
  BY <1>1 DEF Kept
<1>3. QED
  BY <1>2 DEF Of

\* Processes of ours that end.
LEMMA WithoutMachine ==
    ASSUME Machine, Born0, NEW S, proc' = Without(S), UNCHANGED <<world, clock>>
    PROVE  Machine' /\ Kept /\ Born0'
<1>1. \A pid \in Pids : proc'[pid] = Free \/ proc'[pid] = proc[pid]
  BY DEF Without
<1>2. Machine'
  BY <1>1 DEF Machine, Without, Processes
<1>3. Kept
  BY <1>1 DEF Kept, Free
<1>4. Born0'
  BY <1>1, SlotFacts DEF Born0, Free, Machine
<1>5. QED
  BY <1>2, <1>3, <1>4

LEMMA WithoutDead ==
    ASSUME NEW S, proc' = Without(S), NEW pid \in Pids, proc'[pid].up
    PROVE  pid \notin S /\ proc'[pid] = proc[pid]
BY DEF Without, Free

\* A slot keeps its process, loses it, or has a later one.
Ages == /\ clock' \in Nat /\ clock <= clock'
        /\ \A pid \in Pids : \/ proc'[pid].born = proc[pid].born /\ proc'[pid].who = proc[pid].who
                             \/ proc'[pid].born = 0
                             \/ proc'[pid].born \in Nat /\ clock < proc'[pid].born

LEMMA GenuineKept ==
    ASSUME Machine, Ages, NEW p, NEW c, NEW id \in Id, Genuine(p, c, id)
    PROVE  id # NoId => id.born <= clock'
                        /\ (proc'[id.pid].born = id.born => proc'[id.pid].who = <<p, c>>)
<1> SUFFICES ASSUME id # NoId
             PROVE  id.born <= clock'
                    /\ (proc'[id.pid].born = id.born => proc'[id.pid].who = <<p, c>>)
  OBVIOUS
<1>1. id.pid \in Pids /\ id.born \in Nat /\ id.born # 0 /\ clock \in Nat
  BY IdFacts DEF Machine
<1>2. id.born <= clock /\ (proc[id.pid].born = id.born => proc[id.pid].who = <<p, c>>)
  BY DEF Genuine
<1>3. QED
  BY <1>1, <1>2 DEF Ages

LEMMA WithoutAges ==
    ASSUME Machine, NEW S, proc' = Without(S), UNCHANGED clock
    PROVE  Ages
BY DEF Machine, Without, Free, Ages

-----------------------------------------------------------------------------
(* What each part of the invariant depends on.                              *)

LEMMA AccountKept ==
    ASSUME Custody, Kept, UNCHANGED <<world, record, table, mode, todo, unresolved, excused, orphaned>>
    PROVE  ~Obscure' => Everyone' /\ TableRecorded' /\ RecordHeld'
<1> SUFFICES ASSUME ~Obscure, Everyone, TableRecorded, RecordHeld
             PROVE  Everyone' /\ TableRecorded' /\ RecordHeld'
  BY DEF Custody, Obscure
<1>1. Everyone'
  <2> SUFFICES ASSUME NEW p \in Profiles, NEW c \in Comps, NEW pid \in Pids,
                      proc'[pid].up, proc'[pid].who = <<p, c>>
               PROVE  Accounted(p, c, pid)'
    BY DEF Everyone
  <2>1. proc[pid].up /\ proc[pid].who = <<p, c>> /\ proc'[pid].born = proc[pid].born
    BY KeptOwner
  <2>2. Accounted(p, c, pid)
    BY <2>1 DEF Everyone
  <2>3. QED
    BY <2>1, <2>2 DEF Accounted
<1>2. TableRecorded'
  BY KeptOf DEF TableRecorded
<1>3. RecordHeld'
  BY KeptOf DEF RecordHeld, Treated
<1>4. QED
  BY <1>1, <1>2, <1>3

LEMMA TickedKept ==
    ASSUME Custody, Memory, Kept, UNCHANGED <<world, record, table, mode, job>>
    PROVE  ~Obscure' => TickedOff'
<1>1. job.p \in Profiles \cup {Nobody}
  BY DEF Memory, Jobs
<1>2. QED
  BY <1>1, KeptOf DEF Custody, TickedOff, Source, Obscure

LEMMA IdentityKept ==
    ASSUME Inv, Ages, UNCHANGED <<world, record, table>>
    PROVE  Identity'
<1> SUFFICES ASSUME NEW p \in Profiles, NEW c \in Comps
             PROVE  /\ Windows => Genuine(p, c, record[p][c])'
                    /\ Windows \/ table[p].how # "adopted" => Genuine(p, c, table[p][c])'
  BY DEF Identity, Windows
<1>1. /\ Windows => Genuine(p, c, record[p][c])
      /\ Windows \/ table[p].how # "adopted" => Genuine(p, c, table[p][c])
  BY DEF Inv, Identity
<1>2. record[p][c] \in Id /\ table[p][c] \in Id
  BY FieldFacts DEF Inv
<1>3. Genuine(p, c, record[p][c]) => Genuine(p, c, record[p][c])'
  BY <1>2, GenuineKept DEF Inv, Genuine
<1>4. Genuine(p, c, table[p][c]) => Genuine(p, c, table[p][c])'
  BY <1>2, GenuineKept DEF Inv, Genuine
<1>5. QED
  BY <1>1, <1>3, <1>4

LEMMA SameFiles ==
    ASSUME Inv, UNCHANGED <<files, mode, table, todo, job, purpose, excused>>
    PROVE  Disk' /\ Memory' /\ Shapes' /\ Modes' /\ JobPlace' /\ Vouched'
           /\ NoStrayCredentials' /\ Marked'
BY DEF Inv, files, Disk, Memory, Shapes, RecordShape, EntryShape, Modes, Quiet, JobPlace,
       JobId, Vouched, NoStrayCredentials, Recorded, Marked

\* A stop goes on to the next component.
Current == IF "browser" \in job.comps THEN "browser" ELSE "xray"

LEMMA CurrentFacts ==
    ASSUME Memory, job.comps # {}
    PROVE  Current \in job.comps /\ Current \in Comps /\ JobId = Source(Current)
<1>1. job.comps \subseteq Comps
  BY DEF Memory, Jobs
<1>2. QED
  BY <1>1 DEF Current, Comps, JobId, Source

LEMMA JobFacts ==
    ASSUME Inv, job.p # Nobody
    PROVE  /\ job.p \in Profiles /\ job \in Jobs /\ job.comps \subseteq Comps
           /\ job.failed \in BOOLEAN
           /\ mode \in {"recover", "run", "shutdown"}
           /\ \A c \in Comps : Source(c) \in Id
<1>1. job.p \in Profiles /\ job \in Jobs /\ job.comps \subseteq Comps /\ job.failed \in BOOLEAN
  BY DEF Inv, Memory, Jobs
<1>2. mode \in {"recover", "run", "shutdown"}
  BY DEF Inv, JobPlace
<1>3. \A c \in Comps : Source(c) \in Id
  BY <1>1, FieldFacts DEF Inv, Source
<1>4. QED
  BY <1>1, <1>2, <1>3

LEMMA NextComponent ==
    ASSUME Inv, job.p # Nobody, job.comps # {}, NEW failed \in BOOLEAN, Component(failed),
           ~failed /\ ~Obscure => \A pid \in Pids : ~(Of(job.p, pid) /\ JobId = IdOf(pid)),
           UNCHANGED <<os, files, mode, table, todo, unresolved, purpose, excused, orphaned>>
    PROVE  /\ Machine' /\ Disk' /\ Memory' /\ Shapes' /\ Modes' /\ JobPlace'
           /\ Vouched' /\ NoStrayCredentials' /\ Custody' /\ Born0' /\ Identity' /\ Marked'
<1>1. /\ job'.comps = job.comps \ {Current} /\ job'.stage = "next" /\ job'.p = job.p
      /\ job'.failed = (job.failed \/ failed) /\ job' \in Jobs
  BY JobFacts DEF Component, Current, Jobs
<1>2. Machine' /\ Disk' /\ Memory' /\ Shapes' /\ Vouched' /\ NoStrayCredentials' /\ Born0'
  BY <1>1 DEF Inv, os, files, Machine, Disk, Memory, Shapes, RecordShape, EntryShape, Vouched,
              NoStrayCredentials, Recorded, Born0
<1>3. Modes' /\ JobPlace' /\ Marked'
  BY <1>1 DEF Inv, os, files, Modes, NoJob, Quiet, JobPlace, Marked
<1>4. Kept /\ Ages
  BY SlotFacts DEF Inv, os, Kept, Ages, Machine
<1>5. Identity'
  BY <1>4, IdentityKept DEF os, files
<1>6. ~Obscure' => Everyone' /\ TableRecorded' /\ RecordHeld'
  BY <1>4, AccountKept DEF os, files, Inv
<1>7. ~Obscure' => TickedOff'
  <2> SUFFICES ASSUME ~Obscure, ~job'.failed, NEW c \in Comps \ job'.comps, NEW pid \in Pids
               PROVE  ~(Of(job.p, pid) /\ Source(c) = IdOf(pid))
    BY <1>1 DEF TickedOff, Source, os, files, Of, IdOf, Obscure
  <2>1. CASE c = Current
    BY <1>1, <2>1, CurrentFacts DEF Inv
  <2>2. CASE c # Current
    BY <1>1, <2>2 DEF Inv, Custody, TickedOff
  <2>3. QED
    BY <2>1, <2>2
<1>8. QED
  BY <1>2, <1>3, <1>5, <1>6, <1>7 DEF Custody

-----------------------------------------------------------------------------
(* Processes come and go.                                                   *)

LEMMA StrangerAppearsKeeps ==
    ASSUME Inv, NEW q \in Pids, StrangerAppears(q)
    PROVE  Inv'
<1>1. /\ proc' = [proc EXCEPT ![q] = [who |-> Somebody, born |-> clock + 1, up |-> TRUE]]
      /\ clock' = clock + 1 /\ clock \in Nat /\ proc \in [Pids -> Processes]
  BY DEF StrangerAppears, Born, Inv, Machine
<1>2. Machine' /\ Born0'
  <2>1. [who |-> Somebody, born |-> clock + 1, up |-> TRUE] \in Processes
    BY <1>1 DEF Processes, Owners
  <2>2. Machine'
    BY <1>1, <2>1 DEF StrangerAppears, Born, Inv, Machine
  <2>3. Born0'
    BY <1>1, SlotFacts DEF Inv, Born0
  <2>4. QED
    BY <2>2, <2>3
<1>3. Kept
  BY <1>1 DEF Kept
<1>4. Ages
  BY <1>1 DEF Ages
<1>5. Custody'
  BY <1>3, AccountKept, TickedKept DEF StrangerAppears, Born, files, history, Inv, Custody
<1>6. Identity' /\ OnlyOurs'
  BY <1>4, IdentityKept DEF StrangerAppears, Born, files, history, Inv, OnlyOurs, Windows
<1>7. QED
  BY <1>2, <1>5, <1>6, SameFiles DEF StrangerAppears, history, Inv

LEMMA DiesKeeps ==
    ASSUME Inv, NEW q \in Pids, Dies(q)
    PROVE  Inv'
<1>1. Machine' /\ Born0' /\ Kept /\ Ages
  <2>1. CASE proc' = Without({q})
    BY <2>1, WithoutMachine, WithoutAges DEF Dies, Inv
  <2>2. CASE proc' = [proc EXCEPT ![q].up = FALSE]
    <3>1. proc[q] \in [who : Owners, born : Nat \ {0}, up : BOOLEAN]
      BY DEF Dies, Inv, Machine, Processes, Free
    <3>2. /\ [proc[q] EXCEPT !.up = FALSE] \in Processes
          /\ [proc[q] EXCEPT !.up = FALSE].up = FALSE
          /\ [proc[q] EXCEPT !.up = FALSE].who = proc[q].who
          /\ [proc[q] EXCEPT !.up = FALSE].born = proc[q].born
      BY <3>1 DEF Processes
    <3>3. \A pid \in Pids : proc'[pid] = IF pid = q THEN [proc[q] EXCEPT !.up = FALSE] ELSE proc[pid]
      BY <2>2 DEF Inv, Machine
    <3>4. Machine'
      BY <2>2, <3>2 DEF Inv, Machine, Dies
    <3>5. /\ clock' = clock /\ clock \in Nat
          /\ \A pid \in Pids : proc'[pid].born = proc[pid].born /\ proc'[pid].who = proc[pid].who
      BY <3>2, <3>3 DEF Inv, Machine, Dies
    <3>6. Kept
      BY <3>2, <3>3 DEF Kept
    <3>7. Born0' /\ Ages
      BY <3>5 DEF Inv, Born0, Ages
    <3>8. QED
      BY <3>4, <3>6, <3>7
  <2>3. QED
    BY <2>1, <2>2 DEF Dies
<1>2. Custody'
  BY <1>1, AccountKept, TickedKept DEF Dies, files, history, Inv, Custody
<1>3. Identity' /\ OnlyOurs'
  BY <1>1, IdentityKept DEF Dies, files, history, Inv, OnlyOurs, Windows
<1>4. QED
  BY <1>1, <1>2, <1>3, SameFiles DEF Dies, history, Inv

-----------------------------------------------------------------------------
(* journal::stop.                                                           *)

\* The stop in progress asks or kills: its component stays.
LEMMA SameComponent ==
    ASSUME Inv, job.p # Nobody, job.comps # {}, JobId # NoId,
           NEW stage \in {"asked", "killed"}, job' = [job EXCEPT !.stage = stage],
           UNCHANGED <<files, mode, table, todo, unresolved, purpose, excused>>
    PROVE  Disk' /\ Memory' /\ Shapes' /\ Modes' /\ JobPlace' /\ Vouched'
           /\ NoStrayCredentials' /\ Marked'
<1>1. /\ job'.p = job.p /\ job'.comps = job.comps /\ job'.failed = job.failed
      /\ job'.stage = stage /\ job' \in Jobs
  BY JobFacts DEF Jobs
<1>2. Disk' /\ Memory' /\ Shapes' /\ Vouched' /\ NoStrayCredentials'
  BY <1>1 DEF Inv, files, Disk, Memory, Shapes, RecordShape, EntryShape, Vouched,
              NoStrayCredentials, Recorded
<1>3. Modes' /\ JobPlace' /\ Marked'
  BY <1>1 DEF Inv, files, Modes, NoJob, Quiet, JobPlace, JobId, Marked
<1>4. QED
  BY <1>2, <1>3

LEMMA TickedSame ==
    ASSUME Inv, Kept, job'.p = job.p, job'.comps = job.comps, job'.failed = job.failed,
           UNCHANGED <<world, record, table, mode>>
    PROVE  ~Obscure' => TickedOff'
<1>1. job.p \in Profiles \cup {Nobody}
  BY DEF Inv, Memory, Jobs
<1>2. QED
  BY <1>1, KeptOf DEF Inv, Custody, TickedOff, Source, Obscure

LEMMA Unchanging ==
    ASSUME Inv, UNCHANGED os
    PROVE  Machine' /\ Born0' /\ Kept /\ Ages
BY SlotFacts DEF Inv, os, Machine, Born0, Kept, Ages

LEMMA StopAsksKeeps ==
    ASSUME Inv, StopAsks
    PROVE  Inv'
<1>1. PICK v \in Verdicts(JobId) :
          CASE v = "gone" -> Component(FALSE)
            [] v = "ours" -> job' = [job EXCEPT !.stage = "asked"]
            [] OTHER -> Component(TRUE)
  BY DEF StopAsks
<1>2. job.p # Nobody /\ job.comps # {}
  BY DEF StopAsks
<1>3. OnlyOurs'
  BY DEF StopAsks, os, history, Inv, OnlyOurs, Windows
<1>4. CASE v = "gone"
  <2>1. \A pid \in Pids : ~(Of(job.p, pid) /\ JobId = IdOf(pid))
    <3> SUFFICES ASSUME NEW pid \in Pids, Of(job.p, pid), JobId = IdOf(pid) PROVE FALSE
      OBVIOUS
    <3>1. JobId # NoId /\ JobId.pid = pid /\ proc[pid].up
      BY SlotFacts DEF Inv, Of
    <3>2. QED
      BY <1>4, <3>1 DEF Verdicts, Obscure
  <2>2. Component(FALSE)
    BY <1>1, <1>4
  <2>3. QED
    BY <1>2, <1>3, <2>1, <2>2, NextComponent DEF StopAsks, history, Inv
<1>5. CASE v = "ours"
  <2>1. job' = [job EXCEPT !.stage = "asked"]
    BY <1>1, <1>5
  <2>2. JobId # NoId
    BY <1>5 DEF Verdicts
  <2>3. job'.p = job.p /\ job'.comps = job.comps /\ job'.failed = job.failed
    BY <1>2, <2>1, JobFacts DEF Jobs
  <2>4. UNCHANGED <<os, files, mode, table, todo, unresolved, purpose, excused, orphaned>>
    BY DEF StopAsks, history
  <2>5. Machine' /\ Born0' /\ Kept /\ Ages
    BY <2>4, Unchanging
  <2>6. Custody'
    BY <2>3, <2>4, <2>5, AccountKept, TickedSame DEF Inv, Custody, os, files
  <2>7. Identity'
    BY <2>4, <2>5, IdentityKept DEF os, files
  <2>8. Disk' /\ Memory' /\ Shapes' /\ Modes' /\ JobPlace' /\ Vouched'
        /\ NoStrayCredentials' /\ Marked'
    BY <1>2, <2>1, <2>2, <2>4, SameComponent
  <2>9. QED
    BY <1>3, <2>5, <2>6, <2>7, <2>8 DEF Inv
<1>6. CASE v # "gone" /\ v # "ours"
  <2>1. Component(TRUE)
    BY <1>1, <1>6
  <2>2. QED
    BY <1>2, <1>3, <2>1, NextComponent DEF StopAsks, history, Inv
<1>7. QED
  BY <1>4, <1>5, <1>6

LEMMA StopGoneKeeps ==
    ASSUME Inv, StopGone
    PROVE  Inv'
<1>1. job.p # Nobody /\ job.comps # {} /\ JobId # NoId
  BY DEF StopGone, Inv, JobPlace, NoJob
<1>2. \A pid \in Pids : ~(Of(job.p, pid) /\ JobId = IdOf(pid))
  BY SlotFacts DEF StopGone, Of, Inv
<1>3. QED
  BY <1>1, <1>2, NextComponent DEF StopGone, history, os, Inv, OnlyOurs, Windows

LEMMA StopSurvivedKeeps ==
    ASSUME Inv, StopSurvived
    PROVE  Inv'
<1>1. job.p # Nobody /\ job.comps # {}
  BY DEF StopSurvived, Inv, JobPlace, NoJob
<1>2. QED
  BY <1>1, NextComponent DEF StopSurvived, history, os, Inv, OnlyOurs, Windows

\* On Windows what is killed is what was to be stopped.
LEMMA StopKillsKeeps ==
    ASSUME Inv, StopKills
    PROVE  Inv'
<1>1. /\ job.p # Nobody /\ job.comps # {} /\ JobId # NoId /\ JobId \in Id
      /\ JobId.pid \in Pids /\ Current \in Comps /\ JobId = Source(Current)
  <2>1. job.p # Nobody /\ job.comps # {} /\ JobId # NoId
    BY DEF StopKills, Inv, JobPlace, NoJob
  <2>2. Current \in Comps /\ JobId = Source(Current)
    BY <2>1, CurrentFacts DEF Inv
  <2>3. QED
    BY <2>1, <2>2, JobFacts, IdFacts
<1>2. CASE Killable /\ job' = [job EXCEPT !.stage = "killed"] /\ proc' = Without({JobId.pid})
           /\ struck' = struck \cup ({proc[JobId.pid].who} \ ({job.p} \X Comps))
  <2>1. Machine' /\ Born0' /\ Kept /\ Ages
    BY <1>2, WithoutMachine, WithoutAges DEF StopKills, Inv
  <2>2. job'.p = job.p /\ job'.comps = job.comps /\ job'.failed = job.failed
    BY <1>1, <1>2, JobFacts DEF Jobs
  <2>3. UNCHANGED <<world, files, mode, table, todo, unresolved, purpose, excused, orphaned>>
    BY DEF StopKills
  <2>4. Custody'
    BY <2>1, <2>2, <2>3, AccountKept, TickedSame DEF Inv, Custody, files
  <2>5. Identity'
    BY <2>1, <2>3, IdentityKept DEF files
  <2>6. Disk' /\ Memory' /\ Shapes' /\ Modes' /\ JobPlace' /\ Vouched'
        /\ NoStrayCredentials' /\ Marked'
    BY <1>1, <1>2, <2>3, SameComponent
  <2>7. OnlyOurs'
    <3> SUFFICES ASSUME Windows PROVE struck' = {}
      BY <2>3 DEF OnlyOurs, Windows
    <3>1. proc[JobId.pid].born = JobId.born
      BY <1>2 DEF Killable, Describes
    <3>2. Genuine(job.p, Current, JobId)
      BY <1>1, JobFacts DEF Inv, Identity, Source
    <3>3. proc[JobId.pid].who \in {job.p} \X Comps
      BY <1>1, <3>1, <3>2 DEF Genuine
    <3>4. QED
      BY <1>2, <3>3 DEF Inv, OnlyOurs
  <2>8. QED
    BY <2>1, <2>4, <2>5, <2>6, <2>7 DEF Inv
<1>3. CASE Component(TRUE) /\ UNCHANGED <<struck, proc>>
  BY <1>1, <1>3, NextComponent DEF StopKills, os, Inv, OnlyOurs, Windows
<1>4. QED
  BY <1>2, <1>3 DEF StopKills


\* The handle of the component is given up with its process.
LEMMA StopOwnedKeeps ==
    ASSUME Inv, StopOwned
    PROVE  Inv'
<1> DEFINE p == job.p
<1>1. /\ p \in Profiles /\ p # Nobody /\ job.comps # {} /\ mode \in {"run", "shutdown"}
      /\ table[p].how = "owned" /\ Current \in Comps /\ Current \in job.comps
      /\ JobId = table[p][Current] /\ JobId \in Id
  <2>1. p # Nobody /\ job.comps # {} /\ table[p].how = "owned" /\ mode # "recover"
    BY DEF StopOwned
  <2>2. QED
    BY <2>1, JobFacts, CurrentFacts DEF Inv, Source
<1>2. /\ job'.comps = job.comps \ {Current} /\ job'.stage = "next" /\ job'.p = p
      /\ job'.failed = job.failed /\ job' \in Jobs
  BY <1>1, JobFacts DEF StopOwned, Component, Current, Jobs
<1>3. /\ table' = [table EXCEPT ![p][Current] = NoId]
      /\ table \in [Profiles -> Entries] /\ table[p] \in Entries
  BY <1>1 DEF StopOwned, Current, Inv, Memory
<1>4. /\ table' \in [Profiles -> Entries] /\ table'[p].how = "owned"
      /\ table'[p][Current] = NoId
      /\ \A c \in Comps \ {Current} : table'[p][c] = table[p][c]
      /\ \A q \in Profiles \ {p} : table'[q] = table[q]
  <2>1. NoId \in Id
    BY DEF Id
  <2>2. CASE Current = "browser"
    BY <1>1, <1>3, <2>1, <2>2 DEF Entries, Comps
  <2>3. CASE Current = "xray"
    BY <1>1, <1>3, <2>1, <2>3 DEF Entries, Comps
  <2>4. QED
    BY <1>1, <2>2, <2>3 DEF Comps
<1>5. \A q \in Profiles : table'[q].how = table[q].how
  BY <1>1, <1>4
<1>6. UNCHANGED <<world, clock, files, mode, todo, unresolved, struck, purpose, excused, orphaned>>
  BY DEF StopOwned, history
<1> HIDE DEF p
<1>7. Machine' /\ Born0' /\ Kept /\ Ages
  <2>1. CASE JobId = NoId
    BY <2>1, <1>6, Unchanging DEF StopOwned, os
  <2>2. CASE JobId # NoId
    BY <2>2, <1>6, WithoutMachine, WithoutAges DEF StopOwned, Inv
  <2>3. QED
    BY <2>1, <2>2
<1>8. \A pid \in Pids : proc'[pid].up => JobId # IdOf(pid)
  <2> SUFFICES ASSUME NEW pid \in Pids, proc'[pid].up, JobId = IdOf(pid) PROVE FALSE
    OBVIOUS
  <2>1. JobId # NoId => JobId.pid # pid /\ proc'[pid] = proc[pid]
    BY WithoutDead DEF StopOwned
  <2>2. JobId.pid = pid
    BY SlotFacts DEF Inv
  <2>3. JobId = NoId => proc'[pid] = proc[pid]
    BY DEF StopOwned
  <2>4. proc[pid].up
    BY <2>1, <2>3
  <2>5. QED
    BY <2>1, <2>2, <2>4, SlotFacts DEF Inv
<1>9. Disk' /\ Memory' /\ Shapes' /\ Vouched' /\ NoStrayCredentials'
  <2>1. Disk' /\ Memory' /\ Vouched'
    BY <1>2, <1>4, <1>5, <1>6 DEF Inv, files, Disk, Memory, Vouched
  <2>2. Shapes'
    BY <1>1, <1>4, <1>6 DEF Inv, files, Shapes, RecordShape, EntryShape
  <2>3. NoStrayCredentials'
    BY <1>5, <1>6, NameAssumption DEF Inv, files, NoStrayCredentials, Recorded, Disk
  <2>4. QED
    BY <2>1, <2>2, <2>3
<1>10. Modes' /\ JobPlace' /\ Marked'
  <2>1. Modes'
    BY <1>1, <1>4, <1>5, <1>6 DEF Inv, files, Modes, Quiet
  <2>2. JobPlace'
    BY <1>1, <1>2, <1>5, <1>6 DEF JobPlace
  <2>3. Marked'
    BY <1>1, <1>5, <1>6, <1>2 DEF Inv, files, Marked, Memory
  <2>4. QED
    BY <2>1, <2>2, <2>3
<1>11. ASSUME ~Obscure
       PROVE  Everyone' /\ TableRecorded' /\ RecordHeld' /\ TickedOff'
  <2>1. Everyone /\ TableRecorded /\ RecordHeld /\ TickedOff
    BY <1>11 DEF Inv, Custody
  <2>2. \A q \in Profiles, c \in Comps, pid \in Pids :
            proc'[pid].up /\ table[q][c] = IdOf(pid) => table'[q][c] = IdOf(pid)
    BY <1>1, <1>4, <1>8
  <2>3. Everyone'
    <3> SUFFICES ASSUME NEW q \in Profiles, NEW c \in Comps, NEW pid \in Pids,
                        proc'[pid].up, proc'[pid].who = <<q, c>>
                 PROVE  Accounted(q, c, pid)'
      BY DEF Everyone
    <3>1. Accounted(q, c, pid) /\ proc'[pid] = proc[pid] /\ IdOf(pid)' = IdOf(pid)
      BY <1>7, <2>1, KeptOwner DEF Everyone, IdOf
    <3>2. QED
      BY <1>6, <2>2, <3>1 DEF Accounted, files, IdOf
  <2>4. TableRecorded'
    <3> SUFFICES ASSUME NEW q \in Profiles, NEW c \in Comps, NEW pid \in Pids,
                        table'[q].how \in Running, Of(q, pid)', table'[q][c] = IdOf(pid)'
                 PROVE  (record[q][c] = IdOf(pid) \/ <<q, IdOf(pid)>> \in excused)'
      BY DEF TableRecorded
    <3>1. Of(q, pid) /\ IdOf(pid)' = IdOf(pid) /\ IdOf(pid) # NoId
      BY <1>7, KeptOf, SlotFacts DEF Inv, Of
    <3>2. table[q][c] = IdOf(pid)
      BY <1>4, <3>1
    <3>3. QED
      BY <1>5, <1>6, <2>1, <3>1, <3>2 DEF TableRecorded, files
  <2>5. RecordHeld'
    <3> SUFFICES ASSUME NEW q \in Profiles, NEW c \in Comps, NEW pid \in Pids,
                        Treated(q)', Of(q, pid)', record'[q][c] = IdOf(pid)'
                 PROVE  (\/ \E d \in Comps : table[q][d] = IdOf(pid)
                         \/ <<q, IdOf(pid)>> \in orphaned
                         \/ table[q].how \notin Running /\ q \in unresolved)'
      BY DEF RecordHeld
    <3>1. Of(q, pid) /\ IdOf(pid)' = IdOf(pid) /\ Treated(q) /\ record[q][c] = IdOf(pid)
          /\ proc'[pid].up
      BY <1>6, <1>7, KeptOf DEF Treated, files, Of
    <3>2. \/ \E d \in Comps : table[q][d] = IdOf(pid)
          \/ <<q, IdOf(pid)>> \in orphaned
          \/ table[q].how \notin Running /\ q \in unresolved
      BY <2>1, <3>1 DEF RecordHeld
    <3>3. QED
      BY <1>5, <1>6, <2>2, <3>1, <3>2
  <2>6. TickedOff'
    <3> SUFFICES ASSUME ~job.failed, NEW c \in Comps \ job'.comps, NEW pid \in Pids,
                        Of(job.p, pid)', Source(c)' = IdOf(pid)'
                 PROVE  FALSE
      BY <1>2 DEF TickedOff
    <3>6. job.p \in Profiles /\ job'.p = job.p
      BY <1>1, <1>2 DEF p
    <3>7. \A r \in Profiles : r = job'.p => Of(r, pid) /\ IdOf(pid)' = IdOf(pid)
      BY <1>7, KeptOf DEF Of
    <3>1. Of(p, pid) /\ IdOf(pid)' = IdOf(pid) /\ IdOf(pid) # NoId
      BY <3>6, <3>7, SlotFacts DEF Inv, Of, p
    <3>2. table'[p][c] = IdOf(pid)
      BY <1>1, <1>2, <1>6, <3>1 DEF Source
    <3>3. c \notin job.comps /\ table[p][c] = IdOf(pid)
      BY <1>2, <1>4, <3>1, <3>2
    <3>4. QED
      BY <1>1, <2>1, <3>1, <3>3 DEF TickedOff, Source, p
  <2>7. QED
    BY <2>3, <2>4, <2>5, <2>6
<1>12. Identity'
  <2> SUFFICES ASSUME NEW q \in Profiles, NEW c \in Comps
               PROVE  /\ Windows => Genuine(q, c, record[q][c])'
                      /\ Windows \/ table[q].how # "adopted" => Genuine(q, c, table[q][c])'
    BY <1>5, <1>6 DEF Identity, Windows
  <2>1. /\ Windows => Genuine(q, c, record[q][c])
        /\ Windows \/ table[q].how # "adopted" => Genuine(q, c, table[q][c])
    BY DEF Inv, Identity
  <2>2. record[q][c] \in Id /\ table[q][c] \in Id
    BY FieldFacts DEF Inv
  <2>3. table'[q][c] = table[q][c] \/ table'[q][c] = NoId
    BY <1>4
  <2>4. Genuine(q, c, record[q][c]) => Genuine(q, c, record[q][c])'
    BY <1>6, <1>7, <2>2, GenuineKept DEF Inv, Genuine, files
  <2>5. Genuine(q, c, table[q][c]) => Genuine(q, c, table[q][c])'
    BY <1>7, <2>2, <2>3, GenuineKept DEF Inv, Genuine
  <2>6. QED
    BY <2>1, <2>4, <2>5
<1>13. QED
  BY <1>6, <1>7, <1>9, <1>10, <1>11, <1>12 DEF Inv, Custody, Obscure, OnlyOurs, Windows

-----------------------------------------------------------------------------
(* The end of a stop.                                                       *)

LEMMA JobEndsKeeps ==
    ASSUME Inv, JobEnds
    PROVE  Inv'
<1> DEFINE p == job.p
<1>1. p \in Profiles /\ p # Nobody /\ job.comps = {} /\ mode \in {"recover", "run", "shutdown"}
      /\ job'= NoJob /\ todo' = todo \ {p} /\ job.failed \in BOOLEAN
      /\ UNCHANGED <<os, mode, bounds, struck, excused, orphaned>>
  BY JobFacts DEF JobEnds
<1>2. Machine' /\ Born0' /\ Kept /\ Ages /\ NoJob \in Jobs /\ NoJob.p = Nobody /\ NoJob.stage = "next"
  BY <1>1, Unchanging DEF NoJob, Jobs
<1>3. \A pid \in Pids : IdOf(pid)' = IdOf(pid) /\ \A q : Of(q, pid)' <=> Of(q, pid)
  BY <1>1 DEF os, IdOf, Of
<1> HIDE DEF p
<1>4. CASE job.failed
  <2>1. /\ UNCHANGED <<record, config, table, purpose>>
        /\ unresolved' = IF mode = "recover" THEN unresolved \cup {p} ELSE unresolved
    BY <1>4 DEF JobEnds, p
  <2>2. Disk' /\ Memory' /\ Shapes' /\ Modes' /\ JobPlace' /\ Vouched' /\ NoStrayCredentials' /\ Marked'
    <3>1. Disk' /\ Memory' /\ Shapes' /\ Vouched' /\ NoStrayCredentials'
      BY <1>1, <1>2, <2>1 DEF Inv, Disk, Memory, Shapes, RecordShape, EntryShape, Vouched,
                              NoStrayCredentials, Recorded
    <3>2. Modes' /\ JobPlace' /\ Marked'
      BY <1>1, <1>2, <2>1 DEF Inv, Modes, Quiet, JobPlace, Marked
    <3>3. QED
      BY <3>1, <3>2
  <2>3. Identity' /\ OnlyOurs'
    BY <1>1, <1>2, <2>1, IdentityKept DEF os, Inv, OnlyOurs, Windows
  <2>4. ASSUME ~Obscure
        PROVE  Everyone' /\ TableRecorded' /\ RecordHeld' /\ TickedOff'
    <3>1. Everyone /\ TableRecorded /\ RecordHeld
      BY <2>4 DEF Inv, Custody
    <3>2. Everyone' /\ TableRecorded'
      BY <1>1, <1>3, <2>1, <3>1 DEF Everyone, TableRecorded, Accounted, os
    <3>3. RecordHeld'
      <4> SUFFICES ASSUME NEW q \in Profiles, NEW c \in Comps, NEW pid \in Pids,
                          Treated(q)', Of(q, pid), record[q][c] = IdOf(pid)
                   PROVE  (\/ \E d \in Comps : table[q][d] = IdOf(pid)
                           \/ <<q, IdOf(pid)>> \in orphaned
                           \/ table[q].how \notin Running /\ q \in unresolved)'
        BY <1>3, <2>1 DEF RecordHeld
      <4>1. CASE Treated(q)
        BY <1>1, <1>3, <2>1, <3>1, <4>1 DEF RecordHeld
      <4>2. CASE ~Treated(q)
        <5>1. mode = "recover" /\ q = p /\ q \in todo
          BY <1>1, <4>2 DEF Treated
        <5>2. table[q].how \notin Running
          BY <5>1 DEF Inv, Modes, Running
        <5>3. QED
          BY <2>1, <5>1, <5>2
      <4>3. QED
        BY <4>1, <4>2
    <3>4. TickedOff'
      BY <1>1, <1>2 DEF TickedOff
    <3>5. QED
      BY <3>2, <3>3, <3>4
  <2>5. QED
    BY <1>1, <1>2, <2>2, <2>3, <2>4 DEF Inv, Custody, Obscure, os
<1>5. CASE ~job.failed
  <2>1. /\ record' = [record EXCEPT ![p] = NoRecord] /\ config' = config \ {p}
        /\ purpose' = purpose \ {p} /\ table' = [table EXCEPT ![p] = NoSession]
        /\ UNCHANGED unresolved
    BY <1>5 DEF JobEnds, RemoveFiles, p
  <2>2. /\ record' \in [Profiles -> Records] /\ table' \in [Profiles -> Entries]
        /\ record'[p] = NoRecord /\ table'[p] = NoSession
        /\ NoRecord.browser = NoId /\ NoRecord.xray = NoId /\ NoSession.how = "none"
        /\ \A c \in Comps : record'[p][c] = NoId /\ table'[p][c] = NoId
        /\ \A q \in Profiles \ {p} : record'[q] = record[q] /\ table'[q] = table[q]
    BY <1>1, <2>1 DEF Inv, Disk, Memory, Records, Entries, Hows, NoRecord, NoSession, Id, Comps
  <2>3. Disk' /\ Memory' /\ Shapes' /\ Vouched' /\ NoStrayCredentials'
    <3>1. Disk' /\ Memory'
      BY <1>1, <1>2, <2>1, <2>2 DEF Inv, Disk, Memory
    <3>2. Shapes'
      BY <2>2 DEF Inv, Shapes, RecordShape, EntryShape
    <3>3. Vouched'
      BY <1>1, <2>2 DEF Inv, Vouched, Running
    <3>4. NoStrayCredentials'
      BY <1>1, <2>1, <2>2, NameAssumption DEF Inv, Disk, NoStrayCredentials, Recorded
    <3>5. QED
      BY <3>1, <3>2, <3>3, <3>4
  <2>4. Modes' /\ JobPlace' /\ Marked'
    BY <1>1, <1>2, <2>1, <2>2 DEF Inv, Memory, Modes, Quiet, JobPlace, Marked
  <2>5. Identity' /\ OnlyOurs'
    <3>1. Identity'
      <4> SUFFICES ASSUME NEW q \in Profiles, NEW c \in Comps
                   PROVE  /\ Windows => Genuine(q, c, record[q][c])'
                          /\ Windows \/ table'[q].how # "adopted" => Genuine(q, c, table[q][c])'
        BY <1>1 DEF Identity, Windows, os
      <4>1. /\ Windows => Genuine(q, c, record[q][c])
            /\ Windows \/ table[q].how # "adopted" => Genuine(q, c, table[q][c])
        BY DEF Inv, Identity
      <4>2. QED
        BY <1>1, <2>2, <4>1 DEF Genuine, os
    <3>2. QED
      BY <1>1, <3>1 DEF os, Inv, OnlyOurs, Windows
  <2>6. ASSUME ~Obscure
        PROVE  Everyone' /\ TableRecorded' /\ RecordHeld' /\ TickedOff'
    <3>1. Everyone /\ TableRecorded /\ RecordHeld /\ TickedOff
      BY <2>6 DEF Inv, Custody
    <3>2. \A c \in Comps, pid \in Pids : Of(p, pid) => Source(c) # IdOf(pid)
      BY <1>1, <1>5, <3>1 DEF TickedOff, p
    <3>3. Everyone'
      <4> SUFFICES ASSUME NEW q \in Profiles, NEW c \in Comps, NEW pid \in Pids,
                          proc[pid].up, proc[pid].who = <<q, c>>
                   PROVE  Accounted(q, c, pid)'
        BY <1>1 DEF Everyone, os
      <4>1. Accounted(q, c, pid) /\ Of(q, pid)
        BY <3>1 DEF Everyone, Of
      <4>2. CASE q # p
        BY <1>1, <2>2, <4>1, <4>2 DEF Accounted, os
      <4>3. CASE q = p
        <5>1. \/ table[p][c] = IdOf(pid) \/ record[p][c] = IdOf(pid)
              \/ <<p, IdOf(pid)>> \in excused \cup orphaned
          BY <4>1, <4>3 DEF Accounted, IdOf
        <5>2. <<p, IdOf(pid)>> \in excused \cup orphaned
          <6>1. CASE mode = "recover"
            <7>1. table[p] = NoSession
              BY <1>1, <6>1 DEF Inv, Modes, JobPlace, Shapes, EntryShape, p
            <7>2. table[p][c] # IdOf(pid)
              BY <4>1, <7>1, SlotFacts DEF Inv, Of, NoSession, Comps
            <7>3. record[p][c] # IdOf(pid)
              BY <3>2, <4>1, <4>3, <6>1 DEF Source, p
            <7>4. QED
              BY <5>1, <7>2, <7>3
          <6>2. CASE mode # "recover"
            <7>1. \A d \in Comps : table[p][d] # IdOf(pid)
              BY <3>2, <4>1, <4>3, <6>2 DEF Source, p
            <7>2. table[p].how \in Running
              BY <1>1, <6>2 DEF Inv, JobPlace, Running, p
            <7>3. record[p][c] = IdOf(pid) => <<p, IdOf(pid)>> \in orphaned
              BY <1>1, <3>1, <4>1, <4>3, <6>2, <7>1, <7>2 DEF RecordHeld, Treated
            <7>4. QED
              BY <5>1, <7>1, <7>3
          <6>3. QED
            BY <6>1, <6>2
        <5>3. QED
          BY <1>1, <1>3, <4>3, <5>2 DEF Accounted, IdOf, os
      <4>4. QED
        BY <4>2, <4>3
    <3>4. TableRecorded'
      <4> SUFFICES ASSUME NEW q \in Profiles, NEW c \in Comps, NEW pid \in Pids,
                          table'[q].how \in Running, Of(q, pid), table'[q][c] = IdOf(pid)
                   PROVE  record'[q][c] = IdOf(pid) \/ <<q, IdOf(pid)>> \in excused
        BY <1>1, <1>3 DEF TableRecorded
      <4>1. q # p
        BY <2>2 DEF Running
      <4>2. QED
        BY <2>2, <3>1, <4>1 DEF TableRecorded
    <3>5. RecordHeld'
      <4> SUFFICES ASSUME NEW q \in Profiles, NEW c \in Comps, NEW pid \in Pids,
                          Treated(q)', Of(q, pid), record'[q][c] = IdOf(pid)
                   PROVE  \/ \E d \in Comps : table'[q][d] = IdOf(pid)
                          \/ <<q, IdOf(pid)>> \in orphaned
                          \/ table'[q].how \notin Running /\ q \in unresolved
        BY <1>1, <1>3, <2>1 DEF RecordHeld
      <4>1. q # p
        BY <2>2, SlotFacts DEF Inv, Of
      <4>2. Treated(q) /\ record[q][c] = IdOf(pid)
        BY <1>1, <2>2, <4>1 DEF Treated
      <4>3. QED
        BY <2>2, <3>1, <4>1, <4>2 DEF RecordHeld
    <3>6. TickedOff'
      BY <1>1, <1>2 DEF TickedOff
    <3>7. QED
      BY <3>3, <3>4, <3>5, <3>6
  <2>7. QED
    BY <1>1, <1>2, <2>3, <2>4, <2>5, <2>6 DEF Inv, Custody, Obscure, os
<1>6. QED
  BY <1>1, <1>4, <1>5


-----------------------------------------------------------------------------
(* The recovery.                                                            *)

\* Steps that leave the table, the record and the stop as they are.
LEMMA SameTables ==
    ASSUME Inv, UNCHANGED <<os, files, table, job, history>>
    PROVE  /\ Machine' /\ Disk' /\ Shapes' /\ Vouched' /\ NoStrayCredentials'
           /\ Born0' /\ Identity' /\ OnlyOurs'
           /\ ~Obscure' => Everyone' /\ TableRecorded'
<1>1. Machine' /\ Born0' /\ Kept /\ Ages
  BY Unchanging
<1>2. Disk' /\ Shapes' /\ Vouched' /\ NoStrayCredentials' /\ OnlyOurs'
  BY DEF Inv, os, files, history, Disk, Shapes, RecordShape, EntryShape, Vouched,
         NoStrayCredentials, Recorded, OnlyOurs, Windows
<1>3. Identity'
  BY <1>1, IdentityKept DEF os, files
<1>4. ~Obscure' => Everyone' /\ TableRecorded'
  BY DEF Inv, Custody, Everyone, TableRecorded, Accounted, Of, IdOf, os, files, history, Obscure
<1>5. QED
  BY <1>1, <1>2, <1>3, <1>4

LEMMA BootKeeps ==
    ASSUME Inv, Boot
    PROVE  Inv'
<1>1. /\ mode = "off" /\ mode' = "recover" /\ todo' = Recorded
      /\ UNCHANGED <<os, files, table, job, unresolved, history>>
  BY DEF Boot
<1>2. job = NoJob /\ NoJob.p = Nobody /\ \A p \in Profiles : table[p].how = "none"
  BY <1>1 DEF Inv, Modes, NoJob
<1>3. Memory' /\ Modes' /\ JobPlace' /\ Marked'
  BY <1>1, <1>2 DEF Inv, Memory, Recorded, Modes, Quiet, JobPlace, JobId, NoJob, Marked, files, history
<1>4. ~Obscure' => RecordHeld' /\ TickedOff'
  <2>1. RecordHeld'
    <3> SUFFICES ASSUME NEW p \in Profiles, NEW c \in Comps, NEW pid \in Pids,
                        Treated(p)', Of(p, pid), record[p][c] = IdOf(pid)
                 PROVE  FALSE
      BY <1>1 DEF RecordHeld, Of, IdOf, os, files
    <3>1. record[p] = NoRecord
      BY <1>1 DEF Treated, Recorded
    <3>2. QED
      BY <3>1, SlotFacts DEF Inv, Of, NoRecord, Comps
  <2>2. TickedOff'
    BY <1>1, <1>2 DEF TickedOff
  <2>3. QED
    BY <2>1, <2>2
<1>5. QED
  BY <1>1, <1>3, <1>4, SameTables DEF Inv, Custody

LEMMA RecoverEndsKeeps ==
    ASSUME Inv, RecoverEnds
    PROVE  Inv'
<1>1. /\ mode = "recover" /\ mode' = "run" /\ todo = {} /\ job = NoJob /\ NoJob.p = Nobody
      /\ UNCHANGED <<os, files, table, todo, job, unresolved, history>>
  BY DEF RecoverEnds, NoJob
<1>2. Memory' /\ Modes' /\ JobPlace' /\ Marked'
  BY <1>1 DEF Inv, Memory, Modes, JobPlace, JobId, NoJob, Marked, files, history
<1>3. ~Obscure' => RecordHeld' /\ TickedOff'
  BY <1>1 DEF Inv, Custody, RecordHeld, TickedOff, Treated, Of, IdOf, os, files, history, Obscure
<1>4. QED
  BY <1>1, <1>2, <1>3, SameTables DEF Inv, Custody

\* A component nobody answers to is not alive, where everybody answers.
LEMMA GoneFacts ==
    ASSUME Inv, ~Obscure, NEW id \in Id, "gone" \in Verdicts(id), NEW p \in Profiles, NEW pid \in Pids
    PROVE  ~(Of(p, pid) /\ id = IdOf(pid))
<1> SUFFICES ASSUME Of(p, pid), id = IdOf(pid) PROVE FALSE
  OBVIOUS
<1>1. id # NoId /\ id.pid = pid /\ proc[pid].up
  BY SlotFacts DEF Inv, Of
<1>2. QED
  BY <1>1 DEF Verdicts, Obscure

LEMMA RecoverOneKeeps ==
    ASSUME Inv, NEW p \in Profiles, RecoverOne(p)
    PROVE  Inv'
<1>1. /\ mode = "recover" /\ job = NoJob /\ p \in todo /\ NoJob.p = Nobody
      /\ UNCHANGED <<os, mode, bounds, struck, excused, orphaned>>
      /\ table[p].how = "none" /\ table[p] = NoSession /\ record[p] # NoRecord
  BY DEF RecoverOne, NoJob, Inv, Modes, Shapes, EntryShape
<1>2. PICK browser \in Verdicts(record[p].browser), xray \in Verdicts(record[p].xray) :
          RecoverWith(p, browser, xray)
  BY DEF RecoverOne
<1>3. Machine' /\ Born0' /\ Kept /\ Ages /\ OnlyOurs'
  BY <1>1, Unchanging DEF Inv, OnlyOurs, Windows, os
<1>4. \A pid \in Pids : IdOf(pid)' = IdOf(pid) /\ \A q : Of(q, pid)' <=> Of(q, pid)
  BY <1>1 DEF os, IdOf, Of
<1> DEFINE blocked == {browser, xray} \cap {"foreign", "unreadable"} # {}
           running == {c \in Comps : (IF c = "browser" THEN browser ELSE xray) = "ours"}
<1>5. ~blocked => (browser \in {"gone", "ours"} /\ xray \in {"gone", "ours"})
  BY <1>2 DEF Verdicts
<1>6. ~blocked /\ ~Obscure => \A c \in Comps \ running, pid \in Pids :
          ~(Of(p, pid) /\ record[p][c] = IdOf(pid))
  <2> SUFFICES ASSUME ~blocked, ~Obscure, NEW c \in Comps \ running, NEW pid \in Pids
               PROVE  ~(Of(p, pid) /\ record[p][c] = IdOf(pid))
    OBVIOUS
  <2>1. record[p][c] \in Id
    BY FieldFacts DEF Inv
  <2>2. "gone" \in Verdicts(record[p][c])
    BY <1>2, <1>5 DEF Comps
  <2>3. QED
    BY <2>1, <2>2, GoneFacts
<1>7. /\ (~Obscure => Everyone /\ TableRecorded /\ RecordHeld)
      /\ Obscure' = Obscure /\ Windows' = Windows
  BY <1>1 DEF Inv, Custody, Obscure, Windows, os
<1>8. running \subseteq Comps
  OBVIOUS
<1>9. RecoverWith(p, browser, xray) =>
        \/ /\ blocked
           /\ todo' = todo \ {p} /\ unresolved' = unresolved \cup {p}
           /\ UNCHANGED <<files, table, job, purpose>>
        \/ /\ ~blocked /\ running = {}
           /\ RemoveFiles(p)
           /\ todo' = todo \ {p} /\ purpose' = purpose \ {p}
           /\ UNCHANGED <<table, job, unresolved>>
        \/ /\ ~blocked /\ running # {} /\ record[p].left
           /\ Adopt(p) /\ todo' = todo \ {p}
           /\ UNCHANGED <<files, job, unresolved, purpose>>
        \/ /\ ~blocked /\ running # {} /\ ~record[p].left
           /\ job' = [p |-> p, comps |-> running, stage |-> "next", failed |-> FALSE]
           /\ UNCHANGED <<files, table, todo, unresolved, purpose>>
  BY DEF RecoverWith
<1> HIDE DEF blocked, running
\* Reported and left alone.
<1>10. CASE /\ todo' = todo \ {p} /\ unresolved' = unresolved \cup {p}
            /\ UNCHANGED <<files, table, job, purpose>>
  <2>1. Disk' /\ Memory' /\ Shapes' /\ Modes' /\ JobPlace' /\ Vouched' /\ NoStrayCredentials' /\ Marked'
    BY <1>1, <1>10 DEF Inv, files, Disk, Memory, Shapes, RecordShape, EntryShape, Modes, Quiet,
       JobPlace, JobId, NoJob, Vouched, NoStrayCredentials, Recorded, Marked
  <2>2. Identity'
    BY <1>1, <1>3, <1>10, IdentityKept DEF os, files
  <2>3. ASSUME ~Obscure
        PROVE  Everyone' /\ TableRecorded' /\ RecordHeld' /\ TickedOff'
    <3>1. Everyone' /\ TableRecorded'
      BY <1>1, <1>4, <1>7, <1>10, <2>3 DEF Everyone, TableRecorded, Accounted, os, files
    <3>2. RecordHeld'
      BY <1>1, <1>4, <1>7, <1>10, <2>3 DEF RecordHeld, Treated, Running, files
    <3>3. TickedOff'
      BY <1>1, <1>10 DEF TickedOff
    <3>4. QED
      BY <3>1, <3>2, <3>3
  <2>4. QED
    BY <1>3, <1>7, <2>1, <2>2, <2>3 DEF Inv, Custody
\* Removed.
<1>11. CASE /\ ~blocked /\ running = {} /\ RemoveFiles(p)
            /\ todo' = todo \ {p} /\ purpose' = purpose \ {p}
            /\ UNCHANGED <<table, job, unresolved>>
  <2>1. /\ record' \in [Profiles -> Records] /\ record'[p] = NoRecord /\ config' = config \ {p}
        /\ \A c \in Comps : record'[p][c] = NoId
        /\ NoRecord.browser = NoId /\ NoRecord.xray = NoId
        /\ \A q \in Profiles \ {p} : record'[q] = record[q]
    BY <1>11 DEF Inv, Disk, Records, NoRecord, Id, Comps, RemoveFiles
  <2>2. Disk' /\ Memory' /\ Shapes' /\ Vouched' /\ NoStrayCredentials'
    <3>1. Disk' /\ Memory'
      BY <1>1, <1>11, <2>1 DEF Inv, Disk, Memory
    <3>2. Shapes'
      BY <1>11, <2>1 DEF Inv, Shapes, RecordShape, EntryShape
    <3>3. Vouched'
      BY <1>1, <1>11, <2>1 DEF Inv, Vouched, Running
    <3>4. NoStrayCredentials'
      BY <1>1, <1>11, <2>1, NameAssumption DEF Inv, Disk, NoStrayCredentials, Recorded
    <3>5. QED
      BY <3>1, <3>2, <3>3, <3>4
  <2>3. Modes' /\ JobPlace' /\ Marked'
    BY <1>1, <1>11, <2>1 DEF Inv, Memory, Modes, Quiet, JobPlace, JobId, NoJob, Marked
  <2>4. Identity'
    <3> SUFFICES ASSUME NEW q \in Profiles, NEW c \in Comps
                 PROVE  /\ Windows => Genuine(q, c, record[q][c])'
                        /\ Windows \/ table'[q].how # "adopted" => Genuine(q, c, table[q][c])'
      BY <1>7 DEF Identity
    <3>1. /\ Windows => Genuine(q, c, record[q][c])
          /\ Windows \/ table[q].how # "adopted" => Genuine(q, c, table[q][c])
      BY DEF Inv, Identity
    <3>2. QED
      BY <1>1, <1>11, <2>1, <3>1 DEF Genuine, os
  <2>5. ASSUME ~Obscure
        PROVE  Everyone' /\ TableRecorded' /\ RecordHeld' /\ TickedOff'
    <3>1. \A c \in Comps, pid \in Pids : ~(Of(p, pid) /\ record[p][c] = IdOf(pid))
      BY <1>6, <1>11, <2>5
    <3>2. Everyone'
      <4> SUFFICES ASSUME NEW q \in Profiles, NEW c \in Comps, NEW pid \in Pids,
                          proc[pid].up, proc[pid].who = <<q, c>>
                   PROVE  Accounted(q, c, pid)'
        BY <1>1 DEF Everyone, os
      <4>1. Accounted(q, c, pid) /\ Of(q, pid)
        BY <1>7, <2>5 DEF Everyone, Of
      <4>2. q = p => record[q][c] # IdOf(pid)
        BY <3>1, <4>1
      <4>3. QED
        BY <1>1, <1>11, <2>1, <4>1, <4>2 DEF Accounted, IdOf, os
    <3>3. TableRecorded'
      BY <1>1, <1>4, <1>7, <1>11, <2>1, <2>5 DEF TableRecorded, Running
    <3>4. RecordHeld'
      <4> SUFFICES ASSUME NEW q \in Profiles, NEW c \in Comps, NEW pid \in Pids,
                          Treated(q)', Of(q, pid), record'[q][c] = IdOf(pid)
                   PROVE  \/ \E d \in Comps : table[q][d] = IdOf(pid)
                          \/ <<q, IdOf(pid)>> \in orphaned
                          \/ table[q].how \notin Running /\ q \in unresolved
        BY <1>1, <1>4, <1>11 DEF RecordHeld
      <4>1. q # p
        BY <2>1, SlotFacts DEF Inv, Of
      <4>2. QED
        BY <1>1, <1>7, <1>11, <2>1, <2>5, <4>1 DEF RecordHeld, Treated
    <3>5. TickedOff'
      BY <1>1, <1>11 DEF TickedOff
    <3>6. QED
      BY <3>2, <3>3, <3>4, <3>5
  <2>6. QED
    BY <1>3, <1>7, <2>2, <2>3, <2>4, <2>5 DEF Inv, Custody
\* Adopted.
<1>12. CASE /\ record[p].left /\ Adopt(p) /\ todo' = todo \ {p}
            /\ UNCHANGED <<files, job, unresolved, purpose>>
  <2>1. /\ table' \in [Profiles -> Entries] /\ table'[p].how = "adopted"
        /\ \A c \in Comps : table'[p][c] = record[p][c]
        /\ \A q \in Profiles \ {p} : table'[q] = table[q]
    <3>1. table \in [Profiles -> Entries] /\ record[p].browser \in Id /\ record[p].xray \in Id
      BY FieldFacts DEF Inv, Memory, Comps
    <3>2. [browser |-> record[p].browser, xray |-> record[p].xray, how |-> "adopted"] \in Entries
      BY <3>1 DEF Entries, Hows
    <3>3. QED
      BY <1>12, <3>1, <3>2 DEF Adopt, Comps
  <2>2. Disk' /\ Memory' /\ Shapes' /\ Vouched' /\ NoStrayCredentials'
    <3>1. Disk' /\ Memory'
      BY <1>1, <1>12, <2>1 DEF Inv, Disk, Memory, files
    <3>2. Shapes'
      BY <1>12, <2>1 DEF Inv, Shapes, RecordShape, EntryShape, files
    <3>3. Vouched' /\ NoStrayCredentials'
      BY <1>1, <1>12, <2>1, NameAssumption
         DEF Inv, Disk, Vouched, NoStrayCredentials, Recorded, files
    <3>4. QED
      BY <3>1, <3>2, <3>3
  <2>3. Modes' /\ JobPlace' /\ Marked'
    BY <1>1, <1>12, <2>1 DEF Inv, Memory, Modes, Quiet, JobPlace, JobId, NoJob, Marked, files
  <2>4. Identity'
    <3> SUFFICES ASSUME NEW q \in Profiles, NEW c \in Comps
                 PROVE  /\ Windows => Genuine(q, c, record[q][c])'
                        /\ Windows \/ table'[q].how # "adopted" => Genuine(q, c, table[q][c])'
      BY <1>7 DEF Identity
    <3>1. /\ Windows => Genuine(q, c, record[q][c])
          /\ Windows \/ table[q].how # "adopted" => Genuine(q, c, table[q][c])
      BY DEF Inv, Identity
    <3>2. IF q = p THEN table'[q][c] = record[q][c] /\ table'[q].how = "adopted"
          ELSE table'[q] = table[q]
      BY <2>1
    <3>3. QED
      BY <1>1, <1>12, <3>1, <3>2 DEF Genuine, os, files
  <2>5. ASSUME ~Obscure
        PROVE  Everyone' /\ TableRecorded' /\ RecordHeld' /\ TickedOff'
    <3>1. Everyone'
      <4> SUFFICES ASSUME NEW q \in Profiles, NEW c \in Comps, NEW pid \in Pids,
                          proc[pid].up, proc[pid].who = <<q, c>>
                   PROVE  Accounted(q, c, pid)'
        BY <1>1 DEF Everyone, os
      <4>1. Accounted(q, c, pid) /\ Of(q, pid)
        BY <1>7, <2>5 DEF Everyone, Of
      <4>2. q = p => table[q][c] # IdOf(pid)
        BY <1>1, <4>1, SlotFacts DEF Inv, Of, NoSession, Comps
      <4>3. QED
        BY <1>1, <1>12, <2>1, <4>1, <4>2 DEF Accounted, IdOf, os, files
    <3>2. TableRecorded'
      BY <1>1, <1>4, <1>7, <1>12, <2>1, <2>5 DEF TableRecorded, files
    <3>3. RecordHeld'
      <4> SUFFICES ASSUME NEW q \in Profiles, NEW c \in Comps, NEW pid \in Pids,
                          Treated(q)', Of(q, pid), record[q][c] = IdOf(pid)
                   PROVE  \/ \E d \in Comps : table'[q][d] = IdOf(pid)
                          \/ <<q, IdOf(pid)>> \in orphaned
                          \/ table'[q].how \notin Running /\ q \in unresolved
        BY <1>1, <1>4, <1>12 DEF RecordHeld, files
      <4>1. CASE q = p
        BY <2>1, <4>1
      <4>2. CASE q # p
        BY <1>1, <1>7, <1>12, <2>1, <2>5, <4>2 DEF RecordHeld, Treated
      <4>3. QED
        BY <4>1, <4>2
    <3>4. TickedOff'
      BY <1>1, <1>12 DEF TickedOff
    <3>5. QED
      BY <3>1, <3>2, <3>3, <3>4
  <2>6. QED
    BY <1>3, <1>7, <2>2, <2>3, <2>4, <2>5 DEF Inv, Custody
\* Stopped.
<1>13. CASE /\ ~blocked /\ running # {} /\ ~record[p].left
            /\ job' = [p |-> p, comps |-> running, stage |-> "next", failed |-> FALSE]
            /\ UNCHANGED <<files, table, todo, unresolved, purpose>>
  <2>1. /\ job' \in Jobs /\ job'.p = p /\ job'.comps = running /\ job'.stage = "next"
        /\ job'.failed = FALSE /\ p # Nobody
    BY <1>8, <1>13, NameAssumption DEF Jobs
  <2>2. Disk' /\ Memory' /\ Shapes' /\ Vouched' /\ NoStrayCredentials'
    BY <1>1, <1>13, <2>1 DEF Inv, files, Disk, Memory, Shapes, RecordShape, EntryShape,
       Vouched, NoStrayCredentials, Recorded
  <2>3. Modes' /\ JobPlace' /\ Marked'
    BY <1>1, <1>13, <2>1 DEF Inv, Modes, Quiet, JobPlace, Marked, files
  <2>4. Identity'
    BY <1>1, <1>3, <1>13, IdentityKept DEF os, files
  <2>5. ASSUME ~Obscure
        PROVE  Everyone' /\ TableRecorded' /\ RecordHeld' /\ TickedOff'
    <3>1. Everyone' /\ TableRecorded' /\ RecordHeld'
      BY <1>1, <1>3, <1>13, <2>5, AccountKept DEF Inv, Obscure, os, files
    <3>2. TickedOff'
      BY <1>1, <1>4, <1>6, <1>13, <2>1, <2>5 DEF TickedOff, Source, files
    <3>3. QED
      BY <3>1, <3>2
  <2>6. QED
    BY <1>3, <1>7, <2>2, <2>3, <2>4, <2>5 DEF Inv, Custody
<1>14. QED
  BY <1>2, <1>9, <1>10, <1>11, <1>12, <1>13


-----------------------------------------------------------------------------
(* Starts.                                                                  *)

\* A child is spawned and its entry holds it.
Spawns(p, c, q, e) ==
    /\ Calm /\ Born(q, <<p, c>>)
    /\ table' = [table EXCEPT ![p] = e] /\ e.how = "starting"
    /\ e[c] = [pid |-> q, born |-> clock + 1]
    /\ \A d \in Comps \ {c} : e[d] = table[p][d]
    /\ table[p].how \in {"none", "starting"} /\ table[p][c] = NoId
    /\ (e.xray # NoId) = (p \in Proxied) /\ (p \in Proxied \/ e.browser # NoId)
    /\ config' = config \/ (p \in Proxied /\ config' = config \cup {p})
    /\ UNCHANGED <<record, mode, todo, job, unresolved, history>>

LEMMA ChildSpawned ==
    ASSUME Inv, NEW p \in Profiles, NEW c \in Comps, NEW q \in Pids, NEW e \in Entries,
           Spawns(p, c, q, e)
    PROVE  Inv'
<1> USE DEF Spawns
<1> DEFINE new == [who |-> <<p, c>>, born |-> clock + 1, up |-> TRUE]
           nid == [pid |-> q, born |-> clock + 1]
<1>1. /\ proc' = [proc EXCEPT ![q] = new] /\ proc[q] = Free
      /\ clock' = clock + 1 /\ clock \in Nat /\ proc \in [Pids -> Processes]
      /\ world' = world /\ mode = "run" /\ job = NoJob /\ NoJob.p = Nobody
  BY DEF Born, Inv, Machine, Calm, NoJob
<1>2. Machine' /\ Born0'
  <2>1. new \in Processes
    BY <1>1 DEF Processes, Owners
  <2>2. Machine'
    BY <1>1, <2>1 DEF Inv, Machine
  <2>3. Born0'
    BY <1>1, SlotFacts DEF Inv, Born0
  <2>4. QED
    BY <2>2, <2>3
<1>3. Ages
  BY <1>1 DEF Ages
<1>4. /\ table' \in [Profiles -> Entries] /\ table'[p] = e
      /\ \A r \in Profiles \ {p} : table'[r] = table[r]
  BY DEF Inv, Memory
<1>5. nid \in Id /\ nid # NoId /\ nid.pid = q /\ nid.born = clock + 1
  BY <1>1 DEF Id, Ids, NoId
<1>6. \A pid \in Pids \ {q} : proc'[pid] = proc[pid] /\ IdOf(pid)' = IdOf(pid)
                             /\ \A r : Of(r, pid)' <=> Of(r, pid)
  BY <1>1 DEF IdOf, Of
<1>7. IdOf(q)' = nid /\ \A r \in Profiles : Of(r, q)' => r = p
  BY <1>1 DEF IdOf, Of
<1> HIDE DEF new, nid
<1>8. Disk' /\ Memory' /\ Shapes' /\ Vouched' /\ NoStrayCredentials'
  <2>1. Disk' /\ Memory'
    BY <1>4 DEF Inv, Disk, Memory, history
  <2>2. Shapes'
    BY <1>4 DEF Inv, Shapes, RecordShape, EntryShape
  <2>3. Vouched'
    BY <1>4 DEF Inv, Vouched, history, Running
  <2>4. NoStrayCredentials'
    BY <1>4, NameAssumption DEF Inv, Disk, NoStrayCredentials, Recorded, history
  <2>5. QED
    BY <2>1, <2>2, <2>3, <2>4
<1>9. Modes' /\ JobPlace' /\ Marked'
  BY <1>1, <1>4 DEF Inv, Memory, Modes, JobPlace, JobId, NoJob, Marked, history
<1>10. Identity' /\ OnlyOurs'
  <2>1. Identity'
    <3> SUFFICES ASSUME NEW r \in Profiles, NEW d \in Comps
                 PROVE  /\ Windows => Genuine(r, d, record[r][d])'
                        /\ Windows \/ table'[r].how # "adopted" => Genuine(r, d, table[r][d])'
      BY <1>1 DEF Identity, Windows
    <3>1. /\ Windows => Genuine(r, d, record[r][d])
          /\ Windows \/ table[r].how # "adopted" => Genuine(r, d, table[r][d])
      BY DEF Inv, Identity
    <3>2. record[r][d] \in Id /\ table[r][d] \in Id
      BY FieldFacts DEF Inv
    <3>3. Windows => Genuine(r, d, record[r][d])'
      <4>1. LET id == record[r][d]
            IN  Genuine(r, d, id) /\ id # NoId =>
                    id.born <= clock' /\ (proc'[id.pid].born = id.born => proc'[id.pid].who = <<r, d>>)
        BY <1>3, <3>2, GenuineKept DEF Inv
      <4>2. record' = record
        OBVIOUS
      <4>3. QED
        BY <3>1, <4>1, <4>2 DEF Genuine
    <3>4. LET id == table[r][d]
          IN  Genuine(r, d, id) /\ id # NoId =>
                  id.born <= clock' /\ (proc'[id.pid].born = id.born => proc'[id.pid].who = <<r, d>>)
      BY <1>3, <3>2, GenuineKept DEF Inv
    <3>5. table'[r].how # "adopted" => table[r].how # "adopted"
      BY <1>4
    <3>6. table'[r][d] = table[r][d] \/ (r = p /\ d = c /\ table'[r][d] = nid)
      BY <1>4 DEF nid
    <3>7. clock' = nid.born /\ nid.pid = q /\ proc'[q].who = <<p, c>> /\ clock' \in Nat
      BY <1>1, <1>5 DEF new
    <3>8. Windows \/ table'[r].how # "adopted" => Genuine(r, d, table[r][d])'
      <4>1. CASE table'[r][d] = table[r][d]
        BY <3>1, <3>4, <3>5, <4>1 DEF Genuine
      <4>2. CASE r = p /\ d = c /\ table'[r][d] = nid
        BY <3>7, <4>2 DEF Genuine
      <4>3. QED
        BY <3>6, <4>1, <4>2
    <3>9. QED
      BY <3>3, <3>8
  <2>2. QED
    BY <1>1, <2>1 DEF Inv, OnlyOurs, Windows, history
<1>11. ASSUME ~Obscure
       PROVE  Everyone' /\ TableRecorded' /\ RecordHeld' /\ TickedOff'
  <2>1. Everyone /\ TableRecorded /\ RecordHeld
    BY <1>11 DEF Inv, Custody
  <2>2. \A r \in Profiles, d \in Comps, pid \in Pids :
            proc[pid].up /\ table[r][d] = IdOf(pid) => table'[r][d] = IdOf(pid)
    <3> SUFFICES ASSUME NEW r \in Profiles, NEW d \in Comps, NEW pid \in Pids,
                        proc[pid].up, table[r][d] = IdOf(pid)
                 PROVE  table'[r][d] = IdOf(pid)
      OBVIOUS
    <3>1. IdOf(pid) # NoId
      BY SlotFacts DEF Inv
    <3>2. QED
      BY <1>4, <3>1
  <2>3. Everyone'
    <3> SUFFICES ASSUME NEW r \in Profiles, NEW d \in Comps, NEW pid \in Pids,
                        proc'[pid].up, proc'[pid].who = <<r, d>>
                 PROVE  Accounted(r, d, pid)'
      BY DEF Everyone
    <3>1. CASE pid = q
      <4>1. r = p /\ d = c
        BY <1>1, <3>1 DEF new
      <4>2. table'[r][d] = nid
        BY <1>4, <4>1 DEF nid
      <4>3. QED
        BY <1>7, <3>1, <4>2 DEF Accounted, IdOf
    <3>2. CASE pid # q
      <4>1. Accounted(r, d, pid) /\ proc[pid].up
        BY <1>6, <2>1, <3>2 DEF Everyone
      <4>2. QED
        BY <1>6, <2>2, <3>2, <4>1 DEF Accounted, IdOf, history
    <3>3. QED
      BY <3>1, <3>2
  <2>4. TableRecorded'
    <3> SUFFICES ASSUME NEW r \in Profiles, NEW d \in Comps, NEW pid \in Pids,
                        table'[r].how \in Running, Of(r, pid)', table'[r][d] = IdOf(pid)'
                 PROVE  (record[r][d] = IdOf(pid) \/ <<r, IdOf(pid)>> \in excused)'
      BY DEF TableRecorded
    <3>1. r # p /\ pid # q
      BY <1>4, <1>7 DEF Running
    <3>2. QED
      BY <1>4, <1>6, <2>1, <3>1 DEF TableRecorded, history
  <2>5. RecordHeld'
    <3> SUFFICES ASSUME NEW r \in Profiles, NEW d \in Comps, NEW pid \in Pids,
                        Treated(r)', Of(r, pid)', record[r][d] = IdOf(pid)'
                 PROVE  (\/ \E k \in Comps : table[r][k] = IdOf(pid)
                         \/ <<r, IdOf(pid)>> \in orphaned
                         \/ table[r].how \notin Running /\ r \in unresolved)'
      BY DEF RecordHeld
    <3>1. CASE pid = q
      BY <1>4, <1>7, <3>1 DEF nid
    <3>2. CASE pid # q
      <4>1. /\ Of(r, pid) /\ record[r][d] = IdOf(pid) /\ IdOf(pid)' = IdOf(pid)
            /\ Treated(r) /\ proc[pid].up
        BY <1>1, <1>6, <3>2 DEF Treated, Of
      <4>2. \/ \E k \in Comps : table[r][k] = IdOf(pid)
            \/ <<r, IdOf(pid)>> \in orphaned
            \/ table[r].how \notin Running /\ r \in unresolved
        BY <2>1, <4>1 DEF RecordHeld
      <4>3. table[r].how \notin Running => table'[r].how \notin Running
        BY <1>4 DEF Running
      <4>4. QED
        BY <2>2, <4>1, <4>2, <4>3 DEF history
    <3>3. QED
      BY <3>1, <3>2
  <2>6. TickedOff'
    BY <1>1 DEF TickedOff
  <2>7. QED
    BY <2>3, <2>4, <2>5, <2>6
<1>12. QED
  BY <1>1, <1>2, <1>8, <1>9, <1>10, <1>11 DEF Inv, Custody, Obscure

LEMMA StartXrayKeeps ==
    ASSUME Inv, NEW p \in Profiles, StartXray(p)
    PROVE  Inv'
<1>1. PICK q \in Pids :
          /\ Born(q, <<p, "xray">>)
          /\ table' = [table EXCEPT ![p] = [browser |-> NoId, how |-> "starting",
                          xray |-> [pid |-> q, born |-> clock + 1]]]
  BY DEF StartXray
<1> DEFINE e == [browser |-> NoId, how |-> "starting", xray |-> [pid |-> q, born |-> clock + 1]]
<1>2. p \in Proxied /\ table[p] = NoSession /\ table[p].how = "none" /\ Calm
  BY DEF StartXray, Inv, Shapes, EntryShape
<1>3. [pid |-> q, born |-> clock + 1] \in Id /\ [pid |-> q, born |-> clock + 1] # NoId
      /\ NoId \in Id
  BY DEF Inv, Machine, Id, Ids, NoId
<1>4. /\ e \in Entries /\ e.how = "starting" /\ e.browser = NoId
      /\ e["xray"] = [pid |-> q, born |-> clock + 1] /\ e.xray # NoId
      /\ \A d \in Comps \ {"xray"} : e[d] = table[p][d]
      /\ table[p]["xray"] = NoId
  BY <1>2, <1>3 DEF Entries, Hows, Comps, NoSession
<1>5. table' = [table EXCEPT ![p] = e]
  BY <1>1
<1> HIDE DEF e
<1>6. UNCHANGED <<record, mode, todo, job, unresolved, history>> /\ config' = config \cup {p}
  BY DEF StartXray
<1>7. "xray" \in Comps
  BY DEF Comps
<1>8. QED
  <2>1. Spawns(p, "xray", q, e)
    BY <1>1, <1>2, <1>4, <1>5, <1>6 DEF Spawns
  <2>2. QED
    BY <1>4, <1>7, <2>1, ChildSpawned

LEMMA SpawnBrowserKeeps ==
    ASSUME Inv, NEW p \in Profiles, SpawnBrowser(p)
    PROVE  Inv'
<1>1. PICK q \in Pids :
          /\ Born(q, <<p, "browser">>)
          /\ table' = [table EXCEPT ![p] = [browser |-> [pid |-> q, born |-> clock + 1],
                          xray |-> table[p].xray, how |-> "starting"]]
  BY DEF SpawnBrowser
<1> DEFINE e == [browser |-> [pid |-> q, born |-> clock + 1], xray |-> table[p].xray,
                 how |-> "starting"]
<1>2. /\ Calm /\ table[p].how \in {"none", "starting"} /\ table[p].browser = NoId
      /\ (table[p].xray # NoId) = (p \in Proxied) /\ table[p].xray \in Id
  <2>1. table[p].xray \in Id
    BY FieldFacts DEF Inv, Comps
  <2>2. CASE p \in Proxied /\ table[p].how = "starting" /\ table[p].browser = NoId
    BY <2>1, <2>2 DEF SpawnBrowser, Inv, Shapes, EntryShape
  <2>3. CASE p \notin Proxied /\ table[p].how = "none"
    BY <2>1, <2>3 DEF SpawnBrowser, Inv, Shapes, EntryShape, NoSession
  <2>4. QED
    BY <2>2, <2>3 DEF SpawnBrowser
<1>3. [pid |-> q, born |-> clock + 1] \in Id /\ [pid |-> q, born |-> clock + 1] # NoId
  BY DEF Inv, Machine, Id, Ids, NoId
<1>4. /\ e \in Entries /\ e.how = "starting" /\ e.browser # NoId
      /\ e["browser"] = [pid |-> q, born |-> clock + 1] /\ e.xray = table[p].xray
      /\ \A d \in Comps \ {"browser"} : e[d] = table[p][d]
      /\ table[p]["browser"] = NoId
  BY <1>2, <1>3 DEF Entries, Hows, Comps
<1>5. table' = [table EXCEPT ![p] = e]
  BY <1>1
<1> HIDE DEF e
<1>6. UNCHANGED <<record, config, mode, todo, job, unresolved, history>>
  BY DEF SpawnBrowser, files
<1>7. "browser" \in Comps
  BY DEF Comps
<1>8. QED
  <2>1. Spawns(p, "browser", q, e)
    BY <1>1, <1>2, <1>4, <1>5, <1>6 DEF Spawns
  <2>2. QED
    BY <1>4, <1>7, <2>1, ChildSpawned


LEMMA WriteRecordKeeps ==
    ASSUME Inv, NEW p \in Profiles, WriteRecord(p)
    PROVE  Inv'
<1>1. /\ mode = "run" /\ job = NoJob /\ NoJob.p = Nobody
      /\ table[p].how = "starting" /\ table[p].browser # NoId
      /\ table' = [table EXCEPT ![p].how = "spawned"] /\ orphaned' = orphaned \cup Lost(p)
      /\ UNCHANGED <<os, config, mode, todo, job, bounds, unresolved, struck, purpose>>
  BY DEF WriteRecord, Calm, NoJob
<1>2. /\ table' \in [Profiles -> Entries] /\ table'[p].how = "spawned"
      /\ \A q \in Profiles, c \in Comps : table'[q][c] = table[q][c]
      /\ table'[p].browser = table[p].browser /\ table'[p].xray = table[p].xray
      /\ \A q \in Profiles \ {p} : table'[q] = table[q]
  <2>1. table \in [Profiles -> Entries] /\ table[p] \in Entries
    BY DEF Inv, Memory
  <2>2. QED
    BY <1>1, <2>1 DEF Entries, Hows, Comps
<1>3. \/ /\ record' = [record EXCEPT ![p] = RecordOf(p)] /\ UNCHANGED excused
      \/ /\ excused' = excused \cup {<<p, table[p].browser>>, <<p, table[p].xray>>}
         /\ UNCHANGED record
  BY DEF WriteRecord
<1>4. \/ /\ record'[p].browser = table[p].browser /\ record'[p].xray = table[p].xray
         /\ \A c \in Comps : record'[p][c] = table[p][c]
         /\ record'[p] # NoRecord /\ UNCHANGED excused
      \/ /\ record'[p] = record[p]
         /\ \A c \in Comps : <<p, table[p][c]>> \in excused'
  <2>1. CASE record' = [record EXCEPT ![p] = RecordOf(p)] /\ UNCHANGED excused
    BY <1>1, <2>1 DEF Inv, Disk, RecordOf, Comps, NoRecord
  <2>2. CASE /\ excused' = excused \cup {<<p, table[p].browser>>, <<p, table[p].xray>>}
             /\ UNCHANGED record
    BY <2>2 DEF Comps
  <2>3. QED
    BY <1>3, <2>1, <2>2
<1>5. /\ record' \in [Profiles -> Records] /\ \A q \in Profiles \ {p} : record'[q] = record[q]
      /\ excused \subseteq excused'
  <2>1. RecordOf(p) \in Records
    BY FieldFacts DEF Inv, RecordOf, Records, Comps
  <2>2. QED
    BY <1>3, <2>1 DEF Inv, Disk
<1>6. Machine' /\ Born0' /\ Kept /\ Ages /\ OnlyOurs'
  BY <1>1, Unchanging DEF Inv, OnlyOurs, Windows, os
<1>7. \A pid \in Pids : IdOf(pid)' = IdOf(pid) /\ \A q : Of(q, pid)' <=> Of(q, pid)
  BY <1>1 DEF os, IdOf, Of
<1>8. Disk' /\ Memory' /\ Shapes'
  <2>1. Disk' /\ Memory'
    BY <1>1, <1>2, <1>5 DEF Inv, Disk, Memory
  <2>2. Shapes'
    <3> SUFFICES ASSUME NEW q \in Profiles PROVE RecordShape(q)' /\ EntryShape(q)'
      BY DEF Shapes
    <3>1. RecordShape(q) /\ EntryShape(q)
      BY DEF Inv, Shapes
    <3>2. CASE q # p
      BY <1>2, <1>5, <3>1, <3>2 DEF RecordShape, EntryShape
    <3>3. CASE q = p
      <4>1. EntryShape(p)'
        BY <1>1, <1>2, <3>1, <3>3 DEF EntryShape
      <4>2. (table[p].xray # NoId) = (p \in Proxied)
        BY <1>1, <3>1, <3>3 DEF EntryShape
      <4>3. RecordShape(p)'
        BY <1>1, <1>4, <3>1, <3>3, <4>2 DEF RecordShape
      <4>4. QED
        BY <3>3, <4>1, <4>3
    <3>4. QED
      BY <3>2, <3>3
  <2>3. QED
    BY <2>1, <2>2
<1>9. Vouched' /\ NoStrayCredentials'
  <2>1. record'[p] # NoRecord \/ \E e \in excused' : e[1] = p
    <3>1. \A c \in Comps : <<p, table[p][c]>>[1] = p
      OBVIOUS
    <3>2. "browser" \in Comps
      BY DEF Comps
    <3>3. QED
      BY <1>4, <3>1, <3>2
  <2>2. Vouched'
    BY <1>2, <1>5, <2>1 DEF Inv, Vouched
  <2>3. NoStrayCredentials'
    BY <1>1, <1>2, <1>5, NameAssumption DEF Inv, Disk, NoStrayCredentials, Recorded
  <2>4. QED
    BY <2>2, <2>3
<1>10. Modes' /\ JobPlace' /\ Marked'
  BY <1>1, <1>2, <1>5 DEF Inv, Memory, Modes, JobPlace, JobId, NoJob, Marked
<1>11. Identity'
  <2> SUFFICES ASSUME NEW q \in Profiles, NEW c \in Comps
               PROVE  /\ Windows => Genuine(q, c, record[q][c])'
                      /\ Windows \/ table'[q].how # "adopted" => Genuine(q, c, table[q][c])'
    BY <1>1 DEF Identity, Windows, os
  <2>1. /\ Windows => Genuine(q, c, record[q][c])
        /\ Windows \/ table[q].how # "adopted" => Genuine(q, c, table[q][c])
    BY DEF Inv, Identity
  <2>2. record'[q][c] = record[q][c] \/ (q = p /\ record'[q][c] = table[q][c])
    BY <1>4, <1>5
  <2>3. table'[q][c] = table[q][c] /\ (table'[q].how = "adopted" <=> table[q].how = "adopted")
    BY <1>1, <1>2
  <2>4. QED
    BY <1>1, <2>1, <2>2, <2>3 DEF Genuine, os
<1>12. ASSUME ~Obscure
       PROVE  Everyone' /\ TableRecorded' /\ RecordHeld' /\ TickedOff'
  <2>1. Everyone /\ TableRecorded /\ RecordHeld
    BY <1>12 DEF Inv, Custody
  <2>2. \A c \in Comps : <<p, record[p][c]>> \in Lost(p) \/ p \notin unresolved
    BY DEF Lost, Comps
  <2>3. \A c \in Comps, pid \in Pids : Of(p, pid) /\ record[p][c] = IdOf(pid) =>
            (\E d \in Comps : table[p][d] = IdOf(pid)) \/ <<p, IdOf(pid)>> \in orphaned'
    <3> SUFFICES ASSUME NEW c \in Comps, NEW pid \in Pids, Of(p, pid), record[p][c] = IdOf(pid)
                 PROVE  (\E d \in Comps : table[p][d] = IdOf(pid)) \/ <<p, IdOf(pid)>> \in orphaned'
      OBVIOUS
    <3>1. \/ \E d \in Comps : table[p][d] = IdOf(pid)
          \/ <<p, IdOf(pid)>> \in orphaned
          \/ p \in unresolved
      BY <1>1, <2>1 DEF RecordHeld, Treated
    <3>2. p \in unresolved => <<p, IdOf(pid)>> \in Lost(p)
      BY <2>2
    <3>3. QED
      BY <1>1, <3>1, <3>2
  <2>4. Everyone'
    <3> SUFFICES ASSUME NEW q \in Profiles, NEW c \in Comps, NEW pid \in Pids,
                        proc[pid].up, proc[pid].who = <<q, c>>
                 PROVE  Accounted(q, c, pid)'
      BY <1>1 DEF Everyone, os
    <3>1. Of(q, pid) /\ (table[q][c] = IdOf(pid) \/ record[q][c] = IdOf(pid)
                         \/ <<q, IdOf(pid)>> \in excused \cup orphaned)
      BY <2>1 DEF Everyone, Accounted, IdOf, Of
    <3>2. table[q][c] = IdOf(pid) \/ record'[q][c] = IdOf(pid)
          \/ <<q, IdOf(pid)>> \in excused' \cup orphaned'
      <4>1. CASE table[q][c] = IdOf(pid) \/ <<q, IdOf(pid)>> \in excused \cup orphaned
        BY <1>1, <1>5, <4>1
      <4>2. CASE record[q][c] = IdOf(pid) /\ q # p
        BY <1>5, <4>2
      <4>3. CASE record[q][c] = IdOf(pid) /\ q = p
        <5>1. \A d \in Comps : table[p][d] = IdOf(pid) => d = c
          <6> SUFFICES ASSUME NEW d \in Comps, table[p][d] = IdOf(pid) PROVE d = c
            OBVIOUS
          <6>1. Genuine(p, d, table[p][d]) /\ IdOf(pid) # NoId /\ IdOf(pid).pid = pid
                /\ IdOf(pid).born = proc[pid].born
            BY <1>1, SlotFacts DEF Inv, Identity
          <6>2. proc[pid].who = <<p, d>>
            BY <6>1 DEF Genuine
          <6>3. QED
            BY <4>3, <6>2
        <5>2. QED
          BY <2>3, <3>1, <4>3, <5>1
      <4>4. QED
        BY <3>1, <4>1, <4>2, <4>3
    <3>3. QED
      BY <1>1, <1>2, <3>2 DEF Accounted, IdOf, os
  <2>5. TableRecorded'
    <3> SUFFICES ASSUME NEW q \in Profiles, NEW c \in Comps, NEW pid \in Pids,
                        table'[q].how \in Running, Of(q, pid), table[q][c] = IdOf(pid)
                 PROVE  record'[q][c] = IdOf(pid) \/ <<q, IdOf(pid)>> \in excused'
      BY <1>2, <1>7 DEF TableRecorded
    <3>1. CASE q = p
      BY <1>4, <3>1
    <3>2. CASE q # p
      BY <1>2, <1>5, <2>1, <3>2 DEF TableRecorded
    <3>3. QED
      BY <3>1, <3>2
  <2>6. RecordHeld'
    <3> SUFFICES ASSUME NEW q \in Profiles, NEW c \in Comps, NEW pid \in Pids,
                        Of(q, pid), record'[q][c] = IdOf(pid)
                 PROVE  \/ \E d \in Comps : table[q][d] = IdOf(pid)
                        \/ <<q, IdOf(pid)>> \in orphaned'
                        \/ table'[q].how \notin Running /\ q \in unresolved
      BY <1>1, <1>2, <1>7 DEF RecordHeld
    <3>1. CASE q = p
      BY <1>4, <2>3, <3>1
    <3>2. CASE q # p
      BY <1>1, <1>2, <1>5, <2>1, <3>2 DEF RecordHeld, Treated
    <3>3. QED
      BY <3>1, <3>2
  <2>7. TickedOff'
    BY <1>1 DEF TickedOff
  <2>8. QED
    BY <2>4, <2>5, <2>6, <2>7
<1>13. QED
  BY <1>1, <1>6, <1>8, <1>9, <1>10, <1>11, <1>12 DEF Inv, Custody, Obscure, os

LEMMA StartSucceedsKeeps ==
    ASSUME Inv, NEW p \in Profiles, StartSucceeds(p)
    PROVE  Inv'
<1>1. /\ mode = "run" /\ job = NoJob /\ NoJob.p = Nobody /\ table[p].how = "spawned"
      /\ table' = [table EXCEPT ![p].how = "owned"] /\ purpose' = purpose \ {p}
      /\ UNCHANGED <<os, files, mode, todo, job, bounds, unresolved, struck, excused, orphaned>>
  BY DEF StartSucceeds, Calm, NoJob
<1>2. /\ table' \in [Profiles -> Entries] /\ table'[p].how = "owned"
      /\ \A q \in Profiles, c \in Comps : table'[q][c] = table[q][c]
      /\ \A q \in Profiles \ {p} : table'[q] = table[q]
      /\ \A q \in Profiles : table'[q].how \in Running <=> table[q].how \in Running
  <2>1. table \in [Profiles -> Entries] /\ table[p] \in Entries
    BY DEF Inv, Memory
  <2>2. QED
    BY <1>1, <2>1 DEF Entries, Hows, Comps, Running
<1>3. Machine' /\ Born0' /\ Kept /\ Ages /\ OnlyOurs'
  BY <1>1, Unchanging DEF Inv, OnlyOurs, Windows, os
<1>4. Disk' /\ Memory' /\ Shapes' /\ Vouched' /\ NoStrayCredentials'
  <2>1. Disk' /\ Memory'
    BY <1>1, <1>2 DEF Inv, Disk, Memory, files
  <2>2. Shapes'
    BY <1>1, <1>2 DEF Inv, Shapes, RecordShape, EntryShape, files
  <2>3. Vouched' /\ NoStrayCredentials'
    BY <1>1, <1>2, NameAssumption DEF Inv, Disk, Vouched, NoStrayCredentials, Recorded, files
  <2>4. QED
    BY <2>1, <2>2, <2>3
<1>5. Modes' /\ JobPlace' /\ Marked'
  BY <1>1, <1>2 DEF Inv, Memory, Modes, JobPlace, JobId, NoJob, Marked, files
<1>6. Identity'
  <2> SUFFICES ASSUME NEW q \in Profiles, NEW c \in Comps
               PROVE  /\ Windows => Genuine(q, c, record[q][c])'
                      /\ Windows \/ table'[q].how # "adopted" => Genuine(q, c, table[q][c])'
    BY <1>1 DEF Identity, Windows, os
  <2>1. /\ Windows => Genuine(q, c, record[q][c])
        /\ Windows \/ table[q].how # "adopted" => Genuine(q, c, table[q][c])
    BY DEF Inv, Identity
  <2>2. table'[q][c] = table[q][c] /\ (table'[q].how = "adopted" <=> table[q].how = "adopted")
    BY <1>1, <1>2
  <2>3. QED
    BY <1>1, <2>1, <2>2 DEF Genuine, os, files
<1>7. ~Obscure => Everyone' /\ TableRecorded' /\ RecordHeld' /\ TickedOff'
  <2> SUFFICES ASSUME ~Obscure, Everyone, TableRecorded, RecordHeld
               PROVE  Everyone' /\ TableRecorded' /\ RecordHeld' /\ TickedOff'
    BY DEF Inv, Custody
  <2>1. Everyone'
    BY <1>1, <1>2 DEF Everyone, Accounted, os, files
  <2>2. TableRecorded'
    BY <1>1, <1>2 DEF TableRecorded, Of, IdOf, os, files
  <2>3. RecordHeld'
    BY <1>1, <1>2 DEF RecordHeld, Treated, Of, IdOf, os, files
  <2>4. TickedOff'
    BY <1>1 DEF TickedOff
  <2>5. QED
    BY <2>1, <2>2, <2>3, <2>4
<1>8. QED
  BY <1>1, <1>3, <1>4, <1>5, <1>6, <1>7 DEF Inv, Custody, Obscure, os

LEMMA StartFailsKeeps ==
    ASSUME Inv, NEW p \in Profiles, StartFails(p)
    PROVE  Inv'
<1>1. /\ mode = "run" /\ job = NoJob /\ NoJob.p = Nobody /\ table[p].how \in {"starting", "spawned"}
      /\ proc' = Without(Named(table[p])) /\ config' = config \ {p} /\ Rollback(p)
      /\ table' = [table EXCEPT ![p] = NoSession]
      /\ UNCHANGED <<world, clock, mode, todo, job, bounds, unresolved, history>>
  BY DEF StartFails, Calm, Starting, NoJob
<1>2. /\ table' \in [Profiles -> Entries] /\ table'[p] = NoSession /\ NoSession.how = "none"
      /\ \A c \in Comps : table'[p][c] = NoId
      /\ \A q \in Profiles \ {p} : table'[q] = table[q]
  BY <1>1 DEF Inv, Memory, Entries, Hows, NoSession, Id, Comps
<1>3. /\ record' \in [Profiles -> Records] /\ \A q \in Profiles \ {p} : record'[q] = record[q]
      /\ record'[p] = IF table[p].how = "spawned" THEN NoRecord ELSE record[p]
      /\ \A c \in Comps : NoRecord[c] = NoId
      /\ NoRecord.browser = NoId /\ NoRecord.xray = NoId
  BY <1>1 DEF Inv, Disk, Rollback, Records, NoRecord, Id, Comps
<1>4. Machine' /\ Born0' /\ Kept /\ Ages /\ OnlyOurs'
  BY <1>1, WithoutMachine, WithoutAges DEF Inv, OnlyOurs, Windows, history
<1>5. \A pid \in Pids, c \in Comps : proc'[pid].up => table[p][c] # IdOf(pid)
  <2> SUFFICES ASSUME NEW pid \in Pids, NEW c \in Comps, proc'[pid].up, table[p][c] = IdOf(pid)
               PROVE  FALSE
    OBVIOUS
  <2>1. pid \notin Named(table[p]) /\ proc[pid].up
    BY <1>1, WithoutDead
  <2>2. IdOf(pid) # NoId /\ IdOf(pid).pid = pid
    BY <2>1, SlotFacts DEF Inv
  <2>3. table[p][c] \in {table[p].browser, table[p].xray} \ {NoId}
    BY <2>2 DEF Comps
  <2>4. QED
    BY <2>1, <2>2, <2>3 DEF Named
<1>6. Disk' /\ Memory' /\ Shapes' /\ Vouched' /\ NoStrayCredentials'
  <2>1. Disk' /\ Memory'
    BY <1>1, <1>2, <1>3 DEF Inv, Disk, Memory, history
  <2>2. Shapes'
    BY <1>2, <1>3 DEF Inv, Shapes, RecordShape, EntryShape
  <2>3. Vouched' /\ NoStrayCredentials'
    BY <1>1, <1>2, <1>3, NameAssumption
       DEF Inv, Disk, Vouched, NoStrayCredentials, Recorded, history, Running
  <2>4. QED
    BY <2>1, <2>2, <2>3
<1>7. Modes' /\ JobPlace' /\ Marked'
  BY <1>1, <1>2, <1>3 DEF Inv, Memory, Modes, JobPlace, JobId, NoJob, Marked, history
<1>8. Identity'
  <2> SUFFICES ASSUME NEW q \in Profiles, NEW c \in Comps
               PROVE  /\ Windows => Genuine(q, c, record[q][c])'
                      /\ Windows \/ table'[q].how # "adopted" => Genuine(q, c, table[q][c])'
    BY <1>1 DEF Identity, Windows
  <2>1. /\ Windows => Genuine(q, c, record[q][c])
        /\ Windows \/ table[q].how # "adopted" => Genuine(q, c, table[q][c])
    BY DEF Inv, Identity
  <2>2. record[q][c] \in Id /\ table[q][c] \in Id
    BY FieldFacts DEF Inv
  <2>3. Genuine(q, c, record[q][c]) => Genuine(q, c, record[q][c])'
    <3>1. record'[q][c] = record[q][c] \/ record'[q][c] = NoId
      BY <1>3
    <3>2. QED
      BY <1>4, <2>2, <3>1, GenuineKept DEF Inv, Genuine
  <2>4. CASE q = p
    BY <1>2, <2>1, <2>3, <2>4 DEF Genuine
  <2>5. CASE q # p
    <3>1. table'[q] = table[q]
      BY <1>2, <2>5
    <3>2. Genuine(q, c, table[q][c]) => Genuine(q, c, table[q][c])'
      BY <1>4, <2>2, <3>1, GenuineKept DEF Inv, Genuine
    <3>3. QED
      BY <2>1, <2>3, <3>1, <3>2
  <2>6. QED
    BY <2>4, <2>5
<1>9. ASSUME ~Obscure
      PROVE  Everyone' /\ TableRecorded' /\ RecordHeld' /\ TickedOff'
  <2>1. Everyone /\ TableRecorded /\ RecordHeld
    BY <1>9 DEF Inv, Custody
  <2>2. \A c \in Comps, pid \in Pids : Of(p, pid) /\ proc'[pid].up /\ record[p][c] = IdOf(pid) =>
            \/ <<p, IdOf(pid)>> \in orphaned
            \/ table[p].how = "starting" /\ p \in unresolved
    <3> SUFFICES ASSUME NEW c \in Comps, NEW pid \in Pids, Of(p, pid), proc'[pid].up,
                        record[p][c] = IdOf(pid)
                 PROVE  \/ <<p, IdOf(pid)>> \in orphaned
                        \/ table[p].how = "starting" /\ p \in unresolved
      OBVIOUS
    <3>1. \/ \E d \in Comps : table[p][d] = IdOf(pid)
          \/ <<p, IdOf(pid)>> \in orphaned
          \/ table[p].how \notin Running /\ p \in unresolved
      BY <1>1, <2>1 DEF RecordHeld, Treated
    <3>2. QED
      BY <1>1, <1>5, <3>1 DEF Running
  <2>3. Everyone'
    <3> SUFFICES ASSUME NEW q \in Profiles, NEW c \in Comps, NEW pid \in Pids,
                        proc'[pid].up, proc'[pid].who = <<q, c>>
                 PROVE  Accounted(q, c, pid)'
      BY DEF Everyone
    <3>1. Of(q, pid) /\ proc'[pid] = proc[pid] /\ proc[pid].up /\ proc[pid].who = <<q, c>>
      BY <1>4, KeptOwner
    <3>2. table[q][c] = IdOf(pid) \/ record[q][c] = IdOf(pid)
          \/ <<q, IdOf(pid)>> \in excused \cup orphaned
      BY <2>1, <3>1 DEF Everyone, Accounted, IdOf
    <3>3. table'[q][c] = IdOf(pid) \/ record'[q][c] = IdOf(pid)
          \/ <<q, IdOf(pid)>> \in excused \cup orphaned
      <4>1. CASE q # p
        BY <1>2, <1>3, <3>2, <4>1
      <4>2. CASE q = p
        BY <1>1, <1>3, <1>5, <2>2, <3>1, <3>2, <4>2
      <4>3. QED
        BY <4>1, <4>2
    <3>4. QED
      BY <1>1, <3>1, <3>3 DEF Accounted, IdOf, history
  <2>4. TableRecorded'
    <3> SUFFICES ASSUME NEW q \in Profiles, NEW c \in Comps, NEW pid \in Pids,
                        table'[q].how \in Running, Of(q, pid)', table'[q][c] = IdOf(pid)'
                 PROVE  (record[q][c] = IdOf(pid) \/ <<q, IdOf(pid)>> \in excused)'
      BY DEF TableRecorded
    <3>1. q # p /\ Of(q, pid) /\ IdOf(pid)' = IdOf(pid)
      BY <1>2, <1>4, KeptOf DEF Running
    <3>2. QED
      BY <1>1, <1>2, <1>3, <2>1, <3>1 DEF TableRecorded, history
  <2>5. RecordHeld'
    <3> SUFFICES ASSUME NEW q \in Profiles, NEW c \in Comps, NEW pid \in Pids,
                        Of(q, pid)', record'[q][c] = IdOf(pid)'
                 PROVE  (\/ \E d \in Comps : table[q][d] = IdOf(pid)
                         \/ <<q, IdOf(pid)>> \in orphaned
                         \/ table[q].how \notin Running /\ q \in unresolved)'
      BY DEF RecordHeld
    <3>1. Of(q, pid) /\ IdOf(pid)' = IdOf(pid) /\ proc'[pid].up /\ IdOf(pid) # NoId
      BY <1>4, KeptOf, SlotFacts DEF Inv, Of
    <3>2. CASE q # p
      BY <1>1, <1>2, <1>3, <2>1, <3>1, <3>2 DEF RecordHeld, Treated, history
    <3>3. CASE q = p
      <4>1. record[p][c] = IdOf(pid)
        BY <1>3, <3>1, <3>3
      <4>2. <<p, IdOf(pid)>> \in orphaned \/ p \in unresolved
        BY <2>2, <3>1, <3>3, <4>1
      <4>3. table'[p].how \notin Running
        BY <1>2 DEF Running
      <4>4. QED
        BY <1>1, <3>1, <3>3, <4>2, <4>3 DEF history
    <3>4. QED
      BY <3>2, <3>3
  <2>6. TickedOff'
    BY <1>1 DEF TickedOff
  <2>7. QED
    BY <2>3, <2>4, <2>5, <2>6
<1>10. QED
  BY <1>1, <1>4, <1>6, <1>7, <1>8, <1>9 DEF Inv, Custody, Obscure


LEMMA StopSessionKeeps ==
    ASSUME Inv, NEW p \in Profiles, StopSession(p)
    PROVE  Inv'
<1>1. /\ mode \in {"run", "shutdown"} /\ table[p].how \in {"owned", "adopted"} /\ job = NoJob
      /\ job' = [p |-> p, comps |-> {c \in Comps : table[p][c] # NoId}, stage |-> "next",
                 failed |-> FALSE]
      /\ UNCHANGED <<os, files, mode, table, todo, bounds, unresolved, history>>
  BY DEF StopSession, Calm, Sessions
<1>2. /\ job' \in Jobs /\ job'.p = p /\ job'.stage = "next" /\ job'.failed = FALSE /\ p # Nobody
      /\ job'.comps = {c \in Comps : table[p][c] # NoId}
  BY <1>1, NameAssumption DEF Jobs
<1>3. Machine' /\ Born0' /\ Kept /\ Ages
  BY <1>1, Unchanging
<1>4. Disk' /\ Memory' /\ Shapes' /\ Vouched' /\ NoStrayCredentials' /\ OnlyOurs'
  BY <1>1, <1>2 DEF Inv, os, files, history, Disk, Memory, Shapes, RecordShape, EntryShape, Vouched,
     NoStrayCredentials, Recorded, OnlyOurs, Windows
<1>5. Modes' /\ JobPlace' /\ Marked'
  BY <1>1, <1>2 DEF Inv, Modes, Quiet, JobPlace, Marked, files, history
<1>6. Identity'
  BY <1>1, <1>3, IdentityKept DEF os, files
<1>7. ~Obscure' => Everyone' /\ TableRecorded' /\ RecordHeld'
  BY <1>1, <1>3, AccountKept DEF Inv, os, files, history
<1>8. TickedOff'
  <2> SUFFICES ASSUME NEW c \in Comps \ job'.comps, NEW pid \in Pids, Of(p, pid)
               PROVE  table[p][c] # IdOf(pid)
    BY <1>1, <1>2 DEF TickedOff, Source, Of, IdOf, os
  <2>1. table[p][c] = NoId
    BY <1>2
  <2>2. QED
    BY <2>1, SlotFacts DEF Inv, Of
<1>9. QED
  BY <1>3, <1>4, <1>5, <1>6, <1>7, <1>8 DEF Inv, Custody

-----------------------------------------------------------------------------
(* The ends of a run.                                                       *)

LEMMA LeaveKeeps ==
    ASSUME Inv, NEW how \in {"release", "shutdown"}, Leave(how)
    PROVE  Inv'
<1>1. /\ mode = "run" /\ mode' = how /\ job = NoJob /\ NoJob.p = Nobody /\ todo' = Sessions
      /\ Starting = {}
      /\ UNCHANGED <<os, files, table, job, bounds, unresolved, history>>
  BY DEF Leave, Calm, NoJob
<1>2. Memory' /\ Modes' /\ JobPlace' /\ Marked'
  BY <1>1 DEF Inv, Memory, Sessions, Starting, Modes, Quiet, JobPlace, JobId, NoJob, Marked, files,
     history
<1>3. ~Obscure' => RecordHeld' /\ TickedOff'
  BY <1>1 DEF Inv, Custody, RecordHeld, TickedOff, Treated, Of, IdOf, os, files, history, Obscure
<1>4. QED
  BY <1>1, <1>2, <1>3, SameTables DEF Inv, Custody

\* A session that nobody is starting is accounted for without the table.
LEMMA WithoutTable ==
    ASSUME Inv, ~Obscure, NEW p \in Profiles, NEW c \in Comps, NEW pid \in Pids,
           proc[pid].up, proc[pid].who = <<p, c>>, table[p].how # "starting"
    PROVE  record[p][c] = IdOf(pid) \/ <<p, IdOf(pid)>> \in excused \cup orphaned
<1>1. Of(p, pid) /\ IdOf(pid) # NoId
  BY SlotFacts DEF Of, Inv
<1>2. table[p][c] = IdOf(pid) \/ record[p][c] = IdOf(pid)
      \/ <<p, IdOf(pid)>> \in excused \cup orphaned
  BY DEF Inv, Custody, Everyone, Accounted, IdOf
<1>3. table[p].how = "none" => table[p][c] = NoId
  BY DEF Inv, Shapes, EntryShape, NoSession, Comps
<1>4. table[p].how \in Running \/ table[p].how = "none"
  BY FieldFacts DEF Inv, Hows, Running
<1>5. table[p].how \in Running /\ table[p][c] = IdOf(pid) =>
          record[p][c] = IdOf(pid) \/ <<p, IdOf(pid)>> \in excused
  BY <1>1 DEF Inv, Custody, TableRecorded
<1>6. QED
  BY <1>1, <1>2, <1>3, <1>4, <1>5

LEMMA ReleaseOneKeeps ==
    ASSUME Inv, NEW p \in Profiles, ReleaseOne(p)
    PROVE  Inv'
<1>1. /\ mode = "release" /\ job = NoJob /\ NoJob.p = Nobody
      /\ todo' = todo \ {p} /\ table' = [table EXCEPT ![p] = NoSession]
      /\ proc' = Without({pid \in Named(table[p]) : ~proc[pid].up})
      /\ UNCHANGED <<world, clock, config, mode, job, bounds, unresolved, struck, excused, orphaned>>
  BY DEF ReleaseOne, LetGo, NoJob, Inv, JobPlace
<1>2. /\ table' \in [Profiles -> Entries] /\ table'[p] = NoSession /\ NoSession.how = "none"
      /\ \A c \in Comps : table'[p][c] = NoId
      /\ \A q \in Profiles \ {p} : table'[q] = table[q]
  BY <1>1 DEF Inv, Memory, Entries, Hows, NoSession, Id, Comps
<1>3. \/ UNCHANGED <<record, purpose>>
      \/ /\ record' = [record EXCEPT ![p].left = TRUE] /\ purpose' = purpose \cup {p}
         /\ record[p] # NoRecord
  BY DEF ReleaseOne, Mark
<1>4. /\ record' \in [Profiles -> Records]
      /\ \A q \in Profiles \ {p} : record'[q] = record[q]
      /\ record'[p].browser = record[p].browser /\ record'[p].xray = record[p].xray
      /\ \A q \in Profiles, c \in Comps : record'[q][c] = record[q][c]
  <2>1. record \in [Profiles -> Records] /\ record[p] \in Records
    BY DEF Inv, Disk
  <2>2. CASE UNCHANGED record
    BY <2>1, <2>2
  <2>3. CASE record' = [record EXCEPT ![p].left = TRUE]
    <3>1. /\ record'[p] = [record[p] EXCEPT !.left = TRUE]
          /\ \A q \in Profiles \ {p} : record'[q] = record[q]
          /\ record' \in [Profiles -> Records]
      BY <2>1, <2>3 DEF Records
    <3>2. record'[p].browser = record[p].browser /\ record'[p].xray = record[p].xray
      BY <2>1, <3>1 DEF Records
    <3>3. \A q \in Profiles, c \in Comps : record'[q][c] = record[q][c]
      BY <3>1, <3>2 DEF Comps
    <3>4. QED
      BY <3>1, <3>2, <3>3
  <2>4. QED
    BY <1>3, <2>2, <2>3
<1>5. /\ record'[p] = NoRecord <=> record[p] = NoRecord
      /\ UNCHANGED <<record, purpose>> \/ record'[p].left
  <2>1. record \in [Profiles -> Records] /\ record[p] \in Records /\ (record[p].browser = NoId => record[p] = NoRecord)
    BY DEF Inv, Disk, Shapes, RecordShape
  <2>2. NoRecord.browser = NoId
    BY DEF NoRecord
  <2>3. CASE UNCHANGED <<record, purpose>>
    BY <2>3
  <2>4. CASE /\ record' = [record EXCEPT ![p].left = TRUE] /\ purpose' = purpose \cup {p}
             /\ record[p] # NoRecord
    <3>1. record'[p].left = TRUE
      BY <2>1, <2>4 DEF Records
    <3>2. QED
      BY <1>4, <2>1, <2>2, <2>4, <3>1
  <2>5. QED
    BY <1>3, <2>3, <2>4
<1>6. Machine' /\ Born0' /\ Kept /\ Ages /\ OnlyOurs'
  BY <1>1, WithoutMachine, WithoutAges DEF Inv, OnlyOurs, Windows
<1>7. Disk' /\ Memory' /\ Shapes' /\ Vouched' /\ NoStrayCredentials'
  <2>1. Disk' /\ Memory'
    BY <1>1, <1>2, <1>3, <1>4 DEF Inv, Disk, Memory
  <2>2. Shapes'
    BY <1>2, <1>4, <1>5 DEF Inv, Shapes, RecordShape, EntryShape
  <2>3. Vouched'
    BY <1>1, <1>2, <1>4, <1>5 DEF Inv, Vouched, Running
  <2>4. NoStrayCredentials'
    <3>1. table[p].how # "none" => table[p].how \in Running
      BY <1>1, FieldFacts DEF Inv, Modes, Quiet, Hows, Running, Comps
    <3>2. table[p].how # "none" => record[p] # NoRecord \/ \E e \in excused : e[1] = p
      BY <3>1 DEF Inv, Vouched
    <3>3. QED
      BY <1>1, <1>2, <1>4, <1>5, <3>2, NameAssumption DEF Inv, Disk, NoStrayCredentials, Recorded
  <2>5. QED
    BY <2>1, <2>2, <2>3, <2>4
<1>8. Modes' /\ JobPlace' /\ Marked'
  <2>1. Modes' /\ JobPlace'
    BY <1>1, <1>2 DEF Inv, Memory, Modes, Quiet, JobPlace, JobId, NoJob
  <2>2. Marked'
    <3> SUFFICES ASSUME NEW q \in purpose', record'[q] # NoRecord, table'[q].how # "spawned"
                 PROVE  record'[q].left
      BY <1>1 DEF Marked
    <3>1. q \in Profiles /\ table[q].how # "spawned"
      BY <1>1, <1>3 DEF Inv, Memory, Modes, Quiet
    <3>2. CASE q # p
      BY <1>3, <1>4, <3>1, <3>2 DEF Inv, Marked
    <3>3. CASE q = p
      BY <1>3, <1>5, <3>1, <3>3 DEF Inv, Marked
    <3>4. QED
      BY <3>2, <3>3
  <2>3. QED
    BY <2>1, <2>2
<1>9. Identity'
  <2> SUFFICES ASSUME NEW q \in Profiles, NEW c \in Comps
               PROVE  /\ Windows => Genuine(q, c, record[q][c])'
                      /\ Windows \/ table'[q].how # "adopted" => Genuine(q, c, table[q][c])'
    BY <1>1 DEF Identity, Windows
  <2>1. /\ Windows => Genuine(q, c, record[q][c])
        /\ Windows \/ table[q].how # "adopted" => Genuine(q, c, table[q][c])
    BY DEF Inv, Identity
  <2>2. record[q][c] \in Id /\ table[q][c] \in Id
    BY FieldFacts DEF Inv
  <2>3. Genuine(q, c, record[q][c]) => Genuine(q, c, record[q][c])'
    <3>1. record'[q][c] = record[q][c]
      BY <1>4
    <3>2. QED
      BY <1>6, <2>2, <3>1, GenuineKept DEF Inv, Genuine
  <2>4. CASE q = p
    BY <1>2, <2>1, <2>3, <2>4 DEF Genuine
  <2>5. CASE q # p
    <3>1. table'[q] = table[q]
      BY <1>2, <2>5
    <3>2. Genuine(q, c, table[q][c]) => Genuine(q, c, table[q][c])'
      BY <1>6, <2>2, <3>1, GenuineKept DEF Inv, Genuine
    <3>3. QED
      BY <2>1, <2>3, <3>1, <3>2
  <2>6. QED
    BY <2>4, <2>5
<1>10. ASSUME ~Obscure
       PROVE  Everyone' /\ TableRecorded' /\ RecordHeld' /\ TickedOff'
  <2>1. Everyone /\ TableRecorded
    BY <1>10 DEF Inv, Custody
  <2>2. Everyone'
    <3> SUFFICES ASSUME NEW q \in Profiles, NEW c \in Comps, NEW pid \in Pids,
                        proc'[pid].up, proc'[pid].who = <<q, c>>
                 PROVE  Accounted(q, c, pid)'
      BY DEF Everyone
    <3>1. proc'[pid] = proc[pid] /\ proc[pid].up /\ proc[pid].who = <<q, c>>
      BY <1>6, KeptOwner
    <3>2. record[q][c] = IdOf(pid) \/ <<q, IdOf(pid)>> \in excused \cup orphaned
      BY <1>1, <1>10, <3>1, WithoutTable DEF Inv, Modes, Quiet
    <3>3. QED
      BY <1>1, <1>4, <3>1, <3>2 DEF Accounted, IdOf
  <2>3. TableRecorded'
    <3> SUFFICES ASSUME NEW q \in Profiles, NEW c \in Comps, NEW pid \in Pids,
                        table'[q].how \in Running, Of(q, pid)', table'[q][c] = IdOf(pid)'
                 PROVE  (record[q][c] = IdOf(pid) \/ <<q, IdOf(pid)>> \in excused)'
      BY DEF TableRecorded
    <3>1. q # p /\ Of(q, pid) /\ IdOf(pid)' = IdOf(pid)
      BY <1>2, <1>6, KeptOf DEF Running
    <3>2. QED
      BY <1>1, <1>2, <1>4, <2>1, <3>1 DEF TableRecorded
  <2>4. RecordHeld' /\ TickedOff'
    BY <1>1 DEF RecordHeld, Treated, TickedOff
  <2>5. QED
    BY <2>2, <2>3, <2>4
<1>11. QED
  BY <1>1, <1>6, <1>7, <1>8, <1>9, <1>10 DEF Inv, Custody, Obscure

\* A run that is over: no table, no stop, nothing to do.
LEMMA EndOfRun ==
    ASSUME Inv, mode' = "off", table' = [p \in Profiles |-> NoSession], job' = NoJob,
           UNCHANGED <<world, record, config, struck>>, todo' \subseteq Profiles,
           Machine', Born0', purpose' \subseteq purpose,
           \A p \in purpose' : table[p].how # "spawned",
           NoStrayCredentials', ~Obscure => Everyone',
           Windows => Ages
    PROVE  Inv'
<1>1. /\ table' \in [Profiles -> Entries] /\ NoSession.how = "none" /\ NoJob \in Jobs
      /\ NoJob.p = Nobody /\ NoJob.stage = "next"
      /\ \A p \in Profiles : table'[p].how = "none" /\ table'[p] = NoSession
      /\ \A p \in Profiles, c \in Comps : table'[p][c] = NoId
  BY DEF Entries, Hows, NoSession, Id, Comps, NoJob, Jobs
<1>2. Disk' /\ Memory' /\ Shapes' /\ Vouched' /\ OnlyOurs'
  <2>1. Disk' /\ Memory'
    BY <1>1 DEF Inv, Disk, Memory
  <2>2. Shapes' /\ Vouched' /\ OnlyOurs'
    BY <1>1 DEF Inv, Shapes, RecordShape, EntryShape, Vouched, Running, OnlyOurs, Windows
  <2>3. QED
    BY <2>1, <2>2
<1>3. Modes' /\ JobPlace' /\ Marked'
  BY <1>1 DEF Inv, Memory, Modes, JobPlace, JobId, Marked
<1>4. Identity'
  <2> SUFFICES ASSUME NEW p \in Profiles, NEW c \in Comps
               PROVE  /\ Windows => Genuine(p, c, record[p][c])'
                      /\ Genuine(p, c, table[p][c])'
    BY DEF Identity, Windows
  <2>1. Windows => Genuine(p, c, record[p][c])
    BY DEF Inv, Identity
  <2>2. record[p][c] \in Id
    BY FieldFacts DEF Inv
  <2>3. Windows => Genuine(p, c, record[p][c])'
    BY <2>1, <2>2, GenuineKept DEF Inv, Genuine
  <2>4. Genuine(p, c, table[p][c])'
    BY <1>1 DEF Genuine
  <2>5. QED
    BY <2>3, <2>4
<1>5. TableRecorded' /\ RecordHeld' /\ TickedOff'
  BY <1>1 DEF TableRecorded, RecordHeld, Treated, TickedOff, Running
<1>6. QED
  BY <1>1, <1>2, <1>3, <1>4, <1>5 DEF Inv, Custody, Obscure

LEMMA LeaveEndsKeeps ==
    ASSUME Inv, LeaveEnds
    PROVE  Inv'
<1>1. /\ mode \in {"release", "shutdown"} /\ job = NoJob /\ mode' = "off"
      /\ table' = [p \in Profiles |-> NoSession]
      /\ UNCHANGED <<os, files, todo, job, bounds, history>>
  BY DEF LeaveEnds
<1>2. Machine' /\ Born0' /\ Ages
  BY <1>1, Unchanging
<1>3. \A p \in Profiles : table[p].how \notin {"starting", "spawned"}
  BY <1>1 DEF Inv, Modes, Quiet
<1>4. NoStrayCredentials'
  <2>1. \A p \in Profiles : table[p].how # "none" => table[p].how \in Running
    BY <1>3, FieldFacts DEF Inv, Hows, Running, Comps
  <2>2. QED
    BY <1>1, <2>1, NameAssumption
       DEF Inv, Disk, Vouched, NoStrayCredentials, Recorded, files, history
<1>5. ~Obscure => Everyone'
  <2> SUFFICES ASSUME ~Obscure, NEW p \in Profiles, NEW c \in Comps, NEW pid \in Pids,
                      proc[pid].up, proc[pid].who = <<p, c>>
               PROVE  Accounted(p, c, pid)'
    BY <1>1 DEF Everyone, os
  <2>1. record[p][c] = IdOf(pid) \/ <<p, IdOf(pid)>> \in excused \cup orphaned
    BY <1>3, WithoutTable
  <2>2. QED
    BY <1>1, <2>1 DEF Accounted, IdOf, os, files, history
<1>6. todo' \subseteq Profiles /\ purpose' = purpose /\ purpose \subseteq Profiles
  BY <1>1 DEF Inv, Memory, history
<1>7. UNCHANGED <<world, record, config, struck>>
  BY <1>1 DEF os, files, history
<1>8. QED
  BY <1>1, <1>2, <1>3, <1>4, <1>5, <1>6, <1>7, EndOfRun

\* What a start in progress holds is excused by the crash that interrupts it.
LEMMA CrashKeeps ==
    ASSUME Inv, Crash
    PROVE  Inv'
<1>1. /\ proc' = Without(Ended) /\ mode' = "off" /\ table' = [p \in Profiles |-> NoSession]
      /\ todo' = {} /\ job' = NoJob
      /\ excused' = excused \cup {<<p, id>> : p \in {q \in Profiles : table[q].how = "starting"},
                                              id \in UNION {Handles(q) : q \in Starting}}
      /\ purpose' = purpose \ {p \in Profiles : table[p].how # "none"}
      /\ UNCHANGED <<world, clock, files, struck, orphaned>>
  BY DEF Crash
<1>2. Machine' /\ Born0' /\ Kept /\ Ages
  BY <1>1, WithoutMachine, WithoutAges DEF Inv
<1>3. ASSUME NEW p \in Profiles, table[p].how = "starting", NEW c \in Comps, table[p][c] # NoId
      PROVE  <<p, table[p][c]>> \in excused'
  <2>1. p \in Starting /\ table[p][c] \in Handles(p)
    BY <1>3 DEF Starting, Handles, Comps
  <2>2. table[p][c] \in UNION {Handles(q) : q \in Starting}
    BY <2>1
  <2>3. QED
    BY <1>1, <1>3, <2>2
<1>4. NoStrayCredentials'
  <2> SUFFICES ASSUME NEW p \in config
               PROVE  record[p] # NoRecord \/ \E e \in excused' : e[1] = p
    BY <1>1, NameAssumption DEF Inv, Disk, NoStrayCredentials, Recorded, files
  <2>1. p \in Profiles /\ p \in Proxied /\ table[p].how \in Hows
    BY FieldFacts, NameAssumption DEF Inv, Disk, Comps
  <2>2. CASE table[p].how = "starting"
    <3>1. table[p]["xray"] # NoId /\ "xray" \in Comps
      BY <2>1, <2>2 DEF Inv, Shapes, EntryShape, Comps
    <3>2. <<p, table[p]["xray"]>> \in excused'
      BY <1>3, <2>1, <2>2, <3>1
    <3>3. QED
      BY <3>2
  <2>3. CASE table[p].how \in Running
    BY <1>1, <2>1, <2>3 DEF Inv, Vouched
  <2>4. CASE table[p].how = "none"
    BY <1>1, <2>1, <2>4 DEF Inv, NoStrayCredentials, Recorded
  <2>5. QED
    BY <2>1, <2>2, <2>3, <2>4 DEF Hows, Running
<1>5. ~Obscure => Everyone'
  <2> SUFFICES ASSUME ~Obscure, NEW p \in Profiles, NEW c \in Comps, NEW pid \in Pids,
                      proc'[pid].up, proc'[pid].who = <<p, c>>
               PROVE  Accounted(p, c, pid)'
    BY DEF Everyone
  <2>1. proc'[pid] = proc[pid] /\ proc[pid].up /\ proc[pid].who = <<p, c>>
    BY <1>2, KeptOwner
  <2>2. record[p][c] = IdOf(pid) \/ <<p, IdOf(pid)>> \in excused' \cup orphaned
    <3>1. CASE table[p].how # "starting"
      BY <1>1, <2>1, <3>1, WithoutTable
    <3>2. CASE table[p].how = "starting"
      <4>1. table[p][c] = IdOf(pid) \/ record[p][c] = IdOf(pid)
            \/ <<p, IdOf(pid)>> \in excused \cup orphaned
        BY <2>1 DEF Inv, Custody, Everyone, Accounted, IdOf
      <4>2. IdOf(pid) # NoId
        BY <2>1, SlotFacts DEF Inv
      <4>3. QED
        BY <1>1, <1>3, <3>2, <4>1, <4>2
    <3>3. QED
      BY <3>1, <3>2
  <2>3. QED
    BY <1>1, <2>1, <2>2 DEF Accounted, IdOf, files
<1>6. \A p \in purpose' : table[p].how # "spawned"
  BY <1>1 DEF Inv, Memory
<1>7. UNCHANGED <<world, record, config, struck>> /\ todo' \subseteq Profiles /\ purpose' \subseteq purpose
  BY <1>1 DEF files
<1>8. QED
  BY <1>1, <1>2, <1>4, <1>5, <1>6, <1>7, EndOfRun

LEMMA RebootKeeps ==
    ASSUME Inv, Reboot
    PROVE  Inv'
<1>1. /\ proc' = [pid \in Pids |-> Free] /\ clock' = IF Windows THEN clock ELSE 0
      /\ mode' = "off" /\ table' = [p \in Profiles |-> NoSession] /\ todo' = {} /\ job' = NoJob
      /\ excused' = {<<p, NoId>> : p \in {e[1] : e \in excused} \cup Starting}
      /\ purpose' = {} /\ UNCHANGED <<world, files, struck>>
  BY DEF Reboot
<1>2. Free.born = 0 /\ Free.up = FALSE /\ clock \in Nat /\ clock' \in Nat
  BY <1>1 DEF Free, Inv, Machine
<1>3. Machine' /\ Born0' /\ (Windows => Ages)
  <2>1. Machine'
    BY <1>1, <1>2 DEF Inv, Machine, Processes
  <2>2. Born0'
    BY <1>1, <1>2 DEF Born0
  <2>3. Windows => Ages
    BY <1>1, <1>2 DEF Ages
  <2>4. QED
    BY <2>1, <2>2, <2>3
<1>4. NoStrayCredentials'
  <2> SUFFICES ASSUME NEW p \in config
               PROVE  record[p] # NoRecord \/ \E e \in excused' : e[1] = p
    BY <1>1, NameAssumption DEF Inv, Disk, NoStrayCredentials, Recorded, files
  <2>1. p \in Profiles /\ table[p].how \in Hows
    BY FieldFacts, NameAssumption DEF Inv, Disk, Comps
  <2>2. p \in Starting \/ record[p] # NoRecord \/ \E e \in excused : e[1] = p
    <3>1. table[p].how \in {"starting", "none"} \/ table[p].how \in Running
      BY <2>1 DEF Hows, Running
    <3>2. QED
      BY <2>1, <3>1 DEF Inv, NoStrayCredentials, Vouched, Recorded, Starting
  <2>3. p \in {e[1] : e \in excused} \cup Starting => <<p, NoId>> \in excused'
    BY <1>1
  <2>4. <<p, NoId>>[1] = p
    OBVIOUS
  <2>5. QED
    BY <2>2, <2>3, <2>4
<1>5. Everyone'
  BY <1>1, <1>2 DEF Everyone
<1>6. UNCHANGED <<world, record, config, struck>> /\ purpose' \subseteq purpose
      /\ todo' \subseteq Profiles /\ \A p \in purpose' : table[p].how # "spawned"
  BY <1>1 DEF files
<1>7. QED
  BY <1>1, <1>3, <1>4, <1>5, <1>6, EndOfRun


-----------------------------------------------------------------------------
(* The invariant.                                                           *)

LEMMA InitHolds == Init => Inv
<1> SUFFICES ASSUME Init PROVE Inv
  OBVIOUS
<1>1. /\ NoRecord \in Records /\ NoSession \in Entries /\ NoJob \in Jobs /\ Free \in Processes
      /\ NoRecord.browser = NoId /\ NoRecord.xray = NoId /\ NoSession.how = "none"
      /\ NoJob.p = Nobody /\ NoJob.stage = "next" /\ Free.born = 0 /\ Free.up = FALSE
      /\ \A c \in Comps : NoRecord[c] = NoId /\ NoSession[c] = NoId
  BY DEF NoRecord, NoSession, NoJob, Free, Records, Entries, Jobs, Processes, Hows, Id, Comps
<1>2. Machine /\ Disk /\ Memory /\ Born0 /\ OnlyOurs
  BY <1>1 DEF Init, Machine, Disk, Memory, Born0, OnlyOurs
<1>3. Shapes
  BY <1>1 DEF Init, Shapes, RecordShape, EntryShape
<1>4. Modes /\ JobPlace /\ Vouched /\ NoStrayCredentials /\ Marked
  BY <1>1 DEF Init, Modes, JobPlace, Vouched, NoStrayCredentials, Marked, Running
<1>5. Custody
  BY <1>1 DEF Init, Custody, Everyone, TableRecorded, RecordHeld, TickedOff, Of
<1>6. Identity
  BY <1>1 DEF Init, Identity, Genuine
<1>7. QED
  BY <1>2, <1>3, <1>4, <1>5, <1>6 DEF Inv

LEMMA StutterKeeps ==
    ASSUME Inv, UNCHANGED vars
    PROVE  Inv'
<1>1. UNCHANGED <<os, files, mode, table, todo, job, unresolved, struck, purpose, excused, orphaned>>
  BY DEF vars, history
<1>2. Machine' /\ Born0' /\ Kept /\ Ages
  BY <1>1, Unchanging
<1>3. Disk' /\ Memory' /\ Shapes' /\ Modes' /\ JobPlace' /\ Vouched'
      /\ NoStrayCredentials' /\ Marked'
  BY <1>1, SameFiles
<1>4. Custody'
  BY <1>1, <1>2, AccountKept, TickedKept DEF os, files, Inv, Custody
<1>5. Identity' /\ OnlyOurs'
  BY <1>1, <1>2, IdentityKept DEF os, files, Inv, OnlyOurs, Windows
<1>6. QED
  BY <1>2, <1>3, <1>4, <1>5 DEF Inv

LEMMA NextKeeps ==
    ASSUME Inv, [Next]_vars
    PROVE  Inv'
<1>1. CASE Recover
  BY <1>1, BootKeeps, RecoverEndsKeeps, RecoverOneKeeps DEF Recover
<1>2. CASE Stop
  BY <1>2, StopAsksKeeps, StopGoneKeeps, StopKillsKeeps, StopSurvivedKeeps, StopOwnedKeeps,
     JobEndsKeeps DEF Stop
<1>3. CASE Session
  BY <1>3, StartXrayKeeps, SpawnBrowserKeeps, WriteRecordKeeps, StartSucceedsKeeps,
     StartFailsKeeps, StopSessionKeeps DEF Session
<1>4. CASE Exit
  BY <1>4, LeaveKeeps, LeaveEndsKeeps, ReleaseOneKeeps DEF Exit
<1>5. CASE Mishap
  BY <1>5, CrashKeeps, RebootKeeps, StrangerAppearsKeeps, DiesKeeps DEF Mishap
<1>6. CASE UNCHANGED vars
  BY <1>6, StutterKeeps
<1>7. QED
  BY <1>1, <1>2, <1>3, <1>4, <1>5, <1>6 DEF Next, Program

\* The invariant of the records, the table and the processes, on every platform
\* and for any number of runs, crashes, reboots and strangers.
THEOREM JournalInvariant == Spec => []Inv
<1>1. Init => Inv
  BY InitHolds
<1>2. Inv /\ [Next]_vars => Inv'
  BY NextKeeps
<1>3. QED
  BY <1>1, <1>2, PTL DEF Spec

LEMMA InvTypes ==
    ASSUME Inv
    PROVE  TypeOK
<1>1. /\ world \in Worlds /\ clock \in Nat /\ config \subseteq Proxied
      /\ proc \in [Pids -> [who : Owners, born : Nat \ {0}, up : BOOLEAN] \cup {Free}]
      /\ mode \in {"off", "recover", "run", "release", "shutdown"}
      /\ todo \subseteq Profiles /\ purpose \subseteq Profiles
      /\ job.p \in Profiles \cup {Nobody} /\ job.comps \subseteq Comps
      /\ job.stage \in {"next", "asked", "killed"}
  BY DEF Inv, Machine, Processes, Disk, Memory, Jobs
<1>2. ASSUME NEW p \in Profiles
      PROVE  /\ record[p].browser \in Ids \cup {NoId} /\ record[p].xray \in Ids \cup {NoId}
             /\ record[p].browser = NoId => record[p] = NoRecord
             /\ (record[p].xray # NoId) = (record[p] # NoRecord /\ p \in Proxied)
             /\ table[p].how \in {"none", "starting", "spawned", "owned", "adopted"}
             /\ table[p].how = "none" => table[p] = NoSession
  <2>1. "browser" \in Comps
    BY DEF Comps
  <2>2. QED
    BY <2>1, FieldFacts DEF Inv, Id, Hows, Shapes, RecordShape, EntryShape
<1>3. QED
  BY <1>1, <1>2 DEF TypeOK

LEMMA InvCustody ==
    ASSUME Inv
    PROVE  CustodyKept
<1>1. ASSUME ~Obscure, NEW p \in Profiles, NEW c \in Comps, NEW pid \in Ours(p, c)
      PROVE  Accounted(p, c, pid)
  BY <1>1 DEF Inv, Custody, Everyone, Ours
<1>2. QED
  BY <1>1, InvTypes DEF Inv, CustodyKept

\* A live process of ours is in the table or named by a record, or is one of the
\* losses counted; whom journal::stop kills on Windows is whom it was to stop;
\* credentials on disk have a session, a record or a counted loss to answer for them.
THEOREM CustodyIsKept == Spec => []CustodyKept
<1>1. Inv => CustodyKept
  BY InvCustody
<1>2. QED
  BY <1>1, JournalInvariant, PTL

\* The recovery of the next run stops no session that was left on purpose.
THEOREM PurposeIsHonoured == Spec => []PurposeHonoured
<1>1. Inv => PurposeHonoured
  BY DEF Inv, Marked, PurposeHonoured
<1>2. QED
  BY <1>1, JournalInvariant, PTL

-----------------------------------------------------------------------------
(* A record is removed when nothing it names is left.                       *)

\* The record of p names a process of p that is alive before and after a step.
Survives(p, id) ==
    /\ id # NoId /\ <<p, id>> \notin orphaned /\ proc[id.pid].up
    /\ proc[id.pid].who \in {p} \X Comps
    /\ proc[id.pid].born = id.born /\ proc'[id.pid] = proc[id.pid]

LEMMA SurvivorFacts ==
    ASSUME Inv, NEW p \in Profiles, NEW c \in Comps, Survives(p, record[p][c])
    PROVE  \E pid \in Pids :
              /\ Of(p, pid) /\ record[p][c] = IdOf(pid) /\ <<p, IdOf(pid)>> \notin orphaned
              /\ proc'[pid] = proc[pid] /\ pid = record[p][c].pid
<1>1. record[p][c] \in Ids /\ record[p][c].pid \in Pids
  BY FieldFacts, IdFacts DEF Inv, Survives
<1>2. record[p][c] = IdOf(record[p][c].pid)
  BY <1>1 DEF Ids, IdOf, Survives
<1>3. Of(p, record[p][c].pid)
  BY DEF Of, Survives
<1>4. QED
  BY <1>1, <1>2, <1>3 DEF Survives

LEMMA RecordRemoved ==
    ASSUME Inv, ~Obscure, [Next]_vars, NEW p \in Profiles, record[p] # NoRecord,
           record'[p] = NoRecord, NEW c \in Comps
    PROVE  ~Survives(p, record[p][c])
<1> SUFFICES ASSUME Survives(p, record[p][c]) PROVE FALSE
  OBVIOUS
<1>1. PICK pid \in Pids :
              /\ Of(p, pid) /\ record[p][c] = IdOf(pid) /\ <<p, IdOf(pid)>> \notin orphaned
              /\ proc'[pid] = proc[pid]
  BY SurvivorFacts
<1>2. record \in [Profiles -> Records] /\ NoRecord.left = FALSE /\ NoRecord.browser = NoId
  BY DEF Inv, Disk, NoRecord
<1>3. ASSUME JobEnds PROVE FALSE
  <2>1. ~job.failed /\ RemoveFiles(job.p) /\ job.comps = {} /\ job.p # Nobody
    BY <1>3 DEF JobEnds
  <2>2. p = job.p
    BY <1>2, <2>1, JobFacts DEF RemoveFiles
  <2>3. \A d \in Comps : Source(d) # IdOf(pid)
    BY <1>1, <2>1, <2>2 DEF Inv, Custody, TickedOff
  <2>4. CASE mode = "recover"
    BY <1>1, <2>2, <2>3, <2>4 DEF Source
  <2>5. CASE mode # "recover"
    <3>1. mode \in {"run", "shutdown"} /\ table[p].how \in Running
      BY <2>1, <2>2, <2>5 DEF Inv, JobPlace, Running
    <3>2. \E d \in Comps : table[p][d] = IdOf(pid)
      BY <1>1, <3>1 DEF Inv, Custody, RecordHeld, Treated
    <3>3. QED
      BY <2>2, <2>3, <2>5, <3>2 DEF Source
  <2>6. QED
    BY <2>4, <2>5
<1>4. ASSUME NEW q \in Profiles, RecoverOne(q) PROVE FALSE
  <2>1. PICK browser \in Verdicts(record[q].browser), xray \in Verdicts(record[q].xray) :
            RecoverWith(q, browser, xray)
    BY <1>4 DEF RecoverOne
  <2>2. /\ RemoveFiles(q) /\ {browser, xray} \cap {"foreign", "unreadable"} = {}
        /\ {d \in Comps : (IF d = "browser" THEN browser ELSE xray) = "ours"} = {}
    BY <2>1 DEF RecoverWith, files
  <2>3. q = p
    BY <1>2, <2>2 DEF RemoveFiles
  <2>4. browser = "gone" /\ xray = "gone"
    <3>1. browser # "ours" /\ xray # "ours"
      BY <2>2 DEF Comps
    <3>2. QED
      BY <2>1, <2>2, <3>1 DEF Verdicts
  <2>5. "gone" \in Verdicts(record[p][c]) /\ record[p][c] \in Id
    BY <2>1, <2>3, <2>4, FieldFacts DEF Comps, Inv
  <2>6. QED
    BY <1>1, <2>5, GoneFacts
<1>5. ASSUME NEW q \in Profiles, StartFails(q) PROVE FALSE
  <2>1. mode = "run" /\ Rollback(q) /\ proc' = Without(Named(table[q]))
    BY <1>5 DEF StartFails, Calm
  <2>2. q = p /\ table[p].how = "spawned"
    BY <1>2, <2>1 DEF Rollback
  <2>3. \E d \in Comps : table[p][d] = IdOf(pid)
    BY <1>1, <2>1, <2>2 DEF Inv, Custody, RecordHeld, Treated, Running
  <2>4. IdOf(pid) # NoId /\ IdOf(pid).pid = pid /\ proc[pid].up
    BY <1>1, SlotFacts DEF Inv, Of
  <2>5. IdOf(pid) \in {table[p].browser, table[p].xray} \ {NoId}
    BY <2>3, <2>4 DEF Comps
  <2>6. pid \in Named(table[p])
    BY <2>4, <2>5 DEF Named
  <2>7. proc'[pid].up
    BY <1>1, <2>4
  <2>8. QED
    BY <2>1, <2>2, <2>6, <2>7, WithoutDead
<1>6. ASSUME NEW q \in Profiles, WriteRecord(q) PROVE FALSE
  <2>1. table[q].browser # NoId
    BY <1>6 DEF WriteRecord
  <2>2. record'[q] = RecordOf(q) \/ record'[q] = record[q]
    BY <1>2, <1>6 DEF WriteRecord
  <2>3. RecordOf(q) # NoRecord
    BY <1>2, <2>1 DEF RecordOf
  <2>4. \A r \in Profiles \ {q} : record'[r] = record[r]
    BY <1>2, <1>6 DEF WriteRecord
  <2>5. QED
    BY <2>2, <2>3, <2>4
<1>7. ASSUME NEW q \in Profiles, ReleaseOne(q) PROVE FALSE
  <2>1. record' = record \/ record' = [record EXCEPT ![q].left = TRUE]
    BY <1>7 DEF ReleaseOne, Mark
  <2>2. record[p] \in Records
    BY <1>2
  <2>3. CASE record' = [record EXCEPT ![q].left = TRUE]
    <3>1. p # q => record'[p] = record[p]
      BY <1>2, <2>3
    <3>2. record'[q].left = TRUE
      BY <1>2, <1>7, <2>3 DEF Records
    <3>3. QED
      BY <1>2, <3>1, <3>2
  <2>4. QED
    BY <2>1, <2>3
<1>8. CASE UNCHANGED record
  BY <1>8
<1>9. \/ UNCHANGED record \/ JobEnds
      \/ \E q \in Profiles : RecoverOne(q) \/ StartFails(q) \/ WriteRecord(q) \/ ReleaseOne(q)
  <2>1. CASE Recover
    BY <2>1 DEF Recover, Boot, RecoverEnds, files
  <2>2. CASE Stop
    BY <2>2 DEF Stop, StopAsks, StopGone, StopKills, StopSurvived, StopOwned, files
  <2>3. CASE Session
    BY <2>3 DEF Session, StartXray, SpawnBrowser, StartSucceeds, StopSession, files
  <2>4. CASE Exit
    BY <2>4 DEF Exit, Leave, LeaveEnds, files
  <2>5. CASE Mishap
    <3>1. (Crash \/ Reboot) => UNCHANGED record
      BY DEF Crash, Reboot, files
    <3>2. \A q \in Pids : (StrangerAppears(q) => UNCHANGED record) /\ (Dies(q) => UNCHANGED record)
      BY DEF StrangerAppears, Dies, files
    <3>3. QED
      BY <2>5, <3>1, <3>2 DEF Mishap
  <2>6. CASE UNCHANGED vars
    BY <2>6 DEF vars, files
  <2>7. QED
    BY <2>1, <2>2, <2>3, <2>4, <2>5, <2>6 DEF Next, Program
<1>10. QED
  BY <1>3, <1>4, <1>5, <1>6, <1>7, <1>8, <1>9

\* A record is removed only when no process of its profile that it names is left
\* to find: a stop ticked each off, the recovery found them gone, or the start
\* that fails took them down.
THEOREM RecordsOutliveProcesses == Spec => RecordOutlivesProcess
<1>1. ASSUME Inv, [Next]_vars, NEW p \in Profiles, ~Obscure, p \in Recorded, record'[p] = NoRecord,
             NEW id \in {record[p].browser, record[p].xray},
             id # NoId, <<p, id>> \notin orphaned, proc[id.pid].up,
             proc[id.pid].who \in {p} \X Comps
      PROVE  ~(proc[id.pid].born = id.born /\ proc'[id.pid] = proc[id.pid])
  <2>1. \E c \in Comps : id = record[p][c]
    BY <1>1 DEF Comps
  <2>2. record[p] # NoRecord
    BY <1>1 DEF Recorded
  <2>3. ~Survives(p, id)
    BY <1>1, <2>1, <2>2, RecordRemoved
  <2>4. QED
    BY <1>1, <2>3 DEF Survives
<1>2. Inv /\ [Next]_vars =>
         [\A p \in Profiles : ~Obscure /\ p \in Recorded /\ record'[p] = NoRecord =>
             \A id \in {record[p].browser, record[p].xray} :
                 id # NoId /\ <<p, id>> \notin orphaned /\ proc[id.pid].up
                 /\ proc[id.pid].who \in {p} \X Comps =>
                     ~(proc[id.pid].born = id.born
                       /\ proc'[id.pid] = proc[id.pid])]_vars
  BY <1>1
<1>3. QED
  BY <1>2, JournalInvariant, PTL DEF Spec, RecordOutlivesProcess

=============================================================================
