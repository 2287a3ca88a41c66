------------------------------ MODULE WindowProofs ------------------------------
(***************************************************************************)
(* The leases of the window, proved for every set of profiles and proxies,  *)
(* every capacity of the command channel and any number of clicks.          *)
(*                                                                         *)
(* A lease is given back by whoever learns that its work is over: the       *)
(* refresh that reads an acknowledgement, an answer, a cancellation.  The   *)
(* proof shows that none of them gives back another's: a start that is in   *)
(* the channel or with the supervisor is still queued under its own number, *)
(* so what holds no lease has nothing under way.                            *)
(***************************************************************************)
EXTENDS Window, FiniteSetTheorems, TLAPS

-----------------------------------------------------------------------------
(* Types.                                                                   *)

Leases == {"none", "starting", "copying"}
Checks == [proxy : Exits, how : Hows]
Tasks == [task : Nat, of : Nat]
Work == [kind : {"test"}, task : Nat, proxy : Proxies, asked : Tested]
        \cup [kind : {"reading"}, task : Nat, id : Profiles, of : Nat]
Snapshots == [state : {"down", "moving", "running"}, ack : Nat, through : Tested]

Stores == stored \in Configurations /\ rows \in Configurations /\ def \in [Proxies -> Nat]
Holds == /\ lease \in [Profiles -> Leases] /\ pending \in [Profiles -> Checks]
         /\ queued \in [Profiles -> Nat] /\ copying \in SUBSET Profiles
Asking == tests \in [Proxies -> Nat] /\ readings \in [Profiles -> Tasks] /\ jobs \subseteq Work
Marker == job \in [kind : {"none", "import", "restore"}, at : {"worker", "answered"}]
Channel == /\ inbox \in Seq(Commands) /\ Len(inbox) <= QueueCap
           /\ launch \in Commands \cup {None}
Published == session \in [Profiles -> Snapshots]
Counts == count \in [starts : Nat, tests : Nat, readings : Nat] /\ orphans \subseteq Profiles

-----------------------------------------------------------------------------
(* The invariant.                                                           *)

\* Leases le match the starts pe that wait and those qu that are queued.
Matches(pe, qu, le) ==
    \A p \in Profiles :
        /\ le[p] = "starting" <=> pe[p].proxy # Direct \/ qu[p] # 0
        /\ le[p] = "copying" <=> p \in copying
        /\ ~(pe[p].proxy # Direct /\ qu[p] # 0)

\* A start in the channel or with the supervisor is the one its profile is queued
\* for, and is not acknowledged; no two are for the same profile.
Opens(c) == c.kind \in Hows
Due(c) == queued[c.id] = c.request /\ session[c.id].ack < c.request
Commanded ==
    /\ \A i \in 1..Len(inbox) : Opens(inbox[i]) => Due(inbox[i])
    /\ \A i, j \in 1..Len(inbox) :
          i # j /\ Opens(inbox[i]) /\ Opens(inbox[j]) => inbox[i].id # inbox[j].id
    /\ launch # None =>
          /\ Opens(launch) /\ Due(launch)
          /\ \A i \in 1..Len(inbox) : Opens(inbox[i]) => inbox[i].id # launch.id

Numbered == \A p \in Profiles : queued[p] <= count.starts /\ session[p].ack <= count.starts

\* A browser that is not out of sight has a row, or a lease until it has one.
Visible ==
    \A p \in Profiles :
        /\ queued[p] # 0 => p \in DOMAIN stored
        /\ session[p].state # "down" /\ p \notin orphans =>
              p \in DOMAIN stored /\ (p \in DOMAIN rows \/ queued[p] # 0)

Alone ==
    /\ Exclusive => /\ copying = {}
                    /\ \A p \in Profiles : /\ lease[p] = "none"
                                           /\ p \notin orphans => session[p].state = "down"
    /\ \A p \in copying \ orphans : session[p].state = "down"

Inv ==
    /\ Stores /\ Holds /\ Asking /\ Marker /\ Channel /\ Published /\ Counts
    /\ Matches(pending, queued, lease)
    /\ Commanded /\ Numbered /\ Visible /\ Alone

-----------------------------------------------------------------------------
(* Lemmas on the data.                                                      *)

LEMMA ConfigurationFacts ==
    ASSUME NEW f \in Configurations
    PROVE  /\ DOMAIN f \subseteq Profiles
           /\ \A p \in DOMAIN f : f[p] \in Exits
BY DEF Configurations

LEMMA IsConfiguration ==
    ASSUME NEW S \in SUBSET Profiles, NEW f \in [S -> Exits]
    PROVE  f \in Configurations
BY DEF Configurations

LEMMA CommandFacts ==
    ASSUME NEW c \in Commands
    PROVE  /\ c.id \in Profiles /\ c.kind \in Hows \cup {"stop"} /\ c # None
           /\ Opens(c) => c.request \in Nat /\ c.through \in Tested /\ c.asked \in Tested
BY DEF Commands, Opens, Hows, None

LEMMA SnapshotFacts ==
    ASSUME Published, NEW p \in Profiles
    PROVE  /\ session[p] \in Snapshots /\ session[p].ack \in Nat /\ session[p].through \in Tested
           /\ session[p].state \in {"down", "moving", "running"}
BY DEF Published, Snapshots

LEMMA HoldFacts ==
    ASSUME Holds, NEW p \in Profiles
    PROVE  /\ lease[p] \in Leases /\ pending[p] \in Checks /\ pending[p].proxy \in Exits
           /\ pending[p].how \in Hows /\ queued[p] \in Nat
BY DEF Holds, Checks

\* The channel, a command at a time.
LEMMA InboxFacts ==
    ASSUME Channel
    PROVE  /\ Len(inbox) \in Nat /\ \A i \in 1..Len(inbox) : inbox[i] \in Commands
           /\ launch # None => launch \in Commands
BY DEF Channel

\* A start under way has its profile queued.
LEMMA DueIsQueued ==
    ASSUME Inv, NEW c \in Commands, Opens(c), Due(c)
    PROVE  /\ c.id \in Profiles /\ queued[c.id] # 0 /\ lease[c.id] = "starting"
           /\ c.id \notin copying /\ ~Exclusive /\ c.id \in DOMAIN stored
<1>1. c.id \in Profiles /\ c.request \in Nat
  BY CommandFacts
<1>2. queued[c.id] # 0
  BY <1>1, SnapshotFacts DEF Inv, Due
<1>3. QED
  BY <1>1, <1>2 DEF Inv, Matches, Alone, Visible

-----------------------------------------------------------------------------
(* What a refresh does.                                                     *)

\* The refresh at the end of a handler gives back only what is over.
LEMMA RefreshedFacts ==
    ASSUME Holds, NEW pe \in [Profiles -> Checks], NEW qu \in [Profiles -> Nat],
           NEW le \in [Profiles -> Leases], Matches(pe, qu, le), Refreshed(pe, qu, le),
           copying' = copying
    PROVE  /\ Holds' /\ Matches(pending, queued, lease)'
           /\ \A p \in Profiles :
                 /\ \/ queued'[p] = qu[p]
                    \/ /\ queued'[p] = 0 /\ p \in DOMAIN rows /\ session[p].ack >= qu[p]
                       /\ qu[p] # 0
                 /\ lease'[p] = le[p] \/ lease'[p] = "none"
                 /\ pending'[p] = pe[p] \/ pending'[p].proxy = Direct
<1>1. PICK late \in Expired(pe) :
        /\ pending' = Without(pe, late)
        /\ queued' = [p \in Profiles |-> IF p \in Acknowledged(qu) THEN 0 ELSE qu[p]]
        /\ lease' = Freed(le, late \cup Acknowledged(qu))
  BY DEF Refreshed
<1>2. NoPending \in Checks /\ NoPending.proxy = Direct
  BY DEF NoPending, Checks, Exits, Hows
<1>3. ASSUME NEW p \in Profiles
      PROVE  /\ pending'[p] = IF p \in late THEN NoPending ELSE pe[p]
             /\ queued'[p] = IF p \in Acknowledged(qu) THEN 0 ELSE qu[p]
             /\ lease'[p] = IF p \in late \cup Acknowledged(qu) /\ le[p] = "starting"
                            THEN "none" ELSE le[p]
  BY <1>1 DEF Without, Freed
<1>4. \A p \in late : pe[p].proxy # Direct
  BY <1>1 DEF Expired
<1>5. \A p \in Acknowledged(qu) : p \in DOMAIN rows /\ session[p].ack >= qu[p] /\ qu[p] # 0
  BY DEF Acknowledged
<1>6. Holds'
  BY <1>1, <1>2 DEF Holds, Without, Freed, Leases
<1>7. ASSUME NEW p \in Profiles
      PROVE  /\ lease'[p] = "starting" <=> pending'[p].proxy # Direct \/ queued'[p] # 0
             /\ lease'[p] = "copying" <=> p \in copying
             /\ ~(pending'[p].proxy # Direct /\ queued'[p] # 0)
  <2>1. /\ le[p] = "starting" <=> pe[p].proxy # Direct \/ qu[p] # 0
        /\ le[p] = "copying" <=> p \in copying
        /\ ~(pe[p].proxy # Direct /\ qu[p] # 0)
    BY DEF Matches
  <2>2. CASE p \in late
    BY <1>2, <1>3, <1>4, <1>5, <2>1, <2>2
  <2>3. CASE p \notin late /\ p \in Acknowledged(qu)
    BY <1>3, <1>5, <2>1, <2>3
  <2>4. CASE p \notin late \cup Acknowledged(qu)
    BY <1>3, <2>1, <2>4
  <2>5. QED
    BY <2>2, <2>3, <2>4
<1>8. Matches(pending, queued, lease)'
  BY <1>7 DEF Matches
<1>9. QED
  BY <1>2, <1>3, <1>5, <1>6, <1>8

\* The same, as one formula about a sending.
Outcome(qu, le) ==
    /\ Holds' /\ Matches(pending, queued, lease)'
    /\ \A p \in Profiles :
          /\ \/ queued'[p] = qu[p]
             \/ queued'[p] = 0 /\ p \in DOMAIN rows /\ session[p].ack >= qu[p] /\ qu[p] # 0
          /\ lease'[p] = le[p] \/ lease'[p] = "none"

LEMMA RefreshedOutcome ==
    ASSUME Holds, NEW pe \in [Profiles -> Checks], NEW qu \in [Profiles -> Nat],
           NEW le \in [Profiles -> Leases], Matches(pe, qu, le), Refreshed(pe, qu, le),
           copying' = copying
    PROVE  Outcome(qu, le)
BY RefreshedFacts DEF Outcome

-----------------------------------------------------------------------------
(* A step that leaves the supervisor alone.                                 *)

\* Rows may be read again and records added; starts are given up or acknowledged.
Settles ==
    /\ Stores' /\ Holds' /\ Asking' /\ Marker' /\ Counts'
    /\ Matches(pending, queued, lease)'
    /\ UNCHANGED <<launch, session>>
    /\ DOMAIN stored \subseteq DOMAIN stored'
    /\ DOMAIN stored \cap DOMAIN rows \subseteq DOMAIN rows'
    /\ \A p \in Profiles :
          \/ queued'[p] = queued[p]
          \/ queued'[p] = 0 /\ p \in DOMAIN rows /\ session[p].ack >= queued[p]
    /\ count.starts <= count'.starts /\ orphans \subseteq orphans'
    /\ copying' \subseteq copying
    /\ Exclusive' =>
          /\ copying' = {}
          /\ \A p \in Profiles : lease'[p] = "none" /\ (p \notin orphans' => session[p].state = "down")

\* Whatever else happens, the starts that are under way stay what they are.
LEMMA StartsKept ==
    ASSUME Inv, UNCHANGED <<launch, session>>, Holds', Counts', count.starts <= count'.starts,
           \A p \in Profiles :
              \/ queued'[p] = queued[p]
              \/ queued'[p] = 0 /\ p \in DOMAIN rows /\ session[p].ack >= queued[p]
    PROVE  /\ Published' /\ Numbered'
           /\ \A c \in Commands : Opens(c) /\ Due(c) => Due(c)'
           /\ inbox' = inbox => Channel' /\ Commanded'
<1>1. Published' /\ (inbox' = inbox => Channel')
  BY DEF Inv, Channel, Published
<1>2. ASSUME NEW c \in Commands, Opens(c), Due(c)
      PROVE  Due(c)'
  <2>1. c.id \in Profiles /\ c.request \in Nat /\ session[c.id].ack \in Nat
    BY <1>2, CommandFacts, SnapshotFacts DEF Inv
  <2>2. QED
    BY <1>2, <2>1 DEF Due
<1>3. inbox' = inbox => Commanded'
  BY <1>2, InboxFacts DEF Inv, Commanded
<1>4. Numbered'
  <2> SUFFICES ASSUME NEW p \in Profiles
               PROVE  queued'[p] <= count'.starts /\ session[p].ack <= count'.starts
    BY DEF Numbered
  <2>1. count.starts \in Nat /\ count'.starts \in Nat /\ queued[p] \in Nat /\ session[p].ack \in Nat
    BY HoldFacts, SnapshotFacts DEF Inv, Counts
  <2>2. QED
    BY <2>1 DEF Inv, Numbered
<1>5. QED
  BY <1>1, <1>2, <1>3, <1>4

LEMMA SettlesKeeps ==
    ASSUME Inv, Settles, (Channel' /\ Commanded') \/ inbox' = inbox
    PROVE  Inv'
<1>1. Channel' /\ Published' /\ Commanded' /\ Numbered'
  BY StartsKept DEF Settles
<1>2. Visible'
  BY DEF Inv, Visible, Settles
<1>3. Alone'
  BY DEF Inv, Alone, Settles
<1>4. QED
  BY <1>1, <1>2, <1>3 DEF Inv, Settles

-----------------------------------------------------------------------------
(* The refresh of a handler that gives leases back.                         *)

LEMMA RefreshSettles ==
    ASSUME Inv, NEW pe \in [Profiles -> Checks], NEW le \in [Profiles -> Leases],
           Matches(pe, queued, le), Refreshed(pe, queued, le),
           \A p \in Profiles : le[p] = lease[p] \/ le[p] = "none",
           Stores', Asking', Marker', Counts',
           UNCHANGED <<inbox, launch, session, copying>>,
           DOMAIN stored \subseteq DOMAIN stored',
           DOMAIN stored \cap DOMAIN rows \subseteq DOMAIN rows',
           count'.starts = count.starts, orphans' = orphans, Exclusive' => Exclusive
    PROVE  Inv'
<1>1. queued \in [Profiles -> Nat]
  BY DEF Inv, Holds
<1>2. /\ Holds' /\ Matches(pending, queued, lease)'
      /\ \A p \in Profiles :
            /\ \/ queued'[p] = queued[p]
               \/ queued'[p] = 0 /\ p \in DOMAIN rows /\ session[p].ack >= queued[p]
            /\ lease'[p] = le[p] \/ lease'[p] = "none"
  BY <1>1, RefreshedFacts DEF Inv
<1>3. count.starts <= count'.starts
  BY DEF Inv, Counts
<1>4. Exclusive' =>
          /\ copying' = {}
          /\ \A p \in Profiles : lease'[p] = "none" /\ (p \notin orphans' => session[p].state = "down")
  BY <1>2 DEF Inv, Alone
<1>5. Settles
  BY <1>2, <1>3, <1>4 DEF Settles
<1>6. QED
  BY <1>5, SettlesKeeps

LEMMA Held ==
    ASSUME Inv
    PROVE  /\ pending \in [Profiles -> Checks] /\ lease \in [Profiles -> Leases]
           /\ queued \in [Profiles -> Nat] /\ Matches(pending, queued, lease)
BY DEF Inv, Holds

LEMMA TickKeeps ==
    ASSUME Inv, Tick
    PROVE  Inv'
<1>1. /\ Refreshed(pending, queued, lease)
      /\ UNCHANGED <<stored, def, rows, tests, readings, job, jobs, copying, inbox, launch, session,
                     count, orphans>>
  BY DEF Tick, runtime
<1>2. Stores' /\ Asking' /\ Marker' /\ Counts' /\ (Exclusive' => Exclusive)
  BY <1>1 DEF Inv, Stores, Asking, Marker, Counts, Exclusive
<1>3. QED
  BY <1>1, <1>2, Held, RefreshSettles

\* Calling off the starts of S that wait.
LEMMA CalledOff ==
    ASSUME Inv, NEW S \in SUBSET Profiles, \A p \in S : pending[p].proxy # Direct
    PROVE  /\ Without(pending, S) \in [Profiles -> Checks] /\ Freed(lease, S) \in [Profiles -> Leases]
           /\ Matches(Without(pending, S), queued, Freed(lease, S))
           /\ \A p \in Profiles : Freed(lease, S)[p] = lease[p] \/ Freed(lease, S)[p] = "none"
<1>1. NoPending \in Checks /\ NoPending.proxy = Direct
  BY DEF NoPending, Checks, Exits, Hows
<1>2. \A p \in Profiles :
         /\ Without(pending, S)[p] = IF p \in S THEN NoPending ELSE pending[p]
         /\ Freed(lease, S)[p] = IF p \in S /\ lease[p] = "starting" THEN "none" ELSE lease[p]
  BY DEF Without, Freed
<1>3. Without(pending, S) \in [Profiles -> Checks] /\ Freed(lease, S) \in [Profiles -> Leases]
  BY <1>1, Held DEF Without, Freed, Leases
<1>4. Matches(Without(pending, S), queued, Freed(lease, S))
  BY <1>1, <1>2, Held DEF Matches
<1>5. QED
  BY <1>2, <1>3, <1>4

\* Calling them off without a refresh.
LEMMA CallOffSettles ==
    ASSUME Inv, NEW S \in SUBSET Profiles, \A p \in S : pending[p].proxy # Direct,
           pending' = Without(pending, S), lease' = Freed(lease, S),
           Stores', Asking', Marker', Counts',
           UNCHANGED <<inbox, launch, session, copying, queued, count, orphans>>,
           DOMAIN stored' = DOMAIN stored, DOMAIN rows' = DOMAIN rows, Exclusive' => Exclusive
    PROVE  Inv'
<1>1. Holds' /\ Matches(pending, queued, lease)'
  BY CalledOff DEF Inv, Holds, Matches
<1>2. count.starts <= count'.starts
  BY DEF Inv, Counts
<1>3. Exclusive' =>
          /\ copying' = {}
          /\ \A p \in Profiles : lease'[p] = "none" /\ (p \notin orphans' => session[p].state = "down")
  BY CalledOff DEF Inv, Alone
<1>4. Settles
  BY <1>1, <1>2, <1>3 DEF Settles
<1>5. QED
  BY <1>4, SettlesKeeps

\* A step that touches no lease, no start and no profile.
LEMMA AsideKeeps ==
    ASSUME Inv, Stores', Asking', Marker', Counts', count'.starts = count.starts,
           UNCHANGED <<lease, pending, queued, copying, inbox, launch, session, orphans>>,
           DOMAIN stored \subseteq DOMAIN stored',
           DOMAIN stored \cap DOMAIN rows \subseteq DOMAIN rows', Exclusive' => Exclusive
    PROVE  Inv'
<1>1. Holds' /\ Matches(pending, queued, lease)'
  BY Held DEF Inv, Holds, Matches
<1>2. count.starts <= count'.starts
  BY DEF Inv, Counts
<1>3. Exclusive' =>
          /\ copying' = {}
          /\ \A p \in Profiles : lease'[p] = "none" /\ (p \notin orphans' => session[p].state = "down")
  BY DEF Inv, Alone
<1>4. Settles
  BY <1>1, <1>2, <1>3 DEF Settles
<1>5. QED
  BY <1>4, SettlesKeeps

-----------------------------------------------------------------------------
(* Tests and verifications.                                                 *)

LEMMA BeginTestFacts ==
    ASSUME Inv, NEW x \in Proxies, BeginTest(x), readings' = readings, orphans' = orphans
    PROVE  Asking' /\ Counts' /\ count'.starts = count.starts
<1>1. PICK asked \in Asks(x) :
          jobs' = jobs \cup {[kind |-> "test", task |-> count.tests + 1, proxy |-> x, asked |-> asked]}
  BY DEF BeginTest
<1>2. count \in [starts : Nat, tests : Nat, readings : Nat] /\ count.tests + 1 \in Nat
  BY DEF Inv, Counts
<1>3. Asks(x) \subseteq Tested
  <2>1. Engines(x) \subseteq Tested
    BY ConfigurationFacts, SnapshotFacts DEF Engines, Inv, Stores
  <2>2. [proxy |-> x, def |-> def[x]] \in Tested
    BY DEF Inv, Stores, Tested, Exits
  <2>3. QED
    BY <2>1, <2>2 DEF Asks
<1>4. jobs' \subseteq Work
  BY <1>1, <1>2, <1>3 DEF Inv, Asking, Work
<1>5. tests' \in [Proxies -> Nat]
  BY <1>2 DEF BeginTest, Inv, Asking
<1>6. count' \in [starts : Nat, tests : Nat, readings : Nat] /\ count'.starts = count.starts
  BY <1>2 DEF BeginTest
<1>7. QED
  BY <1>4, <1>5, <1>6 DEF Inv, Asking, Counts

LEMMA OnTestKeeps ==
    ASSUME Inv, NEW x \in Proxies, OnTest(x)
    PROVE  Inv'
<1>1. /\ BeginTest(x)
      /\ UNCHANGED <<stored, def, rows, lease, pending, queued, readings, job, copying, inbox,
                     launch, session, orphans>>
  BY DEF OnTest, runtime
<1>2. Asking' /\ Counts' /\ count'.starts = count.starts
  BY <1>1, BeginTestFacts
<1>3. Stores' /\ Marker' /\ (Exclusive' => Exclusive)
  BY <1>1 DEF Inv, Stores, Marker, Exclusive
<1>4. QED
  BY <1>1, <1>2, <1>3, AsideKeeps

LEMMA OnVerifyKeeps ==
    ASSUME Inv, NEW p \in Profiles, OnVerify(p)
    PROVE  Inv'
<1>1. /\ count' = [count EXCEPT !.readings = @ + 1]
      /\ readings' = [readings EXCEPT ![p] = [task |-> count.readings + 1, of |-> 0]]
      /\ jobs' = jobs \cup {[kind |-> "reading", task |-> count.readings + 1, id |-> p,
                             of |-> session[p].ack]}
      /\ UNCHANGED <<stored, def, rows, lease, pending, queued, tests, job, copying, inbox, launch,
                     session, orphans>>
  BY DEF OnVerify, runtime
<1>2. count \in [starts : Nat, tests : Nat, readings : Nat] /\ count.readings + 1 \in Nat
  BY DEF Inv, Counts
<1>3. Counts' /\ count'.starts = count.starts
  BY <1>1, <1>2 DEF Inv, Counts
<1>4. jobs' \subseteq Work
  BY <1>1, <1>2, SnapshotFacts DEF Inv, Asking, Work
<1>5. Asking'
  BY <1>1, <1>2, <1>4 DEF Inv, Asking, Tasks
<1>6. Stores' /\ Marker' /\ (Exclusive' => Exclusive)
  BY <1>1 DEF Inv, Stores, Marker, Exclusive
<1>7. QED
  BY <1>1, <1>3, <1>5, <1>6, AsideKeeps

LEMMA ReadingAnsweredKeeps ==
    ASSUME Inv, NEW j \in jobs, ReadingAnswered(j)
    PROVE  Inv'
<1>1. /\ j.kind = "reading" /\ jobs' = jobs \ {j}
      /\ readings' = IF readings[j.id].task # j.task THEN readings
                     ELSE [readings EXCEPT ![j.id] =
                              IF Current(j) THEN [task |-> 0, of |-> j.of] ELSE NoReading]
      /\ UNCHANGED <<stored, def, rows, lease, pending, queued, tests, job, copying, inbox, launch,
                     session, count, orphans>>
  BY DEF ReadingAnswered, runtime
<1>2. j.id \in Profiles /\ j.of \in Nat
  BY <1>1 DEF Inv, Asking, Work
<1>3. [task |-> 0, of |-> j.of] \in Tasks /\ NoReading \in Tasks
  BY <1>2 DEF Tasks, NoReading
<1>4. Asking'
  BY <1>1, <1>2, <1>3 DEF Inv, Asking
<1>5. Stores' /\ Marker' /\ Counts' /\ (Exclusive' => Exclusive)
  BY <1>1 DEF Inv, Stores, Marker, Counts, Exclusive
<1>6. QED
  BY <1>1, <1>4, <1>5, AsideKeeps

-----------------------------------------------------------------------------
(* Sending starts.                                                          *)

\* Any order of a set names each of its members once.
LEMMA OrderFacts ==
    ASSUME NEW D \in SUBSET Profiles, NEW order \in SetToSeqs(D)
    PROVE  /\ order \in Seq(D) /\ Len(order) \in Nat
           /\ \A i, j \in 1..Len(order) : i # j => order[i] # order[j]
<1>1. Cardinality(D) \in Nat
  BY WindowAssumption, FS_Subset, FS_CardinalityType
<1>2. /\ order \in [1..Cardinality(D) -> D]
      /\ \A i, j \in 1..Cardinality(D) : i # j => order[i] # order[j]
  BY DEF SetToSeqs
<1>3. order \in Seq(D) /\ Len(order) = Cardinality(D)
  BY <1>1, <1>2
<1>4. QED
  BY <1>1, <1>2, <1>3

\* What the channel takes of them.
Sent(able) == IF Len(able) <= Room THEN able ELSE SubSeq(able, 1, Room)

LEMMA SentFacts ==
    ASSUME Inv, NEW D \in SUBSET Profiles, NEW able \in SetToSeqs(D)
    PROVE  /\ Sent(able) \in Seq(D) /\ Len(Sent(able)) \in Nat
           /\ Len(inbox) + Len(Sent(able)) <= QueueCap
           /\ \A i \in 1..Len(Sent(able)) : Sent(able)[i] \in D
           /\ \A i, j \in 1..Len(Sent(able)) : i # j => Sent(able)[i] # Sent(able)[j]
           /\ Range(Sent(able)) \subseteq D
           /\ \A p \in Range(Sent(able)) : \E i \in 1..Len(Sent(able)) : Sent(able)[i] = p
           /\ \A i \in 1..Len(Sent(able)) : Sent(able)[i] \in Range(Sent(able))
<1>1. /\ able \in Seq(D) /\ Len(able) \in Nat
      /\ \A i, j \in 1..Len(able) : i # j => able[i] # able[j]
  BY OrderFacts
<1>2. Room \in Nat /\ Len(inbox) \in Nat /\ Len(inbox) + Room = QueueCap
  BY WindowAssumption DEF Inv, Channel, Room
<1>3. CASE Len(able) <= Room
  <2>1. Sent(able) = able
    BY <1>3 DEF Sent
  <2>2. QED
    BY <1>1, <1>2, <1>3, <2>1 DEF Range
<1>4. CASE ~(Len(able) <= Room)
  <2>1. Sent(able) = SubSeq(able, 1, Room) /\ Room < Len(able)
    BY <1>1, <1>2, <1>4 DEF Sent
  <2>2. /\ SubSeq(able, 1, Room) \in Seq(D) /\ Len(SubSeq(able, 1, Room)) = Room
        /\ \A i \in 1..Room : SubSeq(able, 1, Room)[i] = able[i]
    BY <1>1, <1>2, <2>1
  <2>3. \A i \in 1..Room : i \in 1..Len(able) /\ able[i] \in D
    BY <1>1, <1>2, <2>1
  <2>4. DOMAIN Sent(able) = 1..Room /\ Len(Sent(able)) = Room /\ Sent(able) \in Seq(D)
    BY <1>2, <2>1, <2>2
  <2>5. \A i \in 1..Room : Sent(able)[i] = able[i]
    BY <2>1, <2>2
  <2>6. \A i \in 1..Room : Sent(able)[i] \in D
    BY <2>3, <2>5
  <2>7. \A i, j \in 1..Room : i # j => Sent(able)[i] # Sent(able)[j]
    BY <1>1, <2>3, <2>5
  <2>8. Range(Sent(able)) = {Sent(able)[i] : i \in 1..Room}
    BY <2>4 DEF Range
  <2>9. QED
    BY <1>2, <2>4, <2>6, <2>7, <2>8
<1>5. QED
  BY <1>3, <1>4

\* Everything a sending changes, under names of its own.
SendsAs(S, how, asked, sent, number) ==
    /\ count' = [count EXCEPT !.starts = @ + Len(sent)]
    /\ inbox' = inbox \o [i \in 1..Len(sent) |->
           [kind |-> how[sent[i]], id |-> sent[i], request |-> number[sent[i]],
            through |-> Through(sent[i]), asked |-> asked]]
    /\ readings' = [p \in Profiles |-> IF p \in Range(sent) /\ how[p] = "restart"
                                       THEN NoReading ELSE readings[p]]
    /\ Refreshed(Without(pending, S),
                 [p \in Profiles |-> IF p \in Range(sent) THEN number[p] ELSE queued[p]],
                 Freed([p \in Profiles |-> IF p \in S THEN "starting" ELSE lease[p]],
                       S \ Range(sent)))

LEMMA SendFacts ==
    ASSUME Inv, NEW S \in SUBSET Profiles, NEW how, NEW asked, Send(S, how, asked)
    PROVE  \E sent \in Seq(S) : \E number :
              /\ SendsAs(S, how, asked, sent, number)
              /\ Len(sent) \in Nat /\ Len(inbox) + Len(sent) <= QueueCap
              /\ \A i \in 1..Len(sent) : sent[i] \in S \cap DOMAIN stored
              /\ \A i, j \in 1..Len(sent) : i # j => sent[i] # sent[j]
              /\ Range(sent) \subseteq S \cap DOMAIN stored
              /\ \A i \in 1..Len(sent) : sent[i] \in Range(sent)
              /\ \A p \in Range(sent) : /\ number[p] \in Nat /\ count.starts < number[p]
                                        /\ number[p] <= count.starts + Len(sent)
<1> DEFINE D == {p \in S : Launchable(p)}
<1>1. PICK able \in SetToSeqs(D) :
        SendsAs(S, how, asked, Sent(able),
                [p \in Range(Sent(able)) |->
                    count.starts + CHOOSE i \in 1..Len(Sent(able)) : Sent(able)[i] = p])
  BY DEF Send, SendsAs, Sent
<1>2. D \in SUBSET Profiles /\ D \subseteq S \cap DOMAIN stored
  BY DEF Launchable
<1> HIDE DEF D
<1> DEFINE sent == Sent(able)
           number == [p \in Range(sent) |->
                         count.starts + CHOOSE i \in 1..Len(sent) : sent[i] = p]
<1>3. /\ sent \in Seq(D) /\ Len(sent) \in Nat
      /\ Len(inbox) + Len(sent) <= QueueCap
      /\ \A i \in 1..Len(sent) : sent[i] \in D
      /\ \A i, j \in 1..Len(sent) : i # j => sent[i] # sent[j]
      /\ Range(sent) \subseteq D
      /\ \A p \in Range(sent) : \E i \in 1..Len(sent) : sent[i] = p
      /\ \A i \in 1..Len(sent) : sent[i] \in Range(sent)
  BY <1>2, SentFacts
<1>4. SendsAs(S, how, asked, sent, number)
  BY <1>1
<1> HIDE DEF sent
<1>5. count.starts \in Nat
  BY DEF Inv, Counts
<1>6. ASSUME NEW p \in Range(sent)
      PROVE  /\ number[p] \in Nat /\ count.starts < number[p]
             /\ number[p] <= count.starts + Len(sent)
  <2>1. (CHOOSE i \in 1..Len(sent) : sent[i] = p) \in 1..Len(sent)
    BY <1>3
  <2>2. number[p] = count.starts + CHOOSE i \in 1..Len(sent) : sent[i] = p
    BY <1>6
  <2>3. \A i \in 1..Len(sent) : i \in Nat /\ 0 < i /\ i <= Len(sent)
    BY <1>3
  <2>4. QED
    BY <1>3, <1>5, <2>1, <2>2, <2>3
<1> HIDE DEF number
<1>7. sent \in Seq(S)
  BY <1>2, <1>3
<1>8. QED
  BY <1>2, <1>3, <1>4, <1>6, <1>7

\* One sequence after another.
LEMMA Joined ==
    ASSUME NEW T, NEW s \in Seq(T), NEW t \in Seq(T)
    PROVE  /\ s \o t \in Seq(T) /\ Len(s \o t) = Len(s) + Len(t)
           /\ Len(s) \in Nat /\ Len(t) \in Nat
           /\ \A i \in 1..(Len(s) + Len(t)) :
                 \/ i \in 1..Len(s) /\ (s \o t)[i] = s[i]
                 \/ i - Len(s) \in 1..Len(t) /\ i \notin 1..Len(s) /\ (s \o t)[i] = t[i - Len(s)]
OBVIOUS

\* A sending queues what the channel takes and gives the rest back.
LEMMA SendKeeps ==
    ASSUME Inv, NEW S \in SUBSET Profiles, NEW how \in [S -> Hows], NEW asked \in Tested,
           Send(S, how, asked),
           \A p \in S : queued[p] = 0 /\ p \notin copying, Exclusive => S = {},
           tests' \in [Proxies -> Nat], jobs' \subseteq Work,
           UNCHANGED <<stored, def, rows, job, copying, launch, session, orphans>>
    PROVE  Inv'
<1>1. PICK sent \in Seq(S) : \E number :
              /\ SendsAs(S, how, asked, sent, number)
              /\ Len(sent) \in Nat /\ Len(inbox) + Len(sent) <= QueueCap
              /\ \A i \in 1..Len(sent) : sent[i] \in S \cap DOMAIN stored
              /\ \A i, j \in 1..Len(sent) : i # j => sent[i] # sent[j]
              /\ Range(sent) \subseteq S \cap DOMAIN stored
              /\ \A i \in 1..Len(sent) : sent[i] \in Range(sent)
              /\ \A p \in Range(sent) : /\ number[p] \in Nat /\ count.starts < number[p]
                                        /\ number[p] <= count.starts + Len(sent)
  BY SendFacts
<1>2. PICK number :
              /\ SendsAs(S, how, asked, sent, number)
              /\ Len(sent) \in Nat /\ Len(inbox) + Len(sent) <= QueueCap
              /\ \A i \in 1..Len(sent) : sent[i] \in S \cap DOMAIN stored
              /\ \A i, j \in 1..Len(sent) : i # j => sent[i] # sent[j]
              /\ Range(sent) \subseteq S \cap DOMAIN stored
              /\ \A i \in 1..Len(sent) : sent[i] \in Range(sent)
              /\ \A p \in Range(sent) : /\ number[p] \in Nat /\ count.starts < number[p]
                                        /\ number[p] <= count.starts + Len(sent)
  BY <1>1
<1> DEFINE R == Range(sent)
           pe == Without(pending, S)
           qu == [p \in Profiles |-> IF p \in R THEN number[p] ELSE queued[p]]
           le == Freed([p \in Profiles |-> IF p \in S THEN "starting" ELSE lease[p]], S \ R)
           news == [i \in 1..Len(sent) |->
                       [kind |-> how[sent[i]], id |-> sent[i], request |-> number[sent[i]],
                        through |-> Through(sent[i]), asked |-> asked]]
<1>3. count' = [count EXCEPT !.starts = @ + Len(sent)]
  BY <1>2 DEF SendsAs
<1>4. inbox' = inbox \o news
  BY <1>2 DEF SendsAs
<1>5. readings' = [p \in Profiles |-> IF p \in R /\ how[p] = "restart"
                                             THEN NoReading ELSE readings[p]]
  BY <1>2 DEF SendsAs
<1>6. Refreshed(pe, qu, le)
  BY <1>2 DEF SendsAs
<1>7. Len(sent) \in Nat /\ Len(inbox) + Len(sent) <= QueueCap
  BY <1>2
<1>8. \A i, j \in 1..Len(sent) : i # j => sent[i] # sent[j]
  BY <1>2
<1>9. /\ \A p \in R : p \in S /\ p \in Profiles /\ p \in DOMAIN stored
      /\ \A p \in R : number[p] \in Nat /\ count.starts < number[p]
                      /\ number[p] <= count.starts + Len(sent)
      /\ \A i \in 1..Len(sent) : sent[i] \in R
  BY <1>2
<1>10. count.starts \in Nat /\ count \in [starts : Nat, tests : Nat, readings : Nat]
  BY DEF Inv, Counts
<1>11. /\ count' \in [starts : Nat, tests : Nat, readings : Nat]
       /\ count'.starts = count.starts + Len(sent) /\ count.starts <= count'.starts
  BY <1>7, <1>3, <1>10
<1>12. NoPending \in Checks /\ NoPending.proxy = Direct /\ NoReading \in Tasks
  BY DEF NoPending, Checks, Exits, Hows, NoReading, Tasks
<1>13. /\ \A p \in Profiles : pe[p] = IF p \in S THEN NoPending ELSE pending[p]
       /\ \A p \in Profiles : qu[p] = IF p \in R THEN number[p] ELSE queued[p]
       /\ \A p \in Profiles : le[p] = IF p \in S THEN IF p \in R THEN "starting" ELSE "none"
                                      ELSE lease[p]
       /\ pe \in [Profiles -> Checks] /\ qu \in [Profiles -> Nat] /\ le \in [Profiles -> Leases]
  BY <1>9, <1>12, Held DEF Without, Freed, Leases
<1>14. /\ news \in Seq(Commands) /\ Len(news) = Len(sent)
       /\ \A i \in 1..Len(sent) : /\ news[i] \in Commands /\ news[i].id = sent[i]
                                  /\ news[i].request = number[sent[i]]
  <2>1. ASSUME NEW i \in 1..Len(sent)
        PROVE  news[i] \in Commands /\ news[i].id = sent[i] /\ news[i].request = number[sent[i]]
    <3>1. sent[i] \in S /\ sent[i] \in Profiles /\ sent[i] \in DOMAIN stored
          /\ how[sent[i]] \in Hows /\ number[sent[i]] \in Nat
      BY <1>9
    <3>2. stored[sent[i]] \in Exits
      BY <3>1, ConfigurationFacts DEF Inv, Stores
    <3>3. Through(sent[i]) \in Tested
      BY <3>2 DEF Through, Tested, Exits, Inv, Stores
    <3>4. QED
      BY <3>1, <3>3 DEF Commands
  <2>2. news \in [1..Len(sent) -> Commands]
    BY <2>1
  <2>3. QED
    BY <1>2, <2>1, <2>2
<1> HIDE DEF R, pe, qu, le, news
<1>15. Matches(pe, qu, le)
  <2> SUFFICES ASSUME NEW p \in Profiles
               PROVE  /\ le[p] = "starting" <=> pe[p].proxy # Direct \/ qu[p] # 0
                      /\ le[p] = "copying" <=> p \in copying
                      /\ ~(pe[p].proxy # Direct /\ qu[p] # 0)
    BY DEF Matches
  <2>1. /\ lease[p] = "starting" <=> pending[p].proxy # Direct \/ queued[p] # 0
        /\ lease[p] = "copying" <=> p \in copying
        /\ ~(pending[p].proxy # Direct /\ queued[p] # 0)
    BY Held DEF Matches
  <2>2. CASE p \in S
    <3>1. p \in R => number[p] # 0
      BY <1>9, <1>10
    <3>2. QED
      BY <1>9, <1>12, <1>13, <2>2, <3>1
  <2>3. CASE p \notin S
    BY <1>9, <1>13, <2>1, <2>3
  <2>4. QED
    BY <2>2, <2>3
<1>16. /\ Holds' /\ Matches(pending, queued, lease)'
       /\ \A p \in Profiles :
             /\ \/ queued'[p] = qu[p]
                \/ queued'[p] = 0 /\ p \in DOMAIN rows /\ session[p].ack >= qu[p] /\ qu[p] # 0
             /\ lease'[p] = le[p] \/ lease'[p] = "none"
  <2>1. Holds /\ copying' = copying
    BY DEF Inv
  <2>2. PICK e \in [Profiles -> Checks], n \in [Profiles -> Nat], l \in [Profiles -> Leases] :
            e = pe /\ n = qu /\ l = le
    BY <1>13
  <2>3. Matches(e, n, l) /\ Refreshed(e, n, l)
    BY <1>6, <1>15, <2>2
  <2>4. Outcome(n, l)
    BY <2>1, <2>3, RefreshedOutcome
  <2>5. QED
    BY <2>2, <2>4 DEF Outcome
<1>17. \A p \in R : queued'[p] = number[p]
  <2> SUFFICES ASSUME NEW p \in R PROVE ~(session[p].ack >= qu[p])
    BY <1>9, <1>13, <1>16
  <2>1. session[p].ack \in Nat /\ session[p].ack <= count.starts
    BY <1>9, SnapshotFacts DEF Inv, Numbered
  <2>2. QED
    BY <1>9, <1>10, <1>13, <2>1
<1>18. \A p \in Profiles \ R :
          \/ queued'[p] = queued[p]
          \/ queued'[p] = 0 /\ p \in DOMAIN rows /\ session[p].ack >= queued[p]
  BY <1>13, <1>16
<1>19. Channel'
  <2>1. inbox \in Seq(Commands) /\ Len(inbox) \in Nat
    BY DEF Inv, Channel
  <2>2. inbox' \in Seq(Commands) /\ Len(inbox') = Len(inbox) + Len(sent)
    BY <1>4, <1>7, <1>14, <2>1, Joined
  <2>3. QED
    BY <1>7, <2>2 DEF Inv, Channel
<1>20. Stores' /\ Asking' /\ Marker' /\ Published' /\ Counts'
  <2>1. readings' \in [Profiles -> Tasks]
    BY <1>5, <1>12 DEF Inv, Asking
  <2>2. QED
    BY <1>11, <2>1 DEF Inv, Stores, Asking, Marker, Published, Counts
<1>21. Commanded'
  <2>1. /\ Len(inbox) \in Nat /\ Len(inbox') = Len(inbox) + Len(sent)
        /\ \A i \in 1..Len(inbox') :
              \/ i \in 1..Len(inbox) /\ inbox'[i] = inbox[i]
              \/ i - Len(inbox) \in 1..Len(sent) /\ i \notin 1..Len(inbox)
                 /\ inbox'[i] = news[i - Len(inbox)]
    <3>1. inbox \in Seq(Commands) /\ news \in Seq(Commands) /\ Len(news) = Len(sent)
      BY <1>14 DEF Inv, Channel
    <3>2. /\ Len(inbox \o news) = Len(inbox) + Len(news) /\ Len(inbox) \in Nat
          /\ \A i \in 1..(Len(inbox) + Len(news)) :
                \/ i \in 1..Len(inbox) /\ (inbox \o news)[i] = inbox[i]
                \/ i - Len(inbox) \in 1..Len(news) /\ i \notin 1..Len(inbox)
                   /\ (inbox \o news)[i] = news[i - Len(inbox)]
      BY <3>1, Joined
    <3>3. QED
      BY <1>4, <3>1, <3>2
  <2>2. ASSUME NEW c \in Commands, Opens(c), Due(c)
        PROVE  /\ c.id \notin S /\ queued'[c.id] = c.request
               /\ session[c.id].ack < c.request
    <3>1. c.id \in Profiles /\ queued[c.id] # 0
      BY <2>2, DueIsQueued
    <3>2. c.id \notin S /\ c.id \notin R
      BY <1>9, <3>1
    <3>3. session[c.id].ack < queued[c.id] /\ session[c.id].ack \in Nat /\ queued[c.id] \in Nat
      BY <2>2, <3>1, SnapshotFacts, HoldFacts DEF Due, Inv
    <3>4. queued'[c.id] = queued[c.id]
      BY <1>18, <3>1, <3>2, <3>3
    <3>5. QED
      BY <2>2, <3>2, <3>4 DEF Due
  <2>3. ASSUME NEW i \in 1..Len(sent)
        PROVE  /\ news[i].id \in S /\ queued'[news[i].id] = news[i].request
               /\ session[news[i].id].ack < news[i].request
    <3>1. sent[i] \in R /\ sent[i] \in Profiles /\ sent[i] \in S
      BY <1>9
    <3>2. session[sent[i]].ack \in Nat /\ session[sent[i]].ack <= count.starts
      BY <3>1, SnapshotFacts DEF Inv, Numbered
    <3>3. count.starts < number[sent[i]] /\ number[sent[i]] \in Nat
      BY <1>9, <3>1
    <3>4. session[sent[i]].ack < number[sent[i]]
      BY <1>10, <3>2, <3>3
    <3>5. QED
      BY <1>14, <1>17, <3>1, <3>4
  <2>4. \A i \in 1..Len(inbox) : inbox[i] \in Commands /\ (Opens(inbox[i]) => Due(inbox[i]))
    BY InboxFacts DEF Inv, Commanded
  <2>5. \A i \in 1..Len(inbox') : Opens(inbox'[i]) =>
             /\ queued'[inbox'[i].id] = inbox'[i].request
             /\ session[inbox'[i].id].ack < inbox'[i].request
    <3> SUFFICES ASSUME NEW i \in 1..Len(inbox'), Opens(inbox'[i])
                 PROVE  /\ queued'[inbox'[i].id] = inbox'[i].request
                        /\ session[inbox'[i].id].ack < inbox'[i].request
      OBVIOUS
    <3>1. CASE i \in 1..Len(inbox) /\ inbox'[i] = inbox[i]
      BY <2>2, <2>4, <3>1
    <3>2. CASE i - Len(inbox) \in 1..Len(sent) /\ inbox'[i] = news[i - Len(inbox)]
      BY <2>3, <3>2
    <3>3. QED
      BY <2>1, <3>1, <3>2
  <2>6. ASSUME NEW i \in 1..Len(inbox'), NEW j \in 1..Len(inbox'), i # j,
               Opens(inbox'[i]), Opens(inbox'[j])
        PROVE  inbox'[i].id # inbox'[j].id
    <3>1. CASE i \in 1..Len(inbox) /\ j \in 1..Len(inbox)
      BY <2>1, <2>6, <3>1 DEF Inv, Commanded
    <3>2. \A k \in 1..Len(inbox') : Opens(inbox'[k]) =>
             (inbox'[k].id \in S <=> k \notin 1..Len(inbox))
      <4> SUFFICES ASSUME NEW k \in 1..Len(inbox'), Opens(inbox'[k])
                   PROVE  inbox'[k].id \in S <=> k \notin 1..Len(inbox)
        OBVIOUS
      <4>1. CASE k \in 1..Len(inbox) /\ inbox'[k] = inbox[k]
        BY <2>2, <2>4, <4>1
      <4>2. CASE k - Len(inbox) \in 1..Len(sent) /\ k \notin 1..Len(inbox)
                 /\ inbox'[k] = news[k - Len(inbox)]
        BY <2>3, <4>2
      <4>3. QED
        BY <2>1, <4>1, <4>2
    <3>3. CASE (i \in 1..Len(inbox)) # (j \in 1..Len(inbox))
      BY <2>6, <3>2, <3>3
    <3>4. CASE i \notin 1..Len(inbox) /\ j \notin 1..Len(inbox)
      <4>1. /\ i - Len(inbox) \in 1..Len(sent) /\ j - Len(inbox) \in 1..Len(sent)
            /\ i - Len(inbox) # j - Len(inbox)
            /\ inbox'[i] = news[i - Len(inbox)] /\ inbox'[j] = news[j - Len(inbox)]
        BY <1>7, <2>1, <2>6, <3>4
      <4>2. QED
        BY <1>8, <1>14, <4>1
    <3>5. QED
      BY <3>1, <3>2, <3>3, <3>4
  <2>7. launch # None =>
          /\ Opens(launch) /\ queued'[launch.id] = launch.request
          /\ session[launch.id].ack < launch.request
          /\ \A i \in 1..Len(inbox') : Opens(inbox'[i]) => inbox'[i].id # launch.id
    BY <2>1, <2>2, <2>3, InboxFacts DEF Inv, Commanded
  <2>8. QED
    BY <2>5, <2>6, <2>7 DEF Commanded, Due
<1>22. Numbered'
  <2> SUFFICES ASSUME NEW p \in Profiles
               PROVE  queued'[p] <= count'.starts /\ session[p].ack <= count'.starts
    BY DEF Numbered
  <2>1. queued[p] \in Nat /\ queued[p] <= count.starts /\ session[p].ack \in Nat
        /\ session[p].ack <= count.starts
    BY HoldFacts, SnapshotFacts DEF Inv, Numbered
  <2>2. QED
    BY <1>9, <1>10, <1>11, <1>17, <1>18, <2>1
<1>23. Visible'
  BY <1>9, <1>17, <1>18, <1>10 DEF Inv, Visible
<1>24. Alone'
  <2>1. Exclusive' = Exclusive
    BY DEF Exclusive
  <2>2. Exclusive => \A p \in Profiles : lease'[p] = "none"
    BY <1>13, <1>16 DEF Inv, Alone
  <2>3. QED
    BY <2>1, <2>2 DEF Inv, Alone
<1>25. QED
  BY <1>16, <1>19, <1>20, <1>21, <1>22, <1>23, <1>24 DEF Inv

-----------------------------------------------------------------------------
(* Opening a profile.                                                       *)

LEMMA OpenDirectKeeps ==
    ASSUME Inv, NEW p \in Profiles, NEW how \in Hows, OpenDirect(p, how)
    PROVE  Inv'
<1>1. /\ MayStart(p) /\ Send({p}, [q \in {p} |-> how], Unasked)
      /\ UNCHANGED <<stored, def, rows, tests, job, jobs, copying, launch, session, orphans>>
  BY DEF OpenDirect
<1>2. [q \in {p} |-> how] \in [{p} -> Hows] /\ Unasked \in Tested
  BY DEF Unasked, Tested, Exits
<1>3. queued[p] = 0 /\ p \notin copying /\ ~Exclusive
  BY <1>1, Held DEF Matches, MayStart
<1>4. tests' \in [Proxies -> Nat] /\ jobs' \subseteq Work
  BY <1>1 DEF Inv, Asking
<1>5. \A q \in {p} : queued[q] = 0 /\ q \notin copying
  BY <1>3
<1>6. QED
  BY <1>1, <1>2, <1>3, <1>4, <1>5, SendKeeps

LEMMA OpenProxiedKeeps ==
    ASSUME Inv, NEW p \in Profiles, NEW how \in Hows, OpenProxied(p, how)
    PROVE  Inv'
<1>1. /\ MayStart(p) /\ p \in DOMAIN rows /\ rows[p] # Direct
      /\ (tests[rows[p]] # 0 /\ UNCHANGED <<tests, jobs, count>>) \/ BeginTest(rows[p])
      /\ pending' = [pending EXCEPT ![p] = [proxy |-> rows[p], how |-> how]]
      /\ lease' = [lease EXCEPT ![p] = "starting"]
      /\ UNCHANGED <<stored, def, rows, queued, readings, job, copying, inbox, launch, session,
                     orphans>>
  BY DEF OpenProxied, runtime
<1>2. rows[p] \in Proxies /\ [proxy |-> rows[p], how |-> how] \in Checks
  BY <1>1, ConfigurationFacts DEF Inv, Stores, Exits, Checks
<1>3. Asking' /\ Counts' /\ count'.starts = count.starts
  <2>1. CASE UNCHANGED <<tests, jobs, count>>
    BY <1>1, <2>1 DEF Inv, Asking, Counts
  <2>2. CASE BeginTest(rows[p])
    BY <1>1, <1>2, <2>2, BeginTestFacts
  <2>3. QED
    BY <1>1, <2>1, <2>2
<1>4. lease[p] = "none" /\ ~Exclusive
  BY <1>1 DEF MayStart
<1>5. Holds'
  BY <1>1, <1>2 DEF Inv, Holds, Leases
<1>6. Matches(pending, queued, lease)'
  <2> SUFFICES ASSUME NEW q \in Profiles
               PROVE  /\ lease'[q] = "starting" <=> pending'[q].proxy # Direct \/ queued[q] # 0
                      /\ lease'[q] = "copying" <=> q \in copying
                      /\ ~(pending'[q].proxy # Direct /\ queued[q] # 0)
    BY <1>1 DEF Matches
  <2>1. /\ lease[q] = "starting" <=> pending[q].proxy # Direct \/ queued[q] # 0
        /\ lease[q] = "copying" <=> q \in copying
        /\ ~(pending[q].proxy # Direct /\ queued[q] # 0)
    BY Held DEF Matches
  <2>2. CASE q = p
    <3>1. pending'[q].proxy = rows[p] /\ lease'[q] = "starting"
      BY <1>1, <2>2 DEF Inv, Holds
    <3>2. QED
      BY <1>1, <1>4, <2>1, <2>2, <3>1
  <2>3. CASE q # p
    BY <1>1, <2>1, <2>3 DEF Inv, Holds
  <2>4. QED
    BY <2>2, <2>3
<1>7. Stores' /\ Marker' /\ ~Exclusive'
  BY <1>1, <1>4 DEF Inv, Stores, Marker, Exclusive
<1>8. count.starts <= count'.starts
  BY <1>3 DEF Inv, Counts
<1>9. Settles
  BY <1>1, <1>3, <1>5, <1>6, <1>7, <1>8 DEF Settles
<1>10. QED
  BY <1>1, <1>9, SettlesKeeps

\* The answer of a test decides the starts that waited for it, and no others.
LEMMA TestAnsweredKeeps ==
    ASSUME Inv, NEW j \in jobs, TestAnswered(j)
    PROVE  Inv'
<1> DEFINE waiting == {p \in Profiles : pending[p].proxy = j.proxy}
<1>1. /\ j.kind = "test" /\ jobs' = jobs \ {j}
      /\ \/ UNCHANGED <<pending, queued, lease, tests, readings, count, inbox>>
         \/ /\ tests' = [tests EXCEPT ![j.proxy] = 0]
            /\ \/ Send(waiting, [p \in waiting |-> pending[p].how], j.asked)
               \/ /\ pending' = Without(pending, waiting) /\ lease' = Freed(lease, waiting)
                  /\ UNCHANGED <<queued, readings, count, inbox>>
      /\ UNCHANGED <<stored, def, rows, job, copying, launch, session, orphans>>
  BY DEF TestAnswered
<1>2. j.proxy \in Proxies /\ j.asked \in Tested
  BY <1>1 DEF Inv, Asking, Work
<1>3. jobs' \subseteq Work
  BY <1>1 DEF Inv, Asking
<1>4. Stores' /\ Marker' /\ Exclusive' = Exclusive
  BY <1>1 DEF Inv, Stores, Marker, Exclusive
<1>5. CASE UNCHANGED <<pending, queued, lease, tests, readings, count, inbox>>
  <2>1. Asking' /\ Counts' /\ count'.starts = count.starts
    BY <1>1, <1>3, <1>5 DEF Inv, Asking, Counts
  <2>2. QED
    BY <1>1, <1>4, <1>5, <2>1, AsideKeeps
<1>6. ASSUME tests' = [tests EXCEPT ![j.proxy] = 0]
      PROVE  tests' \in [Proxies -> Nat]
  BY <1>6 DEF Inv, Asking
<1>7. waiting \in SUBSET Profiles /\ \A p \in waiting : pending[p].proxy # Direct
  BY <1>2, WindowAssumption
<1>8. CASE /\ tests' = [tests EXCEPT ![j.proxy] = 0]
           /\ Send(waiting, [p \in waiting |-> pending[p].how], j.asked)
  <2>1. \A p \in waiting : queued[p] = 0 /\ p \notin copying /\ lease[p] # "none"
    BY <1>7, Held DEF Matches
  <2>2. Exclusive => waiting = {}
    BY <1>7, <2>1 DEF Inv, Alone
  <2>3. [p \in waiting |-> pending[p].how] \in [waiting -> Hows]
    BY <1>7, HoldFacts DEF Inv
  <2> HIDE DEF waiting
  <2>4. QED
    BY <1>1, <1>2, <1>3, <1>6, <1>7, <1>8, <2>1, <2>2, <2>3, SendKeeps
<1>9. CASE /\ tests' = [tests EXCEPT ![j.proxy] = 0]
           /\ pending' = Without(pending, waiting) /\ lease' = Freed(lease, waiting)
           /\ UNCHANGED <<queued, readings, count, inbox>>
  <2>1. Asking' /\ Counts'
    BY <1>1, <1>3, <1>6, <1>9 DEF Inv, Asking, Counts
  <2> HIDE DEF waiting
  <2>2. QED
    BY <1>1, <1>4, <1>7, <1>9, <2>1, CallOffSettles
<1>10. QED
  BY <1>1, <1>5, <1>8, <1>9

LEMMA OnStopKeeps ==
    ASSUME Inv, NEW p \in Profiles, OnStop(p)
    PROVE  Inv'
<1>1. UNCHANGED <<stored, def, rows, tests, job, jobs, copying, launch, session, count, orphans>>
  BY DEF OnStop
<1>2. Stores' /\ Marker' /\ Counts' /\ Exclusive' = Exclusive
  BY <1>1 DEF Inv, Stores, Marker, Counts, Exclusive
<1>3. CASE /\ p \in Waiting
           /\ Refreshed(Without(pending, {p}), queued, Freed(lease, {p}))
           /\ UNCHANGED <<readings, inbox>>
  <2>1. Asking'
    BY <1>1, <1>3 DEF Inv, Asking
  <2>2. PICK S \in SUBSET Profiles : S = {p}
    OBVIOUS
  <2>3. \A q \in S : pending[q].proxy # Direct
    BY <1>3, <2>2 DEF Waiting
  <2>4. PICK pe, le : pe = Without(pending, S) /\ le = Freed(lease, S)
    OBVIOUS
  <2>5. /\ pe \in [Profiles -> Checks] /\ le \in [Profiles -> Leases] /\ Matches(pe, queued, le)
        /\ \A q \in Profiles : le[q] = lease[q] \/ le[q] = "none"
    BY <2>3, <2>4, CalledOff
  <2>6. Refreshed(pe, queued, le)
    BY <1>3, <2>2, <2>4
  <2>7. QED
    BY <1>1, <1>2, <1>3, <2>1, <2>5, <2>6, RefreshSettles
<1>4. CASE /\ p \notin Waiting /\ Room > 0
           /\ inbox' = Append(inbox, [kind |-> "stop", id |-> p])
           /\ readings' = [readings EXCEPT ![p] = NoReading]
           /\ Refreshed(pending, queued, lease)
  <2>1. Asking'
    BY <1>1, <1>4 DEF Inv, Asking, NoReading, Tasks
  <2>2. Outcome(queued, lease)
    BY <1>1, <1>4, Held, RefreshedOutcome DEF Inv
  <2>3. /\ Len(inbox) \in Nat /\ inbox \in Seq(Commands)
        /\ Len(inbox) + 1 <= QueueCap /\ QueueCap \in Nat
    BY <1>4, WindowAssumption DEF Inv, Channel, Room
  <2>4. [kind |-> "stop", id |-> p] \in Commands /\ ~Opens([kind |-> "stop", id |-> p])
    BY DEF Commands, Opens, Hows
  <2>5. /\ inbox' \in Seq(Commands) /\ Len(inbox') = Len(inbox) + 1
        /\ \A i \in 1..Len(inbox') :
              \/ i \in 1..Len(inbox) /\ inbox'[i] = inbox[i]
              \/ ~Opens(inbox'[i])
    BY <1>4, <2>3, <2>4
  <2>6. Channel'
    BY <1>1, <2>3, <2>5 DEF Inv, Channel
  <2>7. count.starts <= count'.starts
    BY <1>1 DEF Inv, Counts
  <2>8. \A c \in Commands : Opens(c) /\ Due(c) => Due(c)'
    BY <1>1, <1>2, <2>2, <2>7, StartsKept DEF Outcome
  <2>9. Commanded'
    BY <1>1, <2>5, <2>8, InboxFacts DEF Inv, Commanded
  <2>10. Exclusive' =>
            /\ copying' = {}
            /\ \A q \in Profiles : lease'[q] = "none"
                                   /\ (q \notin orphans' => session[q].state = "down")
    BY <1>1, <1>2, <2>2 DEF Inv, Alone, Outcome
  <2>11. Settles
    BY <1>1, <1>2, <2>1, <2>2, <2>7, <2>10 DEF Settles, Outcome
  <2>12. QED
    BY <2>6, <2>9, <2>11, SettlesKeeps
<1>5. QED
  BY <1>3, <1>4 DEF OnStop

-----------------------------------------------------------------------------
(* Records.                                                                 *)

\* A profile is deleted, its lease with it when it only waited; one whose browser
\* runs goes out of sight.
LEMMA OnDeleteKeeps ==
    ASSUME Inv, NEW p \in Profiles, OnDelete(p)
    PROVE  Inv'
<1>1. /\ p \in DOMAIN stored /\ ~Exclusive /\ queued[p] = 0
      /\ stored' = Restrict(stored, DOMAIN stored \ {p}) /\ rows' = stored'
      /\ readings' = [readings EXCEPT ![p] = NoReading]
      /\ Refreshed(Without(pending, {p}), queued, IF p \in Waiting THEN Freed(lease, {p}) ELSE lease)
      /\ orphans' = IF session[p].state = "down" THEN orphans ELSE orphans \cup {p}
      /\ UNCHANGED <<def, tests, job, jobs, copying, inbox, launch, session, count>>
  BY DEF OnDelete, Deletable, Queued, runtime
<1>2. DOMAIN stored' = DOMAIN stored \ {p} /\ Stores'
  <2>1. stored' = [q \in DOMAIN stored \ {p} |-> stored[q]]
    BY <1>1 DEF Restrict
  <2>2. DOMAIN stored \ {p} \in SUBSET Profiles /\ stored' \in [DOMAIN stored \ {p} -> Exits]
    BY <2>1, ConfigurationFacts DEF Inv, Stores
  <2>3. stored' \in Configurations
    BY <2>2, IsConfiguration
  <2>4. QED
    BY <1>1, <2>1, <2>3 DEF Inv, Stores
<1>3. Asking' /\ Marker' /\ Counts' /\ Exclusive' = Exclusive
  BY <1>1 DEF Inv, Asking, NoReading, Tasks, Marker, Counts, Exclusive
<1>4. PICK pe, le : /\ pe = Without(pending, {p})
                     /\ le = IF p \in Waiting THEN Freed(lease, {p}) ELSE lease
  OBVIOUS
<1>5. /\ \A q \in Profiles : pe[q] = IF q = p THEN NoPending ELSE pending[q]
      /\ \A q \in Profiles : le[q] = IF q = p /\ p \in Waiting /\ lease[p] = "starting"
                                     THEN "none" ELSE lease[q]
      /\ NoPending \in Checks /\ NoPending.proxy = Direct
  BY <1>4, Held DEF Without, Freed, NoPending, Checks, Exits, Hows
<1>6. pe \in [Profiles -> Checks] /\ le \in [Profiles -> Leases]
  BY <1>4, <1>5, Held DEF Without, Freed, Leases
<1>7. p \in Waiting <=> pending[p].proxy # Direct
  BY DEF Waiting
<1>8. Matches(pe, queued, le)
  BY <1>1, <1>5, <1>7, Held DEF Matches
<1>9. Outcome(queued, le)
  BY <1>1, <1>4, <1>6, <1>8, Held, RefreshedOutcome DEF Inv
<1>10. count.starts <= count'.starts
  BY <1>1 DEF Inv, Counts
<1>11. Channel' /\ Published' /\ Commanded' /\ Numbered'
  BY <1>1, <1>3, <1>9, <1>10, StartsKept DEF Outcome
<1>12. Visible'
  BY <1>1, <1>2, <1>9 DEF Inv, Visible, Outcome
<1>13. Alone'
  BY <1>1, <1>3 DEF Inv, Alone
<1>14. QED
  BY <1>2, <1>3, <1>9, <1>11, <1>12, <1>13 DEF Inv, Outcome

LEMMA OnSaveProfileKeeps ==
    ASSUME Inv, NEW p \in Profiles, NEW x \in Exits, OnSaveProfile(p, x)
    PROVE  Inv'
<1>1. /\ p \in DOMAIN stored /\ stored' = [stored EXCEPT ![p] = x] /\ rows' = stored'
      /\ readings' = [readings EXCEPT ![p] = NoReading]
      /\ Refreshed(pending, queued, lease)
      /\ UNCHANGED <<def, tests, job, jobs, copying, inbox, launch, session, count, orphans>>
  BY DEF OnSaveProfile, runtime
<1>2. DOMAIN stored' = DOMAIN stored /\ Stores'
  <2>1. DOMAIN stored \in SUBSET Profiles /\ stored' \in [DOMAIN stored -> Exits]
    BY <1>1, ConfigurationFacts DEF Inv, Stores, Configurations
  <2>2. QED
    BY <1>1, <2>1, IsConfiguration DEF Inv, Stores
<1>3. Asking' /\ Marker' /\ Counts' /\ Exclusive' = Exclusive
  BY <1>1 DEF Inv, Asking, NoReading, Tasks, Marker, Counts, Exclusive
<1>4. QED
  BY <1>1, <1>2, <1>3, Held, RefreshSettles

\* Forgetting a proxy's test calls off the starts that wait for it.
LEMMA ForgetsKeeps ==
    ASSUME Inv, NEW x \in Proxies, Forgets(x), def' \in [Proxies -> Nat],
           UNCHANGED <<stored, rows, queued, readings, job, jobs, copying, inbox, launch, session,
                       count, orphans>>
    PROVE  Inv'
<1>1. PICK S : S = {p \in Profiles : pending[p].proxy = x}
  OBVIOUS
<1>2. /\ tests' = [tests EXCEPT ![x] = 0]
      /\ pending' = Without(pending, S) /\ lease' = Freed(lease, S)
  BY <1>1 DEF Forgets
<1>3. S \in SUBSET Profiles /\ \A p \in S : pending[p].proxy # Direct
  BY <1>1, WindowAssumption
<1>4. Stores' /\ Asking' /\ Marker' /\ Counts' /\ Exclusive' = Exclusive
  BY <1>2 DEF Inv, Stores, Asking, Marker, Counts, Exclusive
<1>5. QED
  BY <1>2, <1>3, <1>4, CallOffSettles

LEMMA OnSaveProxyKeeps ==
    ASSUME Inv, NEW x \in Proxies, OnSaveProxy(x)
    PROVE  Inv'
<1>1. /\ def' = [def EXCEPT ![x] = @ + 1] /\ Forgets(x)
      /\ UNCHANGED <<stored, rows, queued, readings, job, jobs, copying, inbox, launch, session,
                     count, orphans>>
  BY DEF OnSaveProxy, runtime
<1>2. def' \in [Proxies -> Nat]
  BY <1>1 DEF Inv, Stores
<1>3. QED
  BY <1>1, <1>2, ForgetsKeeps

LEMMA OnDeleteProxyKeeps ==
    ASSUME Inv, NEW x \in Proxies, OnDeleteProxy(x)
    PROVE  Inv'
<1>1. /\ def' = [def EXCEPT ![x] = 0] /\ Forgets(x)
      /\ UNCHANGED <<stored, rows, queued, readings, job, jobs, copying, inbox, launch, session,
                     count, orphans>>
  BY DEF OnDeleteProxy, runtime
<1>2. def' \in [Proxies -> Nat]
  BY <1>1 DEF Inv, Stores
<1>3. QED
  BY <1>1, <1>2, ForgetsKeeps

-----------------------------------------------------------------------------
(* The whole installation.                                                  *)

LEMMA OnImportKeeps ==
    ASSUME Inv, OnImport
    PROVE  Inv'
<1>1. /\ job' = [kind |-> "import", at |-> "worker"]
      /\ UNCHANGED <<stored, def, rows, tests, readings, jobs, copying, inbox, launch, session, count,
                     orphans, lease, pending, queued>>
  BY DEF OnImport, Begins, runtime
<1>2. Stores' /\ Asking' /\ Marker' /\ Counts' /\ ~Exclusive'
  BY <1>1 DEF Inv, Stores, Asking, Marker, Counts, Exclusive
<1>3. QED
  BY <1>1, <1>2, AsideKeeps

\* Where no lease is held, what is idle in the rows is idle: a browser without a
\* row has been out of sight since its profile was deleted, or is queued.
LEMMA IdleFacts ==
    ASSUME Inv, ActiveRows = {}, NEW p \in Profiles, lease[p] = "none", p \notin orphans
    PROVE  session[p].state = "down"
<1>1. queued[p] = 0
  BY Held DEF Matches
<1>2. ASSUME session[p].state # "down"
      PROVE  FALSE
  <2>1. p \in DOMAIN rows
    BY <1>1, <1>2 DEF Inv, Visible
  <2>2. QED
    BY <1>2, <2>1 DEF ActiveRows, Active
<1>3. QED
  BY <1>2

\* A restore that begins finds nothing under way.
LEMMA OnRestoreKeeps ==
    ASSUME Inv, OnRestore
    PROVE  Inv'
<1>1. /\ ActiveRows = {} /\ (\A p \in Profiles : lease[p] = "none") /\ copying = {}
      /\ job' = [kind |-> "restore", at |-> "worker"] /\ Refreshed(pending, queued, lease)
      /\ UNCHANGED <<stored, def, rows, tests, readings, jobs, copying, inbox, launch, session, count,
                     orphans>>
  BY DEF OnRestore, Idle, Shared, Begins, runtime
<1>2. Stores' /\ Asking' /\ Marker' /\ Counts'
  BY <1>1 DEF Inv, Stores, Asking, Marker, Counts
<1>3. Outcome(queued, lease)
  BY <1>1, Held, RefreshedOutcome DEF Inv
<1>4. \A p \in Profiles : lease'[p] = "none" /\ (p \notin orphans' => session[p].state = "down")
  BY <1>1, <1>3, IdleFacts DEF Outcome
<1>5. count.starts <= count'.starts
  BY <1>1 DEF Inv, Counts
<1>6. Settles
  BY <1>1, <1>2, <1>3, <1>4, <1>5 DEF Settles, Outcome
<1>7. QED
  BY <1>1, <1>6, SettlesKeeps

LEMMA ImportAddsKeeps ==
    ASSUME Inv, NEW p \in Profiles, NEW x \in Exits, ImportAdds(p, x)
    PROVE  Inv'
<1>1. /\ p \notin DOMAIN stored
      /\ stored' = [q \in DOMAIN stored \cup {p} |-> IF q = p THEN x ELSE stored[q]]
      /\ UNCHANGED <<def, rows, lease, pending, queued, tests, readings, job, jobs, copying, inbox,
                     launch, session, count, orphans>>
  BY DEF ImportAdds, window, runtime
<1>2. DOMAIN stored' = DOMAIN stored \cup {p} /\ Stores'
  <2>1. /\ DOMAIN stored \cup {p} \in SUBSET Profiles
        /\ stored' \in [DOMAIN stored \cup {p} -> Exits]
    BY <1>1, ConfigurationFacts DEF Inv, Stores
  <2>2. stored' \in Configurations
    BY <2>1, IsConfiguration
  <2>3. QED
    BY <1>1, <2>2 DEF Inv, Stores
<1>3. Asking' /\ Marker' /\ Counts' /\ Exclusive' = Exclusive
  BY <1>1 DEF Inv, Asking, Marker, Counts, Exclusive
<1>4. QED
  BY <1>1, <1>2, <1>3, AsideKeeps

\* A restore replaces every record, and no start is queued for one of them.
LEMMA RunRestoreKeeps ==
    ASSUME Inv, RunRestore
    PROVE  Inv'
<1>1. /\ job = [kind |-> "restore", at |-> "worker"] /\ job' = [job EXCEPT !.at = "answered"]
      /\ stored' \in Configurations /\ def' \in Redefined
      /\ UNCHANGED <<rows, lease, pending, queued, tests, readings, jobs, copying, inbox, launch,
                     session, count, orphans>>
  BY DEF RunRestore, runtime
<1>2. Redefined \subseteq [Proxies -> Nat]
  <2>1. UNION {{0, def[x], def[x] + 1} : x \in Proxies} \subseteq Nat
    BY DEF Inv, Stores
  <2>2. QED
    BY <2>1 DEF Redefined
<1>3. Exclusive /\ ~Exclusive'
  BY <1>1 DEF Exclusive
<1>4. copying = {} /\ \A p \in Profiles :
          queued[p] = 0 /\ (p \notin orphans => session[p].state = "down")
  BY <1>3, Held DEF Inv, Alone, Matches
<1>5. Stores' /\ Holds' /\ Asking' /\ Marker' /\ Counts'
  BY <1>1, <1>2 DEF Inv, Stores, Holds, Asking, Marker, Counts
<1>6. count.starts <= count'.starts
  BY <1>1 DEF Inv, Counts
<1>7. Channel' /\ Published' /\ Commanded' /\ Numbered'
  BY <1>1, <1>5, <1>6, StartsKept
<1>8. Matches(pending, queued, lease)'
  BY <1>1 DEF Inv, Matches
<1>9. Visible' /\ Alone'
  BY <1>1, <1>3, <1>4 DEF Visible, Alone
<1>10. QED
  BY <1>5, <1>7, <1>8, <1>9 DEF Inv

LEMMA WorkDoneKeeps ==
    ASSUME Inv, WorkDone
    PROVE  Inv'
<1>1. /\ job' = [job EXCEPT !.at = "answered"]
      /\ UNCHANGED <<stored, def, rows, lease, pending, queued, tests, readings, jobs, copying, inbox,
                     launch, session, count, orphans>>
  BY DEF WorkDone, runtime
<1>2. Stores' /\ Asking' /\ Marker' /\ Counts' /\ ~Exclusive'
  BY <1>1 DEF Inv, Stores, Asking, Marker, Counts, Exclusive
<1>3. QED
  BY <1>1, <1>2, AsideKeeps

LEMMA FinishKeeps ==
    ASSUME Inv, Finish
    PROVE  Inv'
<1>1. /\ job' = [job EXCEPT !.kind = "none"] /\ rows' = stored
      /\ \/ tests' = [x \in Proxies |-> 0] /\ readings' = [p \in Profiles |-> NoReading]
         \/ UNCHANGED <<tests, readings>>
      /\ UNCHANGED <<stored, def, lease, pending, queued, jobs, copying, inbox, launch, session, count,
                     orphans>>
  BY DEF Finish, runtime
<1>2. Asking'
  BY <1>1 DEF Inv, Asking, NoReading, Tasks
<1>3. Stores' /\ Marker' /\ Counts' /\ ~Exclusive'
  BY <1>1 DEF Inv, Stores, Marker, Counts, Exclusive
<1>4. QED
  BY <1>1, <1>2, <1>3, AsideKeeps

\* A copy that begins finds nothing under way on the profiles it takes.
LEMMA OnCopyKeeps ==
    ASSUME Inv, OnCopy
    PROVE  Inv'
<1>1. /\ ~Exclusive /\ copying = {} /\ ActiveRows = {}
      /\ \A p \in DOMAIN stored : lease[p] = "none"
      /\ copying' = DOMAIN stored
      /\ lease' = [p \in Profiles |-> IF p \in DOMAIN stored THEN "copying" ELSE lease[p]]
      /\ UNCHANGED <<stored, def, rows, pending, queued, tests, readings, job, jobs, inbox, launch,
                     session, count, orphans>>
  BY DEF OnCopy, runtime
<1>2. DOMAIN stored \subseteq Profiles
  BY ConfigurationFacts DEF Inv, Stores
<1>3. Stores' /\ Asking' /\ Marker' /\ Counts' /\ ~Exclusive'
  BY <1>1 DEF Inv, Stores, Asking, Marker, Counts, Exclusive
<1>4. Holds'
  BY <1>1, <1>2, Held DEF Inv, Holds, Leases
<1>5. Matches(pending, queued, lease)'
  BY <1>1, Held DEF Matches
<1>6. count.starts <= count'.starts
  BY <1>1 DEF Inv, Counts
<1>7. Channel' /\ Published' /\ Commanded' /\ Numbered'
  BY <1>1, <1>3, <1>4, <1>6, StartsKept
<1>8. Visible'
  BY <1>1 DEF Inv, Visible
<1>9. Alone'
  BY <1>1, <1>2, <1>3, IdleFacts DEF Alone
<1>10. QED
  BY <1>3, <1>4, <1>5, <1>7, <1>8, <1>9 DEF Inv

LEMMA CopyEndsKeeps ==
    ASSUME Inv, CopyEnds
    PROVE  Inv'
<1>1. /\ copying # {} /\ copying' = {}
      /\ lease' = [p \in Profiles |-> IF p \in copying /\ lease[p] = "copying" THEN "none" ELSE lease[p]]
      /\ UNCHANGED <<stored, def, rows, pending, queued, tests, readings, job, jobs, inbox, launch,
                     session, count, orphans>>
  BY DEF CopyEnds, runtime
<1>2. Stores' /\ Asking' /\ Marker' /\ Counts' /\ Exclusive' = Exclusive
  BY <1>1 DEF Inv, Stores, Asking, Marker, Counts, Exclusive
<1>3. Holds'
  BY <1>1, Held DEF Inv, Holds, Leases
<1>4. Matches(pending, queued, lease)'
  BY <1>1, Held DEF Matches
<1>5. ~Exclusive
  BY <1>1 DEF Inv, Alone
<1>6. count.starts <= count'.starts
  BY <1>1 DEF Inv, Counts
<1>7. Settles
  BY <1>1, <1>2, <1>3, <1>4, <1>5, <1>6 DEF Settles
<1>8. QED
  BY <1>1, <1>7, SettlesKeeps

-----------------------------------------------------------------------------
(* The supervisor.                                                          *)

\* A snapshot is published for one profile: it is down, or as it was, or it is a
\* start's that is still queued.
LEMMA PutKeeps ==
    ASSUME Inv, NEW p \in Profiles, NEW state, NEW ack \in Nat, NEW through \in Tested,
           Put(p, state, ack, through), Undisturbed, Channel',
           state \in {"down", "moving", "running"}, ack <= count.starts,
           \/ state = "down"
           \/ state = session[p].state
           \/ queued[p] # 0 /\ p \in DOMAIN stored /\ p \notin copying /\ ~Exclusive,
           \A c \in Commands : Opens(c) /\ Due(c) /\ c.id = p =>
               \/ ack <= session[p].ack
               \/ launch' # c /\ \A i \in 1..Len(inbox') : inbox'[i] # c,
           \A i \in 1..Len(inbox') : Opens(inbox'[i]) => Due(inbox'[i]),
           \A i, j \in 1..Len(inbox') :
              i # j /\ Opens(inbox'[i]) /\ Opens(inbox'[j]) => inbox'[i].id # inbox'[j].id,
           launch' # None =>
              /\ Opens(launch') /\ Due(launch')
              /\ \A i \in 1..Len(inbox') : Opens(inbox'[i]) => inbox'[i].id # launch'.id
    PROVE  Inv'
<1>1. UNCHANGED <<stored, def, rows, lease, pending, queued, tests, readings, job, jobs, copying,
                  count, orphans>>
  BY DEF Undisturbed, window
<1>2. session[p].ack \in Nat /\ session[p].ack <= count.starts /\ session \in [Profiles -> Snapshots]
  BY SnapshotFacts DEF Inv, Numbered, Published
<1>3. PICK top : top = IF ack > session[p].ack THEN ack ELSE session[p].ack
  OBVIOUS
<1>4. session' = [session EXCEPT ![p] = [state |-> state, through |-> through, ack |-> top]]
  BY <1>3 DEF Put
<1>5. top \in Nat /\ top <= count.starts /\ session[p].ack <= top
      /\ (top = ack \/ top = session[p].ack) /\ (ack <= session[p].ack => top = session[p].ack)
  BY <1>2, <1>3
<1>6. /\ session'[p].state = state /\ session'[p].ack = top
      /\ \A q \in Profiles \ {p} : session'[q] = session[q]
  BY <1>2, <1>4
<1>7. Published'
  BY <1>2, <1>4, <1>5 DEF Published, Snapshots
<1>8. ASSUME NEW c \in Commands, Opens(c), Due(c), launch' = c \/ \E i \in 1..Len(inbox') : inbox'[i] = c
      PROVE  queued'[c.id] = c.request /\ session'[c.id].ack < c.request
  <2>1. c.id = p => top = session[p].ack
    BY <1>5, <1>8
  <2>2. c.id \in Profiles
    BY CommandFacts
  <2>3. session'[c.id].ack = session[c.id].ack
    BY <1>6, <2>1, <2>2
  <2>4. QED
    BY <1>1, <1>8, <2>3 DEF Due
<1>9. /\ \A i \in 1..Len(inbox') : inbox'[i] \in Commands
      /\ launch' # None => launch' \in Commands
  BY DEF Channel
<1>10. Commanded'
  <2>1. \A i \in 1..Len(inbox') : Opens(inbox'[i]) =>
           queued'[inbox'[i].id] = inbox'[i].request /\ session'[inbox'[i].id].ack < inbox'[i].request
    BY <1>8, <1>9
  <2>2. launch' # None =>
           queued'[launch'.id] = launch'.request /\ session'[launch'.id].ack < launch'.request
    BY <1>8, <1>9
  <2>3. QED
    BY <2>1, <2>2 DEF Commanded, Due, Opens
<1>11. Numbered'
  BY <1>1, <1>5, <1>6 DEF Inv, Numbered
<1>12. Visible'
  BY <1>1, <1>6 DEF Inv, Visible
<1>13. Alone'
  <2>1. Exclusive' = Exclusive
    BY <1>1 DEF Exclusive
  <2>2. \A q \in Profiles : session[q].state = "down" /\ (Exclusive \/ q \in copying) =>
           session'[q].state = "down"
    BY <1>6
  <2>3. copying \subseteq Profiles
    BY DEF Inv, Holds
  <2>4. QED
    BY <1>1, <2>1, <2>2, <2>3 DEF Inv, Alone
<1>14. Stores' /\ Holds' /\ Asking' /\ Marker' /\ Counts' /\ Matches(pending, queued, lease)'
  BY <1>1 DEF Inv, Stores, Holds, Asking, Marker, Counts, Matches
<1>15. QED
  BY <1>7, <1>10, <1>11, <1>12, <1>13, <1>14 DEF Inv

\* The channel without its first command.
LEMMA TailFacts ==
    ASSUME Inv, inbox # <<>>
    PROVE  /\ Tail(inbox) \in Seq(Commands) /\ Len(Tail(inbox)) <= QueueCap
           /\ 1 \in 1..Len(inbox) /\ Head(inbox) = inbox[1] /\ Head(inbox) \in Commands
           /\ \A i \in 1..Len(Tail(inbox)) :
                 /\ i + 1 \in 1..Len(inbox) /\ i + 1 # 1 /\ Tail(inbox)[i] = inbox[i + 1]
                 /\ Opens(Tail(inbox)[i]) => Due(Tail(inbox)[i])
           /\ \A i, j \in 1..Len(Tail(inbox)) :
                 i # j /\ Opens(Tail(inbox)[i]) /\ Opens(Tail(inbox)[j]) =>
                     Tail(inbox)[i].id # Tail(inbox)[j].id
<1>1. inbox \in Seq(Commands) /\ Len(inbox) \in Nat /\ Len(inbox) <= QueueCap /\ QueueCap \in Nat
  BY WindowAssumption DEF Inv, Channel
<1>2. /\ Tail(inbox) \in Seq(Commands) /\ Len(Tail(inbox)) = Len(inbox) - 1 /\ Len(inbox) > 0
      /\ Head(inbox) = inbox[1] /\ Head(inbox) \in Commands
      /\ \A i \in 1..Len(Tail(inbox)) : Tail(inbox)[i] = inbox[i + 1]
  BY <1>1
<1>3. \A i \in 1..Len(Tail(inbox)) : i + 1 \in 1..Len(inbox) /\ i + 1 # 1 /\ i \in Nat
  BY <1>1, <1>2
<1>4. \A i, j \in 1..Len(Tail(inbox)) : i # j => i + 1 # j + 1
  BY <1>3
<1>5. QED
  BY <1>1, <1>2, <1>3, <1>4 DEF Inv, Commanded

\* A command is taken: a start stays due until it is acknowledged, and when it is,
\* no other command of the channel is a start of the same profile.
LEMMA TakeKeeps ==
    ASSUME Inv, Take
    PROVE  Inv'
<1>1. /\ inbox # <<>> /\ launch = None /\ inbox' = Tail(inbox) /\ Undisturbed
      /\ \/ /\ Head(inbox).kind = "stop" /\ UNCHANGED launch
            /\ Put(Head(inbox).id, "down", 0, Unasked)
         \/ /\ Head(inbox).kind = "start" /\ Running(Head(inbox).id) /\ UNCHANGED launch
            /\ Put(Head(inbox).id, "running", Head(inbox).request, session[Head(inbox).id].through)
         \/ /\ Head(inbox).kind \in Hows
            /\ launch' = Head(inbox) /\ Put(Head(inbox).id, "moving", 0, Unasked)
  BY DEF Take, Hows
<1>2. /\ Tail(inbox) \in Seq(Commands) /\ Len(Tail(inbox)) <= QueueCap
      /\ 1 \in 1..Len(inbox) /\ Head(inbox) = inbox[1] /\ Head(inbox) \in Commands
      /\ \A i \in 1..Len(Tail(inbox)) :
            /\ i + 1 \in 1..Len(inbox) /\ i + 1 # 1 /\ Tail(inbox)[i] = inbox[i + 1]
            /\ Opens(Tail(inbox)[i]) => Due(Tail(inbox)[i])
      /\ \A i, j \in 1..Len(Tail(inbox)) :
            i # j /\ Opens(Tail(inbox)[i]) /\ Opens(Tail(inbox)[j]) =>
                Tail(inbox)[i].id # Tail(inbox)[j].id
  BY <1>1, TailFacts
<1>3. PICK c \in Commands : c = Head(inbox)
  BY <1>2
<1>4. Opens(c) => /\ Due(c) /\ \A i \in 1..Len(inbox') : Opens(inbox'[i]) => inbox'[i].id # c.id
  BY <1>1, <1>2, <1>3 DEF Inv, Commanded
<1>5. /\ \A i \in 1..Len(inbox') : Opens(inbox'[i]) => Due(inbox'[i])
      /\ \A i, j \in 1..Len(inbox') :
            i # j /\ Opens(inbox'[i]) /\ Opens(inbox'[j]) => inbox'[i].id # inbox'[j].id
      /\ inbox' \in Seq(Commands) /\ Len(inbox') <= QueueCap
  BY <1>1, <1>2
<1>6. c.id \in Profiles /\ (Opens(c) => c.request \in Nat) /\ None \notin Commands
  BY CommandFacts
<1>7. Unasked \in Tested /\ session[c.id].through \in Tested /\ session[c.id].ack \in Nat
      /\ 0 <= session[c.id].ack
  BY <1>6, SnapshotFacts DEF Inv, Unasked, Tested, Exits
<1>8. 0 <= count.starts /\ 0 \in Nat
  BY DEF Inv, Counts
<1>9. CASE /\ c.kind = "stop" /\ UNCHANGED launch
           /\ Put(c.id, "down", 0, Unasked)
  <2>1. Channel'
    BY <1>1, <1>5, <1>9 DEF Inv, Channel
  <2>2. launch' = None
    BY <1>1, <1>9
  <2>3. QED
    BY <1>1, <1>5, <1>6, <1>7, <1>8, <1>9, <2>1, <2>2, PutKeeps
<1>10. CASE /\ c.kind = "start" /\ Running(c.id) /\ UNCHANGED launch
            /\ Put(c.id, "running", c.request, session[c.id].through)
  <2>1. Channel' /\ launch' = None
    BY <1>1, <1>5, <1>10 DEF Inv, Channel
  <2>2. Opens(c)
    BY <1>10 DEF Opens, Hows
  <2>3. queued[c.id] = c.request /\ c.request \in Nat
    BY <1>4, <1>6, <2>2 DEF Due
  <2>4. c.request <= count.starts
    BY <1>6, <2>3 DEF Inv, Numbered
  <2>5. \A d \in Commands : Opens(d) /\ Due(d) /\ d.id = c.id =>
            launch' # d /\ \A i \in 1..Len(inbox') : inbox'[i] # d
    BY <1>4, <1>6, <2>1, <2>2
  <2>6. session[c.id].state = "running"
    BY <1>10 DEF Running
  <2>7. PICK t \in Tested : t = session[c.id].through
    BY <1>7
  <2>8. Put(c.id, "running", c.request, t)
    BY <1>10, <2>7
  <2>9. Undisturbed /\ "running" \in {"down", "moving", "running"}
    BY <1>1
  <2>10. \A d \in Commands : Opens(d) /\ Due(d) /\ d.id = c.id =>
             \/ c.request <= session[c.id].ack
             \/ launch' # d /\ \A i \in 1..Len(inbox') : inbox'[i] # d
    BY <2>5
  <2>11. QED
    BY <1>5, <1>6, <2>1, <2>3, <2>4, <2>6, <2>8, <2>9, <2>10, PutKeeps
<1>11. CASE /\ c.kind \in Hows
            /\ launch' = c /\ Put(c.id, "moving", 0, Unasked)
  <2>1. Opens(c)
    BY <1>11 DEF Opens
  <2>2. Due(c) /\ \A i \in 1..Len(inbox') : Opens(inbox'[i]) => inbox'[i].id # c.id
    BY <1>4, <2>1
  <2>3. /\ queued[c.id] # 0 /\ c.id \in DOMAIN stored /\ c.id \notin copying /\ ~Exclusive
    BY <2>1, <2>2, DueIsQueued
  <2>4. Channel'
    BY <1>5, <1>11 DEF Channel
  <2>5. Opens(launch') /\ Due(launch')
        /\ \A i \in 1..Len(inbox') : Opens(inbox'[i]) => inbox'[i].id # launch'.id
    BY <1>11, <2>1, <2>2
  <2>6. QED
    BY <1>1, <1>5, <1>6, <1>7, <1>8, <1>11, <2>3, <2>4, <2>5, PutKeeps
<1>12. QED
  BY <1>1, <1>3, <1>9, <1>10, <1>11

LEMMA DecideKeeps ==
    ASSUME Inv, Decide
    PROVE  Inv'
<1>1. /\ launch # None /\ launch' = None /\ Undisturbed
      /\ \/ inbox' = inbox
         \/ inbox # <<>> /\ inbox' = Tail(inbox)
      /\ \/ Put(launch.id, "running", launch.request, launch.through)
         \/ Put(launch.id, "down", launch.request, Unasked)
  BY DEF Decide
<1>2. PICK c \in Commands : c = launch
  BY <1>1, InboxFacts DEF Inv
<1>3. /\ Opens(c) /\ Due(c)
      /\ \A i \in 1..Len(inbox) : Opens(inbox[i]) => inbox[i].id # c.id
  BY <1>1, <1>2 DEF Inv, Commanded
<1>4. /\ c.id \in Profiles /\ c.request \in Nat /\ c.through \in Tested /\ Unasked \in Tested
      /\ None \notin Commands
  BY <1>3, CommandFacts DEF Unasked, Tested, Exits
<1>5. /\ queued[c.id] # 0 /\ c.id \in DOMAIN stored /\ c.id \notin copying /\ ~Exclusive
  BY <1>3, DueIsQueued
<1>6. c.request <= count.starts
  BY <1>3, <1>4 DEF Inv, Numbered, Due
<1>7. /\ \A i \in 1..Len(inbox') : Opens(inbox'[i]) => Due(inbox'[i]) /\ inbox'[i].id # c.id
      /\ \A i, j \in 1..Len(inbox') :
            i # j /\ Opens(inbox'[i]) /\ Opens(inbox'[j]) => inbox'[i].id # inbox'[j].id
      /\ inbox' \in Seq(Commands) /\ Len(inbox') <= QueueCap
  <2>1. CASE inbox' = inbox
    BY <1>3, <2>1 DEF Inv, Channel, Commanded
  <2>2. CASE inbox # <<>> /\ inbox' = Tail(inbox)
    BY <1>3, <2>2, TailFacts
  <2>3. QED
    BY <1>1, <2>1, <2>2
<1>8. Channel'
  BY <1>1, <1>7 DEF Channel
<1>9. \A d \in Commands : Opens(d) /\ Due(d) /\ d.id = c.id =>
          launch' # d /\ \A i \in 1..Len(inbox') : inbox'[i] # d
  BY <1>1, <1>4, <1>7
<1>10. CASE Put(c.id, "running", c.request, c.through)
  BY <1>1, <1>4, <1>5, <1>6, <1>7, <1>8, <1>9, <1>10, PutKeeps
<1>11. CASE Put(c.id, "down", c.request, Unasked)
  BY <1>1, <1>4, <1>5, <1>6, <1>7, <1>8, <1>9, <1>11, PutKeeps
<1>12. QED
  BY <1>1, <1>2, <1>10, <1>11

LEMMA BrowserEndsKeeps ==
    ASSUME Inv, NEW p \in Profiles, BrowserEnds(p)
    PROVE  Inv'
<1>1. Put(p, "down", 0, Unasked) /\ UNCHANGED <<inbox, launch>> /\ Undisturbed
  BY DEF BrowserEnds
<1>2. Unasked \in Tested /\ session[p].ack \in Nat /\ 0 <= session[p].ack /\ 0 <= count.starts
      /\ 0 \in Nat
  BY SnapshotFacts DEF Inv, Counts, Unasked, Tested, Exits
<1>3. Channel'
  BY <1>1 DEF Inv, Channel
<1>4. /\ \A i \in 1..Len(inbox') : Opens(inbox'[i]) => Due(inbox'[i])
      /\ \A i, j \in 1..Len(inbox') :
            i # j /\ Opens(inbox'[i]) /\ Opens(inbox'[j]) => inbox'[i].id # inbox'[j].id
      /\ launch' # None =>
            /\ Opens(launch') /\ Due(launch')
            /\ \A i \in 1..Len(inbox') : Opens(inbox'[i]) => inbox'[i].id # launch'.id
  BY <1>1 DEF Inv, Commanded
<1>5. QED
  BY <1>1, <1>2, <1>3, <1>4, PutKeeps

-----------------------------------------------------------------------------
(* The invariant.                                                           *)

LEMMA InitHolds ==
    ASSUME Init
    PROVE  Inv
<1>1. stored \in Configurations /\ DOMAIN stored = Profiles
  BY DEF Init, Configurations
<1>2. Stores /\ Holds /\ Asking /\ Marker
  BY <1>1 DEF Init, Stores, Holds, Leases, Checks, Exits, Hows, NoPending, Asking, Tasks, NoReading,
              Work, Marker
<1>3. QueueCap \in Nat
  BY WindowAssumption
<1>4. Channel
  BY <1>3 DEF Init, Channel
<1>5. Published /\ Counts
  BY DEF Init, Published, Snapshots, Tested, Exits, Unasked, Counts
<1>6. Matches(pending, queued, lease)
  BY DEF Init, Matches, NoPending
<1>7. Commanded
  BY DEF Init, Commanded
<1>8. Numbered /\ Visible /\ Alone
  BY <1>1 DEF Init, Numbered, Visible, Alone, Exclusive
<1>9. QED
  BY <1>2, <1>4, <1>5, <1>6, <1>7, <1>8 DEF Inv

LEMMA NextKeeps ==
    ASSUME Inv, [Next]_vars
    PROVE  Inv'
<1>1. CASE User
  <2>1. ASSUME NEW p \in Profiles, OpenProfile(p) \/ RowMenu(p) \/ ProfileForm(p)
        PROVE  Inv'
    BY <2>1, OpenDirectKeeps, OpenProxiedKeeps, OnStopKeeps, OnDeleteKeeps, OnVerifyKeeps,
       OnSaveProfileKeeps
    DEF OpenProfile, RowMenu, ProfileForm
  <2>2. ASSUME NEW x \in Proxies, ProxyMenu(x) \/ ProxyForm(x)
        PROVE  Inv'
    BY <2>2, OnTestKeeps, OnDeleteProxyKeeps, OnSaveProxyKeeps DEF ProxyMenu, ProxyForm
  <2>3. CASE Settings
    BY <2>3, OnImportKeeps, OnRestoreKeeps, OnCopyKeeps DEF Settings
  <2>4. QED
    BY <1>1, <2>1, <2>2, <2>3 DEF User
<1>2. CASE Workers
  BY <1>2, TestAnsweredKeeps, ReadingAnsweredKeeps, ImportAddsKeeps, RunRestoreKeeps, WorkDoneKeeps,
     CopyEndsKeeps, FinishKeeps
  DEF Workers
<1>3. CASE Tick
  BY <1>3, TickKeeps
<1>4. CASE Thread
  BY <1>4, TakeKeeps, DecideKeeps, BrowserEndsKeeps DEF Thread
<1>5. CASE UNCHANGED vars
  BY <1>5
  DEF vars, window, Inv, Stores, Holds, Asking, Marker, Channel, Published, Counts, Matches,
      Commanded, Due, Numbered, Visible, Alone, Exclusive
<1>6. QED
  BY <1>1, <1>2, <1>3, <1>4, <1>5 DEF Next

\* Every state of a run satisfies the invariant.
THEOREM WindowInvariant == Spec => []Inv
<1>1. Init => Inv
  BY InitHolds
<1>2. Inv /\ [Next]_vars => Inv'
  BY NextKeeps
<1>3. QED
  BY <1>1, <1>2, PTL DEF Spec

-----------------------------------------------------------------------------
(* What the invariant says of the leases.                                   *)

\* A copy, or a restore, has nothing under way beside it.
LEMMA Apart ==
    ASSUME Inv
    PROVE  CopyIsAlone
<1>1. ASSUME NEW c \in Commands, Opens(c), Due(c)
      PROVE  c.id \notin copying /\ ~Exclusive
  BY <1>1, DueIsQueued
<1>2. \A i \in 1..Len(inbox) : inbox[i].kind \in Hows =>
          inbox[i].id \notin copying /\ ~Exclusive
  BY <1>1, InboxFacts DEF Inv, Commanded, Opens
<1>3. launch # None => launch.id \notin copying /\ ~Exclusive
  BY <1>1, InboxFacts DEF Inv, Commanded
<1>4. copying # {} => ~Exclusive
  BY DEF Inv, Alone
<1>5. ASSUME NEW p \in copying \ orphans
      PROVE  Untouched(p)
  BY <1>2, <1>3 DEF Inv, Alone, Untouched
<1>6. ASSUME Exclusive, NEW p \in Profiles \ orphans
      PROVE  Untouched(p)
  BY <1>2, <1>3, <1>6 DEF Inv, Alone, Untouched
<1>7. QED
  BY <1>4, <1>5, <1>6 DEF CopyIsAlone

LEMMA Typed ==
    ASSUME Inv, clicks \in 0..MaxClicks
    PROVE  TypeOK
BY DEF TypeOK, Inv, Stores, Holds, Leases, Checks, Asking, Tasks, Work, Marker, Channel, Published,
       Snapshots, Counts

LEMMA ClicksBound ==
    ASSUME clicks \in 0..MaxClicks, [Next]_vars
    PROVE  clicks' \in 0..MaxClicks
<1>1. CASE User
  BY <1>1, WindowAssumption DEF User
<1>2. CASE UNCHANGED clicks
  BY <1>2
<1>3. QED
  BY <1>1, <1>2 DEF Next, vars

\* A profile is held for a start exactly while one waits for its proxy or for the
\* supervisor, for a copy exactly while the copy runs, and a copy or a restore
\* meets no browser and no start of what it works on.
THEOREM LeasesMatchWork == Spec => []LeaseMatchesWork
<1>1. Init => clicks \in 0..MaxClicks
  BY WindowAssumption DEF Init
<1>2. clicks \in 0..MaxClicks /\ [Next]_vars => (clicks \in 0..MaxClicks)'
  BY ClicksBound
<1>3. Inv /\ clicks \in 0..MaxClicks => LeaseMatchesWork
  <2> SUFFICES ASSUME Inv, clicks \in 0..MaxClicks
               PROVE  LeaseMatchesWork
    OBVIOUS
  <2>1. TypeOK /\ CopyIsAlone
    BY Typed, Apart
  <2>2. \A p \in Profiles : /\ lease[p] = "starting" <=> p \in Waiting \cup Queued
                            /\ lease[p] = "copying" <=> p \in copying
    BY Held DEF Matches, Waiting, Queued
  <2>3. Waiting \cap Queued = {}
    BY Held DEF Matches, Waiting, Queued
  <2>4. Queued \subseteq DOMAIN stored
    BY DEF Inv, Visible, Queued
  <2>5. QED
    BY <2>1, <2>2, <2>3, <2>4 DEF LeaseMatchesWork
<1>4. QED
  BY <1>1, <1>2, <1>3, WindowInvariant, PTL DEF Spec

-----------------------------------------------------------------------------
(* Readings.                                                                *)

\* The step of a reading's row: a reading that was under way is taken.
Lands(p) == readings'[p].task = 0 /\ readings'[p].of # 0 /\ readings[p].task # 0

\* Nothing but an answer lands.
LEMMA SendLandsNothing ==
    ASSUME Inv, NEW S \in SUBSET Profiles, NEW how, NEW asked, Send(S, how, asked), NEW p \in Profiles
    PROVE  ~Lands(p)
<1>1. PICK sent \in Seq(S) : \E number : SendsAs(S, how, asked, sent, number)
  BY SendFacts
<1>2. readings'[p] \in {NoReading, readings[p]}
  BY <1>1 DEF SendsAs
<1>3. QED
  BY <1>2 DEF Lands, NoReading

LEMMA OnlyAnswersLand ==
    ASSUME Inv, [Next]_vars, NEW p \in Profiles, Lands(p)
    PROVE  \E j \in jobs : ReadingAnswered(j)
<1>1. readings \in [Profiles -> Tasks] /\ (readings'[p] # NoReading) /\ (readings'[p] # readings[p])
  BY DEF Inv, Asking, Lands, NoReading
<1>2. ASSUME NEW q \in Profiles, OpenProfile(q) \/ RowMenu(q) \/ ProfileForm(q)
      PROVE  FALSE
  <2>1. CASE \E how \in Hows : OpenDirect(q, how)
    <3>1. PICK how \in Hows : OpenDirect(q, how)
      BY <2>1
    <3>2. Send({q}, [r \in {q} |-> how], Unasked)
      BY <3>1 DEF OpenDirect
    <3>3. PICK S \in SUBSET Profiles : S = {q}
      OBVIOUS
    <3>4. PICK ways : ways = [r \in {q} |-> how]
      OBVIOUS
    <3>5. Send(S, ways, Unasked)
      BY <3>2, <3>3, <3>4
    <3>6. QED
      BY <3>5, SendLandsNothing
  <2>2. CASE \E how \in Hows : OpenProxied(q, how)
    BY <1>1, <2>2 DEF OpenProxied
  <2>3. CASE OnStop(q) \/ OnDelete(q) \/ \E x \in Exits : OnSaveProfile(q, x)
    BY <1>1, <2>3 DEF OnStop, OnDelete, OnSaveProfile
  <2>4. CASE OnVerify(q)
    <3>1. readings' = [readings EXCEPT ![q] = [task |-> count.readings + 1, of |-> 0]]
      BY <2>4 DEF OnVerify
    <3>2. QED
      BY <1>1, <3>1 DEF Lands
  <2>5. QED
    BY <1>2, <2>1, <2>2, <2>3, <2>4 DEF OpenProfile, RowMenu, ProfileForm
<1>3. ASSUME NEW x \in Proxies, ProxyMenu(x) \/ ProxyForm(x)
      PROVE  FALSE
  BY <1>1, <1>3 DEF ProxyMenu, ProxyForm, OnTest, OnDeleteProxy, OnSaveProxy
<1>4. CASE Settings
  BY <1>1, <1>4 DEF Settings, OnImport, OnRestore, Begins, OnCopy
<1>5. ASSUME NEW j \in jobs, TestAnswered(j)
      PROVE  FALSE
  <2>1. PICK waiting : waiting = {q \in Profiles : pending[q].proxy = j.proxy}
    OBVIOUS
  <2>2. waiting \in SUBSET Profiles
    BY <2>1
  <2>3. PICK how : how = [q \in waiting |-> pending[q].how]
    OBVIOUS
  <2>4. Send(waiting, how, j.asked) \/ readings' = readings
    BY <1>5, <2>1, <2>3 DEF TestAnswered
  <2>5. QED
    BY <1>1, <2>2, <2>4, SendLandsNothing
<1>6. CASE (\E q \in Profiles, x \in Exits : ImportAdds(q, x)) \/ RunRestore \/ WorkDone \/ CopyEnds
  BY <1>1, <1>6 DEF ImportAdds, window, RunRestore, WorkDone, CopyEnds
<1>7. CASE Finish
  BY <1>1, <1>7 DEF Finish
<1>8. CASE Tick
  BY <1>1, <1>8 DEF Tick
<1>9. CASE Thread
  BY <1>1, <1>9 DEF Thread, Take, Decide, BrowserEnds, Undisturbed, window
<1>10. CASE UNCHANGED vars
  BY <1>1, <1>10 DEF vars, window
<1>11. QED
  BY <1>2, <1>3, <1>4, <1>5, <1>6, <1>7, <1>8, <1>9, <1>10 DEF Next, User, Workers

\* A reading lands on a row only while the browser it was read from runs, however
\* late the worker answers.
THEOREM ReadingsFit == Spec => ReadingFits
<1>1. ASSUME Inv, [Next]_vars, NEW p \in Profiles, Lands(p)
      PROVE  Running(p) /\ readings'[p].of = session[p].ack
  <2>1. PICK j \in jobs : ReadingAnswered(j)
    BY <1>1, OnlyAnswersLand
  <2>2. /\ j.kind = "reading"
        /\ readings' = IF readings[j.id].task # j.task THEN readings
                       ELSE [readings EXCEPT ![j.id] =
                                IF Current(j) THEN [task |-> 0, of |-> j.of] ELSE NoReading]
    BY <2>1 DEF ReadingAnswered
  <2>3. readings \in [Profiles -> Tasks] /\ readings'[p] # NoReading /\ readings'[p] # readings[p]
    BY <1>1 DEF Inv, Asking, Lands, NoReading
  <2>4. p = j.id /\ Current(j) /\ readings'[p].of = j.of
    BY <2>2, <2>3
  <2>5. QED
    BY <2>4 DEF Current
<1>2. Inv /\ [Next]_vars =>
          [\A p \in Profiles : readings'[p].task = 0 /\ readings'[p].of # 0 /\ readings[p].task # 0 =>
              Running(p) /\ readings'[p].of = session[p].ack]_vars
  BY <1>1 DEF Lands
<1>3. QED
  BY <1>2, WindowInvariant, PTL DEF Spec, ReadingFits

=============================================================================
